--------------------------- MODULE ManagedBuffer ----------------------------
(***************************************************************************)
(* The reference-counted buffers of source/ManagedBuffer.cpp: a handle is  *)
(* the address of a block on the heap, which holds the bytes and counts    *)
(* the handles.  The operators return the heap after a construction, a     *)
(* copy, an assignment or a destruction; RefCounted, of the micro:bit's    *)
(* library, frees a block whose last handle is gone.                       *)
(***************************************************************************)
EXTENDS Naturals, FiniteSets

\* malloc.
NewBlock(heap) ==
  CHOOSE a \in 1 .. Cardinality(DOMAIN heap) + 1 : a \notin DOMAIN heap

\* The block at a is taken: it has one handle.
Allocated(heap, a, bytes) ==
  [b \in DOMAIN heap \cup {a} |-> IF b = a THEN [refs |-> 1, bytes |-> bytes] ELSE heap[b]]

NotFilled(heap, a, bytes) == Allocated(heap, a, <<>>)      \* mutant: no memcpy
Construct(heap, a, bytes) == Allocated(heap, a, bytes)

Copy(heap, a) == [heap EXCEPT ![a].refs = @ + 1]

NeverFreed(heap, a) == [heap EXCEPT ![a].refs = @ - 1]     \* mutant: no free
Destroy(heap, a) ==
  IF heap[a].refs = 1 THEN [b \in DOMAIN heap \ {a} |-> heap[b]]
  ELSE [heap EXCEPT ![a].refs = @ - 1]

\* operator =: the handle of a becomes one of b.
Assign(heap, a, b) == IF a = b THEN heap ELSE Copy(Destroy(heap, a), b)

\* A function is called with a handle by value, which it destroys at its end.
Called(heap, a, Body(_)) == Destroy(Body(Copy(heap, a)), a)
=============================================================================
