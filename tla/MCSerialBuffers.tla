-------------------------- MODULE MCSerialBuffers ---------------------------
(***************************************************************************)
(* A small instance of SerialBuffers. Two messages that differ to send; of *)
(* the host's, one is kept in the slot, its payload looks like a header,   *)
(* one without a payload is served by a fiber, nothing listens to the      *)
(* third.                                                                  *)
(***************************************************************************)
EXTENDS SerialBuffers

M(i, v, p) == [id |-> i, value |-> v, payload |-> p]

OutMessages == {M(1, 2, <<>>), M(2, 1, <<>>)}
InMessages == {M(1, 2, <<2, 1>>), M(2, 1, <<>>), M(3, 3, <<>>)}
Listeners == {<<1, 2>>, <<2, 1>>}
Slots == {<<1, 2>>}
=============================================================================
