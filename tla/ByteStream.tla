----------------------------- MODULE ByteStream -----------------------------
(***************************************************************************)
(* What SerialCom promises whoever calls its send: the messages go out on  *)
(* the line whole, in the order they were handed over, and without end.    *)
(***************************************************************************)
EXTENDS Naturals, Sequences

CONSTANT Chunk      \* the messages, as sequences of bytes

VARIABLES
  stream,           \* the bytes of all messages handed over
  line              \* the bytes that are out

Init == stream = <<>> /\ line = <<>>

Write == \E c \in Chunk : stream' = stream \o c /\ UNCHANGED line

Transmit ==
  /\ \E k \in Len(line) + 1 .. Len(stream) : line' = SubSeq(stream, 1, k)
  /\ UNCHANGED stream

Next == Write \/ Transmit

Spec == Init /\ [][Next]_<<stream, line>>

Fairness == WF_<<stream, line>>(Transmit)
=============================================================================
