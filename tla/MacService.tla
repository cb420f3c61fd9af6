----------------------------- MODULE MacService -----------------------------
(***************************************************************************)
(* What the MAC layer promises the layer above it (MacLayer.h, send, recv  *)
(* and the events MAC_LAYER_PACKET_SENT, _TIMEOUT and _PACKET_RECEIVED),   *)
(* with no packet, queue, acknowledgement or timer: MacLayer implements it *)
(* (MacRefinement).                                                        *)
(*                                                                         *)
(* The promise for a message that is fragmented is weaker: SENT may come   *)
(* before the destination has all of it, TIMEOUT may be fired once per     *)
(* fragment and after SENT; but SENT never follows TIMEOUT.                *)
(***************************************************************************)
EXTENDS Naturals, Sequences

CONSTANTS Node, Broadcast, MaxFrag

VARIABLES
  msgs,   \* per node: the messages submitted to it, with the events fired
  got     \* per node: the messages <<source, index>> handed to its upper layer

vars == <<msgs, got>>

Init ==
  /\ msgs = [n \in Node |-> <<>>]
  /\ got = [n \in Node |-> {}]

Submit(n) ==
  \E dest \in (Node \ {n}) \cup {Broadcast}, total \in 1 .. MaxFrag :
    /\ msgs' = [msgs EXCEPT ![n] =
         Append(@, [dest |-> dest, total |-> total, sent |-> 0, timeouts |-> 0])]
    /\ UNCHANGED got

\* Also after SENT or TIMEOUT, and more than once: a retransmission may arrive
\* when the receiver has forgotten the message.
Deliver(n) ==
  \E m \in Node \ {n} : \E k \in DOMAIN msgs[m] :
    /\ msgs[m][k].dest \in {n, Broadcast}
    /\ got' = [got EXCEPT ![n] = @ \cup {<<m, k>>}]
    /\ UNCHANGED msgs

Sent(n) ==
  \E k \in DOMAIN msgs[n] :
    LET m == msgs[n][k]
    IN /\ m.dest # Broadcast /\ m.sent = 0 /\ m.timeouts = 0
       /\ m.total = 1 => <<n, k>> \in got[m.dest]
       /\ msgs' = [msgs EXCEPT ![n][k].sent = 1]
       /\ UNCHANGED got

GaveUp(m, fragments) == [m EXCEPT !.timeouts = @ + fragments]

\* One run of the timer may give several messages up.
TimedOut(n) ==
  \E lost \in SUBSET DOMAIN msgs[n] : \E count \in [lost -> 1 .. MaxFrag] :
    /\ \A k \in lost :
         /\ msgs[n][k].dest # Broadcast
         /\ msgs[n][k].total = 1 => msgs[n][k].sent = 0
         /\ msgs[n][k].timeouts + count[k] <= msgs[n][k].total
    /\ msgs' = [msgs EXCEPT ![n] = [k \in DOMAIN msgs[n] |->
         IF k \in lost THEN GaveUp(msgs[n][k], count[k]) ELSE msgs[n][k]]]
    /\ UNCHANGED got

Next == \E n \in Node : Submit(n) \/ Deliver(n) \/ Sent(n) \/ TimedOut(n)

Spec == Init /\ [][Next]_vars
=============================================================================
