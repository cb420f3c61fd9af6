--------------------------- MODULE MCNetworkLayer ---------------------------
(***************************************************************************)
(* Small instances of NetworkLayer: the sink s and the nodes a and b.      *)
(***************************************************************************)
EXTENDS NetworkLayer

CONSTANTS s, a, b, f, g

Nobody == [n \in Node |-> NULL]
None == [n \in Node |-> 0]

\* Everyone hears everyone, or the sink hears a only.
Star == [n \in Node |-> Node \ {n}]
Line == (s :> {a}) @@ (a :> {s, b}) @@ (b :> {a})

Once(S) == [n \in Node |-> IF n \in S THEN 1 ELSE 0]
SinkOnce == Once({s})
RelayOnce == Once({a})
LeafTwice == [n \in Node |-> IF n = b THEN 2 ELSE 0]
=============================================================================
