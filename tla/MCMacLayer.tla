----------------------------- MODULE MCMacLayer -----------------------------
(***************************************************************************)
(* Small instances of MacLayer. Sequence numbers start at the last one, so *)
(* that the first message makes them wrap, as 248 .. 255, 0 do.            *)
(***************************************************************************)
EXTENDS MacRefinement

CONSTANTS a, b, c

OneSender == (a :> 2) @@ (b :> 0)
OneMessage == (a :> 1) @@ (b :> 0)
BothSend == (a :> 1) @@ (b :> 1)
ThreeNodes == (a :> 1) @@ (b :> 0) @@ (c :> 0)
NoRestart == [n \in Node |-> 0]
SenderRestarts == (a :> 1) @@ (b :> 0)
=============================================================================
