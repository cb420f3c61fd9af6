------------------------- MODULE MCApplicationLayer -------------------------
(***************************************************************************)
(* Small instances of ApplicationLayer: plants with one sensor each, and   *)
(* two requests.                                                           *)
(***************************************************************************)
EXTENDS ApplicationLayer, TLC

CONSTANTS a, b, s1

Asked(n, start, sample, rate) ==
  [to |-> n, sensor |-> s1, start |-> start, sample |-> sample, rate |-> rate]

Asks == << Asked(a, TRUE, FALSE, 0), Asked(b, FALSE, TRUE, 50) >>

Updates == (a :> 3) @@ (b :> 0)
=============================================================================
