--------------------------- MODULE MacRefinement ---------------------------
(***************************************************************************)
(* MacLayer implements MacService: the service's view of a message is its  *)
(* log entry without the sequence number it travelled under.               *)
(***************************************************************************)
EXTENDS MacLayer

ViewOf(m) == [dest |-> m.dest, total |-> m.total, sent |-> m.sent,
              timeouts |-> m.timeouts]

Service == INSTANCE MacService WITH
  msgs <- [n \in Node |-> [k \in DOMAIN log[n] |-> ViewOf(log[n][k])]]

\* Every step of the MAC layer is a step of the service or leaves what the
\* upper layers can see unchanged.
ImplementsService == Service!Spec
=============================================================================
