--------------------------- MODULE MCRouterLifecycle ---------------------------
(* Instances of RouterLifecycle for TLC. *)
EXTENDS RouterLifecycle

CONSTANTS c1, c2

OneClient == {c1}
TwoClients == {c1, c2}

=============================================================================
