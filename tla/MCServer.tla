------------------------------ MODULE MCServer ------------------------------
(* Instances of Server for model checking. *)
EXTENDS Server, TLC

CONSTANTS c1, c2, c3

TwoClients == {c1, c2}
ThreeClients == {c1, c2, c3}

=============================================================================
