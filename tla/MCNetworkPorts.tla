--------------------------- MODULE MCNetworkPorts ----------------------------
(* Small instances of NetworkPorts for TLC. *)
EXTENDS NetworkPorts, TLC

Between(lo, hi) == [min |-> lo, max |-> hi]

ThreePorts == {Between(1, 3)}
OnePort == {Between(1, 1)}

\* A restart may move the range; a reversed one stops the daemon.
OnePortEach == {Between(1, 1), Between(2, 2), Between(2, 1)}

Symmetry == Permutations(Callers) \cup Permutations(Accounts \ BlankAccounts)
=============================================================================
