--------------------------- MODULE MCDhcpServer ---------------------------
(* Instances of DhcpServer for TLC. *)
EXTENDS DhcpServer, TLC
Symmetry == Permutations(Client)
=============================================================================
