--------------------------- MODULE MCDhcpClient ---------------------------
(* Instances of DhcpClient for TLC. *)
EXTENDS DhcpClient, TLC
Symmetry == Permutations(Server) \cup Permutations(Xid)
=============================================================================
