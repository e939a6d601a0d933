--------------------------- MODULE MCJsonRpcMuxer ---------------------------
(* Instances of JsonRpcMuxer for TLC.                                      *)
EXTENDS JsonRpcMuxer, TLC

\* Clients, workers and batches are interchangeable: sound for safety.
Symmetry == Permutations(Client) \cup Permutations(Worker) \cup Permutations(Batch)
=============================================================================
