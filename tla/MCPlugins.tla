----------------------------- MODULE MCPlugins -----------------------------
(***************************************************************************)
(* Plugins for TLC.                                                        *)
(***************************************************************************)
EXTENDS Plugins, TLC

\* The threads that call are interchangeable
Symmetry == Permutations(Caller)
=============================================================================
