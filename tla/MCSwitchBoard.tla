--------------------------- MODULE MCSwitchBoard ---------------------------
(* Instances of SwitchBoard for TLC.                                       *)
EXTENDS SwitchBoard
=============================================================================
