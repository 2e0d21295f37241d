------------------------- MODULE MCSessionCommands -------------------------
(* Instances of SessionCommands for TLC. *)
EXTENDS SessionCommands

=============================================================================
