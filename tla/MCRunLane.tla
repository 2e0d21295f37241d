----------------------------- MODULE MCRunLane -----------------------------
(* The instance of RunLane for TLC: three inputs, commands one at a time.  *)
EXTENDS RunLane

=============================================================================
