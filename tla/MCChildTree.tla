---------------------------- MODULE MCChildTree ----------------------------
(* Instances of ChildTree for TLC: the ids and the bounds are in the .cfg.  *)
EXTENDS ChildTree

=============================================================================
