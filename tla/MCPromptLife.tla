---------------------------- MODULE MCPromptLife ----------------------------
(* Instances of PromptLife for TLC. *)
EXTENDS PromptLife

=============================================================================
