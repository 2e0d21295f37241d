--------------------------- MODULE MCWorkflowRun ---------------------------
(* Instances of WorkflowRun for TLC: a and b may start at once; c follows b *)
(* and writes the same files as a; d needs a and c.  Only a has a hard      *)
(* timeout and a second attempt.                                            *)
EXTENDS WorkflowRun

CONSTANTS a, b, c, d

MCOrder     == <<a, b, c, d>>
MCDeps      == [t \in Tasks |-> CASE t = c -> {b} [] t = d -> {a, c} [] OTHER -> {}]
MCConflicts == {<<a, c>>, <<c, a>>}
MCAttempts  == [t \in Tasks |-> IF t = a THEN 2 ELSE 1]
MCRetryOn   == [t \in Tasks |-> IF t = a THEN {"failed", "killed"} ELSE {"failed"}]
MCPlans     == {[policy |-> "skip-dependents", limit |-> 2, host |-> "standalone"],
                [policy |-> "fail-fast",       limit |-> 2, host |-> "daemon"],
                [policy |-> "continue",        limit |-> 1, host |-> "daemon"]}

=============================================================================
