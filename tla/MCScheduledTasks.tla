-------------------------- MODULE MCScheduledTasks --------------------------
(* An instance of ScheduledTasks for TLC: a task with a rule, which reports *)
(* to the chat, and one with a single instant, which runs apart.            *)
EXTENDS ScheduledTasks

CONSTANTS r, o

Setting(once, overlap, missed, maxRuns, untilSuccess, inChat) ==
    [once |-> once, overlap |-> overlap, missed |-> missed, maxRuns |-> maxRuns,
     untilSuccess |-> untilSuccess, inChat |-> inChat]

MCPolicies ==
    {[t \in Tasks |-> IF t = r THEN Setting(FALSE, "queue", "run_once", 2, FALSE, TRUE)
                               ELSE Setting(TRUE, "skip", "skip", 0, TRUE, FALSE)]}

=============================================================================
