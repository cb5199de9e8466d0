---- MODULE MCAgentLoop ----
(* Two requests per batch and two batches, rolled out as a conversation    *)
(* with tools, as one continuous stream with a table of environments that  *)
(* has room for the batch or is too small, and by agent loops.             *)
EXTENDS AgentLoop

MCSetup(c, t, a, n) ==
    [conversation |-> c, tools |-> t, agent |-> a, maxInstances |-> n]
MCSetups == {MCSetup(TRUE, TRUE, FALSE, 2), MCSetup(FALSE, FALSE, FALSE, 2),
             MCSetup(FALSE, FALSE, FALSE, 1), MCSetup(FALSE, TRUE, TRUE, 1)}
====
