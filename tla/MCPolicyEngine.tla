--------------------------- MODULE MCPolicyEngine ---------------------------
(* The policy engine with the default thresholds and at most two actions per *)
(* window of three ticks.                                                    *)
EXTENDS PolicyEngine

MCComms == {"sshd", "curl"}
MCProtected == {"sshd"}

(* Both sides of every threshold of config.Default. *)
MCScores == {0, 39, 40, 69, 70, 89, 90, 100}
=============================================================================
