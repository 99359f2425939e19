------------------------ MODULE MCEscalationLimiter -------------------------
(* The escalation limiter on small numbers, its clock and count bounded.     *)
EXTENDS EscalationLimiter
=============================================================================
