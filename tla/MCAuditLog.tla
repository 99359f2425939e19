----------------------------- MODULE MCAuditLog ------------------------------
(* The audit log with two ordinary bodies, one that holds invalid UTF-8,      *)
(* which json.Marshal turns into the replacement character, and one in which  *)
(* a "|" and what follows have moved from the name of exec to its detail.     *)
EXTENDS AuditLog

CONSTANTS exec, moved, connect, badUTF8, replaced

MCBodies == {exec, moved, connect, badUTF8, replaced}

MCEncoded ==
    [b \in MCBodies |-> IF b = badUTF8 THEN replaced ELSE b]

MCRaw == [b \in MCBodies |-> IF b = moved THEN exec ELSE b]

MCStableBodies == {exec, connect}

MCStableEncoded == [b \in MCStableBodies |-> b]

AllFaults == FaultKinds
=============================================================================
