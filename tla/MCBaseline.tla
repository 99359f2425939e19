----------------------------- MODULE MCBaseline ------------------------------
(* Two names whose details differ in a number alone, a third whose "|" makes  *)
(* its key that of the second, and two details that the file cannot keep      *)
(* apart, with different numbers.                                             *)
EXTENDS Baseline

MCLabels == {"EXEC", "OPEN", "CONNECT"}
MCTokens ==
    MCLabels \cup {NUM, BAR, "curl", "sshd", "proc", "1", "2", "bad", "fffd"}
MCNumbers == {"1", "2"}
MCEncoded == [t \in MCTokens |-> IF t = "bad" THEN "fffd" ELSE t]

Event(type, comm, detail) == [type |-> type, comm |-> comm, detail |-> detail]

MCEvents ==
    {Event("OPEN", <<"curl">>, <<"proc", BAR, "1">>),
     Event("OPEN", <<"sshd">>, <<"proc", BAR, "2">>),
     Event("OPEN", <<"sshd", BAR, "proc">>, <<"1">>),
     Event("EXEC", <<"curl">>, <<"bad", "1">>),
     Event("EXEC", <<"curl">>, <<"fffd", "2">>)}
=============================================================================
