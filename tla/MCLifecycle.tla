----------------------------- MODULE MCLifecycle -----------------------------
(* The agent over two lives and up to five interrupts in each. *)
EXTENDS Lifecycle

MCTokens == Labels \cup {"<NUM>", "|", "curl", "proc", "1", "bad", "fffd"}
MCNumbers == {"1"}
MCEncoded == [t \in MCTokens |-> IF t = "bad" THEN "fffd" ELSE t]

Event(type, comm, detail) == [type |-> type, comm |-> comm, detail |-> detail]

(* A name that is not UTF-8, so that the file does not keep it as it is.      *)
MCEvents == {Event("EXEC", <<"curl">>, <<"proc", "1", "bad">>)}

(* The agent has ended for the last time, or waits for events that are all    *)
(* known and for an interrupt that does not come.                             *)
Quiet ==
    /\ accepted = MaxSignals \/ ~up
    /\ lives = MaxLives
    /\ UNCHANGED vars

MCSpec == Init /\ [][Next \/ Quiet]_vars
MCFairSpec == MCSpec /\ Fairness
=============================================================================
