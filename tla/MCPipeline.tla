----------------------------- MODULE MCPipeline ------------------------------
(* The pipeline on a host with three processes, the agent among them, and the  *)
(* default thresholds.                                                        *)
EXTENDS Pipeline, TLC

MCComms == {"sshd", "curl", "watchbpf-agent"}
MCProtected == {"sshd"}
MCExcluded == {"watchbpf-agent"}
MCPids == {7, 8, 9}
MCInitialProcs ==
    7 :> "watchbpf-agent" @@ 8 :> "curl" @@ 9 :> "sshd"

Event(type, comm, pid, v6) ==
    [type |-> type, comm |-> comm, pid |-> pid, v6 |-> v6]

(* One of each kind that handleEvent or the actions tell apart. *)
Connects == Event("CONNECT", "curl", 8, FALSE)
ConnectsV6 == Event("CONNECT", "curl", 8, TRUE)
Protected == Event("OPEN", "sshd", 9, FALSE)
Baseline == Event("EXEC", "curl", 8, FALSE)
Itself == Event("OPEN", "watchbpf-agent", 7, FALSE)

(* What computeHash joins of a record: contents, but no field names. *)
MCRaw ==
    [b \in Bodies |-> <<b.ev.type, b.ev.comm, b.ev.v6, b.ev.pid, b.score,
                        b.decision.tier, b.decision.reason>>]

Reply(score, action) ==
    [json |-> TRUE, threat_score |-> score, action |-> action]

Kills == Reply(95, "kill")
Pauses == Reply(75, "alert")
Logs == Reply(39, "log")

(* Answers that parseAssessment rejects. *)
OutOfRange == Reply(250, "kill")
OffSchema == Reply(95, "reboot")

MCEvents == {Connects, Protected, Baseline, Itself}
MCKnown == {Baseline}
MCResponses == {Kills, Pauses, Logs, OutOfRange, OffSchema}

SomeEvents == {Connects, ConnectsV6}
OneEvent == {Connects}
KillingResponses == {Kills}
PausingResponses == {Pauses, OutOfRange}

(* The agent waits for events at its ring buffers, all that earlier events    *)
(* caused is done, and the clock has run out.  Any other standstill is a      *)
(* deadlock.                                                                  *)
Quiet ==
    /\ up
    /\ now = Horizon
    /\ \A label \in Labels : limited[label] = {}
    /\ \A j \in 1..Len(jobs) : jobs[j].pc \in Finished
    /\ UNCHANGED vars

MCSpec == Init /\ [][Next \/ Quiet]_vars
MCFairSpec == MCSpec /\ Fairness
=============================================================================
