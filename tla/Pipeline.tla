------------------------------ MODULE Pipeline -------------------------------
(***************************************************************************)
(* The filter-mode pipeline of cmd/watchbpf-agent/main.go: from an event in *)
(* a ring buffer to a signal, with everything that runs concurrently on the *)
(* way.                                                                     *)
(*                                                                         *)
(*   reader goroutine   handleEvent: baseline filter, escalation limiter,   *)
(*   (one per probe)    and either the audit record of a rate-limited event *)
(*                      or `go func() { ... processLLM ... }`               *)
(*   job goroutine      llmSemaphore, Assess, Evaluate, Log, then           *)
(*   (one per event)    KillProcess, PauseProcess, IsolateIP                *)
(*   kernel             the processes events come from and signals go to,   *)
(*                      which live on between the two                       *)
(*                                                                         *)
(* The limiter, the policy engine and the audit log are the modules of      *)
(* those components: their critical sections are single steps, and between  *)
(* two of them any other goroutine may run.                                 *)
(***************************************************************************)
EXTENDS Integers, Sequences, FiniteSets

CONSTANTS
    Events,             \* events the probes may deliver, see EventType
    Known,              \* those for which store.IsKnown: fixed in filter mode
    Responses,          \* what the LLM may answer, see ResponseType
    Slots,              \* capacity of llmSemaphore, 3
    excludedComms,
    selfPID,
    Pids,
    InitialProcs,       \* the name of the process behind each pid at the start
    Mortal,             \* Pids whose process may exec, exit or be replaced
    MaxChurn,           \* bound on how often that happens
    MaxEvents,          \* bound on the escalated events
    MaxLives,           \* bound on the starts of the agent
    \* of the policy engine
    Comms, protectedComms,
    thresholdAlert, thresholdSoft, thresholdHard, maxActionsPerWindow,
    \* of the escalation limiter
    EscalationLimit,
    \* of the audit log
    Raw, Faults,
    \* of both limiters
    Window, Horizon

Labels == {"EXEC", "OPEN", "CONNECT"}

Gone == "no process"
NoComm == "nothing"

(* comm and pid are those of the calling process.  v6: the detail of a       *)
(* CONNECT is "[address]:port".                                              *)
EventType == [type : Labels, comm : Comms, pid : Pids, v6 : BOOLEAN]

(* An answer of the LLM.  json: it unmarshals into a ThreatAssessment. *)
ResponseType == [json : BOOLEAN, threat_score : Int, action : STRING]

ASSUME PipelineAssumption ==
    /\ Events \subseteq EventType
    /\ Responses \subseteq ResponseType
    /\ Slots \in Nat \ {0}
    /\ InitialProcs \in [Pids -> Comms]
    /\ {MaxChurn, MaxEvents, MaxLives} \subseteq Nat
    /\ Gone \notin Comms /\ NoComm \notin Comms

VARIABLES
    \* the clock, the policy engine, the escalation limiter, the audit log
    now, live, actionTimestamps, taken,
    escalationCount, escalationWindow, admitted,
    file, unterminated, lastHash, up, logged, clean,
    limited,        \* per reader: the rate-limited event it is still to count
                    \* or to audit
    jobs,           \* the goroutines started by handleEvent, in order
    llmSemaphore,   \* tokens in the channel
    metrics,        \* the counters of internal/metrics
    lives,          \* how often the agent was started
    past,           \* history: two counters, of the lives that have ended
    procs,          \* kernel: the name of the process behind each pid
    churns,         \* kernel: how often a process changed on its own
    blocked         \* kernel: CONNECT events whose address nftables drops

policyVars == <<live, actionTimestamps, taken>>
escalationVars == <<escalationCount, escalationWindow, admitted>>
auditVars == <<file, unterminated, lastHash, up, logged, clean>>
lifeVars == <<lives, past>>
agentVars == <<limited, jobs, llmSemaphore, metrics, lifeVars>>
kernelVars == <<procs, churns, blocked>>
vars == <<now, policyVars, escalationVars, auditVars, agentVars, kernelVars>>

-----------------------------------------------------------------------------
(* Mutant: no bounds on the score. *)
AcceptedAnyScore(r) ==
    r.json /\ r.action \in {"log", "alert", "isolate", "kill"}

(* parseAssessment: the answers that are not turned into an error. *)
Accepted(r) ==
    /\ r.json
    /\ r.threat_score \in 0..100
    /\ r.action \in {"log", "alert", "isolate", "kill"}

AcceptedScores == {r.threat_score : r \in {s \in Responses : Accepted(s)}}

Engine == INSTANCE PolicyEngine WITH Scores <- AcceptedScores

NoScore == -1
NoDecision == [tier |-> "none", reason |-> "none"]

(* The audit record of a job, and of a rate-limited event, which carries the *)
(* score -1.                                                                 *)
Body(ev, score, decision) == [ev |-> ev, score |-> score, decision |-> decision]

RateLimitedBody(ev) ==
    Body(ev, NoScore, [tier |-> "rate_limited", reason |-> "escalation storm"])

Bodies ==
    [ev : Events, score : AcceptedScores, decision : Engine!Decision]
        \cup {RateLimitedBody(ev) : ev \in Events}

Escalation == INSTANCE EscalationLimiter WITH CountCap <- MaxEvents

(* Strings that json.Marshal changes are the audit log's own subject. *)
Encoded == [body \in Bodies |-> body]

Audit == INSTANCE AuditLog WITH MaxLog <- MaxEvents

(* What the three components assume of their constants. *)
ASSUME ComponentsAssumption ==
    /\ {thresholdAlert, thresholdSoft, thresholdHard} \subseteq Int
    /\ maxActionsPerWindow \in Nat
    /\ EscalationLimit \in Nat \ {0}
    /\ Window \in Nat \ {0} /\ Horizon \in Nat
    /\ Faults \subseteq Audit!FaultKinds

(* auditLogger.Log, and what may become of its write. *)
WriteAudit(body) ==
    Audit!Log(body) \/ Audit!LogLost(body) \/ Audit!LogTorn(body)

-----------------------------------------------------------------------------
(* The reader goroutines: handleEvent.                                      *)

(* A process raises ev, and handleEvent neither skips it as the agent's or   *)
(* the LLM's own nor finds it in the baseline.                               *)
Escalates(label, ev) ==
    /\ up
    /\ limited[label] = {}
    /\ ev.type = label
    /\ procs[ev.pid] = ev.comm
    /\ ev.pid # selfPID
    /\ ev.comm \notin excludedComms
    /\ ev \notin Known
    /\ past.escalated + metrics.escalated < MaxEvents

NewJob(ev) ==
    [ev |-> ev, pc |-> "queued", score |-> NoScore, decision |-> NoDecision,
     life |-> lives, at |-> -1, hit |-> NoComm, live |-> FALSE]

(* Mutant: escalationMu is not held, and an increment is lost. *)
SpawnJobLosesUpdate(label, ev) ==
    /\ Escalates(label, ev)
    /\ admitted' = Append(admitted, now)
    /\ jobs' = Append(jobs, NewJob(ev))
    /\ metrics' = [metrics EXCEPT !.escalated = @ + 1]
    /\ UNCHANGED <<now, policyVars, escalationCount, escalationWindow, auditVars,
                   limited, llmSemaphore, lifeVars, kernelVars>>

(* handleEvent within the limit: the event gets a goroutine. *)
SpawnJob(label, ev) ==
    /\ Escalates(label, ev)
    /\ Escalation!EscalateWithin
    /\ jobs' = Append(jobs, NewJob(ev))
    /\ metrics' = [metrics EXCEPT !.escalated = @ + 1]
    /\ UNCHANGED <<policyVars, auditVars, limited, llmSemaphore, lifeVars,
                   kernelVars>>

(* handleEvent over the limit, up to escalationMu.Unlock. *)
TurnAway(label, ev) ==
    /\ Escalates(label, ev)
    /\ Escalation!EscalateOver
    /\ limited' = [limited EXCEPT ![label] = {[ev |-> ev, counted |-> FALSE]}]
    /\ metrics' = [metrics EXCEPT !.escalated = @ + 1]
    /\ UNCHANGED <<policyVars, auditVars, jobs, llmSemaphore, lifeVars,
                   kernelVars>>

(* ... the counter and the console message that follow ... *)
CountRateLimited(label) ==
    /\ \E r \in limited[label] :
           /\ ~r.counted
           /\ limited' = [limited EXCEPT ![label] = {[ev |-> r.ev, counted |-> TRUE]}]
    /\ metrics' = [metrics EXCEPT !.rateLimited = @ + 1]
    /\ UNCHANGED <<now, policyVars, escalationVars, auditVars, jobs, llmSemaphore,
                   lifeVars, kernelVars>>

(* Mutant: the reader returns without writing the record. *)
AuditRateLimitedSkips(label) ==
    /\ \E r \in limited[label] : r.counted
    /\ limited' = [limited EXCEPT ![label] = {}]
    /\ UNCHANGED <<now, policyVars, escalationVars, auditVars, jobs, llmSemaphore,
                   metrics, lifeVars, kernelVars>>

(* ... and the audit record.  The error of Log is ignored. *)
AuditRateLimited(label) ==
    /\ \E r \in limited[label] : r.counted /\ WriteAudit(RateLimitedBody(r.ev))
    /\ limited' = [limited EXCEPT ![label] = {}]
    /\ UNCHANGED <<now, policyVars, escalationVars, jobs, llmSemaphore, metrics,
                   lifeVars, kernelVars>>

-----------------------------------------------------------------------------
(* The job goroutines.                                                      *)

At(j, pc) == up /\ j \in 1..Len(jobs) /\ jobs[j].pc = pc

Goto(j, pc) == jobs' = [jobs EXCEPT ![j].pc = pc]

(* processLLM returns and the deferred receive frees the slot. *)
Release == llmSemaphore' = llmSemaphore - 1

(* Mutant: the channel has no capacity to wait for. *)
AcquireUnlimited(j) ==
    /\ At(j, "queued")
    /\ llmSemaphore' = llmSemaphore + 1
    /\ Goto(j, "assess")
    /\ UNCHANGED <<now, policyVars, escalationVars, auditVars, limited, metrics,
                   lifeVars, kernelVars>>

(* llmSemaphore <- struct{}{} *)
Acquire(j) ==
    /\ At(j, "queued")
    /\ llmSemaphore < Slots
    /\ llmSemaphore' = llmSemaphore + 1
    /\ Goto(j, "assess")
    /\ UNCHANGED <<now, policyVars, escalationVars, auditVars, limited, metrics,
                   lifeVars, kernelVars>>

(* Mutants: the early return skips the receive; it skips the counter. *)
AssessErrorLeaks(j) ==
    /\ At(j, "assess")
    /\ Goto(j, "done")
    /\ metrics' = [metrics EXCEPT !.llmError = @ + 1]
    /\ UNCHANGED <<now, policyVars, escalationVars, auditVars, limited,
                   llmSemaphore, lifeVars, kernelVars>>

AssessErrorUncounted(j) ==
    /\ At(j, "assess")
    /\ Goto(j, "done")
    /\ Release
    /\ UNCHANGED <<now, policyVars, escalationVars, auditVars, limited, metrics,
                   lifeVars, kernelVars>>

(* Assess fails: no answer before the 60 s deadline, or one that             *)
(* parseAssessment or the decoding of the envelope rejects.                  *)
AssessError(j) ==
    /\ At(j, "assess")
    /\ Goto(j, "done")
    /\ Release
    /\ metrics' = [metrics EXCEPT !.llmError = @ + 1]
    /\ UNCHANGED <<now, policyVars, escalationVars, auditVars, limited,
                   lifeVars, kernelVars>>

AssessSuccess(j) ==
    /\ At(j, "assess")
    /\ \E r \in Responses :
           /\ Accepted(r)
           /\ jobs' = [jobs EXCEPT ![j].pc = "evaluate",
                                   ![j].score = r.threat_score]
    /\ metrics' = [metrics EXCEPT !.llmSuccess = @ + 1]
    /\ UNCHANGED <<now, policyVars, escalationVars, auditVars, limited,
                   llmSemaphore, lifeVars, kernelVars>>

Evaluate(j) ==
    /\ At(j, "evaluate")
    /\ \E d \in Engine!Decision :
           /\ Engine!Evaluate(jobs[j].ev.comm, jobs[j].score, d)
           /\ jobs' = [jobs EXCEPT ![j].pc = "audit", ![j].decision = d]
    /\ metrics' = [metrics EXCEPT !.decisions = @ + 1]
    /\ UNCHANGED <<escalationVars, auditVars, limited, llmSemaphore, lifeVars,
                   kernelVars>>

(* Mutant: dry-run decisions are carried out. *)
ActsInDryRun(decision) == decision.tier \in Engine!ActingTiers

(* The switch on the tier acts for this decision. *)
Acts(decision) ==
    decision.tier \in Engine!ActingTiers /\ decision.reason # "DRY-RUN"

(* Mutant: only the decisions that act are recorded. *)
AuditDecisionIfActing(j) ==
    /\ At(j, "audit")
    /\ \/ /\ Acts(jobs[j].decision)
          /\ WriteAudit(Body(jobs[j].ev, jobs[j].score, jobs[j].decision))
          /\ Goto(j, "act")
          /\ UNCHANGED llmSemaphore
       \/ /\ ~Acts(jobs[j].decision)
          /\ Goto(j, "done")
          /\ Release
          /\ UNCHANGED auditVars
    /\ UNCHANGED <<now, policyVars, escalationVars, limited, metrics, lifeVars,
                   kernelVars>>

(* A failed write is only warned about: the action follows all the same. *)
AuditDecision(j) ==
    /\ At(j, "audit")
    /\ WriteAudit(Body(jobs[j].ev, jobs[j].score, jobs[j].decision))
    /\ \/ Acts(jobs[j].decision) /\ Goto(j, "act") /\ UNCHANGED llmSemaphore
       \/ ~Acts(jobs[j].decision) /\ Goto(j, "done") /\ Release
    /\ UNCHANGED <<now, policyVars, escalationVars, limited, metrics, lifeVars,
                   kernelVars>>

(* KillProcess and PauseProcess refuse two pids; for the others syscall.Kill *)
(* reaches whatever process has the pid by now.                              *)
Signals(j) == jobs[j].ev.pid \notin {0, 1} /\ procs[jobs[j].ev.pid] # Gone

Hit(j) ==
    IF Signals(j) THEN [jobs[j] EXCEPT !.at = now, !.live = live,
                                       !.hit = procs[jobs[j].ev.pid]]
                  ELSE jobs[j]

(* KillProcess.  Its failure is logged, and IsolateIP is still called. *)
Kill(j) ==
    /\ At(j, "act")
    /\ jobs[j].decision.tier = "hard_action"
    /\ procs' = IF Signals(j) THEN [procs EXCEPT ![jobs[j].ev.pid] = Gone]
                              ELSE procs
    /\ \/ /\ jobs[j].ev.type = "CONNECT"
          /\ jobs' = [jobs EXCEPT ![j] = [Hit(j) EXCEPT !.pc = "isolate"]]
          /\ UNCHANGED llmSemaphore
       \/ /\ jobs[j].ev.type # "CONNECT"
          /\ jobs' = [jobs EXCEPT ![j] = [Hit(j) EXCEPT !.pc = "done"]]
          /\ Release
    /\ UNCHANGED <<now, policyVars, escalationVars, auditVars, limited, metrics,
                   lifeVars, churns, blocked>>

(* IsolateIP(strings.Split(detail, ":")[0]): nft takes an IPv4 address; of   *)
(* "[address]:port" it is given a piece it rejects.  It may also fail.       *)
Isolate(j) ==
    /\ At(j, "isolate")
    /\ \/ ~jobs[j].ev.v6 /\ blocked' = blocked \cup {jobs[j].ev}
       \/ UNCHANGED blocked
    /\ Goto(j, "done")
    /\ Release
    /\ UNCHANGED <<now, policyVars, escalationVars, auditVars, limited, metrics,
                   lifeVars, procs, churns>>

(* PauseProcess. *)
Pause(j) ==
    /\ At(j, "act")
    /\ jobs[j].decision.tier = "soft_action"
    /\ jobs' = [jobs EXCEPT ![j] = [Hit(j) EXCEPT !.pc = "done"]]
    /\ Release
    /\ UNCHANGED <<now, policyVars, escalationVars, auditVars, limited, metrics,
                   lifeVars, kernelVars>>

-----------------------------------------------------------------------------
(* The kernel and the clock.                                                *)

(* A process execs another program or renames itself, exits, or its pid is  *)
(* given to a new one.                                                      *)
Churn(pid) ==
    /\ pid \in Mortal
    /\ churns < MaxChurn
    /\ churns' = churns + 1
    /\ \E comm \in Comms \cup {Gone} :
           /\ comm # procs[pid]
           /\ procs' = [procs EXCEPT ![pid] = comm]
    /\ UNCHANGED <<now, policyVars, escalationVars, auditVars, agentVars, blocked>>

Tick ==
    /\ Engine!Tick
    /\ UNCHANGED <<escalationVars, auditVars, agentVars, kernelVars>>

-----------------------------------------------------------------------------
(* The life of the agent, as far as it concerns the pipeline.               *)

NoMetrics ==
    [escalated |-> 0, rateLimited |-> 0, llmSuccess |-> 0, llmError |-> 0,
     decisions |-> 0]

(* main, before the readers start.  The limiters remember nothing. *)
Start ==
    /\ lives < MaxLives
    /\ lives' = lives + 1
    /\ Audit!NewLogger
    /\ Engine!NewEngine
    /\ Escalation!Restart
    /\ UNCHANGED <<limited, jobs, llmSemaphore, metrics, past, kernelVars>>

(* What becomes of a goroutine when the process ends: nothing, if it had     *)
(* returned; it is dropped, or cut off between its record and its last act.  *)
Abandoned(job) ==
    [job EXCEPT !.pc = CASE job.pc = "done" -> "done"
                         [] job.pc \in {"act", "isolate"} -> "cut"
                         [] job.pc \in {"dropped", "cut"} -> job.pc
                         [] OTHER -> "dropped"]

(* The process ends: by Ctrl+C, a signal, a crash or with the machine.       *)
(* Nothing waits for the goroutines.                                         *)
Stop ==
    /\ lives < MaxLives
    /\ Audit!Crash \/ Audit!PowerLoss
    /\ limited' = [label \in Labels |-> {}]
    /\ jobs' = [j \in DOMAIN jobs |-> Abandoned(jobs[j])]
    /\ llmSemaphore' = 0
    /\ metrics' = NoMetrics
    /\ past' = [escalated |-> past.escalated + metrics.escalated,
                rateLimited |-> past.rateLimited + metrics.rateLimited]
    /\ UNCHANGED <<now, policyVars, escalationVars, lives, kernelVars>>

Init ==
    /\ Engine!Init
    /\ Escalation!Init
    /\ Audit!Init
    /\ limited = [label \in Labels |-> {}]
    /\ jobs = <<>>
    /\ llmSemaphore = 0
    /\ metrics = NoMetrics
    /\ lives = 0
    /\ past = [escalated |-> 0, rateLimited |-> 0]
    /\ procs = InitialProcs
    /\ churns = 0
    /\ blocked = {}

ReaderStep(label) ==
    \/ \E ev \in Events : SpawnJob(label, ev) \/ TurnAway(label, ev)
    \/ CountRateLimited(label)
    \/ AuditRateLimited(label)

JobStep(j) ==
    \/ AssessError(j) \/ AssessSuccess(j)
    \/ Evaluate(j) \/ AuditDecision(j)
    \/ Kill(j) \/ Isolate(j) \/ Pause(j)

Next ==
    \/ Start \/ Stop
    \/ \E label \in Labels : ReaderStep(label)
    \/ \E j \in 1..Len(jobs) : Acquire(j) \/ JobStep(j)
    \/ \E pid \in Pids : Churn(pid)
    \/ Tick

Spec == Init /\ [][Next]_vars

(* The Go scheduler runs every goroutine that can run; Assess ends by its    *)
(* deadline; senders blocked on a channel are served in the order in which   *)
(* they came, so that none is passed over for ever.  That nft ends is an     *)
(* assumption: IsolateIP has no deadline.                                    *)
Fairness ==
    \A j \in 1..MaxEvents : WF_vars(JobStep(j)) /\ SF_vars(Acquire(j))

FairSpec == Spec /\ Fairness

-----------------------------------------------------------------------------
(* Type invariant. *)
JobType ==
    [ev : Events,
     pc : {"queued", "assess", "evaluate", "audit", "act", "isolate", "done",
           "dropped", "cut"},
     score : AcceptedScores \cup {NoScore},
     decision : Engine!Decision \cup {NoDecision},
     life : Nat,
     at : Nat \cup {-1},
     hit : Comms \cup {NoComm},
     live : BOOLEAN]

MetricsType ==
    [escalated : Nat, rateLimited : Nat, llmSuccess : Nat, llmError : Nat,
     decisions : Nat]

TypeOK ==
    /\ Engine!TypeOK
    /\ Escalation!TypeOK
    /\ Audit!TypeOK
    /\ limited \in [Labels -> SUBSET [ev : Events, counted : BOOLEAN]]
    /\ jobs \in Seq(JobType)
    /\ llmSemaphore \in 0..Slots
    /\ metrics \in MetricsType
    /\ lives \in Nat
    /\ past \in [escalated : Nat, rateLimited : Nat]
    /\ procs \in [Pids -> Comms \cup {Gone}]
    /\ churns \in 0..MaxChurn
    /\ blocked \subseteq Events

JobsAt(pcs) == {j \in 1..Len(jobs) : jobs[j].pc \in pcs}

(* The readers that are about to count a rate-limited event, and to record   *)
(* one.                                                                      *)
ToCount == {label \in Labels : \E r \in limited[label] : ~r.counted}
ToRecord == {label \in Labels : \E r \in limited[label] : r.counted}

(* On whatever path a goroutine leaves processLLM, llmSemaphore holds one    *)
(* token for each goroutine between its send and its deferred receive, so    *)
(* that no slot leaks and no more than Slots calls run at once.              *)
SlotsAccounted ==
    llmSemaphore =
        Cardinality(JobsAt({"assess", "evaluate", "audit", "act", "isolate"}))

(* No escalation is lost between handleEvent, its goroutines and the         *)
(* counters: each is rate-limited, on its way, or answered, and each answer  *)
(* leads to one decision.                                                    *)
MetricsAddUp ==
    /\ metrics.escalated =
           metrics.rateLimited
           + Cardinality(ToCount)
           + Cardinality(JobsAt({"queued", "assess"}))
           + metrics.llmSuccess + metrics.llmError
    /\ metrics.llmSuccess = metrics.decisions + Cardinality(JobsAt({"evaluate"}))

(* Every signal the agent sends is covered by the configuration: live mode   *)
(* at that moment, however the agent was started before, an event of an      *)
(* unprotected process that is neither the agent nor its LLM, an accepted    *)
(* score that reaches the tier, and never init.                              *)
SignalsAuthorised ==
    \A j \in 1..Len(jobs) :
        jobs[j].at >= 0 =>
            /\ jobs[j].live
            /\ jobs[j].ev.comm \notin protectedComms \cup excludedComms
            /\ jobs[j].ev.pid \notin {0, 1, selfPID}
            /\ jobs[j].ev \notin Known
            /\ jobs[j].score \in 0..100
            /\ \/ /\ jobs[j].decision.tier = "hard_action"
                  /\ jobs[j].score >= thresholdHard
               \/ /\ jobs[j].decision.tier = "soft_action"
                  /\ jobs[j].score >= thresholdSoft

(* The action limit is enforced when a decision is made, not when it is      *)
(* carried out.  Decisions wait in the goroutines that hold a slot, so a     *)
(* window may see that many signals more than the limit, and no more, from   *)
(* one life of the agent; the next one starts with an empty window.          *)
SignalBurst ==
    \A t \in 0..now, life \in 1..lives :
        Cardinality({j \in 1..Len(jobs) : /\ jobs[j].life = life
                                         /\ jobs[j].at \in t..(t + Window - 1)})
            <= maxActionsPerWindow + Slots

(* How many lines of the audit file hold body. *)
OnFile(body) ==
    Cardinality({i \in 1..Len(file) :
                    Audit!IsEntry(file[i]) /\ file[i].body = body})

JobBody(j) == Body(jobs[j].ev, jobs[j].score, jobs[j].decision)

Recorded == {"act", "isolate", "done", "cut"}

(* The goroutines of one life that have decided and not called Log. *)
Unrecorded(life) ==
    {j \in 1..Len(jobs) : /\ jobs[j].life = life
                          /\ jobs[j].decision # NoDecision
                          /\ jobs[j].pc \notin Recorded}

RateLimitedLines ==
    {i \in 1..Len(file) : /\ Audit!IsEntry(file[i])
                          /\ file[i].body.decision.tier = "rate_limited"}

Ended == IF up THEN lives - 1 ELSE lives

(* README.md, "Tamper-evident audit log": "every decision (including         *)
(* rate-limited ones)" is written.  A decision that the agent acts upon or   *)
(* is done with is in the file, as often as it was made, whatever the other  *)
(* goroutines write at the time.  What the end of the process catches        *)
(* between a decision and its record is in no file, but it is little: of     *)
(* each life at most Slots decisions, and at most one rate-limited event of  *)
(* each reader.                                                              *)
EveryDecisionOnFile ==
    /\ \A j \in JobsAt(Recorded) :
           jobs[j].decision # NoDecision =>
               OnFile(JobBody(j)) =
                   Cardinality({k \in JobsAt(Recorded) : JobBody(k) = JobBody(j)})
    /\ \A life \in 1..lives : Cardinality(Unrecorded(life)) <= Slots
    /\ LET counted == past.rateLimited + metrics.rateLimited
           written == Cardinality(RateLimitedLines) + Cardinality(ToRecord)
       IN  counted \in written..(written + Cardinality(Labels) * Ended)

(* It is so as long as no write fails. *)
DecisionsOnFile == clean => EveryDecisionOnFile

(* README.md, "Protected-process list": they are "never hard-killed".  The   *)
(* list is compared with the name the event carried, and the signal goes to  *)
(* the process that has the pid, and the name, by then.                      *)
ProtectedNeverSignalled ==
    \A j \in 1..Len(jobs) : jobs[j].hit \notin protectedComms

(* The pipeline drives each component the way its own module allows.         *)
ImplementsComponents == Engine!Spec /\ Escalation!Spec /\ Audit!Spec

Finished == {"done", "dropped", "cut"}

(* Whatever the LLM and the audit file do, every goroutine handleEvent       *)
(* started returns unless the process ends.                                  *)
JobsFinish ==
    \A j \in 1..MaxEvents :
        (j <= Len(jobs)) ~> (j <= Len(jobs) /\ jobs[j].pc \in Finished)
=============================================================================
