--------------------------- MODULE PipelineProofs ----------------------------
(***************************************************************************)
(* However the goroutines interleave, for every set of events, processes    *)
(* and answers, every limit and every kind of fault: every signal is        *)
(* authorised, the semaphore counts its holders, the pipeline drives the    *)
(* policy engine, the escalation limiter and the audit log as their own     *)
(* modules allow, the counters account for every event, a window sees no    *)
(* more signals than the limit and the slots together, and the file holds   *)
(* every decision but the few the end of a process catches before Log.      *)
(***************************************************************************)
EXTENDS Pipeline, NatFacts, FiniteSetTheorems, TLAPS

-----------------------------------------------------------------------------
(* The inductive invariant, job by job. *)

(* handleEvent lets only these through. *)
MayEscalate(ev) ==
    /\ ev.comm \notin excludedComms
    /\ ev.pid # selfPID
    /\ ev \notin Known

(* What Evaluate checked before it returned an acting tier; liveMode is the  *)
(* mode it ran in.                                                           *)
MayAct(job, liveMode) ==
    Acts(job.decision) =>
        /\ liveMode
        /\ job.ev.comm \notin protectedComms
        /\ \/ job.decision.tier = "hard_action" /\ job.score >= thresholdHard
           \/ job.decision.tier = "soft_action" /\ job.score >= thresholdSoft

(* What a goroutine carries from one step to the next. *)
JobOK(job) ==
    /\ MayEscalate(job.ev)
    /\ job.pc \in {"evaluate", "audit", "act", "isolate"} =>
           job.score \in AcceptedScores
    /\ job.pc \in {"audit", "act", "isolate"} => MayAct(job, live)
    /\ job.pc = "act" => Acts(job.decision)
    /\ job.at >= 0 =>
           /\ job.pc \in {"isolate", "done", "cut"}
           /\ Acts(job.decision) /\ MayAct(job, job.live)
           /\ job.score \in AcceptedScores
           /\ job.ev.pid \notin {0, 1}

Holding == {"assess", "evaluate", "audit", "act", "isolate"}

Types ==
    /\ now \in Nat /\ lives \in Nat /\ live \in BOOLEAN
    /\ jobs \in Seq(JobType)
    /\ procs \in [Pids -> Comms \cup {Gone}]

AllJobsOK == \A j \in 1..Len(jobs) : JobOK(jobs[j])

(* A goroutine does not outlive the process, so that none of them sees the   *)
(* next one's mode.                                                          *)
NoneSurvives == up \/ \A j \in 1..Len(jobs) : jobs[j].pc \in Finished

IInv ==
    /\ Types
    /\ AllJobsOK
    /\ NoneSurvives
    /\ SlotsAccounted
    /\ llmSemaphore <= Slots

-----------------------------------------------------------------------------
(* There are no jobs at the start. *)
LEMMA InitIInv == Init => IInv
<1> SUFFICES ASSUME Init PROVE IInv
  OBVIOUS
<1>1. /\ now = 0 /\ live \in BOOLEAN /\ lives = 0
      /\ jobs = <<>> /\ llmSemaphore = 0 /\ procs = InitialProcs
      /\ Slots \in Nat /\ InitialProcs \in [Pids -> Comms]
  BY PipelineAssumption DEF Init, Engine!Init
<1>2. Types /\ AllJobsOK /\ NoneSurvives
  BY <1>1 DEF Types, AllJobsOK, NoneSurvives
<1>3. JobsAt(Holding) = {}
  BY <1>1 DEF JobsAt
<1> QED
  <2>1. llmSemaphore = 0 /\ Cardinality(JobsAt(Holding)) = 0 /\ Slots \in Nat
    BY <1>1, <1>3, FS_EmptySet
  <2>2. SlotsAccounted /\ llmSemaphore <= Slots
    BY <2>1 DEF SlotsAccounted, Holding
  <2> QED
    BY <1>2, <2>2 DEF IInv

(* The holders of a slot are finitely many. *)
LEMMA HoldersAreFinite ==
    ASSUME IInv
    PROVE  /\ IsFiniteSet(JobsAt(Holding))
           /\ llmSemaphore = Cardinality(JobsAt(Holding))
           /\ llmSemaphore \in Nat
<1>1. Len(jobs) \in Nat
  BY DEF IInv, Types
<1>2. IsFiniteSet(1..Len(jobs)) /\ JobsAt(Holding) \subseteq 1..Len(jobs)
  BY <1>1, FS_Interval DEF JobsAt
<1>3. IsFiniteSet(JobsAt(Holding))
  BY <1>2, FS_Subset
<1> QED
  BY <1>3, FS_CardinalityType DEF IInv, SlotsAccounted, Holding

(* The job of a goroutine whose signal reached its process. *)
Signalled(job, t, m, c) == [job EXCEPT !.at = t, !.live = m, !.hit = c]

LEMMA SignalledJob ==
    ASSUME NEW job \in JobType, NEW t \in Nat, NEW m \in BOOLEAN, NEW c \in Comms
    PROVE  LET new == Signalled(job, t, m, c)
           IN  /\ new \in JobType
               /\ new.ev = job.ev /\ new.score = job.score
               /\ new.decision = job.decision /\ new.life = job.life
               /\ new.at = t /\ new.live = m
<1> DEFINE new == Signalled(job, t, m, c)
<1> USE DEF Signalled
<1>1. new \in JobType
  BY DEF JobType
<1>2. /\ new.ev = job.ev /\ new.score = job.score
      /\ new.decision = job.decision /\ new.life = job.life
  BY DEF JobType
<1>3. new.at = t /\ new.live = m
  BY DEF JobType
<1> QED
  BY <1>1, <1>2, <1>3

(* A counter only grows. *)
LEMMA MetricsGrow ==
    ASSUME metrics \in MetricsType
    PROVE  /\ [metrics EXCEPT !.escalated = @ + 1] \in MetricsType
           /\ [metrics EXCEPT !.rateLimited = @ + 1] \in MetricsType
           /\ [metrics EXCEPT !.llmError = @ + 1] \in MetricsType
           /\ [metrics EXCEPT !.llmSuccess = @ + 1] \in MetricsType
           /\ [metrics EXCEPT !.decisions = @ + 1] \in MetricsType
<1>1. [metrics EXCEPT !.escalated = @ + 1] \in MetricsType
  BY DEF MetricsType
<1>2. [metrics EXCEPT !.rateLimited = @ + 1] \in MetricsType
  BY DEF MetricsType
<1>3. [metrics EXCEPT !.llmError = @ + 1] \in MetricsType
  BY DEF MetricsType
<1>4. [metrics EXCEPT !.llmSuccess = @ + 1] \in MetricsType
  BY DEF MetricsType
<1>5. [metrics EXCEPT !.decisions = @ + 1] \in MetricsType
  BY DEF MetricsType
<1> QED
  BY <1>1, <1>2, <1>3, <1>4, <1>5

(* One job changes from job to new, and with it perhaps its hold on a slot. *)
LEMMA JobStepKeepsJobs ==
    ASSUME IInv,
           NEW j \in 1..Len(jobs), NEW new \in JobType, JobOK(new),
           jobs' = [jobs EXCEPT ![j] = new], up, up' = up, live' = live,
           \/ /\ jobs[j].pc \in Holding <=> new.pc \in Holding
              /\ llmSemaphore' = llmSemaphore
           \/ /\ jobs[j].pc \notin Holding /\ new.pc \in Holding
              /\ llmSemaphore' = llmSemaphore + 1 /\ llmSemaphore < Slots
           \/ /\ jobs[j].pc \in Holding /\ new.pc \notin Holding
              /\ llmSemaphore' = llmSemaphore - 1
    PROVE  /\ jobs' \in Seq(JobType) /\ llmSemaphore' <= Slots
           /\ (AllJobsOK /\ NoneSurvives /\ SlotsAccounted)'
<1> DEFINE held == JobsAt(Holding)
<1>1. jobs \in Seq(JobType) /\ Len(jobs) \in Nat /\ Slots \in Nat
  BY PipelineAssumption DEF IInv, Types
<1>2. /\ jobs' \in Seq(JobType) /\ Len(jobs') = Len(jobs)
      /\ \A k \in 1..Len(jobs) : jobs'[k] = IF k = j THEN new ELSE jobs[k]
  BY <1>1
<1>3. AllJobsOK' /\ NoneSurvives'
  BY <1>2 DEF IInv, AllJobsOK, JobOK, MayAct, NoneSurvives
<1>4. IsFiniteSet(held) /\ llmSemaphore = Cardinality(held)
      /\ llmSemaphore \in Nat /\ llmSemaphore <= Slots
  BY HoldersAreFinite DEF IInv
<1>5. JobsAt(Holding)' = {k \in 1..Len(jobs) : jobs'[k].pc \in Holding}
  BY <1>2 DEF JobsAt, Holding
<1>6. CASE /\ jobs[j].pc \in Holding <=> new.pc \in Holding
           /\ llmSemaphore' = llmSemaphore
  <2>1. JobsAt(Holding)' = held
    BY <1>2, <1>5, <1>6 DEF JobsAt
  <2> QED
    BY <1>2, <1>3, <1>4, <1>6, <2>1 DEF SlotsAccounted, Holding
<1>7. CASE /\ jobs[j].pc \notin Holding /\ new.pc \in Holding
           /\ llmSemaphore' = llmSemaphore + 1 /\ llmSemaphore < Slots
  <2>1. JobsAt(Holding)' = held \cup {j} /\ j \notin held
    BY <1>2, <1>5, <1>7 DEF JobsAt
  <2>2. Cardinality(held \cup {j}) = Cardinality(held) + 1
    BY <1>4, <2>1, FS_AddElement
  <2>3. llmSemaphore' = Cardinality(JobsAt(Holding)')
    BY <1>4, <1>7, <2>1, <2>2
  <2>4. llmSemaphore' <= Slots
    BY <1>1, <1>4, <1>7
  <2> QED
    BY <1>2, <1>3, <2>3, <2>4 DEF SlotsAccounted, Holding
<1>8. CASE /\ jobs[j].pc \in Holding /\ new.pc \notin Holding
           /\ llmSemaphore' = llmSemaphore - 1
  <2>1. JobsAt(Holding)' = held \ {j} /\ j \in held
    BY <1>2, <1>5, <1>8 DEF JobsAt
  <2>2. Cardinality(held \ {j}) = Cardinality(held) - 1
    BY <1>4, <2>1, FS_RemoveElement
  <2>3. llmSemaphore' = Cardinality(JobsAt(Holding)')
    BY <1>4, <1>8, <2>1, <2>2
  <2>4. llmSemaphore' <= Slots
    BY <1>1, <1>4, <1>8
  <2> QED
    BY <1>2, <1>3, <2>3, <2>4 DEF SlotsAccounted, Holding
<1> QED
  BY <1>6, <1>7, <1>8

(* The reader appends a job that holds no slot. *)
LEMMA SpawnKeepsIInv ==
    ASSUME IInv, NEW label \in Labels, NEW ev \in Events, SpawnJob(label, ev)
    PROVE  IInv'
<1>1. /\ MayEscalate(ev) /\ now' = now /\ procs' = procs
      /\ up /\ up' = up /\ live' = live /\ lives' = lives
      /\ llmSemaphore' = llmSemaphore
      /\ jobs' = Append(jobs, NewJob(ev))
  BY DEF SpawnJob, Escalates, MayEscalate, kernelVars, policyVars, auditVars,
         lifeVars,
         Escalation!EscalateWithin, Escalation!CountEscalation
<1>2. NewJob(ev) \in JobType
  BY DEF NewJob, JobType, IInv, Types
<1>3. JobOK(NewJob(ev)) /\ NewJob(ev).pc = "queued"
  BY <1>1 DEF JobOK, NewJob, NoDecision
<1>4. /\ jobs' \in Seq(JobType) /\ Len(jobs) \in Nat
      /\ Len(jobs') = Len(jobs) + 1
      /\ jobs'[Len(jobs) + 1] = NewJob(ev)
      /\ \A k \in 1..Len(jobs) : jobs'[k] = jobs[k]
  BY <1>1, <1>2 DEF IInv, Types
<1>5. AllJobsOK' /\ NoneSurvives'
  BY <1>1, <1>3, <1>4 DEF IInv, AllJobsOK, JobOK, MayAct, NoneSurvives
<1>6. JobsAt(Holding)' = JobsAt(Holding)
  BY <1>3, <1>4 DEF JobsAt, Holding
<1> QED
  BY <1>1, <1>4, <1>5, <1>6 DEF IInv, Types, SlotsAccounted, Holding

(* A job whose pc changes and nothing else. *)
LEMMA GotoEffect ==
    ASSUME Types, NEW j, NEW from, NEW to, At(j, from), Goto(j, to),
           to \in Holding \cup {"done"}
    PROVE  /\ j \in 1..Len(jobs) /\ jobs[j] \in JobType /\ jobs[j].pc = from
           /\ [jobs[j] EXCEPT !.pc = to] \in JobType
           /\ jobs' = [jobs EXCEPT ![j] = [jobs[j] EXCEPT !.pc = to]]
<1>1. j \in 1..Len(jobs) /\ jobs[j] \in JobType /\ jobs[j].pc = from
  BY DEF Types, At
<1>2. [jobs[j] EXCEPT !.pc = to] \in JobType
  BY <1>1 DEF JobType, Holding
<1> QED
  BY <1>1, <1>2 DEF Goto

(* No step of a job goroutine touches the clock, the mode or the process. *)
LEMMA JobKeepsLife ==
    ASSUME NEW j \in 1..Len(jobs), Acquire(j) \/ JobStep(j)
    PROVE  up /\ up' = up /\ <<now, live, lives>>' = <<now, live, lives>>
<1> USE DEF policyVars, auditVars, lifeVars, At
<1>1. CASE Acquire(j)
  BY <1>1 DEF Acquire
<1>2. CASE AssessError(j) \/ AssessSuccess(j)
  BY <1>2 DEF AssessError, AssessSuccess
<1>3. CASE Evaluate(j)
  <2>1. PICK d \in Engine!Decision :
            Engine!Evaluate(jobs[j].ev.comm, jobs[j].score, d)
    BY <1>3 DEF Evaluate
  <2>2. <<now, live>>' = <<now, live>>
    BY <2>1, Zenon DEF Engine!Evaluate
  <2> QED
    BY <1>3, <2>2 DEF Evaluate
<1>4. CASE AuditDecision(j)
  BY <1>4 DEF AuditDecision, WriteAudit, Audit!Log, Audit!LogLost,
              Audit!LogTorn, Audit!Advance
<1>5. CASE Kill(j) \/ Isolate(j) \/ Pause(j)
  BY <1>5 DEF Kill, Isolate, Pause
<1> QED
  BY <1>1, <1>2, <1>3, <1>4, <1>5 DEF JobStep

(* Every step of a job goroutine. *)
LEMMA JobKeepsIInv ==
    ASSUME IInv, NEW j \in 1..Len(jobs), Acquire(j) \/ JobStep(j)
    PROVE  IInv'
<1> DEFINE job == jobs[j]
<1>1. /\ job \in JobType /\ JobOK(job) /\ Types
      /\ now \in Nat /\ llmSemaphore \in Nat
  BY HoldersAreFinite DEF IInv, Types, AllJobsOK
<1>2. ASSUME NEW new \in JobType, JobOK(new),
             jobs' = [jobs EXCEPT ![j] = new],
             procs' \in [Pids -> Comms \cup {Gone}],
             \/ /\ job.pc \in Holding <=> new.pc \in Holding
                /\ llmSemaphore' = llmSemaphore
             \/ /\ job.pc \notin Holding /\ new.pc \in Holding
                /\ llmSemaphore' = llmSemaphore + 1 /\ llmSemaphore < Slots
             \/ /\ job.pc \in Holding /\ new.pc \notin Holding
                /\ llmSemaphore' = llmSemaphore - 1
      PROVE  IInv'
  <2>1. up /\ up' = up /\ now' = now /\ live' = live /\ lives' = lives
    BY JobKeepsLife
  <2> QED
    BY <1>1, <1>2, <2>1, JobStepKeepsJobs DEF IInv, Types
<1>3. procs \in [Pids -> Comms \cup {Gone}]
  BY <1>1 DEF Types
<1>4. CASE Acquire(j)
  <2> DEFINE new == [job EXCEPT !.pc = "assess"]
  <2>1. new \in JobType /\ job.pc = "queued" /\ jobs' = [jobs EXCEPT ![j] = new]
    BY <1>1, <1>4, GotoEffect DEF Acquire, Holding
  <2>2. JobOK(new) /\ new.pc = "assess"
    BY <1>1, <2>1 DEF JobOK, JobType
  <2>3. /\ llmSemaphore < Slots /\ llmSemaphore' = llmSemaphore + 1
        /\ procs' = procs
    BY <1>4 DEF Acquire, kernelVars
  <2> HIDE DEF new
  <2> QED
    BY <1>2, <1>3, <2>1, <2>2, <2>3 DEF Holding
<1>5. CASE AssessError(j)
  <2> DEFINE new == [job EXCEPT !.pc = "done"]
  <2>1. new \in JobType /\ job.pc = "assess" /\ jobs' = [jobs EXCEPT ![j] = new]
    BY <1>1, <1>5, GotoEffect DEF AssessError, Holding
  <2>2. JobOK(new) /\ new.pc = "done"
    BY <1>1, <2>1 DEF JobOK, JobType, MayAct
  <2>3. llmSemaphore' = llmSemaphore - 1 /\ procs' = procs
    BY <1>5 DEF AssessError, Release, kernelVars
  <2> HIDE DEF new
  <2> QED
    BY <1>2, <1>3, <2>1, <2>2, <2>3 DEF Holding
<1>6. CASE AssessSuccess(j)
  <2>1. PICK r \in Responses :
            /\ Accepted(r)
            /\ jobs' = [jobs EXCEPT ![j].pc = "evaluate",
                                    ![j].score = r.threat_score]
    BY <1>6 DEF AssessSuccess
  <2> DEFINE new == [job EXCEPT !.pc = "evaluate", !.score = r.threat_score]
  <2>2. r.threat_score \in AcceptedScores /\ job.pc = "assess"
    BY <1>6, <2>1 DEF AcceptedScores, AssessSuccess, At
  <2>3. new \in JobType /\ new.pc = "evaluate" /\ new.score = r.threat_score
        /\ new.at = job.at /\ new.ev = job.ev
    BY <1>1, <2>2 DEF JobType
  <2>4. JobOK(new)
    BY <1>1, <2>2, <2>3 DEF JobOK
  <2>5. jobs' = [jobs EXCEPT ![j] = new]
    BY <2>1, <1>1 DEF Types
  <2>6. llmSemaphore' = llmSemaphore /\ procs' = procs
    BY <1>6 DEF AssessSuccess, kernelVars
  <2> HIDE DEF new
  <2> QED
    BY <1>2, <1>3, <2>2, <2>3, <2>4, <2>5, <2>6 DEF Holding
<1>7. CASE Evaluate(j)
  <2>1. PICK d \in Engine!Decision :
            /\ Engine!Evaluate(job.ev.comm, job.score, d)
            /\ jobs' = [jobs EXCEPT ![j].pc = "audit", ![j].decision = d]
    BY <1>7 DEF Evaluate
  <2> DEFINE new == [job EXCEPT !.pc = "audit", !.decision = d]
  <2>2. job.pc = "evaluate" /\ job.score \in AcceptedScores
    BY <1>1, <1>7 DEF Evaluate, At, JobOK
  <2>3. /\ new \in JobType /\ new.pc = "audit" /\ new.decision = d
        /\ new.score = job.score /\ new.at = job.at /\ new.ev = job.ev
    BY <1>1 DEF JobType
  <2>5. MayAct(new, live)
    <3>1. SUFFICES ASSUME Acts(d)
                   PROVE  /\ live /\ job.ev.comm \notin protectedComms
                          /\ d.tier = Engine!TierOf(job.score)
      BY <2>3 DEF MayAct, Acts, Engine!TierOf, Engine!ActingTiers
    <3>2. d.tier \in {"soft_action", "hard_action"} /\ d.reason # "DRY-RUN"
      BY <3>1 DEF Acts, Engine!ActingTiers
    <3>3. \/ /\ Engine!TierOf(job.score) \notin Engine!ActingTiers
             /\ d.tier = Engine!TierOf(job.score)
          \/ d.tier = "alert"
          \/ d.reason = "DRY-RUN"
          \/ /\ live /\ job.ev.comm \notin protectedComms
             /\ d.tier = Engine!TierOf(job.score)
      <4>1. PICK tier : tier = Engine!TierOf(job.score)
        OBVIOUS
      <4>2. \/ tier \notin Engine!ActingTiers /\ d = [tier |-> tier, reason |-> "threshold"]
            \/ d = [tier |-> "alert", reason |-> "protected"]
            \/ d = [tier |-> tier, reason |-> "DRY-RUN"]
            \/ /\ job.ev.comm \notin protectedComms /\ live
               /\ d = [tier |-> tier, reason |-> "threshold"]
            \/ d = [tier |-> "alert", reason |-> "rate limit"]
        BY <2>1, <4>1, Zenon DEF Engine!Evaluate
      <4>3. \/ tier \notin Engine!ActingTiers /\ d.tier = tier
            \/ d.tier = "alert"
            \/ d.reason = "DRY-RUN"
            \/ /\ live /\ job.ev.comm \notin protectedComms
               /\ d.tier = tier
        <5>1. ASSUME NEW r, NEW t, d = [tier |-> t, reason |-> r]
              PROVE  d.tier = t /\ d.reason = r
          BY <5>1
        <5> QED
          BY <4>2, <5>1, Zenon
      <4> QED
        BY <4>1, <4>3
    <3> QED
      BY <3>2, <3>3 DEF Engine!ActingTiers
  <2>6. JobOK(new)
    BY <1>1, <2>2, <2>3, <2>5 DEF JobOK
  <2>7. jobs' = [jobs EXCEPT ![j] = new]
    BY <2>1, <1>1 DEF Types
  <2>8. llmSemaphore' = llmSemaphore /\ procs' = procs
    BY <1>7, <2>1 DEF Evaluate, Engine!Evaluate, kernelVars
  <2> HIDE DEF new
  <2> QED
    BY <1>2, <1>3, <2>2, <2>3, <2>6, <2>7, <2>8 DEF Holding
<1>8. CASE AuditDecision(j)
  <2>1. /\ job.pc = "audit" /\ procs' = procs
        /\ \/ /\ Acts(job.decision) /\ Goto(j, "act")
              /\ llmSemaphore' = llmSemaphore
           \/ ~Acts(job.decision) /\ Goto(j, "done") /\ Release
    BY <1>8 DEF AuditDecision, At, kernelVars
  <2>2. At(j, "audit")
    BY <1>8 DEF AuditDecision
  <2>3. CASE Acts(job.decision) /\ Goto(j, "act") /\ llmSemaphore' = llmSemaphore
    <3> DEFINE new == [job EXCEPT !.pc = "act"]
    <3>1. new \in JobType /\ jobs' = [jobs EXCEPT ![j] = new]
      BY <1>1, <2>2, <2>3, GotoEffect DEF Holding
    <3>2. JobOK(new) /\ new.pc = "act"
      BY <1>1, <2>1, <2>3 DEF JobOK, JobType, MayAct
    <3> HIDE DEF new
    <3> QED
      BY <1>2, <1>3, <2>1, <2>3, <3>1, <3>2 DEF Holding
  <2>4. CASE Goto(j, "done") /\ Release
    <3> DEFINE new == [job EXCEPT !.pc = "done"]
    <3>1. new \in JobType /\ jobs' = [jobs EXCEPT ![j] = new]
      BY <1>1, <2>2, <2>4, GotoEffect DEF Holding
    <3>2. JobOK(new) /\ new.pc = "done"
      BY <1>1, <2>1 DEF JobOK, JobType, MayAct
    <3> HIDE DEF new
    <3> QED
      BY <1>2, <1>3, <2>1, <2>4, <3>1, <3>2 DEF Holding, Release
  <2> QED
    BY <2>1, <2>3, <2>4
<1>9. /\ Hit(j) \in JobType /\ Hit(j).ev = job.ev /\ Hit(j).score = job.score
      /\ Hit(j).decision = job.decision
      /\ Hit(j).at >= 0 =>
             \/ job.at >= 0 /\ Hit(j).live = job.live
             \/ job.ev.pid \notin {0, 1} /\ Hit(j).live = live
  <2>1. CASE Signals(j)
    <3>1. procs[job.ev.pid] \in Comms
      BY <1>1, <1>3, <2>1, PipelineAssumption DEF Signals, JobType, EventType
    <3>2. live \in BOOLEAN /\ now \in Nat /\ job.ev.pid \notin {0, 1}
      BY <1>1, <2>1 DEF Types, Signals
    <3>4. Hit(j) = [job EXCEPT !.at = now, !.live = live,
                               !.hit = procs[job.ev.pid]]
      BY <2>1, Zenon DEF Hit
    <3>5. PICK m \in BOOLEAN : m = live
      BY <3>2
    <3>6. PICK c \in Comms : c = procs[job.ev.pid]
      BY <3>1
    <3>7. Hit(j) = Signalled(job, now, m, c)
      BY <3>4, <3>5, <3>6 DEF Signalled
    <3>8. /\ Hit(j) \in JobType /\ Hit(j).ev = job.ev
          /\ Hit(j).score = job.score
          /\ Hit(j).decision = job.decision /\ Hit(j).live = m
      <4>1. job \in JobType /\ now \in Nat
        BY <1>1, <3>2
      <4> QED
        BY <3>7, <4>1, SignalledJob
    <3> QED
      BY <3>2, <3>5, <3>8, Zenon
  <2>2. CASE ~Signals(j)
    BY <1>1, <2>2 DEF Hit
  <2> QED
    BY <2>1, <2>2
<1>10. ASSUME NEW to \in {"isolate", "done"}, job.pc = "act",
              NEW new, new = [Hit(j) EXCEPT !.pc = to]
       PROVE  new \in JobType /\ JobOK(new) /\ new.pc = to
  <2>1. /\ new \in JobType /\ new.pc = to /\ new.ev = job.ev
        /\ new.score = job.score /\ new.decision = job.decision
        /\ new.at = Hit(j).at /\ new.live = Hit(j).live
    BY <1>9, <1>10 DEF JobType
  <2> QED
    BY <1>1, <1>9, <1>10, <2>1 DEF JobOK, MayAct
<1>11. CASE Kill(j)
  <2>1. /\ job.pc = "act"
        /\ procs' = IF Signals(j) THEN [procs EXCEPT ![job.ev.pid] = Gone]
                                  ELSE procs
        /\ \/ /\ jobs' = [jobs EXCEPT ![j] = [Hit(j) EXCEPT !.pc = "isolate"]]
              /\ llmSemaphore' = llmSemaphore
           \/ /\ jobs' = [jobs EXCEPT ![j] = [Hit(j) EXCEPT !.pc = "done"]]
              /\ llmSemaphore' = llmSemaphore - 1
    BY <1>11 DEF Kill, At, Release
  <2>2. procs' \in [Pids -> Comms \cup {Gone}]
    BY <1>3, <2>1
  <2> QED
    BY <1>2, <1>10, <2>1, <2>2 DEF Holding
<1>12. CASE Isolate(j)
  <2> DEFINE new == [job EXCEPT !.pc = "done"]
  <2>1. new \in JobType /\ job.pc = "isolate" /\ jobs' = [jobs EXCEPT ![j] = new]
    BY <1>1, <1>12, GotoEffect DEF Isolate, Holding
  <2>2. JobOK(new) /\ new.pc = "done"
    BY <1>1, <2>1 DEF JobOK, JobType, MayAct
  <2>3. llmSemaphore' = llmSemaphore - 1 /\ procs' = procs
    BY <1>12 DEF Isolate, Release
  <2> HIDE DEF new
  <2> QED
    BY <1>2, <1>3, <2>1, <2>2, <2>3 DEF Holding
<1>13. CASE Pause(j)
  <2>1. /\ job.pc = "act" /\ procs' = procs
        /\ jobs' = [jobs EXCEPT ![j] = [Hit(j) EXCEPT !.pc = "done"]]
        /\ llmSemaphore' = llmSemaphore - 1
    BY <1>13 DEF Pause, At, Release, kernelVars
  <2> QED
    BY <1>2, <1>3, <1>10, <2>1 DEF Holding
<1> QED
  BY <1>4, <1>5, <1>6, <1>7, <1>8, <1>11, <1>12, <1>13 DEF JobStep

(* The process ends: the goroutines are cut off where they are. *)
LEMMA StopKeepsIInv ==
    ASSUME IInv, Stop
    PROVE  IInv'
<1>1. /\ now' = now /\ live' = live /\ lives' = lives /\ procs' = procs
      /\ up' = FALSE /\ llmSemaphore' = 0
      /\ jobs' = [j \in DOMAIN jobs |-> Abandoned(jobs[j])]
  BY DEF Stop, Audit!Crash, Audit!PowerLoss, policyVars, kernelVars
<1>2. /\ jobs \in Seq(JobType) /\ Len(jobs) \in Nat /\ DOMAIN jobs = 1..Len(jobs)
      /\ \A j \in 1..Len(jobs) : jobs[j] \in JobType /\ JobOK(jobs[j])
      /\ Slots \in Nat
  BY PipelineAssumption DEF IInv, Types, AllJobsOK
<1>3. ASSUME NEW job \in JobType, JobOK(job)
      PROVE  /\ Abandoned(job) \in JobType /\ JobOK(Abandoned(job))
             /\ Abandoned(job).pc \in Finished
  <2>1. PICK pc \in Finished : /\ Abandoned(job) = [job EXCEPT !.pc = pc]
                               /\ job.pc \in {"isolate", "done", "cut"} =>
                                      pc \in {"done", "cut"}
    BY <1>3 DEF Abandoned, Finished
  <2>2. /\ Abandoned(job) \in JobType /\ Abandoned(job).pc = pc
        /\ Abandoned(job).ev = job.ev /\ Abandoned(job).score = job.score
        /\ Abandoned(job).decision = job.decision
        /\ Abandoned(job).at = job.at /\ Abandoned(job).live = job.live
    BY <2>1 DEF JobType, Finished
  <2> QED
    BY <1>3, <2>1, <2>2 DEF JobOK, MayAct, Finished
<1>4. /\ jobs' \in Seq(JobType) /\ Len(jobs') = Len(jobs)
      /\ \A j \in 1..Len(jobs) : jobs'[j] = Abandoned(jobs[j])
  BY <1>1, <1>2, <1>3
<1>5. AllJobsOK' /\ NoneSurvives'
  BY <1>1, <1>2, <1>3, <1>4 DEF AllJobsOK, JobOK, MayAct, NoneSurvives
<1>6. JobsAt(Holding)' = {}
  BY <1>2, <1>3, <1>4 DEF JobsAt, Holding, Finished
<1>7. SlotsAccounted'
  BY <1>1, <1>6, FS_EmptySet DEF SlotsAccounted, Holding
<1> QED
  BY <1>1, <1>2, <1>4, <1>5, <1>7 DEF IInv, Types

(* It starts again, perhaps in the other mode: no goroutine is left to care. *)
LEMMA StartKeepsIInv ==
    ASSUME IInv, Start
    PROVE  IInv'
<1>1. /\ now' = now /\ live' \in BOOLEAN /\ lives' \in Nat /\ procs' = procs
      /\ ~up /\ up' /\ llmSemaphore' = llmSemaphore /\ jobs' = jobs
  BY DEF Start, Audit!NewLogger, Engine!NewEngine, kernelVars, IInv, Types
<1>2. \A j \in 1..Len(jobs) : JobOK(jobs[j]) /\ jobs[j].pc \in Finished
  BY <1>1 DEF IInv, AllJobsOK, NoneSurvives
<1>3. AllJobsOK' /\ NoneSurvives'
  BY <1>1, <1>2 DEF AllJobsOK, JobOK, MayAct, NoneSurvives, Finished
<1> QED
  BY <1>1, <1>3 DEF IInv, Types, SlotsAccounted, JobsAt

(* Every other step leaves the jobs alone. *)
LEMMA NextIInv == IInv /\ [Next]_vars => IInv'
<1> SUFFICES ASSUME IInv, [Next]_vars PROVE IInv'
  OBVIOUS
<1>1. ASSUME now' \in Nat, procs' \in [Pids -> Comms \cup {Gone}],
             up' = up, live' = live, lives' = lives,
             jobs' = jobs, llmSemaphore' = llmSemaphore
      PROVE  IInv'
  BY <1>1
  DEF IInv, Types, AllJobsOK, JobOK, MayAct, NoneSurvives, SlotsAccounted, JobsAt
<1>2. now \in Nat /\ procs \in [Pids -> Comms \cup {Gone}]
  BY DEF IInv, Types
<1>3. CASE Start \/ Stop
  BY <1>3, StartKeepsIInv, StopKeepsIInv
<1>4. ASSUME NEW label \in Labels, NEW ev \in Events, SpawnJob(label, ev)
      PROVE  IInv'
  BY <1>4, SpawnKeepsIInv
<1>5. ASSUME NEW label \in Labels, NEW ev \in Events, TurnAway(label, ev)
      PROVE  IInv'
  BY <1>1, <1>2, <1>5
  DEF TurnAway, policyVars, auditVars, lifeVars, kernelVars,
      Escalation!EscalateOver, Escalation!CountEscalation
<1>6. ASSUME NEW label \in Labels,
             CountRateLimited(label) \/ AuditRateLimited(label)
      PROVE  IInv'
  BY <1>1, <1>2, <1>6
  DEF CountRateLimited, AuditRateLimited, policyVars, auditVars, lifeVars,
      kernelVars, WriteAudit, Audit!Log, Audit!LogLost, Audit!LogTorn,
      Audit!Advance
<1>7. ASSUME NEW j \in 1..Len(jobs), Acquire(j) \/ JobStep(j)
      PROVE  IInv'
  BY <1>7, JobKeepsIInv
<1>8. ASSUME NEW pid \in Pids, Churn(pid)
      PROVE  IInv'
  BY <1>1, <1>2, <1>8 DEF Churn, policyVars, auditVars, agentVars, lifeVars
<1>9. CASE Tick
  BY <1>1, <1>2, <1>9
  DEF Tick, Engine!Tick, auditVars, agentVars, lifeVars, kernelVars
<1>10. CASE UNCHANGED vars
  BY <1>1, <1>2, <1>10
  DEF vars, policyVars, auditVars, agentVars, lifeVars, kernelVars
<1> QED
  BY <1>3, <1>4, <1>5, <1>6, <1>7, <1>8, <1>9, <1>10 DEF Next, ReaderStep

(* The inductive invariant holds throughout. *)
LEMMA Invariance == Spec => []IInv
  BY InitIInv, NextIInv, PTL DEF Spec

-----------------------------------------------------------------------------
(* Whatever the LLM answers, the audit file does and the processes turn      *)
(* into, a signal is sent only in live mode, about an event of a process     *)
(* that was neither protected nor excluded, for an accepted score that       *)
(* reaches the threshold of its tier, and never to init.                     *)
THEOREM SignalsAreAuthorised == Spec => []SignalsAuthorised
<1>1. ASSUME IInv PROVE SignalsAuthorised
  <2> SUFFICES ASSUME NEW j \in 1..Len(jobs), jobs[j].at >= 0
               PROVE  /\ jobs[j].live
                      /\ jobs[j].ev.comm \notin protectedComms \cup excludedComms
                      /\ jobs[j].ev.pid \notin {0, 1, selfPID}
                      /\ jobs[j].ev \notin Known
                      /\ jobs[j].score \in 0..100
                      /\ \/ /\ jobs[j].decision.tier = "hard_action"
                            /\ jobs[j].score >= thresholdHard
                         \/ /\ jobs[j].decision.tier = "soft_action"
                            /\ jobs[j].score >= thresholdSoft
    BY DEF SignalsAuthorised
  <2>1. JobOK(jobs[j])
    BY <1>1 DEF IInv, AllJobsOK
  <2>2. /\ Acts(jobs[j].decision) /\ MayAct(jobs[j], jobs[j].live)
        /\ MayEscalate(jobs[j].ev)
        /\ jobs[j].score \in AcceptedScores /\ jobs[j].ev.pid \notin {0, 1}
    BY <2>1 DEF JobOK
  <2>3. jobs[j].score \in 0..100
    BY <2>2 DEF AcceptedScores, Accepted
  <2> QED
    BY <2>2, <2>3 DEF MayAct, MayEscalate
<1> QED
  BY <1>1, Invariance, PTL

(* llmSemaphore holds one token for each goroutine between its send and its  *)
(* deferred receive: no path out of processLLM leaks a slot.                 *)
THEOREM SlotsAreAccounted == Spec => []SlotsAccounted
<1>1. IInv => SlotsAccounted
  BY DEF IInv
<1> QED
  BY <1>1, Invariance, PTL

(* At most Slots goroutines are inside processLLM at any time. *)
THEOREM AtMostSlotsInside ==
    Spec => [](Cardinality(JobsAt(Holding)) <= Slots)
<1>1. IInv => Cardinality(JobsAt(Holding)) <= Slots
  BY DEF IInv, SlotsAccounted, Holding
<1> QED
  BY <1>1, Invariance, PTL

-----------------------------------------------------------------------------
(* What a step of a goroutine does to its job and to what it shares with     *)
(* others.  The other invariants need no more of the actions than this.      *)

(* The fields that only one step of the goroutine writes. *)
KeepsVerdict(old, new) == new.score = old.score /\ new.decision = old.decision

Waits(old, new) ==
    /\ old.pc = "queued" /\ new.pc = "assess"
    /\ KeepsVerdict(old, new) /\ new.at = old.at
    /\ UNCHANGED <<metrics, policyVars, auditVars>>

Fails(old, new) ==
    /\ old.pc = "assess" /\ new.pc = "done"
    /\ KeepsVerdict(old, new) /\ new.at = old.at
    /\ metrics' = [metrics EXCEPT !.llmError = @ + 1]
    /\ UNCHANGED <<policyVars, auditVars>>

Answers(old, new) ==
    /\ old.pc = "assess" /\ new.pc = "evaluate"
    /\ new.decision = old.decision /\ new.at = old.at
    /\ metrics' = [metrics EXCEPT !.llmSuccess = @ + 1]
    /\ UNCHANGED <<policyVars, auditVars>>

(* A decision that acts is one that allowAction allowed in this very step. *)
Decides(old, new) ==
    /\ old.pc = "evaluate" /\ new.pc = "audit"
    /\ new.score = old.score /\ new.score \in AcceptedScores
    /\ new.decision \in Engine!Decision /\ new.at = old.at
    /\ IF Acts(new.decision) THEN taken' = Append(taken, now) ELSE taken' = taken
    /\ metrics' = [metrics EXCEPT !.decisions = @ + 1]
    /\ UNCHANGED auditVars

Records(old, new) ==
    /\ old.pc = "audit"
    /\ new.pc = IF Acts(old.decision) THEN "act" ELSE "done"
    /\ KeepsVerdict(old, new) /\ new.at = old.at
    /\ WriteAudit(Body(old.ev, old.score, old.decision))
    /\ UNCHANGED <<metrics, policyVars>>

Strikes(old, new) ==
    /\ old.pc = "act" /\ new.pc \in {"isolate", "done"}
    /\ KeepsVerdict(old, new) /\ new.at \in {old.at, now}
    /\ UNCHANGED <<metrics, policyVars, auditVars>>

Returns(old, new) ==
    /\ old.pc = "isolate" /\ new.pc = "done"
    /\ KeepsVerdict(old, new) /\ new.at = old.at
    /\ UNCHANGED <<metrics, policyVars, auditVars>>

Moves(j, new) ==
    /\ new \in JobType
    /\ jobs' = [jobs EXCEPT ![j] = new]
    /\ new.ev = jobs[j].ev /\ new.life = jobs[j].life
    /\ \/ Waits(jobs[j], new) \/ Fails(jobs[j], new) \/ Answers(jobs[j], new)
       \/ Decides(jobs[j], new) \/ Records(jobs[j], new)
       \/ Strikes(jobs[j], new) \/ Returns(jobs[j], new)

(* Evaluate returns an acting decision exactly when it charges the limiter. *)
LEMMA ActingIsCharged ==
    ASSUME NEW comm, NEW score, NEW d, Engine!Evaluate(comm, score, d)
    PROVE  IF Acts(d) THEN taken' = Append(taken, now) ELSE taken' = taken
<1>1. PICK tier : tier = Engine!TierOf(score)
  OBVIOUS
<1>2. \/ /\ tier \notin Engine!ActingTiers /\ taken' = taken
         /\ d = [tier |-> tier, reason |-> "threshold"]
      \/ d = [tier |-> "alert", reason |-> "protected"] /\ taken' = taken
      \/ d = [tier |-> tier, reason |-> "DRY-RUN"] /\ taken' = taken
      \/ /\ tier \in Engine!ActingTiers /\ taken' = Append(taken, now)
         /\ d = [tier |-> tier, reason |-> "threshold"]
      \/ d = [tier |-> "alert", reason |-> "rate limit"] /\ taken' = taken
  BY <1>1, Zenon DEF Engine!Evaluate, Engine!AllowAction, Engine!DenyAction
<1>3. ASSUME NEW r, NEW t, d = [tier |-> t, reason |-> r]
      PROVE  d.tier = t /\ d.reason = r
  BY <1>3
<1>4. \/ tier \notin Engine!ActingTiers /\ taken' = taken /\ d.tier = tier
      \/ d.tier = "alert" /\ taken' = taken
      \/ d.reason = "DRY-RUN" /\ taken' = taken
      \/ /\ tier \in Engine!ActingTiers /\ taken' = Append(taken, now)
         /\ d.tier = tier /\ d.reason = "threshold"
  BY <1>2, <1>3, Zenon
<1> QED
  BY <1>4 DEF Acts, Engine!ActingTiers

LEMMA JobMoves ==
    ASSUME IInv, NEW j \in 1..Len(jobs), Acquire(j) \/ JobStep(j)
    PROVE  \E new : Moves(j, new)
<1> DEFINE job == jobs[j]
<1>1. job \in JobType /\ JobOK(job) /\ Types /\ now \in Nat
  BY DEF IInv, Types, AllJobsOK
<1> USE DEF policyVars, auditVars
<1>2. ASSUME NEW to \in {"assess", "act", "done"}, NEW from,
             At(j, from), Goto(j, to)
      PROVE  \E new \in JobType :
                 /\ jobs' = [jobs EXCEPT ![j] = new]
                 /\ new.ev = job.ev /\ new.life = job.life
                 /\ job.pc = from /\ new.pc = to
                 /\ KeepsVerdict(job, new) /\ new.at = job.at
  <2> DEFINE new == [job EXCEPT !.pc = to]
  <2>1. new \in JobType /\ job.pc = from /\ jobs' = [jobs EXCEPT ![j] = new]
    BY <1>1, <1>2, GotoEffect DEF Holding
  <2>2. /\ new.ev = job.ev /\ new.life = job.life /\ new.pc = to
        /\ KeepsVerdict(job, new) /\ new.at = job.at
    BY <1>1 DEF JobType, KeepsVerdict
  <2> HIDE DEF new
  <2> QED
    BY <2>1, <2>2
<1>3. CASE Acquire(j)
  <2>1. At(j, "queued") /\ Goto(j, "assess")
        /\ UNCHANGED <<metrics, policyVars, auditVars>>
    BY <1>3 DEF Acquire
  <2> QED
    BY <1>2, <2>1 DEF Moves, Waits
<1>4. CASE AssessError(j)
  <2>1. /\ At(j, "assess") /\ Goto(j, "done")
        /\ metrics' = [metrics EXCEPT !.llmError = @ + 1]
        /\ UNCHANGED <<policyVars, auditVars>>
    BY <1>4 DEF AssessError
  <2> QED
    BY <1>2, <2>1 DEF Moves, Fails
<1>5. CASE AssessSuccess(j)
  <2>1. PICK r \in Responses :
            /\ Accepted(r)
            /\ jobs' = [jobs EXCEPT ![j].pc = "evaluate",
                                    ![j].score = r.threat_score]
    BY <1>5 DEF AssessSuccess
  <2> DEFINE new == [job EXCEPT !.pc = "evaluate", !.score = r.threat_score]
  <2>2. r.threat_score \in AcceptedScores /\ job.pc = "assess"
    BY <1>5, <2>1 DEF AcceptedScores, AssessSuccess, At
  <2>3. /\ new \in JobType /\ new.pc = "evaluate" /\ new.ev = job.ev
        /\ new.at = job.at /\ new.life = job.life /\ new.decision = job.decision
    BY <1>1, <2>2 DEF JobType
  <2>4. jobs' = [jobs EXCEPT ![j] = new]
    BY <2>1, <1>1 DEF Types
  <2>5. /\ metrics' = [metrics EXCEPT !.llmSuccess = @ + 1]
        /\ UNCHANGED <<policyVars, auditVars>>
    BY <1>5 DEF AssessSuccess
  <2> HIDE DEF new
  <2> QED
    BY <2>2, <2>3, <2>4, <2>5 DEF Moves, Answers
<1>6. CASE Evaluate(j)
  <2>1. PICK d \in Engine!Decision :
            /\ Engine!Evaluate(job.ev.comm, job.score, d)
            /\ jobs' = [jobs EXCEPT ![j].pc = "audit", ![j].decision = d]
    BY <1>6 DEF Evaluate
  <2> DEFINE new == [job EXCEPT !.pc = "audit", !.decision = d]
  <2>2. job.pc = "evaluate" /\ job.score \in AcceptedScores
    BY <1>1, <1>6 DEF Evaluate, At, JobOK
  <2>3. /\ new \in JobType /\ new.pc = "audit" /\ new.decision = d
        /\ new.score = job.score /\ new.at = job.at /\ new.ev = job.ev
        /\ new.life = job.life
    BY <1>1 DEF JobType
  <2>4. jobs' = [jobs EXCEPT ![j] = new]
    BY <2>1, <1>1 DEF Types
  <2>5. IF Acts(d) THEN taken' = Append(taken, now) ELSE taken' = taken
    BY <2>1, ActingIsCharged
  <2>6. /\ metrics' = [metrics EXCEPT !.decisions = @ + 1]
        /\ UNCHANGED auditVars
    BY <1>6 DEF Evaluate
  <2> HIDE DEF new
  <2>7. Decides(job, new)
    BY <2>1, <2>2, <2>3, <2>5, <2>6 DEF Decides
  <2> QED
    BY <2>3, <2>4, <2>7 DEF Moves
<1>7. CASE AuditDecision(j)
  <2>1. /\ At(j, "audit")
        /\ WriteAudit(Body(job.ev, job.score, job.decision))
        /\ Goto(j, IF Acts(job.decision) THEN "act" ELSE "done")
        /\ UNCHANGED <<metrics, policyVars>>
    BY <1>7 DEF AuditDecision
  <2>2. PICK to \in {"act", "done"} :
            to = IF Acts(job.decision) THEN "act" ELSE "done"
    OBVIOUS
  <2> QED
    BY <1>2, <2>1, <2>2 DEF Moves, Records
<1>8. CASE Kill(j) \/ Pause(j)
  <2>1. PICK to \in {"isolate", "done"} :
            jobs' = [jobs EXCEPT ![j] = [Hit(j) EXCEPT !.pc = to]]
    BY <1>8 DEF Kill, Pause
  <2>2. job.pc = "act" /\ UNCHANGED <<metrics, policyVars, auditVars>>
    BY <1>8 DEF Kill, Pause, At
  <2>3. /\ Hit(j) \in JobType /\ Hit(j).ev = job.ev /\ Hit(j).life = job.life
        /\ KeepsVerdict(job, Hit(j)) /\ Hit(j).at \in {job.at, now}
    <3>1. CASE Signals(j)
      <4>1. procs[job.ev.pid] \in Comms
        BY <1>1, <3>1, PipelineAssumption DEF Types, Signals, JobType, EventType
      <4>2. PICK m \in BOOLEAN : m = live
        BY <1>1 DEF Types
      <4>3. PICK c \in Comms : c = procs[job.ev.pid]
        BY <4>1
      <4>4. Hit(j) = Signalled(job, now, m, c)
        BY <3>1, <4>2, <4>3 DEF Hit, Signalled
      <4>5. /\ Hit(j) \in JobType /\ Hit(j).ev = job.ev /\ Hit(j).life = job.life
            /\ Hit(j).score = job.score /\ Hit(j).decision = job.decision
            /\ Hit(j).at = now
        <5>1. job \in JobType /\ now \in Nat
          BY <1>1 DEF Types
        <5> QED
          BY <4>4, <5>1, SignalledJob
      <4> QED
        BY <4>5 DEF KeepsVerdict
    <3>2. CASE ~Signals(j)
      BY <1>1, <3>2 DEF Hit, KeepsVerdict
    <3> QED
      BY <3>1, <3>2
  <2> DEFINE new == [Hit(j) EXCEPT !.pc = to]
  <2>4. /\ new \in JobType /\ new.pc = to /\ new.ev = job.ev
        /\ new.life = job.life /\ KeepsVerdict(job, new)
        /\ new.at \in {job.at, now}
    BY <2>3 DEF JobType, KeepsVerdict
  <2> HIDE DEF new
  <2>5. Strikes(job, new)
    BY <2>2, <2>4 DEF Strikes
  <2> QED
    BY <2>1, <2>4, <2>5 DEF Moves, new
<1>9. CASE Isolate(j)
  <2>1. /\ At(j, "isolate") /\ Goto(j, "done")
        /\ UNCHANGED <<metrics, policyVars, auditVars>>
    BY <1>9 DEF Isolate
  <2> QED
    BY <1>2, <2>1 DEF Moves, Returns
<1> QED
  BY <1>3, <1>4, <1>5, <1>6, <1>7, <1>8, <1>9 DEF JobStep

LEMMA JobLeavesAlone ==
    ASSUME NEW j \in 1..Len(jobs), Acquire(j) \/ JobStep(j)
    PROVE  /\ UNCHANGED <<escalationVars, limited, past, churns>>
           /\ blocked' \subseteq blocked \cup {jobs[j].ev}
<1> USE DEF lifeVars, kernelVars
<1>1. CASE Acquire(j) \/ AssessError(j) \/ AssessSuccess(j) \/ Evaluate(j)
           \/ AuditDecision(j)
  BY <1>1 DEF Acquire, AssessError, AssessSuccess, Evaluate, AuditDecision
<1>2. CASE Kill(j) \/ Isolate(j) \/ Pause(j)
  BY <1>2 DEF Kill, Isolate, Pause
<1> QED
  BY <1>1, <1>2 DEF JobStep

-----------------------------------------------------------------------------
(* What the jobs and the readers remember. *)

JobHistory(job) ==
    /\ job.life <= lives /\ job.at <= now
    /\ job.pc \notin Finished => job.life = lives
    /\ job.pc \in {"queued", "assess", "evaluate"} => job.decision = NoDecision
    /\ job.pc \in {"audit", "act", "isolate"} => job.decision # NoDecision
    /\ job.decision # NoDecision => job.score \in AcceptedScores

AgentTypes ==
    /\ limited \in [Labels -> SUBSET [ev : Events, counted : BOOLEAN]]
    /\ metrics \in MetricsType
    /\ past \in [escalated : Nat, rateLimited : Nat]
    /\ churns \in 0..MaxChurn
    /\ blocked \subseteq Events

AllHistories == \A j \in 1..Len(jobs) : JobHistory(jobs[j])

(* A reader does not outlive the process either. *)
NothingPending == up \/ \A label \in Labels : limited[label] = {}

(* A reader handles one event at a time. *)
OneAtATime ==
    \A label \in Labels : \A r, s \in limited[label] : r.counted = s.counted

Remembered == AgentTypes /\ AllHistories /\ NothingPending /\ OneAtATime

LEMMA InitRemembered == Init => Remembered
<1> SUFFICES ASSUME Init PROVE Remembered
  OBVIOUS
<1>1. /\ limited = [label \in Labels |-> {}] /\ metrics = NoMetrics
      /\ past = [escalated |-> 0, rateLimited |-> 0]
      /\ churns = 0 /\ blocked = {} /\ jobs = <<>> /\ MaxChurn \in Nat
  BY PipelineAssumption DEF Init
<1>2. AgentTypes
  BY <1>1 DEF AgentTypes, NoMetrics, MetricsType
<1>3. AllHistories /\ NothingPending /\ OneAtATime
  BY <1>1 DEF AllHistories, NothingPending, OneAtATime
<1> QED
  BY <1>2, <1>3 DEF Remembered

LEMMA NextRemembered == IInv /\ Remembered /\ [Next]_vars => Remembered'
<1> SUFFICES ASSUME IInv, Remembered, [Next]_vars PROVE Remembered'
  OBVIOUS
<1>1. /\ AgentTypes /\ AllHistories /\ NothingPending /\ OneAtATime
      /\ jobs \in Seq(JobType) /\ Len(jobs) \in Nat
      /\ now \in Nat /\ lives \in Nat
  BY DEF IInv, Types, Remembered
<1>2. ASSUME jobs' = jobs, lives' = lives, now' \in Nat, now <= now'
      PROVE  AllHistories'
  <2> SUFFICES ASSUME NEW j \in 1..Len(jobs) PROVE JobHistory(jobs[j])'
    BY <1>2 DEF AllHistories
  <2>1. JobHistory(jobs[j]) /\ jobs[j] \in JobType
    BY <1>1 DEF AllHistories
  <2>2. jobs[j].at \in Int /\ jobs[j].at <= now
    BY <2>1 DEF JobHistory, JobType
  <2>3. jobs[j].at <= now'
    BY <1>1, <1>2, <2>2
  <2> QED
    BY <1>2, <2>1, <2>3 DEF JobHistory
<1>11. ASSUME NEW label \in Labels, NEW ev \in Events, NEW b \in BOOLEAN,
              limited' = [limited EXCEPT ![label] = {[ev |-> ev, counted |-> b]}],
              metrics' \in MetricsType, up, up' = up,
              UNCHANGED <<jobs, now, lives, past, churns, blocked>>
       PROVE  Remembered'
  <2>1. [ev |-> ev, counted |-> b] \in [ev : Events, counted : BOOLEAN]
    OBVIOUS
  <2>2. PICK r \in [ev : Events, counted : BOOLEAN] : r = [ev |-> ev, counted |-> b]
    BY <2>1
  <2>3. limited' = [limited EXCEPT ![label] = {r}]
    BY <1>11, <2>2
  <2>4. AgentTypes' /\ NothingPending' /\ OneAtATime'
    BY <1>1, <1>11, <2>3 DEF AgentTypes, NothingPending, OneAtATime
  <2> QED
    BY <1>1, <1>2, <1>11, <2>4 DEF Remembered
<1>3. CASE Start
  <2>1. /\ UNCHANGED <<limited, jobs, metrics, past, churns, blocked, now>>
        /\ ~up /\ up' /\ lives' = lives + 1
    BY <1>3 DEF Start, kernelVars, Audit!NewLogger, Engine!NewEngine
  <2>2. \A j \in 1..Len(jobs) : jobs[j].pc \in Finished /\ jobs[j] \in JobType
    BY <1>1, <2>1 DEF IInv, NoneSurvives
  <2>3. AllHistories'
    BY <1>1, <2>1, <2>2 DEF AllHistories, JobHistory, JobType
  <2> QED
    BY <1>1, <2>1, <2>3 DEF Remembered, AgentTypes, NothingPending, OneAtATime
<1>4. CASE Stop
  <2>1. /\ limited' = [label \in Labels |-> {}]
        /\ jobs' = [j \in DOMAIN jobs |-> Abandoned(jobs[j])]
        /\ metrics' = NoMetrics
        /\ past' = [escalated |-> past.escalated + metrics.escalated,
                    rateLimited |-> past.rateLimited + metrics.rateLimited]
        /\ UNCHANGED <<now, lives, churns, blocked>>
    BY <1>4 DEF Stop, kernelVars
  <2>2. AgentTypes'
    BY <1>1, <2>1 DEF AgentTypes, NoMetrics, MetricsType
  <2>3. ASSUME NEW job \in JobType, JobHistory(job)
        PROVE  JobHistory(Abandoned(job))
    <3>1. PICK pc \in Finished : Abandoned(job) = [job EXCEPT !.pc = pc]
      BY <2>3 DEF Abandoned, Finished
    <3>2. /\ Abandoned(job).pc = pc /\ Abandoned(job).life = job.life
          /\ Abandoned(job).at = job.at /\ Abandoned(job).score = job.score
          /\ Abandoned(job).decision = job.decision
      BY <3>1 DEF JobType
    <3> QED
      BY <2>3, <3>2 DEF JobHistory, Finished
  <2>4. /\ Len(jobs') = Len(jobs)
        /\ \A j \in 1..Len(jobs) : jobs'[j] = Abandoned(jobs[j])
    BY <1>1, <2>1
  <2>5. AllHistories'
    <3>1. \A j \in 1..Len(jobs) : jobs[j] \in JobType /\ JobHistory(jobs[j])
      BY <1>1 DEF AllHistories
    <3>2. \A j \in 1..Len(jobs) : JobHistory(Abandoned(jobs[j]))
      BY <2>3, <3>1
    <3> QED
      BY <2>1, <2>4, <3>2 DEF AllHistories, JobHistory
  <2> QED
    BY <2>1, <2>2, <2>5 DEF Remembered, NothingPending, OneAtATime
<1>5. ASSUME NEW label \in Labels, NEW ev \in Events, SpawnJob(label, ev)
      PROVE  Remembered'
  <2>1. /\ jobs' = Append(jobs, NewJob(ev))
        /\ metrics' = [metrics EXCEPT !.escalated = @ + 1]
        /\ UNCHANGED <<now, up, limited, lives, past, churns, blocked>>
    BY <1>5 DEF SpawnJob, auditVars, lifeVars, kernelVars,
                Escalation!EscalateWithin, Escalation!CountEscalation
  <2>2. AgentTypes' /\ NothingPending' /\ OneAtATime'
    BY <1>1, <2>1, MetricsGrow DEF AgentTypes, NothingPending, OneAtATime
  <2>3. JobHistory(NewJob(ev))
    BY <1>1 DEF JobHistory, NewJob, NoDecision
  <2>4. /\ Len(jobs') = Len(jobs) + 1 /\ jobs'[Len(jobs) + 1] = NewJob(ev)
        /\ \A j \in 1..Len(jobs) : jobs'[j] = jobs[j]
    BY <1>1, <2>1
  <2>5. AllHistories'
    BY <1>1, <2>1, <2>3, <2>4 DEF AllHistories, JobHistory
  <2> QED
    BY <2>2, <2>5 DEF Remembered
<1>6. ASSUME NEW label \in Labels, NEW ev \in Events, TurnAway(label, ev)
      PROVE  Remembered'
  <2>1. /\ limited' = [limited EXCEPT ![label] = {[ev |-> ev, counted |-> FALSE]}]
        /\ metrics' = [metrics EXCEPT !.escalated = @ + 1] /\ up /\ up' = up
        /\ UNCHANGED <<jobs, now, lives, past, churns, blocked>>
    BY <1>6 DEF TurnAway, Escalates, auditVars, lifeVars, kernelVars,
                Escalation!EscalateOver, Escalation!CountEscalation
  <2> QED
    BY <1>1, <1>2, <1>11, <2>1, MetricsGrow DEF AgentTypes
<1>7. ASSUME NEW label \in Labels, CountRateLimited(label)
      PROVE  Remembered'
  <2>1. PICK r \in limited[label] :
            limited' = [limited EXCEPT ![label] = {[ev |-> r.ev, counted |-> TRUE]}]
    BY <1>7 DEF CountRateLimited
  <2>2. /\ metrics' = [metrics EXCEPT !.rateLimited = @ + 1]
        /\ UNCHANGED <<jobs, now, up, lives, past, churns, blocked>>
    BY <1>7 DEF CountRateLimited, auditVars, lifeVars, kernelVars
  <2>3. r \in [ev : Events, counted : BOOLEAN] /\ up
    BY <1>1, <2>1 DEF AgentTypes, NothingPending
  <2> QED
    BY <1>1, <1>2, <1>11, <2>1, <2>2, <2>3, MetricsGrow DEF AgentTypes
<1>12. ASSUME NEW label \in Labels, AuditRateLimited(label)
       PROVE  Remembered'
  <2>1. /\ limited' = [limited EXCEPT ![label] = {}] /\ up /\ up' = up
        /\ UNCHANGED <<jobs, now, metrics, lives, past, churns, blocked>>
    BY <1>12 DEF AuditRateLimited, lifeVars, kernelVars, WriteAudit,
                 Audit!Log, Audit!LogLost, Audit!LogTorn, Audit!Advance
  <2>2. AgentTypes' /\ NothingPending' /\ OneAtATime'
    BY <1>1, <2>1 DEF AgentTypes, NothingPending, OneAtATime
  <2> QED
    BY <1>1, <1>2, <2>1, <2>2 DEF Remembered
<1>8. ASSUME NEW j \in 1..Len(jobs), Acquire(j) \/ JobStep(j)
      PROVE  Remembered'
  <2>1. PICK new : Moves(j, new)
    BY <1>8, JobMoves
  <2>2. /\ up /\ up' = up /\ now' = now /\ lives' = lives
        /\ limited' = limited /\ past' = past /\ churns' = churns
        /\ blocked' \subseteq blocked \cup {jobs[j].ev}
    BY <1>8, JobKeepsLife, JobLeavesAlone
  <2>3. jobs[j] \in JobType /\ JobHistory(jobs[j]) /\ JobOK(jobs[j])
    BY <1>1 DEF AllHistories, IInv, AllJobsOK
  <2>4. metrics' \in MetricsType
    <3>1. \/ metrics' = metrics
          \/ metrics' = [metrics EXCEPT !.llmError = @ + 1]
          \/ metrics' = [metrics EXCEPT !.llmSuccess = @ + 1]
          \/ metrics' = [metrics EXCEPT !.decisions = @ + 1]
      BY <2>1 DEF Moves, Waits, Fails, Answers, Decides, Records, Strikes, Returns
    <3>2. metrics \in MetricsType
      BY <1>1 DEF AgentTypes
    <3>3. /\ [metrics EXCEPT !.llmError = @ + 1] \in MetricsType
          /\ [metrics EXCEPT !.llmSuccess = @ + 1] \in MetricsType
          /\ [metrics EXCEPT !.decisions = @ + 1] \in MetricsType
      BY <3>2, MetricsGrow
    <3> QED
      BY <3>1, <3>2, <3>3
  <2>5. AgentTypes' /\ NothingPending' /\ OneAtATime'
    BY <1>1, <2>2, <2>3, <2>4 DEF AgentTypes, NothingPending, OneAtATime, JobType
  <2>6. JobHistory(new)
    <3>1. NoDecision \notin Engine!Decision
      BY DEF NoDecision, Engine!Decision, Engine!Tiers
    <3>2. new.life = jobs[j].life /\ new.at <= now /\ jobs[j].pc \notin Finished
      BY <1>1, <2>1, <2>3
      DEF Moves, Waits, Fails, Answers, Decides, Records, Strikes, Returns,
          JobHistory, Finished
    <3>3. /\ new.pc \in {"assess", "evaluate"} => new.decision = NoDecision
          /\ new.pc \in {"audit", "act", "isolate"} => new.decision # NoDecision
          /\ new.decision # NoDecision => new.score \in AcceptedScores
          /\ new.pc # "queued"
      BY <2>1, <2>3, <3>1
      DEF Moves, Waits, Fails, Answers, Decides, Records, Strikes, Returns,
          JobHistory, KeepsVerdict
    <3> QED
      BY <1>1, <2>3, <3>2, <3>3 DEF JobHistory
  <2>7. /\ Len(jobs') = Len(jobs)
        /\ \A k \in 1..Len(jobs) : jobs'[k] = IF k = j THEN new ELSE jobs[k]
    BY <1>1, <2>1 DEF Moves
  <2>8. AllHistories'
    BY <1>1, <2>2, <2>6, <2>7 DEF AllHistories, JobHistory
  <2> QED
    BY <2>5, <2>8 DEF Remembered
<1>9. ASSUME NEW pid \in Pids, Churn(pid)
      PROVE  Remembered'
  <2>1. /\ churns' = churns + 1 /\ churns < MaxChurn /\ MaxChurn \in Nat
        /\ UNCHANGED <<jobs, now, up, limited, metrics, lives, past, blocked>>
    BY <1>9, PipelineAssumption DEF Churn, auditVars, agentVars, lifeVars
  <2>2. AgentTypes' /\ NothingPending' /\ OneAtATime'
    BY <1>1, <2>1 DEF AgentTypes, NothingPending, OneAtATime
  <2> QED
    BY <1>1, <1>2, <2>1, <2>2 DEF Remembered
<1>10. CASE Tick \/ UNCHANGED vars
  <2>1. /\ now' \in {now, now + 1}
        /\ UNCHANGED <<jobs, up, limited, metrics, lives, past, churns, blocked>>
    BY <1>10 DEF Tick, Engine!Tick, vars, auditVars, agentVars, lifeVars,
                 kernelVars
  <2>2. AgentTypes' /\ NothingPending' /\ OneAtATime'
    BY <1>1, <2>1 DEF AgentTypes, NothingPending, OneAtATime
  <2> QED
    BY <1>1, <1>2, <2>1, <2>2 DEF Remembered
<1> QED
  BY <1>3, <1>4, <1>5, <1>6, <1>7, <1>8, <1>9, <1>10, <1>12 DEF Next, ReaderStep

LEMMA RememberedInvariance == Spec => []Remembered
  BY InitRemembered, NextRemembered, Invariance, PTL DEF Spec

-----------------------------------------------------------------------------
(* The refinement: each component sees only steps of its own specification. *)

LEMMA StepImplementsEngine ==
    ASSUME IInv, [Next]_vars
    PROVE  [Engine!Next]_(Engine!vars)
<1> USE DEF Engine!vars, policyVars
<1>1. CASE Start
  BY <1>1 DEF Start, Engine!Next
<1>2. CASE Stop
  BY <1>2 DEF Stop
<1>3. ASSUME NEW label \in Labels, ReaderStep(label)
      PROVE  UNCHANGED Engine!vars
  BY <1>3 DEF ReaderStep, SpawnJob, TurnAway, CountRateLimited,
              AuditRateLimited, Escalation!EscalateWithin,
              Escalation!EscalateOver, Escalation!CountEscalation
<1>4. ASSUME NEW j \in 1..Len(jobs), Evaluate(j)
      PROVE  Engine!Next
  <2>1. jobs[j] \in JobType /\ JobOK(jobs[j]) /\ jobs[j].pc = "evaluate"
    BY <1>4 DEF IInv, Types, AllJobsOK, Evaluate, At
  <2>2. jobs[j].ev.comm \in Comms /\ jobs[j].score \in AcceptedScores
    BY <2>1, PipelineAssumption DEF JobOK, JobType, EventType
  <2>3. PICK d \in Engine!Decision :
            Engine!Evaluate(jobs[j].ev.comm, jobs[j].score, d)
    BY <1>4 DEF Evaluate
  <2> QED
    BY <2>2, <2>3 DEF Engine!Next
<1>5. ASSUME NEW j \in 1..Len(jobs), Acquire(j) \/ JobStep(j), ~Evaluate(j)
      PROVE  UNCHANGED Engine!vars
  BY <1>5 DEF Acquire, JobStep, AssessError, AssessSuccess, AuditDecision, Kill,
              Isolate, Pause
<1>6. ASSUME NEW pid \in Pids, Churn(pid)
      PROVE  UNCHANGED Engine!vars
  BY <1>6 DEF Churn
<1>7. CASE Tick
  BY <1>7 DEF Tick, Engine!Next
<1>8. CASE UNCHANGED vars
  BY <1>8 DEF vars
<1> QED
  BY <1>1, <1>2, <1>3, <1>4, <1>5, <1>6, <1>7, <1>8 DEF Next, JobStep

LEMMA StepImplementsEscalation ==
    ASSUME [Next]_vars
    PROVE  [Escalation!Next]_(Escalation!vars)
<1> USE DEF Escalation!vars, escalationVars
<1>1. CASE Start
  BY <1>1 DEF Start, Escalation!Next
<1>2. CASE Stop
  BY <1>2 DEF Stop
<1>3. ASSUME NEW label \in Labels, ReaderStep(label)
      PROVE  Escalation!Next \/ UNCHANGED Escalation!vars
  BY <1>3 DEF ReaderStep, SpawnJob, TurnAway, CountRateLimited,
              AuditRateLimited, Escalation!Next
<1>4. ASSUME NEW j \in 1..Len(jobs), Acquire(j) \/ JobStep(j)
      PROVE  UNCHANGED Escalation!vars
  BY <1>4, JobLeavesAlone, JobKeepsLife
<1>5. ASSUME NEW pid \in Pids, Churn(pid)
      PROVE  UNCHANGED Escalation!vars
  BY <1>5 DEF Churn
<1>6. CASE Tick
  BY <1>6 DEF Tick, Engine!Tick, Escalation!Next, Escalation!Tick
<1>7. CASE UNCHANGED vars
  BY <1>7 DEF vars
<1> QED
  BY <1>1, <1>2, <1>3, <1>4, <1>5, <1>6, <1>7 DEF Next

(* Every record is one that the log accepts: the score of an answer that     *)
(* parseAssessment let through, or the mark of a rate-limited event.         *)
LEMMA JobBodyIsBody ==
    ASSUME IInv, Remembered, NEW j \in 1..Len(jobs),
           jobs[j].decision # NoDecision
    PROVE  /\ JobBody(j) \in Bodies
           /\ JobBody(j).decision \in Engine!Decision
<1>1. jobs[j] \in JobType /\ JobHistory(jobs[j])
  BY DEF IInv, Types, Remembered, AllHistories
<1>2. /\ jobs[j].ev \in Events /\ jobs[j].score \in AcceptedScores
      /\ jobs[j].decision \in Engine!Decision
  BY <1>1 DEF JobType, JobHistory
<1> QED
  BY <1>2 DEF JobBody, Body, Bodies

LEMMA StepImplementsAudit ==
    ASSUME IInv, Remembered, [Next]_vars
    PROVE  [Audit!Next]_(Audit!vars)
<1> USE DEF Audit!vars, auditVars
<1>1. CASE Start \/ Stop
  BY <1>1 DEF Start, Stop, Audit!Next
<1>2. ASSUME NEW body \in Bodies, WriteAudit(body)
      PROVE  Audit!Next
  BY <1>2 DEF WriteAudit, Audit!Next
<1>3. ASSUME NEW label \in Labels, AuditRateLimited(label)
      PROVE  Audit!Next
  <2>1. PICK r \in limited[label] : WriteAudit(RateLimitedBody(r.ev))
    BY <1>3 DEF AuditRateLimited
  <2>2. r.ev \in Events
    BY <2>1 DEF Remembered, AgentTypes
  <2>3. RateLimitedBody(r.ev) \in Bodies
    BY <2>2 DEF Bodies
  <2> QED
    BY <1>2, <2>1, <2>3
<1>4. ASSUME NEW label \in Labels, NEW ev \in Events,
             SpawnJob(label, ev) \/ TurnAway(label, ev)
      PROVE  UNCHANGED Audit!vars
  BY <1>4 DEF SpawnJob, TurnAway
<1>9. ASSUME NEW label \in Labels, CountRateLimited(label)
      PROVE  UNCHANGED Audit!vars
  BY <1>9 DEF CountRateLimited
<1>5. ASSUME NEW j \in 1..Len(jobs), Acquire(j) \/ JobStep(j)
      PROVE  Audit!Next \/ UNCHANGED Audit!vars
  <2>1. CASE AuditDecision(j)
    <3>1. WriteAudit(JobBody(j)) /\ jobs[j].pc = "audit"
      BY <2>1 DEF AuditDecision, JobBody, At
    <3>2. jobs[j].decision # NoDecision
      BY <3>1 DEF Remembered, AllHistories, JobHistory
    <3> QED
      BY <1>2, <3>1, <3>2, JobBodyIsBody
  <2>2. CASE ~AuditDecision(j)
    BY <1>5, <2>2 DEF Acquire, JobStep, AssessError, AssessSuccess, Evaluate,
                      Kill, Isolate, Pause
  <2> QED
    BY <2>1, <2>2
<1>6. ASSUME NEW pid \in Pids, Churn(pid)
      PROVE  UNCHANGED Audit!vars
  BY <1>6 DEF Churn
<1>7. CASE Tick
  BY <1>7 DEF Tick
<1>8. CASE UNCHANGED vars
  BY <1>8 DEF vars
<1> QED
  BY <1>1, <1>3, <1>4, <1>5, <1>6, <1>7, <1>8, <1>9 DEF Next, ReaderStep

(* The interleaved goroutines drive the policy engine, the escalation        *)
(* limiter and the audit log only in ways their own specifications allow, so *)
(* that what is proved of each of them alone holds of it in the agent.       *)
THEOREM PipelineImplementsComponents == Spec => ImplementsComponents
<1>1. Init => Engine!Init /\ Escalation!Init /\ Audit!Init
  BY DEF Init
<1>2. Spec => Engine!Spec
  BY <1>1, Invariance, StepImplementsEngine, PTL DEF Spec, Engine!Spec
<1>3. Spec => Escalation!Spec
  BY <1>1, StepImplementsEscalation, PTL DEF Spec, Escalation!Spec
<1>4. Spec => Audit!Spec
  BY <1>1, Invariance, RememberedInvariance, StepImplementsAudit, PTL
  DEF Spec, Audit!Spec
<1> QED
  BY <1>2, <1>3, <1>4 DEF ImplementsComponents

-----------------------------------------------------------------------------
(* What is proved of each component alone holds of it here. *)

EngineProofs == INSTANCE PolicyEngineProofs WITH Scores <- AcceptedScores
EscalationProofs == INSTANCE EscalationLimiterProofs WITH CountCap <- MaxEvents
AuditProofs == INSTANCE AuditLogProofs WITH MaxLog <- MaxEvents

LEMMA ScoresAreIntegers == AcceptedScores \subseteq 0..100
  BY DEF AcceptedScores, Accepted

LEMMA EngineInit == Init => EngineProofs!IInv
<1> SUFFICES ASSUME Init PROVE EngineProofs!IInv
  OBVIOUS
<1>1. EngineProofs!Init
  BY DEF Init, Engine!Init, EngineProofs!Init
<1> QED
  BY <1>1, EngineProofs!InitIInv, ComponentsAssumption, ScoresAreIntegers

LEMMA EngineNext == IInv /\ EngineProofs!IInv /\ [Next]_vars => EngineProofs!IInv'
<1> SUFFICES ASSUME IInv, EngineProofs!IInv, [Next]_vars
             PROVE  EngineProofs!IInv'
  OBVIOUS
<1>1. [Engine!Next]_(Engine!vars)
  BY StepImplementsEngine
<1>2. ASSUME NEW comm \in Comms, NEW score \in AcceptedScores,
             NEW d \in Engine!Decision, Engine!Evaluate(comm, score, d)
      PROVE  EngineProofs!Next
  <2>1. EngineProofs!Evaluate(comm, score, d)
    BY <1>2, Zenon
    DEF Engine!Evaluate, EngineProofs!Evaluate, Engine!TierOf,
        EngineProofs!TierOf, Engine!ActingTiers, EngineProofs!ActingTiers,
        Engine!AllowAction, EngineProofs!AllowAction, Engine!DenyAction,
        EngineProofs!DenyAction, Engine!Live, EngineProofs!Live,
        Engine!Filtered, EngineProofs!Filtered, Engine!Expired,
        EngineProofs!Expired
  <2>2. d \in EngineProofs!Decision
    BY DEF Engine!Decision, EngineProofs!Decision, Engine!Tiers,
           EngineProofs!Tiers, Engine!Reasons, EngineProofs!Reasons
  <2> QED
    BY <2>1, <2>2, Zenon DEF EngineProofs!Next
<1>3. ASSUME Engine!Tick \/ Engine!NewEngine PROVE EngineProofs!Next
  BY <1>3 DEF Engine!Tick, Engine!NewEngine, EngineProofs!Next,
              EngineProofs!Tick, EngineProofs!NewEngine
<1>4. [EngineProofs!Next]_(EngineProofs!vars)
  BY <1>1, <1>2, <1>3 DEF Engine!Next, Engine!vars, EngineProofs!vars
<1> QED
  BY <1>4, EngineProofs!NextIInv, ComponentsAssumption, ScoresAreIntegers

LEMMA EscalationInit == Init => EscalationProofs!IInv
<1> SUFFICES ASSUME Init PROVE EscalationProofs!IInv
  OBVIOUS
<1>1. EscalationProofs!Init
  BY DEF Init, Escalation!Init, EscalationProofs!Init
<1> QED
  BY <1>1, EscalationProofs!InitIInv, ComponentsAssumption, PipelineAssumption

LEMMA EscalationNext ==
    EscalationProofs!IInv /\ [Next]_vars => EscalationProofs!IInv'
<1> SUFFICES ASSUME EscalationProofs!IInv, [Next]_vars
             PROVE  EscalationProofs!IInv'
  OBVIOUS
<1>1. [Escalation!Next]_(Escalation!vars)
  BY StepImplementsEscalation
<1>2. [EscalationProofs!Next]_(EscalationProofs!vars)
  BY <1>1
  DEF Escalation!Next, EscalationProofs!Next, Escalation!vars,
      EscalationProofs!vars, Escalation!Tick, EscalationProofs!Tick,
      Escalation!EscalateWithin, EscalationProofs!EscalateWithin,
      Escalation!EscalateOver, EscalationProofs!EscalateOver,
      Escalation!CountEscalation, EscalationProofs!CountEscalation,
      Escalation!NewCount, EscalationProofs!NewCount, Escalation!Stale,
      EscalationProofs!Stale, Escalation!Restart, EscalationProofs!Restart
<1> QED
  BY <1>2, EscalationProofs!NextIInv, ComponentsAssumption, PipelineAssumption

LEMMA AuditConstants ==
    /\ Encoded \in [Bodies -> Bodies]
    /\ Faults \subseteq AuditProofs!FaultKinds
    /\ MaxEvents \in Nat
  BY ComponentsAssumption, PipelineAssumption
  DEF Encoded, Audit!FaultKinds, AuditProofs!FaultKinds

LEMMA AuditInit == Init => AuditProofs!IInv
<1> SUFFICES ASSUME Init PROVE AuditProofs!IInv
  OBVIOUS
<1>1. AuditProofs!Init
  BY DEF Init, Audit!Init, AuditProofs!Init, Audit!Genesis, AuditProofs!Genesis
<1> QED
  BY <1>1, AuditProofs!InitIInv, AuditConstants

LEMMA AuditNext ==
    IInv /\ Remembered /\ AuditProofs!IInv /\ [Next]_vars => AuditProofs!IInv'
<1> SUFFICES ASSUME IInv, Remembered, AuditProofs!IInv, [Next]_vars
             PROVE  AuditProofs!IInv'
  OBVIOUS
<1>1. [Audit!Next]_(Audit!vars)
  BY StepImplementsAudit
<1>2. ASSUME NEW body \in Bodies,
             Audit!Log(body) \/ Audit!LogLost(body) \/ Audit!LogTorn(body)
      PROVE  AuditProofs!Next
  BY <1>2, Zenon
  DEF AuditProofs!Next, Audit!Log, AuditProofs!Log, Audit!LogLost,
      AuditProofs!LogLost, Audit!LogTorn, AuditProofs!LogTorn, Audit!Advance,
      AuditProofs!Advance, Audit!Written, AuditProofs!Written, Audit!Line,
      AuditProofs!Line, Audit!Garbage, AuditProofs!Garbage,
      Audit!ComputeHash, AuditProofs!ComputeHash
<1>3. ASSUME Audit!Crash PROVE AuditProofs!Next
  BY <1>3 DEF AuditProofs!Next, Audit!Crash, AuditProofs!Crash
<1>4. ASSUME Audit!PowerLoss PROVE AuditProofs!Next
  BY <1>4, Zenon DEF AuditProofs!Next, Audit!PowerLoss, AuditProofs!PowerLoss,
              Audit!Garbage, AuditProofs!Garbage
<1>5. ASSUME Audit!NewLogger PROVE AuditProofs!Next
  BY <1>5 DEF AuditProofs!Next, Audit!NewLogger, AuditProofs!NewLogger,
              Audit!LoadLastHash, AuditProofs!LoadLastHash, Audit!Genesis,
              AuditProofs!Genesis, Audit!IsEntry, AuditProofs!IsEntry
<1>6. [AuditProofs!Next]_(AuditProofs!vars)
  BY <1>1, <1>2, <1>3, <1>4, <1>5 DEF Audit!Next, Audit!vars, AuditProofs!vars
<1> QED
  BY <1>6, AuditProofs!NextIInv, AuditConstants

ComponentsIInv ==
    EngineProofs!IInv /\ EscalationProofs!IInv /\ AuditProofs!IInv

Agent == IInv /\ Remembered /\ ComponentsIInv

LEMMA InitAgent == Init => Agent
  BY InitIInv, InitRemembered, EngineInit, EscalationInit, AuditInit
  DEF Agent, ComponentsIInv

LEMMA NextAgent == Agent /\ [Next]_vars => Agent'
  BY NextIInv, NextRemembered, EngineNext, EscalationNext, AuditNext
  DEF Agent, ComponentsIInv

LEMMA AgentInvariance == Spec => []Agent
  BY InitAgent, NextAgent, PTL DEF Spec

(* In the composed agent, whatever the goroutines do to each other: no       *)
(* action storm is allowed, no more than two quotas of events reach the LLM  *)
(* in a window, and as long as no write fails the audit file verifies and    *)
(* holds the calls of Log.                                                   *)
THEOREM ComponentsKeepTheirPromises ==
    Spec => [](Engine!NoActionStorm /\ Escalation!AtMostTwoQuotas
                   /\ Audit!ChainIntact)
<1>1. ASSUME Agent PROVE Engine!NoActionStorm /\ Escalation!AtMostTwoQuotas
  BY <1>1
  DEF Agent, ComponentsIInv, EngineProofs!IInv, EngineProofs!NoActionStorm,
      Engine!NoActionStorm, EscalationProofs!IInv,
      EscalationProofs!AtMostTwoQuotas, Escalation!AtMostTwoQuotas
<1>2. ASSUME Agent PROVE Audit!ChainIntact
  <2>1. AuditProofs!FileIsLog /\ AuditProofs!TypeOK
    BY <1>2 DEF Agent, ComponentsIInv, AuditProofs!IInv
  <2> SUFFICES ASSUME clean
               PROVE  /\ Audit!VerifyChain(file)
                      /\ Len(file) = Len(logged)
                      /\ \A i \in 1..Len(file) : file[i].body = logged[i]
    BY DEF Audit!ChainIntact
  <2>2. Len(file) = Len(logged) /\ \A i \in 1..Len(file) : AuditProofs!LineOfCall(i)
    BY <2>1 DEF AuditProofs!FileIsLog
  <2>3. ASSUME NEW i \in 1..Len(file) PROVE Encoded[logged[i]] = logged[i]
    BY <2>1, <2>2 DEF Encoded, AuditProofs!TypeOK
  <2> QED
    BY <2>2, <2>3
    DEF Audit!VerifyChain, Audit!LineVerifies, AuditProofs!LineOfCall,
        Audit!IsEntry, AuditProofs!IsEntry, Audit!Genesis, AuditProofs!Genesis,
        Audit!ComputeHash, AuditProofs!ComputeHash
<1> QED
  BY <1>1, <1>2, AgentInvariance, PTL

(* The goroutines, the readers, the counters and the three components keep   *)
(* their types.                                                              *)
THEOREM TypeCorrect == Spec => []TypeOK
<1>1. ASSUME Agent PROVE TypeOK
  <2>1. EngineProofs!TypeOK /\ EscalationProofs!TypeOK /\ AuditProofs!TypeOK
    BY <1>1 DEF Agent, ComponentsIInv, EngineProofs!IInv,
                EscalationProofs!IInv, AuditProofs!IInv
  <2>2. Engine!TypeOK /\ Escalation!TypeOK
    BY <2>1 DEF EngineProofs!TypeOK, EscalationProofs!TypeOK, Engine!TypeOK,
                Escalation!TypeOK
  <2>3. Audit!TypeOK
    BY <2>1, Zenon
    DEF AuditProofs!TypeOK, AuditProofs!IsLine, AuditProofs!IsEntry,
        AuditProofs!Garbage, Audit!TypeOK, Audit!IsLine, Audit!IsEntry,
        Audit!Garbage
  <2>4. llmSemaphore \in 0..Slots
    <3>1. llmSemaphore \in Nat /\ llmSemaphore <= Slots /\ Slots \in Nat
      BY <1>1, HoldersAreFinite, PipelineAssumption DEF Agent, IInv
    <3> QED
      BY <3>1
  <2> QED
    BY <1>1, <2>2, <2>3, <2>4 DEF TypeOK, Agent, IInv, Types, Remembered, AgentTypes
<1> QED
  BY <1>1, AgentInvariance, PTL

-----------------------------------------------------------------------------
(* Counting.  A step changes one job, appends one, or appends one line to    *)
(* the file, so the sets that are counted gain or lose one index at most.    *)

In(x, S) == IF x \in S THEN 1 ELSE 0

LEMMA CountsDifferAt ==
    ASSUME NEW n \in Nat, NEW A \in SUBSET (1..n), NEW B \in SUBSET (1..n),
           NEW j \in 1..n, \A k \in 1..n : k # j => (k \in A <=> k \in B)
    PROVE  /\ Cardinality(A) \in Nat /\ Cardinality(B) \in Nat
           /\ Cardinality(B) = Cardinality(A) + In(j, B) - In(j, A)
<1>1. IsFiniteSet(A) /\ IsFiniteSet(B)
  <2>1. IsFiniteSet(1..n)
    BY FS_Interval
  <2> QED
    BY <2>1, FS_Subset
<1>2. Cardinality(A) \in Nat /\ Cardinality(B) \in Nat
  BY <1>1, FS_CardinalityType
<1>3. CASE j \in A <=> j \in B
  <2>1. A = B
    <3>1. \A k \in 1..n : k \in A <=> k \in B
      BY <1>3
    <3> QED
      BY <3>1
  <2> QED
    BY <1>2, <2>1 DEF In
<1>4. CASE j \notin A /\ j \in B
  <2>1. B = A \cup {j}
    BY <1>4
  <2>2. Cardinality(B) = Cardinality(A) + 1
    BY <1>1, <1>4, <2>1, FS_AddElement
  <2> QED
    BY <1>2, <1>4, <2>2 DEF In
<1>5. CASE j \in A /\ j \notin B
  <2>1. B = A \ {j}
    BY <1>5
  <2>2. Cardinality(B) = Cardinality(A) - 1
    BY <1>1, <1>5, <2>1, FS_RemoveElement
  <2> QED
    BY <1>2, <1>5, <2>2 DEF In
<1> QED
  BY <1>3, <1>4, <1>5

LEMMA CountAfterMove ==
    ASSUME NEW S, jobs \in Seq(JobType), NEW j \in 1..Len(jobs), NEW new,
           jobs' = [jobs EXCEPT ![j] = new]
    PROVE  /\ Cardinality(JobsAt(S)) \in Nat
           /\ Cardinality(JobsAt(S)') =
                  Cardinality(JobsAt(S)) + In(new.pc, S) - In(jobs[j].pc, S)
<1>1. /\ Len(jobs) \in Nat /\ Len(jobs') = Len(jobs)
      /\ \A k \in 1..Len(jobs) : jobs'[k] = IF k = j THEN new ELSE jobs[k]
  OBVIOUS
<1> DEFINE A == JobsAt(S)
           B == {k \in 1..Len(jobs) : jobs'[k].pc \in S}
<1>2. JobsAt(S)' = B
  BY <1>1 DEF JobsAt
<1>3. /\ A \in SUBSET (1..Len(jobs)) /\ B \in SUBSET (1..Len(jobs))
      /\ \A k \in 1..Len(jobs) : k # j => (k \in A <=> k \in B)
  BY <1>1 DEF JobsAt
<1>4. In(j, A) = In(jobs[j].pc, S) /\ In(j, B) = In(new.pc, S)
  BY <1>1 DEF In, JobsAt
<1> HIDE DEF A, B
<1>5. /\ Cardinality(A) \in Nat
      /\ Cardinality(B) = Cardinality(A) + In(j, B) - In(j, A)
  BY <1>1, <1>3, CountsDifferAt
<1> QED
  BY <1>2, <1>4, <1>5 DEF A

LEMMA CountAfterSpawn ==
    ASSUME NEW S, jobs \in Seq(JobType), NEW new, jobs' = Append(jobs, new)
    PROVE  /\ Cardinality(JobsAt(S)) \in Nat
           /\ Cardinality(JobsAt(S)') = Cardinality(JobsAt(S)) + In(new.pc, S)
<1> DEFINE n == Len(jobs) + 1
           A == JobsAt(S)
           B == {k \in 1..n : jobs'[k].pc \in S}
<1>1. /\ Len(jobs) \in Nat /\ Len(jobs') = n /\ jobs'[n] = new
      /\ \A k \in 1..Len(jobs) : jobs'[k] = jobs[k]
  OBVIOUS
<1>2. JobsAt(S)' = B
  BY <1>1 DEF JobsAt
<1>3. /\ n \in Nat /\ n \in 1..n /\ A \in SUBSET (1..n) /\ B \in SUBSET (1..n)
      /\ \A k \in 1..n : k # n => (k \in A <=> k \in B)
  BY <1>1 DEF JobsAt
<1>4. In(n, A) = 0 /\ In(n, B) = In(new.pc, S)
  BY <1>1 DEF In, JobsAt
<1> HIDE DEF A, B, n
<1>5. /\ Cardinality(A) \in Nat
      /\ Cardinality(B) = Cardinality(A) + In(n, B) - In(n, A)
  BY <1>3, CountsDifferAt
<1>6. In(new.pc, S) \in Nat
  BY DEF In
<1> QED
  BY <1>2, <1>4, <1>5, <1>6 DEF A

-----------------------------------------------------------------------------
(* The counters. *)

LEMMA ThereAreThreeReaders == IsFiniteSet(Labels) /\ Cardinality(Labels) = 3
<1>1. Labels = {"EXEC"} \cup {"OPEN"} \cup {"CONNECT"}
  BY DEF Labels
<1>2. IsFiniteSet({"EXEC"}) /\ Cardinality({"EXEC"}) = 1
  BY FS_Singleton
<1>3. /\ IsFiniteSet({"EXEC"} \cup {"OPEN"})
      /\ Cardinality({"EXEC"} \cup {"OPEN"}) = 1 + 1
  BY <1>2, FS_AddElement
<1>4. /\ IsFiniteSet({"EXEC"} \cup {"OPEN"} \cup {"CONNECT"})
      /\ Cardinality({"EXEC"} \cup {"OPEN"} \cup {"CONNECT"}) = 2 + 1
  BY <1>3, FS_AddElement
<1> QED
  BY <1>1, <1>4

LEMMA ReadersAreFew ==
    /\ IsFiniteSet(ToCount) /\ Cardinality(ToCount) \in Nat
    /\ IsFiniteSet(ToRecord) /\ Cardinality(ToRecord) \in 0..3
<1>1. IsFiniteSet(Labels) /\ Cardinality(Labels) = 3
  BY ThereAreThreeReaders
<1>2. ToCount \subseteq Labels /\ ToRecord \subseteq Labels
  BY DEF ToCount, ToRecord
<1>3. /\ IsFiniteSet(ToCount) /\ IsFiniteSet(ToRecord)
      /\ Cardinality(ToRecord) <= Cardinality(Labels)
  BY <1>1, <1>2, FS_Subset
<1>4. Cardinality(ToCount) \in Nat /\ Cardinality(ToRecord) \in Nat
  BY <1>3, FS_CardinalityType
<1> QED
  BY <1>1, <1>3, <1>4

(* The three steps of a reader with a rate-limited event. *)
LEMMA TurnAwayCounts ==
    ASSUME Remembered, NEW label \in Labels, NEW ev, TurnAway(label, ev)
    PROVE  /\ Cardinality(ToCount') = Cardinality(ToCount) + 1
           /\ ToRecord' = ToRecord
<1>1. /\ limited \in [Labels -> SUBSET [ev : Events, counted : BOOLEAN]]
      /\ limited[label] = {}
      /\ limited' = [limited EXCEPT ![label] = {[ev |-> ev, counted |-> FALSE]}]
  BY DEF TurnAway, Escalates, Remembered, AgentTypes
<1>2. PICK r : r = [ev |-> ev, counted |-> FALSE]
  OBVIOUS
<1>3. ~r.counted
  BY <1>2
<1>4. /\ limited'[label] = {r}
      /\ \A l \in Labels : l # label => limited'[l] = limited[l]
  BY <1>1, <1>2
<1>5. /\ ToCount' = ToCount \cup {label} /\ label \notin ToCount
      /\ ToRecord' = ToRecord
  BY <1>1, <1>3, <1>4 DEF ToCount, ToRecord
<1> QED
  BY <1>5, ReadersAreFew, FS_AddElement

LEMMA CountingCounts ==
    ASSUME Remembered, NEW label \in Labels, CountRateLimited(label)
    PROVE  /\ Cardinality(ToCount') = Cardinality(ToCount) - 1
           /\ Cardinality(ToRecord') = Cardinality(ToRecord) + 1
<1>1. /\ limited \in [Labels -> SUBSET [ev : Events, counted : BOOLEAN]]
      /\ \A r, s \in limited[label] : r.counted = s.counted
  BY DEF Remembered, AgentTypes, OneAtATime
<1>2. PICK r \in limited[label] :
          /\ ~r.counted
          /\ limited' = [limited EXCEPT ![label] = {[ev |-> r.ev, counted |-> TRUE]}]
  BY DEF CountRateLimited
<1>3. PICK s : s = [ev |-> r.ev, counted |-> TRUE]
  OBVIOUS
<1>4. /\ s.counted /\ limited'[label] = {s}
      /\ \A l \in Labels : l # label => limited'[l] = limited[l]
  BY <1>1, <1>2, <1>3
<1>5. /\ ToCount' = ToCount \ {label} /\ label \in ToCount
      /\ ToRecord' = ToRecord \cup {label} /\ label \notin ToRecord
  BY <1>1, <1>2, <1>4 DEF ToCount, ToRecord
<1> QED
  BY <1>5, ReadersAreFew, FS_AddElement, FS_RemoveElement

LEMMA RecordingCounts ==
    ASSUME Remembered, NEW label \in Labels, AuditRateLimited(label)
    PROVE  /\ ToCount' = ToCount
           /\ Cardinality(ToRecord') = Cardinality(ToRecord) - 1
<1>1. /\ limited \in [Labels -> SUBSET [ev : Events, counted : BOOLEAN]]
      /\ \A r, s \in limited[label] : r.counted = s.counted
      /\ limited' = [limited EXCEPT ![label] = {}]
      /\ \E r \in limited[label] : r.counted
  BY DEF Remembered, AgentTypes, OneAtATime, AuditRateLimited
<1>2. /\ limited'[label] = {}
      /\ \A l \in Labels : l # label => limited'[l] = limited[l]
  BY <1>1
<1>3. ToCount' = ToCount /\ ToRecord' = ToRecord \ {label} /\ label \in ToRecord
  BY <1>1, <1>2 DEF ToCount, ToRecord
<1> QED
  BY <1>3, ReadersAreFew, FS_RemoveElement

(* MetricsAddUp over what it counts: w readers with an event to count, q      *)
(* goroutines without an answer and e with one that is not evaluated yet.    *)
Ledger(m, w, q, e) ==
    /\ m.escalated = m.rateLimited + w + q + m.llmSuccess + m.llmError
    /\ m.llmSuccess = m.decisions + e

(* One event more is counted, and one of the three sets changes with it. *)
LEMMA LedgerSteps ==
    ASSUME NEW m \in MetricsType, NEW w \in Nat, NEW q \in Nat, NEW e \in Nat,
           Ledger(m, w, q, e)
    PROVE  /\ Ledger([m EXCEPT !.escalated = @ + 1], w, q + 1, e)
           /\ Ledger([m EXCEPT !.escalated = @ + 1], w + 1, q, e)
           /\ Ledger([m EXCEPT !.rateLimited = @ + 1], w - 1, q, e)
           /\ Ledger([m EXCEPT !.llmError = @ + 1], w, q - 1, e)
           /\ Ledger([m EXCEPT !.llmSuccess = @ + 1], w, q - 1, e + 1)
           /\ Ledger([m EXCEPT !.decisions = @ + 1], w, q, e - 1)
<1>1. /\ m.escalated \in Nat /\ m.rateLimited \in Nat /\ m.llmSuccess \in Nat
      /\ m.llmError \in Nat /\ m.decisions \in Nat
  BY DEF MetricsType
<1>2. ASSUME NEW n, n = [m EXCEPT !.escalated = @ + 1]
      PROVE  Ledger(n, w, q + 1, e) /\ Ledger(n, w + 1, q, e)
  <2>1. /\ n.escalated = m.escalated + 1 /\ n.rateLimited = m.rateLimited
        /\ n.llmSuccess = m.llmSuccess /\ n.llmError = m.llmError
        /\ n.decisions = m.decisions
    BY <1>2 DEF MetricsType
  <2>2. Ledger(n, w, q + 1, e)
    BY <1>1, <2>1 DEF Ledger
  <2>3. Ledger(n, w + 1, q, e)
    BY <1>1, <2>1 DEF Ledger
  <2> QED
    BY <2>2, <2>3
<1>3. ASSUME NEW n, n = [m EXCEPT !.rateLimited = @ + 1]
      PROVE  Ledger(n, w - 1, q, e)
  <2>1. /\ n.escalated = m.escalated /\ n.rateLimited = m.rateLimited + 1
        /\ n.llmSuccess = m.llmSuccess /\ n.llmError = m.llmError
        /\ n.decisions = m.decisions
    BY <1>3 DEF MetricsType
  <2> QED
    BY <1>1, <2>1 DEF Ledger
<1>4. ASSUME NEW n, n = [m EXCEPT !.llmError = @ + 1]
      PROVE  Ledger(n, w, q - 1, e)
  <2>1. /\ n.escalated = m.escalated /\ n.rateLimited = m.rateLimited
        /\ n.llmSuccess = m.llmSuccess /\ n.llmError = m.llmError + 1
        /\ n.decisions = m.decisions
    BY <1>4 DEF MetricsType
  <2> QED
    BY <1>1, <2>1 DEF Ledger
<1>5. ASSUME NEW n, n = [m EXCEPT !.llmSuccess = @ + 1]
      PROVE  Ledger(n, w, q - 1, e + 1)
  <2>1. /\ n.escalated = m.escalated /\ n.rateLimited = m.rateLimited
        /\ n.llmSuccess = m.llmSuccess + 1 /\ n.llmError = m.llmError
        /\ n.decisions = m.decisions
    BY <1>5 DEF MetricsType
  <2> QED
    BY <1>1, <2>1 DEF Ledger
<1>6. ASSUME NEW n, n = [m EXCEPT !.decisions = @ + 1]
      PROVE  Ledger(n, w, q, e - 1)
  <2>1. /\ n.escalated = m.escalated /\ n.rateLimited = m.rateLimited
        /\ n.llmSuccess = m.llmSuccess /\ n.llmError = m.llmError
        /\ n.decisions = m.decisions + 1
    BY <1>6 DEF MetricsType
  <2> QED
    BY <1>1, <2>1 DEF Ledger
<1> QED
  BY <1>2, <1>3, <1>4, <1>5, <1>6

LEMMA LedgerForm ==
    /\ MetricsAddUp <=>
           Ledger(metrics, Cardinality(ToCount),
                  Cardinality(JobsAt({"queued", "assess"})),
                  Cardinality(JobsAt({"evaluate"})))
    /\ MetricsAddUp' <=>
           Ledger(metrics', Cardinality(ToCount'),
                  Cardinality(JobsAt({"queued", "assess"})'),
                  Cardinality(JobsAt({"evaluate"})'))
  BY Zenon DEF MetricsAddUp, Ledger

LEMMA InitAddsUp == Init => MetricsAddUp
<1> SUFFICES ASSUME Init PROVE MetricsAddUp
  OBVIOUS
<1>1. metrics = NoMetrics /\ jobs = <<>> /\ limited = [label \in Labels |-> {}]
  BY DEF Init
<1>2. /\ ToCount = {} /\ JobsAt({"queued", "assess"}) = {}
      /\ JobsAt({"evaluate"}) = {}
  BY <1>1 DEF ToCount, JobsAt
<1>3. Cardinality({}) = 0
  BY FS_EmptySet
<1>4. Ledger(NoMetrics, 0, 0, 0)
  BY DEF NoMetrics, Ledger
<1> QED
  BY <1>1, <1>2, <1>3, <1>4, LedgerForm

LEMMA NextAddsUp == Agent /\ MetricsAddUp /\ [Next]_vars => MetricsAddUp'
<1> SUFFICES ASSUME Agent, MetricsAddUp, [Next]_vars PROVE MetricsAddUp'
  OBVIOUS
<1> DEFINE w == Cardinality(ToCount)
           q == Cardinality(JobsAt({"queued", "assess"}))
           e == Cardinality(JobsAt({"evaluate"}))
<1>1. /\ IInv /\ jobs \in Seq(JobType) /\ Len(jobs) \in Nat
      /\ metrics \in MetricsType /\ Remembered
  BY DEF Agent, IInv, Types, Remembered, AgentTypes
<1>3. Ledger(metrics, w, q, e)
  BY LedgerForm
<1>4. ASSUME metrics' = metrics, ToCount' = ToCount,
             Cardinality(JobsAt({"queued", "assess"})') = q,
             Cardinality(JobsAt({"evaluate"})') = e
      PROVE  MetricsAddUp'
  BY <1>3, <1>4, LedgerForm
<1>5. ASSUME jobs' = jobs
      PROVE  /\ JobsAt({"queued", "assess"})' = JobsAt({"queued", "assess"})
             /\ JobsAt({"evaluate"})' = JobsAt({"evaluate"})
  BY <1>5 DEF JobsAt
<1>6. w \in Nat /\ q \in Nat /\ e \in Nat
  <2>1. IsFiniteSet(1..Len(jobs))
    BY <1>1, FS_Interval
  <2>2. /\ IsFiniteSet(JobsAt({"queued", "assess"}))
        /\ IsFiniteSet(JobsAt({"evaluate"}))
    BY <2>1, FS_Subset DEF JobsAt
  <2> QED
    BY <2>2, FS_CardinalityType, ReadersAreFew
<1>7. CASE Stop
  <2>1. /\ metrics' = NoMetrics /\ limited' = [label \in Labels |-> {}] /\ ~up'
    BY <1>7 DEF Stop, Audit!Crash, Audit!PowerLoss
  <2>2. \A j \in 1..Len(jobs') : jobs'[j].pc \in Finished
    BY <1>1, <1>7, <2>1, StopKeepsIInv DEF IInv, NoneSurvives
  <2>3. /\ ToCount' = {} /\ JobsAt({"queued", "assess"})' = {}
        /\ JobsAt({"evaluate"})' = {}
    BY <2>1, <2>2 DEF ToCount, JobsAt, Finished
  <2>4. Cardinality({}) = 0
    BY FS_EmptySet
  <2>5. Ledger(NoMetrics, 0, 0, 0)
    BY DEF NoMetrics, Ledger
  <2> QED
    BY <2>1, <2>3, <2>4, <2>5, LedgerForm
<1>8. ASSUME NEW label \in Labels, NEW ev \in Events, SpawnJob(label, ev)
      PROVE  MetricsAddUp'
  <2>1. /\ jobs' = Append(jobs, NewJob(ev)) /\ limited' = limited
        /\ metrics' = [metrics EXCEPT !.escalated = @ + 1]
    BY <1>8 DEF SpawnJob
  <2>2. NewJob(ev).pc = "queued"
    BY DEF NewJob
  <2>3. /\ Cardinality(JobsAt({"queued", "assess"})') = q + 1
        /\ Cardinality(JobsAt({"evaluate"})') = e + 0
    BY <1>1, <2>1, <2>2, CountAfterSpawn DEF In
  <2>4. ToCount' = ToCount
    BY <2>1 DEF ToCount
  <2>6. Ledger(metrics', w, q + 1, e)
    BY <1>1, <1>3, <1>6, <2>1, LedgerSteps
  <2> QED
    BY <1>6, <2>3, <2>4, <2>6, LedgerForm
<1>9. ASSUME NEW label \in Labels, NEW ev \in Events, TurnAway(label, ev)
      PROVE  MetricsAddUp'
  <2>1. jobs' = jobs /\ metrics' = [metrics EXCEPT !.escalated = @ + 1]
    BY <1>9 DEF TurnAway
  <2>2. Cardinality(ToCount') = w + 1
    BY <1>1, <1>9, TurnAwayCounts
  <2>4. Ledger(metrics', w + 1, q, e)
    BY <1>1, <1>3, <1>6, <2>1, LedgerSteps
  <2> QED
    BY <1>5, <2>1, <2>2, <2>4, LedgerForm
<1>15. ASSUME NEW label \in Labels, AuditRateLimited(label)
       PROVE  MetricsAddUp'
  <2>1. jobs' = jobs /\ metrics' = metrics
    BY <1>15 DEF AuditRateLimited
  <2>2. ToCount' = ToCount
    BY <1>1, <1>15, RecordingCounts
  <2> QED
    BY <1>4, <1>5, <2>1, <2>2
<1>10. ASSUME NEW label \in Labels, CountRateLimited(label)
       PROVE  MetricsAddUp'
  <2>1. jobs' = jobs /\ metrics' = [metrics EXCEPT !.rateLimited = @ + 1]
    BY <1>10 DEF CountRateLimited
  <2>2. Cardinality(ToCount') = w - 1
    BY <1>1, <1>10, CountingCounts
  <2>4. Ledger(metrics', w - 1, q, e)
    BY <1>1, <1>3, <1>6, <2>1, LedgerSteps
  <2> QED
    BY <1>5, <2>1, <2>2, <2>4, LedgerForm
<1>11. ASSUME NEW j \in 1..Len(jobs), Acquire(j) \/ JobStep(j)
       PROVE  MetricsAddUp'
  <2>1. PICK new : Moves(j, new)
    BY <1>1, <1>11, JobMoves
  <2>2. limited' = limited
    BY <1>11, JobLeavesAlone
  <2>3. ToCount' = ToCount
    BY <2>2 DEF ToCount
  <2>4. /\ Cardinality(JobsAt({"queued", "assess"})') =
               q + In(new.pc, {"queued", "assess"})
                 - In(jobs[j].pc, {"queued", "assess"})
        /\ Cardinality(JobsAt({"evaluate"})') =
               e + In(new.pc, {"evaluate"}) - In(jobs[j].pc, {"evaluate"})
    BY <1>1, <2>1, CountAfterMove DEF Moves
  <2>5. \/ /\ metrics' = metrics
           /\ In(new.pc, {"evaluate"}) = In(jobs[j].pc, {"evaluate"})
           /\ In(new.pc, {"queued", "assess"}) =
                  In(jobs[j].pc, {"queued", "assess"})
        \/ Fails(jobs[j], new) \/ Answers(jobs[j], new) \/ Decides(jobs[j], new)
    BY <2>1 DEF Moves, Waits, Records, Strikes, Returns, In
  <2>6. CASE /\ metrics' = metrics
             /\ In(new.pc, {"evaluate"}) = In(jobs[j].pc, {"evaluate"})
             /\ In(new.pc, {"queued", "assess"}) =
                    In(jobs[j].pc, {"queued", "assess"})
    <3>1. In(jobs[j].pc, {"queued", "assess"}) \in Nat
          /\ In(jobs[j].pc, {"evaluate"}) \in Nat
      BY DEF In
    <3>2. /\ Cardinality(JobsAt({"queued", "assess"})') = q
          /\ Cardinality(JobsAt({"evaluate"})') = e
      BY <1>6, <2>4, <2>6, <3>1
    <3> QED
      BY <1>4, <2>3, <2>6, <3>2
  <2>7. CASE Fails(jobs[j], new)
    <3>1. /\ Cardinality(JobsAt({"queued", "assess"})') = q - 1
          /\ Cardinality(JobsAt({"evaluate"})') = e
      BY <1>6, <2>4, <2>7 DEF Fails, In
    <3>3. Ledger(metrics', w, q - 1, e)
      BY <1>1, <1>3, <1>6, <2>7, LedgerSteps DEF Fails
    <3> QED
      BY <2>3, <3>1, <3>3, LedgerForm
  <2>8. CASE Answers(jobs[j], new)
    <3>1. /\ Cardinality(JobsAt({"queued", "assess"})') = q - 1
          /\ Cardinality(JobsAt({"evaluate"})') = e + 1
      BY <1>6, <2>4, <2>8 DEF Answers, In
    <3>3. Ledger(metrics', w, q - 1, e + 1)
      BY <1>1, <1>3, <1>6, <2>8, LedgerSteps DEF Answers
    <3> QED
      BY <2>3, <3>1, <3>3, LedgerForm
  <2>9. CASE Decides(jobs[j], new)
    <3>1. /\ Cardinality(JobsAt({"queued", "assess"})') = q
          /\ Cardinality(JobsAt({"evaluate"})') = e - 1
      BY <1>6, <2>4, <2>9 DEF Decides, In
    <3>3. Ledger(metrics', w, q, e - 1)
      BY <1>1, <1>3, <1>6, <2>9, LedgerSteps DEF Decides
    <3> QED
      BY <2>3, <3>1, <3>3, LedgerForm
  <2> QED
    BY <2>5, <2>6, <2>7, <2>8, <2>9
<1>12. ASSUME UNCHANGED <<metrics, limited, jobs>> PROVE MetricsAddUp'
  BY <1>4, <1>5, <1>12 DEF ToCount
<1>13. CASE Start \/ Tick \/ UNCHANGED vars
  BY <1>12, <1>13 DEF Start, Tick, vars, agentVars
<1>14. ASSUME NEW pid \in Pids, Churn(pid) PROVE MetricsAddUp'
  BY <1>12, <1>14 DEF Churn, agentVars
<1> QED
  BY <1>7, <1>8, <1>9, <1>10, <1>11, <1>13, <1>14, <1>15 DEF Next, ReaderStep

(* No escalation is lost between handleEvent, its goroutines and the         *)
(* counters, whatever the interleaving and however often the agent starts.   *)
THEOREM CountersAddUp == Spec => []MetricsAddUp
  BY InitAddsUp, NextAddsUp, AgentInvariance, PTL DEF Spec

-----------------------------------------------------------------------------
(* Signals per window.  An acting decision is charged to the window in which *)
(* it is made, and the signal follows at any later time; but a goroutine     *)
(* whose signal is outstanding holds a slot.                                 *)

(* Evaluate allowed the action and it is not carried out yet. *)
Outstanding(job) == job.pc \in {"audit", "act"} /\ Acts(job.decision)

(* The jobs of this life that signalled between t and u or still may. *)
SignalOrMay(t, u) ==
    {j \in 1..Len(jobs) : /\ jobs[j].life = lives
                          /\ \/ jobs[j].at \in t..u
                             \/ u >= now /\ Outstanding(jobs[j])}

ChargedIn(t, u) == {i \in 1..Len(taken) : taken[i] \in t..u}

SignalledIn(life, t, u) ==
    {j \in 1..Len(jobs) : jobs[j].life = life /\ jobs[j].at \in t..u}

(* The inductive invariants: the signals of this life exceed the charges of  *)
(* any interval by no more than the slots, and those of an earlier life stay *)
(* within what SignalBurst allows.                                           *)
ChargedOrHeld ==
    \A t, u \in Nat :
        Cardinality(SignalOrMay(t, u)) <= Slots + Cardinality(ChargedIn(t, u))

PastBursts ==
    \A t \in Nat, life \in Nat :
        life < lives =>
            Cardinality(SignalledIn(life, t, t + Window - 1))
                <= maxActionsPerWindow + Slots

(* Subsets of the jobs and of the charges are finite. *)
LEMMA IndicesAreFinite ==
    ASSUME NEW n \in Nat, NEW A \in SUBSET (1..n)
    PROVE  IsFiniteSet(A) /\ Cardinality(A) \in Nat
<1>1. IsFiniteSet(1..n)
  BY FS_Interval
<1>2. IsFiniteSet(A)
  BY <1>1, FS_Subset
<1> QED
  BY <1>2, FS_CardinalityType

(* NoActionStorm, as a number of charges. *)
LEMMA WindowHoldsLimit ==
    ASSUME Agent, NEW t \in Nat
    PROVE  Cardinality(ChargedIn(t, t + Window - 1)) <= maxActionsPerWindow
<1> DEFINE S == ChargedIn(t, t + Window - 1)
           m == maxActionsPerWindow
<1>1. m \in Nat /\ Window \in Nat \ {0}
  BY ComponentsAssumption
<1>2. /\ taken \in Seq(Nat) /\ Len(taken) \in Nat
      /\ \A i \in 1..Len(taken) : taken[i] \in Nat
      /\ \A i, j \in 1..Len(taken) : i <= j => taken[i] <= taken[j]
      /\ \A i \in 1..(Len(taken) - m) : taken[i + m] - taken[i] >= Window
  BY DEF Agent, ComponentsIInv, EngineProofs!IInv, EngineProofs!TypeOK,
         EngineProofs!HistoryInOrder, EngineProofs!InOrder,
         EngineProofs!NoActionStorm
<1>3. CASE S = {}
  BY <1>1, <1>3, FS_EmptySet
<1>4. CASE S # {}
  <2>1. S \in SUBSET Nat
    BY <1>2 DEF ChargedIn
  <2> HIDE DEF S
  <2>2. PICK first \in S : \A i \in S : first <= i
    BY <1>4, <2>1, LeastNat
  <2>3. /\ first \in 1..Len(taken) /\ taken[first] >= t
        /\ \A i \in S : i \in 1..Len(taken) /\ taken[i] <= t + Window - 1
    BY <1>1, <1>2, <2>2 DEF S, ChargedIn
  <2>4. ASSUME NEW i \in S PROVE i <= first + m - 1
    <3>1. /\ first \in Nat /\ i \in Nat /\ first >= 1
          /\ i \in 1..Len(taken) /\ taken[i] <= t + Window - 1
      BY <1>2, <2>3
    <3> SUFFICES ASSUME i >= first + m PROVE FALSE
      BY <1>1, <3>1
    <3>2. /\ first + m \in 1..Len(taken)
          /\ first \in 1..(Len(taken) - m)
      BY <1>1, <1>2, <3>1
    <3>3. taken[first + m] - taken[first] >= Window
      BY <1>2, <3>2
    <3>4. taken[first + m] <= taken[i]
      BY <1>2, <3>1, <3>2
    <3>5. /\ taken[first] \in Nat /\ taken[i] \in Nat /\ taken[first + m] \in Nat
      BY <1>2, <2>3, <3>1, <3>2
    <3> QED
      BY <1>1, <2>3, <3>1, <3>3, <3>4, <3>5
  <2>5. first \in Int /\ first + m - 1 \in Int
    BY <1>1, <2>1, <2>2
  <2>6. S \in SUBSET (first..(first + m - 1))
    BY <2>1, <2>2, <2>4, <2>5
  <2>7. /\ IsFiniteSet(first..(first + m - 1))
        /\ Cardinality(first..(first + m - 1)) <= m
        /\ Cardinality(first..(first + m - 1)) \in Nat
    <3>1. PICK a \in Int, b \in Int : a = first /\ b = first + m - 1
      BY <2>5
    <3>2. /\ IsFiniteSet(a..b)
          /\ Cardinality(a..b) = IF a > b THEN 0 ELSE b - a + 1
      BY FS_Interval
    <3>3. Cardinality(a..b) <= m /\ Cardinality(a..b) \in Nat
      BY <1>1, <3>1, <3>2
    <3> QED
      BY <3>1, <3>2, <3>3
  <2>8. /\ Cardinality(S) <= Cardinality(first..(first + m - 1))
        /\ Cardinality(S) \in Nat
    BY <2>6, <2>7, FS_Subset, FS_CardinalityType
  <2> QED
    BY <1>1, <2>7, <2>8 DEF S
<1> QED
  BY <1>3, <1>4

LEMMA InitBurst == Init => ChargedOrHeld /\ PastBursts
<1> SUFFICES ASSUME Init PROVE ChargedOrHeld /\ PastBursts
  OBVIOUS
<1>1. jobs = <<>> /\ taken = <<>> /\ lives = 0 /\ Slots \in Nat
  BY PipelineAssumption DEF Init, Engine!Init
<1>2. ASSUME NEW t \in Nat, NEW u \in Nat
      PROVE  SignalOrMay(t, u) = {} /\ ChargedIn(t, u) = {}
  BY <1>1 DEF SignalOrMay, ChargedIn
<1>3. ChargedOrHeld
  BY <1>1, <1>2, FS_EmptySet DEF ChargedOrHeld
<1> QED
  BY <1>1, <1>3 DEF PastBursts

(* Only a job of this life moves. *)
LEMMA MovingJobIsOfThisLife ==
    ASSUME Agent, NEW j \in 1..Len(jobs), NEW new, Moves(j, new)
    PROVE  /\ jobs[j].life = lives /\ jobs[j].at \in Int
           /\ jobs[j].pc \notin {"isolate", "done", "cut"} => jobs[j].at < 0
<1>1. jobs[j] \in JobType /\ JobHistory(jobs[j]) /\ JobOK(jobs[j])
  BY DEF Agent, IInv, Types, AllJobsOK, Remembered, AllHistories
<1>2. jobs[j].pc \notin Finished
  BY DEF Moves, Waits, Fails, Answers, Decides, Records, Strikes, Returns, Finished
<1>3. jobs[j].at \in Int
  BY <1>1 DEF JobType
<1> QED
  BY <1>1, <1>2, <1>3 DEF JobHistory, JobOK

(* A decision that acts is charged in the step that makes it outstanding,    *)
(* unless the interval asked about is in the future, and then the slots are  *)
(* the bound.                                                                *)
LEMMA DecisionKeepsCharged ==
    ASSUME Agent, ChargedOrHeld, IInv', Remembered', NEW t \in Nat, NEW u \in Nat,
           NEW j \in 1..Len(jobs), NEW new, Moves(j, new),
           Decides(jobs[j], new), Acts(new.decision), u >= now,
           now' = now, lives' = lives
    PROVE  Cardinality(SignalOrMay(t, u)') <= Slots + Cardinality(ChargedIn(t, u)')
<1> DEFINE A == SignalOrMay(t, u)
           B == {k \in 1..Len(jobs) :
                    /\ jobs'[k].life = lives
                    /\ jobs'[k].at \in t..u \/ Outstanding(jobs'[k])}
           n == Len(taken) + 1
           C == ChargedIn(t, u)
           D == {i \in 1..n : taken'[i] \in t..u}
<1>1. /\ jobs \in Seq(JobType) /\ Len(jobs) \in Nat /\ now \in Nat
      /\ taken \in Seq(Nat) /\ Len(taken) \in Nat /\ Slots \in Nat
  BY PipelineAssumption DEF Agent, IInv, Types, ComponentsIInv,
                            EngineProofs!IInv, EngineProofs!TypeOK
<1>2. /\ Len(jobs') = Len(jobs)
      /\ \A k \in 1..Len(jobs) : jobs'[k] = IF k = j THEN new ELSE jobs[k]
  BY <1>1 DEF Moves
<1>3. /\ Len(taken') = n /\ taken'[n] = now
      /\ \A i \in 1..Len(taken) : taken'[i] = taken[i]
  BY <1>1 DEF Decides
<1>4. SignalOrMay(t, u)' = B /\ ChargedIn(t, u)' = D
  <2>1. SignalOrMay(t, u)' = B
    BY <1>2 DEF SignalOrMay, Outstanding
  <2>2. ChargedIn(t, u)' = D
    BY <1>3 DEF ChargedIn
  <2> QED
    BY <2>1, <2>2
<1>5. A \in SUBSET (1..Len(jobs)) /\ B \in SUBSET (1..Len(jobs))
      /\ C \in SUBSET (1..n) /\ D \in SUBSET (1..n) /\ n \in Nat /\ n \in 1..n
  BY <1>1 DEF SignalOrMay, ChargedIn
<1>6. Cardinality(A) <= Slots + Cardinality(C)
  BY DEF ChargedOrHeld
<1>7. CASE t > now
  <2>1. \A k \in 1..Len(jobs) : jobs'[k].at <= now /\ jobs'[k].at \in Int
    <3>1. jobs' \in Seq(JobType) /\ AllHistories'
      BY DEF Remembered, IInv, Types
    <3>2. \A k \in 1..Len(jobs') : jobs'[k].at <= now
      BY <3>1 DEF AllHistories, JobHistory
    <3>3. \A k \in 1..Len(jobs') : jobs'[k] \in JobType
      BY <3>1
    <3> QED
      BY <1>2, <3>2, <3>3 DEF JobType
  <2>2. B \subseteq JobsAt(Holding)'
    BY <1>1, <1>2, <1>7, <2>1 DEF Outstanding, JobsAt, Holding
  <2>3. /\ IsFiniteSet(JobsAt(Holding)')
        /\ Cardinality(JobsAt(Holding)') <= Slots
        /\ Cardinality(JobsAt(Holding)') \in Nat
    <3>1. /\ llmSemaphore' = Cardinality(JobsAt(Holding)') /\ llmSemaphore' <= Slots
      BY DEF IInv, SlotsAccounted, Holding
    <3>2. JobsAt(Holding)' \in SUBSET (1..Len(jobs))
      BY <1>2 DEF JobsAt
    <3> QED
      BY <1>1, <3>1, <3>2, IndicesAreFinite
  <2>4. Cardinality(B) <= Cardinality(JobsAt(Holding)') /\ Cardinality(B) \in Nat
        /\ Cardinality(D) \in Nat
    BY <1>1, <1>5, <2>2, <2>3, FS_Subset, IndicesAreFinite
  <2> HIDE DEF B, D
  <2> QED
    BY <1>1, <1>4, <2>3, <2>4
<1>8. CASE t <= now
  <2>1. /\ jobs[j].at \in Int /\ jobs[j].at < 0 /\ jobs[j].pc = "evaluate"
        /\ jobs[j].life = lives
    BY MovingJobIsOfThisLife DEF Decides
  <2>2. j \notin A
    BY <1>1, <2>1 DEF SignalOrMay, Outstanding
  <2>3. j \in B
    BY <1>2, <2>1 DEF Moves, Decides, Outstanding
  <2>4. \A k \in 1..Len(jobs) : k # j => (k \in A <=> k \in B)
    BY <1>2 DEF SignalOrMay
  <2>5. n \notin C /\ n \in D
    BY <1>1, <1>3, <1>5, <1>8 DEF ChargedIn
  <2>9. \A i \in 1..n : i # n => (i \in C <=> i \in D)
    BY <1>1, <1>3, <1>5 DEF ChargedIn
  <2> HIDE DEF A, B, C, D, n
  <2>6. /\ Cardinality(A) \in Nat
        /\ Cardinality(B) = Cardinality(A) + In(j, B) - In(j, A)
    BY <1>1, <1>5, <2>4, CountsDifferAt
  <2>7. /\ Cardinality(C) \in Nat
        /\ Cardinality(D) = Cardinality(C) + In(n, D) - In(n, C)
    BY <1>5, <2>9, CountsDifferAt
  <2>8. Cardinality(B) = Cardinality(A) + 1 /\ Cardinality(D) = Cardinality(C) + 1
    BY <2>2, <2>3, <2>5, <2>6, <2>7 DEF In
  <2> QED
    BY <1>1, <1>4, <1>6, <2>6, <2>7, <2>8
<1> QED
  BY <1>1, <1>7, <1>8

(* The end of the process changes neither what a job did nor its life. *)
LEMMA AbandonedKeeps ==
    ASSUME NEW job \in JobType
    PROVE  /\ Abandoned(job).life = job.life /\ Abandoned(job).at = job.at
           /\ Abandoned(job).pc \in Finished
           /\ Abandoned(job).ev = job.ev /\ Abandoned(job).score = job.score
           /\ Abandoned(job).decision = job.decision
           /\ Abandoned(job).pc \in Recorded <=> job.pc \in Recorded
<1>1. PICK pc \in Finished : /\ Abandoned(job) = [job EXCEPT !.pc = pc]
                             /\ pc \in Recorded <=> job.pc \in Recorded
  BY DEF Abandoned, Finished, Recorded, JobType
<1>2. /\ Abandoned(job).life = job.life /\ Abandoned(job).at = job.at
      /\ Abandoned(job).pc = pc
      /\ Abandoned(job).ev = job.ev /\ Abandoned(job).score = job.score
      /\ Abandoned(job).decision = job.decision
  BY <1>1 DEF JobType
<1> QED
  BY <1>1, <1>2

LEMMA StopEffect ==
    ASSUME Agent, Stop
    PROVE  /\ Len(jobs') = Len(jobs)
           /\ \A j \in 1..Len(jobs) :
                  jobs[j] \in JobType /\ jobs'[j] = Abandoned(jobs[j])
           /\ UNCHANGED <<now, lives, taken>> /\ ~up'
<1>1. jobs \in Seq(JobType) /\ DOMAIN jobs = 1..Len(jobs) /\ Len(jobs) \in Nat
  BY DEF Agent, IInv, Types
<1>2. jobs' = [j \in DOMAIN jobs |-> Abandoned(jobs[j])]
      /\ UNCHANGED <<now, lives, taken>> /\ ~up'
  BY DEF Stop, policyVars, Audit!Crash, Audit!PowerLoss
<1> QED
  BY <1>1, <1>2

LEMMA NextCharged == Agent /\ ChargedOrHeld /\ [Next]_vars => ChargedOrHeld'
<1> SUFFICES ASSUME Agent, ChargedOrHeld, [Next]_vars, NEW t \in Nat, NEW u \in Nat
             PROVE  Cardinality(SignalOrMay(t, u)')
                        <= Slots + Cardinality(ChargedIn(t, u)')
  BY DEF ChargedOrHeld
<1> DEFINE A == SignalOrMay(t, u)
           B == SignalOrMay(t, u)'
           C == ChargedIn(t, u)
           D == ChargedIn(t, u)'
<1>1. /\ jobs \in Seq(JobType) /\ Len(jobs) \in Nat /\ now \in Nat
      /\ lives \in Nat /\ taken \in Seq(Nat) /\ Len(taken) \in Nat /\ Slots \in Nat
  BY PipelineAssumption DEF Agent, IInv, Types, ComponentsIInv,
                            EngineProofs!IInv, EngineProofs!TypeOK
<1>2. Agent' /\ Len(taken') \in Nat
  BY NextAgent
  DEF Agent, ComponentsIInv, EngineProofs!IInv, EngineProofs!TypeOK
<1>3. /\ IsFiniteSet(A) /\ Cardinality(A) \in Nat
      /\ IsFiniteSet(C) /\ Cardinality(C) \in Nat
      /\ IsFiniteSet(D) /\ Cardinality(D) \in Nat
  <2>1. /\ A \in SUBSET (1..Len(jobs)) /\ C \in SUBSET (1..Len(taken))
        /\ D \in SUBSET (1..Len(taken'))
    BY DEF SignalOrMay, ChargedIn
  <2> QED
    BY <1>1, <1>2, <2>1, IndicesAreFinite
<1>4. Cardinality(A) <= Slots + Cardinality(C)
  BY DEF ChargedOrHeld
<1>5. ASSUME B \subseteq A, C \subseteq D
      PROVE  Cardinality(B) <= Slots + Cardinality(D)
  <2> HIDE DEF A, B, C, D
  <2>1. /\ Cardinality(B) <= Cardinality(A) /\ Cardinality(C) <= Cardinality(D)
        /\ Cardinality(B) \in Nat
    BY <1>3, <1>5, FS_Subset, FS_CardinalityType
  <2> QED
    BY <1>1, <1>3, <1>4, <2>1
<1>6. ASSUME jobs' = jobs, lives' = lives, taken' = taken, now' \in Nat, now <= now'
      PROVE  B \subseteq A /\ C \subseteq D
  BY <1>1, <1>6 DEF SignalOrMay, ChargedIn, Outstanding
<1>7. CASE Start
  <2>1. lives' = lives + 1 /\ jobs' = jobs
    BY <1>7 DEF Start
  <2>2. \A j \in 1..Len(jobs) : jobs[j].life <= lives /\ jobs[j].life \in Nat
    <3>1. \A j \in 1..Len(jobs) : jobs[j] \in JobType
      BY <1>1
    <3>2. \A j \in 1..Len(jobs) : jobs[j].life <= lives
      BY DEF Agent, Remembered, AllHistories, JobHistory
    <3> QED
      BY <3>1, <3>2 DEF JobType
  <2>3. B = {}
    BY <1>1, <2>1, <2>2 DEF SignalOrMay
  <2>4. Cardinality(B) = 0
    BY <2>3, FS_EmptySet
  <2>5. PICK d \in Nat : d = Cardinality(D)
    BY <1>3
  <2> QED
    BY <1>1, <2>4, <2>5
<1>8. CASE Stop
  <2>1. /\ Len(jobs') = Len(jobs) /\ UNCHANGED <<now, lives, taken>>
        /\ \A j \in 1..Len(jobs) :
               jobs[j] \in JobType /\ jobs'[j] = Abandoned(jobs[j])
    BY <1>8, StopEffect
  <2>2. \A j \in 1..Len(jobs) : /\ jobs'[j].life = jobs[j].life
                                /\ jobs'[j].at = jobs[j].at
                                /\ ~Outstanding(jobs'[j])
    BY <2>1, AbandonedKeeps DEF Outstanding, Finished
  <2>3. B \subseteq A /\ C \subseteq D
    BY <2>1, <2>2 DEF SignalOrMay, ChargedIn
  <2> QED
    BY <1>5, <2>3
<1>9. ASSUME NEW label \in Labels, NEW ev \in Events, SpawnJob(label, ev)
      PROVE  B \subseteq A /\ C \subseteq D
  <2>1. jobs' = Append(jobs, NewJob(ev)) /\ UNCHANGED <<now, lives, taken>>
    BY <1>9 DEF SpawnJob, policyVars, lifeVars, Escalation!EscalateWithin,
                Escalation!CountEscalation
  <2>2. /\ Len(jobs') = Len(jobs) + 1 /\ jobs'[Len(jobs) + 1] = NewJob(ev)
        /\ \A k \in 1..Len(jobs) : jobs'[k] = jobs[k]
    BY <1>1, <2>1
  <2>3. NewJob(ev).at = -1 /\ ~Outstanding(NewJob(ev))
    BY DEF NewJob, Outstanding
  <2> QED
    BY <1>1, <2>1, <2>2, <2>3 DEF SignalOrMay, ChargedIn
<1>10. ASSUME NEW label \in Labels,
              \/ CountRateLimited(label) \/ AuditRateLimited(label)
              \/ \E ev \in Events : TurnAway(label, ev)
       PROVE  B \subseteq A /\ C \subseteq D
  <2>1. UNCHANGED <<jobs, lives, taken, now>>
    BY <1>10 DEF TurnAway, CountRateLimited, AuditRateLimited, policyVars,
                 lifeVars, Escalation!EscalateOver, Escalation!CountEscalation
  <2> QED
    BY <1>1, <1>6, <2>1
<1>11. ASSUME NEW j \in 1..Len(jobs), Acquire(j) \/ JobStep(j)
       PROVE  Cardinality(B) <= Slots + Cardinality(D)
  <2>1. PICK new : Moves(j, new)
    BY <1>11, JobMoves DEF Agent
  <2>2. now' = now /\ lives' = lives
    BY <1>11, JobKeepsLife
  <2>3. CASE Decides(jobs[j], new) /\ Acts(new.decision) /\ u >= now
    BY <1>2, <2>1, <2>2, <2>3, DecisionKeepsCharged DEF Agent
  <2>4. CASE ~(Decides(jobs[j], new) /\ Acts(new.decision) /\ u >= now)
    <3>1. /\ Len(jobs') = Len(jobs)
          /\ \A k \in 1..Len(jobs) : jobs'[k] = IF k = j THEN new ELSE jobs[k]
      BY <1>1, <2>1 DEF Moves
    <3>2. /\ jobs[j].life = lives /\ jobs[j].at \in Int
          /\ jobs[j].pc \notin {"isolate", "done", "cut"} => jobs[j].at < 0
      BY <2>1, MovingJobIsOfThisLife
    <3>3. \/ new.at = jobs[j].at
          \/ Outstanding(jobs[j]) /\ new.at = now
      <4>1. jobs[j].pc = "act" => Acts(jobs[j].decision)
        BY DEF Agent, IInv, AllJobsOK, JobOK
      <4> QED
        BY <2>1, <4>1 DEF Moves, Waits, Fails, Answers, Decides, Records, Strikes,
                          Returns, Outstanding
    <3>4. u >= now /\ Outstanding(new) => Outstanding(jobs[j])
      BY <2>1, <2>4 DEF Moves, Waits, Fails, Answers, Decides, Records, Strikes,
                        Returns, Outstanding, KeepsVerdict
    <3>5. B \subseteq A
      BY <1>1, <2>2, <3>1, <3>2, <3>3, <3>4 DEF SignalOrMay
    <3>6. taken' = taken \/ taken' = Append(taken, now)
      BY <2>1 DEF Moves, Waits, Fails, Answers, Decides, Records, Strikes,
                  Returns, policyVars
    <3>7. C \subseteq D
      BY <1>1, <3>6 DEF ChargedIn
    <3> QED
      BY <1>5, <3>5, <3>7
  <2> QED
    BY <2>3, <2>4
<1>12. ASSUME NEW pid \in Pids, Churn(pid)
       PROVE  B \subseteq A /\ C \subseteq D
  BY <1>1, <1>6, <1>12 DEF Churn, agentVars, policyVars, lifeVars
<1>13. CASE Tick \/ UNCHANGED vars
  <2>1. UNCHANGED <<jobs, lives, taken>> /\ now' \in {now, now + 1}
    BY <1>13 DEF Tick, Engine!Tick, vars, agentVars, policyVars, lifeVars
  <2> QED
    BY <1>1, <1>5, <1>6, <2>1
<1> QED
  <2>1. ASSUME NEW label \in Labels, ReaderStep(label)
        PROVE  B \subseteq A /\ C \subseteq D
    BY <1>9, <1>10, <2>1 DEF ReaderStep
  <2> HIDE DEF A, B, C, D
  <2>2. Cardinality(B) <= Slots + Cardinality(D)
    BY <1>5, <1>7, <1>8, <1>11, <1>12, <1>13, <2>1 DEF Next, A, B, C, D
  <2> QED
    BY <2>2 DEF B, D

(* The bound for this life, in any interval, from its charges. *)
LEMMA SignalsOfThisLife ==
    ASSUME Agent, ChargedOrHeld, NEW t \in Nat
    PROVE  Cardinality(SignalledIn(lives, t, t + Window - 1))
               <= maxActionsPerWindow + Slots
<1> DEFINE u == t + Window - 1
           S == SignalledIn(lives, t, u)
           A == SignalOrMay(t, u)
           C == ChargedIn(t, u)
<1>1. /\ Len(jobs) \in Nat /\ Len(taken) \in Nat /\ Slots \in Nat /\ u \in Nat
      /\ maxActionsPerWindow \in Nat
  BY PipelineAssumption, ComponentsAssumption
  DEF Agent, IInv, Types, ComponentsIInv, EngineProofs!IInv, EngineProofs!TypeOK
<1>2. /\ S \subseteq A /\ A \in SUBSET (1..Len(jobs))
      /\ C \in SUBSET (1..Len(taken))
  BY DEF SignalledIn, SignalOrMay, ChargedIn
<1>3. Cardinality(A) <= Slots + Cardinality(C)
  BY <1>1 DEF ChargedOrHeld
<1>4. Cardinality(C) <= maxActionsPerWindow
  BY WindowHoldsLimit
<1> HIDE DEF u, S, A, C
<1>5. /\ IsFiniteSet(A) /\ Cardinality(A) \in Nat /\ Cardinality(C) \in Nat
  BY <1>1, <1>2, IndicesAreFinite
<1>6. Cardinality(S) <= Cardinality(A) /\ Cardinality(S) \in Nat
  BY <1>2, <1>5, FS_Subset, FS_CardinalityType
<1>7. Cardinality(S) <= maxActionsPerWindow + Slots
  BY <1>1, <1>3, <1>4, <1>5, <1>6
<1> QED
  BY <1>7 DEF S, u

LEMMA NextPast ==
    Agent /\ ChargedOrHeld /\ PastBursts /\ [Next]_vars => PastBursts'
<1> SUFFICES ASSUME Agent, ChargedOrHeld, PastBursts, [Next]_vars,
                    NEW t \in Nat, NEW life \in Nat, life < lives'
             PROVE  Cardinality(SignalledIn(life, t, t + Window - 1)')
                        <= maxActionsPerWindow + Slots
  BY DEF PastBursts
<1> DEFINE A == SignalledIn(life, t, t + Window - 1)
           B == SignalledIn(life, t, t + Window - 1)'
<1>1. /\ jobs \in Seq(JobType) /\ Len(jobs) \in Nat /\ lives \in Nat
      /\ t + Window - 1 \in Nat
  BY ComponentsAssumption DEF Agent, IInv, Types
<1>2. ASSUME B = A, life <= lives
      PROVE  Cardinality(B) <= maxActionsPerWindow + Slots
  <2>1. CASE life < lives
    BY <1>2, <2>1 DEF PastBursts
  <2>2. CASE life = lives
    BY <1>2, <2>2, SignalsOfThisLife
  <2> QED
    BY <1>1, <1>2, <2>1, <2>2
<1>3. ASSUME jobs' = jobs PROVE B = A
  BY <1>3 DEF SignalledIn
<1>4. CASE Start
  <2>1. jobs' = jobs /\ life <= lives
    BY <1>1, <1>4 DEF Start
  <2> QED
    BY <1>2, <1>3, <2>1
<1>5. ASSUME lives' = lives, B = A
      PROVE  Cardinality(B) <= maxActionsPerWindow + Slots
  BY <1>1, <1>2, <1>5
<1>6. CASE Stop
  <2>1. /\ Len(jobs') = Len(jobs) /\ lives' = lives
        /\ \A j \in 1..Len(jobs) :
               jobs[j] \in JobType /\ jobs'[j] = Abandoned(jobs[j])
    BY <1>6, StopEffect
  <2>2. \A j \in 1..Len(jobs) : /\ jobs'[j].life = jobs[j].life
                                /\ jobs'[j].at = jobs[j].at
    BY <2>1, AbandonedKeeps
  <2>3. B = A
    BY <2>1, <2>2 DEF SignalledIn
  <2> QED
    BY <1>5, <2>1, <2>3
<1>7. ASSUME NEW label \in Labels, NEW ev \in Events, SpawnJob(label, ev)
      PROVE  lives' = lives /\ B = A
  <2>1. jobs' = Append(jobs, NewJob(ev)) /\ lives' = lives
    BY <1>7 DEF SpawnJob, lifeVars
  <2>2. /\ Len(jobs') = Len(jobs) + 1 /\ jobs'[Len(jobs) + 1] = NewJob(ev)
        /\ \A k \in 1..Len(jobs) : jobs'[k] = jobs[k]
    BY <1>1, <2>1
  <2>3. NewJob(ev).at = -1
    BY DEF NewJob
  <2> QED
    BY <1>1, <2>1, <2>2, <2>3 DEF SignalledIn
<1>8. ASSUME NEW label \in Labels,
             \/ CountRateLimited(label) \/ AuditRateLimited(label)
             \/ \E ev \in Events : TurnAway(label, ev)
      PROVE  lives' = lives /\ B = A
  <2>1. UNCHANGED <<jobs, lives>>
    BY <1>8 DEF TurnAway, CountRateLimited, AuditRateLimited, lifeVars
  <2> QED
    BY <1>3, <2>1
<1>9. ASSUME NEW j \in 1..Len(jobs), Acquire(j) \/ JobStep(j)
      PROVE  lives' = lives /\ B = A
  <2>1. PICK new : Moves(j, new)
    BY <1>9, JobMoves DEF Agent
  <2>2. /\ Len(jobs') = Len(jobs) /\ new.life = jobs[j].life
        /\ \A k \in 1..Len(jobs) : jobs'[k] = IF k = j THEN new ELSE jobs[k]
    BY <1>1, <2>1 DEF Moves
  <2>3. lives' = lives /\ jobs[j].life = lives
    BY <1>9, <2>1, JobKeepsLife, MovingJobIsOfThisLife
  <2>4. life # lives
    BY <1>1, <2>3
  <2>5. B = A
    BY <2>2, <2>3, <2>4 DEF SignalledIn
  <2> QED
    BY <2>3, <2>5
<1>10. ASSUME NEW pid \in Pids, Churn(pid)
       PROVE  lives' = lives /\ B = A
  BY <1>3, <1>10 DEF Churn, agentVars, lifeVars
<1>11. ASSUME Tick \/ UNCHANGED vars
       PROVE  lives' = lives /\ B = A
  BY <1>3, <1>11 DEF Tick, vars, agentVars, lifeVars
<1> QED
  <2>1. ASSUME NEW label \in Labels, ReaderStep(label)
        PROVE  lives' = lives /\ B = A
    BY <1>7, <1>8, <2>1 DEF ReaderStep
  <2> HIDE DEF A, B
  <2>2. Cardinality(B) <= maxActionsPerWindow + Slots
    BY <1>4, <1>5, <1>6, <1>9, <1>10, <1>11, <2>1 DEF Next, B
  <2> QED
    BY <2>2 DEF B

(* However long decisions wait in their goroutines, no window sees more      *)
(* signals of one life of the agent than the limit and one per slot.         *)
THEOREM SignalsPerWindowBounded == Spec => []SignalBurst
<1>1. Spec => [](Agent /\ ChargedOrHeld /\ PastBursts)
  BY InitAgent, NextAgent, InitBurst, NextCharged, NextPast, PTL DEF Spec
<1>2. ASSUME Agent, ChargedOrHeld, PastBursts PROVE SignalBurst
  <2> SUFFICES ASSUME NEW t \in 0..now, NEW life \in 1..lives
               PROVE  Cardinality(SignalledIn(life, t, t + Window - 1))
                          <= maxActionsPerWindow + Slots
    BY Zenon DEF SignalBurst, SignalledIn
  <2>1. t \in Nat /\ life \in Nat /\ lives \in Nat /\ life <= lives
    BY <1>2 DEF Agent, IInv, Types
  <2>2. CASE life < lives
    BY <1>2, <2>1, <2>2 DEF PastBursts
  <2>3. CASE life = lives
    BY <1>2, <2>1, <2>3, SignalsOfThisLife
  <2> QED
    BY <2>1, <2>2, <2>3
<1> QED
  BY <1>1, <1>2, PTL

-----------------------------------------------------------------------------
(* The audit file against the goroutines that wrote it. *)

(* The jobs past their record whose record is body. *)
RecordedAs(body) ==
    {k \in 1..Len(jobs) : /\ jobs[k].pc \in Recorded
                          /\ JobBody(k) = body /\ jobs[k].decision # NoDecision}

LinesOf(body) ==
    {i \in 1..Len(file) : Audit!IsEntry(file[i]) /\ file[i].body = body}

IsLimited(body) == body.decision.tier = "rate_limited"

Counted == past.rateLimited + metrics.rateLimited

(* The rate-limited events that were counted, against the lines on file, the *)
(* readers that still hold one and the lives that have ended: each of these  *)
(* lives may have taken one event of each reader with it.                    *)
Tally(counted, lines, held, ended) ==
    lines + held <= counted /\ counted <= lines + held + 3 * ended

RateLimitedTally ==
    Tally(Counted, Cardinality(RateLimitedLines), Cardinality(ToRecord), Ended)

(* As long as nothing failed, each record is in the file as often as         *)
(* goroutines wrote it, and the rate-limited events tally.                   *)
OneLinePerRecord ==
    clean =>
        /\ \A body \in Bodies : ~IsLimited(body) =>
               Cardinality(LinesOf(body)) = Cardinality(RecordedAs(body))
        /\ RateLimitedTally

LEMMA InitOneLine == Init => OneLinePerRecord
<1> SUFFICES ASSUME Init PROVE OneLinePerRecord
  OBVIOUS
<1>1. /\ jobs = <<>> /\ file = <<>> /\ limited = [label \in Labels |-> {}]
      /\ past.rateLimited = 0 /\ metrics.rateLimited = 0
      /\ ~up /\ lives = 0
  BY DEF Init, Audit!Init, NoMetrics
<1>2. Cardinality({}) = 0
  BY FS_EmptySet
<1>3. ASSUME NEW body
      PROVE  Cardinality(LinesOf(body)) = Cardinality(RecordedAs(body))
  <2>1. LinesOf(body) = {} /\ RecordedAs(body) = {}
    BY <1>1 DEF LinesOf, RecordedAs
  <2> QED
    BY <2>1
<1>4. RateLimitedTally
  <2>1. RateLimitedLines = {} /\ ToRecord = {}
    BY <1>1 DEF RateLimitedLines, ToRecord
  <2>2. Counted = 0 /\ Ended = 0 /\ Tally(0, 0, 0, 0)
    BY <1>1 DEF Counted, Ended, Tally
  <2> QED
    BY <1>2, <2>1, <2>2 DEF RateLimitedTally
<1> QED
  BY <1>3, <1>4 DEF OneLinePerRecord

(* A record that is written without a fault is one more line. *)
LEMMA WriteAppends ==
    ASSUME Agent, NEW body \in Bodies, WriteAudit(body), clean'
    PROVE  /\ clean /\ Len(file) \in Nat /\ Len(file') = Len(file) + 1
           /\ \A i \in 1..Len(file) : file'[i] = file[i]
           /\ Audit!IsEntry(file'[Len(file) + 1])
           /\ file'[Len(file) + 1].body = body
<1>1. Audit!Log(body)
  BY DEF WriteAudit, Audit!LogLost, Audit!LogTorn
<1>2. clean /\ file' = Audit!Written(Audit!Line(body))
  BY <1>1 DEF Audit!Log
<1>3. PICK S : file \in Seq(S)
  BY DEF Agent, ComponentsIInv, AuditProofs!IInv, AuditProofs!IsSequence
<1>4. ~unterminated
  BY <1>2 DEF Agent, ComponentsIInv, AuditProofs!IInv, AuditProofs!FileIsLog
<1>5. file' = Append(file, Audit!Line(body))
  BY <1>2, <1>4 DEF Audit!Written
<1>6. Audit!IsEntry(Audit!Line(body)) /\ Audit!Line(body).body = body
  BY DEF Audit!IsEntry, Audit!Line, Encoded
<1> HIDE DEF Audit!Line
<1>7. /\ Len(file) \in Nat /\ Len(file') = Len(file) + 1
      /\ file'[Len(file) + 1] = Audit!Line(body)
      /\ \A i \in 1..Len(file) : file'[i] = file[i]
  <2>1. file \in Seq(S \cup {Audit!Line(body)})
    BY <1>3
  <2> QED
    BY <1>5, <2>1
<1> QED
  BY <1>2, <1>6, <1>7

(* What the line adds to the two counts. *)
LEMMA WriteCounts ==
    ASSUME Agent, NEW body \in Bodies, WriteAudit(body), clean'
    PROVE  /\ clean
           /\ \A b \in Bodies : /\ Cardinality(LinesOf(b)) \in Nat
                                /\ Cardinality(LinesOf(b)') =
                                       Cardinality(LinesOf(b)) + In(body, {b})
           /\ Cardinality(RateLimitedLines) \in Nat
           /\ Cardinality(RateLimitedLines') =
                  Cardinality(RateLimitedLines) + IF IsLimited(body) THEN 1 ELSE 0
<1> DEFINE n == Len(file) + 1
<1>1. /\ clean /\ Len(file) \in Nat /\ Len(file') = n /\ n \in Nat /\ n \in 1..n
      /\ \A i \in 1..Len(file) : file'[i] = file[i]
      /\ Audit!IsEntry(file'[n]) /\ file'[n].body = body
  BY WriteAppends
<1>2. ASSUME NEW b \in Bodies
      PROVE  /\ Cardinality(LinesOf(b)) \in Nat
             /\ Cardinality(LinesOf(b)') = Cardinality(LinesOf(b)) + In(body, {b})
  <2> DEFINE A == LinesOf(b)
             B == {i \in 1..n : Audit!IsEntry(file'[i]) /\ file'[i].body = b}
  <2>1. LinesOf(b)' = B
    BY <1>1 DEF LinesOf, Audit!IsEntry
  <2>2. /\ A \in SUBSET (1..n) /\ B \in SUBSET (1..n)
        /\ \A i \in 1..n : i # n => (i \in A <=> i \in B)
        /\ n \notin A /\ In(n, B) = In(body, {b})
    BY <1>1 DEF LinesOf, In
  <2> HIDE DEF A, B
  <2>3. /\ Cardinality(A) \in Nat
        /\ Cardinality(B) = Cardinality(A) + In(n, B) - In(n, A)
    BY <1>1, <2>2, CountsDifferAt
  <2>4. In(n, A) = 0 /\ In(body, {b}) \in Nat
    BY <2>2 DEF In
  <2> QED
    BY <2>1, <2>2, <2>3, <2>4 DEF A
<1>3. /\ Cardinality(RateLimitedLines) \in Nat
      /\ Cardinality(RateLimitedLines') =
             Cardinality(RateLimitedLines) + IF IsLimited(body) THEN 1 ELSE 0
  <2> DEFINE A == RateLimitedLines
             B == {i \in 1..n : Audit!IsEntry(file'[i]) /\ IsLimited(file'[i].body)}
  <2>1. RateLimitedLines' = B
    BY <1>1 DEF RateLimitedLines, Audit!IsEntry, IsLimited
  <2>2. /\ A \in SUBSET (1..n) /\ B \in SUBSET (1..n)
        /\ \A i \in 1..n : i # n => (i \in A <=> i \in B)
        /\ n \notin A
        /\ n \in B <=> IsLimited(body)
    BY <1>1 DEF RateLimitedLines, IsLimited
  <2> HIDE DEF A, B
  <2>3. /\ Cardinality(A) \in Nat
        /\ Cardinality(B) = Cardinality(A) + In(n, B) - In(n, A)
    BY <1>1, <2>2, CountsDifferAt
  <2>4. In(n, A) = 0 /\ In(n, B) = IF IsLimited(body) THEN 1 ELSE 0
    BY <2>2 DEF In
  <2> QED
    BY <2>1, <2>3, <2>4 DEF A
<1> QED
  BY <1>1, <1>2, <1>3

(* A goroutine's step changes the set of its own record only by writing it. *)
LEMMA RecordedAfterMove ==
    ASSUME Agent, NEW j \in 1..Len(jobs), NEW new, Moves(j, new), NEW b
    PROVE  /\ Cardinality(RecordedAs(b)) \in Nat
           /\ ~Records(jobs[j], new) => RecordedAs(b)' = RecordedAs(b)
           /\ Records(jobs[j], new) =>
                  Cardinality(RecordedAs(b)') =
                      Cardinality(RecordedAs(b)) + In(JobBody(j), {b})
<1> DEFINE A == RecordedAs(b)
           B == {k \in 1..Len(jobs) :
                    /\ jobs'[k].pc \in Recorded
                    /\ Body(jobs'[k].ev, jobs'[k].score, jobs'[k].decision) = b
                    /\ jobs'[k].decision # NoDecision}
<1>1. jobs \in Seq(JobType) /\ Len(jobs) \in Nat /\ JobHistory(jobs[j])
  BY DEF Agent, IInv, Types, Remembered, AllHistories
<1>2. /\ Len(jobs') = Len(jobs) /\ new.ev = jobs[j].ev
      /\ \A k \in 1..Len(jobs) : jobs'[k] = IF k = j THEN new ELSE jobs[k]
  BY <1>1 DEF Moves
<1>3. RecordedAs(b)' = B
  BY <1>2 DEF RecordedAs, JobBody, Body, NoDecision, Recorded
<1>4. /\ A \in SUBSET (1..Len(jobs)) /\ B \in SUBSET (1..Len(jobs))
      /\ \A k \in 1..Len(jobs) : k # j => (k \in A <=> k \in B)
  BY <1>2 DEF RecordedAs, JobBody
<1>5. Cardinality(A) \in Nat
  BY <1>1, <1>4, IndicesAreFinite
<1>6. ASSUME ~Records(jobs[j], new) PROVE B = A
  <2>1. j \in A <=> j \in B
    <3>1. j \in B <=> /\ new.pc \in Recorded
                      /\ Body(new.ev, new.score, new.decision) = b
                      /\ new.decision # NoDecision
      BY <1>2
    <3>2. j \in A <=> /\ jobs[j].pc \in Recorded
                      /\ Body(jobs[j].ev, jobs[j].score, jobs[j].decision) = b
                      /\ jobs[j].decision # NoDecision
      BY DEF RecordedAs, JobBody
    <3> HIDE DEF A, B
    <3>3. CASE Strikes(jobs[j], new) \/ Returns(jobs[j], new)
      BY <1>2, <3>1, <3>2, <3>3 DEF Strikes, Returns, KeepsVerdict, Recorded
    <3>4. CASE Fails(jobs[j], new)
      BY <1>1, <3>1, <3>2, <3>4 DEF Fails, KeepsVerdict, JobHistory, Recorded
    <3>5. CASE Waits(jobs[j], new) \/ Answers(jobs[j], new) \/ Decides(jobs[j], new)
      BY <3>1, <3>2, <3>5 DEF Waits, Answers, Decides, Recorded
    <3> QED
      BY <1>6, <3>3, <3>4, <3>5 DEF Moves
  <2>2. \A k \in 1..Len(jobs) : k \in A <=> k \in B
    BY <1>4, <2>1
  <2> HIDE DEF A, B
  <2> QED
    BY <1>4, <2>2
<1>7. ASSUME Records(jobs[j], new)
      PROVE  Cardinality(B) = Cardinality(A) + In(JobBody(j), {b})
  <2>1. jobs[j].decision # NoDecision /\ jobs[j].pc = "audit"
    BY <1>1, <1>7 DEF Records, JobHistory
  <2>2. j \notin A
    BY <2>1 DEF RecordedAs, Recorded
  <2>3. j \in B <=> JobBody(j) = b
    BY <1>2, <1>7, <2>1 DEF Records, KeepsVerdict, Recorded, JobBody
  <2> HIDE DEF A, B
  <2>4. Cardinality(B) = Cardinality(A) + In(j, B) - In(j, A)
    BY <1>1, <1>4, CountsDifferAt
  <2>5. In(j, A) = 0 /\ In(j, B) = In(JobBody(j), {b}) /\ In(j, B) \in Nat
    BY <2>2, <2>3 DEF In
  <2> QED
    BY <1>5, <2>4, <2>5
<1> QED
  BY <1>3, <1>5, <1>6, <1>7

(* The event is counted, its line written, or it goes with the process. *)
LEMMA TallyWhenCounted ==
    ASSUME NEW c \in Int, NEW l \in Int, NEW h \in Int, NEW e \in Int,
           Tally(c, l, h, e)
    PROVE  Tally(c + 1, l, h + 1, e)
  BY DEF Tally

LEMMA TallyWhenWritten ==
    ASSUME NEW c \in Int, NEW l \in Int, NEW h \in Int, NEW e \in Int,
           Tally(c, l, h, e)
    PROVE  Tally(c, l + 1, h - 1, e)
  BY DEF Tally

LEMMA TallyAtTheEnd ==
    ASSUME NEW c \in Int, NEW l \in Int, NEW h \in 0..3, NEW e \in Int,
           Tally(c, l, h, e)
    PROVE  Tally(c, l, 0, e + 1)
  BY DEF Tally

LEMMA NextOneLine == Agent /\ OneLinePerRecord /\ [Next]_vars => OneLinePerRecord'
<1> SUFFICES ASSUME Agent, OneLinePerRecord, [Next]_vars, clean'
             PROVE  /\ \A b \in Bodies : ~IsLimited(b) =>
                           Cardinality(LinesOf(b)') = Cardinality(RecordedAs(b)')
                    /\ RateLimitedTally'
  BY DEF OneLinePerRecord, IsLimited
<1> DEFINE Goal == /\ \A b \in Bodies : ~IsLimited(b) =>
                          Cardinality(LinesOf(b)') = Cardinality(RecordedAs(b)')
                   /\ RateLimitedTally'
           c == Counted
           l == Cardinality(RateLimitedLines)
           h == Cardinality(ToRecord)
           e == Ended
<1>1. /\ jobs \in Seq(JobType) /\ Len(jobs) \in Nat
      /\ metrics \in MetricsType /\ past \in [escalated : Nat, rateLimited : Nat]
  BY DEF Agent, IInv, Types, Remembered, AgentTypes
<1>2. /\ past.rateLimited \in Nat /\ metrics.rateLimited \in Nat
      /\ lives \in Nat /\ h \in 0..3
  BY <1>1, ReadersAreFew DEF MetricsType, Agent, IInv, Types
<1>16. c \in Int /\ e \in Int
  BY <1>2 DEF Counted, Ended
<1>17. l \in Nat
  <2>1. Len(file) \in Nat
    BY DEF Agent, ComponentsIInv, AuditProofs!IInv, AuditProofs!IsSequence
  <2> QED
    BY <2>1, IndicesAreFinite DEF RateLimitedLines
<1>3. ASSUME clean
      PROVE  /\ \A b \in Bodies : ~IsLimited(b) =>
                    Cardinality(LinesOf(b)) = Cardinality(RecordedAs(b))
             /\ Tally(c, l, h, e)
  BY <1>3 DEF OneLinePerRecord, RateLimitedTally
<1>4. ASSUME clean, file' = file,
             \A b \in Bodies : RecordedAs(b)' = RecordedAs(b),
             \/ Counted' = c /\ ToRecord' = ToRecord /\ Ended' = e
             \/ Tally(Counted', l, Cardinality(ToRecord'), Ended')
      PROVE  Goal
  <2>1. /\ RateLimitedLines' = RateLimitedLines
        /\ \A b \in Bodies : LinesOf(b)' = LinesOf(b)
    BY <1>4 DEF RateLimitedLines, LinesOf
  <2>2. RateLimitedTally'
    BY <1>3, <1>4, <2>1 DEF RateLimitedTally
  <2> QED
    BY <1>3, <1>4, <2>1, <2>2
<1>5. ASSUME jobs' = jobs PROVE \A b \in Bodies : RecordedAs(b)' = RecordedAs(b)
  BY <1>5 DEF RecordedAs, JobBody
<1>6. CASE Start
  <2>1. /\ clean /\ UNCHANGED <<file, jobs, past, metrics, limited>>
        /\ ~up /\ up' /\ lives' = lives + 1
    BY <1>6 DEF Start, Audit!NewLogger
  <2>2. Counted' = c /\ ToRecord' = ToRecord /\ Ended' = e
    BY <1>2, <2>1 DEF Counted, ToRecord, Ended
  <2> QED
    BY <1>4, <1>5, <2>1, <2>2
<1>7. CASE Stop
  <2>1. /\ Len(jobs') = Len(jobs)
        /\ \A j \in 1..Len(jobs) :
               jobs[j] \in JobType /\ jobs'[j] = Abandoned(jobs[j])
    BY <1>7, StopEffect
  <2>2. \A j \in 1..Len(jobs) :
            /\ jobs'[j].pc \in Recorded <=> jobs[j].pc \in Recorded
            /\ jobs'[j].ev = jobs[j].ev /\ jobs'[j].score = jobs[j].score
            /\ jobs'[j].decision = jobs[j].decision
    BY <2>1, AbandonedKeeps
  <2>3. \A b \in Bodies : RecordedAs(b)' = RecordedAs(b)
    BY <2>1, <2>2 DEF RecordedAs, JobBody
  <2>4. /\ clean /\ file' = file
        /\ past' = [escalated |-> past.escalated + metrics.escalated,
                    rateLimited |-> past.rateLimited + metrics.rateLimited]
        /\ metrics'.rateLimited = 0
        /\ limited' = [label \in Labels |-> {}]
        /\ up /\ ~up' /\ lives' = lives
    BY <1>7 DEF Stop, Audit!Crash, Audit!PowerLoss, NoMetrics
  <2>5. Counted' = c
    BY <1>2, <2>4 DEF Counted
  <2>6. Ended' = e + 1
    BY <1>2, <2>4 DEF Ended
  <2>7. Cardinality(ToRecord') = 0
    <3>1. ToRecord' = {}
      BY <2>4 DEF ToRecord
    <3> QED
      BY <3>1, FS_EmptySet
  <2>8. Tally(c, l, 0, e + 1)
    BY <1>2, <1>3, <1>16, <1>17, <2>4, TallyAtTheEnd
  <2> QED
    BY <1>4, <2>3, <2>4, <2>5, <2>6, <2>7, <2>8
<1>8. ASSUME NEW label \in Labels, NEW ev \in Events, SpawnJob(label, ev)
      PROVE  Goal
  <2>1. /\ jobs' = Append(jobs, NewJob(ev)) /\ clean
        /\ metrics' = [metrics EXCEPT !.escalated = @ + 1]
        /\ UNCHANGED <<file, past, limited, up, lives>>
    BY <1>8 DEF SpawnJob, auditVars, lifeVars
  <2>2. /\ Len(jobs') = Len(jobs) + 1 /\ jobs'[Len(jobs) + 1] = NewJob(ev)
        /\ \A k \in 1..Len(jobs) : jobs'[k] = jobs[k]
    BY <1>1, <2>1
  <2>3. NewJob(ev).pc \notin Recorded
    BY DEF NewJob, Recorded
  <2>4. \A b \in Bodies : RecordedAs(b)' = RecordedAs(b)
    BY <1>1, <2>2, <2>3 DEF RecordedAs, JobBody
  <2>5. metrics'.rateLimited = metrics.rateLimited
    BY <1>1, <2>1 DEF MetricsType
  <2>6. Counted' = c /\ ToRecord' = ToRecord /\ Ended' = e
    BY <2>1, <2>5 DEF Counted, ToRecord, Ended
  <2> QED
    BY <1>4, <2>1, <2>4, <2>6
<1>9. ASSUME NEW label \in Labels, NEW ev \in Events, TurnAway(label, ev)
      PROVE  Goal
  <2>1. /\ clean /\ metrics' = [metrics EXCEPT !.escalated = @ + 1]
        /\ UNCHANGED <<jobs, file, past, up, lives>>
    BY <1>9 DEF TurnAway, auditVars, lifeVars
  <2>2. metrics'.rateLimited = metrics.rateLimited
    BY <1>1, <2>1 DEF MetricsType
  <2>3. ToRecord' = ToRecord
    BY <1>9, TurnAwayCounts DEF Agent
  <2>4. Counted' = c /\ Ended' = e
    BY <2>1, <2>2 DEF Counted, Ended
  <2> QED
    BY <1>4, <1>5, <2>1, <2>3, <2>4
<1>18. ASSUME NEW label \in Labels, CountRateLimited(label)
       PROVE  Goal
  <2>1. /\ clean /\ metrics' = [metrics EXCEPT !.rateLimited = @ + 1]
        /\ UNCHANGED <<jobs, file, past, up, lives>>
    BY <1>18 DEF CountRateLimited, auditVars, lifeVars
  <2>2. metrics'.rateLimited = metrics.rateLimited + 1
    BY <1>1, <2>1 DEF MetricsType
  <2>3. Cardinality(ToRecord') = h + 1
    BY <1>18, CountingCounts DEF Agent
  <2>4. Counted' = c + 1 /\ Ended' = e
    BY <1>2, <2>1, <2>2 DEF Counted, Ended
  <2>5. Tally(c + 1, l, h + 1, e)
    BY <1>2, <1>3, <1>16, <1>17, <2>1, TallyWhenCounted
  <2> QED
    BY <1>4, <1>5, <2>1, <2>3, <2>4, <2>5
<1>10. ASSUME NEW label \in Labels, AuditRateLimited(label)
       PROVE  Goal
  <2>1. UNCHANGED <<jobs, past, metrics, up, lives>>
    BY <1>10 DEF AuditRateLimited, lifeVars, WriteAudit, Audit!Log,
                 Audit!LogLost, Audit!LogTorn, Audit!Advance
  <2>2. PICK r \in limited[label] : WriteAudit(RateLimitedBody(r.ev))
    BY <1>10 DEF AuditRateLimited
  <2> DEFINE ev == r.ev
  <2>3. RateLimitedBody(ev) \in Bodies /\ IsLimited(RateLimitedBody(ev))
    <3>1. ev \in Events
      BY <2>2 DEF Agent, Remembered, AgentTypes
    <3> QED
      BY <3>1, Zenon DEF Bodies, IsLimited, RateLimitedBody, Body
  <2>4. PICK body \in Bodies : body = RateLimitedBody(ev)
    BY <2>3
  <2>5. /\ clean
        /\ \A b \in Bodies : /\ Cardinality(LinesOf(b)) \in Nat
                             /\ Cardinality(LinesOf(b)') =
                                    Cardinality(LinesOf(b)) + In(body, {b})
        /\ Cardinality(RateLimitedLines') = l + 1
    BY <2>2, <2>3, <2>4, WriteCounts
  <2>6. ASSUME NEW b \in Bodies, ~IsLimited(b)
        PROVE  Cardinality(LinesOf(b)') = Cardinality(RecordedAs(b)')
    <3>1. In(body, {b}) = 0
      BY <2>3, <2>4, <2>6 DEF In
    <3>2. /\ Cardinality(LinesOf(b)') = Cardinality(LinesOf(b)) + In(body, {b})
          /\ Cardinality(LinesOf(b)) \in Nat
          /\ Cardinality(LinesOf(b)) = Cardinality(RecordedAs(b))
          /\ RecordedAs(b)' = RecordedAs(b)
      BY <1>3, <1>5, <2>1, <2>5, <2>6
    <3> QED
      BY <3>1, <3>2
  <2>7. Counted' = c /\ Ended' = e
    BY <2>1 DEF Counted, Ended
  <2>8. Cardinality(ToRecord') = h - 1
    BY <1>10, RecordingCounts DEF Agent
  <2>9. Tally(c, l + 1, h - 1, e)
    BY <1>2, <1>3, <1>16, <1>17, <2>5, TallyWhenWritten
  <2> QED
    BY <2>5, <2>6, <2>7, <2>8, <2>9 DEF RateLimitedTally
<1>11. ASSUME NEW j \in 1..Len(jobs), Acquire(j) \/ JobStep(j)
       PROVE  Goal
  <2>1. PICK new : Moves(j, new)
    BY <1>11, JobMoves DEF Agent
  <2>2. UNCHANGED <<past, limited, up, lives>>
    BY <1>11, JobLeavesAlone, JobKeepsLife
  <2>3. metrics'.rateLimited = metrics.rateLimited
    <3>1. \/ metrics' = metrics
          \/ metrics' = [metrics EXCEPT !.llmError = @ + 1]
          \/ metrics' = [metrics EXCEPT !.llmSuccess = @ + 1]
          \/ metrics' = [metrics EXCEPT !.decisions = @ + 1]
      BY <2>1 DEF Moves, Waits, Fails, Answers, Decides, Records, Strikes, Returns
    <3> QED
      BY <1>1, <3>1 DEF MetricsType
  <2>6. Counted' = c /\ ToRecord' = ToRecord /\ Ended' = e
    BY <2>2, <2>3 DEF Counted, ToRecord, Ended
  <2>4. CASE ~Records(jobs[j], new)
    <3>1. clean /\ file' = file
      BY <2>1, <2>4 DEF Moves, Waits, Fails, Answers, Decides, Strikes, Returns,
                        auditVars
    <3>2. \A b \in Bodies : RecordedAs(b)' = RecordedAs(b)
      BY <2>1, <2>4, RecordedAfterMove
    <3> QED
      BY <1>4, <2>6, <3>1, <3>2
  <2>5. CASE Records(jobs[j], new)
    <3>1. jobs[j].decision # NoDecision
      BY <2>5 DEF Records, Agent, Remembered, AllHistories, JobHistory
    <3>2. /\ JobBody(j) \in Bodies /\ JobBody(j).decision \in Engine!Decision
          /\ WriteAudit(JobBody(j))
      BY <2>5, <3>1, JobBodyIsBody DEF Agent, Records, JobBody
    <3>3. ~IsLimited(JobBody(j))
      BY <3>2 DEF IsLimited, Engine!Decision, Engine!Tiers
    <3>4. PICK body \in Bodies : body = JobBody(j)
      BY <3>2
    <3>5. /\ clean
          /\ \A b \in Bodies : /\ Cardinality(LinesOf(b)) \in Nat
                               /\ Cardinality(LinesOf(b)') =
                                      Cardinality(LinesOf(b)) + In(body, {b})
          /\ l \in Nat /\ Cardinality(RateLimitedLines') = l + 0
      BY <3>2, <3>3, <3>4, WriteCounts
    <3>6. ASSUME NEW b \in Bodies, ~IsLimited(b)
          PROVE  Cardinality(LinesOf(b)') = Cardinality(RecordedAs(b)')
      <4>1. Cardinality(RecordedAs(b)') = Cardinality(RecordedAs(b)) + In(body, {b})
        BY <2>1, <2>5, <3>4, RecordedAfterMove
      <4>2. /\ Cardinality(LinesOf(b)') = Cardinality(LinesOf(b)) + In(body, {b})
            /\ Cardinality(LinesOf(b)) = Cardinality(RecordedAs(b))
        BY <1>3, <3>5, <3>6
      <4> QED
        BY <4>1, <4>2
    <3>7. RateLimitedTally'
      <4>1. Cardinality(RateLimitedLines') = l
        BY <3>5
      <4> QED
        BY <1>3, <2>6, <3>5, <4>1 DEF RateLimitedTally
    <3> QED
      BY <3>6, <3>7
  <2> QED
    BY <2>4, <2>5
<1>12. ASSUME clean, UNCHANGED <<file, jobs, past, metrics, limited, up, lives>>
       PROVE  Goal
  <2>1. Counted' = c /\ ToRecord' = ToRecord /\ Ended' = e
    BY <1>12 DEF Counted, ToRecord, Ended
  <2> QED
    BY <1>4, <1>5, <1>12, <2>1
<1>13. ASSUME NEW pid \in Pids, Churn(pid) PROVE Goal
  BY <1>12, <1>13 DEF Churn, auditVars, agentVars, lifeVars
<1>14. CASE Tick \/ UNCHANGED vars
  BY <1>12, <1>14 DEF Tick, vars, auditVars, agentVars, lifeVars
<1> HIDE DEF Goal
<1>15. Goal
  BY <1>6, <1>7, <1>8, <1>9, <1>10, <1>11, <1>13, <1>14, <1>18
  DEF Next, ReaderStep, Goal
<1> QED
  BY <1>15 DEF Goal

-----------------------------------------------------------------------------
(* What the end of a process catches between decision and record.  While the *)
(* process runs, a goroutine between the two holds a slot; one that was      *)
(* dropped belongs to a process that has ended.                              *)

DroppedAreOld ==
    up => \A j \in 1..Len(jobs) : jobs[j].pc = "dropped" => jobs[j].life < lives

FewUnrecorded ==
    \A life \in Nat :
        life < lives \/ (life = lives /\ ~up) =>
            Cardinality(Unrecorded(life)) <= Slots

LEMMA InitUnrecorded == Init => DroppedAreOld /\ FewUnrecorded
<1> SUFFICES ASSUME Init PROVE DroppedAreOld /\ FewUnrecorded
  OBVIOUS
<1>1. jobs = <<>> /\ ~up /\ Slots \in Nat
  BY PipelineAssumption DEF Init, Audit!Init
<1>2. ASSUME NEW life PROVE Cardinality(Unrecorded(life)) = 0
  <2>1. Unrecorded(life) = {}
    BY <1>1 DEF Unrecorded
  <2> QED
    BY <2>1, FS_EmptySet
<1> QED
  BY <1>1, <1>2 DEF DroppedAreOld, FewUnrecorded

LEMMA UnrecordedHoldSlots ==
    ASSUME Agent, DroppedAreOld, up
    PROVE  Cardinality(Unrecorded(lives)) <= Slots
<1>1. /\ IsFiniteSet(JobsAt(Holding)) /\ Slots \in Nat
      /\ llmSemaphore = Cardinality(JobsAt(Holding)) /\ llmSemaphore <= Slots
      /\ llmSemaphore \in Nat
  BY HoldersAreFinite, PipelineAssumption DEF Agent, IInv
<1>2. Unrecorded(lives) \subseteq JobsAt(Holding)
  <2> SUFFICES ASSUME NEW j \in Unrecorded(lives) PROVE j \in JobsAt(Holding)
    OBVIOUS
  <2>1. /\ j \in 1..Len(jobs) /\ jobs[j].life = lives
        /\ jobs[j].decision # NoDecision /\ jobs[j].pc \notin Recorded
    BY DEF Unrecorded
  <2>2. jobs[j] \in JobType /\ JobHistory(jobs[j]) /\ lives \in Nat
    BY <2>1 DEF Agent, IInv, Types, Remembered, AllHistories
  <2>3. jobs[j].pc # "dropped"
    BY <2>1, <2>2 DEF DroppedAreOld
  <2>4. jobs[j].pc = "audit"
    BY <2>1, <2>2, <2>3 DEF JobHistory, JobType, Recorded
  <2> QED
    BY <2>1, <2>4 DEF JobsAt, Holding
<1>3. /\ IsFiniteSet(Unrecorded(lives))
      /\ Cardinality(Unrecorded(lives)) <= Cardinality(JobsAt(Holding))
  BY <1>1, <1>2, FS_Subset
<1>4. Cardinality(Unrecorded(lives)) \in Nat
  BY <1>3, FS_CardinalityType
<1> QED
  BY <1>1, <1>3, <1>4

LEMMA NextDropped == Agent /\ DroppedAreOld /\ [Next]_vars => DroppedAreOld'
<1> SUFFICES ASSUME Agent, DroppedAreOld, [Next]_vars PROVE DroppedAreOld'
  OBVIOUS
<1>1. jobs \in Seq(JobType) /\ Len(jobs) \in Nat /\ lives \in Nat
  BY DEF Agent, IInv, Types
<1>2. ASSUME UNCHANGED <<jobs, up, lives>> PROVE DroppedAreOld'
  BY <1>2 DEF DroppedAreOld
<1>3. CASE Start
  <2>1. jobs' = jobs /\ lives' = lives + 1
    BY <1>3 DEF Start
  <2>2. ASSUME NEW j \in 1..Len(jobs)
        PROVE  jobs[j].life \in Nat /\ jobs[j].life <= lives
    <3>1. jobs[j] \in JobType /\ JobHistory(jobs[j])
      BY <1>1 DEF Agent, Remembered, AllHistories
    <3> QED
      BY <3>1 DEF JobHistory, JobType
  <2> QED
    BY <1>1, <2>1, <2>2 DEF DroppedAreOld
<1>4. CASE Stop
  BY <1>4, StopEffect DEF DroppedAreOld
<1>5. ASSUME NEW label \in Labels, NEW ev \in Events, SpawnJob(label, ev)
      PROVE  DroppedAreOld'
  <2>1. /\ jobs' = Append(jobs, NewJob(ev)) /\ UNCHANGED <<up, lives>>
        /\ NewJob(ev).pc # "dropped"
    BY <1>5 DEF SpawnJob, auditVars, lifeVars, NewJob
  <2>2. /\ Len(jobs') = Len(jobs) + 1 /\ jobs'[Len(jobs) + 1] = NewJob(ev)
        /\ \A k \in 1..Len(jobs) : jobs'[k] = jobs[k]
    BY <1>1, <2>1
  <2> QED
    BY <1>1, <2>1, <2>2 DEF DroppedAreOld
<1>6. ASSUME NEW label \in Labels,
             \/ CountRateLimited(label) \/ AuditRateLimited(label)
             \/ \E ev \in Events : TurnAway(label, ev)
      PROVE  DroppedAreOld'
  BY <1>2, <1>6
  DEF TurnAway, CountRateLimited, AuditRateLimited, auditVars, lifeVars,
      WriteAudit, Audit!Log, Audit!LogLost, Audit!LogTorn, Audit!Advance
<1>7. ASSUME NEW j \in 1..Len(jobs), Acquire(j) \/ JobStep(j)
      PROVE  DroppedAreOld'
  <2>1. PICK new : Moves(j, new)
    BY <1>7, JobMoves DEF Agent
  <2>2. /\ Len(jobs') = Len(jobs)
        /\ \A k \in 1..Len(jobs) : jobs'[k] = IF k = j THEN new ELSE jobs[k]
    BY <1>1, <2>1 DEF Moves
  <2>3. new.pc # "dropped"
    BY <2>1 DEF Moves, Waits, Fails, Answers, Decides, Records, Strikes, Returns
  <2>4. UNCHANGED <<up, lives>>
    BY <1>7, JobKeepsLife
  <2> QED
    BY <2>2, <2>3, <2>4 DEF DroppedAreOld
<1>8. ASSUME NEW pid \in Pids, Churn(pid) PROVE DroppedAreOld'
  BY <1>2, <1>8 DEF Churn, auditVars, agentVars, lifeVars
<1>9. CASE Tick \/ UNCHANGED vars
  BY <1>2, <1>9 DEF Tick, vars, auditVars, agentVars, lifeVars
<1> QED
  BY <1>3, <1>4, <1>5, <1>6, <1>7, <1>8, <1>9 DEF Next, ReaderStep

LEMMA NextUnrecorded ==
    Agent /\ DroppedAreOld /\ FewUnrecorded /\ [Next]_vars => FewUnrecorded'
<1> SUFFICES ASSUME Agent, DroppedAreOld, FewUnrecorded, [Next]_vars,
                    NEW life \in Nat, life < lives' \/ (life = lives' /\ ~up')
             PROVE  Cardinality(Unrecorded(life)') <= Slots
  BY DEF FewUnrecorded
<1> DEFINE A == Unrecorded(life)
           B == Unrecorded(life)'
<1>1. jobs \in Seq(JobType) /\ Len(jobs) \in Nat /\ lives \in Nat
  BY DEF Agent, IInv, Types
<1>2. ASSUME B = A, life <= lives PROVE Cardinality(B) <= Slots
  <2>1. CASE life < lives \/ ~up
    BY <1>1, <1>2, <2>1 DEF FewUnrecorded
  <2>2. CASE life = lives /\ up
    BY <1>2, <2>2, UnrecordedHoldSlots
  <2> QED
    BY <1>1, <1>2, <2>1, <2>2
<1>3. ASSUME jobs' = jobs PROVE B = A
  BY <1>3 DEF Unrecorded, NoDecision, Recorded
<1>4. CASE Start
  <2>1. jobs' = jobs /\ lives' = lives + 1 /\ up'
    BY <1>4 DEF Start, Audit!NewLogger
  <2> QED
    BY <1>1, <1>2, <1>3, <2>1
<1>5. ASSUME lives' = lives, B = A PROVE Cardinality(B) <= Slots
  BY <1>1, <1>2, <1>5
<1>6. CASE Stop
  <2>1. /\ Len(jobs') = Len(jobs) /\ lives' = lives
        /\ \A j \in 1..Len(jobs) :
               jobs[j] \in JobType /\ jobs'[j] = Abandoned(jobs[j])
    BY <1>6, StopEffect
  <2>2. \A j \in 1..Len(jobs) :
            /\ jobs'[j].life = jobs[j].life
            /\ jobs'[j].decision = jobs[j].decision
            /\ jobs'[j].pc \in Recorded <=> jobs[j].pc \in Recorded
    BY <2>1, AbandonedKeeps
  <2>3. B = A
    BY <2>1, <2>2 DEF Unrecorded, NoDecision, Recorded
  <2> QED
    BY <1>5, <2>1, <2>3
<1>7. ASSUME NEW label \in Labels, NEW ev \in Events, SpawnJob(label, ev)
      PROVE  lives' = lives /\ B = A
  <2>1. jobs' = Append(jobs, NewJob(ev)) /\ lives' = lives
    BY <1>7 DEF SpawnJob, lifeVars
  <2>2. /\ Len(jobs') = Len(jobs) + 1 /\ jobs'[Len(jobs) + 1] = NewJob(ev)
        /\ \A k \in 1..Len(jobs) : jobs'[k] = jobs[k]
    BY <1>1, <2>1
  <2>3. NewJob(ev).decision = NoDecision
    BY DEF NewJob
  <2> QED
    BY <1>1, <2>1, <2>2, <2>3 DEF Unrecorded, NoDecision, Recorded
<1>8. ASSUME NEW label \in Labels,
             \/ CountRateLimited(label) \/ AuditRateLimited(label)
             \/ \E ev \in Events : TurnAway(label, ev)
      PROVE  lives' = lives /\ B = A
  <2>1. UNCHANGED <<jobs, lives>>
    BY <1>8 DEF TurnAway, CountRateLimited, AuditRateLimited, lifeVars
  <2> QED
    BY <1>3, <2>1
<1>9. ASSUME NEW j \in 1..Len(jobs), Acquire(j) \/ JobStep(j)
      PROVE  lives' = lives /\ B = A
  <2>1. PICK new : Moves(j, new)
    BY <1>9, JobMoves DEF Agent
  <2>2. /\ Len(jobs') = Len(jobs) /\ new.life = jobs[j].life
        /\ \A k \in 1..Len(jobs) : jobs'[k] = IF k = j THEN new ELSE jobs[k]
    BY <1>1, <2>1 DEF Moves
  <2>3. lives' = lives /\ jobs[j].life = lives /\ up'
    BY <1>9, <2>1, JobKeepsLife, MovingJobIsOfThisLife
  <2>4. life # lives
    BY <1>1, <2>3
  <2>5. B = A
    BY <2>2, <2>3, <2>4 DEF Unrecorded, NoDecision, Recorded
  <2> QED
    BY <2>3, <2>5
<1>10. ASSUME NEW pid \in Pids, Churn(pid)
       PROVE  lives' = lives /\ B = A
  BY <1>3, <1>10 DEF Churn, agentVars, lifeVars
<1>11. ASSUME Tick \/ UNCHANGED vars
       PROVE  lives' = lives /\ B = A
  BY <1>3, <1>11 DEF Tick, vars, agentVars, lifeVars
<1> QED
  <2>1. ASSUME NEW label \in Labels, ReaderStep(label)
        PROVE  lives' = lives /\ B = A
    BY <1>7, <1>8, <2>1 DEF ReaderStep
  <2> HIDE DEF A, B
  <2>2. Cardinality(B) <= Slots
    BY <1>4, <1>5, <1>6, <1>9, <1>10, <1>11, <2>1 DEF Next, B
  <2> QED
    BY <2>2 DEF B

-----------------------------------------------------------------------------
(* As long as no write fails, every decision a goroutine got past its audit  *)
(* write is in the file exactly as often as it was made, over all the lives  *)
(* of the agent.  What may be missing is bounded: no life of the agent ends  *)
(* with more than Slots decisions made and not recorded, and the counter of  *)
(* rate-limited events is ahead of their lines by the events the readers are *)
(* still to record and at most one per reader and ended life.                *)
THEOREM DecisionsAreOnFile == Spec => []DecisionsOnFile
<1>1. Spec => [](Agent /\ OneLinePerRecord /\ DroppedAreOld /\ FewUnrecorded)
  BY InitAgent, NextAgent, InitOneLine, NextOneLine, InitUnrecorded,
     NextDropped, NextUnrecorded, PTL DEF Spec
<1>2. ASSUME Agent, OneLinePerRecord, DroppedAreOld, FewUnrecorded
      PROVE  DecisionsOnFile
  <2> SUFFICES ASSUME clean PROVE EveryDecisionOnFile
    BY DEF DecisionsOnFile
  <2>1. /\ \A body \in Bodies : ~IsLimited(body) =>
               Cardinality(LinesOf(body)) = Cardinality(RecordedAs(body))
        /\ RateLimitedTally
    BY <1>2 DEF OneLinePerRecord
  <2>2. ASSUME NEW j \in JobsAt(Recorded), jobs[j].decision # NoDecision
        PROVE  OnFile(JobBody(j)) =
                   Cardinality({k \in JobsAt(Recorded) : JobBody(k) = JobBody(j)})
    <3>1. j \in 1..Len(jobs)
      BY DEF JobsAt
    <3>2. JobBody(j) \in Bodies /\ JobBody(j).decision \in Engine!Decision
      BY <1>2, <2>2, <3>1, JobBodyIsBody DEF Agent
    <3>3. ~IsLimited(JobBody(j))
      BY <3>2 DEF IsLimited, Engine!Decision, Engine!Tiers
    <3>4. RecordedAs(JobBody(j)) =
              {k \in JobsAt(Recorded) : JobBody(k) = JobBody(j)}
      <4>1. \A k \in 1..Len(jobs) : JobBody(k) = JobBody(j) =>
                jobs[k].decision = jobs[j].decision
        BY DEF JobBody, Body
      <4> QED
        BY <2>2, <4>1 DEF RecordedAs, JobsAt
    <3>5. OnFile(JobBody(j)) = Cardinality(LinesOf(JobBody(j)))
      BY DEF OnFile, LinesOf
    <3> QED
      BY <2>1, <3>2, <3>3, <3>4, <3>5
  <2>3. ASSUME NEW life \in 1..lives PROVE Cardinality(Unrecorded(life)) <= Slots
    <3>1. life \in Nat /\ lives \in Nat /\ life <= lives
      BY <1>2 DEF Agent, IInv, Types
    <3>2. CASE life < lives \/ ~up
      BY <1>2, <3>1, <3>2 DEF FewUnrecorded
    <3>3. CASE life = lives /\ up
      BY <1>2, <3>3, UnrecordedHoldSlots
    <3> QED
      BY <3>1, <3>2, <3>3
  <2>4. LET counted == past.rateLimited + metrics.rateLimited
            written == Cardinality(RateLimitedLines) + Cardinality(ToRecord)
        IN  counted \in written..(written + Cardinality(Labels) * Ended)
    <3>1. PICK c \in Nat : c = past.rateLimited + metrics.rateLimited
      BY <1>2 DEF Agent, Remembered, AgentTypes, MetricsType
    <3>2. PICK l \in Nat : l = Cardinality(RateLimitedLines)
      <4>1. Len(file) \in Nat
        BY <1>2 DEF Agent, ComponentsIInv, AuditProofs!IInv,
                    AuditProofs!IsSequence
      <4> QED
        BY <4>1, IndicesAreFinite DEF RateLimitedLines
    <3>3. PICK h \in Nat : h = Cardinality(ToRecord)
      BY ReadersAreFew
    <3>4. PICK e \in Int : e = Ended
      BY <1>2 DEF Ended, Agent, IInv, Types
    <3>5. Tally(c, l, h, e)
      BY <2>1, <3>1, <3>2, <3>3, <3>4 DEF RateLimitedTally, Counted
    <3>6. c \in (l + h)..(l + h + 3 * e)
      BY <3>5 DEF Tally
    <3> QED
      BY <3>1, <3>2, <3>3, <3>4, <3>6, ThereAreThreeReaders
  <2> QED
    BY <2>2, <2>3, <2>4, Zenon DEF EveryDecisionOnFile
<1> QED
  BY <1>1, <1>2, PTL
=============================================================================
