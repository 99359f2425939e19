# A TLA+ development of WatchBPF

WatchBPF watches `execve`, `openat` and `connect` with eBPF probes, drops what
its baseline knows, asks an LLM about the rest, and may stop or kill the process
that raised an event. What is hard to get right in it is not the detection but
what happens around it: three readers and a goroutine per event share a limiter,
a policy engine, an audit log and a semaphore, the answers come up to a minute
late, and disk, LLM and kernel all fail in their own way. This directory models
the agent from the eBPF programs to the signal and from its start to its end,
checks it with TLC and proves what matters most with TLAPS.

Paths below are relative to `src/`; `main.go` is `cmd/watchbpf-agent/main.go`.

## 1. Inventory

| Component | State | Operations | What makes it correct |
|---|---|---|---|
| Probes, `bpf/*.bpf.c` | three ring buffers of 256 KiB | one handler per system call; drops the event when the buffer is full | an event tells what its caller did; the Go structures agree with the C ones |
| Readers, `main.go` 208-331 | none of their own | `readLoop`, `handleEvent` | never wait for the LLM; lose no escalated event |
| Baseline store, `internal/baseline` | `known` under an RWMutex, the JSON file | `IsKnown`, `Learn`, `Save`, `load` | what was learned stays known, over restarts too |
| Escalation limiter, `main.go` 299-308 | `escalationCount`, `escalationWindow` under `escalationMu` | one critical section | a bound on events per minute that reach the LLM |
| LLM clients, `internal/llm` | none | `Assess`, `parseAssessment` | no answer outside the schema is acted upon |
| Jobs, `main.go` 326-392 | `llmSemaphore` (3 slots), the goroutine's locals | `processLLM` | a slot comes back on every path; one decision per answer |
| Policy engine, `internal/policy` | `actionTimestamps` under `mu` | `Evaluate`, `allowAction` | guardrails; a bound on actions per minute |
| Audit log, `internal/audit` | `lastHash` under `mu`, the file | `NewLogger`, `Log`, `VerifyChain` | one unbroken chain with every decision in it |
| Enforcement, `internal/enforce` | the kernel's processes and nftables | `KillProcess`, `PauseProcess`, `IsolateIP` | the signal meets the process that earned it |
| Startup, saver, shutdown, `main.go` 90-206 | `stopper`, ticker, wait group | `main` and four goroutines | Ctrl+C saves the baseline and ends the agent |
| Configuration, `internal/config` | fixed after startup | `Load` | omitted fields keep their defaults |
| Metrics, `internal/metrics` | six counters | increments, HTTP endpoint | the counters agree with each other |

How they interact: a probe writes a record to its ring buffer; one reader per
buffer decodes it and calls `handleEvent`, which asks the store and the limiter
and then either writes an audit record itself or starts a goroutine. The
goroutine takes a slot, calls the LLM, calls the engine, writes the audit record
and acts. The store, the engine, the limiter and the logger are each behind a
mutex of their own; no goroutine holds two of them, so between any two calls
everything else may happen. `config.yaml` is read once; its `mode`, `enforce`,
`state` and `llm` fields are never used, and `rate_limit.max_per_minute` sets the
limit on actions, not the 50 in `handleEvent`.

Hard behaviours, listed one by one in `PROJECT.json` under `hazards`:

- *concurrency*: the chain of hashes must follow the order of writes; a lost
  update of the limiter; a decision that waits while others overtake it;
- *stale state*: pid and name are those of the system call, the signal is sent
  after an answer that may take a minute, and pids are reused;
- *failure*: a write that fails or stops half way, a crash between two writes,
  a power loss without fsync, an LLM that times out or answers nonsense;
- *boundaries*: a fixed and a sliding window with strict comparisons;
- *shutdown*: four goroutines that wait for one signal, a last Save that nobody
  waits for, goroutines cut off between a decision, its record and its action;
- *layout*: structures written once in C and once in Go, buffers that overflow
  without a word, an argument vector that may be empty.

## 2. Modules

| Module | Models | Extends / instantiates |
|---|---|---|
| `RateLimit` | abstract: at most `Bound` admissions in any window | |
| `PolicyEngine` | `Evaluate`, `allowAction` | refines `RateLimit` |
| `EscalationLimiter` | the critical section of `handleEvent` | refines `RateLimit` |
| `AuditLog` | `NewLogger`, `Log`, `VerifyChain`, faults, crashes | |
| `Pipeline` | readers, jobs, semaphore, enforcement, kernel, restarts | composes the three above |
| `Baseline` | `IsKnown`, `Learn`, `Save`, `load`, keys | |
| `Lifecycle` | `main`: start, saver, closers, readers, Ctrl+C, end | composes with `Baseline` |
| `Probes` | the eBPF programs, ring buffers, `readLoop` | |
| `MC*` | values for the constants, for TLC | the module they are named after |
| `*Proofs`, `NatFacts` | theorems and lemmas | the module they are named after |

### PolicyEngine

`Evaluate(comm, score, d)` is one step that returns the decision `d`, with one
disjunct per way through the code: below the acting tiers, protected, dry-run,
allowed, over the limit. `AllowAction` and `DenyAction` are the two returns of
`allowAction`; `Filtered` is its loop. The loop keeps the timestamps after the
cutoff; as they are in clock order these are the young end of the slice, and
`Expired` says so (the proofs show that such a cut always exists). A reason is
represented by the branch that wrote it, because `processLLM` reads from it only
whether it starts with `DRY-RUN`. `taken` is a history variable: the times of all
actions this engine ever allowed, which the code forgets. `NewEngine` is a
restart, in live mode or dry-run, with nothing remembered.

### EscalationLimiter

`CountEscalation` is the critical section, `EscalateWithin` and `EscalateOver`
its two outcomes. The literal 50 and `time.Minute` are constants. `admitted` is
a history variable. `Restart` is a new process. Both limiters implement
`RateLimit`, whose promise is about one life: a restart within a minute grants
another quota.

### AuditLog

The file is a sequence of lines; a line is an entry or garbage, and the last one
may lack its newline. A hash is the pair of what was hashed, so the hash function
is collision-free; what is hashed of a record is `Raw[body]`, the text that
`computeHash` makes of its fields by joining them with `|`. `Raw` is a constant
and need not be injective: a `|` inside a field makes different records agree in
their text, and the run has such a pair. `Log` is a step because it holds `l.mu`; `LogLost` and
`LogTorn` are the same call with a failing `OpenFile` or `Write`. All three share
`Advance`, since the code moves `lastHash` before it writes. `Encoded` is what
`json.Marshal` and `json.Unmarshal` make of the strings: not the identity,
because invalid UTF-8 becomes U+FFFD while the hash was taken of the raw bytes.
`Crash`, `PowerLoss` and `NewLogger` are the life cycle: the agent keeps nothing
in memory over a restart but what `loadLastHash` finds in the last line.

Which faults may happen is the constant `Faults`, so that each run says what it
needs. Editing of the file by somebody else is not an action.

### Pipeline

`limited[label]` is the rate-limited event that a reader has turned away and is
yet to count, or has counted and is yet to record (`TurnAway`, `CountRateLimited`,
`AuditRateLimited`); the process may end between any two of the three. A job is a goroutine
with its program counter:

    queued -Acquire-> assess -AssessSuccess-> evaluate -Evaluate-> audit
    audit -AuditDecision-> act -Kill-> isolate -Isolate-> done
    assess -AssessError-> done,  audit -AuditDecision-> done,  act -Kill/Pause-> done

Each arrow is one critical section or system call of the code. The counters of
escalations, answers and decisions move together with the access next to them:
nothing in the agent reads them, and `MetricsAddUp` compares them with where the
goroutines are between two accesses. The counter of rate-limited events has a step
of its own, because `DecisionsOnFile` compares it with the file. The tests for a
nil `auditLogger` and a nil `llmClient` have no branch:
`NewLogger` never returns an error, and filter mode always sets a client. The semaphore is
the number of tokens in the channel; `Release` is the deferred receive. The
clock is shared by both limiters. `at` and `hit` are history: when the job sent a
signal, and the name of the process that got it.

The kernel is `procs`, the name behind each pid, and `blocked`, the connections
nftables drops. `Churn` is a process that execs, exits or is replaced by another
with its pid; only pids in `Mortal` do that. An event is raised by the process
that has its pid and name at that moment. The time an event spends in a ring
buffer is not modelled: a process that changes while its event waits there is
one that changes right after `handleEvent`, which is. An event lost in a full
buffer is an event not raised.

`Start` is `main` before the readers start: `NewLogger`, `NewEngine` in either
mode, an empty limiter. `Stop` is the end of the process by whatever cause, a
power loss included: nothing waits for the goroutines, so `Abandoned` drops them
wherever they are, and `cut` are those between their record and their last act;
what a reader had turned away and not recorded is gone as well.
`past` keeps two counters of earlier lives for the properties, `life` and `live`
of a job say which life started it and in which mode its signal was sent.

`Known` is fixed, because nothing is learned in filter mode; what the agent
knows is the subject of `Baseline`.

### Baseline

A text is a sequence of tokens cut at word boundaries, so that `Normalize` is
what `\b\d+\b` does to it. A key is one text, as in the code: type, name and
detail with a `|` token between them (`Join`), and where a name holds a `|` itself
two events may share a key although neither name nor detail is the same. `Alike`
says how far `IsKnown` tells events apart, that case included. `Encode` is
what JSON does to a key on its way through the file. `LookUp` and `Learn` are the
two critical sections of `handleEvent` in learn mode, one reader per label
between them; `Skip` is filter mode. `Save` holds its read lock over the whole of
`os.WriteFile`: `SaveOpen` truncates, `SaveWrite` writes, `SaveFails` is an error
at either place, and `Learn` waits while `saving`. `NewStore` is `load`, to which
a file that is missing, unreadable or torn is an empty one. `learned`, `skipped`,
`saved` and `clean` are history.

### Lifecycle

`main` is where the main goroutine is: before `signal.Notify`, loading the
probes, or in `wg.Wait`. `stopper` is the channel, with room for one value, and
`receivers` the goroutines that are to receive from it: the saver and one closer
per attached probe. An `Interrupt` that finds the channel full is dropped, one
before `Notify` ends the process. A reader whose closer received returns after
the event it is handling; `main` returns when all three have, and `End` takes the
saver with it even in the middle of a `Save`. `Fatal` and `Killed` are the other
ends. The store is an instance of `Baseline`, and every step of it is a step of
a goroutine here.

### Probes

The three C structures and the three Go structures are lists of fields with
size and alignment; `Offsets` lays them out as the compiler does, with gaps, and
as `binary.Read` does, without. `Laid` puts the values that a handler wrote at
the C offsets, `Decoded` looks for them at the Go offsets and finds garbage where
no field begins. `Submit` and `Lose` are the two outcomes of
`bpf_ringbuf_reserve`; reservation and submission are one step, as the consumer
sees records in the order of their reservation and none before it is submitted.
`ArgSlots` is the loop over `argv`. A string is a value, and `ClipName` and
`ClipArg` what is left of it in a field, which is nothing if it is not in memory.
Pid, uid and name are those of the caller; `handleEvent` passes the first two on
to the prompt. `ReaderReturns` is the end of `readLoop` once its closer has closed
the ring buffer. The probe stays attached until `main` returns, so that it goes on
submitting records which nobody reads; which reader ends and when is the subject
of `Lifecycle`.

## 3. Runs

| Run | Properties | Bounds |
|---|---|---|
| `engine` | `TypeOK`, `NoActionStorm`, `LimiterExact`, `ImplementsRateLimit` | limit 2, window 3, clock 9, both sides of each threshold, any restarts |
| `escalation` | `TypeOK`, `AtMostTwoQuotas`, `QuotaIsUsed` | limit 2, window 3, count 4, clock 13, any restarts |
| `audit` | `TypeOK`, `ChainIntact`, `VerifiedStaysVerified`, `DamageStaysVisible` | 4 calls, 5 bodies of which two have the same joined text, all faults |
| `pipeline` | `TypeOK`, `SlotsAccounted`, `MetricsAddUp`, `SignalsAuthorised`, `DecisionsOnFile`, `SignalBurst` | one life in either mode, 3 escalations of 4 kinds of event, 1 slot, limits 1 and 2, clock 2, lost writes, one change of a process |
| `pipeline_lives` | `DecisionsOnFile`, `ImplementsComponents`, `JobsFinish` | two lives in any modes, 3 events of one kind, 1 slot, clock 1, torn writes, fairness |
| `baseline` | `TypeOK`, `SkippedWasLearned`, `SavedSurvives` | 5 events, both faults, any number of lives |
| `lifecycle` | `TypeOK`, `InterruptsAccounted`, `LearnedIsSaved`, `FourInterruptsStop` | 2 lives, 5 accepted interrupts in each, 1 event, all endings and faults, fairness |
| `probes` | `TypeOK`, `StoryIsTrue`, `EventuallyHandled` | 3 calls of 8 kinds, buffers of 1, 1 and 2 records, 2 argument slots, readers that return, fairness |
| `audit_lost_write` | violated: `LinkedToPrevious` | 4 calls, one kind of fault |
| `pipeline_protected` | violated: `ProtectedNeverSignalled` | 2 events, 2 changes of a process |
| `lifecycle_interrupt` | violated: `InterruptStops` | as `lifecycle`, no faults, Ctrl+C only |
| `lifecycle_lost_baseline` | violated: `SavedStaysKnown` | the same |

Why the bounds are enough. The limiters depend on differences of times and
counts against one limit: a window of 3 tells "before", "at" and "after" the
boundary apart, the clocks run for three and four windows so that a window fills,
empties and fills again, and the theorems of section 4 hold for every value. A
broken chain needs a fault, a record before it and one after it, and a restart:
4 calls allow a fault in every position, and another one after it. In the
pipeline 3 events are two jobs that compete for a slot and one that the limiter
turns away; a limit of 2 makes that happen, a limit of 1 action makes the third
guardrail bite, and the clock runs past the window of both. `pipeline_lives`
has one kind of event and of answer and spends its states on the end of the
first life, which may come between any two steps. The events of `baseline` differ in the process name
alone, share a key because a name holds a `|`, or become equal in the file. In `lifecycle` four
interrupts are needed and a fifth is there to be one too many; two lives are
enough for a file written in one and read in the next. The calls of `probes` have fewer
arguments than slots, as many and more, names that do not fit, both address
families and one that is not traced, and buffers that two and three calls overflow.

Deadlock is checked in every run. The MC modules of `Pipeline`, `Lifecycle` and
`Probes` add a stuttering step, `Quiet`, for the one standstill that is meant (the
bounds are used up, the agent waits for events or has ended, and everything
earlier is done), so any other standstill is reported.

Fairness. In `Pipeline`: weak fairness of the steps of every goroutine that can
run, since the Go scheduler is preemptive; of the end of `Assess`, since its
context has a deadline of 60 s; strong fairness of `Acquire`, since Go serves
the goroutines blocked on a channel in their order. One assumption the code
does not guarantee: that `nft` ends, as `IsolateIP` runs it without a deadline.
In `Lifecycle`: weak fairness of the steps of `main`, readers and saver (the
ticker ticks); strong fairness of the receptions from `stopper` taken together,
because the saver does not receive while it saves but does so between two ticks
when its `select` offers both again and again; strong fairness of `Learn`, as a
waiting writer of an `RWMutex` keeps the next `Save` from passing it. In
`Probes`: weak fairness of each reader while it runs, which a submission wakes.
New events, interrupts, faults, changes of processes, the readers of `Pipeline`,
the return of a reader in `Probes` and restarts get none.

What the violated properties show, and where the code stands against its own
words, is in `PROJECT.json` under `findings`:

- `LinkedToPrevious`: one failed write, and the log is rejected from there on
  although the agent goes on writing to it.
- `ProtectedNeverSignalled`: the name is checked as of the event, the signal goes
  to whoever has the pid and whatever it has become.
- `InterruptStops`: one Ctrl+C ends the saver or closes one reader of three, and
  `main` goes on waiting. `FourInterruptsStop` is what does hold, and by
  `InterruptsAccounted` three are necessary.
- `SavedStaysKnown`: with Ctrl+C alone, `main` may return while the saver is
  between truncation and write; the next life starts with an empty baseline.
  `SavedSurvives` is what does hold.

Other behaviour worth knowing, which the models contain and no run singles out:

- 50 events at the end of one window and 50 at the start of the next reach the
  LLM (`AtMostTwoQuotas` allows no more), and a restart begins a third quota;
- after a torn last line the restarted agent begins a second chain at genesis;
- a file name that is not UTF-8 makes the log fail verification;
- when the audit write fails the action follows all the same: `DecisionsOnFile`
  holds only as long as no write fails;
- what the end of the process catches between `Evaluate` and `Log`, or between the
  counter of rate-limited events and `Log`, is in no file, although the
  repository's README (46, 166) has every decision logged. `DecisionsOnFile` says
  how much that is: no more than `Slots` decisions of a life, and one rate-limited
  event of each reader;
- a process name with a `|` in it may share its key with a learned event of
  another name, since `makeKey` joins the fields with that character;
- the octets of an IPv4 address are numbers to `normalize`, so that one learned
  connection makes all IPv4 destinations and ports of that program known;
- a program started with an empty `argv` is reported with strings of its
  environment for arguments, since the loop begins behind `argv[0]`
  (`bpf/execve.bpf.c` 51, where the comment at 53 means to keep out of the
  environment); `StoryIsTrue` leaves such calls out;
- the detail of an IPv6 connection begins with `[`, so that its isolation fails
  after the kill.

`VerifiedStaysVerified` and `DamageStaysVisible` bound the harm of the faults of
the log: through lost and torn writes and restarts, records with a newline that
verified once keep verifying, and the agent never makes a rejected file acceptable
again. Both except the step in which the power fails: it may take a tail of the
file, which `VerifyChain` cannot see.

Every property of a passing run has a mutant: a definition of the model with a
plausible bug (`>=` for `>`, a slot not freed, a truncating open), next to the
definition it replaces and under which the run fails.

## 4. Proofs

All theorems hold for every value of the constants that satisfies the modules'
assumptions (`EngineAssumption`, `EscalationAssumption`, `AuditAssumption`,
`PipelineAssumption`, `ComponentsAssumption`, `BaselineAssumption`,
`LifecycleAssumption`, `StoreAssumption` and `ProbesAssumption`), with any number
of events, bodies, goroutines, ticks, lives, calls and argument slots. TLC
evaluates them on every run.

| Theorem | States | Inductive invariant |
|---|---|---|
| `PolicyEngineProofs`: `TypeCorrect`, `ActionStormPrevented`, `LimiterIsExact` | the invariants of run `engine` | `actionTimestamps` is the end of `taken` from some point on; all that is before it has left the window; `taken` is in clock order |
| `EngineImplementsRateLimit` | every `Evaluate` is an admission of `RateLimit` or a stutter | the same |
| `TierMonotone` | a higher score never gets a milder tier, whatever the order of the thresholds | none |
| `EscalationLimiterProofs`: `TypeCorrect`, `TwoQuotasAtMost`, `QuotaIsUsedBeforeDenial` | the invariants of run `escalation` | the admissions split at `escalationWindow`: `escalationCount`, capped by the limit, of them are in the current window |
| `EscalationImplementsRateLimit` | refinement with the bound `2 * EscalationLimit`; it follows from `AtMostTwoQuotas`, so no run repeats it | the same |
| `AuditLogProofs`: `TypeCorrect`, `ChainSurvivesRestarts` | the invariants of run `audit` | without faults the file is the image of `logged` and, while the agent is up, `lastHash` is what `LoadLastHash` would return |
| `VerifiedIsForever`, `DamageIsNeverHidden` | the action properties, with every fault | where the file changes it is appended to, or its last line becomes garbage (`WriteEffect`) |
| `LastHashFixesTheLog` | two files that `VerifyChain` accepts and that end in the same hash hold equally many records with the same joined texts | none: induction from the last line to the first, as a hash determines text and previous hash |
| `LastHashProtectsTheLog` | an accepted file that ends in the running logger's `lastHash` holds the texts of the calls of `Log`, in their order and nothing else | that of `ChainSurvivesRestarts` |
| `PipelineProofs`: `SignalsAreAuthorised` | no interleaving leads to a signal outside the configuration | what is known of a job at each program counter, and that no job that is still to act was started in another life (`NoneSurvives`) |
| `SlotsAreAccounted`, `AtMostSlotsInside` | the semaphore counts the goroutines inside | `llmSemaphore` equals the number of holders and does not exceed `Slots` |
| `TypeCorrect` | the pipeline's `TypeOK`, components included | the above, `Remembered` (the histories of the jobs; a reader has one event at a time and does not outlive its process) and the components' own invariants: together `Agent` |
| `PipelineImplementsComponents` | every step of the composition is a step of `PolicyEngine`, of `EscalationLimiter` and of `AuditLog`, or a stutter | `IInv` |
| `ComponentsKeepTheirPromises` | `NoActionStorm`, `AtMostTwoQuotas` and `ChainIntact` hold of the running agent | the components' invariants, kept by the refinement |
| `CountersAddUp` | each escalated event is rate-limited, answered, failed or still on its way | `MetricsAddUp` itself, over `Agent` |
| `SignalsPerWindowBounded` | at most `maxActionsPerWindow + Slots` signals of one life in any window | in any interval, the signals of this life and the approvals not yet used are at most the charges plus `Slots` (`ChargedOrHeld`); earlier lives stay within the bound (`PastBursts`) |
| `DecisionsAreOnFile` | while no write fails, the file holds each recorded decision as often as it was made; at most `Slots` decisions of a life, what the readers still hold and one rate-limited event per reader and ended life are missing | each body is in the file as often as goroutines wrote it, and the counter of rate-limited events is within `Tally` of its lines (`OneLinePerRecord`); a goroutine between decision and record holds a slot, or belongs to a life that has ended (`DroppedAreOld`, `FewUnrecorded`) |
| `ProbesProofs`: `TypeCorrect`, `StoriesAreTrue` | the invariants of run `probes` | what was handled are the events of the first calls raised, with their callers' pid, uid and name, what the ring holds are the records of the rest (`Accounted`) |
| `BaselineProofs`: `TypeCorrect`, `OnlyLearnedIsSkipped`, `SavedIsKept` | the invariants of run `baseline` | every key in `known`, in the file and in `saved` is that of a learned event or the file's copy of it (`AllLearned`); while nothing went wrong the file, unless a Save is in progress, holds `saved` (`SavedOnFile`) |
| `LifecycleProofs`: `LifecycleImplementsStore` | every step of the life cycle is a step of `Baseline` or a stutter | none |
| `SavedIsKept`, `TypeCorrect` | the store's theorems, carried over by the refinement | that of `BaselineProofs` |
| `InterruptsAreAccounted` | no interrupt that was accepted is lost or serves twice; `main` does not return before the third | the receivers are the saver and the attached probes without those that received; a reader returns after its closer (`ClosersFirst`) |

The invariants as stated are not inductive. `NoActionStorm` speaks of `taken`
alone, and a step is allowed on the strength of `actionTimestamps`: the link
between the two has to be part of the invariant. `AtMostTwoQuotas` needs to know
which admissions belong to the current window, `ChainIntact` needs `lastHash`,
and a signal is authorised because of tests made several steps earlier, which
the invariant carries along with the job; as the mode may change with a restart,
it also has to say that no job outlives its process. `SkippedWasLearned` needs
the origin of every key wherever it may come from, the encoding being applied at
most once because it is idempotent and leaves numbers, labels and the `|` alone
(`BaselineAssumption`). That equal keys mean equal fields takes a proof, and a
premise: the first `|` after the type ends the name only where no name holds one
(`SameKeySameFields`); without it the joined texts are the same (`SameKeySameText`).

`SignalBurst` is the hardest of them. An action is charged to the limiter when
`Evaluate` runs and the signal follows whenever the goroutine gets there, so that
signals of old approvals may meet signals of new ones within one window. What
bounds them is the semaphore: a goroutine with an unused approval holds a slot.
`ChargedOrHeld` says this of every interval at once: a signal inside the interval
was charged inside it, or belongs to one of at most `Slots` goroutines that held
their approval when the interval began. `DecisionsOnFile` compares two counts, and
its proof takes from `AuditLog` that a write either appends its one line or ends
`clean`.

`LastHashFixesTheLog` is what "tamper-evident" (the repository's README, 46 and
166) amounts to in this code: `VerifyChain` alone compares a file with itself, and
accepts any chain that begins at genesis, a shorter one too; together with the
last hash it accepts one sequence of texts only. It takes SHA-256 to be
collision-free, and it says no more than the text does: contents that move from
one field to its neighbour across a `|` leave the text, and the hash, as they are.

`StoriesAreTrue` rests on lemmas about the operators of `Probes`: `Offsets` has
the value its recursive definition says (`OffsetsEquation`), which gives the
offsets of the six structures field by field (`FileOffsets`, `ConnectOffsets`,
`GoConnectOffsets`; they hold for every `NUM_ARG_SLOTS`, the only field of varying
size being the last one); a field at the same offset on both sides is carried over
unchanged (`Carried`); the argument loop stops at the `NULL` of `argv`
(`SlotsHoldArguments`), and empty slots add no words (`PaddingAddsNoWords`).

`NatFacts` states the least-number principle and the existence of functions
defined by recursion on an interval, both without an operator parameter: the
proofs about cuts in a sequence, about `Offsets` and about `ArgParts` take their
inductions from it.

Every invariant and every action or refinement property that a passing run
checks is stated by a theorem. Only model-checked are the liveness properties
(`JobsFinish`, `LearnedIsSaved`, `FourInterruptsStop`,
`EventuallyHandled`), as fairness is out of the prover's reach, and what the four
violated properties show, which takes an example and not a proof.

## 5. Not modelled, and why

- `bpf/vmlinux.h`, 205,814 generated lines of kernel type declarations, of which the probes use a
  handful. It has no behaviour; nearly all lines of C in the repository are in
  it, and the three programs that are written by hand are modelled in full.
- Text: the prompt, HTTP and the envelopes of the LLM services, log lines,
  metric labels. No state depends on them beyond what `Accepted` keeps.
- Bytes: strings are values, or sequences of tokens in `Baseline`. That a
  protected name of more than 15 characters never matches is not visible.
- Configuration: YAML over the defaults, read once. The values are constants,
  and the theorems hold for all of them.
- The time an event waits in its ring buffer while the pipeline runs: `Probes`
  and `Pipeline` are not composed, see `Pipeline` above.
- That `nft`, a child of the agent, raises events of its own: it is an ordinary
  process to the model, and its events count against the same limits.
- Two agents on one audit log or baseline file.
- `metrics.Actions` is registered and never incremented; `ResumeProcess` has no caller.
- Packaging, installation and the embedded objects.

## 6. Plan

Done: `RateLimit`, `PolicyEngine`, `EscalationLimiter`, `AuditLog`, `Pipeline`,
`Baseline`, `Lifecycle`, `Probes`, and the proofs listed above. Next, all of it
proofs, in order:

1. `Lifecycle`: from the proved `InterruptsAccounted`, that a fourth interrupt
   leaves no reader without its closer, the safety half of `FourInterruptsStop`.
2. `Pipeline`: the two action properties of `AuditLog` and `LastHashProtectsTheLog`
   carried over to the composition.
