---------------------------- MODULE PolicyEngine ----------------------------
(***************************************************************************)
(* The tiered policy engine, internal/policy/policy.go.                     *)
(*                                                                         *)
(* An Engine's configuration is fixed by NewEngine and is a set of          *)
(* CONSTANTS here, but for the mode, which is a flag of the command and may  *)
(* be another one the next time the agent starts.  Its only mutable field   *)
(* is actionTimestamps, which Evaluate reads and writes under e.mu in       *)
(* allowAction, so one Evaluate is one atomic step although several         *)
(* goroutines call it.                                                      *)
(*                                                                         *)
(* Time is a clock of abstract ticks read under the mutex (time.Now is      *)
(* monotonic); Window is the number of ticks in e.actionWindow.             *)
(***************************************************************************)
EXTENDS Integers, Sequences, FiniteSets

CONSTANTS
    Comms,              \* process names an event may carry
    Scores,             \* threat scores the LLM client lets through
    protectedComms,     \* cfg.ProtectedProcesses
    thresholdAlert,     \* cfg.Thresholds.*
    thresholdSoft,
    thresholdHard,
    maxActionsPerWindow,\* cfg.RateLimit.MaxPerMinute
    Window,             \* e.actionWindow, one minute
    Horizon             \* bound on the clock

ASSUME EngineAssumption ==
    /\ Scores \subseteq Int
    /\ {thresholdAlert, thresholdSoft, thresholdHard} \subseteq Int
    /\ maxActionsPerWindow \in Nat
    /\ Window \in Nat \ {0}
    /\ Horizon \in Nat

VARIABLES
    now,                \* the clock
    live,               \* e.enforceMode = "live"
    actionTimestamps,   \* e.actionTimestamps, oldest first
    taken               \* history: the times of all actions this engine allowed

vars == <<now, live, actionTimestamps, taken>>

-----------------------------------------------------------------------------
Tiers == {"log", "alert", "soft_action", "hard_action"}

(* The tiers that make processLLM touch a process. *)
ActingTiers == {"soft_action", "hard_action"}

(* Reason strings, by the branch that writes them; only the dry-run one     *)
(* starts with "DRY-RUN", which is what processLLM looks for.               *)
Reasons == {"protected", "DRY-RUN", "rate limit", "threshold"}

Decision == [tier : Tiers, reason : Reasons]

(* The switch at the top of Evaluate: the first threshold that is reached.  *)
TierOf(score) ==
    IF score >= thresholdHard THEN "hard_action"
    ELSE IF score >= thresholdSoft THEN "soft_action"
    ELSE IF score >= thresholdAlert THEN "alert"
    ELSE "log"

-----------------------------------------------------------------------------
(* allowAction: the sliding window.                                         *)

(* How many timestamps of ts the filter loop drops.  Timestamps are         *)
(* appended in clock order, so those not After(cutoff) are a prefix.        *)
Expired(ts, cutoff) ==
    CHOOSE n \in 0..Len(ts) :
        \A i \in 1..Len(ts) : ts[i] > cutoff <=> i > n

Filtered(ts, cutoff) == SubSeq(ts, Expired(ts, cutoff) + 1, Len(ts))

(* Mutant: the window is one tick short. *)
LiveShort == Filtered(actionTimestamps, now - Window + 1)

Live == Filtered(actionTimestamps, now - Window)

(* Mutants: one action too many; the timestamp kept is the cutoff. *)
AllowActionOneMore ==
    /\ Len(Live) <= maxActionsPerWindow
    /\ actionTimestamps' = Append(Live, now)
    /\ taken' = Append(taken, now)

AllowActionAtCutoff ==
    /\ Len(Live) < maxActionsPerWindow
    /\ actionTimestamps' = Append(Live, now - Window)
    /\ taken' = Append(taken, now)

AllowAction ==
    /\ Len(Live) < maxActionsPerWindow
    /\ actionTimestamps' = Append(Live, now)
    /\ taken' = Append(taken, now)

(* Mutant: a denied attempt is charged. *)
DenyActionCharged ==
    /\ Len(Live) >= maxActionsPerWindow
    /\ actionTimestamps' = Append(Live, now)
    /\ UNCHANGED taken

DenyAction ==
    /\ Len(Live) >= maxActionsPerWindow
    /\ actionTimestamps' = Live
    /\ UNCHANGED taken

-----------------------------------------------------------------------------
(* Evaluate(comm, score) returns the decision d: the guardrails in the      *)
(* order of the code.                                                       *)
Evaluate(comm, score, d) ==
    LET tier == TierOf(score) IN
    /\ UNCHANGED <<now, live>>
    /\ \/ /\ tier \notin ActingTiers
          /\ d = [tier |-> tier, reason |-> "threshold"]
          /\ UNCHANGED <<actionTimestamps, taken>>
       \/ /\ tier \in ActingTiers
          /\ comm \in protectedComms
          /\ d = [tier |-> "alert", reason |-> "protected"]
          /\ UNCHANGED <<actionTimestamps, taken>>
       \/ /\ tier \in ActingTiers
          /\ comm \notin protectedComms
          /\ ~live
          /\ d = [tier |-> tier, reason |-> "DRY-RUN"]
          /\ UNCHANGED <<actionTimestamps, taken>>
       \/ /\ tier \in ActingTiers
          /\ comm \notin protectedComms
          /\ live
          /\ AllowAction
          /\ d = [tier |-> tier, reason |-> "threshold"]
       \/ /\ tier \in ActingTiers
          /\ comm \notin protectedComms
          /\ live
          /\ DenyAction
          /\ d = [tier |-> "alert", reason |-> "rate limit"]

Tick ==
    /\ now < Horizon
    /\ now' = now + 1
    /\ UNCHANGED <<live, actionTimestamps, taken>>

(* The agent starts, in either mode, with an empty window. *)
NewEngine ==
    /\ live' \in BOOLEAN
    /\ actionTimestamps' = <<>>
    /\ taken' = <<>>
    /\ UNCHANGED now

Init ==
    /\ now = 0
    /\ live \in BOOLEAN
    /\ actionTimestamps = <<>>
    /\ taken = <<>>

Next ==
    \/ Tick
    \/ NewEngine
    \/ \E comm \in Comms, score \in Scores, d \in Decision :
           Evaluate(comm, score, d)

Spec == Init /\ [][Next]_vars

-----------------------------------------------------------------------------
(* Type invariant of the engine's state and of the history kept beside it.  *)
TypeOK ==
    /\ now \in Nat
    /\ live \in BOOLEAN
    /\ actionTimestamps \in Seq(Nat)
    /\ taken \in Seq(Nat)

(* "Rate limiting ... to prevent action storm" (allowAction): as long as the *)
(* agent runs, maxActionsPerWindow + 1 consecutive soft or hard actions are  *)
(* never allowed within one window, wherever that window starts.             *)
NoActionStorm ==
    \A i \in 1..(Len(taken) - maxActionsPerWindow) :
        taken[i + maxActionsPerWindow] - taken[i] >= Window

(* The slice that allowAction keeps pruning counts exactly the actions of    *)
(* the last window: no action that still counts was forgotten and no denied  *)
(* attempt is charged, so an action is denied only when the limit is really  *)
(* used up.                                                                  *)
LimiterExact ==
    Len(Live) = Cardinality({i \in 1..Len(taken) : taken[i] > now - Window})

(* The limiter inside Evaluate implements the abstract rate limiter with     *)
(* the configured limit as its bound.                                        *)
Limiter ==
    INSTANCE RateLimit WITH Bound <- maxActionsPerWindow, admitted <- taken

ImplementsRateLimit == Limiter!Spec
=============================================================================
