------------------------- MODULE EscalationLimiter --------------------------
(***************************************************************************)
(* The event-storm guard of handleEvent, cmd/watchbpf-agent/main.go: a      *)
(* fixed window in front of the LLM, shared by the three reader goroutines  *)
(* and updated under escalationMu, so that one escalation is one step.      *)
(*                                                                         *)
(* The code's limit is the literal 50 and its window time.Minute; both are  *)
(* parameters here.                                                         *)
(***************************************************************************)
EXTENDS Integers, Sequences, FiniteSets

CONSTANTS
    EscalationLimit,    \* the literal 50
    Window,             \* time.Minute
    CountCap,           \* bound on escalations counted in one window
    Horizon             \* bound on the clock

ASSUME EscalationAssumption ==
    /\ EscalationLimit \in Nat \ {0}
    /\ Window \in Nat \ {0}
    /\ CountCap \in Nat
    /\ Horizon \in Nat

VARIABLES
    now,                \* the clock
    escalationCount,    \* escalations seen in the current window
    escalationWindow,   \* when the current window began
    admitted            \* history: times of the escalations let through

vars == <<now, escalationCount, escalationWindow, admitted>>

-----------------------------------------------------------------------------
(* time.Since(escalationWindow) > time.Minute: a new window begins.         *)
Stale == now - escalationWindow > Window

(* Mutants: a new window keeps the count; the quota is counted down. *)
NewCountKept == escalationCount + 1
NewCountDown == IF Stale THEN EscalationLimit ELSE escalationCount - 1

(* escalationCount after the increment. *)
NewCount == IF Stale THEN 1 ELSE escalationCount + 1

(* The critical section of handleEvent. *)
CountEscalation ==
    /\ NewCount <= CountCap
    /\ escalationCount' = NewCount
    /\ escalationWindow' = IF Stale THEN now ELSE escalationWindow
    /\ UNCHANGED now

(* Mutant: the quota is one too large. *)
EscalateWithinOneMore ==
    /\ CountEscalation
    /\ NewCount <= EscalationLimit + 1
    /\ admitted' = Append(admitted, now)

(* overLimit is false: the event goes to the LLM. *)
EscalateWithin ==
    /\ CountEscalation
    /\ NewCount <= EscalationLimit
    /\ admitted' = Append(admitted, now)

(* overLimit is true: the LLM call is skipped. *)
EscalateOver ==
    /\ CountEscalation
    /\ NewCount > EscalationLimit
    /\ UNCHANGED admitted

Tick ==
    /\ now < Horizon
    /\ now' = now + 1
    /\ UNCHANGED <<escalationCount, escalationWindow, admitted>>

(* The agent starts: a window begins, whatever the last one had left. *)
Restart ==
    /\ escalationCount' = 0
    /\ escalationWindow' = now
    /\ admitted' = <<>>
    /\ UNCHANGED now

Init ==
    /\ now = 0
    /\ escalationCount = 0
    /\ escalationWindow = 0
    /\ admitted = <<>>

Next ==
    \/ Tick
    \/ EscalateWithin
    \/ EscalateOver
    \/ Restart

Spec == Init /\ [][Next]_vars

-----------------------------------------------------------------------------
(* Type invariant. *)
TypeOK ==
    /\ now \in Nat
    /\ escalationCount \in Nat
    /\ escalationWindow \in Nat
    /\ admitted \in Seq(Nat)

(* What the fixed window does guarantee: any 2 * EscalationLimit + 1        *)
(* consecutive escalations that reach the LLM span more than a window, two  *)
(* full quotas around a reset of escalationWindow being the worst case.     *)
AtMostTwoQuotas ==
    \A i \in 1..(Len(admitted) - 2 * EscalationLimit) :
        admitted[i + 2 * EscalationLimit] - admitted[i] > Window

(* An escalation is turned away only when the whole quota of the current     *)
(* window has gone to the LLM: the limiter never loses a slot, even though   *)
(* the count also runs on for the escalations it turns away.                 *)
QuotaIsUsed ==
    LET current == {i \in 1..Len(admitted) : admitted[i] >= escalationWindow}
    IN  ~Stale /\ escalationCount >= EscalationLimit =>
            Cardinality(current) >= EscalationLimit

(* The fixed window implements the abstract rate limiter, but only with      *)
(* twice its limit as the bound.                                             *)
Limiter == INSTANCE RateLimit WITH Bound <- 2 * EscalationLimit

ImplementsRateLimit == Limiter!Spec
=============================================================================
