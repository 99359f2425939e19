------------------------------ MODULE RateLimit ------------------------------
(***************************************************************************)
(* What a rate limiter promises, whatever its bookkeeping: at most Bound    *)
(* admissions fall into any half-open interval of length Window.            *)
(*                                                                         *)
(* WatchBPF has two limiters, the policy engine's sliding window            *)
(* (PolicyEngine) and the fixed window in front of the LLM                  *)
(* (EscalationLimiter).  Both are shown to implement this specification,    *)
(* the first with its configured limit as the bound, the second only with   *)
(* twice its limit.                                                         *)
(***************************************************************************)
EXTENDS Integers, Sequences

CONSTANTS
    Bound,      \* admissions that may share one window
    Window      \* length of the window, in ticks of the clock

VARIABLES
    now,        \* the clock
    admitted    \* the times of all admissions since it started, in order

vars == <<now, admitted>>

Init ==
    /\ now = 0
    /\ admitted = <<>>

(* One more admission keeps the promise: the Bound-th youngest one so far,  *)
(* if there is one, has left the window.                                    *)
MayAdmit ==
    /\ Bound > 0
    /\ Len(admitted) >= Bound =>
           now - admitted[Len(admitted) + 1 - Bound] >= Window

Admit ==
    /\ MayAdmit
    /\ admitted' = Append(admitted, now)
    /\ UNCHANGED now

Tick ==
    /\ now' = now + 1
    /\ UNCHANGED admitted

(* The limiter is created anew and has forgotten everything: the promise is *)
(* about one life of it.                                                    *)
Restart ==
    /\ admitted' = <<>>
    /\ UNCHANGED now

Next == Admit \/ Tick \/ Restart

Spec == Init /\ [][Next]_vars

(* The promise as a predicate: Bound + 1 consecutive admissions never fit   *)
(* into one window.                                                         *)
NoBurst ==
    \A i \in 1..(Len(admitted) - Bound) :
        admitted[i + Bound] - admitted[i] >= Window
=============================================================================
