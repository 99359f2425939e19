---------------------- MODULE EscalationLimiterProofs -----------------------
(***************************************************************************)
(* The fixed window in front of the LLM lets through at most two quotas per *)
(* window, for every limit and window length.                               *)
(***************************************************************************)
EXTENDS EscalationLimiter, FiniteSetTheorems, TLAPS

-----------------------------------------------------------------------------
(* The inductive invariant. *)

(* Admissions of the current window: the count runs on past the limit. *)
Current == IF escalationCount < EscalationLimit
           THEN escalationCount ELSE EscalationLimit

ClockAhead ==
    /\ escalationWindow <= now
    /\ \A i \in 1..Len(admitted) : admitted[i] <= now

(* The history in three parts, oldest first: more than a window before the  *)
(* current window, at most one quota before it, and the Current ones in it. *)
WindowsSplitHistory ==
    /\ Current <= Len(admitted)
    /\ \A i \in 1..(Len(admitted) - Current - EscalationLimit) :
           escalationWindow - admitted[i] > Window
    /\ \A i \in 1..(Len(admitted) - Current) : admitted[i] <= escalationWindow
    /\ \A i \in (Len(admitted) - Current + 1)..Len(admitted) :
           admitted[i] >= escalationWindow

IInv ==
    /\ TypeOK
    /\ ClockAhead
    /\ WindowsSplitHistory
    /\ AtMostTwoQuotas

-----------------------------------------------------------------------------
(* The counters start at zero, the window at the start of the program. *)
LEMMA InitIInv == Init => IInv
  BY EscalationAssumption
  DEF Init, IInv, TypeOK, ClockAhead, WindowsSplitHistory, Current,
      AtMostTwoQuotas

(* An escalation let through in the current window is more than a window    *)
(* younger than the one 2 * EscalationLimit admissions before it.           *)
LEMMA AdmissionIsSpaced ==
    ASSUME IInv, NewCount <= EscalationLimit,
           NEW i \in 1..Len(admitted), i = Len(admitted) + 1 - 2 * EscalationLimit
    PROVE  now - admitted[i] > Window
<1> DEFINE n == Len(admitted)
<1>1. /\ n \in Nat /\ EscalationLimit \in Nat \ {0} /\ Window \in Nat \ {0}
      /\ now \in Nat /\ escalationWindow \in Nat /\ escalationCount \in Nat
      /\ admitted[i] \in Nat /\ escalationWindow <= now
  BY EscalationAssumption DEF IInv, TypeOK, ClockAhead
<1>2. CASE Stale
  <2>1. Current <= EscalationLimit /\ Current \in Nat
    BY <1>1 DEF Current
  <2>2. i \in 1..(n - Current)
    BY <1>1, <2>1
  <2>3. admitted[i] <= escalationWindow
    BY <2>2 DEF IInv, WindowsSplitHistory
  <2> QED
    BY <2>3, <1>1, <1>2 DEF Stale
<1>3. CASE ~Stale
  <2>1. Current = escalationCount /\ escalationCount + 1 <= EscalationLimit
    BY <1>3, <1>1 DEF NewCount, Current
  <2>2. i \in 1..(n - Current - EscalationLimit)
    BY <1>1, <2>1
  <2>3. escalationWindow - admitted[i] > Window
    BY <2>2 DEF IInv, WindowsSplitHistory
  <2> QED
    BY <2>3, <1>1
<1> QED
  BY <1>2, <1>3

(* The critical section of handleEvent keeps the invariant. *)
LEMMA EscalateKeepsIInv ==
    ASSUME IInv, EscalateWithin \/ EscalateOver
    PROVE  IInv'
<1> DEFINE n == Len(admitted)
           L == EscalationLimit
           c == Current
<1>1. /\ n \in Nat /\ L \in Nat \ {0} /\ Window \in Nat \ {0}
      /\ now \in Nat /\ escalationWindow \in Nat /\ escalationCount \in Nat
      /\ admitted \in Seq(Nat) /\ \A i \in 1..n : admitted[i] \in Nat
      /\ now' = now /\ escalationWindow <= now
      /\ c \in Nat /\ c <= L /\ c <= n
  BY EscalationAssumption
  DEF IInv, TypeOK, ClockAhead, EscalateWithin, EscalateOver,
      CountEscalation, WindowsSplitHistory, Current
<1>2. /\ NewCount \in Nat /\ escalationCount' = NewCount
      /\ escalationWindow' \in Nat /\ escalationWindow' <= now
  BY <1>1 DEF EscalateWithin, EscalateOver, CountEscalation, NewCount
<1>3. CASE EscalateOver
  <2>1. ~Stale
    BY <1>3, <1>1 DEF EscalateOver, NewCount
  <2>2. /\ admitted' = admitted /\ escalationWindow' = escalationWindow
        /\ escalationCount >= L /\ escalationCount' = escalationCount + 1
    BY <1>3, <2>1, <1>1 DEF EscalateOver, CountEscalation, NewCount
  <2>3. Current' = Current
    BY <2>2, <1>1 DEF Current
  <2> QED
    BY <1>1, <1>2, <2>2, <2>3
    DEF IInv, TypeOK, ClockAhead, WindowsSplitHistory, AtMostTwoQuotas
<1>4. CASE EscalateWithin
  <2>1. admitted' = Append(admitted, now) /\ NewCount <= L
    BY <1>4, <1>1, <1>2 DEF EscalateWithin
  <2>2. /\ admitted' \in Seq(Nat) /\ Len(admitted') = n + 1
        /\ admitted'[n + 1] = now
        /\ \A i \in 1..n : admitted'[i] = admitted[i]
    BY <2>1, <1>1
  <2>3. Current' = NewCount /\ NewCount > 0
    BY <2>1, <1>1, <1>2 DEF Current, NewCount
  <2>4. TypeOK' /\ ClockAhead'
    <3>1. \A i \in 1..(n + 1) : admitted'[i] <= now
      <4> SUFFICES ASSUME NEW i \in 1..(n + 1) PROVE admitted'[i] <= now
        OBVIOUS
      <4>1. CASE i = n + 1
        BY <4>1, <1>1, <2>2
      <4>2. CASE i \in 1..n
        BY <4>2, <2>2 DEF IInv, ClockAhead
      <4> QED
        BY <4>1, <4>2, <1>1
    <3>2. TypeOK'
      BY <1>1, <1>2, <2>2 DEF TypeOK
    <3>3. ClockAhead'
      BY <3>1, <1>1, <1>2, <2>2 DEF ClockAhead
    <3> QED
      BY <3>2, <3>3
  <2>5. AtMostTwoQuotas'
    <3> SUFFICES ASSUME NEW i \in 1..((n + 1) - 2 * L)
                 PROVE  admitted'[i + 2 * L] - admitted'[i] > Window
      BY <2>2 DEF AtMostTwoQuotas
    <3>1. CASE i \in 1..(n - 2 * L)
      <4>1. i \in 1..n /\ i + 2 * L \in 1..n
        BY <3>1, <1>1
      <4>2. admitted[i + 2 * L] - admitted[i] > Window
        BY <3>1 DEF IInv, AtMostTwoQuotas
      <4> QED
        BY <4>1, <4>2, <2>2
    <3>2. CASE i = (n + 1) - 2 * L
      <4>1. i + 2 * L = n + 1 /\ i \in 1..n
        BY <3>2, <1>1
      <4>2. now - admitted[i] > Window
        <5>1. NewCount <= EscalationLimit
          BY <2>1
        <5>2. i \in 1..Len(admitted)
          BY <4>1
        <5>3. i = Len(admitted) + 1 - 2 * EscalationLimit
          BY <3>2, <1>1
        <5> QED
          BY <5>1, <5>2, <5>3, AdmissionIsSpaced
      <4>3. admitted'[i + 2 * L] = now /\ admitted'[i] = admitted[i]
        BY <4>1, <2>2, Zenon
      <4> QED
        BY <4>2, <4>3
    <3>3. i \in 1..(n - 2 * L) \/ i = (n + 1) - 2 * L
      <4>0. n \in Nat /\ L \in Nat
        BY <1>1
      <4> HIDE DEF n, L
      <4>1. PICK k \in Int : k = n - 2 * L
        BY <4>0
      <4>2. i \in 1..(k + 1)
        BY <4>0, <4>1
      <4>3. i \in 1..k \/ i = k + 1
        BY <4>2
      <4> QED
        BY <4>0, <4>1, <4>3
    <3> QED
      BY <3>1, <3>2, <3>3
  <2>6. CASE Stale
    <3>1. /\ escalationWindow' = now /\ Current' = 1
          /\ now - escalationWindow > Window
      BY <2>6, <2>3, <1>4 DEF EscalateWithin, CountEscalation, NewCount, Stale
    <3>2. ASSUME NEW i \in 1..((n + 1) - 1 - L)
          PROVE  now - admitted'[i] > Window
      <4>1. i \in 1..n /\ i \in 1..(n - c)
        BY <1>1
      <4>2. admitted[i] <= escalationWindow
        BY <4>1 DEF IInv, WindowsSplitHistory
      <4>3. admitted'[i] = admitted[i] /\ admitted[i] \in Nat
        BY <4>1, <2>2, <1>1
      <4> QED
        BY <4>2, <4>3, <3>1, <1>1
    <3>3. ASSUME NEW i \in 1..((n + 1) - 1)
          PROVE  admitted'[i] <= now
      <4>1. i \in 1..n
        BY <1>1
      <4> QED
        BY <4>1, <2>2 DEF IInv, ClockAhead
    <3>4. \A i \in ((n + 1) - 1 + 1)..(n + 1) : admitted'[i] >= now
      BY <1>1, <2>2
    <3>5. WindowsSplitHistory'
      BY <1>1, <2>2, <3>1, <3>2, <3>3, <3>4 DEF WindowsSplitHistory
    <3> QED
      BY <2>4, <2>5, <3>5 DEF IInv
  <2>7. CASE ~Stale
    <3>1. /\ escalationWindow' = escalationWindow
          /\ escalationCount + 1 <= L /\ c = escalationCount
          /\ Current' = c + 1
      BY <2>7, <2>1, <2>3, <1>1, <1>4
      DEF EscalateWithin, CountEscalation, NewCount, Current
    <3>2. ASSUME NEW i \in 1..((n + 1) - (c + 1) - L)
          PROVE  escalationWindow - admitted'[i] > Window
      <4>1. i \in 1..n /\ i \in 1..(n - c - L)
        BY <1>1
      <4> QED
        BY <4>1, <2>2 DEF IInv, WindowsSplitHistory
    <3>3. ASSUME NEW i \in 1..((n + 1) - (c + 1))
          PROVE  admitted'[i] <= escalationWindow
      <4>1. i \in 1..n /\ i \in 1..(n - c)
        BY <1>1
      <4> QED
        BY <4>1, <2>2 DEF IInv, WindowsSplitHistory
    <3>4. ASSUME NEW i \in ((n + 1) - (c + 1) + 1)..(n + 1)
          PROVE  admitted'[i] >= escalationWindow
      <4>1. CASE i = n + 1
        BY <4>1, <2>2, <1>1
      <4>2. CASE i # n + 1
        <5>1. i \in 1..n /\ i \in (n - c + 1)..n
          BY <4>2, <1>1
        <5> QED
          BY <5>1, <2>2 DEF IInv, WindowsSplitHistory
      <4> QED
        BY <4>1, <4>2
    <3>5. WindowsSplitHistory'
      BY <1>1, <2>2, <3>1, <3>2, <3>3, <3>4 DEF WindowsSplitHistory
    <3> QED
      BY <2>4, <2>5, <3>5 DEF IInv
  <2> QED
    BY <2>6, <2>7
<1> QED
  BY <1>3, <1>4

(* Every step of the limiter keeps the invariant. *)
LEMMA NextIInv == IInv /\ [Next]_vars => IInv'
<1> SUFFICES ASSUME IInv, [Next]_vars PROVE IInv'
  OBVIOUS
<1>1. CASE Tick
  <2>1. /\ now' = now + 1 /\ now \in Nat /\ escalationWindow \in Nat
        /\ UNCHANGED <<escalationCount, escalationWindow, admitted>>
        /\ \A i \in 1..Len(admitted) : admitted[i] \in Nat
    BY <1>1 DEF Tick, IInv, TypeOK
  <2>2. TypeOK' /\ WindowsSplitHistory' /\ AtMostTwoQuotas'
    BY <2>1 DEF IInv, TypeOK, WindowsSplitHistory, Current, AtMostTwoQuotas
  <2>3. ClockAhead'
    BY <2>1 DEF IInv, ClockAhead
  <2> QED
    BY <2>2, <2>3 DEF IInv
<1>2. CASE EscalateWithin \/ EscalateOver
  BY <1>2, EscalateKeepsIInv
<1>3. CASE Restart
  <2>1. /\ now' = now /\ now \in Nat /\ escalationCount' = 0
        /\ escalationWindow' = now /\ admitted' = <<>>
    BY <1>3 DEF Restart, IInv, TypeOK
  <2> QED
    BY <2>1, EscalationAssumption
    DEF IInv, TypeOK, ClockAhead, WindowsSplitHistory, Current, AtMostTwoQuotas
<1>4. CASE UNCHANGED vars
  BY <1>4
  DEF vars, IInv, TypeOK, ClockAhead, WindowsSplitHistory, Current,
      AtMostTwoQuotas
<1> QED
  BY <1>1, <1>2, <1>3, <1>4 DEF Next

(* The inductive invariant holds throughout. *)
LEMMA Invariance == Spec => []IInv
  BY InitIInv, NextIInv, PTL DEF Spec

-----------------------------------------------------------------------------
(* The escalation counters keep their types. *)
THEOREM TypeCorrect == Spec => []TypeOK
<1>1. IInv => TypeOK
  BY DEF IInv
<1> QED
  BY <1>1, Invariance, PTL

(* However escalations fall around the resets of escalationWindow, any       *)
(* 2 * EscalationLimit + 1 of those that reach the LLM span more than a      *)
(* window.                                                                   *)
THEOREM TwoQuotasAtMost == Spec => []AtMostTwoQuotas
<1>1. IInv => AtMostTwoQuotas
  BY DEF IInv
<1> QED
  BY <1>1, Invariance, PTL

(* handleEvent turns an escalation away only when the window's quota has     *)
(* been used.                                                                *)
THEOREM QuotaIsUsedBeforeDenial == Spec => []QuotaIsUsed
<1>1. ASSUME IInv PROVE QuotaIsUsed
  <2> DEFINE n == Len(admitted)
             L == EscalationLimit
             current == {i \in 1..n : admitted[i] >= escalationWindow}
  <2> SUFFICES ASSUME escalationCount >= L PROVE Cardinality(current) >= L
    BY DEF QuotaIsUsed
  <2>1. n \in Nat /\ L \in Nat \ {0} /\ Current = L
    BY <1>1, EscalationAssumption DEF IInv, TypeOK, Current
  <2>2. (n - L + 1)..n \in SUBSET current
    BY <1>1, <2>1 DEF IInv, WindowsSplitHistory
  <2>3. Cardinality((n - L + 1)..n) = L
    <3>1. Cardinality((n - L + 1)..n)
              = IF n - L + 1 > n THEN 0 ELSE n - (n - L + 1) + 1
      BY <2>1, FS_Interval
    <3> QED
      BY <3>1, <2>1
  <2>4. IsFiniteSet(current)
    <3>1. IsFiniteSet(1..n)
      BY <2>1, FS_Interval
    <3> QED
      BY <3>1, FS_Subset
  <2>5. Cardinality((n - L + 1)..n) <= Cardinality(current)
    BY <2>2, <2>4, FS_Subset
  <2>6. Cardinality(current) \in Nat
    BY <2>4, FS_CardinalityType
  <2> QED
    BY <2>1, <2>3, <2>5, <2>6
<1> QED
  BY <1>1, Invariance, PTL

(* The fixed window implements the abstract rate limiter with twice its      *)
(* limit as the bound.                                                       *)
THEOREM EscalationImplementsRateLimit == Spec => ImplementsRateLimit
<1>1. Init => Limiter!Init
  BY DEF Init, Limiter!Init
<1>2. ASSUME IInv, [Next]_vars PROVE [Limiter!Next]_(Limiter!vars)
  <2>1. CASE Tick
    BY <2>1 DEF Tick, Limiter!Next, Limiter!Tick
  <2>2. CASE EscalateOver
    BY <2>2 DEF EscalateOver, CountEscalation, Limiter!vars
  <2>3. CASE EscalateWithin
    <3> DEFINE n == Len(admitted)
               L == EscalationLimit
    <3>1. /\ n \in Nat /\ L \in Nat \ {0} /\ Window \in Nat /\ now \in Nat
          /\ \A i \in 1..n : admitted[i] \in Nat
      BY <1>2, EscalationAssumption DEF IInv, TypeOK
    <3>2. NewCount <= L
      BY <2>3 DEF EscalateWithin
    <3>3. ASSUME n >= 2 * L PROVE now - admitted[n + 1 - 2 * L] >= Window
      <4>1. n + 1 - 2 * L \in 1..n
        BY <3>1, <3>3
      <4>2. now - admitted[n + 1 - 2 * L] > Window
        BY <4>1, <3>2, <1>2, AdmissionIsSpaced
      <4>3. admitted[n + 1 - 2 * L] \in Nat
        BY <4>1, <3>1
      <4> HIDE DEF n, L
      <4> QED
        BY <4>2, <4>3, <3>1
    <3>4. Limiter!MayAdmit
      BY <3>1, <3>3 DEF Limiter!MayAdmit
    <3> QED
      BY <2>3, <3>4
      DEF EscalateWithin, CountEscalation, Limiter!Next, Limiter!Admit
  <2>4. CASE Restart
    BY <2>4 DEF Restart, Limiter!Next, Limiter!Restart
  <2>5. CASE UNCHANGED vars
    BY <2>5 DEF vars, Limiter!vars
  <2> QED
    BY <1>2, <2>1, <2>2, <2>3, <2>4, <2>5 DEF Next
<1> QED
  BY <1>1, <1>2, Invariance, PTL
  DEF Spec, ImplementsRateLimit, Limiter!Spec
=============================================================================
