------------------------- MODULE PolicyEngineProofs -------------------------
(***************************************************************************)
(* The policy engine's rate limit holds for every limit, window, threshold  *)
(* and protected list, and every interleaving of Evaluate calls.            *)
(***************************************************************************)
EXTENDS PolicyEngine, NatFacts, FiniteSetTheorems, TLAPS

-----------------------------------------------------------------------------
(* The inductive invariant. *)

InOrder(ts) == \A i, j \in 1..Len(ts) : i <= j => ts[i] <= ts[j]

(* The history is in clock order and not in the future. *)
HistoryInOrder ==
    /\ InOrder(taken)
    /\ \A i \in 1..Len(taken) : taken[i] <= now

(* The number of actions the slice has forgotten. *)
Forgotten == Len(taken) - Len(actionTimestamps)

(* The slice is the young end of the history, and what it has forgotten has *)
(* left the window for good.                                                *)
SliceIsRecent ==
    /\ Len(actionTimestamps) <= Len(taken)
    /\ \A i \in 1..Len(actionTimestamps) :
           actionTimestamps[i] = taken[Forgotten + i]
    /\ \A i \in 1..Forgotten : taken[i] <= now - Window

IInv ==
    /\ TypeOK
    /\ HistoryInOrder
    /\ SliceIsRecent
    /\ NoActionStorm

-----------------------------------------------------------------------------
(* The filter loop of allowAction on a slice in clock order: the cut exists. *)
LEMMA ExpiredIsCut ==
    ASSUME NEW ts \in Seq(Nat), InOrder(ts), NEW c \in Int
    PROVE  /\ Expired(ts, c) \in 0..Len(ts)
           /\ \A i \in 1..Len(ts) : ts[i] > c <=> i > Expired(ts, c)
<1> DEFINE Young == {i \in 1..Len(ts) : ts[i] > c}
           Cut(n) == \A i \in 1..Len(ts) : ts[i] > c <=> i > n
<1>1. Len(ts) \in Nat /\ \A i \in 1..Len(ts) : ts[i] \in Nat
  OBVIOUS
<1>2. \E n \in 0..Len(ts) : Cut(n)
  <2>1. CASE Young = {}
    <3>1. Cut(Len(ts))
      BY <2>1, <1>1
    <3>2. Len(ts) \in 0..Len(ts)
      BY <1>1
    <3> HIDE DEF Cut
    <3> QED
      BY <3>1, <3>2
  <2>2. CASE Young # {}
    <3>1. Young \in SUBSET Nat
      OBVIOUS
    <3>2. PICK m \in Young : \A y \in Young : m <= y
      <4> HIDE DEF Young
      <4> QED
        BY <2>2, <3>1, LeastNat
    <3>3. \A i \in 1..Len(ts) : i >= m => ts[i] > c
      BY <1>1 DEF InOrder
    <3>4. Cut(m - 1)
      BY <3>2, <3>3, <1>1
    <3>5. m - 1 \in 0..Len(ts)
      BY <1>1
    <3> HIDE DEF Cut
    <3> QED
      BY <3>4, <3>5
  <2> QED
    BY <2>1, <2>2
<1>3. Expired(ts, c) \in 0..Len(ts) /\ Cut(Expired(ts, c))
  BY <1>2 DEF Expired
<1> QED
  BY <1>3

(* What the filter loop keeps. *)
LEMMA FilteredIsYoungEnd ==
    ASSUME NEW ts \in Seq(Nat), InOrder(ts), NEW c \in Int
    PROVE  LET k == Expired(ts, c)
               f == Filtered(ts, c)
           IN  /\ k \in 0..Len(ts)
               /\ f \in Seq(Nat)
               /\ Len(f) = Len(ts) - k
               /\ \A i \in 1..Len(f) : f[i] = ts[k + i] /\ f[i] > c
               /\ \A i \in 1..k : ts[i] <= c
<1> DEFINE k == Expired(ts, c)
           f == Filtered(ts, c)
<1>1. k \in 0..Len(ts) /\ \A i \in 1..Len(ts) : ts[i] > c <=> i > k
  BY ExpiredIsCut
<1> HIDE DEF k
<1>2. f = SubSeq(ts, k + 1, Len(ts))
  BY DEF Filtered, k
<1> HIDE DEF f
<1>3. f \in Seq(Nat) /\ Len(f) = Len(ts) - k
  BY <1>1, <1>2
<1>4. \A i \in 1..Len(f) : f[i] = ts[k + i]
  <2> SUFFICES ASSUME NEW i \in 1..Len(f) PROVE f[i] = ts[k + i]
    OBVIOUS
  <2>1. /\ k + 1 \in 1..(Len(ts) + 1) /\ i \in 1..(Len(ts) - k)
        /\ (k + 1) + i - 1 = k + i
    BY <1>1, <1>3
  <2>2. SubSeq(ts, k + 1, Len(ts))[i] = ts[(k + 1) + i - 1]
    BY <1>1, <2>1
  <2> QED
    BY <1>2, <2>1, <2>2
<1>5. \A i \in 1..Len(f) : f[i] > c
  <2> SUFFICES ASSUME NEW i \in 1..Len(f) PROVE f[i] > c
    OBVIOUS
  <2>1. k + i \in 1..Len(ts) /\ k + i > k
    BY <1>1, <1>3
  <2> QED
    BY <1>1, <1>4, <2>1
<1>6. \A i \in 1..k : ts[i] <= c
  BY <1>1
<1> QED
  BY <1>1, <1>3, <1>4, <1>5, <1>6 DEF k, f

(* What allowAction works with, in terms of the history. *)
LEMMA LiveProperties ==
    ASSUME IInv
    PROVE  /\ Live \in Seq(Nat)
           /\ Len(Live) <= Len(taken)
           /\ \A i \in 1..Len(Live) :
                  /\ Live[i] = taken[Len(taken) - Len(Live) + i]
                  /\ Live[i] > now - Window
           /\ \A i \in 1..(Len(taken) - Len(Live)) : taken[i] <= now - Window
<1> DEFINE ats == actionTimestamps
           k == Expired(ats, now - Window)
<1>1. /\ ats \in Seq(Nat) /\ taken \in Seq(Nat) /\ now \in Nat
      /\ now - Window \in Int
  BY EngineAssumption DEF IInv, TypeOK
<1>2. InOrder(ats)
  <2> SUFFICES ASSUME NEW i \in 1..Len(ats), NEW j \in 1..Len(ats), i <= j
               PROVE  ats[i] <= ats[j]
    BY DEF InOrder
  <2>1. ats[i] = taken[Forgotten + i] /\ ats[j] = taken[Forgotten + j]
    BY DEF IInv, SliceIsRecent
  <2>2. /\ Forgotten + i \in 1..Len(taken) /\ Forgotten + j \in 1..Len(taken)
        /\ Forgotten + i <= Forgotten + j
    <3>1. /\ Len(ats) \in Nat /\ Len(taken) \in Nat /\ Len(ats) <= Len(taken)
          /\ Forgotten = Len(taken) - Len(ats)
      <4>1. Len(ats) \in Nat /\ Len(taken) \in Nat
        BY <1>1
      <4>2. Len(ats) <= Len(taken)
        BY Zenon DEF IInv, SliceIsRecent
      <4> QED
        BY <4>1, <4>2 DEF Forgotten
    <3> DEFINE n == Len(taken)
               m == Len(ats)
    <3>2. i \in Nat /\ j \in Nat /\ 1 <= i /\ j <= m /\ i <= j
      BY <3>1
    <3> HIDE DEF ats, n, m
    <3>3. /\ 1 <= (n - m) + i /\ (n - m) + i <= (n - m) + j /\ (n - m) + j <= n
          /\ (n - m) + i \in Nat /\ (n - m) + j \in Nat
      BY <3>1, <3>2 DEF n, m
    <3> QED
      BY <3>1, <3>3 DEF n, m
  <2> QED
    BY <2>1, <2>2 DEF IInv, HistoryInOrder, InOrder
<1>3. /\ k \in 0..Len(ats)
      /\ Live \in Seq(Nat)
      /\ Len(Live) = Len(ats) - k
      /\ \A i \in 1..Len(Live) : Live[i] = ats[k + i] /\ Live[i] > now - Window
      /\ \A i \in 1..k : ats[i] <= now - Window
  BY <1>1, <1>2, FilteredIsYoungEnd DEF Live
<1> HIDE DEF k
<1>4. Len(Live) <= Len(taken)
  BY <1>1, <1>3 DEF IInv, SliceIsRecent
<1>5. ASSUME NEW i \in 1..Len(Live)
      PROVE  Live[i] = taken[Len(taken) - Len(Live) + i]
  <2>1. k + i \in 1..Len(ats)
    BY <1>1, <1>3
  <2>2. ats[k + i] = taken[Len(taken) - Len(ats) + (k + i)]
    BY <2>1 DEF IInv, SliceIsRecent, Forgotten
  <2>3. Len(taken) - Len(ats) + (k + i) = Len(taken) - Len(Live) + i
    BY <1>1, <1>3
  <2> QED
    BY <1>3, <2>2, <2>3
<1>6. ASSUME NEW i \in 1..(Len(taken) - Len(Live))
      PROVE  taken[i] <= now - Window
  <2> USE <1>6
  <2>1. CASE i <= Len(taken) - Len(ats)
    BY <2>1, <1>1 DEF IInv, SliceIsRecent, Forgotten
  <2>2. CASE i > Len(taken) - Len(ats)
    <3> DEFINE j == i - (Len(taken) - Len(ats))
    <3>1. j \in 1..k /\ j \in 1..Len(ats)
      <4>1. /\ Len(ats) \in Nat /\ Len(taken) \in Nat /\ k \in 0..Len(ats)
            /\ Len(Live) = Len(ats) - k
        BY <1>1, <1>3
      <4> HIDE DEF ats
      <4> QED
        BY <2>2, <4>1
    <3>2. ats[j] = taken[Len(taken) - Len(ats) + j]
      BY <3>1 DEF IInv, SliceIsRecent, Forgotten
    <3>3. Len(taken) - Len(ats) + j = i
      BY <1>1
    <3> QED
      BY <3>1, <3>2, <3>3, <1>3
  <2> QED
    BY <2>1, <2>2, <1>1
<1> QED
  BY <1>3, <1>4, <1>5, <1>6

-----------------------------------------------------------------------------
(* Appending the current time to a history in clock order. *)
LEMMA AppendKeepsOrder ==
    ASSUME NEW ts \in Seq(Nat), NEW t \in Nat, InOrder(ts),
           \A i \in 1..Len(ts) : ts[i] <= t
    PROVE  /\ Append(ts, t) \in Seq(Nat)
           /\ InOrder(Append(ts, t))
           /\ \A i \in 1..Len(Append(ts, t)) : Append(ts, t)[i] <= t
<1> DEFINE u == Append(ts, t)
<1>1. /\ u \in Seq(Nat) /\ Len(u) = Len(ts) + 1 /\ u[Len(ts) + 1] = t
      /\ \A i \in 1..Len(ts) : u[i] = ts[i]
  OBVIOUS
<1> HIDE DEF u
<1>2. \A i \in 1..Len(u) : i \in 1..Len(ts) \/ i = Len(ts) + 1
  BY <1>1
<1>3. \A i \in 1..Len(u) : u[i] <= t
  BY <1>1, <1>2
<1>4. InOrder(u)
  <2> SUFFICES ASSUME NEW i \in 1..Len(u), NEW j \in 1..Len(u), i <= j
               PROVE  u[i] <= u[j]
    BY DEF InOrder
  <2>1. CASE j = Len(ts) + 1
    BY <2>1, <1>1, <1>3
  <2>2. CASE j \in 1..Len(ts)
    <3>1. i \in 1..Len(ts)
      BY <2>2
    <3> QED
      BY <2>2, <3>1, <1>1 DEF InOrder
  <2> QED
    BY <2>1, <2>2, <1>2
<1> QED
  BY <1>1, <1>3, <1>4 DEF u

(* The only step that lets an action through. *)
LEMMA AllowKeepsIInv ==
    ASSUME IInv, AllowAction, UNCHANGED <<now, live>>
    PROVE  IInv'
<1> DEFINE n == Len(taken)
           m == Len(Live)
<1>1. /\ now \in Nat /\ taken \in Seq(Nat) /\ n \in Nat /\ m \in Nat
      /\ Live \in Seq(Nat) /\ m <= n /\ m < maxActionsPerWindow
      /\ maxActionsPerWindow \in Nat /\ Window \in Nat
  BY LiveProperties, EngineAssumption DEF IInv, TypeOK, AllowAction
<1>2. /\ taken' = Append(taken, now)
      /\ actionTimestamps' = Append(Live, now)
      /\ now' = now /\ live' = live
  BY DEF AllowAction
<1>3. /\ Len(taken') = n + 1 /\ taken'[n + 1] = now
      /\ \A i \in 1..n : taken'[i] = taken[i]
      /\ Len(actionTimestamps') = m + 1 /\ actionTimestamps'[m + 1] = now
      /\ \A i \in 1..m : actionTimestamps'[i] = Live[i]
  BY <1>1, <1>2
<1>4. TypeOK' /\ HistoryInOrder'
  <2>1. /\ taken' \in Seq(Nat) /\ InOrder(taken')
        /\ \A i \in 1..Len(taken') : taken'[i] <= now
    BY <1>1, <1>2, AppendKeepsOrder DEF IInv, HistoryInOrder
  <2>2. actionTimestamps' \in Seq(Nat)
    BY <1>1, <1>2
  <2>3. live \in BOOLEAN
    BY DEF IInv, TypeOK
  <2>4. TypeOK'
    BY <1>1, <1>2, <2>1, <2>2, <2>3 DEF TypeOK
  <2>5. HistoryInOrder'
    BY <1>2, <2>1 DEF HistoryInOrder, InOrder
  <2> QED
    BY <2>4, <2>5
<1> HIDE DEF n, m
<1>5. SliceIsRecent'
  <2>1. Forgotten' = n - m
    BY <1>1, <1>3 DEF Forgotten
  <2>2. ASSUME NEW i \in 1..(m + 1)
        PROVE  actionTimestamps'[i] = taken'[(n - m) + i]
    <3>1. CASE i = m + 1
      BY <3>1, <1>1, <1>3
    <3>2. CASE i \in 1..m
      <4>1. Live[i] = taken[(n - m) + i] /\ (n - m) + i \in 1..n
        BY <3>2, <1>1, LiveProperties DEF n, m
      <4> QED
        BY <4>1, <3>2, <1>3
    <3> QED
      BY <3>1, <3>2, <1>1
  <2>3. \A i \in 1..(n - m) : taken'[i] <= now' - Window
    <3>1. \A i \in 1..(n - m) : i \in 1..n /\ taken[i] <= now - Window
      BY <1>1, LiveProperties DEF n, m
    <3> QED
      BY <3>1, <1>2, <1>3
  <2> QED
    BY <2>1, <2>2, <2>3, <1>1, <1>3 DEF SliceIsRecent
<1>6. NoActionStorm'
  <2> DEFINE b == maxActionsPerWindow
  <2> SUFFICES ASSUME NEW i \in 1..((n + 1) - b)
               PROVE  taken'[i + b] - taken'[i] >= Window
    BY <1>3 DEF NoActionStorm
  <2>1. CASE i \in 1..(n - b)
    <3>1. i \in 1..n /\ i + b \in 1..n
      BY <2>1, <1>1
    <3>2. taken[i + b] - taken[i] >= Window
      BY <2>1 DEF IInv, NoActionStorm, n
    <3> QED
      BY <3>1, <3>2, <1>3
  <2>2. CASE i = (n + 1) - b
    <3>1. i + b = n + 1 /\ i \in 1..(n - m) /\ i \in 1..n
      BY <2>2, <1>1
    <3>2. taken[i] <= now - Window /\ taken[i] \in Nat
      BY <3>1, LiveProperties, <1>1 DEF n, m
    <3>3. taken'[i + b] = now /\ taken'[i] = taken[i]
      BY <3>1, <1>3
    <3> QED
      BY <3>2, <3>3, <1>1
  <2> QED
    BY <2>1, <2>2, <1>1
<1> QED
  BY <1>4, <1>5, <1>6 DEF IInv

(* A denied action only prunes the slice. *)
LEMMA DenyKeepsIInv ==
    ASSUME IInv, DenyAction, UNCHANGED <<now, live>>
    PROVE  IInv'
<1>1. /\ actionTimestamps' = Live /\ taken' = taken
      /\ now' = now /\ live' = live
  BY DEF DenyAction
<1>2. TypeOK' /\ HistoryInOrder' /\ NoActionStorm'
  BY <1>1, LiveProperties DEF IInv, TypeOK, HistoryInOrder, NoActionStorm
<1>3. SliceIsRecent'
  BY <1>1, LiveProperties DEF SliceIsRecent, Forgotten
<1> QED
  BY <1>2, <1>3 DEF IInv

(* Time passing only ages the history. *)
LEMMA TickKeepsIInv ==
    ASSUME IInv, Tick
    PROVE  IInv'
<1>1. /\ now' = now + 1 /\ now \in Nat /\ Window \in Nat
      /\ taken' = taken /\ actionTimestamps' = actionTimestamps /\ live' = live
      /\ taken \in Seq(Nat)
  BY EngineAssumption DEF Tick, IInv, TypeOK
<1>2. TypeOK' /\ NoActionStorm'
  BY <1>1 DEF IInv, TypeOK, NoActionStorm
<1>3. HistoryInOrder'
  BY <1>1 DEF IInv, HistoryInOrder, InOrder
<1>4. SliceIsRecent'
  <2>1. Forgotten' = Forgotten /\ Forgotten \in Nat /\ Forgotten <= Len(taken)
    BY <1>1 DEF Forgotten, IInv, SliceIsRecent, TypeOK
  <2>2. \A i \in 1..Forgotten : taken[i] \in Nat /\ taken[i] <= now - Window
    BY <1>1, <2>1 DEF IInv, SliceIsRecent
  <2>3. \A i \in 1..Forgotten : taken[i] <= (now + 1) - Window
    BY <2>2, <1>1
  <2> QED
    BY <1>1, <2>1, <2>3 DEF IInv, SliceIsRecent
<1> QED
  BY <1>2, <1>3, <1>4 DEF IInv

(* An engine starts without timestamps. *)
LEMMA InitIInv == Init => IInv
<1> SUFFICES ASSUME Init PROVE IInv
  OBVIOUS
<1>1. now = 0 /\ live \in BOOLEAN /\ actionTimestamps = <<>> /\ taken = <<>>
  BY DEF Init
<1> QED
  BY <1>1, EngineAssumption
  DEF IInv, TypeOK, HistoryInOrder, InOrder, SliceIsRecent, Forgotten,
      NoActionStorm

(* Nor does the engine of the agent's next life have any. *)
LEMMA NewEngineKeepsIInv ==
    ASSUME IInv, NewEngine
    PROVE  IInv'
<1>1. /\ now' = now /\ now \in Nat /\ live' \in BOOLEAN
      /\ actionTimestamps' = <<>> /\ taken' = <<>>
  BY DEF IInv, TypeOK, NewEngine
<1> QED
  BY <1>1, EngineAssumption
  DEF IInv, TypeOK, HistoryInOrder, InOrder, SliceIsRecent, Forgotten,
      NoActionStorm

(* Every step of the engine keeps the invariant. *)
LEMMA NextIInv == IInv /\ [Next]_vars => IInv'
<1> SUFFICES ASSUME IInv, [Next]_vars PROVE IInv'
  OBVIOUS
<1>1. CASE Tick
  BY <1>1, TickKeepsIInv
<1>2. ASSUME NEW comm \in Comms, NEW score \in Scores, NEW d \in Decision,
             Evaluate(comm, score, d)
      PROVE  IInv'
  <2>1. CASE AllowAction
    BY <2>1, <1>2, AllowKeepsIInv DEF Evaluate
  <2>2. CASE DenyAction
    BY <2>2, <1>2, DenyKeepsIInv DEF Evaluate
  <2>3. CASE UNCHANGED <<actionTimestamps, taken>>
    BY <2>3, <1>2
    DEF Evaluate, IInv, TypeOK, HistoryInOrder, InOrder, SliceIsRecent,
        Forgotten, NoActionStorm
  <2> QED
    BY <1>2, <2>1, <2>2, <2>3 DEF Evaluate
<1>3. CASE NewEngine
  BY <1>3, NewEngineKeepsIInv
<1>4. CASE UNCHANGED vars
  BY <1>4
  DEF vars, IInv, TypeOK, HistoryInOrder, InOrder, SliceIsRecent, Forgotten,
      NoActionStorm
<1> QED
  BY <1>1, <1>2, <1>3, <1>4 DEF Next

(* The inductive invariant holds throughout. *)
LEMMA Invariance == Spec => []IInv
  BY InitIInv, NextIInv, PTL DEF Spec

-----------------------------------------------------------------------------
(* The engine's variables keep their types (actionTimestamps of              *)
(* policy.Engine and the history beside it).                                 *)
THEOREM TypeCorrect == Spec => []TypeOK
<1>1. IInv => TypeOK
  BY DEF IInv
<1> QED
  BY <1>1, Invariance, PTL

(* allowAction never lets maxActionsPerWindow + 1 actions into one window,   *)
(* for every configured limit and every history of calls.                    *)
THEOREM ActionStormPrevented == Spec => []NoActionStorm
<1>1. IInv => NoActionStorm
  BY DEF IInv
<1> QED
  BY <1>1, Invariance, PTL

(* The pruned slice always counts exactly the actions of the last window:    *)
(* allowAction denies only when the limit is used up.                        *)
THEOREM LimiterIsExact == Spec => []LimiterExact
<1>1. ASSUME IInv PROVE LimiterExact
  <2> DEFINE n == Len(taken)
             m == Len(Live)
             Young == {i \in 1..n : taken[i] > now - Window}
  <2>1. /\ now \in Nat /\ Window \in Nat /\ taken \in Seq(Nat)
        /\ n \in Nat /\ m \in Nat /\ m <= n
    BY <1>1, LiveProperties, EngineAssumption DEF IInv, TypeOK
  <2>2. \A i \in 1..(n - m) : ~(taken[i] > now - Window)
    BY <1>1, <2>1, LiveProperties
  <2>3. ASSUME NEW i \in (n - m + 1)..n
        PROVE  taken[i] > now - Window
    <3>1. i - (n - m) \in 1..m /\ n - m + (i - (n - m)) = i
      BY <2>1
    <3> QED
      BY <1>1, <3>1, LiveProperties
  <2> HIDE DEF n, m
  <2>4. Young = (n - m + 1)..n
    BY <2>1, <2>2, <2>3
  <2>5. Cardinality((n - m + 1)..n) = m
    <3>1. n - m + 1 \in Int /\ n \in Int
      BY <2>1
    <3>2. Cardinality((n - m + 1)..n)
              = IF n - m + 1 > n THEN 0 ELSE n - (n - m + 1) + 1
      BY <3>1, FS_Interval
    <3> QED
      BY <3>2, <2>1
  <2> QED
    BY <2>4, <2>5 DEF LimiterExact, n, m
<1> QED
  BY <1>1, Invariance, PTL

(* The engine's limiter implements the abstract rate limiter with the        *)
(* configured limit as its bound.                                            *)
THEOREM EngineImplementsRateLimit == Spec => ImplementsRateLimit
<1>1. Init => Limiter!Init
  BY DEF Init, Limiter!Init
<1>2. ASSUME IInv, [Next]_vars PROVE [Limiter!Next]_(Limiter!vars)
  <2>1. CASE Tick
    BY <2>1 DEF Tick, Limiter!Next, Limiter!Tick
  <2>2. CASE AllowAction /\ UNCHANGED now
    <3> DEFINE n == Len(taken)
               b == maxActionsPerWindow
    <3>1. /\ n \in Nat /\ b \in Nat /\ Len(Live) \in Nat /\ Len(Live) < b
          /\ Window \in Nat /\ now \in Nat /\ taken \in Seq(Nat)
      BY <1>2, <2>2, LiveProperties, EngineAssumption
      DEF IInv, TypeOK, AllowAction
    <3>2. ASSUME n >= b PROVE now - taken[n + 1 - b] >= Window
      <4>1. n + 1 - b \in 1..(n - Len(Live)) /\ n + 1 - b \in 1..n
        BY <3>1, <3>2
      <4>2. \A i \in 1..(n - Len(Live)) : taken[i] <= now - Window
        BY <1>2, LiveProperties
      <4>3. taken[n + 1 - b] \in Nat
        BY <4>1, <3>1
      <4>4. taken[n + 1 - b] <= now - Window
        BY <4>1, <4>2
      <4> QED
        BY <4>3, <4>4, <3>1
    <3>3. Limiter!MayAdmit
      BY <3>1, <3>2 DEF Limiter!MayAdmit
    <3> QED
      BY <2>2, <3>3 DEF AllowAction, Limiter!Next, Limiter!Admit
  <2>3. CASE UNCHANGED <<now, taken>>
    BY <2>3 DEF Limiter!vars
  <2>4. CASE NewEngine
    BY <2>4 DEF NewEngine, Limiter!Next, Limiter!Restart
  <2> QED
    BY <1>2, <2>1, <2>2, <2>3, <2>4 DEF Next, Evaluate, DenyAction, vars
<1> QED
  BY <1>1, <1>2, Invariance, PTL
  DEF Spec, ImplementsRateLimit, Limiter!Spec

(* The tiers by their strength. *)
Rank(tier) == CASE tier = "log" -> 0
                [] tier = "alert" -> 1
                [] tier = "soft_action" -> 2
                [] tier = "hard_action" -> 3

(* The switch of Evaluate never gives a higher threat score a weaker tier,   *)
(* whatever the configured thresholds, even if they are out of order.        *)
THEOREM TierMonotone ==
    \A s, t \in Scores : s <= t => Rank(TierOf(s)) <= Rank(TierOf(t))
  BY EngineAssumption DEF Rank, TierOf
=============================================================================
