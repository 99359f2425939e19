--------------------------- MODULE LifecycleProofs ---------------------------
(***************************************************************************)
(* The life cycle uses the store only in the ways module Baseline allows,   *)
(* for every number of lives, interrupts and faults, and loses track of no  *)
(* interrupt.                                                               *)
(***************************************************************************)
EXTENDS Lifecycle, FiniteSetTheorems, TLAPS

(* Every step of the life cycle is a step of the store or leaves it alone. *)
LEMMA StepImplementsStore == [Next]_vars => [Store!Next]_(Store!vars)
<1> SUFFICES ASSUME [Next]_vars PROVE [Store!Next]_(Store!vars)
  OBVIOUS
<1>1. ASSUME UNCHANGED storeVars PROVE [Store!Next]_(Store!vars)
  BY <1>1 DEF storeVars, Store!vars
<1>2. ASSUME NEW m \in Store!Modes, Start(m) PROVE Store!Next
  BY <1>2 DEF Start, Store!Next
<1>3. CASE Notify \/ LoadProbe \/ SaverStops
  BY <1>1, <1>3 DEF Notify, LoadProbe, SaverStops
<1>4. CASE Fatal \/ Killed \/ MainReturns
  BY <1>4 DEF Fatal, Killed, MainReturns, End, Store!Next
<1>5. CASE Interrupt
  BY <1>1, <1>5 DEF Interrupt, Store!Next
<1>6. CASE SaverOpens \/ SaverWrites \/ SaverFails
  BY <1>6 DEF SaverOpens, SaverWrites, SaverFails, Store!Next
<1>7. ASSUME NEW label \in Labels, CloserStops(label) \/ ReaderReturns(label)
      PROVE  [Store!Next]_(Store!vars)
  BY <1>1, <1>7 DEF CloserStops, ReaderReturns
<1>8. ASSUME NEW label \in Labels, HandleEvent(label) PROVE Store!Next
  BY <1>8 DEF HandleEvent, Store!Next
<1>9. CASE UNCHANGED vars
  BY <1>1, <1>9 DEF vars
<1> QED
  BY <1>2, <1>3, <1>4, <1>5, <1>6, <1>7, <1>8, <1>9 DEF Next

(* The life cycle, with its saver, closers, readers and ways to end,         *)
(* implements the baseline store: what BaselineProofs shows of the store     *)
(* holds of the running agent.                                               *)
THEOREM LifecycleImplementsStore == Spec => Store!Spec
<1>1. Init => Store!Init
  BY DEF Init
<1> QED
  BY <1>1, StepImplementsStore, PTL DEF Spec, Store!Spec

-----------------------------------------------------------------------------
(* Who waits for an interrupt, and how many have come. *)

Loaded == {Probes[i] : i \in 1..started}

RunTypes ==
    /\ main \in {"before", "loading", "waiting", "ended"}
    /\ up <=> main # "ended"
    /\ stopper \in 0..1
    /\ lastSave \in BOOLEAN
    /\ started \in 0..3
    /\ receivers \subseteq {Saver} \cup Loaded
    /\ readers \subseteq Loaded
    /\ accepted \in Nat
    /\ lives \in Nat

(* A reader returns after its closer only. *)
ClosersFirst == receivers \cap Labels \subseteq readers

Accounted ==
    /\ main \in {"before", "ended"} =>
           receivers = {} /\ started = 0 /\ accepted = stopper
    /\ main = "waiting" => started = 3
    /\ main \in {"loading", "waiting"} =>
           accepted + Cardinality(receivers) = stopper + 1 + started

IInv == RunTypes /\ ClosersFirst /\ Accounted

(* The probes are three, and none of them is the saver. *)
LEMMA ProbeFacts ==
    /\ Len(Probes) = 3
    /\ Probes[1] = "EXEC" /\ Probes[2] = "OPEN" /\ Probes[3] = "CONNECT"
    /\ Labels = {"EXEC", "OPEN", "CONNECT"}
    /\ Saver \notin Labels
    /\ started = 0 => Loaded = {}
    /\ started = 1 => Loaded = {"EXEC"}
    /\ started = 2 => Loaded = {"EXEC", "OPEN"}
    /\ started = 3 => Loaded = Labels
<1>1. /\ Len(Probes) = 3 /\ DOMAIN Probes = 1..3
      /\ Probes[1] = "EXEC" /\ Probes[2] = "OPEN" /\ Probes[3] = "CONNECT"
  BY DEF Probes
<1>2. Labels = {"EXEC", "OPEN", "CONNECT"}
  BY <1>1 DEF Labels
<1> HIDE DEF Probes
<1>3. Saver \notin Labels
  BY <1>2 DEF Saver
<1>4. started = 0 => Loaded = {}
  BY DEF Loaded
<1>5. started = 1 => Loaded = {"EXEC"}
  BY <1>1 DEF Loaded
<1>6. started = 2 => Loaded = {"EXEC", "OPEN"}
  BY <1>1 DEF Loaded
<1>7. started = 3 => Loaded = Labels
  BY <1>1, <1>2 DEF Loaded
<1> QED
  BY <1>1, <1>2, <1>3, <1>4, <1>5, <1>6, <1>7

(* The receivers can be counted. *)
LEMMA LabelsCount == IsFiniteSet(Labels) /\ Cardinality(Labels) = 3
<1>1. IsFiniteSet({"EXEC"}) /\ Cardinality({"EXEC"}) = 1
  BY FS_Singleton
<1>2. /\ IsFiniteSet({"EXEC"} \cup {"OPEN"})
      /\ Cardinality({"EXEC"} \cup {"OPEN"}) = 2
  BY <1>1, FS_AddElement
<1>3. /\ IsFiniteSet(({"EXEC"} \cup {"OPEN"}) \cup {"CONNECT"})
      /\ Cardinality(({"EXEC"} \cup {"OPEN"}) \cup {"CONNECT"}) = 3
  BY <1>2, FS_AddElement
<1>4. Labels = ({"EXEC"} \cup {"OPEN"}) \cup {"CONNECT"}
  BY ProbeFacts
<1> QED
  BY <1>3, <1>4

LEMMA ReceiversFinite ==
    ASSUME RunTypes
    PROVE  /\ IsFiniteSet(receivers) /\ Cardinality(receivers) \in Nat
           /\ receivers \subseteq {Saver} \cup Labels /\ readers \subseteq Labels
<1>1. Loaded \subseteq Labels
  BY ProbeFacts DEF RunTypes
<1>2. IsFiniteSet(Labels \cup {Saver})
  BY LabelsCount, FS_AddElement
<1>3. receivers \subseteq Labels \cup {Saver} /\ readers \subseteq Labels
  BY <1>1 DEF RunTypes
<1>4. IsFiniteSet(receivers)
  BY <1>2, <1>3, FS_Subset
<1> QED
  BY <1>3, <1>4, FS_CardinalityType

LEMMA InitIInv == Init => IInv
<1> SUFFICES ASSUME Init PROVE IInv
  OBVIOUS
<1>1. /\ main = "ended" /\ ~up /\ stopper = 0 /\ receivers = {}
      /\ lastSave \in BOOLEAN /\ started = 0 /\ readers = {} /\ accepted = 0
      /\ lives = 0
  BY DEF Init, Store!Init
<1>2. RunTypes
  BY <1>1 DEF RunTypes
<1> QED
  BY <1>1, <1>2 DEF IInv, ClosersFirst, Accounted

(* A new process, and an ended one, has no goroutines. *)
LEMMA NoGoroutinesKeepIInv ==
    ASSUME IInv, NoGoroutines, main' \in {"before", "ended"},
           up' <=> main' # "ended", lives' \in Nat
    PROVE  IInv'
<1>1. /\ stopper' = 0 /\ receivers' = {} /\ started' = 0 /\ readers' = {}
      /\ accepted' = 0
  BY DEF NoGoroutines
<1>2. lastSave' \in BOOLEAN
  BY DEF NoGoroutines
<1>3. RunTypes'
  BY <1>1, <1>2 DEF RunTypes
<1> QED
  BY <1>1, <1>3 DEF IInv, ClosersFirst, Accounted

(* A receiver takes the value out of the channel and waits no more. *)
LEMMA ReceiveKeepsIInv ==
    ASSUME IInv, NEW r \in receivers, up, stopper = 1, stopper' = 0,
           receivers' = receivers \ {r}, lastSave' \in BOOLEAN,
           UNCHANGED <<main, up, started, readers, accepted, lives>>
    PROVE  IInv'
<1>1. RunTypes
  BY DEF IInv
<1>2. IsFiniteSet(receivers) /\ Cardinality(receivers) \in Nat
  BY <1>1, ReceiversFinite
<1>3. Cardinality(receivers') = Cardinality(receivers) - 1
  BY <1>2, FS_RemoveElement
<1>4. RunTypes'
  BY <1>1 DEF RunTypes, Loaded
<1>5. main \notin {"before", "ended"}
  BY DEF IInv, Accounted
<1>6. Accounted'
  BY <1>1, <1>2, <1>3, <1>5 DEF IInv, Accounted, RunTypes
<1>7. ClosersFirst'
  BY DEF IInv, ClosersFirst
<1> QED
  BY <1>4, <1>6, <1>7 DEF IInv

(* Each turn of main's loop adds one receiver and one reader. *)
LEMMA LoadKeepsIInv ==
    ASSUME IInv, LoadProbe
    PROVE  IInv'
<1>1. PICK label : label = Probes[started + 1]
  OBVIOUS
<1>2. /\ main = "loading" /\ started < 3 /\ started' = started + 1
      /\ receivers' = receivers \cup {label} /\ readers' = readers \cup {label}
      /\ main' = IF started' = 3 THEN "waiting" ELSE "loading"
      /\ up' = up /\ stopper' = stopper /\ lastSave' = lastSave
      /\ accepted' = accepted /\ lives' = lives
  BY <1>1, ProbeFacts DEF LoadProbe, storeVars
<1>3. RunTypes /\ started \in Nat
  BY DEF IInv, RunTypes
<1>4. IsFiniteSet(receivers) /\ Cardinality(receivers) \in Nat
  BY <1>3, ReceiversFinite
<1>5. label \in Labels /\ label \notin Loaded
  <2>1. started \in {0, 1, 2}
    BY <1>2, <1>3 DEF RunTypes
  <2> QED
    BY <1>1, <2>1, ProbeFacts
<1>6. label \notin receivers
  BY <1>3, <1>5, ProbeFacts DEF RunTypes
<1>7. Cardinality(receivers') = Cardinality(receivers) + 1
  BY <1>2, <1>4, <1>6, FS_AddElement
<1>8. Loaded' = Loaded \cup {label}
  BY <1>1, <1>2, <1>3 DEF Loaded
<1>9. started' \in 0..3 /\ main' \in {"loading", "waiting"}
  BY <1>2, <1>3
<1>10. /\ receivers' \subseteq {Saver} \cup Loaded'
       /\ readers' \subseteq Loaded'
  BY <1>2, <1>3, <1>8 DEF RunTypes
<1>11. up' <=> main' # "ended"
  BY <1>2, <1>3, <1>9 DEF RunTypes
<1>12. RunTypes'
  BY <1>2, <1>3, <1>9, <1>10, <1>11 DEF RunTypes
<1>13. Accounted'
  BY <1>2, <1>3, <1>4, <1>7, <1>9 DEF IInv, Accounted, RunTypes
<1>14. ClosersFirst'
  BY <1>2 DEF IInv, ClosersFirst
<1> QED
  BY <1>12, <1>13, <1>14 DEF IInv

(* Every step keeps the account. *)
LEMMA NextIInv == IInv /\ [Next]_vars => IInv'
<1> SUFFICES ASSUME IInv, [Next]_vars PROVE IInv'
  OBVIOUS
<1>1. RunTypes /\ ClosersFirst /\ Accounted
  BY DEF IInv
<1>2. /\ IsFiniteSet(receivers) /\ Cardinality(receivers) \in Nat
      /\ receivers \subseteq {Saver} \cup Labels /\ readers \subseteq Labels
  BY <1>1, ReceiversFinite
<1>3. ASSUME lastSave' \in BOOLEAN,
             UNCHANGED <<up, main, stopper, receivers, started, readers, accepted,
                         lives>>
      PROVE  IInv'
  <2>1. RunTypes'
    BY <1>1, <1>3 DEF RunTypes, Loaded
  <2> QED
    BY <1>1, <1>3, <2>1 DEF IInv, ClosersFirst, Accounted
<1>4. ASSUME NEW m \in Store!Modes, Start(m) PROVE IInv'
  <2>1. NoGoroutines /\ main' = "before" /\ up' /\ lives' \in Nat
    BY <1>1, <1>4 DEF Start, Store!NewStore, RunTypes
  <2> QED
    BY <2>1, NoGoroutinesKeepIInv
<1>5. CASE Notify
  <2>1. /\ main = "before" /\ main' = "loading" /\ receivers' = {Saver}
        /\ UNCHANGED <<up, stopper, lastSave, started, readers, accepted, lives>>
    BY <1>5 DEF Notify, storeVars
  <2>2. Cardinality(receivers') = 1
    BY <2>1, FS_Singleton
  <2>3. RunTypes'
    BY <1>1, <2>1 DEF RunTypes, Loaded
  <2>4. ClosersFirst'
    BY <2>1, ProbeFacts DEF ClosersFirst
  <2>5. started = 0 /\ accepted = stopper
    BY <1>1, <2>1 DEF Accounted
  <2> QED
    BY <1>1, <2>1, <2>2, <2>3, <2>4, <2>5 DEF IInv, Accounted, RunTypes
<1>6. CASE LoadProbe
  BY <1>6, LoadKeepsIInv
<1>7. ASSUME End PROVE IInv'
  <2>1. NoGoroutines /\ main' = "ended" /\ ~up' /\ lives' = lives
    BY <1>7 DEF End, Store!Exit
  <2> QED
    BY <1>1, <2>1, NoGoroutinesKeepIInv DEF RunTypes
<1>8. CASE Fatal \/ Killed \/ MainReturns
  BY <1>7, <1>8 DEF Fatal, Killed, MainReturns
<1>9. CASE Interrupt
  <2>1. CASE main = "before"
    <3>1. Store!Exit /\ main' = "ended" /\ NoGoroutines /\ lives' = lives
      BY <1>9, <2>1 DEF Interrupt
    <3> QED
      BY <1>7, <3>1 DEF End
  <2>2. CASE main # "before"
    <3>1. /\ stopper' = 1 /\ accepted' = accepted + (1 - stopper) /\ up
          /\ UNCHANGED <<up, main, receivers, lastSave, started, readers, lives>>
      BY <1>9, <2>2 DEF Interrupt, storeVars
    <3>2. accepted' \in Nat
      BY <1>1, <3>1 DEF RunTypes
    <3>3. RunTypes'
      BY <1>1, <3>1, <3>2 DEF RunTypes, Loaded
    <3>4. Accounted'
      BY <1>1, <1>2, <3>1 DEF Accounted, RunTypes
    <3> QED
      BY <1>1, <3>1, <3>3, <3>4 DEF IInv, ClosersFirst
  <2> QED
    BY <2>1, <2>2
<1>10. CASE SaverStops
  <2>1. lastSave' \in BOOLEAN
    BY <1>10 DEF SaverStops
  <2> QED
    BY <1>10, <2>1, ReceiveKeepsIInv DEF SaverStops, storeVars
<1>11. ASSUME NEW label \in Labels, CloserStops(label) PROVE IInv'
  <2>1. lastSave' \in BOOLEAN
    BY <1>1, <1>11 DEF CloserStops, RunTypes
  <2> QED
    BY <1>11, <2>1, ReceiveKeepsIInv DEF CloserStops, storeVars
<1>12. CASE SaverOpens \/ SaverWrites \/ SaverFails
  <2>1. lastSave' \in BOOLEAN
    BY <1>1, <1>12 DEF SaverOpens, SaverWrites, SaverFails, runVars, RunTypes
  <2>2. UNCHANGED <<up, main, stopper, receivers, started, readers, accepted,
                    lives>>
    BY <1>12 DEF SaverOpens, SaverWrites, SaverFails, runVars, Store!SaveOpen,
                 Store!SaveWrite, Store!SaveFails
  <2> QED
    BY <1>3, <2>1, <2>2
<1>13. ASSUME NEW label \in Labels, ReaderReturns(label) PROVE IInv'
  <2>1. /\ label \in readers \ receivers /\ readers' = readers \ {label}
        /\ UNCHANGED <<up, main, stopper, receivers, lastSave, started, accepted,
                       lives>>
    BY <1>13 DEF ReaderReturns, storeVars
  <2>2. RunTypes'
    BY <1>1, <2>1 DEF RunTypes, Loaded
  <2>3. ClosersFirst'
    BY <1>1, <2>1 DEF ClosersFirst
  <2> QED
    BY <1>1, <2>1, <2>2, <2>3 DEF IInv, Accounted
<1>14. ASSUME NEW label \in Labels, HandleEvent(label) PROVE IInv'
  <2>1. UNCHANGED <<runVars, lives, up>>
    BY <1>14 DEF HandleEvent, Store!LookUp, Store!Learn, Store!Skip
  <2>2. lastSave' \in BOOLEAN
    BY <1>1, <2>1 DEF runVars, RunTypes
  <2> QED
    BY <1>3, <2>1, <2>2 DEF runVars
<1>15. CASE UNCHANGED vars
  <2>1. lastSave' \in BOOLEAN
    BY <1>1, <1>15 DEF vars, runVars, RunTypes
  <2> QED
    BY <1>3, <1>15, <2>1 DEF vars, runVars, storeVars
<1> QED
  BY <1>4, <1>5, <1>6, <1>8, <1>9, <1>10, <1>11, <1>12, <1>13, <1>14, <1>15
  DEF Next

LEMMA Invariance == Spec => []IInv
  BY InitIInv, NextIInv, PTL DEF Spec

(* Every interrupt that got into stopper is still there or has ended exactly *)
(* one goroutine, and main returns only after the third, however the         *)
(* goroutines race for the channel and however many interrupts were dropped. *)
THEOREM InterruptsAreAccounted == Spec => []InterruptsAccounted
<1>1. ASSUME IInv PROVE InterruptsAccounted
  <2>1. RunTypes /\ ClosersFirst /\ Accounted
    BY <1>1 DEF IInv
  <2>2. /\ IsFiniteSet(receivers) /\ Cardinality(receivers) \in Nat
        /\ receivers \subseteq {Saver} \cup Labels
    BY <2>1, ReceiversFinite
  <2>3. main \in {"loading", "waiting"} =>
            accepted = stopper + (1 + started - Cardinality(receivers))
    BY <2>1, <2>2 DEF Accounted, RunTypes
  <2>4. ASSUME main = "waiting", readers = {}
        PROVE  accepted >= Cardinality(Labels)
    <3>1. receivers \subseteq {Saver}
      BY <2>1, <2>2, <2>4 DEF ClosersFirst
    <3>2. Cardinality(receivers) <= 1
      <4>1. CASE receivers = {}
        BY <4>1, FS_EmptySet
      <4>2. Cardinality({Saver}) = 1
        BY FS_Singleton, Zenon
      <4>3. CASE receivers = {Saver}
        BY <4>2, <4>3
      <4> QED
        BY <3>1, <4>1, <4>3
    <3> QED
      BY <2>1, <2>2, <2>4, <3>2, LabelsCount DEF Accounted, RunTypes
  <2> QED
    BY <2>3, <2>4 DEF InterruptsAccounted
<1> QED
  BY <1>1, Invariance, PTL

-----------------------------------------------------------------------------
(* What is proved of the store alone holds of it here. *)

StoreProofs == INSTANCE BaselineProofs

LEMMA StoreInitIInv == Init => StoreProofs!IInv
<1> SUFFICES ASSUME Init PROVE StoreProofs!IInv
  OBVIOUS
<1>1. StoreProofs!Init
  BY DEF Init, Store!Init, StoreProofs!Init, Store!NoFile, StoreProofs!NoFile
<1> QED
  BY <1>1, StoreProofs!InitIInv, StoreAssumption
  DEF Store!ConstantsOK, StoreProofs!ConstantsOK, Store!NUM, StoreProofs!NUM,
      Store!BAR, StoreProofs!BAR,
      Store!FaultKinds, StoreProofs!FaultKinds

LEMMA StoreNextIInv == StoreProofs!IInv /\ [Next]_vars => StoreProofs!IInv'
<1> SUFFICES ASSUME StoreProofs!IInv, [Next]_vars PROVE StoreProofs!IInv'
  OBVIOUS
<1>1. [Store!Next]_(Store!vars)
  BY StepImplementsStore
<1>2. ASSUME NEW label \in Labels, NEW ev \in Events, Store!LookUp(label, ev)
      PROVE  StoreProofs!Next
  BY <1>2 DEF Store!LookUp, StoreProofs!LookUp, StoreProofs!Next, Store!MakeKey,
              StoreProofs!MakeKey, Store!Normalize, StoreProofs!Normalize,
              Store!NUM, StoreProofs!NUM, Store!Join, StoreProofs!Join,
              Store!BAR, StoreProofs!BAR
<1>3. ASSUME NEW label \in Labels, Store!Learn(label)
      PROVE  StoreProofs!Next
  BY <1>3 DEF Store!Learn, StoreProofs!Learn, StoreProofs!Next, Store!MakeKey,
              StoreProofs!MakeKey, Store!Normalize, StoreProofs!Normalize,
              Store!NUM, StoreProofs!NUM, Store!Join, StoreProofs!Join,
              Store!BAR, StoreProofs!BAR
<1>4. ASSUME NEW ev \in Events, Store!Skip(ev)
      PROVE  StoreProofs!Next
  BY <1>4 DEF Store!Skip, StoreProofs!Skip, StoreProofs!Next, Store!MakeKey,
              StoreProofs!MakeKey, Store!Normalize, StoreProofs!Normalize,
              Store!NUM, StoreProofs!NUM, Store!Join, StoreProofs!Join,
              Store!BAR, StoreProofs!BAR
<1>5. ASSUME Store!SaveOpen PROVE StoreProofs!Next
  BY <1>5 DEF StoreProofs!Next, Store!SaveOpen, StoreProofs!SaveOpen, Store!NoFile,
              StoreProofs!NoFile
<1>6. ASSUME Store!SaveWrite PROVE StoreProofs!Next
  BY <1>6 DEF StoreProofs!Next, Store!SaveWrite, StoreProofs!SaveWrite, Store!Written,
              StoreProofs!Written, Store!Encode, StoreProofs!Encode
<1>7. ASSUME Store!SaveFails PROVE StoreProofs!Next
  BY <1>7 DEF StoreProofs!Next, Store!SaveFails, StoreProofs!SaveFails
<1>8. ASSUME Store!Exit PROVE StoreProofs!Next
  BY <1>8 DEF StoreProofs!Next, Store!Exit, StoreProofs!Exit
<1>9. ASSUME NEW m \in Store!Modes, Store!NewStore(m)
      PROVE  StoreProofs!Next
  BY <1>9 DEF Store!NewStore, StoreProofs!NewStore, StoreProofs!Next,
              Store!Loaded, StoreProofs!Loaded, Store!Modes, StoreProofs!Modes
<1>10. ASSUME UNCHANGED Store!vars PROVE UNCHANGED StoreProofs!vars
  BY <1>10 DEF Store!vars, StoreProofs!vars
<1>11. [StoreProofs!Next]_(StoreProofs!vars)
  BY <1>1, <1>2, <1>3, <1>4, <1>5, <1>6, <1>7, <1>8, <1>9, <1>10
  DEF Store!Next
<1> QED
  BY <1>11, StoreProofs!NextIInv, StoreAssumption
  DEF Store!ConstantsOK, StoreProofs!ConstantsOK, Store!NUM, StoreProofs!NUM,
      Store!BAR, StoreProofs!BAR,
      Store!FaultKinds, StoreProofs!FaultKinds

(* Whatever ends the agent and whenever it does, a running one knows what    *)
(* the last successful Save of any earlier life wrote, unless a Save was cut *)
(* short or failed, or a load failed.                                        *)
THEOREM SavedIsKept == Spec => []SavedSurvives
<1>1. Spec => []StoreProofs!IInv
  BY StoreInitIInv, StoreNextIInv, PTL DEF Spec
<1>2. StoreProofs!IInv => SavedSurvives
  BY DEF StoreProofs!IInv, StoreProofs!SavedSurvives, SavedSurvives,
         Store!SavedSurvives, StoreProofs!SavedStaysKnown, Store!SavedStaysKnown,
         StoreProofs!StillKnown, Store!StillKnown, StoreProofs!Encode,
         Store!Encode
<1> QED
  BY <1>1, <1>2, PTL

(* The goroutines, the channel and the store are well typed throughout. *)
THEOREM TypeCorrect == Spec => []TypeOK
<1>1. Spec => []StoreProofs!IInv
  BY StoreInitIInv, StoreNextIInv, PTL DEF Spec
<1>2. ASSUME IInv, StoreProofs!IInv PROVE TypeOK
  <2>1. StoreProofs!TypeOK
    BY <1>2 DEF StoreProofs!IInv
  <2>2. Store!TypeOK
    BY <2>1
    DEF StoreProofs!TypeOK, Store!TypeOK, StoreProofs!AllKeys, Store!AllKeys,
        StoreProofs!Keys, Store!Keys, StoreProofs!MakeKey, Store!MakeKey,
        StoreProofs!Normalize, Store!Normalize, StoreProofs!NUM, Store!NUM,
        StoreProofs!Join, Store!Join, StoreProofs!BAR, Store!BAR,
        StoreProofs!Encode, Store!Encode, StoreProofs!Modes, Store!Modes
  <2>3. RunTypes
    BY <1>2 DEF IInv
  <2>4. /\ receivers \subseteq {Saver} \cup Labels /\ readers \subseteq Labels
        /\ Len(Probes) = 3
    BY <2>3, ReceiversFinite, ProbeFacts
  <2> QED
    BY <2>2, <2>3, <2>4 DEF TypeOK, RunTypes
<1> QED
  BY <1>1, <1>2, Invariance, PTL
=============================================================================
