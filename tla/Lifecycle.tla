------------------------------ MODULE Lifecycle ------------------------------
(***************************************************************************)
(* The life of the agent, main of cmd/watchbpf-agent/main.go: the start,    *)
(* the saver, one reader and one closer per probe, Ctrl+C and the end.      *)
(*                                                                         *)
(*   main      NewStore, signal.Notify, the probes one by one, wg.Wait      *)
(*   saver     on every tick Save; on a value from stopper Save and return  *)
(*   closer    on a value from stopper rd.Close (one goroutine per probe)   *)
(*   reader    handleEvent until its ring buffer is closed                  *)
(*                                                                         *)
(* A channel hands each value to one receiver, and which of the goroutines  *)
(* that wait gets it is up to the scheduler.  The store is module Baseline. *)
(***************************************************************************)
EXTENDS Integers, Sequences, FiniteSets

CONSTANTS
    MaxLives,       \* bound on the starts of the agent
    Endings,        \* ways to end besides Ctrl+C: subset of {"fatal", "killed"}
    MaxSignals,     \* bound on the interrupts accepted per life
    \* of the baseline
    Events, Tokens, Numbers, Encoded, Faults

Probes == <<"EXEC", "OPEN", "CONNECT">>
Labels == {Probes[i] : i \in DOMAIN Probes}

Saver == "saver"

ASSUME LifecycleAssumption ==
    MaxLives \in Nat /\ MaxSignals \in Nat /\ Endings \subseteq {"fatal", "killed"}

VARIABLES
    \* the baseline
    known, file, saving, looked, mode, up, learned, skipped, saved, clean,
    main,       \* "before" signal.Notify, "loading" the probes, or "waiting"
    stopper,    \* values in the channel, which has room for one
    receivers,  \* the goroutines that are to receive from stopper
    lastSave,   \* the saver has received and not yet returned
    started,    \* how many probes are attached
    readers,    \* the reader goroutines that have not returned
    accepted,   \* history: those of this life that got into the channel
    lives

storeVars == <<known, file, saving, looked, mode, up, learned, skipped, saved, clean>>
runVars == <<main, stopper, receivers, lastSave, started, readers, accepted>>
vars == <<storeVars, runVars, lives>>

Store == INSTANCE Baseline

ASSUME StoreAssumption == Store!ConstantsOK

-----------------------------------------------------------------------------
(* The start.                                                               *)

NoGoroutines ==
    /\ stopper' = 0 /\ receivers' = {} /\ lastSave' = FALSE
    /\ started' = 0 /\ readers' = {}
    /\ accepted' = 0

(* main up to NewStore.  An interrupt ends the process as long as nobody     *)
(* asked for it.                                                             *)
Start(m) ==
    /\ lives < MaxLives
    /\ Store!NewStore(m)
    /\ main' = "before"
    /\ NoGoroutines
    /\ lives' = lives + 1

(* signal.Notify and `go` the saver. *)
Notify ==
    /\ up /\ main = "before"
    /\ main' = "loading"
    /\ receivers' = {Saver}
    /\ UNCHANGED <<storeVars, stopper, lastSave, started, readers, accepted,
                   lives>>

(* One turn of the loop over the probes, which starts a closer and a reader. *)
LoadProbe ==
    LET label == Probes[started + 1] IN
    /\ up /\ main = "loading" /\ started < Len(Probes)
    /\ started' = started + 1
    /\ receivers' = receivers \cup {label}
    /\ readers' = readers \cup {label}
    /\ main' = IF started' = Len(Probes) THEN "waiting" ELSE "loading"
    /\ UNCHANGED <<storeVars, stopper, lastSave, accepted, lives>>

-----------------------------------------------------------------------------
(* The end.                                                                 *)

(* The end of the process takes every goroutine with it. *)
End ==
    /\ Store!Exit
    /\ main' = "ended"
    /\ NoGoroutines
    /\ UNCHANGED <<lives>>

(* log.Fatal before the probes, or for one of them. *)
Fatal == "fatal" \in Endings /\ main \in {"before", "loading"} /\ End

(* SIGTERM, SIGKILL or a crash. *)
Killed == "killed" \in Endings /\ End

(* wg.Wait returns when the readers have, and main with it: nobody waits for *)
(* the saver.                                                                *)
MainReturns == main = "waiting" /\ readers = {} /\ End

(* Mutant: a channel without bound. *)
InterruptQueued ==
    /\ up /\ accepted < MaxSignals
    /\ stopper' = stopper + 1
    /\ accepted' = accepted + 1
    /\ UNCHANGED <<storeVars, main, receivers, lastSave, started, readers, lives>>

(* Ctrl+C.  Notify does not wait: a value that finds stopper full is dropped. *)
Interrupt ==
    /\ up /\ accepted < MaxSignals
    /\ \/ /\ main = "before"
          /\ Store!Exit /\ main' = "ended" /\ NoGoroutines
       \/ /\ main # "before"
          /\ stopper' = 1
          /\ accepted' = accepted + (1 - stopper)
          /\ UNCHANGED <<storeVars, main, receivers, lastSave, started, readers>>
    /\ UNCHANGED lives

-----------------------------------------------------------------------------
(* The goroutines.                                                          *)

(* A closer receives, and its reader's next Read fails. *)
CloserStops(label) ==
    /\ up /\ stopper = 1 /\ label \in receivers
    /\ stopper' = 0
    /\ receivers' = receivers \ {label}
    /\ UNCHANGED <<storeVars, main, lastSave, started, readers, accepted,
                   lives>>

(* Mutant: the saver stays in its loop. *)
SaverStopsNot ==
    /\ up /\ stopper = 1 /\ Saver \in receivers /\ ~saving
    /\ stopper' = 0
    /\ UNCHANGED <<storeVars, main, receivers, lastSave, started, readers,
                   accepted, lives>>

(* The saver receives: the ticker is stopped, one more Save, return. *)
SaverStops ==
    /\ up /\ stopper = 1 /\ Saver \in receivers /\ ~saving
    /\ stopper' = 0
    /\ receivers' = receivers \ {Saver}
    /\ lastSave' = TRUE
    /\ UNCHANGED <<storeVars, main, started, readers, accepted, lives>>

(* Save begins, on a tick or as the last one. *)
SaverOpens ==
    /\ Saver \in receivers \/ lastSave
    /\ Store!SaveOpen
    /\ UNCHANGED <<runVars, lives>>

SaverWrites ==
    /\ Store!SaveWrite
    /\ lastSave' = FALSE
    /\ UNCHANGED <<main, stopper, receivers, started, readers, accepted, lives>>

SaverFails ==
    /\ Saver \in receivers \/ lastSave
    /\ Store!SaveFails
    /\ lastSave' = FALSE
    /\ UNCHANGED <<main, stopper, receivers, started, readers, accepted, lives>>

(* A reader's ring buffer is closed and it is not inside handleEvent. *)
ReaderReturns(label) ==
    /\ up /\ label \in readers \ receivers
    /\ looked[label] = {}
    /\ readers' = readers \ {label}
    /\ UNCHANGED <<storeVars, main, stopper, receivers, lastSave, started,
                   accepted, lives>>

(* handleEvent, as far as it concerns the store. *)
HandleEvent(label) ==
    /\ label \in readers
    /\ \/ \E ev \in Events : Store!LookUp(label, ev)
       \/ Store!Learn(label)
       \/ \E ev \in Events : ev.type = label /\ Store!Skip(ev)
    /\ UNCHANGED <<runVars, lives>>

Init ==
    /\ Store!Init
    /\ main = "ended"
    /\ stopper = 0 /\ receivers = {} /\ lastSave = FALSE
    /\ started = 0 /\ readers = {}
    /\ accepted = 0 /\ lives = 0

Next ==
    \/ \E m \in Store!Modes : Start(m)
    \/ Notify \/ LoadProbe
    \/ Fatal \/ Killed \/ MainReturns
    \/ Interrupt
    \/ SaverStops \/ SaverOpens \/ SaverWrites \/ SaverFails
    \/ \E label \in Labels :
           CloserStops(label) \/ ReaderReturns(label) \/ HandleEvent(label)

Spec == Init /\ [][Next]_vars

(* Every goroutine that can run does.  What waits in stopper reaches a        *)
(* goroutine that waits for it, the saver between two ticks included.  The    *)
(* ticker ticks.  Lock in Learn keeps the next Save from passing it by.       *)
(* Events, interrupts, faults and restarts owe nothing.                       *)
Fairness ==
    /\ WF_vars(Notify) /\ WF_vars(LoadProbe) /\ WF_vars(MainReturns)
    /\ SF_vars(SaverStops \/ \E label \in Labels : CloserStops(label))
    /\ WF_vars(SaverOpens) /\ WF_vars(SaverWrites)
    /\ \A label \in Labels :
           /\ WF_vars(ReaderReturns(label))
           /\ SF_vars(HandleEvent(label) /\ Store!Learn(label))

FairSpec == Spec /\ Fairness

-----------------------------------------------------------------------------
(* Type invariant. *)
TypeOK ==
    /\ Store!TypeOK
    /\ main \in {"before", "loading", "waiting", "ended"}
    /\ up <=> main # "ended"
    /\ stopper \in 0..1
    /\ receivers \subseteq {Saver} \cup Labels
    /\ lastSave \in BOOLEAN
    /\ started \in 0..Len(Probes)
    /\ readers \subseteq Labels
    /\ {accepted, lives} \subseteq Nat

(* Over all the ways to end and the saver's race with them, the store knows  *)
(* after a restart what the last successful Save wrote, unless a Save was    *)
(* cut short or failed, or a load did.                                       *)
SavedSurvives == Store!SavedSurvives

(* baseline.go:18 "disk-persisted", README.md:88 "persist across container   *)
(* restarts": it does so unconditionally.                                    *)
SavedStaysKnown == Store!SavedStaysKnown

(* What the store knows while the saver is in its loop gets into the file,   *)
(* by a tick or by the last Save, unless the process ends first or a Save    *)
(* fails.                                                                    *)
LearnedIsSaved ==
    \A key \in Store!Keys :
        (key \in known /\ Saver \in receivers)
            ~> (Store!Encode(key) \in file.keys \/ ~up \/ ~clean)

(* No interrupt is lost once it is in stopper, and none serves twice: those  *)
(* accepted are the one still in the channel and one for each goroutine that *)
(* no longer waits.  The saver and every closer need one of their own, so    *)
(* that main, which waits for all readers, never returns before the third.   *)
InterruptsAccounted ==
    /\ main \in {"loading", "waiting"} =>
           accepted = stopper + (1 + started - Cardinality(receivers))
    /\ main = "waiting" /\ readers = {} => accepted >= Cardinality(Labels)

(* Each value in stopper ends one goroutine, and there are four of them: so  *)
(* many interrupts that were not dropped end the agent, whatever the order.  *)
FourInterruptsStop == (up /\ accepted >= Cardinality(Labels) + 1) ~> ~up

(* "Press Ctrl+C to stop" (main.go:159): one interrupt ends the agent. *)
InterruptStops == (up /\ accepted > 0) ~> ~up
=============================================================================
