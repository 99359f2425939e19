------------------------------ MODULE Baseline -------------------------------
(***************************************************************************)
(* The baseline store, internal/baseline/baseline.go, with its callers in   *)
(* handleEvent and the saver of cmd/watchbpf-agent/main.go.                 *)
(*                                                                         *)
(* A text is a sequence of tokens cut at word boundaries, as the pattern    *)
(* \b\d+\b sees it, and before and behind every "|", which is what makeKey  *)
(* joins its fields with.  Names and details may hold a "|" themselves, so  *)
(* that different fields may give the same key.                             *)
(*                                                                         *)
(* IsKnown and Learn are a lookup and an insertion under s.mu.  Save keeps  *)
(* a read lock until the file is written, and os.WriteFile truncates the    *)
(* file before it writes: two steps, with a file nobody can load between.   *)
(***************************************************************************)
EXTENDS Integers, Sequences

CONSTANTS
    Events,         \* [type, comm, detail], the last two sequences of Tokens
    Labels,         \* event types; each has a reader of its own
    Tokens,
    Numbers,        \* the Tokens \d+ matches
    Encoded,        \* [Tokens -> Tokens]: what JSON makes of invalid UTF-8
    Faults          \* subset of FaultKinds

NUM == "<NUM>"
BAR == "|"

(* full: os.WriteFile fails, before or after the truncation.                 *)
(* unreadable: os.ReadFile fails in load.                                    *)
FaultKinds == {"full", "unreadable"}

Modes == {"learn", "filter"}

ConstantsOK ==
    /\ Events \subseteq [type : Labels, comm : Seq(Tokens), detail : Seq(Tokens)]
    /\ Labels \subseteq Tokens /\ {NUM, BAR} \subseteq Tokens /\ Numbers \subseteq Tokens
    /\ BAR \notin Numbers
    /\ Encoded \in [Tokens -> Tokens]
    /\ \A t \in Tokens :
           /\ Encoded[Encoded[t]] = Encoded[t]
           /\ t \in Labels \cup Numbers \cup {NUM, BAR} => Encoded[t] = t
           /\ Encoded[t] \in Numbers => t \in Numbers
           /\ Encoded[t] = BAR => t = BAR
    /\ Faults \subseteq FaultKinds

ASSUME BaselineAssumption == ConstantsOK

VARIABLES
    known,      \* s.known
    file,       \* the file: whole or torn, and its keys
    saving,     \* Save is between the truncation and the end of the write
    looked,     \* per reader: an event IsKnown denied, not yet learned
    mode,       \* -mode
    up,         \* the agent runs
    learned,    \* history: the events Learn was called with, in all lives
    skipped,    \* history: the events filter mode found in the baseline
    saved,      \* history: known as of the last Save that succeeded
    clean       \* history: no Save was cut short or failed, and no load did

vars == <<known, file, saving, looked, mode, up, learned, skipped, saved, clean>>

-----------------------------------------------------------------------------
Normalize(text) ==
    [i \in DOMAIN text |-> IF text[i] \in Numbers THEN NUM ELSE text[i]]

(* Mutant: the name of the process is not part of the key. *)
MakeKeyAnyComm(ev) == <<ev.type, BAR>> \o Normalize(ev.detail)

Join(type, comm, path) == <<type, BAR>> \o comm \o <<BAR>> \o path

MakeKey(ev) == Join(ev.type, ev.comm, Normalize(ev.detail))

(* A key after json.Marshal and json.Unmarshal. *)
Encode(key) == [i \in DOMAIN key |-> Encoded[key[i]]]

NoFile == [whole |-> FALSE, keys |-> {}]

Written(keys) == [whole |-> TRUE, keys |-> {Encode(k) : k \in keys}]

(* Mutant: the store starts empty in learn mode. *)
LoadedAnew(m) == IF m = "learn" THEN {} ELSE file.keys

(* load, run by NewStore: a file that is missing or does not parse is the    *)
(* same as an empty one.                                                     *)
Loaded(m) == IF file.whole THEN file.keys ELSE {}

-----------------------------------------------------------------------------
(* handleEvent in learn mode: IsKnown is false ... *)
LookUp(label, ev) ==
    /\ up /\ mode = "learn"
    /\ ev.type = label /\ looked[label] = {}
    /\ MakeKey(ev) \notin known
    /\ looked' = [looked EXCEPT ![label] = {ev}]
    /\ UNCHANGED <<known, file, saving, mode, up, learned, skipped, saved, clean>>

(* Mutant: what is learned is not normalised. *)
LearnRaw(label) ==
    /\ up /\ ~saving
    /\ looked[label] # {}
    /\ known' = known \cup {Join(ev.type, ev.comm, ev.detail) : ev \in looked[label]}
    /\ learned' = learned \cup looked[label]
    /\ looked' = [looked EXCEPT ![label] = {}]
    /\ UNCHANGED <<file, saving, mode, up, skipped, saved, clean>>

(* ... and Learn follows, once Save has let go of its read lock. *)
Learn(label) ==
    /\ up /\ ~saving
    /\ looked[label] # {}
    /\ known' = known \cup {MakeKey(ev) : ev \in looked[label]}
    /\ learned' = learned \cup looked[label]
    /\ looked' = [looked EXCEPT ![label] = {}]
    /\ UNCHANGED <<file, saving, mode, up, skipped, saved, clean>>

(* handleEvent in filter mode: IsKnown is true and the event goes no further. *)
Skip(ev) ==
    /\ up /\ mode = "filter"
    /\ MakeKey(ev) \in known
    /\ skipped' = skipped \cup {ev}
    /\ UNCHANGED <<known, file, saving, looked, mode, up, learned, saved, clean>>

(* Save up to the truncation in os.WriteFile. *)
SaveOpen ==
    /\ up /\ ~saving
    /\ saving' = TRUE
    /\ file' = NoFile
    /\ UNCHANGED <<known, looked, mode, up, learned, skipped, saved, clean>>

(* Mutant: what an earlier Save wrote is written again. *)
SaveWriteStale ==
    /\ up /\ saving
    /\ saving' = FALSE
    /\ file' = Written(saved)
    /\ saved' = known
    /\ UNCHANGED <<known, looked, mode, up, learned, skipped, clean>>

(* The rest of it. *)
SaveWrite ==
    /\ up /\ saving
    /\ saving' = FALSE
    /\ file' = Written(known)
    /\ saved' = known
    /\ UNCHANGED <<known, looked, mode, up, learned, skipped, clean>>

(* It fails at the truncation or after it; the callers ignore the error. *)
SaveFails ==
    /\ up /\ "full" \in Faults
    /\ saving' = FALSE
    /\ clean' = FALSE
    /\ UNCHANGED <<known, file, looked, mode, up, learned, skipped, saved>>

(* The process ends, whatever its goroutines are doing. *)
Exit ==
    /\ up
    /\ up' = FALSE
    /\ known' = {}
    /\ looked' = [label \in Labels |-> {}]
    /\ saving' = FALSE
    /\ clean' = (clean /\ ~saving)
    /\ UNCHANGED <<file, mode, learned, skipped, saved>>

(* main up to NewStore. *)
NewStore(m) ==
    /\ ~up
    /\ up' = TRUE
    /\ mode' = m
    /\ \/ known' = Loaded(m) /\ UNCHANGED clean
       \/ "unreadable" \in Faults /\ known' = {} /\ clean' = FALSE
    /\ UNCHANGED <<file, saving, looked, learned, skipped, saved>>

Init ==
    /\ known = {}
    /\ file = NoFile
    /\ saving = FALSE
    /\ looked = [label \in Labels |-> {}]
    /\ mode = "learn"
    /\ up = FALSE
    /\ learned = {} /\ skipped = {} /\ saved = {}
    /\ clean = TRUE

Next ==
    \/ \E label \in Labels : Learn(label) \/ \E ev \in Events : LookUp(label, ev)
    \/ \E ev \in Events : Skip(ev)
    \/ SaveOpen \/ SaveWrite \/ SaveFails
    \/ Exit
    \/ \E m \in Modes : NewStore(m)

Spec == Init /\ [][Next]_vars

-----------------------------------------------------------------------------
(* Type invariant. *)
Keys == {MakeKey(ev) : ev \in Events}
AllKeys == Keys \cup {Encode(k) : k \in Keys}

TypeOK ==
    /\ known \subseteq AllKeys /\ saved \subseteq AllKeys
    /\ file \in [whole : BOOLEAN, keys : SUBSET AllKeys]
    /\ looked \in [Labels -> SUBSET Events]
    /\ mode \in Modes
    /\ {up, saving, clean} \subseteq BOOLEAN
    /\ learned \subseteq Events /\ skipped \subseteq Events

(* Two texts that differ in numbers at most. *)
SameButNumbers(s, t) ==
    /\ Len(s) = Len(t)
    /\ \A i \in 1..Len(s) :
           s[i] = t[i] \/ {s[i], t[i]} \subseteq Numbers \cup {NUM}

(* A text as it is, or as the file keeps it. *)
Forms(text) == {text, Encode(text)}

Joined(ev) == Join(ev.type, ev.comm, ev.detail)

Unbarred(text) == \A i \in 1..Len(text) : text[i] # BAR

(* l stands for ev: both have the same type and, but for numbers, the same   *)
(* text; and if neither name holds a "|", they have the same name and, but   *)
(* for numbers, the same detail.                                             *)
Alike(l, ev) ==
    /\ l.type = ev.type
    /\ \E text \in Forms(Joined(l)) : SameButNumbers(text, Joined(ev))
    /\ Unbarred(l.comm) /\ Unbarred(ev.comm) =>
           /\ ev.comm \in Forms(l.comm)
           /\ \E text \in Forms(l.detail) : SameButNumbers(text, ev.detail)

(* Filter mode lets an event pass unseen only if one like it was learned, in *)
(* this life of the agent or an earlier one.  Neither the file, nor its      *)
(* encoding, nor a failed Save or load makes anything else known, and the    *)
(* "|" of makeKey confuses names with details only where a name holds one.   *)
SkippedWasLearned ==
    \A ev \in skipped : \E l \in learned : Alike(l, ev)

StillKnown(key) == key \in known \/ Encode(key) \in known

(* baseline.go:18 calls the store "disk-persisted", and README.md:88 has it  *)
(* "persist across container restarts": while the agent runs it knows at     *)
(* least what the last Save wrote.                                           *)
SavedStaysKnown == up => \A key \in saved : StillKnown(key)

(* It does unless a Save was cut short or failed, or a load failed.          *)
SavedSurvives == clean => SavedStaysKnown
=============================================================================
