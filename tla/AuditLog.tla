------------------------------ MODULE AuditLog -------------------------------
(***************************************************************************)
(* The hash-chained audit log, internal/audit/audit.go.                     *)
(*                                                                         *)
(* The file is a sequence of lines.  Log runs under l.mu, so a call is one  *)
(* step; what the operating system may do to its open and write, and to the *)
(* process and the machine between calls, are actions of their own, each    *)
(* allowed by a member of Faults.  The fields an entry takes from its       *)
(* caller are one abstract body.                                            *)
(***************************************************************************)
EXTENDS Integers, Sequences

CONSTANTS
    Bodies,     \* contents of an entry: all fields but PrevHash and Hash
    Encoded,    \* [Bodies -> Bodies]: json.Unmarshal after json.Marshal
    Raw,        \* [Bodies -> texts]: the fields of a body, joined with "|"
    Faults,     \* which of FaultKinds may happen
    MaxLog      \* bound on the calls of Log

(* "lost":       OpenFile fails, or Write fails before the first byte.      *)
(* "torn":       Write fails part way through the line and its newline.     *)
(* "power":      the machine goes down with file data not yet on disk.      *)
(* "unreadable": ReadFile fails at startup although the file exists.        *)
FaultKinds == {"lost", "torn", "power", "unreadable"}

ASSUME AuditAssumption ==
    /\ Encoded \in [Bodies -> Bodies]
    /\ Faults \subseteq FaultKinds
    /\ MaxLog \in Nat

VARIABLES
    file,           \* the lines of l.filePath
    unterminated,   \* the last line has no newline
    lastHash,       \* l.lastHash
    up,             \* the agent is running
    logged,         \* history: the bodies Log was called with
    clean           \* history: no fault has happened so far

vars == <<file, unterminated, lastHash, up, logged, clean>>

-----------------------------------------------------------------------------
(* The string "genesis", as a value that no hash can equal. *)
Genesis == <<"genesis">>

(* SHA-256, collision-free, over the fields joined with "|".  Two bodies may  *)
(* have the same text, for a "|" may stand between two fields or inside one.  *)
(* PrevHash comes last and holds no "|", so that the text determines it.      *)
ComputeHash(body, prev) == <<Raw[body], prev>>

(* A line that json.Unmarshal rejects. *)
Garbage == [kind |-> "garbage"]

IsEntry(line) == line.kind = "entry"

(* Mutant: two fields of the entry change places. *)
LineSwapped(body) ==
    [kind |-> "entry", body |-> lastHash, prev |-> Encoded[body],
     hash |-> ComputeHash(body, lastHash)]

(* The line of a new entry.  The hash is taken before the fields are        *)
(* encoded, and json.Marshal replaces invalid UTF-8 in a string.            *)
Line(body) ==
    [kind |-> "entry", body |-> Encoded[body], prev |-> lastHash,
     hash |-> ComputeHash(body, lastHash)]

(* Mutants: O_TRUNC for O_APPEND; an unterminated line is overwritten. *)
WrittenTruncating(line) == <<line>>

WrittenRepairing(line) ==
    IF unterminated THEN [file EXCEPT ![Len(file)] = line]
                    ELSE Append(file, line)

(* The file after O_APPEND wrote line: an unterminated last line swallows   *)
(* it, and the two together are not JSON.                                   *)
Written(line) ==
    IF unterminated THEN [file EXCEPT ![Len(file)] = Garbage]
                    ELSE Append(file, line)

(* Mutant: every start is a new genesis. *)
LoadLastHashNever(f) == Genesis

(* loadLastHash: the hash of the last line, if it parses. *)
LoadLastHash(f) ==
    IF f # <<>> /\ IsEntry(f[Len(f)]) THEN f[Len(f)].hash ELSE Genesis

-----------------------------------------------------------------------------
(* Log up to the call of OpenFile: lastHash advances before the write. *)
Advance(body) ==
    /\ up
    /\ Len(logged) < MaxLog
    /\ lastHash' = ComputeHash(body, lastHash)
    /\ logged' = Append(logged, body)
    /\ UNCHANGED up

Log(body) ==
    /\ Advance(body)
    /\ file' = Written(Line(body))
    /\ unterminated' = FALSE
    /\ UNCHANGED clean

LogLost(body) ==
    /\ "lost" \in Faults
    /\ Advance(body)
    /\ clean' = FALSE
    /\ UNCHANGED <<file, unterminated>>

(* Part of the line, or all of it but the newline, reaches the file. *)
LogTorn(body) ==
    /\ "torn" \in Faults
    /\ Advance(body)
    /\ \E line \in {Garbage, Line(body)} : file' = Written(line)
    /\ unterminated' = TRUE
    /\ clean' = FALSE

(* The process ends between two calls; what was written stays. *)
Crash ==
    /\ up
    /\ up' = FALSE
    /\ UNCHANGED <<file, unterminated, lastHash, logged, clean>>

(* Nothing is ever fsynced: the file loses a tail, at a line or inside one. *)
PowerLoss ==
    /\ "power" \in Faults
    /\ up
    /\ up' = FALSE
    /\ clean' = FALSE
    /\ \/ \E n \in 0..(Len(file) - 1) :
              file' = SubSeq(file, 1, n) /\ unterminated' = FALSE
       \/ \E n \in 1..Len(file) : \E line \in {Garbage, file[n]} :
              /\ file' = Append(SubSeq(file, 1, n - 1), line)
              /\ unterminated' = TRUE
    /\ UNCHANGED <<lastHash, logged>>

(* NewLogger at startup. *)
NewLogger ==
    /\ ~up
    /\ up' = TRUE
    /\ \/ /\ lastHash' = LoadLastHash(file)
          /\ UNCHANGED clean
       \/ /\ "unreadable" \in Faults
          /\ file # <<>>
          /\ lastHash' = Genesis
          /\ clean' = FALSE
    /\ UNCHANGED <<file, unterminated, logged>>

Init ==
    /\ file = <<>>
    /\ unterminated = FALSE
    /\ lastHash = Genesis
    /\ up = FALSE
    /\ logged = <<>>
    /\ clean = TRUE

Next ==
    \/ \E body \in Bodies : Log(body) \/ LogLost(body) \/ LogTorn(body)
    \/ Crash
    \/ PowerLoss
    \/ NewLogger

Spec == Init /\ [][Next]_vars

-----------------------------------------------------------------------------
(* VerifyChain. *)

(* The tests it makes of line i. *)
LineVerifies(f, i) ==
    /\ IsEntry(f[i])
    /\ f[i].prev = IF i = 1 THEN Genesis ELSE f[i - 1].hash
    /\ f[i].hash = ComputeHash(f[i].body, f[i].prev)

(* Its first result. *)
VerifyChain(f) == \A i \in 1..Len(f) : LineVerifies(f, i)

(* Its second: how many lines it accepts before it stops. *)
VerifiedCount(f) ==
    CHOOSE n \in 0..Len(f) :
        /\ \A i \in 1..n : LineVerifies(f, i)
        /\ n < Len(f) => ~LineVerifies(f, n + 1)

-----------------------------------------------------------------------------
IsLine(line) ==
    \/ IsEntry(line) /\ line.body \in Bodies
    \/ line = Garbage

(* Type invariant. *)
TypeOK ==
    /\ unterminated \in BOOLEAN
    /\ up \in BOOLEAN
    /\ clean \in BOOLEAN
    /\ logged \in Seq(Bodies)
    /\ \A i \in 1..Len(file) : IsLine(file[i])
    /\ unterminated => file # <<>>

(* A body that survives json.Marshal, as all but invalid UTF-8 does. *)
Stable(body) == Encoded[body] = body

(* However often the agent is stopped and started, while the system calls    *)
(* of Log succeed and the strings are valid UTF-8 the file verifies and      *)
(* holds exactly the calls of Log, in their order.                           *)
ChainIntact ==
    clean /\ (\A i \in 1..Len(logged) : Stable(logged[i])) =>
        /\ VerifyChain(file)
        /\ Len(file) = Len(logged)
        /\ \A i \in 1..Len(file) : file[i].body = logged[i]

(* The part of the file that ends with a newline. *)
Settled == IF unterminated THEN SubSeq(file, 1, Len(file) - 1) ELSE file

(* Whatever goes wrong later, a failed write or a restart, a record that     *)
(* VerifyChain counted and whose newline is on disk is still counted.  (A    *)
(* record without its newline is destroyed by the next call of Log.)         *)
VerifiedStaysVerified ==
    [][up' => VerifiedCount(Settled') >= VerifiedCount(Settled)]_vars

(* No later call of Log and no restart makes a chain that VerifyChain        *)
(* rejects look whole again.                                                 *)
DamageStaysVisible ==
    [][up' /\ VerifyChain(file') => VerifyChain(file)]_vars

-----------------------------------------------------------------------------
(* What the source says of itself, and the code does not keep.               *)

(* Log's comment, audit.go:73: a new entry is "linked with the previous hash *)
(* in the chain".  A write that failed before it breaks the link.            *)
LinkedToPrevious ==
    \A i \in 2..Len(file) :
        IsEntry(file[i]) /\ IsEntry(file[i - 1]) => file[i].prev = file[i - 1].hash
=============================================================================
