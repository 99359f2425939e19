--------------------------- MODULE AuditLogProofs ----------------------------
(***************************************************************************)
(* The audit chain survives every sequence of calls, crashes and restarts   *)
(* in which no system call fails, and what is damaged is seen to be, for    *)
(* every set of bodies and faults and every number of calls.  The last hash *)
(* identifies the number and the texts of the records of a file that        *)
(* verifies.                                                                *)
(***************************************************************************)
EXTENDS AuditLog, NatFacts, TLAPS

-----------------------------------------------------------------------------
(* The inductive invariant. *)

IsSequence == \E S : file \in Seq(S)

(* What the next entry has to link to. *)
ChainEnd == IF file = <<>> THEN Genesis ELSE file[Len(file)].hash

(* Line i is the entry that call i of Log wrote.  Its hash covers the body   *)
(* that Log was given, which need not be the one that is read back.          *)
LineOfCall(i) ==
    /\ IsEntry(file[i])
    /\ file[i].body = Encoded[logged[i]]
    /\ file[i].prev = IF i = 1 THEN Genesis ELSE file[i - 1].hash
    /\ file[i].hash = ComputeHash(logged[i], file[i].prev)

(* As long as nothing failed, the file is the calls of Log, one line each,   *)
(* and a running logger holds the hash of the last line.                     *)
FileIsLog ==
    clean =>
        /\ ~unterminated
        /\ Len(file) = Len(logged)
        /\ \A i \in 1..Len(file) : LineOfCall(i)
        /\ up => lastHash = ChainEnd

IInv ==
    /\ TypeOK
    /\ IsSequence
    /\ FileIsLog

-----------------------------------------------------------------------------
(* The first start finds no file. *)
LEMMA InitIInv == Init => IInv
<1> SUFFICES ASSUME Init PROVE IInv
  OBVIOUS
<1>1. file \in Seq({})
  BY DEF Init
<1>2. Len(file) = 0 /\ Len(logged) = 0 /\ logged \in Seq(Bodies)
  BY DEF Init
<1>3. TypeOK
  <2>1. \A i \in 1..Len(file) : IsLine(file[i])
    BY <1>2
  <2> QED
    BY <1>2, <2>1, Zenon DEF Init, TypeOK
<1>4. FileIsLog
  BY <1>2 DEF Init, FileIsLog
<1> QED
  BY <1>1, <1>3, <1>4 DEF IInv, IsSequence

(* What a write leaves of the file: one more line, or a spoilt last line. *)
LEMMA WriteEffect ==
    ASSUME IInv, NEW line, file' = Written(line)
    PROVE  /\ IsSequence'
           /\ ~unterminated => /\ Len(file') = Len(file) + 1
                               /\ file'[Len(file) + 1] = line
                               /\ \A i \in 1..Len(file) : file'[i] = file[i]
           /\ unterminated => /\ Len(file') = Len(file)
                              /\ Len(file) > 0
                              /\ file'[Len(file)] = Garbage
                              /\ \A i \in 1..(Len(file) - 1) : file'[i] = file[i]
<1>1. PICK S : file \in Seq(S)
  BY DEF IInv, IsSequence
<1>2. CASE unterminated
  <2>1. file # <<>>
    BY <1>2 DEF IInv, TypeOK
  <2>2. Len(file) \in Nat /\ Len(file) > 0
    BY <1>1, <2>1
  <2>3. file \in Seq(S \cup {Garbage})
    BY <1>1
  <2>4. file' = [file EXCEPT ![Len(file)] = Garbage]
    BY <1>2 DEF Written
  <2>5. file' \in Seq(S \cup {Garbage}) /\ Len(file') = Len(file)
    BY <2>2, <2>3, <2>4
  <2>6. /\ file'[Len(file)] = Garbage
        /\ \A i \in 1..(Len(file) - 1) : file'[i] = file[i]
    BY <1>1, <2>2, <2>4
  <2>7. IsSequence'
    BY <2>5 DEF IsSequence
  <2> QED
    BY <1>2, <2>2, <2>5, <2>6, <2>7
<1>3. CASE ~unterminated
  <2>1. file' = Append(file, line) /\ file \in Seq(S \cup {line})
    BY <1>1, <1>3 DEF Written
  <2>2. file' \in Seq(S \cup {line})
    BY <2>1
  <2> QED
    BY <1>1, <1>3, <2>1, <2>2 DEF IsSequence
<1> QED
  BY <1>2, <1>3 DEF IInv, TypeOK

(* A successful call extends the chain. *)
LEMMA LogKeepsIInv ==
    ASSUME IInv, NEW body \in Bodies, Log(body)
    PROVE  IInv'
<1> DEFINE line == Line(body)
           n == Len(file)
<1>1. /\ up /\ up' = up /\ clean' = clean /\ unterminated' = FALSE
      /\ file' = Written(line)
      /\ lastHash' = ComputeHash(body, lastHash)
      /\ logged' = Append(logged, body)
  BY DEF Log, Advance
<1>2. /\ IsEntry(line) /\ line.body = Encoded[body] /\ line.prev = lastHash
      /\ line.hash = ComputeHash(body, lastHash)
      /\ Encoded[body] \in Bodies
  BY AuditAssumption DEF Line, IsEntry
<1>3. /\ n \in Nat
      /\ logged \in Seq(Bodies) /\ logged' \in Seq(Bodies)
      /\ Len(logged') = Len(logged) + 1 /\ Len(logged) \in Nat
      /\ logged'[Len(logged) + 1] = body
      /\ \A i \in 1..Len(logged) : logged'[i] = logged[i]
  BY <1>1 DEF IInv, TypeOK, IsSequence
<1> HIDE DEF line
<1>4. TypeOK'
  <2>1. ASSUME NEW i \in 1..Len(file')
        PROVE  IsLine(file'[i])
    <3>1. CASE unterminated
      BY <1>1, <1>3, <3>1, WriteEffect DEF IInv, TypeOK, IsLine
    <3>2. CASE ~unterminated
      BY <1>1, <1>2, <1>3, <3>2, WriteEffect DEF IInv, TypeOK, IsLine
    <3> QED
      BY <3>1, <3>2
  <2> QED
    BY <1>1, <1>3, <2>1 DEF IInv, TypeOK
<1>5. IsSequence'
  BY <1>1, WriteEffect
<1>6. FileIsLog'
  <2> SUFFICES ASSUME clean
               PROVE  /\ Len(file') = Len(logged')
                      /\ \A i \in 1..Len(file') : LineOfCall(i)'
                      /\ lastHash' = ChainEnd'
    BY <1>1 DEF FileIsLog
  <2>1. /\ ~unterminated /\ n = Len(logged) /\ lastHash = ChainEnd
        /\ \A i \in 1..n : LineOfCall(i)
    BY <1>1 DEF IInv, FileIsLog
  <2>2. /\ Len(file') = n + 1 /\ file'[n + 1] = line
        /\ \A i \in 1..n : file'[i] = file[i]
    BY <1>1, <2>1, WriteEffect
  <2>3. ASSUME NEW i \in 1..n PROVE LineOfCall(i)'
    <3>1. LineOfCall(i) /\ file'[i] = file[i] /\ logged'[i] = logged[i]
      BY <2>1, <2>2, <1>3
    <3>2. i # 1 => file'[i - 1] = file[i - 1]
      BY <2>2, <1>3
    <3> QED
      BY <3>1, <3>2 DEF LineOfCall
  <2>4. ASSUME NEW k \in Nat, k = n + 1 PROVE LineOfCall(k)'
    <3>1. lastHash = IF n + 1 = 1 THEN Genesis ELSE file'[(n + 1) - 1].hash
      <4>1. PICK S : file \in Seq(S)
        BY DEF IInv, IsSequence
      <4>2. CASE n = 0
        BY <4>1, <4>2, <2>1 DEF ChainEnd
      <4>3. CASE n # 0
        <5>1. file # <<>> /\ (n + 1) - 1 = n /\ n + 1 # 1 /\ n \in 1..n
          BY <4>1, <4>3, <1>3
        <5> QED
          BY <5>1, <2>1, <2>2 DEF ChainEnd
      <4> QED
        BY <4>2, <4>3
    <3>2. logged'[n + 1] = body
      BY <1>3, <2>1
    <3>3. /\ IsEntry(file'[n + 1]) /\ file'[n + 1].body = Encoded[body]
          /\ file'[n + 1].prev = lastHash
          /\ file'[n + 1].hash = ComputeHash(body, lastHash)
      BY <1>2, <2>2
    <3> QED
      BY <2>4, <3>1, <3>2, <3>3 DEF LineOfCall
  <2>5. lastHash' = ChainEnd'
    <3>1. file' # <<>> /\ file'[Len(file')].hash = lastHash'
      BY <1>1, <1>2, <1>3, <2>2
    <3> QED
      BY <3>1 DEF ChainEnd
  <2>6. ASSUME NEW i \in 1..Len(file') PROVE LineOfCall(i)'
    <3>1. i \in Nat /\ (i \in 1..n \/ i = n + 1)
      BY <1>3, <2>2
    <3> QED
      BY <3>1, <2>3, <2>4
  <2> QED
    BY <1>3, <2>1, <2>2, <2>5, <2>6
<1> QED
  BY <1>4, <1>5, <1>6 DEF IInv

(* A call whose write fails, in whole or in part, keeps the file well formed. *)
LEMMA FailedLogKeepsIInv ==
    ASSUME IInv, NEW body \in Bodies, LogLost(body) \/ LogTorn(body)
    PROVE  IInv'
<1>1. clean' = FALSE /\ up' = up /\ up \in BOOLEAN /\ logged' \in Seq(Bodies)
  BY DEF LogLost, LogTorn, Advance, IInv, TypeOK
<1>2. CASE LogLost(body)
  BY <1>1, <1>2
  DEF LogLost, IInv, TypeOK, IsSequence, FileIsLog
<1>3. CASE LogTorn(body)
  <2>1. PICK line \in {Garbage, Line(body)} : file' = Written(line)
    BY <1>3 DEF LogTorn
  <2>2. IsLine(line)
    BY <2>1, AuditAssumption DEF IsLine, IsEntry, Line
  <2>3. unterminated' = TRUE
    BY <1>3 DEF LogTorn
  <2>4. Len(file) \in Nat
    BY DEF IInv, IsSequence
  <2>5. ASSUME NEW i \in 1..Len(file')
        PROVE  IsLine(file'[i])
    <3>1. CASE unterminated
      BY <2>1, <2>4, <3>1, WriteEffect DEF IInv, TypeOK, IsLine
    <3>2. CASE ~unterminated
      BY <2>1, <2>2, <2>4, <3>2, WriteEffect DEF IInv, TypeOK
    <3> QED
      BY <3>1, <3>2
  <2>6. file' # <<>>
    BY <2>1, <2>4, WriteEffect
  <2> QED
    BY <1>1, <2>1, <2>3, <2>5, <2>6, WriteEffect
    DEF IInv, TypeOK, FileIsLog
<1> QED
  BY <1>2, <1>3

(* So do the end of the process, of the machine, and the next start. *)
LEMMA NextIInv == IInv /\ [Next]_vars => IInv'
<1> SUFFICES ASSUME IInv, [Next]_vars PROVE IInv'
  OBVIOUS
<1>1. ASSUME NEW body \in Bodies, Log(body) PROVE IInv'
  BY <1>1, LogKeepsIInv
<1>2. ASSUME NEW body \in Bodies, LogLost(body) \/ LogTorn(body) PROVE IInv'
  BY <1>2, FailedLogKeepsIInv
<1>3. CASE Crash
  BY <1>3 DEF Crash, IInv, TypeOK, IsSequence, FileIsLog, LineOfCall
<1>4. CASE PowerLoss
  <2>1. clean' = FALSE /\ up' = FALSE /\ logged' = logged
    BY <1>4 DEF PowerLoss
  <2>2. PICK S : file \in Seq(S)
    BY DEF IInv, IsSequence
  <2>3. ASSUME NEW n \in 0..(Len(file) - 1),
               file' = SubSeq(file, 1, n), unterminated' = FALSE
        PROVE  IInv'
    <3>1. /\ file' \in Seq(S) /\ Len(file') = n /\ Len(file) \in Nat
          /\ \A i \in 1..n : file'[i] = file[i]
      BY <2>2, <2>3
    <3>2. \A i \in 1..Len(file') : IsLine(file'[i])
      BY <3>1 DEF IInv, TypeOK
    <3> QED
      BY <2>1, <2>3, <3>1, <3>2 DEF IInv, TypeOK, IsSequence, FileIsLog
  <2>4. ASSUME NEW n \in 1..Len(file), NEW line \in {Garbage, file[n]},
               file' = Append(SubSeq(file, 1, n - 1), line),
               unterminated' = TRUE
        PROVE  IInv'
    <3> DEFINE kept == SubSeq(file, 1, n - 1)
    <3>1. /\ kept \in Seq(S \cup {line}) /\ Len(kept) = n - 1
          /\ Len(file) \in Nat /\ \A i \in 1..(n - 1) : kept[i] = file[i]
      BY <2>2
    <3> HIDE DEF kept
    <3>2. /\ file' \in Seq(S \cup {line}) /\ Len(file') = n
          /\ \A i \in 1..n : file'[i] = IF i = n THEN line ELSE file[i]
      BY <3>1, <2>4 DEF kept
    <3>3. \A i \in 1..Len(file') : IsLine(file'[i])
      BY <2>4, <3>1, <3>2 DEF IInv, TypeOK, IsLine
    <3>4. file' # <<>>
      BY <3>1, <3>2
    <3>5. TypeOK'
      BY <2>1, <2>4, <3>3, <3>4 DEF IInv, TypeOK
    <3> QED
      BY <2>1, <3>2, <3>5 DEF IInv, IsSequence, FileIsLog
  <2> QED
    BY <1>4, <2>3, <2>4 DEF PowerLoss
<1>5. CASE NewLogger
  <2>1. /\ file' = file /\ unterminated' = unterminated /\ logged' = logged
        /\ up' = TRUE /\ clean' \in BOOLEAN /\ (clean' => clean)
        /\ clean' => lastHash' = LoadLastHash(file)
    <3>1. CASE lastHash' = LoadLastHash(file) /\ UNCHANGED clean
      BY <1>5, <3>1, Zenon DEF NewLogger, IInv, TypeOK
    <3>2. CASE lastHash' = Genesis /\ clean' = FALSE
      BY <1>5, <3>2, Zenon DEF NewLogger, IInv, TypeOK
    <3> QED
      BY <1>5, <3>1, <3>2, Zenon DEF NewLogger
  <2>2. ASSUME clean' PROVE lastHash' = ChainEnd
    <3>1. PICK S : file \in Seq(S)
      BY DEF IInv, IsSequence
    <3>2. file # <<>> => IsEntry(file[Len(file)])
      BY <3>1, <2>1, <2>2 DEF IInv, FileIsLog, LineOfCall
    <3> QED
      BY <2>1, <2>2, <3>2 DEF LoadLastHash, ChainEnd
  <2> QED
    BY <2>1, <2>2
    DEF IInv, TypeOK, IsSequence, FileIsLog, LineOfCall, ChainEnd
<1>6. CASE UNCHANGED vars
  BY <1>6
  DEF vars, IInv, TypeOK, IsSequence, FileIsLog, LineOfCall, ChainEnd
<1> QED
  BY <1>1, <1>2, <1>3, <1>4, <1>5, <1>6 DEF Next

(* The inductive invariant holds throughout. *)
LEMMA Invariance == Spec => []IInv
  BY InitIInv, NextIInv, PTL DEF Spec

-----------------------------------------------------------------------------
(* The logger and its file keep their types, whatever fails. *)
THEOREM TypeCorrect == Spec => []TypeOK
<1>1. IInv => TypeOK
  BY DEF IInv
<1> QED
  BY <1>1, Invariance, PTL

(* What the invariant says of the file in good times. *)
LEMMA IntactFile ==
    ASSUME IInv PROVE ChainIntact
<1> SUFFICES ASSUME clean, \A i \in 1..Len(logged) : Stable(logged[i])
             PROVE  /\ VerifyChain(file)
                    /\ Len(file) = Len(logged)
                    /\ \A i \in 1..Len(file) : file[i].body = logged[i]
  BY DEF ChainIntact
<1>1. Len(file) = Len(logged) /\ \A i \in 1..Len(file) : LineOfCall(i)
  BY DEF IInv, FileIsLog
<1>2. ASSUME NEW i \in 1..Len(file)
      PROVE  file[i].body = logged[i] /\ LineVerifies(file, i)
  BY <1>1 DEF LineOfCall, LineVerifies, Stable
<1> QED
  BY <1>1, <1>2 DEF VerifyChain

(* For every number of calls of Log, crashes and restarts: while no system   *)
(* call fails and the strings are valid UTF-8, VerifyChain accepts the file  *)
(* and the file holds exactly what was logged.                               *)
THEOREM ChainSurvivesRestarts == Spec => []ChainIntact
  BY IntactFile, Invariance, PTL

(* No call of Log and no restart repairs, or hides, a chain that VerifyChain *)
(* rejects.                                                                  *)
THEOREM DamageIsNeverHidden == Spec => DamageStaysVisible
<1>1. ASSUME IInv, [Next]_vars, up', VerifyChain(file')
      PROVE  VerifyChain(file)
  <2>1. Len(file) \in Nat
    BY <1>1 DEF IInv, IsSequence
  <2>2. ASSUME NEW line, file' = Written(line) PROVE VerifyChain(file)
    <3>1. ~unterminated
      <4> SUFFICES ASSUME unterminated PROVE FALSE
        OBVIOUS
      <4>1. Len(file) \in 1..Len(file') /\ ~IsEntry(file'[Len(file)])
        BY <1>1, <2>1, <2>2, WriteEffect DEF Garbage, IsEntry
      <4> QED
        BY <4>1, <1>1 DEF VerifyChain, LineVerifies
    <3>2. /\ Len(file') = Len(file) + 1
          /\ \A i \in 1..Len(file) : file'[i] = file[i]
      BY <1>1, <2>2, <3>1, WriteEffect
    <3>3. ASSUME NEW i \in 1..Len(file) PROVE LineVerifies(file, i)
      <4>1. LineVerifies(file', i)
        BY <1>1, <2>1, <3>2 DEF VerifyChain
      <4>2. file'[i] = file[i] /\ (i # 1 => file'[i - 1] = file[i - 1])
        BY <2>1, <3>2
      <4> QED
        BY <4>1, <4>2 DEF LineVerifies
    <3> QED
      BY <3>3 DEF VerifyChain
  <2>3. ASSUME file' = file PROVE VerifyChain(file)
    BY <1>1, <2>3
  <2>4. (\E line : file' = Written(line)) \/ file' = file
    BY <1>1
    DEF Next, vars, Log, LogLost, LogTorn, Crash, PowerLoss, NewLogger
  <2> QED
    BY <2>2, <2>3, <2>4
<1> QED
  BY <1>1, Invariance, PTL DEF Spec, DamageStaysVisible

-----------------------------------------------------------------------------
(* What VerifyChain counts. *)

(* VerifyChain's second result is the length of the longest verified prefix. *)
LEMMA CountOfPrefix ==
    ASSUME NEW f, Len(f) \in Nat
    PROVE  /\ VerifiedCount(f) \in 0..Len(f)
           /\ \A i \in 1..VerifiedCount(f) : LineVerifies(f, i)
           /\ VerifiedCount(f) < Len(f) =>
                  ~LineVerifies(f, VerifiedCount(f) + 1)
<1> DEFINE Stops == {m \in 0..Len(f) : m < Len(f) => ~LineVerifies(f, m + 1)}
           P(m) == /\ \A i \in 1..m : LineVerifies(f, i)
                   /\ m < Len(f) => ~LineVerifies(f, m + 1)
<1>1. Len(f) \in Stops /\ Stops \in SUBSET Nat
  OBVIOUS
<1> HIDE DEF Stops
<1>2. PICK n \in Stops : \A m \in Stops : n <= m
  BY <1>1, LeastNat, Zenon
<1>3. n \in 0..Len(f) /\ (n < Len(f) => ~LineVerifies(f, n + 1))
  BY DEF Stops
<1>4. ASSUME NEW i \in 1..n PROVE LineVerifies(f, i)
  <2>1. i - 1 \in 0..Len(f) /\ i - 1 < n /\ i - 1 < Len(f) /\ (i - 1) + 1 = i
    BY <1>3
  <2>2. i - 1 \notin Stops
    BY <2>1, <1>2, <1>1
  <2> QED
    BY <2>1, <2>2 DEF Stops
<1>5. P(n)
  BY <1>3, <1>4
<1>6. VerifiedCount(f) = CHOOSE m \in 0..Len(f) : P(m)
  BY DEF VerifiedCount
<1> HIDE DEF P
<1>7. VerifiedCount(f) \in 0..Len(f) /\ P(VerifiedCount(f))
  BY <1>3, <1>5, <1>6
<1> QED
  BY <1>7 DEF P

(* It never shrinks when lines are added. *)
LEMMA CountIsMonotone ==
    ASSUME NEW f, NEW g, Len(f) \in Nat, Len(g) \in Nat, Len(f) <= Len(g),
           \A i \in 1..Len(f) : g[i] = f[i]
    PROVE  VerifiedCount(g) >= VerifiedCount(f)
<1> DEFINE a == VerifiedCount(f)
           b == VerifiedCount(g)
<1>1. a \in 0..Len(f) /\ \A i \in 1..a : LineVerifies(f, i)
  BY CountOfPrefix
<1>2. b \in 0..Len(g) /\ (b < Len(g) => ~LineVerifies(g, b + 1))
  BY CountOfPrefix
<1> HIDE DEF a, b
<1> SUFFICES ASSUME b < a PROVE FALSE
  BY <1>1, <1>2 DEF a, b
<1>3. b + 1 \in 1..a /\ b + 1 \in 1..Len(f) /\ b < Len(g)
  BY <1>1, <1>2
<1>4. LineVerifies(f, b + 1)
  BY <1>1, <1>3
<1>5. g[b + 1] = f[b + 1] /\ (b + 1 # 1 => g[(b + 1) - 1] = f[(b + 1) - 1])
  BY <1>1, <1>2, <1>3
<1>6. LineVerifies(g, b + 1)
  BY <1>4, <1>5 DEF LineVerifies
<1> QED
  BY <1>2, <1>3, <1>6

(* All but the last line of a file. *)
LEMMA FrontProperties ==
    ASSUME NEW S, NEW f \in Seq(S), Len(f) > 0
    PROVE  /\ Len(f) - 1 \in Nat
           /\ Len(SubSeq(f, 1, Len(f) - 1)) = Len(f) - 1
           /\ \A i \in 1..(Len(f) - 1) : SubSeq(f, 1, Len(f) - 1)[i] = f[i]
<1>1. Len(f) \in Nat
  OBVIOUS
<1>2. PICK k : k = Len(f) - 1
  OBVIOUS
<1>3. k \in Nat /\ k <= Len(f)
  BY <1>1, <1>2
<1>4. Len(SubSeq(f, 1, k)) = k /\ \A i \in 1..k : SubSeq(f, 1, k)[i] = f[i]
  BY <1>3
<1> QED
  BY <1>2, <1>3, <1>4

(* Whatever fails later, short of the machine itself, a record that          *)
(* VerifyChain counted and whose newline was written stays counted.          *)
THEOREM VerifiedIsForever == Spec => VerifiedStaysVerified
<1>1. ASSUME IInv, IInv', [Next]_vars, up'
      PROVE  VerifiedCount(Settled') >= VerifiedCount(Settled)
  <2>1. PICK S : file \in Seq(S)
    BY <1>1 DEF IInv, IsSequence
  <2>2. PICK T : file' \in Seq(T)
    BY <1>1 DEF IInv, IsSequence
  <2> DEFINE n == IF unterminated THEN Len(file) - 1 ELSE Len(file)
             m == IF unterminated' THEN Len(file') - 1 ELSE Len(file')
  <2>3. /\ unterminated => Len(file) > 0
        /\ unterminated' => Len(file') > 0
    BY <1>1, <2>1, <2>2 DEF IInv, TypeOK
  <2>4. /\ n \in Nat /\ Len(Settled) = n
        /\ \A i \in 1..n : Settled[i] = file[i]
    <3>1. CASE unterminated
      BY <3>1, <2>1, <2>3, FrontProperties DEF Settled
    <3>2. CASE ~unterminated
      BY <3>2, <2>1 DEF Settled
    <3> QED
      BY <3>1, <3>2
  <2>5. /\ m \in Nat /\ Len(Settled') = m
        /\ \A i \in 1..m : Settled'[i] = file'[i]
    <3>1. CASE unterminated'
      BY <3>1, <2>2, <2>3, FrontProperties DEF Settled
    <3>2. CASE ~unterminated'
      BY <3>2, <2>2 DEF Settled
    <3> QED
      BY <3>1, <3>2
  <2>6. n <= m /\ \A i \in 1..n : file'[i] = file[i]
    <3>1. ASSUME NEW line, file' = Written(line) PROVE <2>6!1 /\ <2>6!2
      <4>1. CASE unterminated
        BY <3>1, <4>1, <2>1, <1>1, WriteEffect
      <4>2. CASE ~unterminated
        BY <3>1, <4>2, <2>1, <1>1, WriteEffect
      <4> QED
        BY <4>1, <4>2
    <3>2. ASSUME file' = file, unterminated' = unterminated
          PROVE  <2>6!1 /\ <2>6!2
      BY <3>2, <2>4
    <3>3. \/ \E line : file' = Written(line)
          \/ file' = file /\ unterminated' = unterminated
      BY <1>1
      DEF Next, vars, Log, LogLost, LogTorn, Crash, PowerLoss, NewLogger
    <3> QED
      BY <3>1, <3>2, <3>3
  <2> HIDE DEF n, m
  <2> QED
    BY <2>4, <2>5, <2>6, CountIsMonotone
<1> QED
  BY <1>1, Invariance, PTL DEF Spec, VerifiedStaysVerified

-----------------------------------------------------------------------------
(* What the hash of the last line says about the lines before it.            *)

(* The hash that line k + 1 has to link to. *)
HashAt(f, k) == IF k = 0 THEN Genesis ELSE f[k].hash

(* A hash is that of one text and one previous hash, and no hash is Genesis. *)
LEMMA HashesAreDistinct ==
    ASSUME NEW b, NEW p, NEW c, NEW q
    PROVE  /\ ComputeHash(b, p) = ComputeHash(c, q) => Raw[b] = Raw[c] /\ p = q
           /\ ComputeHash(b, p) # Genesis
<1>1. ComputeHash(b, p) = ComputeHash(c, q) => Raw[b] = Raw[c] /\ p = q
  BY DEF ComputeHash
<1>2. Len(<<Raw[b], p>>) = 2 /\ Len(<<"genesis">>) = 1
  OBVIOUS
<1>3. ComputeHash(b, p) # Genesis
  BY <1>2 DEF ComputeHash, Genesis
<1> QED
  BY <1>1, <1>3

LEMMA AcceptedLine ==
    ASSUME NEW f, Len(f) \in Nat, VerifyChain(f), NEW k \in 1..Len(f)
    PROVE  HashAt(f, k) = ComputeHash(f[k].body, HashAt(f, k - 1))
<1>1. LineVerifies(f, k)
  BY DEF VerifyChain
<1>2. /\ f[k].prev = IF k = 1 THEN Genesis ELSE f[k - 1].hash
      /\ f[k].hash = ComputeHash(f[k].body, f[k].prev)
  BY <1>1 DEF LineVerifies
<1>3. k # 0 /\ (k - 1 = 0 <=> k = 1)
  OBVIOUS
<1> QED
  BY <1>2, <1>3 DEF HashAt

(* Two files that VerifyChain accepts and that end in the same hash hold     *)
(* equally many records, and those at the same place have the same text for  *)
(* computeHash: no record can be dropped, added or moved, nor changed in any *)
(* way but by moving contents between neighbouring fields across a "|",      *)
(* without changing the hash of the last line.                               *)
THEOREM LastHashFixesTheLog ==
    ASSUME NEW S, NEW T, NEW f \in Seq(S), NEW g \in Seq(T),
           VerifyChain(f), VerifyChain(g), LoadLastHash(f) = LoadLastHash(g)
    PROVE  /\ Len(f) = Len(g)
           /\ \A i \in 1..Len(f) : Raw[f[i].body] = Raw[g[i].body]
<1>1. PICK n \in Nat : n = Len(f)
  OBVIOUS
<1>2. PICK m \in Nat : m = Len(g)
  OBVIOUS
<1>3. \A k \in 1..n : HashAt(f, k) = ComputeHash(f[k].body, HashAt(f, k - 1))
  BY <1>1, AcceptedLine
<1>4. \A k \in 1..m : HashAt(g, k) = ComputeHash(g[k].body, HashAt(g, k - 1))
  BY <1>2, AcceptedLine
<1>5. HashAt(f, n) = LoadLastHash(f)
  <2>1. CASE f = <<>>
    <3>1. n = 0
      BY <1>1, <2>1
    <3> QED
      BY <2>1, <3>1 DEF HashAt, LoadLastHash
  <2>2. CASE f # <<>>
    <3>1. n # 0 /\ n \in 1..Len(f)
      BY <1>1, <2>2
    <3>2. IsEntry(f[n])
      BY <3>1 DEF VerifyChain, LineVerifies
    <3> QED
      BY <1>1, <2>2, <3>1, <3>2 DEF HashAt, LoadLastHash
  <2> QED
    BY <2>1, <2>2
<1>6. HashAt(g, m) = LoadLastHash(g)
  <2>1. CASE g = <<>>
    <3>1. m = 0
      BY <1>2, <2>1
    <3> QED
      BY <2>1, <3>1 DEF HashAt, LoadLastHash
  <2>2. CASE g # <<>>
    <3>1. m # 0 /\ m \in 1..Len(g)
      BY <1>2, <2>2
    <3>2. IsEntry(g[m])
      BY <3>1 DEF VerifyChain, LineVerifies
    <3> QED
      BY <1>2, <2>2, <3>1, <3>2 DEF HashAt, LoadLastHash
  <2> QED
    BY <2>1, <2>2
<1> DEFINE Same(d) == HashAt(f, n - d) = HashAt(g, m - d)
           T0 == {d \in Nat : d <= n /\ d <= m /\ ~Same(d)}
<1>7. \A d \in Nat : d <= n /\ d <= m => Same(d)
  <2> SUFFICES ASSUME T0 # {} PROVE FALSE
    OBVIOUS
  <2>1. PICK d \in T0 : \A y \in T0 : d <= y
    <3>1. T0 \in SUBSET Nat
      OBVIOUS
    <3> HIDE DEF T0
    <3> QED
      BY <3>1, LeastNat
  <2>2. d \in Nat /\ d <= n /\ d <= m /\ ~Same(d)
    BY <2>1
  <2>3. Same(0)
    <3>1. n - 0 = n /\ m - 0 = m
      OBVIOUS
    <3> QED
      BY <1>5, <1>6, <3>1
  <2>4. d # 0
    BY <2>2, <2>3
  <2>5. /\ d - 1 \in Nat /\ d - 1 <= n /\ d - 1 <= m /\ ~(d <= d - 1)
        /\ n - (d - 1) \in 1..n /\ m - (d - 1) \in 1..m
        /\ (n - (d - 1)) - 1 = n - d /\ (m - (d - 1)) - 1 = m - d
    BY <2>2, <2>4
  <2>6. Same(d - 1)
    <3>1. d - 1 \notin T0
      BY <2>1, <2>5
    <3> QED
      BY <2>5, <3>1
  <2>7. PICK a \in 1..n : a = n - (d - 1) /\ a - 1 = n - d
    BY <2>5
  <2>8. PICK b \in 1..m : b = m - (d - 1) /\ b - 1 = m - d
    BY <2>5
  <2>9. ComputeHash(f[a].body, HashAt(f, a - 1))
            = ComputeHash(g[b].body, HashAt(g, b - 1))
    BY <1>3, <1>4, <2>6, <2>7, <2>8
  <2>10. HashAt(f, a - 1) = HashAt(g, b - 1)
    BY <2>9, HashesAreDistinct
  <2> QED
    BY <2>2, <2>7, <2>8, <2>10
<1> HIDE DEF T0
<1>8. ~(n < m)
  <2> SUFFICES ASSUME n < m PROVE FALSE
    OBVIOUS
  <2>1. PICK k \in 1..m : k = m - n
    OBVIOUS
  <2>2. Same(n) /\ n - n = 0
    BY <1>7
  <2>3. Genesis = HashAt(g, k)
    BY <2>1, <2>2 DEF HashAt
  <2> QED
    BY <1>4, <2>3, HashesAreDistinct
<1>9. ~(m < n)
  <2> SUFFICES ASSUME m < n PROVE FALSE
    OBVIOUS
  <2>1. PICK k \in 1..n : k = n - m
    OBVIOUS
  <2>2. Same(m) /\ m - m = 0
    BY <1>7
  <2>3. HashAt(f, k) = Genesis
    BY <2>1, <2>2 DEF HashAt
  <2> QED
    BY <1>3, <2>3, HashesAreDistinct
<1>10. n = m
  BY <1>8, <1>9
<1>11. ASSUME NEW i \in 1..n PROVE Raw[f[i].body] = Raw[g[i].body]
  <2>1. PICK d \in Nat : d <= n /\ d <= m /\ n - d = i /\ m - d = i
    <3>1. n - i \in Nat /\ n - i <= n /\ n - (n - i) = i
      OBVIOUS
    <3> QED
      BY <1>10, <3>1
  <2>2. HashAt(f, i) = HashAt(g, i)
    BY <1>7, <2>1
  <2>3. ComputeHash(f[i].body, HashAt(f, i - 1)) = ComputeHash(g[i].body, HashAt(g, i - 1))
    BY <1>3, <1>4, <1>10, <2>2
  <2> QED
    BY <2>3, HashesAreDistinct
<1> QED
  BY <1>1, <1>2, <1>10, <1>11

(* The agent that runs holds in lastHash all it takes to tell its own log    *)
(* from every file with other texts, whatever lines that is made of.         *)
OnlyItsLogEndsInLastHash(Lines) ==
    up /\ clean /\ (\A i \in 1..Len(logged) : Stable(logged[i])) =>
        \A f \in Seq(Lines) :
            VerifyChain(f) /\ LoadLastHash(f) = lastHash =>
                /\ Len(f) = Len(logged)
                /\ \A i \in 1..Len(f) : Raw[f[i].body] = Raw[logged[i]]

(* While the system calls of Log succeed and the strings are valid UTF-8, a  *)
(* file that VerifyChain accepts and that ends in the logger's last hash     *)
(* holds the texts that Log was called with, one line for each call and in   *)
(* their order, over any number of restarts.                                 *)
THEOREM LastHashProtectsTheLog ==
    ASSUME NEW CONSTANT Lines
    PROVE  Spec => []OnlyItsLogEndsInLastHash(Lines)
<1>1. ASSUME IInv PROVE OnlyItsLogEndsInLastHash(Lines)
  <2> SUFFICES ASSUME up, clean, \A i \in 1..Len(logged) : Stable(logged[i]),
                      NEW f \in Seq(Lines), VerifyChain(f), LoadLastHash(f) = lastHash
               PROVE  /\ Len(f) = Len(logged)
                      /\ \A i \in 1..Len(f) : Raw[f[i].body] = Raw[logged[i]]
    BY DEF OnlyItsLogEndsInLastHash
  <2>1. PICK S : file \in Seq(S)
    BY <1>1 DEF IInv, IsSequence
  <2>2. /\ VerifyChain(file) /\ Len(file) = Len(logged)
        /\ \A i \in 1..Len(file) : file[i].body = logged[i]
    BY <1>1, IntactFile DEF ChainIntact
  <2>3. lastHash = ChainEnd
    BY <1>1 DEF IInv, FileIsLog
  <2>4. LoadLastHash(file) = ChainEnd
    <3>1. CASE file = <<>>
      BY <3>1 DEF LoadLastHash, ChainEnd
    <3>2. CASE file # <<>>
      <4>1. Len(file) \in 1..Len(file)
        BY <2>1, <3>2
      <4>2. IsEntry(file[Len(file)])
        BY <2>2, <4>1 DEF VerifyChain, LineVerifies
      <4> QED
        BY <3>2, <4>2 DEF LoadLastHash, ChainEnd
    <3> QED
      BY <3>1, <3>2
  <2>5. LoadLastHash(f) = LoadLastHash(file)
    BY <2>3, <2>4
  <2>6. Len(f) = Len(file) /\ \A i \in 1..Len(f) : Raw[f[i].body] = Raw[file[i].body]
    <3>1. VerifyChain(file)
      BY <2>2
    <3> QED
      BY <2>1, <2>5, <3>1, LastHashFixesTheLog
  <2> QED
    BY <2>2, <2>6
<1> QED
  BY <1>1, Invariance, PTL

=============================================================================
