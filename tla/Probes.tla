------------------------------- MODULE Probes --------------------------------
(***************************************************************************)
(* From a system call to handleEvent: the eBPF programs of bpf/*.bpf.c, the *)
(* ring buffer between kernel and agent, and readLoop of                    *)
(* cmd/watchbpf-agent/main.go, which decodes what a C structure holds with  *)
(* a Go structure written by hand.                                          *)
(*                                                                         *)
(* A record is what lies at each offset where a C field begins.  A string   *)
(* is a value; ClipName and ClipArg say what is left of it in a field:      *)
(* nothing of one that is not in memory when the probe runs, for the        *)
(* helpers of the kernel clear the field they cannot fill.                  *)
(***************************************************************************)
EXTENDS Integers, Sequences, SequencesExt

CONSTANTS
    Calls,          \* system calls that processes make, see CallType
    Strings,        \* file names, arguments and environment strings
    ClipName,       \* the part of a string that fits 256 bytes, or Empty
    ClipArg,        \* the part of it that fits 64 bytes, or Empty
    Comms, Pids, Uids,
    Addresses, Ports,
    NUM_ARG_SLOTS,
    Capacity,       \* [Labels -> Nat]: records that fit a ring buffer
    MaxCalls        \* bound on the system calls made

Labels == {"EXEC", "OPEN", "CONNECT"}

AF_INET == 2
AF_INET6 == 10

Null == "NULL"
Empty == ""

(* argv is the vector up to its NULL; beyond is what lies behind it in the  *)
(* memory of the process, as a rule the environment.                        *)
ExecCall ==
    [type : {"EXEC"}, pid : Pids, uid : Uids, comm : Comms,
     filename : Strings, argv : Seq(Strings), beyond : Seq(Strings)]

OpenCall ==
    [type : {"OPEN"}, pid : Pids, uid : Uids, comm : Comms, filename : Strings]

ConnectCall ==
    [type : {"CONNECT"}, pid : Pids, uid : Uids, comm : Comms,
     family : Nat, addr : Addresses, port : Ports]

CallType == ExecCall \cup OpenCall \cup ConnectCall

ASSUME ProbesAssumption ==
    /\ Calls \subseteq CallType
    /\ Empty \notin Strings /\ Null \notin Strings
    /\ {ClipName, ClipArg} \subseteq [Strings -> Strings \cup {Empty}]
    /\ NUM_ARG_SLOTS \in Nat
    /\ Capacity \in [Labels -> Nat \ {0}]
    /\ MaxCalls \in Nat

VARIABLES
    ring,       \* per probe: the records submitted and not yet read
    reading,    \* per probe: its reader is open, and readLoop has not returned
    raised,     \* history, per probe: the calls whose record was submitted
    lost,       \* history: calls for which bpf_ringbuf_reserve failed
    handled     \* history, per probe: the events handleEvent was called with

vars == <<ring, reading, raised, lost, handled>>

-----------------------------------------------------------------------------
(* The two layouts of a record. *)

Field(name, size, align) == [name |-> name, size |-> size, align |-> align]

Header == <<Field("pid", 4, 4), Field("uid", 4, 4), Field("comm", 16, 1)>>

(* The C structures. *)
struct_event ==
    Header \o <<Field("filename", 256, 1), Field("args", 64 * NUM_ARG_SLOTS, 1)>>

struct_open_event == Header \o <<Field("filename", 256, 1)>>

struct_connect_event ==
    Header \o <<Field("is_ipv6", 1, 1), Field("ipv6_addr", 16, 1),
                Field("dst_addr", 4, 4), Field("dst_port", 2, 2)>>

(* The Go structures, which binary.Read takes to have no gaps. *)
Packed(name, size) == Field(name, size, 1)

(* Mutant: two fields of the same size change places. *)
goHeaderSwapped == <<Packed("uid", 4), Packed("pid", 4), Packed("comm", 16)>>

goHeader == <<Packed("pid", 4), Packed("uid", 4), Packed("comm", 16)>>

execEvent ==
    goHeader \o <<Packed("filename", 256), Packed("args", 64 * NUM_ARG_SLOTS)>>

openEvent == goHeader \o <<Packed("filename", 256)>>

(* Mutant: without the padding written by hand. *)
connectEventUnpadded ==
    goHeader \o <<Packed("is_ipv6", 1), Packed("ipv6_addr", 16),
                  Packed("dst_addr", 4), Packed("dst_port", 2)>>

connectEvent ==
    goHeader \o <<Packed("is_ipv6", 1), Packed("ipv6_addr", 16),
                  Packed("padding", 3),
                  Packed("dst_addr", 4), Packed("dst_port", 2)>>

CStruct ==
    [EXEC |-> struct_event, OPEN |-> struct_open_event,
     CONNECT |-> struct_connect_event]

GoStruct == [EXEC |-> execEvent, OPEN |-> openEvent, CONNECT |-> connectEvent]

RoundUp(n, align) == ((n + align - 1) \div align) * align

(* Where the fields of a structure begin. *)
Offsets(fields) ==
    LET off[i \in 1..Len(fields)] ==
            IF i = 1 THEN 0
            ELSE RoundUp(off[i - 1] + fields[i - 1].size, fields[i].align)
    IN  off

(* sizeof: every structure is aligned to its __u32 fields. *)
SizeOf(fields) ==
    RoundUp(Offsets(fields)[Len(fields)] + fields[Len(fields)].size, 4)

(* The bytes a record has to hold for binary.Read not to fail. *)
ReadSize(fields) == Offsets(fields)[Len(fields)] + fields[Len(fields)].size

-----------------------------------------------------------------------------
(* The eBPF programs. *)

(* The i-th pointer behind argv[0] as the loop of handle_execve reads it:   *)
(* bpf_probe_read_user leaves NULL where nothing can be read.               *)
ArgPtr(call, i) ==
    LET memory == call.argv \o <<Null>> \o call.beyond
    IN  IF i + 1 \in DOMAIN memory THEN memory[i + 1] ELSE Null

(* e->args: the loop leaves at the first NULL, and memset cleared the rest. *)
ArgSlots(call) ==
    [i \in 1..NUM_ARG_SLOTS |->
        IF \A k \in 1..i : ArgPtr(call, k) # Null
        THEN ClipArg[ArgPtr(call, i)] ELSE Empty]

NoAddress == "0"

(* What the program writes into the fields of its structure. *)
handle_execve(call) ==
    [pid |-> call.pid, uid |-> call.uid, comm |-> call.comm,
     filename |-> ClipName[call.filename], args |-> ArgSlots(call)]

handle_openat(call) ==
    [pid |-> call.pid, uid |-> call.uid, comm |-> call.comm,
     filename |-> ClipName[call.filename]]

handle_connect(call) ==
    [pid |-> call.pid, uid |-> call.uid, comm |-> call.comm,
     is_ipv6 |-> IF call.family = AF_INET THEN 0 ELSE 1,
     ipv6_addr |-> IF call.family = AF_INET THEN NoAddress ELSE call.addr,
     dst_addr |-> IF call.family = AF_INET THEN call.addr ELSE NoAddress,
     dst_port |-> call.port]

(* The value of each field at its C offset. *)
Laid(fields, values) ==
    LET off == Offsets(fields)
    IN  [size |-> SizeOf(fields),
         at |-> [o \in Range(off) |->
                    values[fields[CHOOSE i \in DOMAIN off : off[i] = o].name]]]

(* The record that the probe of a call submits. *)
Record ==
    [call \in Calls |->
        Laid(CStruct[call.type],
             CASE call.type = "EXEC" -> handle_execve(call)
               [] call.type = "OPEN" -> handle_openat(call)
               [] call.type = "CONNECT" -> handle_connect(call))]

(* handle_connect returns at once for sockets that are not IPv4 or IPv6. *)
Traced(call) ==
    call.type = "CONNECT" => call.family \in {AF_INET, AF_INET6}

CallsMade == Len(raised["EXEC"]) + Len(raised["OPEN"]) + Len(raised["CONNECT"])
                 + Len(lost)

-----------------------------------------------------------------------------
(* readLoop. *)

(* binary.Read of a record into a Go structure. *)
Garbled == "garbled"

Decoded(fields, record) ==
    LET off == Offsets(fields)
    IN  [name \in {fields[i].name : i \in DOMAIN fields} |->
            LET o == off[CHOOSE i \in DOMAIN fields : fields[i].name = name]
            IN  IF o \in DOMAIN record.at THEN record.at[o] ELSE Garbled]

(* The words of the detail of an EXEC, slot by slot: those not empty. *)
ArgParts(args) ==
    LET argParts[n \in 0..Len(args)] ==
            IF n = 0 THEN <<>>
            ELSE IF args[n] = Empty THEN argParts[n - 1]
            ELSE Append(argParts[n - 1], args[n])
    IN  argParts

Words(args) == ArgParts(args)[Len(args)]

(* The arguments of the call of handleEvent. *)
Event(label, ev) ==
    [type |-> label, pid |-> ev.pid, uid |-> ev.uid, comm |-> ev.comm,
     detail |->
        CASE label = "EXEC" -> <<ev.filename>> \o Words(ev.args)
          [] label = "OPEN" -> <<ev.filename>>
          [] label = "CONNECT" ->
                 IF ev.is_ipv6 = 1 THEN <<"[", ev.ipv6_addr, "]:", ev.dst_port>>
                                   ELSE <<ev.dst_addr, ":", ev.dst_port>>]

-----------------------------------------------------------------------------
(* A process enters a system call and its probe runs. *)
Submit(call) ==
    /\ CallsMade < MaxCalls
    /\ Traced(call)
    /\ Len(ring[call.type]) < Capacity[call.type]
    /\ ring' = [ring EXCEPT ![call.type] = Append(@, Record[call])]
    /\ raised' = [raised EXCEPT ![call.type] = Append(@, call)]
    /\ UNCHANGED <<reading, lost, handled>>

(* bpf_ringbuf_reserve fails: nothing and nobody is told. *)
Lose(call) ==
    /\ CallsMade < MaxCalls
    /\ Traced(call)
    /\ Len(ring[call.type]) = Capacity[call.type]
    /\ lost' = Append(lost, call)
    /\ UNCHANGED <<ring, reading, raised, handled>>

(* Mutant: the record is submitted without waking the reader. *)
ReadRecordAsleep(label) ==
    /\ reading[label]
    /\ Len(ring[label]) > 1
    /\ ring' = [ring EXCEPT ![label] = Tail(@)]
    /\ handled' = [handled EXCEPT ![label] =
                      Append(@, Event(label, Decoded(GoStruct[label],
                                                     Head(ring[label]))))]
    /\ UNCHANGED <<reading, raised, lost>>

(* One turn of readLoop.  A record that is too short is skipped. *)
ReadRecord(label) ==
    /\ reading[label]
    /\ ring[label] # <<>>
    /\ ring' = [ring EXCEPT ![label] = Tail(@)]
    /\ handled' =
           IF Head(ring[label]).size < ReadSize(GoStruct[label]) THEN handled
           ELSE [handled EXCEPT ![label] =
                    Append(@, Event(label, Decoded(GoStruct[label],
                                                   Head(ring[label]))))]
    /\ UNCHANGED <<reading, raised, lost>>

(* The closer of this reader gets an interrupt and closes it: Read fails     *)
(* with ErrClosed, even if records wait, and readLoop returns.  The probe    *)
(* stays attached for as long as the agent runs.                             *)
ReaderReturns(label) ==
    /\ reading[label]
    /\ reading' = [reading EXCEPT ![label] = FALSE]
    /\ UNCHANGED <<ring, raised, lost, handled>>

Init ==
    /\ ring = [label \in Labels |-> <<>>]
    /\ reading = [label \in Labels |-> TRUE]
    /\ raised = [label \in Labels |-> <<>>]
    /\ lost = <<>>
    /\ handled = [label \in Labels |-> <<>>]

Next ==
    \/ \E call \in Calls : Submit(call) \/ Lose(call)
    \/ \E label \in Labels : ReadRecord(label) \/ ReaderReturns(label)

Spec == Init /\ [][Next]_vars

(* Each reader is a goroutine of its own that is woken by a submission. *)
FairSpec == Spec /\ \A label \in Labels : WF_vars(ReadRecord(label))

-----------------------------------------------------------------------------
(* Type invariant.  A ring buffer never holds more than its capacity, and    *)
(* what handleEvent is told of the process has the types of its parameters.  *)
TypeOK ==
    /\ \A label \in Labels : Len(ring[label]) \in 0..Capacity[label]
    /\ reading \in [Labels -> BOOLEAN]
    /\ raised \in [Labels -> Seq(Calls)]
    /\ lost \in Seq(Calls)
    /\ \A label \in Labels : \A i \in 1..Len(handled[label]) :
           /\ handled[label][i].type = label
           /\ handled[label][i].pid \in Pids
           /\ handled[label][i].uid \in Uids
           /\ handled[label][i].comm \in Comms

(* What a call was, without slots, structures and bytes. *)
Story(call) ==
    [type |-> call.type, pid |-> call.pid, uid |-> call.uid, comm |-> call.comm,
     detail |->
        CASE call.type = "EXEC" ->
                 LET last == IF Len(call.argv) <= NUM_ARG_SLOTS
                             THEN Len(call.argv) ELSE NUM_ARG_SLOTS + 1
                 IN  <<ClipName[call.filename]>>
                         \o Words([i \in 1..(last - 1) |->
                                       ClipArg[call.argv[i + 1]]])
          [] call.type = "OPEN" -> <<ClipName[call.filename]>>
          [] call.type = "CONNECT" ->
                 IF call.family = AF_INET
                 THEN <<call.addr, ":", call.port>>
                 ELSE <<"[", call.addr, "]:", call.port>>]

HasArgv(call) == call.type = "EXEC" => call.argv # <<>>

(* Whatever the three probes and readers do at the same time, each handled   *)
(* event tells what one traced call did: its process, user and name at that  *)
(* time, its file and first arguments in their order, without the empty ones *)
(* and those not in memory, or its address and port.  The events of a probe  *)
(* are handled in the order of the calls, once each, and none is missing but *)
(* those that found the buffer full and those that no reader has read.  It   *)
(* takes the C and the Go structure to agree on where every field begins.  A *)
(* call with an empty argv is left out: its NULL is argv[0], the loop starts *)
(* at argv[1], and its words are those of the environment.                   *)
StoryIsTrue ==
    \A label \in Labels :
        /\ Len(handled[label]) + Len(ring[label]) = Len(raised[label])
        /\ \A i \in 1..Len(handled[label]) :
               HasArgv(raised[label][i]) =>
                   handled[label][i] = Story(raised[label][i])

(* Every record that was submitted is handled, however busy the other two    *)
(* probes are, unless an interrupt has closed its own reader: from then on   *)
(* what the probe submits is read by nobody, although the agent may go on.   *)
EventuallyHandled ==
    \A label \in Labels : \A n \in 1..MaxCalls :
        (Len(raised[label]) >= n) ~> (Len(handled[label]) >= n \/ ~reading[label])
=============================================================================
