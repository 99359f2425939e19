------------------------------ MODULE MCProbes -------------------------------
(* One call of every kind that the probes tell apart, buffers of two records. *)
EXTENDS Probes

MCStrings == {"/bin/ls", "/very/long", "/very/", "ls", "-l", "a", "b", "PATH",
              "swapped out"}
MCClipName ==
    [s \in MCStrings |-> CASE s = "/very/long" -> "/very/"
                           [] s = "swapped out" -> Empty
                           [] OTHER -> s]
MCClipArg == MCClipName
MCComms == {"bash", "curl"}
MCPids == {8, 9}
MCUids == {0, 1000}
MCAddresses == {"10.0.0.1", "fe80::1"}
MCPorts == {"443"}
MCCapacity == [EXEC |-> 1, OPEN |-> 1, CONNECT |-> 2]

Exec(filename, argv) ==
    [type |-> "EXEC", pid |-> 8, uid |-> 0, comm |-> "bash",
     filename |-> filename, argv |-> argv, beyond |-> <<"PATH">>]

Open(filename) ==
    [type |-> "OPEN", pid |-> 9, uid |-> 1000, comm |-> "curl",
     filename |-> filename]

Connect(family, addr) ==
    [type |-> "CONNECT", pid |-> 9, uid |-> 1000, comm |-> "curl",
     family |-> family, addr |-> addr, port |-> "443"]

(* Fewer arguments than slots, as many, more, and a vector without argv[0]. *)
MCCalls ==
    {Exec("/bin/ls", <<"ls">>),
     Exec("/bin/ls", <<"ls", "swapped out", "/very/long">>),
     Exec("/very/long", <<"ls", "-l", "a", "b">>),
     Exec("/bin/ls", <<>>),
     Open("/very/long"),
     Connect(AF_INET, "10.0.0.1"), Connect(AF_INET6, "fe80::1"),
     Connect(1, "10.0.0.1")}

(* Every call has been made, and every record read whose reader is open. *)
Quiet ==
    /\ CallsMade = MaxCalls
    /\ \A label \in Labels : reading[label] => ring[label] = <<>>
    /\ UNCHANGED vars

MCSpec == Init /\ [][Next \/ Quiet]_vars
MCFairSpec == MCSpec /\ \A label \in Labels : WF_vars(ReadRecord(label))
=============================================================================
