---------------------------- MODULE RelayTable ----------------------------
(***************************************************************************)
(* What internal/sshrelay promises the service: a table with at most one   *)
(* endpoint per sandbox, each on a port of its own.  SSHRelay implements   *)
(* it with sockets, goroutines and locks; SSHAccess is built on it.        *)
(***************************************************************************)
EXTENDS Naturals

CONSTANTS Sandboxes, Targets,   \* sandbox ids, and the IPs their VMs may have
          Ports,                \* r.start .. r.end
          None

VARIABLE table

Endpoint == [port : Ports, target : Targets]
NoEndpoint == [port |-> None, target |-> None]

Init == table = [s \in Sandboxes |-> NoEndpoint]

Listening(s) == table[s] # NoEndpoint
FreePorts(s) == Ports \ {table[t].port : t \in Sandboxes \ {s}}

(* Ensure(s, t): a live listener for the same target is reused, ... *)
Reuse(s, t) == table[s].target = t /\ UNCHANGED table

(* ... a stale one is replaced on a port that no other sandbox has, ... *)
Open(s, t, p) ==
    /\ table[s].target # t
    /\ p \in FreePorts(s)
    /\ table' = [table EXCEPT ![s] = [port |-> p, target |-> t]]

(* ... or, when every port is taken here or by another process, lost.      *)
Exhausted(s, t) ==
    /\ table[s].target # t
    /\ table' = [table EXCEPT ![s] = NoEndpoint]

Close(s) == table' = [table EXCEPT ![s] = NoEndpoint]

(* Retain(keep): only what still leads where keep says stays. *)
Retain(keep) ==
    table' = [s \in Sandboxes |-> IF keep[s] = table[s].target THEN table[s] ELSE NoEndpoint]

Next ==
    \/ \E s \in Sandboxes, t \in Targets :
          Reuse(s, t) \/ Exhausted(s, t) \/ \E p \in Ports : Open(s, t, p)
    \/ \E s \in Sandboxes : Close(s)
    \/ \E keep \in [Sandboxes -> Targets \cup {None}] : Retain(keep)

Spec == Init /\ [][Next]_table

(* No two sandboxes share a port: a client that connects to a port reaches *)
(* the VM of one sandbox.                                                  *)
PortsDistinct ==
    \A s, t \in Sandboxes :
        s # t /\ Listening(s) /\ Listening(t) => table[s].port # table[t].port
=============================================================================
