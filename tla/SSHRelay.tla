----------------------------- MODULE SSHRelay -----------------------------
(***************************************************************************)
(* The TCP relay of internal/sshrelay/relay.go: one listener per sandbox,  *)
(* an accept goroutine per listener and a pipe goroutine per connection.   *)
(* A critical section of r.mu or l.mu is one action; between two of them   *)
(* every other goroutine may run.  Listener and connection objects come    *)
(* from pools and return to them when Go could collect them.               *)
(***************************************************************************)
EXTENDS Naturals, FiniteSets

CONSTANTS Sandboxes, Targets,   \* sandbox ids, and the IPs their VMs may have
          Ports,                \* r.start .. r.end
          Listeners, Conns,     \* object pools: how many can exist at a time
          MaxSessions,          \* maxSessionsPerSandbox
          None

ASSUME RelayAssumption ==
    /\ Ports \subseteq Nat /\ IsFiniteSet(Conns)
    /\ MaxSessions \in Nat
    /\ None \notin Listeners /\ None \notin Targets /\ None \notin Ports

VARIABLES byID,     \* r.byID
          lsn,      \* the fields of each listener object
          closing,  \* listeners that left byID and whose close() is still to run
          conn      \* the session of each client connection

vars == <<byID, lsn, closing, conn>>

(* sock: the listening socket.  closed: the flag that close() sets.        *)
FreeListener == [sock |-> "none", port |-> None, target |-> None, closed |-> FALSE]

(* at: where the goroutine that owns the connection is.  client, up: the   *)
(* two sockets; up is only visible to close() once it is s.upstream, which *)
(* is from "pipe" on.                                                      *)
FreeConn == [at |-> "none", l |-> None, client |-> "none", up |-> "none"]

TypeOK ==
    /\ byID \in [Sandboxes -> Listeners \cup {None}]
    /\ lsn \in [Listeners -> [sock : {"none", "open", "closed"}, port : Ports \cup {None},
                              target : Targets \cup {None}, closed : BOOLEAN]]
    /\ closing \subseteq Listeners
    /\ conn \in [Conns -> [at : {"none", "accepted", "dial", "dialed", "pipe", "drop"},
                           l : Listeners \cup {None},
                           client : {"none", "open", "closed"}, up : {"none", "open", "closed"}]]

Init ==
    /\ byID = [s \in Sandboxes |-> None]
    /\ lsn = [l \in Listeners |-> FreeListener]
    /\ closing = {}
    /\ conn = [c \in Conns |-> FreeConn]

Linked(l) == \E s \in Sandboxes : byID[s] = l
Of(l) == {c \in Conns : conn[c].l = l}
(* l.sessions *)
Sessions(l) == {c \in Of(l) : conn[c].at \in {"dial", "dialed", "pipe", "drop"}}

(* The effect of l.close() on the sessions: both sockets that it can see. *)
Cut(k) == [k EXCEPT !.client = "closed", !.up = IF k.at \in {"pipe", "drop"} /\ @ = "open" THEN "closed" ELSE @]
CutAll(l) == [c \in Conns |-> IF c \in Sessions(l) THEN Cut(conn[c]) ELSE conn[c]]

---------------------------------------------------------------------------
(* Ensure, Close, Retain. *)

(* Faulty variant: the scan of the range is off by one. *)
ChosenOffByOne(preferred, free) ==
    IF preferred \in free THEN preferred ELSE 1 + CHOOSE p \in free : \A q \in free : p <= q

(* Faulty variant: the remembered port is not compared with those in use. *)
ChosenPreferredTaken(preferred, free) ==
    IF preferred \in Ports THEN preferred ELSE CHOOSE p \in free : \A q \in free : p <= q

(* preferred first, then the range from its start; a port that another     *)
(* process holds fails to listen.                                          *)
Chosen(preferred, free) ==
    IF preferred \in free THEN preferred ELSE CHOOSE p \in free : \A q \in free : p <= q

(* A live listener for the same target is reused. *)
EnsureReuse(s, t) == byID[s] # None /\ lsn[byID[s]].target = t /\ UNCHANGED vars

(* Otherwise a stale listener is closed under r.mu and a new one is opened *)
(* if any port is left.                                                    *)
EnsureOpen(s, t, preferred) ==
    LET old == byID[s]
        kept == IF old = None THEN lsn ELSE [lsn EXCEPT ![old].sock = "closed", ![old].closed = TRUE]
    IN
    /\ old # None => lsn[old].target # t
    /\ conn' = IF old = None THEN conn ELSE CutAll(old)
    /\ UNCHANGED closing
    /\ \E foreign \in SUBSET Ports :
          LET free == {p \in Ports \ foreign : \A l \in Listeners : kept[l].sock = "open" => kept[l].port # p} IN
          \/ /\ free = {}
             /\ byID' = [byID EXCEPT ![s] = None] /\ lsn' = kept
          \/ /\ free # {}
             /\ \E l \in Listeners :
                   /\ lsn[l] = FreeListener
                   /\ byID' = [byID EXCEPT ![s] = l]
                   /\ lsn' = [kept EXCEPT ![l] = [sock |-> "open", port |-> Chosen(preferred, free),
                                                  target |-> t, closed |-> FALSE]]

Ensure(s, t) == EnsureReuse(s, t) \/ \E p \in Ports \cup {None} : EnsureOpen(s, t, p)

(* Faulty variant: the closed listener stays in the map. *)
CloseKeepsEntry(s) ==
    /\ byID[s] # None /\ byID[s] \notin closing
    /\ closing' = closing \cup {byID[s]}
    /\ UNCHANGED <<byID, lsn, conn>>

(* Close(id): out of the map under r.mu; close() itself runs after it. *)
Close(s) ==
    /\ byID[s] # None
    /\ byID' = [byID EXCEPT ![s] = None]
    /\ closing' = closing \cup {byID[s]}
    /\ UNCHANGED <<lsn, conn>>

(* Retain(keep), where keep maps the running sandboxes to their IPs. *)
Retain(keep) ==
    LET stale == {s \in Sandboxes : byID[s] # None /\ keep[s] # lsn[byID[s]].target} IN
    /\ stale # {}
    /\ byID' = [s \in Sandboxes |-> IF s \in stale THEN None ELSE byID[s]]
    /\ closing' = closing \cup {byID[s] : s \in stale}
    /\ UNCHANGED <<lsn, conn>>

(* close(): ln.Close, ... *)
CloseSocket(l) ==
    /\ l \in closing /\ lsn[l].sock = "open"
    /\ lsn' = [lsn EXCEPT ![l].sock = "closed"]
    /\ UNCHANGED <<byID, closing, conn>>

(* Faulty variant: the flag is set and the sessions are left alone. *)
CloseSessionsFlagOnly(l) ==
    /\ l \in closing /\ lsn[l].sock = "closed"
    /\ lsn' = [lsn EXCEPT ![l].closed = TRUE]
    /\ closing' = closing \ {l}
    /\ UNCHANGED <<byID, conn>>

(* ... then, under l.mu, the flag and every session's sockets. *)
CloseSessions(l) ==
    /\ l \in closing /\ lsn[l].sock = "closed"
    /\ lsn' = [lsn EXCEPT ![l].closed = TRUE]
    /\ conn' = CutAll(l)
    /\ closing' = closing \ {l}
    /\ UNCHANGED byID

(* No goroutine refers to the object any more. *)
Collect(l) ==
    /\ lsn[l].closed /\ Of(l) = {}
    /\ lsn' = [lsn EXCEPT ![l] = FreeListener]
    /\ UNCHANGED <<byID, closing, conn>>

---------------------------------------------------------------------------
(* serve and pipe. *)

SetConn(c, k) == conn' = [conn EXCEPT ![c] = k] /\ UNCHANGED <<byID, lsn, closing>>

(* serve: the accept, ... *)
Accept(c, l) ==
    /\ conn[c] = FreeConn /\ lsn[l].sock = "open"
    /\ \A k \in Of(l) : conn[k].at # "accepted"
    /\ SetConn(c, [at |-> "accepted", l |-> l, client |-> "open", up |-> "none"])

(* Faulty variant: one session too many. *)
RegisterOneMore(c) ==
    LET l == conn[c].l IN
    /\ conn[c].at = "accepted"
    /\ SetConn(c, IF ~lsn[l].closed /\ Cardinality(Sessions(l)) <= MaxSessions
                  THEN [conn[c] EXCEPT !.at = "dial"] ELSE FreeConn)

(* ... then the check under l.mu; a refused connection is closed. *)
Register(c) ==
    LET l == conn[c].l IN
    /\ conn[c].at = "accepted"
    /\ SetConn(c, IF ~lsn[l].closed /\ Cardinality(Sessions(l)) < MaxSessions
                  THEN [conn[c] EXCEPT !.at = "dial"] ELSE FreeConn)

(* pipe: the dial ends or times out, ... *)
Dial(c) ==
    /\ conn[c].at = "dial"
    /\ \/ SetConn(c, [conn[c] EXCEPT !.at = "dialed", !.up = "open"])
       \/ SetConn(c, [conn[c] EXCEPT !.at = "drop"])

(* Faulty variant: the flag is not looked at again after the dial. *)
AdoptUnchecked(c) ==
    /\ conn[c].at = "dialed"
    /\ SetConn(c, [conn[c] EXCEPT !.at = "pipe"])

(* ... and the listener may have been closed meanwhile. *)
Adopt(c) ==
    /\ conn[c].at = "dialed"
    /\ SetConn(c, IF lsn[conn[c].l].closed
                  THEN [conn[c] EXCEPT !.at = "drop", !.up = "closed"]
                  ELSE [conn[c] EXCEPT !.at = "pipe"])

(* Either copy ends: a peer hangs up, or a socket was closed under it. *)
HangUp(c) == conn[c].at = "pipe" /\ SetConn(c, [conn[c] EXCEPT !.at = "drop"])
CopyEnds(c) == "closed" \in {conn[c].client, conn[c].up} /\ HangUp(c)

(* drop: out of l.sessions, both sockets closed. *)
Drop(c) == conn[c].at = "drop" /\ SetConn(c, FreeConn)

ConnStep(c) == Register(c) \/ Dial(c) \/ Adopt(c) \/ CopyEnds(c) \/ Drop(c)
CloseStep(l) == CloseSocket(l) \/ CloseSessions(l)

Next ==
    \/ \E s \in Sandboxes : Close(s) \/ \E t \in Targets : Ensure(s, t)
    \/ \E keep \in [Sandboxes -> Targets \cup {None}] : Retain(keep)
    \/ \E l \in Listeners : CloseStep(l) \/ Collect(l) \/ \E c \in Conns : Accept(c, l)
    \/ \E c \in Conns : ConnStep(c) \/ HangUp(c)

Spec == Init /\ [][Next]_vars

(* Goroutines are scheduled and a dial has a timeout; nobody has to call,  *)
(* connect or hang up.                                                     *)
FairSpec == /\ Spec
            /\ \A c \in Conns : WF_vars(ConnStep(c))
            /\ \A l \in Listeners : WF_vars(CloseStep(l))

---------------------------------------------------------------------------
(* Properties. *)

(* A listener never carries more than maxSessionsPerSandbox sessions,      *)
(* however accepts, dials and drops interleave.                            *)
SessionCap == \A l \in Listeners : Cardinality(Sessions(l)) <= MaxSessions

(* Once close() has run, nothing flows through the listener any more: the  *)
(* client side of every remaining session is closed, and no session has an *)
(* open connection to the guest, also if its dial ended after the close.   *)
ClosedMeansCut ==
    \A l \in Listeners : lsn[l].closed =>
        \A c \in Sessions(l) : conn[c].client = "closed" /\ (conn[c].at \in {"pipe", "drop"} => conn[c].up # "open")

(* A listener that Ensure can hand out again is accepting: byID never      *)
(* holds one whose socket or sessions have been closed, and no two         *)
(* sandboxes share a listener or a port.                                   *)
LinkedListenersServe ==
    \A s \in Sandboxes : byID[s] # None =>
        /\ lsn[byID[s]].sock = "open" /\ ~lsn[byID[s]].closed /\ byID[s] \notin closing
        /\ \A t \in Sandboxes \ {s} : byID[t] # None => lsn[byID[t]].port # lsn[byID[s]].port

(* The relay is the table that RelayTable specifies: however calls,        *)
(* connections and closes interleave, byID changes as Ensure, Close and    *)
(* Retain say, and always shows one port per sandbox.                      *)
Table == INSTANCE RelayTable
    WITH table <- [s \in Sandboxes |-> IF byID[s] = None THEN [port |-> None, target |-> None]
                                       ELSE [port |-> lsn[byID[s]].port, target |-> lsn[byID[s]].target]]
TableSpec == Table!Spec

(* No connection survives its listener: after Close, Retain or a retarget, *)
(* every connection that came through it is eventually gone.               *)
ClosedListenerDrains ==
    \A l \in Listeners : lsn[l].closed ~> Of(l) = {}
=============================================================================
