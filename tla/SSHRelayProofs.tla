-------------------------- MODULE SSHRelayProofs --------------------------
(***************************************************************************)
(* What SSHRelay guarantees for any sandboxes, targets, ports, listener    *)
(* and connection objects and any cap on sessions.                         *)
(***************************************************************************)
EXTENDS SSHRelay, FiniteSetTheorems, WellFoundedInduction, TLAPS

---------------------------------------------------------------------------
(* The operators of the model. *)

LEMMA LeastNatural == ASSUME NEW T \in SUBSET Nat, T # {} PROVE \E p \in T : \A q \in T : p <= q
<1>1. PICK p \in T : \A q \in T : ~(<<q, p>> \in OpToRel(<, Nat))
    BY WFMin, NatLessThanWellFounded
<1>2. \A q \in T : ~(q < p)
    BY <1>1 DEF OpToRel
<1> QED BY <1>2

(* Ensure listens on a free port, preferred or not. *)
LEMMA ChosenIsFree ==
    ASSUME NEW preferred, NEW free \in SUBSET Ports, free # {}
    PROVE  Chosen(preferred, free) \in free
<1>1. \E p \in free : \A q \in free : p <= q
    BY LeastNatural, RelayAssumption
<1> QED BY <1>1 DEF Chosen

---------------------------------------------------------------------------
(* The inductive invariant. *)

(* A connection object is either free or belongs to a listener; until the  *)
(* dial has ended it has no socket to the guest.                           *)
ConnShape ==
    \A c \in Conns :
        /\ conn[c].at = "none" => conn[c] = FreeConn
        /\ conn[c].at # "none" => conn[c].l \in Listeners
        /\ conn[c].at \in {"accepted", "dial"} => conn[c].up = "none"

(* What byID holds accepts, is not on its way out, leads somewhere and     *)
(* belongs to one sandbox.                                                 *)
LinkShape ==
    \A s \in Sandboxes : byID[s] # None =>
        /\ lsn[byID[s]].sock = "open" /\ ~lsn[byID[s]].closed /\ byID[s] \notin closing
        /\ lsn[byID[s]].target \in Targets
        /\ \A t \in Sandboxes \ {s} : byID[t] # byID[s]

(* No two listening sockets have the same port. *)
OpenShape ==
    \A l \in Listeners : lsn[l].sock = "open" =>
        /\ lsn[l].port \in Ports
        /\ \A m \in Listeners \ {l} : lsn[m].sock = "open" => lsn[m].port # lsn[l].port

(* Until close() is through, the flag is down and the object is in use. *)
CloseShape == \A l \in closing : lsn[l].sock # "none" /\ ~lsn[l].closed

RelayInv == TypeOK /\ ConnShape /\ LinkShape /\ OpenShape /\ CloseShape /\ ClosedMeansCut

LEMMA RelayInit == Init => RelayInv
BY RelayAssumption DEF Init, RelayInv, TypeOK, ConnShape, LinkShape, OpenShape, CloseShape, ClosedMeansCut,
   FreeListener, FreeConn, Sessions, Of

Session == [at : {"none", "accepted", "dial", "dialed", "pipe", "drop"},
            l : Listeners \cup {None},
            client : {"none", "open", "closed"}, up : {"none", "open", "closed"}]

(* close() moves no session, and closes what it can see. *)
LEMMA CutShape ==
    ASSUME TypeOK, NEW l \in Listeners
    PROVE  /\ CutAll(l) \in [Conns -> Session]
           /\ \A c \in Conns :
                /\ CutAll(l)[c].at = conn[c].at /\ CutAll(l)[c].l = conn[c].l
                /\ c \notin Sessions(l) => CutAll(l)[c] = conn[c]
                /\ c \in Sessions(l) => CutAll(l)[c].client = "closed"
                /\ c \in Sessions(l) /\ conn[c].at \in {"pipe", "drop"} => CutAll(l)[c].up # "open"
                /\ conn[c].at \notin {"pipe", "drop"} => CutAll(l)[c].up = conn[c].up
<1>1. ASSUME NEW c \in Conns
      PROVE  /\ Cut(conn[c]) \in Session
             /\ Cut(conn[c]).at = conn[c].at /\ Cut(conn[c]).l = conn[c].l
             /\ Cut(conn[c]).client = "closed"
             /\ conn[c].at \in {"pipe", "drop"} => Cut(conn[c]).up # "open"
             /\ conn[c].at \notin {"pipe", "drop"} => Cut(conn[c]).up = conn[c].up
    <2>1. conn[c] \in Session
        BY DEF TypeOK, Session
    <2> QED BY <2>1 DEF Cut, Session
<1>2. \A c \in Conns : conn[c] \in Session
    BY DEF TypeOK, Session
<1>3. \A c \in Conns : CutAll(l)[c] = IF c \in Sessions(l) THEN Cut(conn[c]) ELSE conn[c]
    BY DEF CutAll
<1>4. CutAll(l) \in [Conns -> Session]
    BY <1>1, <1>2 DEF CutAll
<1> QED BY <1>1, <1>3, <1>4

---------------------------------------------------------------------------
(* The steps of a connection. *)

LEMMA ConnMoves ==
    ASSUME RelayInv, NEW c \in Conns, NEW k \in Session, SetConn(c, k),
           k.at = "none" => k = FreeConn,
           k.at # "none" => k.l \in Listeners,
           k.at \in {"accepted", "dial"} => k.up = "none",
           k.at \in {"dial", "dialed", "pipe", "drop"} /\ lsn[k.l].closed =>
               k.client = "closed" /\ (k.at \in {"pipe", "drop"} => k.up # "open")
    PROVE  RelayInv'
<1>1. /\ conn' \in [Conns -> Session] /\ UNCHANGED <<byID, lsn, closing>>
      /\ \A d \in Conns : conn'[d] = IF d = c THEN k ELSE conn[d]
    BY DEF RelayInv, TypeOK, SetConn, Session
<1>2. TypeOK'
    BY <1>1 DEF RelayInv, TypeOK, Session
<1>3. ConnShape'
    BY <1>1 DEF RelayInv, ConnShape, FreeConn
<1>4. LinkShape' /\ OpenShape' /\ CloseShape'
    BY <1>1 DEF RelayInv, LinkShape, OpenShape, CloseShape
<1>5. ClosedMeansCut'
    BY <1>1 DEF RelayInv, ClosedMeansCut, Sessions, Of
<1> QED BY <1>2, <1>3, <1>4, <1>5 DEF RelayInv

LEMMA ConnStepKeeps ==
    ASSUME RelayInv, NEW c \in Conns, ConnStep(c) \/ HangUp(c) \/ \E l \in Listeners : Accept(c, l)
    PROVE  RelayInv'
<1>1. conn[c] \in Session /\ FreeConn \in Session /\ FreeConn.at = "none"
    BY DEF RelayInv, TypeOK, Session, FreeConn
<1>2. conn[c].at # "none" => conn[c].l \in Listeners
    BY DEF RelayInv, ConnShape
<1>3. conn[c].at \in {"accepted", "dial"} => conn[c].up = "none"
    BY DEF RelayInv, ConnShape
<1>4. conn[c].at \in {"dial", "dialed", "pipe", "drop"} /\ lsn[conn[c].l].closed =>
          conn[c].client = "closed" /\ (conn[c].at \in {"pipe", "drop"} => conn[c].up # "open")
    BY <1>2 DEF RelayInv, ClosedMeansCut, Sessions, Of
<1>5. ASSUME NEW l \in Listeners, Accept(c, l) PROVE RelayInv'
    BY <1>1, <1>5, ConnMoves DEF Accept, Session
<1>6. CASE Register(c)
    <2>1. CASE SetConn(c, FreeConn)
        BY <1>1, <2>1, ConnMoves
    <2>2. CASE SetConn(c, [conn[c] EXCEPT !.at = "dial"]) /\ ~lsn[conn[c].l].closed
        BY <1>1, <1>2, <1>3, <1>6, <2>2, ConnMoves DEF Register, Session
    <2> QED BY <1>6, <2>1, <2>2 DEF Register
<1>7. CASE Dial(c)
    <2>1. CASE SetConn(c, [conn[c] EXCEPT !.at = "dialed", !.up = "open"])
        BY <1>1, <1>2, <1>4, <1>7, <2>1, ConnMoves DEF Dial, Session
    <2>2. CASE SetConn(c, [conn[c] EXCEPT !.at = "drop"])
        BY <1>1, <1>2, <1>3, <1>4, <1>7, <2>2, ConnMoves DEF Dial, Session
    <2> QED BY <1>7, <2>1, <2>2 DEF Dial
<1>8. CASE Adopt(c)
    <2>1. CASE SetConn(c, [conn[c] EXCEPT !.at = "drop", !.up = "closed"])
        BY <1>1, <1>2, <1>4, <1>8, <2>1, ConnMoves DEF Adopt, Session
    <2>2. CASE SetConn(c, [conn[c] EXCEPT !.at = "pipe"]) /\ ~lsn[conn[c].l].closed
        BY <1>1, <1>2, <1>4, <1>8, <2>2, ConnMoves DEF Adopt, Session
    <2> QED BY <1>8, <2>1, <2>2 DEF Adopt
<1>9. CASE HangUp(c)
    BY <1>1, <1>2, <1>4, <1>9, ConnMoves DEF HangUp, Session
<1>10. CASE Drop(c)
    BY <1>1, <1>10, ConnMoves DEF Drop
<1> QED BY <1>5, <1>6, <1>7, <1>8, <1>9, <1>10 DEF ConnStep, CopyEnds

---------------------------------------------------------------------------
(* The steps of a listener. *)

LEMMA UnlinkKeeps ==
    ASSUME RelayInv, NEW S \in SUBSET {s \in Sandboxes : byID[s] # None},
           byID' = [s \in Sandboxes |-> IF s \in S THEN None ELSE byID[s]],
           closing' = closing \cup {byID[s] : s \in S},
           UNCHANGED <<lsn, conn>>
    PROVE  RelayInv'
<1>1. TypeOK'
    BY DEF RelayInv, TypeOK
<1>2. ConnShape' /\ OpenShape' /\ ClosedMeansCut'
    BY DEF RelayInv, ConnShape, OpenShape, ClosedMeansCut, Sessions, Of
<1>3. LinkShape' /\ CloseShape'
    BY DEF RelayInv, TypeOK, LinkShape, CloseShape
<1> QED BY <1>1, <1>2, <1>3 DEF RelayInv

LEMMA CloseKeeps == ASSUME RelayInv, NEW s \in Sandboxes, Close(s) PROVE RelayInv'
<1>1. byID' = [t \in Sandboxes |-> IF t \in {s} THEN None ELSE byID[t]]
    BY DEF RelayInv, TypeOK, Close
<1>2. {s} \in SUBSET {t \in Sandboxes : byID[t] # None}
    BY DEF Close
<1>3. {byID[t] : t \in {s}} = {byID[s]}
    OBVIOUS
<1>4. closing' = closing \cup {byID[t] : t \in {s}} /\ UNCHANGED <<lsn, conn>>
    BY <1>3 DEF Close
<1> QED BY <1>1, <1>2, <1>4, UnlinkKeeps

LEMMA RetainKeeps ==
    ASSUME RelayInv, NEW keep \in [Sandboxes -> Targets \cup {None}], Retain(keep)
    PROVE  RelayInv'
BY UnlinkKeeps DEF Retain

LEMMA CloseStepKeeps ==
    ASSUME RelayInv, NEW l \in Listeners, CloseStep(l) \/ Collect(l)
    PROVE  RelayInv'
<1>1. \A s \in Sandboxes : byID[s] # l
    BY RelayAssumption DEF RelayInv, LinkShape, CloseStep, CloseSocket, CloseSessions, Collect
<1>2. CASE CloseSocket(l)
    <2> USE <1>2 DEF CloseSocket, RelayInv
    <2>1. TypeOK'
        BY DEF TypeOK
    <2>2. ConnShape' /\ ClosedMeansCut'
        BY DEF TypeOK, ConnShape, ClosedMeansCut, Sessions, Of
    <2>3. LinkShape' /\ OpenShape' /\ CloseShape'
        BY <1>1 DEF TypeOK, LinkShape, OpenShape, CloseShape
    <2> QED BY <2>1, <2>2, <2>3
<1>3. CASE CloseSessions(l)
    <2> USE <1>3 DEF CloseSessions, RelayInv
    <2>1. TypeOK'
        <3>1. conn' \in [Conns -> Session]
            BY CutShape
        <3>2. UNCHANGED byID /\ closing' \subseteq Listeners /\ lsn' = [lsn EXCEPT ![l].closed = TRUE]
            BY DEF TypeOK
        <3> HIDE DEF CloseSessions
        <3> QED BY <3>1, <3>2 DEF TypeOK, Session
    <2>2. ConnShape'
        BY CutShape DEF ConnShape, Sessions
    <2>3. ClosedMeansCut'
        BY CutShape DEF TypeOK, ClosedMeansCut, Sessions, Of
    <2>4. LinkShape' /\ OpenShape' /\ CloseShape'
        BY <1>1 DEF TypeOK, LinkShape, OpenShape, CloseShape
    <2> QED BY <2>1, <2>2, <2>3, <2>4
<1>4. CASE Collect(l)
    <2> USE <1>4 DEF Collect, RelayInv
    <2>1. TypeOK'
        BY DEF TypeOK, FreeListener
    <2>2. ConnShape' /\ ClosedMeansCut'
        BY DEF TypeOK, ConnShape, ClosedMeansCut, Sessions, Of, FreeListener
    <2>3. LinkShape' /\ OpenShape' /\ CloseShape'
        BY <1>1 DEF TypeOK, LinkShape, OpenShape, CloseShape, FreeListener
    <2> QED BY <2>1, <2>2, <2>3
<1> QED BY <1>2, <1>3, <1>4 DEF CloseStep

---------------------------------------------------------------------------
(* Ensure: the stale listener goes and another may come. *)

(* The two halves of EnsureOpen, by what they do to every listener and     *)
(* every connection. *)
Kept(old) == IF old = None THEN lsn ELSE [lsn EXCEPT ![old].sock = "closed", ![old].closed = TRUE]
FreeOf(old, foreign) ==
    {p \in Ports \ foreign : \A l \in Listeners : Kept(old)[l].sock = "open" => Kept(old)[l].port # p}

ListenerType == [sock : {"none", "open", "closed"}, port : Ports \cup {None},
                 target : Targets \cup {None}, closed : BOOLEAN]

LEMMA KeptShape ==
    ASSUME RelayInv, NEW s \in Sandboxes
    PROVE  /\ Kept(byID[s]) \in [Listeners -> ListenerType]
           /\ \A l \in Listeners \ {byID[s]} : Kept(byID[s])[l] = lsn[l]
           /\ byID[s] # None => /\ byID[s] \in Listeners
                               /\ Kept(byID[s])[byID[s]].sock = "closed" /\ Kept(byID[s])[byID[s]].closed
<1>1. lsn \in [Listeners -> ListenerType] /\ (byID[s] # None => byID[s] \in Listeners)
    BY DEF RelayInv, TypeOK, ListenerType
<1>2. CASE byID[s] = None
    BY <1>1, <1>2 DEF Kept
<1>3. CASE byID[s] # None
    <2>1. PICK o \in Listeners : o = byID[s]
        BY <1>1, <1>3
    <2>2. [lsn[o] EXCEPT !.sock = "closed", !.closed = TRUE] \in ListenerType
        BY <1>1 DEF ListenerType
    <2>3. Kept(o) = [lsn EXCEPT ![o] = [lsn[o] EXCEPT !.sock = "closed", !.closed = TRUE]]
        BY <1>1, RelayAssumption DEF Kept, ListenerType
    <2>4. Kept(o)[o] = [lsn[o] EXCEPT !.sock = "closed", !.closed = TRUE]
        BY <1>1, <2>3
    <2>5. Kept(o)[o].sock = "closed" /\ Kept(o)[o].closed
        BY <1>1, <2>4 DEF ListenerType
    <2>6. Kept(o) \in [Listeners -> ListenerType] /\ \A l \in Listeners \ {o} : Kept(o)[l] = lsn[l]
        BY <1>1, <2>2, <2>3
    <2> QED BY <1>3, <2>1, <2>5, <2>6
<1> QED BY <1>2, <1>3

LEMMA EnsureCuts ==
    ASSUME RelayInv, NEW s \in Sandboxes, NEW t \in Targets, NEW p, EnsureOpen(s, t, p)
    PROVE  /\ conn' \in [Conns -> Session]
           /\ \A c \in Conns :
                /\ conn'[c].at = conn[c].at /\ conn'[c].l = conn[c].l
                /\ conn[c].at = "none" => conn'[c] = conn[c]
                /\ conn[c].at \notin {"pipe", "drop"} => conn'[c].up = conn[c].up
                /\ conn'[c] = conn[c] \/ (conn'[c].client = "closed" /\ (conn[c].at \in {"pipe", "drop"} => conn'[c].up # "open"))
                /\ byID[s] # None /\ c \in Sessions(byID[s]) => conn'[c].client = "closed" /\ (conn[c].at \in {"pipe", "drop"} => conn'[c].up # "open")
<1>1. CASE byID[s] = None
    BY <1>1 DEF EnsureOpen, RelayInv, TypeOK, Session
<1>2. CASE byID[s] # None
    <2>1. byID[s] \in Listeners /\ conn' = CutAll(byID[s])
        BY <1>2 DEF EnsureOpen, RelayInv, TypeOK
    <2> QED BY <2>1, CutShape DEF RelayInv, Sessions
<1> QED BY <1>1, <1>2

LEMMA EnsureOpenCases ==
    ASSUME RelayInv, NEW s \in Sandboxes, NEW t \in Targets, NEW p, EnsureOpen(s, t, p)
    PROVE  /\ UNCHANGED closing
           /\ byID[s] # None => lsn[byID[s]].target # t
           /\ \/ byID' = [byID EXCEPT ![s] = None] /\ lsn' = Kept(byID[s])
              \/ \E l \in Listeners, q \in Ports :
                    /\ lsn[l] = FreeListener /\ l # byID[s]
                    /\ \A m \in Listeners : Kept(byID[s])[m].sock = "open" => Kept(byID[s])[m].port # q
                    /\ byID' = [byID EXCEPT ![s] = l]
                    /\ lsn' = [Kept(byID[s]) EXCEPT ![l] = [sock |-> "open", port |-> q, target |-> t, closed |-> FALSE]]
<1>1. PICK foreign \in SUBSET Ports :
          \/ byID' = [byID EXCEPT ![s] = None] /\ lsn' = Kept(byID[s])
          \/ /\ FreeOf(byID[s], foreign) # {}
             /\ \E l \in Listeners :
                   /\ lsn[l] = FreeListener
                   /\ byID' = [byID EXCEPT ![s] = l]
                   /\ lsn' = [Kept(byID[s]) EXCEPT ![l] =
                                [sock |-> "open", port |-> Chosen(p, FreeOf(byID[s], foreign)), target |-> t, closed |-> FALSE]]
    BY DEF EnsureOpen, Kept, FreeOf
<1>2. \A l \in Listeners : lsn[l] = FreeListener => l # byID[s]
    BY RelayAssumption DEF RelayInv, LinkShape, FreeListener
<1>3. FreeOf(byID[s], foreign) # {} => Chosen(p, FreeOf(byID[s], foreign)) \in FreeOf(byID[s], foreign)
    BY ChosenIsFree DEF FreeOf
<1>4. UNCHANGED closing /\ (byID[s] # None => lsn[byID[s]].target # t)
    BY DEF EnsureOpen
<1>5. CASE byID' = [byID EXCEPT ![s] = None] /\ lsn' = Kept(byID[s])
    BY <1>4, <1>5
<1>6. ASSUME NEW l \in Listeners, FreeOf(byID[s], foreign) # {}, lsn[l] = FreeListener,
             byID' = [byID EXCEPT ![s] = l],
             lsn' = [Kept(byID[s]) EXCEPT ![l] =
                        [sock |-> "open", port |-> Chosen(p, FreeOf(byID[s], foreign)), target |-> t, closed |-> FALSE]]
      PROVE  \E q \in Ports :
                /\ \A m \in Listeners : Kept(byID[s])[m].sock = "open" => Kept(byID[s])[m].port # q
                /\ lsn' = [Kept(byID[s]) EXCEPT ![l] = [sock |-> "open", port |-> q, target |-> t, closed |-> FALSE]]
    <2>1. PICK q \in FreeOf(byID[s], foreign) : q = Chosen(p, FreeOf(byID[s], foreign))
        BY <1>3, <1>6
    <2>2. q \in Ports /\ \A m \in Listeners : Kept(byID[s])[m].sock = "open" => Kept(byID[s])[m].port # q
        BY DEF FreeOf
    <2> QED BY <1>6, <2>1, <2>2
<1> QED BY <1>1, <1>2, <1>4, <1>5, <1>6

LEMMA EnsureOpenKeeps ==
    ASSUME RelayInv, NEW s \in Sandboxes, NEW t \in Targets, NEW p, EnsureOpen(s, t, p)
    PROVE  RelayInv'
<1>1. /\ lsn \in [Listeners -> ListenerType] /\ closing \subseteq Listeners
      /\ byID \in [Sandboxes -> Listeners \cup {None}]
    BY DEF RelayInv, TypeOK, ListenerType
<1>2. UNCHANGED closing
    BY EnsureOpenCases
(* What is the same however the call ends: every other listener is left    *)
(* alone, and a new one may be any object that was free.                   *)
<1>3. ASSUME NEW S \in SUBSET Listeners,
             lsn' \in [Listeners -> ListenerType],
             byID' \in [Sandboxes -> Listeners \cup {None}],
             \A m \in Listeners \ S : m # byID[s] => lsn'[m] = lsn[m],
             byID[s] # None => byID[s] \in Listeners /\ lsn'[byID[s]].sock = "closed" /\ lsn'[byID[s]].closed,
             \A u \in Sandboxes \ {s} : byID'[u] = byID[u],
             \A m \in S : /\ lsn[m] = FreeListener /\ lsn'[m].sock = "open" /\ ~lsn'[m].closed
                          /\ lsn'[m].port \in Ports /\ lsn'[m].target \in Targets /\ m # byID[s]
                          /\ \A k \in Listeners \ {m} : lsn'[k].sock = "open" => lsn'[k].port # lsn'[m].port,
             byID'[s] = None \/ byID'[s] \in S
      PROVE  RelayInv'
    <2>1. TypeOK'
        BY <1>1, <1>2, <1>3, EnsureCuts DEF TypeOK, Session, ListenerType
    <2>2. ConnShape'
        BY EnsureCuts DEF RelayInv, ConnShape, FreeConn
    <2>3. \A m \in S : m \notin closing /\ lsn[m].sock = "none" /\ \A u \in Sandboxes : byID[u] # m
        BY <1>1, <1>3, RelayAssumption DEF RelayInv, CloseShape, LinkShape, FreeListener
    <2>4. byID[s] # None => byID[s] \notin closing /\ \A u \in Sandboxes \ {s} : byID[u] # byID[s]
        BY DEF RelayInv, LinkShape
    <2>5. LinkShape'
        <3>1. SUFFICES ASSUME NEW u \in Sandboxes, byID'[u] # None
                       PROVE  /\ lsn'[byID'[u]].sock = "open" /\ ~lsn'[byID'[u]].closed /\ byID'[u] \notin closing
                              /\ lsn'[byID'[u]].target \in Targets
                              /\ \A v \in Sandboxes \ {u} : byID'[v] # byID'[u]
            BY <1>2 DEF LinkShape
        <3>2. CASE u = s
            BY <1>3, <2>3, <3>1, <3>2
        <3>3. CASE u # s
            <4>1. byID'[u] = byID[u] /\ byID[u] # None /\ byID[u] \in Listeners /\ byID[u] # byID[s] /\ byID[u] \notin S
                BY <1>1, <1>3, <2>3, <2>4, <3>1, <3>3
            <4>2. lsn'[byID[u]] = lsn[byID[u]]
                BY <1>3, <4>1
            <4>3. /\ lsn[byID[u]].sock = "open" /\ ~lsn[byID[u]].closed /\ byID[u] \notin closing
                  /\ lsn[byID[u]].target \in Targets
                  /\ \A v \in Sandboxes \ {u} : byID[v] # byID[u]
                BY <4>1 DEF RelayInv, LinkShape
            <4>4. \A v \in Sandboxes \ {u} : byID'[v] # byID[u]
                BY <1>3, <4>1, <4>3
            <4> QED BY <4>1, <4>2, <4>3, <4>4
        <3> QED BY <3>2, <3>3
    <2>6. OpenShape'
        <3>1. SUFFICES ASSUME NEW m \in Listeners, lsn'[m].sock = "open"
                       PROVE  /\ lsn'[m].port \in Ports
                              /\ \A k \in Listeners \ {m} : lsn'[k].sock = "open" => lsn'[k].port # lsn'[m].port
            BY DEF OpenShape
        <3>2. CASE m \in S
            BY <1>3, <3>2
        <3>3. CASE m \notin S
            <4>1. lsn'[m] = lsn[m]
                BY <1>3, <3>1, <3>3, RelayAssumption
            <4>2. ASSUME NEW k \in Listeners \ {m}, lsn'[k].sock = "open" PROVE lsn'[k].port # lsn'[m].port
                <5>1. CASE k \in S
                    BY <1>3, <3>1, <5>1
                <5>2. CASE k \notin S
                    <6>1. lsn'[k] = lsn[k]
                        BY <1>3, <4>2, <5>2, RelayAssumption
                    <6> QED BY <3>1, <4>1, <4>2, <6>1 DEF RelayInv, OpenShape
                <5> QED BY <5>1, <5>2
            <4>3. lsn'[m].port \in Ports
                BY <3>1, <4>1 DEF RelayInv, OpenShape
            <4> QED BY <4>2, <4>3
        <3> QED BY <3>2, <3>3
    <2>7. CloseShape'
        <3>1. SUFFICES ASSUME NEW m \in closing PROVE lsn'[m].sock # "none" /\ ~lsn'[m].closed
            BY <1>2 DEF CloseShape
        <3>2. m \in Listeners /\ m \notin S /\ m # byID[s]
            BY <1>1, <2>3, <2>4, RelayAssumption
        <3>3. lsn'[m] = lsn[m]
            BY <1>3, <3>2
        <3> QED BY <3>3 DEF RelayInv, CloseShape
    <2>8. ClosedMeansCut'
        <3>1. SUFFICES ASSUME NEW m \in Listeners, lsn'[m].closed, NEW c \in Conns,
                              conn'[c].l = m, conn'[c].at \in {"dial", "dialed", "pipe", "drop"}
                       PROVE  conn'[c].client = "closed" /\ (conn'[c].at \in {"pipe", "drop"} => conn'[c].up # "open")
            BY DEF ClosedMeansCut, Sessions, Of
        <3>2. c \in Sessions(m) /\ conn'[c].at = conn[c].at
            BY <3>1, EnsureCuts DEF Sessions, Of
        <3>3. CASE m = byID[s]
            BY <1>3, <3>2, <3>3, RelayAssumption, EnsureCuts
        <3>4. CASE m # byID[s]
            <4>1. lsn[m].closed
                BY <1>3, <3>1, <3>4
            <4>2. conn[c].client = "closed" /\ (conn[c].at \in {"pipe", "drop"} => conn[c].up # "open")
                BY <3>2, <4>1 DEF RelayInv, ClosedMeansCut
            <4> QED BY <3>2, <4>2, EnsureCuts
        <3> QED BY <3>3, <3>4
    <2> QED BY <2>1, <2>2, <2>5, <2>6, <2>7, <2>8 DEF RelayInv
<1>4. CASE byID' = [byID EXCEPT ![s] = None] /\ lsn' = Kept(byID[s])
    <2>1. {} \in SUBSET Listeners
        OBVIOUS
    <2>2. /\ lsn' \in [Listeners -> ListenerType]
          /\ \A m \in Listeners \ {} : m # byID[s] => lsn'[m] = lsn[m]
          /\ byID[s] # None => byID[s] \in Listeners /\ lsn'[byID[s]].sock = "closed" /\ lsn'[byID[s]].closed
        BY <1>4, KeptShape
    <2>3. /\ byID' \in [Sandboxes -> Listeners \cup {None}] /\ byID'[s] = None
          /\ \A u \in Sandboxes \ {s} : byID'[u] = byID[u]
        BY <1>1, <1>4
    <2>4. \A m \in {} : FALSE
        OBVIOUS
    <2> QED BY <1>3, <2>1, <2>2, <2>3, <2>4
<1>5. ASSUME NEW l \in Listeners, NEW q \in Ports,
             lsn[l] = FreeListener, l # byID[s],
             \A m \in Listeners : Kept(byID[s])[m].sock = "open" => Kept(byID[s])[m].port # q,
             byID' = [byID EXCEPT ![s] = l],
             lsn' = [Kept(byID[s]) EXCEPT ![l] = [sock |-> "open", port |-> q, target |-> t, closed |-> FALSE]]
      PROVE  RelayInv'
    <2>1. lsn' \in [Listeners -> ListenerType]
        BY <1>5, KeptShape DEF ListenerType
    <2>2. /\ \A m \in Listeners \ {l} : lsn'[m] = Kept(byID[s])[m]
          /\ lsn'[l] = [sock |-> "open", port |-> q, target |-> t, closed |-> FALSE]
        BY <1>5, KeptShape
    <2>3. /\ byID' \in [Sandboxes -> Listeners \cup {None}] /\ byID'[s] = l
          /\ \A u \in Sandboxes \ {s} : byID'[u] = byID[u]
        BY <1>1, <1>5
    <2>4. /\ \A m \in Listeners \ {l} : m # byID[s] => lsn'[m] = lsn[m]
          /\ byID[s] # None => byID[s] \in Listeners /\ lsn'[byID[s]].sock = "closed" /\ lsn'[byID[s]].closed
        BY <1>5, <2>2, KeptShape
    <2>5. \A k \in Listeners \ {l} : lsn'[k].sock = "open" => lsn'[k].port # lsn'[l].port
        BY <1>5, <2>2
    <2>6. \A m \in {l} : /\ lsn[m] = FreeListener /\ lsn'[m].sock = "open" /\ ~lsn'[m].closed
                         /\ lsn'[m].port \in Ports /\ lsn'[m].target \in Targets /\ m # byID[s]
                         /\ \A k \in Listeners \ {m} : lsn'[k].sock = "open" => lsn'[k].port # lsn'[m].port
        BY <1>5, <2>2, <2>5
    <2>7. {l} \in SUBSET Listeners /\ byID'[s] \in {l}
        BY <2>3
    <2> QED BY <1>3, <2>1, <2>3, <2>4, <2>6, <2>7
<1> QED BY <1>4, <1>5, EnsureOpenCases

---------------------------------------------------------------------------
(* The theorems. *)

LEMMA RelayStep == RelayInv /\ [Next]_vars => RelayInv'
<1> SUFFICES ASSUME RelayInv, [Next]_vars PROVE RelayInv'
    OBVIOUS
<1>1. ASSUME NEW s \in Sandboxes, NEW t \in Targets, Ensure(s, t) PROVE RelayInv'
    <2>1. CASE UNCHANGED vars
        BY <2>1 DEF vars, RelayInv, TypeOK, ConnShape, LinkShape, OpenShape, CloseShape, ClosedMeansCut, Sessions, Of
    <2> QED BY <1>1, <2>1, EnsureOpenKeeps DEF Ensure, EnsureReuse
<1>2. CASE UNCHANGED vars
    BY <1>2 DEF vars, RelayInv, TypeOK, ConnShape, LinkShape, OpenShape, CloseShape, ClosedMeansCut, Sessions, Of
<1> QED BY <1>1, <1>2, CloseKeeps, RetainKeeps, CloseStepKeeps, ConnStepKeeps DEF Next

LEMMA RelayAlways == Spec => []RelayInv
BY RelayInit, RelayStep, PTL DEF Spec

(* The state of the relay keeps its types: in particular what byID, a      *)
(* listener and a session refer to is always there (relay.go).             *)
THEOREM RelayTypes == Spec => []TypeOK
<1>1. RelayInv => TypeOK
    BY DEF RelayInv
<1> QED BY <1>1, RelayAlways, PTL

(* Once close() is through with a listener nothing flows through it, not   *)
(* even for a connection whose dial was under way (relay.go, the second    *)
(* look at l.closed in pipe).                                              *)
THEOREM ClosedListenerIsCut == Spec => []ClosedMeansCut
<1>1. RelayInv => ClosedMeansCut
    BY DEF RelayInv
<1> QED BY <1>1, RelayAlways, PTL

(* Whatever Ensure finds in byID accepts connections, and on a port that   *)
(* no other sandbox has (relay.go, Ensure's reuse of a live listener).     *)
THEOREM LinkedListenersAlwaysServe == Spec => []LinkedListenersServe
<1>1. RelayInv => LinkedListenersServe
    BY DEF RelayInv, TypeOK, LinkShape, OpenShape, LinkedListenersServe
<1> QED BY <1>1, RelayAlways, PTL

LEMMA SessionsMove ==
    ASSUME RelayInv, SessionCap, [Next]_vars, NEW l \in Listeners
    PROVE  \/ Sessions(l)' \subseteq Sessions(l)
           \/ \E c \in Conns : Sessions(l)' = Sessions(l) \cup {c} /\ Cardinality(Sessions(l)) < MaxSessions
<1>1. ASSUME \A c \in Conns : conn'[c].at = conn[c].at /\ conn'[c].l = conn[c].l
      PROVE  Sessions(l)' \subseteq Sessions(l)
    BY <1>1 DEF Sessions, Of
<1>2. ASSUME NEW c \in Conns, NEW k, SetConn(c, k), conn[c].at \in {"dial", "dialed", "pipe", "drop"},
             k = FreeConn \/ k.l = conn[c].l
      PROVE  Sessions(l)' \subseteq Sessions(l)
    BY <1>2 DEF RelayInv, TypeOK, SetConn, Sessions, Of, FreeConn
<1>3. ASSUME NEW s \in Sandboxes, NEW t \in Targets, Ensure(s, t)
      PROVE  Sessions(l)' \subseteq Sessions(l)
    BY <1>1, <1>3, EnsureCuts DEF Ensure, EnsureReuse, vars
<1>4. ASSUME NEW m \in Listeners, CloseStep(m) \/ Collect(m)
      PROVE  Sessions(l)' \subseteq Sessions(l)
    <2>1. TypeOK
        BY DEF RelayInv
    <2> QED BY <1>1, <1>4, <2>1, CutShape DEF CloseStep, CloseSocket, CloseSessions, Collect
<1>5. ASSUME NEW c \in Conns, NEW m \in Listeners, Accept(c, m)
      PROVE  Sessions(l)' \subseteq Sessions(l)
    BY <1>5 DEF RelayInv, TypeOK, Accept, SetConn, Sessions, Of
<1>6. ASSUME NEW c \in Conns, Register(c)
      PROVE  \/ Sessions(l)' \subseteq Sessions(l)
             \/ Sessions(l)' = Sessions(l) \cup {c} /\ Cardinality(Sessions(l)) < MaxSessions
    <2>1. CASE SetConn(c, FreeConn)
        BY <1>6, <2>1 DEF RelayInv, TypeOK, SetConn, Sessions, Of, FreeConn
    <2>2. CASE /\ SetConn(c, [conn[c] EXCEPT !.at = "dial"])
               /\ Cardinality(Sessions(conn[c].l)) < MaxSessions
        <3>1. \A d \in Conns : conn'[d].l = conn[d].l /\ conn'[d].at = IF d = c THEN "dial" ELSE conn[d].at
            BY <2>2 DEF RelayInv, TypeOK, SetConn
        <3>2. CASE conn[c].l = l
            BY <2>2, <3>1, <3>2 DEF Sessions, Of
        <3>3. CASE conn[c].l # l
            BY <3>1, <3>3 DEF Sessions, Of
        <3> QED BY <3>2, <3>3
    <2> QED BY <1>6, <2>1, <2>2 DEF Register
<1>7. ASSUME NEW c \in Conns, Dial(c) \/ Adopt(c) \/ HangUp(c) \/ Drop(c)
      PROVE  Sessions(l)' \subseteq Sessions(l)
    <2>1. conn[c].at \in {"dial", "dialed", "pipe", "drop"}
        BY <1>7 DEF Dial, Adopt, HangUp, Drop
    <2>2. \E k : SetConn(c, k) /\ (k = FreeConn \/ k.l = conn[c].l)
        <3>1. CASE Dial(c)
            <4>1. [conn[c] EXCEPT !.at = "dialed", !.up = "open"].l = conn[c].l /\ [conn[c] EXCEPT !.at = "drop"].l = conn[c].l
                BY DEF RelayInv, TypeOK
            <4> QED BY <3>1, <4>1 DEF Dial
        <3>2. CASE Adopt(c)
            <4>1. [conn[c] EXCEPT !.at = "drop", !.up = "closed"].l = conn[c].l /\ [conn[c] EXCEPT !.at = "pipe"].l = conn[c].l
                BY DEF RelayInv, TypeOK
            <4> QED BY <3>2, <4>1 DEF Adopt
        <3>3. CASE HangUp(c)
            <4>1. [conn[c] EXCEPT !.at = "drop"].l = conn[c].l
                BY DEF RelayInv, TypeOK
            <4> QED BY <3>3, <4>1 DEF HangUp
        <3>4. CASE Drop(c)
            BY <3>4 DEF Drop
        <3> QED BY <1>7, <3>1, <3>2, <3>3, <3>4
    <2> QED BY <1>2, <2>1, <2>2
<1>8. CASE UNCHANGED conn
    BY <1>1, <1>8
<1> QED BY <1>3, <1>4, <1>5, <1>6, <1>7, <1>8 DEF Next, ConnStep, CopyEnds, Close, Retain, vars

(* A listener never carries more than maxSessionsPerSandbox sessions, for  *)
(* any number of connections (relay.go, serve's check under l.mu).         *)
THEOREM SessionsAlwaysCapped == Spec => []SessionCap
<1>1. Init => SessionCap
    <2>1. Init => \A l \in Listeners : Sessions(l) = {}
        BY RelayAssumption DEF Init, Sessions, Of, FreeConn
    <2> QED BY <2>1, FS_EmptySet, RelayAssumption DEF SessionCap
<1>2. RelayInv /\ SessionCap /\ [Next]_vars => SessionCap'
    <2> SUFFICES ASSUME RelayInv, SessionCap, [Next]_vars, NEW l \in Listeners
                 PROVE  Cardinality(Sessions(l)') <= MaxSessions
        BY DEF SessionCap
    <2>1. IsFiniteSet(Sessions(l))
        BY FS_Subset, RelayAssumption DEF Sessions, Of
    <2>2. Cardinality(Sessions(l)) \in Nat /\ Cardinality(Sessions(l)) <= MaxSessions
        BY <2>1, FS_CardinalityType DEF SessionCap
    <2>3. CASE Sessions(l)' \subseteq Sessions(l)
        <3>1. IsFiniteSet(Sessions(l)') /\ Cardinality(Sessions(l)') <= Cardinality(Sessions(l))
            BY <2>1, <2>3, FS_Subset
        <3>2. Cardinality(Sessions(l)') \in Nat
            BY <3>1, FS_CardinalityType
        <3> QED BY <2>2, <3>1, <3>2, RelayAssumption
    <2>4. ASSUME NEW c \in Conns, Sessions(l)' = Sessions(l) \cup {c}, Cardinality(Sessions(l)) < MaxSessions
          PROVE  Cardinality(Sessions(l)') <= MaxSessions
        <3>1. Cardinality(Sessions(l) \cup {c}) \in {Cardinality(Sessions(l)), Cardinality(Sessions(l)) + 1}
            BY <2>1, FS_AddElement
        <3>2. Cardinality(Sessions(l) \cup {c}) <= MaxSessions
            BY <2>2, <2>4, <3>1, RelayAssumption
        <3> QED BY <2>4, <3>2
    <2> QED BY <2>3, <2>4, SessionsMove
<1> QED BY <1>1, <1>2, RelayAlways, PTL DEF Spec

---------------------------------------------------------------------------
(* The relay implements the table. *)

(* The endpoint that the mapping of TableSpec gives a sandbox. *)
Shown(s) == IF byID[s] = None THEN [port |-> None, target |-> None]
            ELSE [port |-> lsn[byID[s]].port, target |-> lsn[byID[s]].target]
ShownTable == [s \in Sandboxes |-> Shown(s)]

LEMMA TableStep ==
    ASSUME RelayInv, [Next]_vars
    PROVE  [Table!Next]_ShownTable
<1>1. ASSUME \A s \in Sandboxes : Shown(s)' = Shown(s) PROVE UNCHANGED ShownTable
    BY <1>1 DEF ShownTable
<1>2. CASE UNCHANGED <<byID, lsn>>
    BY <1>1, <1>2 DEF Shown
<1>3. ASSUME NEW s \in Sandboxes, Close(s) PROVE Table!Close(s)
    <2>1. /\ byID'[s] = None /\ UNCHANGED lsn
          /\ \A u \in Sandboxes \ {s} : byID'[u] = byID[u]
        BY <1>3 DEF Close, RelayInv, TypeOK
    <2>2. ShownTable' = [ShownTable EXCEPT ![s] = [port |-> None, target |-> None]]
        BY <2>1 DEF ShownTable, Shown
    <2> QED BY <2>2 DEF Table!Close, Table!NoEndpoint, ShownTable, Shown
<1>4. ASSUME NEW keep \in [Sandboxes -> Targets \cup {None}], Retain(keep) PROVE Table!Retain(keep)
    <2>1. ASSUME NEW s \in Sandboxes
          PROVE  Shown(s)' = IF keep[s] = Shown(s).target THEN Shown(s) ELSE [port |-> None, target |-> None]
        BY <1>4 DEF Retain, Shown
    <2>2. ShownTable' = [s \in Sandboxes |-> IF keep[s] = ShownTable[s].target THEN ShownTable[s] ELSE [port |-> None, target |-> None]]
        BY <2>1 DEF ShownTable
    <2> QED BY <2>2 DEF Table!Retain, Table!NoEndpoint, ShownTable, Shown
<1>5. ASSUME NEW s \in Sandboxes, NEW t \in Targets, NEW p, EnsureOpen(s, t, p)
      PROVE  Table!Exhausted(s, t) \/ \E q \in Ports : Table!Open(s, t, q)
    <2>1. Shown(s).target # t
        BY <1>5, EnsureOpenCases, RelayAssumption DEF Shown
    <2>2. ASSUME \A u \in Sandboxes \ {s} : byID'[u] = byID[u] /\ (byID[u] # None => lsn'[byID[u]] = lsn[byID[u]]),
                 NEW e, Shown(s)' = e
          PROVE  ShownTable' = [ShownTable EXCEPT ![s] = e]
        BY <2>2 DEF ShownTable, Shown
    <2>3. \A u \in Sandboxes \ {s} : byID[u] # None =>
              byID[u] \in Listeners /\ byID[u] # byID[s] /\ lsn[byID[u]].sock = "open" /\ Kept(byID[s])[byID[u]] = lsn[byID[u]]
        BY KeptShape DEF RelayInv, TypeOK, LinkShape
    <2>4. CASE byID' = [byID EXCEPT ![s] = None] /\ lsn' = Kept(byID[s])
        <3>1. byID'[s] = None /\ \A u \in Sandboxes \ {s} : byID'[u] = byID[u]
            BY <2>4 DEF RelayInv, TypeOK
        <3>2. Shown(s)' = [port |-> None, target |-> None]
            BY <3>1 DEF Shown
        <3>3. ShownTable' = [ShownTable EXCEPT ![s] = [port |-> None, target |-> None]]
            BY <2>2, <2>3, <2>4, <3>1, <3>2
        <3>4. Table!Exhausted(s, t)
            BY <2>1, <3>3 DEF Table!Exhausted, Table!NoEndpoint, ShownTable, Shown
        <3> QED BY <3>4
    <2>5. ASSUME NEW l \in Listeners, NEW q \in Ports,
                 lsn[l] = FreeListener, l # byID[s],
                 \A m \in Listeners : Kept(byID[s])[m].sock = "open" => Kept(byID[s])[m].port # q,
                 byID' = [byID EXCEPT ![s] = l],
                 lsn' = [Kept(byID[s]) EXCEPT ![l] = [sock |-> "open", port |-> q, target |-> t, closed |-> FALSE]]
          PROVE  Table!Open(s, t, q)
        <3>1. byID'[s] = l /\ \A u \in Sandboxes \ {s} : byID'[u] = byID[u]
            BY <2>5 DEF RelayInv, TypeOK
        <3>2. /\ \A m \in Listeners \ {l} : lsn'[m] = Kept(byID[s])[m]
              /\ lsn'[l] = [sock |-> "open", port |-> q, target |-> t, closed |-> FALSE]
            BY <2>5, KeptShape
        <3>3. Shown(s)' = [port |-> q, target |-> t]
            BY <3>1, <3>2, RelayAssumption DEF Shown
        <3>4. \A u \in Sandboxes \ {s} : byID[u] # None => byID[u] # l
            BY <2>3, <2>5 DEF FreeListener
        <3>5. ShownTable' = [ShownTable EXCEPT ![s] = [port |-> q, target |-> t]]
            BY <2>2, <2>3, <3>1, <3>2, <3>3, <3>4
        <3>6. \A u \in Sandboxes \ {s} : Shown(u).port # q
            BY <2>3, <2>5, RelayAssumption DEF Shown
        <3> QED BY <2>1, <3>5, <3>6 DEF Table!Open, Table!FreePorts, ShownTable, Shown
    <2> QED BY <1>5, <2>4, <2>5, EnsureOpenCases
<1>6. ASSUME NEW l \in Listeners, CloseStep(l) \/ Collect(l) PROVE UNCHANGED ShownTable
    <2>1. UNCHANGED byID
        BY <1>6 DEF CloseStep, CloseSocket, CloseSessions, Collect
    <2>2. \A s \in Sandboxes : byID[s] # l
        BY <1>6, RelayAssumption DEF RelayInv, LinkShape, CloseStep, CloseSocket, CloseSessions, Collect
    <2>3. \A m \in Listeners \ {l} : lsn'[m] = lsn[m]
        BY <1>6 DEF RelayInv, TypeOK, CloseStep, CloseSocket, CloseSessions, Collect
    <2>4. \A s \in Sandboxes : byID[s] # None => byID[s] \in Listeners
        BY DEF RelayInv, TypeOK
    <2> QED BY <1>1, <2>1, <2>2, <2>3, <2>4 DEF Shown
<1>7. ASSUME NEW c \in Conns, ConnStep(c) \/ HangUp(c) \/ \E l \in Listeners : Accept(c, l)
      PROVE  UNCHANGED <<byID, lsn>>
    BY <1>7 DEF ConnStep, Register, Dial, Adopt, CopyEnds, HangUp, Drop, Accept, SetConn
<1> QED
    BY <1>2, <1>3, <1>4, <1>5, <1>6, <1>7 DEF Next, Table!Next, Ensure, EnsureReuse, vars

(* Whatever calls, connections and closes interleave, the map of the relay *)
(* changes as RelayTable's Ensure, Close and Retain say (relay.go, byID    *)
(* and the ports of its listeners).                                        *)
THEOREM RelayImplementsTable == Spec => TableSpec
<1>1. Init => Table!Init
    BY DEF Init, Table!Init, Table!NoEndpoint
<1>2. RelayInv /\ [Next]_vars => [Table!Next]_ShownTable
    BY TableStep
<1> QED BY <1>1, <1>2, RelayAlways, PTL DEF Spec, TableSpec, Table!Spec, ShownTable, Shown

=============================================================================
