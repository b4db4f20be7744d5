------------------------- MODULE SSHAccessProofs --------------------------
(***************************************************************************)
(* What SSHAccess guarantees for any sandboxes, addresses, ports, requests *)
(* and teardowns and any number of faults and restarts.                    *)
(***************************************************************************)
EXTENDS SSHAccess, FiniteSetTheorems, TLAPS

---------------------------------------------------------------------------
(* The inductive invariant. *)

(* A call is about a sandbox that has been running and carries its         *)
(* address; a PrepareSSH has a mutex from "lock" on.                       *)
CallShape ==
    \A p \in Openers :
        /\ call[p] # NoCall => rec[call[p].id] # "new" /\ call[p].ip = addr[call[p].id]
        /\ call[p].mu = None <=> call[p].at \in {"idle", "load"} \/ p = Reconciler

(* An address is never changed, so every copy of it is right: the one in   *)
(* keep and the one that a listener leads to.                              *)
AddrShape ==
    /\ rcAt = "open" => \A s \in rcTodo : keep[s] # None
    /\ \A s \in Ids :
        /\ rec[s] # "new" => addr[s] # None
        /\ keep[s] # None => rec[s] # "new" /\ keep[s] = addr[s]
        /\ Relay!Listening(s) => rec[s] # "new" /\ table[s].target = addr[s]

(* "mark, then close": a teardown that is past its first write has marked  *)
(* the record, and until then the VM keeps its address; or the sandbox is  *)
(* one of unmarked.                                                        *)
MarkedFirst ==
    /\ \A d \in Teardowns : td[d] # NoTeardown =>
        /\ rec[td[d].id] # "new"
        /\ td[d].at \in {"close", "vmDelete", "forget"} => rec[td[d].id] # "running" \/ td[d].id \in unmarked
    /\ \A s \in Ids : rec[s] = "running" /\ s \notin unmarked => vm[s] # "none"

AccessInv == TypeOK /\ CallShape /\ AddrShape /\ MarkedFirst

(* What befalls a sandbox outside its teardowns. *)
BoxStep(s) == CreateRunning(s) \/ AttachDevice(s) \/ VMDies(s) \/ CleanupStopped(s) \/ SetupEnds(s)

LEMMA NextBox == Next <=> \/ \E s \in Ids : BoxStep(s)
                          \/ \E p \in Preps : PrepStep(p) \/ \E s \in Ids : PrepGet(p, s)
                          \/ \E d \in Teardowns : \/ TeardownStep(d)
                                                  \/ \E s \in Ids : CreateUndone(d, s) \/ DeleteBegin(d, s) \/ DeadBegin(d, s)
                          \/ ReconcileStep \/ Crash
BY Zenon DEF Next, BoxStep

---------------------------------------------------------------------------
(* The state of one call. *)

(* A mutex that no call on the id uses is always left, since the caller    *)
(* itself has none yet.                                                    *)
LEMMA FreshMutex ==
    ASSUME TypeOK, NEW p \in Preps, call[p].mu = None, NEW Q \in SUBSET Preps
    PROVE  \E m \in Preps : m \notin {call[q].mu : q \in Q}
<1> DEFINE Mu == {call[q].mu : q \in Preps \ {p}}
<1>1. IsFiniteSet(Preps) /\ IsFiniteSet(Preps \ {p}) /\ Cardinality(Preps \ {p}) = Cardinality(Preps) - 1
    BY FS_RemoveElement, SSHAccessAssumption
<1>2. IsFiniteSet(Mu) /\ Cardinality(Mu) <= Cardinality(Preps \ {p})
    <2> DEFINE f == [q \in Preps \ {p} |-> call[q].mu]
    <2>1. f \in Surjection(Preps \ {p}, Mu)
        BY DEF Surjection
    <2> HIDE DEF Mu, f
    <2> QED BY <1>1, <2>1, FS_Surjection, FS_SurjCardinalityBound
<1>3. ASSUME Preps \subseteq Mu PROVE FALSE
    <2>1. Cardinality(Preps) <= Cardinality(Mu)
        BY <1>2, <1>3, FS_Subset
    <2>2. Cardinality(Preps) \in Nat /\ Cardinality(Mu) \in Nat
        BY <1>1, <1>2, FS_CardinalityType
    <2> QED BY <1>1, <1>2, <2>1, <2>2
<1>4. None \notin Preps
    BY SSHAccessAssumption
<1> QED BY <1>3, <1>4

CallType == [at : {"idle", "load", "lock", "exec", "ensure", "remember", "check", "close"},
             id : Ids \cup {None}, ip : Addrs \cup {None}, port : Ports \cup {None}, mu : Preps \cup {None}]

LEMMA CallTypes ==
    ASSUME TypeOK, NEW p \in Openers
    PROVE  /\ call[p] = NoCall <=> call[p].at = "idle"
           /\ call[p] # NoCall => call[p] \in Call
           /\ call[p] = NoCall \/ call[p] \in Call
           /\ call[p].id \in Ids <=> call[p] # NoCall
BY SSHAccessAssumption DEF TypeOK, Call, NoCall

(* A step of a call that goes on keeps what the call is about. *)
Carries(k, c) == k \in Call /\ k.id = c.id /\ k.ip = c.ip
Onward(p, At) == \E k \in Call : SetCall(p, k) /\ Carries(k, call[p]) /\ k.mu = call[p].mu /\ k.at \in At

Steps == {"lock", "exec", "ensure", "remember", "check", "close"}

LEMMA CallOnward ==
    ASSUME AccessInv, NEW p \in Openers, call[p].at # "idle", NEW a \in Steps, NEW q \in Ports \cup {None},
           \/ GoCall(p, a)
           \/ SetCall(p, [call[p] EXCEPT !.at = a])
           \/ SetCall(p, [call[p] EXCEPT !.at = a, !.port = q])
    PROVE  Onward(p, {a})
<1>1. call[p] \in Call
    BY CallTypes DEF AccessInv
<1>2. CASE GoCall(p, a) \/ SetCall(p, [call[p] EXCEPT !.at = a])
    <2> DEFINE k == [call[p] EXCEPT !.at = a]
    <2>1. k \in Call /\ Carries(k, call[p]) /\ k.mu = call[p].mu /\ k.at = a
        BY <1>1 DEF Call, Carries, Steps
    <2>2. SetCall(p, k)
        BY <1>2 DEF GoCall, SetCall
    <2> HIDE DEF k
    <2> QED BY <2>1, <2>2 DEF Onward
<1>3. CASE SetCall(p, [call[p] EXCEPT !.at = a, !.port = q])
    <2> DEFINE k == [call[p] EXCEPT !.at = a, !.port = q]
    <2>1. k \in Call /\ Carries(k, call[p]) /\ k.mu = call[p].mu /\ k.at = a
        BY <1>1 DEF Call, Carries, Steps
    <2> HIDE DEF k
    <2>2. SetCall(p, k)
        BY <1>3 DEF k
    <2> QED BY <2>1, <2>2 DEF Onward
<1> QED BY <1>2, <1>3

LEMMA OpenStepMoves ==
    ASSUME AccessInv, NEW p \in Openers, OpenStep(p)
    PROVE  /\ call[p] \in Call /\ call[p].at \in {"ensure", "remember", "check", "close"}
           /\ EndCall(p) \/ Onward(p, {"remember"}) \/ Onward(p, {"check"}) \/ Onward(p, {"close"})
<1>1. call[p].at \in {"ensure", "remember", "check", "close"}
    BY DEF OpenStep, Ensure, Remember, Check, CloseOpened
<1>2. call[p] \in Call
    BY <1>1, CallTypes DEF AccessInv
<1>3. CASE Ensure(p)
    <2>1. Relay!Reuse(call[p].id, call[p].ip) => table[call[p].id].port \in Ports
        BY <1>2, SSHAccessAssumption DEF AccessInv, TypeOK, Call, Relay!Reuse, Relay!Endpoint, Relay!NoEndpoint
    <2>2. PICK q \in Ports \cup {None} : \/ EndCall(p)
                             \/ SetCall(p, [call[p] EXCEPT !.at = "check", !.port = None])
                             \/ SetCall(p, [call[p] EXCEPT !.at = "remember", !.port = q])
        BY <1>3, <2>1 DEF Ensure, Opened
    <2> QED BY <1>1, <1>2, <2>2, CallOnward DEF Steps
<1>4. CASE Remember(p)
    <2>1. SetCall(p, [call[p] EXCEPT !.at = "check", !.port = None]) \/ SetCall(p, [call[p] EXCEPT !.at = "close", !.port = None])
        BY <1>4 DEF Remember, Opened
    <2> QED BY <1>1, <1>2, <2>1, CallOnward DEF Steps
<1>5. CASE Check(p)
    <2>1. EndCall(p) \/ GoCall(p, "close")
        BY <1>5 DEF Check
    <2> QED BY <1>1, <1>2, <2>1, CallOnward DEF Steps
<1>6. CASE CloseOpened(p)
    BY <1>1, <1>2, <1>6 DEF CloseOpened
<1> QED BY <1>3, <1>4, <1>5, <1>6 DEF OpenStep

GetsMutex(p, k) ==
    /\ SetCall(p, k) /\ Carries(k, call[p]) /\ k.mu \in Preps /\ k.at = "lock"
    /\ sshPrep' = [sshPrep EXCEPT ![call[p].id] = k.mu]
    /\ sshPrep[call[p].id] # None => k.mu = sshPrep[call[p].id]

LEMMA PrepLoadMoves ==
    ASSUME AccessInv, NEW p \in Preps, PrepLoad(p)
    PROVE  /\ call[p] \in Call /\ call[p].at = "load"
           /\ \E k \in Call : GetsMutex(p, k)
<1>1. p \in Openers /\ p # Reconciler
    BY SSHAccessAssumption DEF Openers
<1>2. call[p] \in Call /\ call[p].at = "load" /\ call[p].mu = None /\ call[p].id \in Ids
    <2>1. call[p].at = "load" /\ call[p].mu = None
        BY <1>1 DEF AccessInv, CallShape, PrepLoad
    <2>2. call[p] \in Call
        BY <1>1, <2>1, CallTypes DEF AccessInv
    <2> QED BY <2>1, <2>2 DEF Call
<1> DEFINE Q == {q \in Preps : call[q].id = call[p].id}
<1> DEFINE m == IF sshPrep[call[p].id] # None THEN sshPrep[call[p].id]
                ELSE CHOOSE n \in Preps : n \notin {call[q].mu : q \in Q}
<1>3. /\ sshPrep' = [sshPrep EXCEPT ![call[p].id] = m]
      /\ SetCall(p, [call[p] EXCEPT !.at = "lock", !.mu = m])
    BY DEF PrepLoad
<1>4. m \in Preps
    <2>1. CASE sshPrep[call[p].id] # None
        BY <1>2, <2>1 DEF AccessInv, TypeOK
    <2>2. CASE sshPrep[call[p].id] = None
        <3>1. Q \in SUBSET Preps
            OBVIOUS
        <3> HIDE DEF Q
        <3>2. \E n \in Preps : n \notin {call[q].mu : q \in Q}
            BY <1>2, <3>1, FreshMutex DEF AccessInv
        <3> QED BY <2>2, <3>2
    <2> QED BY <2>1, <2>2
<1>5. sshPrep[call[p].id] # None => m = sshPrep[call[p].id]
    OBVIOUS
<1> DEFINE k == [call[p] EXCEPT !.at = "lock", !.mu = m]
<1> HIDE DEF m
<1>6. k \in Call /\ Carries(k, call[p]) /\ k.mu = m /\ k.at = "lock"
    BY <1>2, <1>4 DEF Call, Carries
<1>7. SetCall(p, k)
    BY <1>3
<1> HIDE DEF k
<1> QED BY <1>2, <1>3, <1>4, <1>5, <1>6, <1>7 DEF GetsMutex

LEMMA PrepStepMoves ==
    ASSUME AccessInv, NEW p \in Preps, PrepLock(p) \/ PrepExec(p)
    PROVE  /\ p \in Openers /\ call[p] \in Call /\ call[p].at \in {"lock", "exec"} /\ UNCHANGED sshPrep
           /\ EndCall(p) \/ Onward(p, {"exec"}) \/ Onward(p, {"ensure"})
<1>1. p \in Openers /\ call[p].at \in {"lock", "exec"} /\ UNCHANGED sshPrep
    BY DEF PrepLock, PrepExec, Openers
<1>2. call[p] \in Call
    BY <1>1, CallTypes DEF AccessInv
<1>3. CASE PrepLock(p)
    BY <1>1, <1>2, <1>3, CallOnward DEF PrepLock, Steps
<1>4. CASE PrepExec(p)
    <2>1. PICK q \in Ports \cup {None} : \/ EndCall(p) \/ GoCall(p, "ensure")
                                        \/ SetCall(p, [call[p] EXCEPT !.at = "ensure", !.port = q])
        BY <1>2, <1>4 DEF PrepExec, AccessInv, TypeOK, Call
    <2> QED BY <1>1, <1>2, <2>1, CallOnward DEF Steps
<1> QED BY <1>3, <1>4

---------------------------------------------------------------------------
(* What a step may do to a record and to the calls. *)

(* No record becomes new again, none that was marked runs again but by     *)
(* AttachDevice, and its address stays; the unmarked are remembered.       *)
LEMMA RecordsOnward ==
    ASSUME TypeOK, [Next]_vars, NEW s \in Ids
    PROVE  /\ rec[s] # "new" => rec'[s] # "new" /\ addr'[s] = addr[s]
           /\ rec'[s] = "running" => rec[s] \in {"new", "running"} \/ s \in unmarked'
           /\ s \in unmarked => s \in unmarked'
<1> USE DEF TypeOK
<1>1. ASSUME NEW u \in Ids, Started(u), unmarked \subseteq unmarked'
      PROVE  /\ unmarked \subseteq unmarked' /\ rec[u] = "new"
             /\ \A v \in Ids \ {u} : rec'[v] = rec[v] /\ addr'[v] = addr[v]
    <2>1. PICK a \in Addrs : addr' = [addr EXCEPT ![u] = a]
        BY <1>1 DEF Started
    <2> QED BY <1>1, <2>1 DEF Started
<1>2. ASSUME NEW u \in Ids, CreateRunning(u) \/ \E d \in Teardowns : CreateUndone(d, u)
      PROVE  Started(u) /\ unmarked \subseteq unmarked'
    BY <1>2 DEF CreateRunning, CreateUndone
<1>3. ASSUME NEW u \in Ids, AttachDevice(u)
      PROVE  /\ addr' = addr /\ unmarked' = unmarked \cup {u} /\ rec'[u] # "new"
             /\ \A v \in Ids \ {u} : rec'[v] = rec[v]
    BY <1>3 DEF AttachDevice
<1>4. ASSUME NEW u \in Ids, VMDies(u) \/ CleanupStopped(u) \/ SetupEnds(u)
      PROVE  UNCHANGED <<rec, addr>> /\ unmarked \subseteq unmarked'
    BY <1>4 DEF VMDies, CleanupStopped, SetupEnds, boxVars
<1>5. ASSUME NEW d \in Teardowns, DeletePut(d) \/ DeadPut(d) \/ Forget(d)
      PROVE  /\ addr' = addr /\ unmarked \subseteq unmarked'
             /\ \A v \in Ids : rec'[v] = rec[v] \/ rec'[v] \in {"terminating", "error", "gone"}
    BY <1>5 DEF DeletePut, DeadPut, Forget, tdRest
<1>6. ASSUME \/ \E p \in Preps : PrepStep(p) \/ \E u \in Ids : PrepGet(p, u)
             \/ \E d \in Teardowns : CloseSSH(d) \/ VMDelete(d) \/ \E u \in Ids : DeleteBegin(d, u) \/ DeadBegin(d, u)
             \/ ReconcileStep \/ Crash \/ UNCHANGED vars
      PROVE  UNCHANGED <<rec, addr, unmarked>>
    BY <1>6 DEF PrepStep, PrepLoad, PrepLock, PrepExec, OpenStep, Ensure, Remember, Check, CloseOpened, PrepGet,
        CloseSSH, VMDelete, DeleteBegin, DeadBegin, ReconcileStep, ReconcileList, ReconcileGet, Retain, ReconcilePort,
        ReconcileDone, Crash, vars, boxVars, boxRest, callRest, execRest, rcRest, tdRest
<1>7. ASSUME NEW d \in Teardowns, TeardownStep(d)
      PROVE  \/ UNCHANGED <<rec, addr, unmarked>>
             \/ /\ addr' = addr /\ unmarked \subseteq unmarked'
                /\ \A v \in Ids : rec'[v] = rec[v] \/ rec'[v] \in {"terminating", "error", "gone"}
    BY <1>5, <1>6, <1>7 DEF TeardownStep
<1> QED BY <1>1, <1>6, <1>3, <1>2, <1>4, <1>7, NextBox DEF BoxStep

(* A call begins with the address of a record that runs or ran, goes on,   *)
(* or ends.                                                                *)
Begins(p, k) ==
    /\ k \in Call /\ rec[k.id] # "new" /\ k.ip = addr[k.id] /\ k.mu = None
    /\ IF p = Reconciler THEN k.at = "ensure" ELSE k.at = "load"
GoesOn(p, k) ==
    /\ call[p] # NoCall /\ Carries(k, call[p]) /\ k.at \in Steps
    /\ k.mu = None <=> p = Reconciler
CallMoves(p) == \E k \in Call \cup {NoCall} : SetCall(p, k) /\ (k = NoCall \/ Begins(p, k) \/ GoesOn(p, k))

LEMMA CallsMove ==
    ASSUME AccessInv, [Next]_vars
    PROVE  UNCHANGED call \/ call' = [p \in Openers |-> NoCall] \/ \E p \in Openers : CallMoves(p)
<1>1. ASSUME NEW p \in Openers, call[p] # NoCall, call[p].at # "load", NEW At \in SUBSET Steps, Onward(p, At) PROVE CallMoves(p)
    <2>1. call[p].mu = None <=> p = Reconciler
        BY <1>1, CallTypes DEF AccessInv, CallShape
    <2>2. PICK k \in Call : SetCall(p, k) /\ Carries(k, call[p]) /\ k.mu = call[p].mu /\ k.at \in At
        BY <1>1 DEF Onward
    <2>3. GoesOn(p, k)
        BY <1>1, <2>1, <2>2 DEF GoesOn
    <2> QED BY <2>2, <2>3 DEF CallMoves
<1>2. ASSUME NEW p \in Openers, EndCall(p) PROVE CallMoves(p)
    BY <1>2 DEF EndCall, CallMoves
<1>3. ASSUME NEW p \in Openers, OpenStep(p) PROVE CallMoves(p)
    <2>1. call[p] # NoCall /\ call[p].at # "load"
        BY <1>3, OpenStepMoves, CallTypes DEF AccessInv
    <2> QED BY <1>1, <1>2, <1>3, <2>1, OpenStepMoves DEF Steps
<1>4. ASSUME NEW p \in Preps, PrepLock(p) \/ PrepExec(p) PROVE p \in Openers /\ CallMoves(p)
    <2>1. p \in Openers /\ call[p] # NoCall /\ call[p].at # "load"
        BY <1>4, PrepStepMoves, CallTypes DEF AccessInv
    <2> QED BY <1>1, <1>2, <1>4, <2>1, PrepStepMoves DEF Steps
<1>5. ASSUME NEW p \in Preps, PrepLoad(p) PROVE p \in Openers /\ CallMoves(p)
    <2>1. p \in Openers /\ p # Reconciler /\ None \notin Preps
        BY SSHAccessAssumption DEF Openers
    <2>2. PICK k \in Call : GetsMutex(p, k)
        BY <1>5, PrepLoadMoves
    <2>3. call[p] # NoCall
        BY <1>5, <2>1, PrepLoadMoves, CallTypes DEF AccessInv
    <2>4. GoesOn(p, k)
        BY <2>1, <2>2, <2>3 DEF GetsMutex, GoesOn, Steps
    <2> QED BY <2>1, <2>2, <2>4 DEF GetsMutex, CallMoves
<1>6. ASSUME NEW p \in Preps, NEW s \in Ids, PrepGet(p, s) PROVE p \in Openers /\ CallMoves(p)
    <2>1. p \in Openers /\ p # Reconciler
        BY SSHAccessAssumption DEF Openers
    <2>2. rec[s] = "running" /\ addr[s] \in Addrs
        BY <1>6 DEF PrepGet, AccessInv, TypeOK, AddrShape
    <2> DEFINE k == [at |-> "load", id |-> s, ip |-> addr[s], port |-> None, mu |-> None]
    <2>3. k \in Call /\ Begins(p, k)
        BY <2>1, <2>2 DEF Begins, Call
    <2>4. SetCall(p, k)
        BY <1>6 DEF PrepGet
    <2> HIDE DEF k
    <2> QED BY <2>1, <2>3, <2>4 DEF CallMoves
<1>7. ASSUME NEW s \in Ids, ReconcilePort(s) PROVE UNCHANGED call \/ CallMoves(Reconciler)
    <2>1. keep[s] \in Addrs /\ rec[s] # "new" /\ keep[s] = addr[s] /\ sshPort[s] \in Ports \cup {None}
        BY <1>7 DEF ReconcilePort, AccessInv, TypeOK, AddrShape
    <2> DEFINE k == [at |-> "ensure", id |-> s, ip |-> keep[s], port |-> sshPort[s], mu |-> None]
    <2>2. k \in Call /\ Begins(Reconciler, k)
        BY <2>1 DEF Begins, Call
    <2>3. SetCall(Reconciler, k) \/ UNCHANGED call
        BY <1>7 DEF ReconcilePort
    <2> HIDE DEF k
    <2> QED BY <2>2, <2>3 DEF CallMoves
<1>8. Reconciler \in Openers
    BY DEF Openers
<1>9. CASE Crash
    BY <1>9 DEF Crash
<1>10. ASSUME \/ \E s \in Ids : BoxStep(s)
              \/ \E d \in Teardowns : TeardownStep(d) \/ \E s \in Ids : CreateUndone(d, s) \/ DeleteBegin(d, s) \/ DeadBegin(d, s)
              \/ ReconcileList \/ Retain \/ ReconcileDone \/ \E s \in Ids : ReconcileGet(s)
              \/ UNCHANGED vars
       PROVE  UNCHANGED call
    BY <1>10 DEF BoxStep, CreateRunning, CreateUndone, AttachDevice, VMDies, CleanupStopped, SetupEnds, calls, TeardownStep, DeletePut, DeadPut, CloseSSH, VMDelete, Forget, DeleteBegin, DeadBegin,
        ReconcileList, Retain, ReconcileDone, ReconcileGet, vars, boxRest, tdRest
<1>11. ASSUME NEW p \in Preps, PrepStep(p) \/ \E s \in Ids : PrepGet(p, s) PROVE \E q \in Openers : CallMoves(q)
    <2>1. p \in Openers
        BY DEF Openers
    <2> QED BY <1>3, <1>4, <1>5, <1>6, <1>11, <2>1 DEF PrepStep
<1>12. CASE ReconcileStep
    BY <1>3, <1>7, <1>8, <1>10, <1>12 DEF ReconcileStep
<1> QED BY <1>9, <1>10, <1>11, <1>12, NextBox

---------------------------------------------------------------------------
(* The types, variable by variable. *)

BoxTypes ==
    /\ rec \in [Ids -> {"new", "creating", "running", "terminating", "error", "gone"}]
    /\ addr \in [Ids -> Addrs \cup {None}]
    /\ vm \in [Ids -> {"none", "live", "dead"}]
    /\ sshPort \in [Ids -> Ports \cup {None}]
    /\ unmarked \subseteq Ids /\ orphans \subseteq Ids
TableTypes ==
    /\ table \in [Ids -> Relay!Endpoint \cup {Relay!NoEndpoint}]
    /\ sshPrep \in [Ids -> Preps \cup {None}]
RunTypes ==
    /\ td \in [Teardowns -> Teardown \cup {NoTeardown}]
    /\ rcAt \in {"idle", "list", "open"} /\ rcTodo \subseteq Ids /\ keep \in [Ids -> Addrs \cup {None}]
BoundTypes == faults \in 0..MaxFaults /\ crashes \in 0..MaxCrashes
CallTypesOK == call \in [Openers -> Call \cup {NoCall}]

LEMMA TypeParts == TypeOK <=> BoxTypes /\ TableTypes /\ RunTypes /\ BoundTypes /\ CallTypesOK
BY Zenon DEF TypeOK, BoxTypes, TableTypes, RunTypes, BoundTypes, CallTypesOK

LEMMA TypePartsNext == TypeOK' <=> BoxTypes' /\ TableTypes' /\ RunTypes' /\ BoundTypes' /\ CallTypesOK'
BY Zenon DEF TypeOK, BoxTypes, TableTypes, RunTypes, BoundTypes, CallTypesOK

LEMMA BoundTypesStep == ASSUME BoundTypes, [Next]_vars PROVE BoundTypes'
<1>1. \/ UNCHANGED <<faults, crashes>>
      \/ Fault /\ UNCHANGED crashes
      \/ UNCHANGED faults /\ crashes < MaxCrashes /\ crashes' = crashes + 1
    <2>1. ASSUME NEW p \in Openers, OpenStep(p) PROVE (NoFault \/ Fault) /\ UNCHANGED crashes
        BY <2>1 DEF OpenStep, Ensure, Remember, Check, CloseOpened, callRest, execRest
    <2>2. ASSUME NEW p \in Preps, PrepLoad(p) \/ PrepLock(p) \/ PrepExec(p) \/ \E s \in Ids : PrepGet(p, s)
          PROVE  (NoFault \/ Fault) /\ UNCHANGED crashes
        BY <2>2 DEF PrepLoad, PrepLock, PrepExec, PrepGet, callRest, execRest
    <2>3. ASSUME ReconcileList \/ Retain \/ ReconcileDone \/ \E s \in Ids : ReconcileGet(s) \/ ReconcilePort(s)
          PROVE  (NoFault \/ Fault) /\ UNCHANGED crashes
        BY <2>3 DEF ReconcileList, Retain, ReconcileDone, ReconcileGet, ReconcilePort, rcRest
    <2>4. ASSUME NEW d \in Teardowns, TeardownStep(d) \/ \E s \in Ids : CreateUndone(d, s) \/ DeleteBegin(d, s) \/ DeadBegin(d, s)
          PROVE  (NoFault \/ Fault) /\ UNCHANGED crashes
        BY <2>4 DEF TeardownStep, DeletePut, DeadPut, CloseSSH, VMDelete, Forget, CreateUndone, DeleteBegin, DeadBegin, calls, tdRest, NoFault
    <2>5. ASSUME NEW s \in Ids, BoxStep(s) PROVE (NoFault \/ Fault) /\ UNCHANGED crashes
        BY <2>5 DEF BoxStep, CreateRunning, AttachDevice, VMDies, CleanupStopped, SetupEnds, calls, boxRest, NoFault
    <2>6. CASE Crash
        BY <2>6 DEF Crash
    <2>7. CASE UNCHANGED vars
        BY <2>7 DEF vars
    <2>8. \A p \in Preps : p \in Openers
        BY DEF Openers
    <2>9. Reconciler \in Openers
        BY DEF Openers
    <2>10. ASSUME NEW p \in Preps, PrepStep(p) \/ \E s \in Ids : PrepGet(p, s) PROVE (NoFault \/ Fault) /\ UNCHANGED crashes
        BY <2>1, <2>2, <2>8, <2>10 DEF PrepStep
    <2>11. ASSUME ReconcileStep PROVE (NoFault \/ Fault) /\ UNCHANGED crashes
        BY <2>1, <2>3, <2>9, <2>11 DEF ReconcileStep
    <2> QED BY <2>4, <2>5, <2>6, <2>7, <2>10, <2>11, NextBox DEF NoFault
<1> QED BY <1>1, SSHAccessAssumption DEF BoundTypes, Fault

LEMMA TableTypesStep == ASSUME AccessInv, [Next]_vars PROVE TableTypes'
<1>1. TableTypes
    BY TypeParts DEF AccessInv
<1>2. ASSUME NEW p \in Openers, OpenStep(p) PROVE TableTypes'
    <2>1. call[p] \in Call
        BY <1>2, OpenStepMoves
    <2>2. UNCHANGED sshPrep
        BY <1>2 DEF OpenStep, Ensure, Remember, Check, CloseOpened
    <2>3. CASE UNCHANGED table
        BY <1>1, <2>2, <2>3 DEF TableTypes
    <2>4. CASE \/ \E q \in Ports : Relay!Open(call[p].id, call[p].ip, q)
               \/ Relay!Exhausted(call[p].id, call[p].ip) \/ Relay!Close(call[p].id)
        <3>1. call[p].ip \in Addrs
            BY <2>1 DEF Call
        <3>2. \A q \in Ports : [port |-> q, target |-> call[p].ip] \in Relay!Endpoint
            BY <3>1 DEF Relay!Endpoint
        <3>3. PICK e \in Relay!Endpoint \cup {Relay!NoEndpoint} : table' = [table EXCEPT ![call[p].id] = e]
            BY <2>4, <3>2 DEF Relay!Open, Relay!Exhausted, Relay!Close
        <3> QED BY <1>1, <2>2, <3>3 DEF TableTypes
    <2> QED BY <1>2, <2>3, <2>4 DEF OpenStep, Ensure, Remember, Check, CloseOpened, Relay!Reuse
<1>3. ASSUME NEW p \in Preps, PrepLoad(p) PROVE TableTypes'
    <2>1. PICK k \in Call : GetsMutex(p, k)
        BY <1>3, PrepLoadMoves
    <2>2. UNCHANGED table
        BY <1>3 DEF PrepLoad
    <2> QED BY <1>1, <2>1, <2>2 DEF TableTypes, GetsMutex
<1>4. ASSUME NEW d \in Teardowns, CloseSSH(d) PROVE TableTypes'
    BY <1>1, <1>4 DEF TableTypes, CloseSSH, Relay!Close
<1>5. CASE Retain
    BY <1>1, <1>5 DEF TableTypes, Retain, Relay!Retain, rcRest
<1>6. CASE Crash
    BY <1>6 DEF TableTypes, Crash
<1>7. ASSUME \/ \E s \in Ids : BoxStep(s)
             \/ \E p \in Preps : PrepLock(p) \/ PrepExec(p) \/ \E s \in Ids : PrepGet(p, s)
             \/ \E d \in Teardowns : DeletePut(d) \/ DeadPut(d) \/ VMDelete(d) \/ Forget(d) \/ \E s \in Ids : CreateUndone(d, s) \/ DeleteBegin(d, s) \/ DeadBegin(d, s)
             \/ ReconcileList \/ ReconcileDone \/ \E s \in Ids : ReconcileGet(s) \/ ReconcilePort(s)
             \/ UNCHANGED vars
      PROVE  UNCHANGED <<table, sshPrep>>
    BY <1>7 DEF BoxStep, CreateRunning, CreateUndone, AttachDevice, VMDies, CleanupStopped, SetupEnds, calls, PrepLock, PrepExec, PrepGet, DeletePut, DeadPut, VMDelete, Forget, DeleteBegin,
        DeadBegin, ReconcileList, ReconcileDone, ReconcileGet, ReconcilePort, vars, boxRest, rcRest
<1>8. CASE UNCHANGED <<table, sshPrep>>
    BY <1>1, <1>8 DEF TableTypes
<1>9. ASSUME NEW p \in Preps, PrepStep(p) PROVE TableTypes'
    <2>1. p \in Openers
        BY DEF Openers
    <2> QED BY <1>2, <1>3, <1>7, <1>8, <1>9, <2>1 DEF PrepStep
<1>10. CASE ReconcileStep
    <2>1. Reconciler \in Openers
        BY DEF Openers
    <2> QED BY <1>2, <1>5, <1>7, <1>8, <1>10, <2>1 DEF ReconcileStep
<1>11. ASSUME NEW d \in Teardowns, TeardownStep(d) PROVE TableTypes'
    BY <1>4, <1>7, <1>8, <1>11 DEF TeardownStep
<1> QED BY <1>6, <1>7, <1>8, <1>9, <1>10, <1>11, NextBox

LEMMA BoxTypesStep == ASSUME AccessInv, [Next]_vars PROVE BoxTypes'
<1>1. BoxTypes /\ RunTypes
    BY TypeParts DEF AccessInv
<1>2. ASSUME NEW s \in Ids, Started(s), UNCHANGED <<sshPort, orphans>>, unmarked' \in {unmarked, unmarked \cup {s}} PROVE BoxTypes'
    <2>1. PICK a \in Addrs : addr' = [addr EXCEPT ![s] = a]
        BY <1>2 DEF Started
    <2> QED BY <1>1, <1>2, <2>1 DEF BoxTypes, Started
<1>3. ASSUME NEW s \in Ids, BoxStep(s) PROVE BoxTypes'
    <2>1. CASE CreateRunning(s)
        BY <1>2, <2>1 DEF CreateRunning, boxRest, calls
    <2>2. CASE AttachDevice(s)
        BY <1>1, <2>2 DEF BoxTypes, AttachDevice, calls
    <2>3. CASE VMDies(s)
        BY <1>1, <2>3 DEF BoxTypes, VMDies, boxRest, calls
    <2>4. CASE CleanupStopped(s)
        BY <1>1, <2>4 DEF BoxTypes, CleanupStopped, boxRest, calls
    <2>5. CASE SetupEnds(s)
        BY <1>1, <2>5 DEF BoxTypes, SetupEnds, boxVars
    <2> QED BY <1>3, <2>1, <2>2, <2>3, <2>4, <2>5 DEF BoxStep
<1>4. ASSUME NEW d \in Teardowns, NEW s \in Ids, CreateUndone(d, s) PROVE BoxTypes'
    BY <1>2, <1>4 DEF CreateUndone, calls
<1>5. ASSUME NEW p \in Preps, PrepExec(p) PROVE BoxTypes'
    <2>1. call[p] \in Call /\ call[p].id \in Ids
        BY <1>5, PrepStepMoves DEF Call
    <2>2. orphans' = orphans \/ orphans' = orphans \cup {call[p].id}
        BY <1>5 DEF PrepExec
    <2> QED BY <1>1, <1>5, <2>1, <2>2 DEF BoxTypes, PrepExec, execRest
<1>6. CASE Crash
    BY <1>1, <1>6 DEF BoxTypes, Crash, boxVars
<1>7. ASSUME NEW p \in Openers, Remember(p) PROVE BoxTypes'
    <2>1. call[p] \in Call
        BY <1>7, OpenStepMoves DEF OpenStep
    <2>2. call[p].port \in Ports \cup {None}
        BY <2>1 DEF Call
    <2> QED BY <1>1, <1>7, <2>2 DEF BoxTypes, Remember, callRest, execRest
<1>8. ASSUME NEW d \in Teardowns, TeardownStep(d) PROVE BoxTypes'
    <2>1. td[d] \in Teardown
        BY <1>1, <1>8 DEF RunTypes, TeardownStep, DeletePut, DeadPut, CloseSSH, VMDelete, Forget, NoTeardown
    <2>2. td[d].id \in Ids
        BY <2>1 DEF Teardown
    <2>3. CASE DeletePut(d) \/ DeadPut(d)
        BY <1>1, <2>2, <2>3 DEF BoxTypes, DeletePut, DeadPut, tdRest
    <2>4. CASE CloseSSH(d)
        BY <1>1, <2>4 DEF BoxTypes, CloseSSH, tdRest
    <2>5. CASE VMDelete(d)
        <3>1. PICK left \in {vm[td[d].id], "dead", "none"} : vm' = [vm EXCEPT ![td[d].id] = left]
            BY <2>5 DEF VMDelete
        <3>2. orphans' \in {orphans, orphans \ {td[d].id}}
            BY <2>5 DEF VMDelete
        <3> QED BY <1>1, <2>2, <2>5, <3>1, <3>2 DEF BoxTypes, VMDelete, tdRest
    <2>6. CASE Forget(d)
        BY <1>1, <2>2, <2>6 DEF BoxTypes, Forget, tdRest
    <2> QED BY <1>8, <2>3, <2>4, <2>5, <2>6 DEF TeardownStep
<1>9. ASSUME \/ \E p \in Preps : PrepLoad(p) \/ PrepLock(p) \/ \E s \in Ids : PrepGet(p, s)
             \/ \E p \in Openers : Ensure(p) \/ Check(p) \/ CloseOpened(p)
             \/ \E d \in Teardowns, s \in Ids : DeleteBegin(d, s) \/ DeadBegin(d, s)
             \/ ReconcileList \/ Retain \/ ReconcileDone \/ \E s \in Ids : ReconcileGet(s) \/ ReconcilePort(s)
             \/ UNCHANGED vars
      PROVE  UNCHANGED <<rec, addr, vm, sshPort, unmarked, orphans>>
    BY <1>9 DEF PrepLoad, PrepLock, PrepGet, Ensure, Check, CloseOpened, DeleteBegin, DeadBegin, ReconcileList,
        Retain, ReconcileDone, ReconcileGet, ReconcilePort, vars, boxVars, callRest, execRest, rcRest, tdRest
<1>10. CASE UNCHANGED <<rec, addr, vm, sshPort, unmarked, orphans>>
    BY <1>1, <1>10 DEF BoxTypes
<1>11. \A p \in Preps \cup {Reconciler} : p \in Openers
    BY DEF Openers
<1>12. ASSUME NEW p \in Openers, OpenStep(p) PROVE BoxTypes'
    BY <1>7, <1>9, <1>10, <1>12 DEF OpenStep
<1>13. ASSUME NEW p \in Preps, PrepStep(p) \/ \E s \in Ids : PrepGet(p, s) PROVE BoxTypes'
    BY <1>9, <1>10, <1>11, <1>12, <1>13, <1>5 DEF PrepStep
<1>14. CASE ReconcileStep
    BY <1>9, <1>10, <1>11, <1>12, <1>14 DEF ReconcileStep
<1> QED BY <1>3, <1>8, <1>9, <1>10, <1>13, <1>14, <1>4, <1>6, NextBox

(* The teardowns, and what is left of reconcileSSH's pass. *)
LEMMA RunsMove ==
    ASSUME AccessInv, [Next]_vars
    PROVE  RunTypes' /\ (rcAt' = "open" => \A s \in rcTodo' : keep'[s] # None)
<1>1. RunTypes /\ BoxTypes /\ (rcAt = "open" => \A s \in rcTodo : keep[s] # None)
    BY TypeParts DEF AccessInv, AddrShape
<1>2. ASSUME NEW s \in Ids, ReconcileGet(s)
      PROVE  RunTypes' /\ rcAt' = "list"
    BY <1>1, <1>2 DEF RunTypes, BoxTypes, ReconcileGet, rcRest
<1>3. ASSUME NEW s \in Ids, ReconcilePort(s)
      PROVE  RunTypes' /\ \A u \in rcTodo' : keep'[u] # None
    BY <1>1, <1>3 DEF RunTypes, ReconcilePort, rcRest
<1>4. ASSUME ReconcileList \/ ReconcileDone PROVE RunTypes' /\ rcAt' # "open"
    BY <1>1, <1>4 DEF RunTypes, ReconcileList, ReconcileDone, rcRest
<1>5. CASE Retain
    BY <1>1, <1>5 DEF RunTypes, Retain, rcRest
<1>6. CASE Crash
    BY <1>1, <1>6 DEF RunTypes, Crash
<1>7. ASSUME NEW d \in Teardowns, TeardownStep(d) \/ \E s \in Ids : CreateUndone(d, s) \/ DeleteBegin(d, s) \/ DeadBegin(d, s)
      PROVE  UNCHANGED rcVars /\ RunTypes'
    <2>1. UNCHANGED rcVars
        BY <1>7 DEF TeardownStep, DeletePut, DeadPut, CloseSSH, VMDelete, Forget, CreateUndone, DeleteBegin, DeadBegin, calls, tdRest
    <2>2. PICK t \in Teardown \cup {NoTeardown} : td' = [td EXCEPT ![d] = t]
        <3>1. ASSUME NEW s \in Ids, CreateUndone(d, s) \/ DeleteBegin(d, s) \/ DeadBegin(d, s)
              PROVE  \E t \in Teardown : td' = [td EXCEPT ![d] = t]
            <4>1. \A a \in {"put", "putError", "vmDelete"} : [at |-> a, id |-> s] \in Teardown
                BY DEF Teardown
            <4> QED BY <3>1, <4>1 DEF CreateUndone, DeleteBegin, DeadBegin
        <3>2. CASE TeardownStep(d)
            <4>1. td[d] \in Teardown
                BY <1>1, <3>2 DEF RunTypes, TeardownStep, DeletePut, DeadPut, CloseSSH, VMDelete, Forget, NoTeardown
            <4>2. \A a \in {"close", "vmDelete", "forget"} :
                    [td[d] EXCEPT !.at = a] \in Teardown /\ [td EXCEPT ![d].at = a] = [td EXCEPT ![d] = [td[d] EXCEPT !.at = a]]
                BY <4>1 DEF Teardown
            <4>3. EndDown(d) \/ \E a \in {"close", "vmDelete", "forget"} : GoDown(d, a)
                BY <3>2 DEF TeardownStep, DeletePut, DeadPut, CloseSSH, VMDelete, Forget
            <4> QED BY <4>2, <4>3 DEF EndDown, GoDown
        <3> QED BY <1>7, <3>1, <3>2
    <2> QED BY <1>1, <2>1, <2>2 DEF RunTypes, rcVars
<1>8. ASSUME \/ \E s \in Ids : BoxStep(s)
             \/ \E p \in Preps : PrepLoad(p) \/ PrepLock(p) \/ PrepExec(p) \/ \E s \in Ids : PrepGet(p, s)
             \/ \E p \in Openers : OpenStep(p)
             \/ UNCHANGED vars
      PROVE  UNCHANGED <<td, rcVars>>
    BY <1>8 DEF BoxStep, CreateRunning, CreateUndone, AttachDevice, VMDies, CleanupStopped, SetupEnds, calls, PrepLoad, PrepLock, PrepExec, PrepGet, OpenStep, Ensure, Remember, Check, CloseOpened,
        vars, boxRest, callRest, execRest
<1>9. CASE UNCHANGED <<td, rcVars>>
    BY <1>1, <1>9 DEF RunTypes, rcVars
<1>10. \A p \in Preps \cup {Reconciler} : p \in Openers
    BY DEF Openers
<1>11. ASSUME NEW p \in Preps, PrepStep(p) \/ \E s \in Ids : PrepGet(p, s) PROVE UNCHANGED <<td, rcVars>>
    BY <1>8, <1>10, <1>11 DEF PrepStep
<1>12. CASE ReconcileStep
    BY <1>2, <1>3, <1>4, <1>5, <1>8, <1>9, <1>10, <1>12 DEF ReconcileStep
<1>13. CASE UNCHANGED rcVars /\ RunTypes'
    BY <1>1, <1>13 DEF rcVars
<1> QED BY <1>6, <1>7, <1>8, <1>9, <1>11, <1>12, <1>13, NextBox

LEMMA TypesStep == ASSUME AccessInv, [Next]_vars PROVE TypeOK'
<1>1. CallTypesOK'
    <2>1. CallTypesOK
        BY TypeParts DEF AccessInv
    <2>2. CASE UNCHANGED call
        BY <2>1, <2>2 DEF CallTypesOK
    <2>3. CASE call' = [p \in Openers |-> NoCall]
        BY <2>3 DEF CallTypesOK
    <2>4. ASSUME NEW p \in Openers, CallMoves(p) PROVE CallTypesOK'
        BY <2>1, <2>4 DEF CallTypesOK, CallMoves, SetCall
    <2> QED BY <2>2, <2>3, <2>4, CallsMove
<1>2. BoundTypes'
    BY BoundTypesStep, TypeParts DEF AccessInv
<1> QED BY <1>1, <1>2, BoxTypesStep, TableTypesStep, RunsMove, TypePartsNext

---------------------------------------------------------------------------
(* The invariant is kept. *)

LEMMA CallShapeStep == ASSUME AccessInv, [Next]_vars PROVE CallShape'
<1>1. ASSUME NEW p \in Openers, call[p] # NoCall
      PROVE  /\ rec'[call[p].id] # "new" /\ call[p].ip = addr'[call[p].id]
             /\ call[p].mu = None <=> (call[p].at \in {"idle", "load"} \/ p = Reconciler)
    <2>1. call[p].id \in Ids /\ rec[call[p].id] # "new" /\ call[p].ip = addr[call[p].id]
        BY <1>1, CallTypes DEF AccessInv, CallShape
    <2>2. call[p].mu = None <=> (call[p].at \in {"idle", "load"} \/ p = Reconciler)
        BY DEF AccessInv, CallShape
    <2> QED BY <2>1, <2>2, RecordsOnward DEF AccessInv
<1>2. NoCall.at = "idle" /\ NoCall.mu = None
    BY DEF NoCall
<1>3. CASE UNCHANGED call
    BY <1>1, <1>2, <1>3 DEF CallShape
<1>4. CASE call' = [p \in Openers |-> NoCall]
    BY <1>2, <1>4 DEF CallShape
<1>5. ASSUME NEW p \in Openers, NEW k \in Call \cup {NoCall}, SetCall(p, k), k = NoCall \/ Begins(p, k) \/ GoesOn(p, k)
      PROVE  CallShape'
    <2>1. call'[p] = k /\ \A q \in Openers \ {p} : call'[q] = call[q]
        BY <1>5 DEF SetCall, AccessInv, TypeOK
    <2>2. CASE k = NoCall
        BY <1>1, <1>2, <2>1, <2>2 DEF CallShape
    <2>3. CASE Begins(p, k)
        <3>1. k.id \in Ids /\ rec[k.id] # "new" /\ k.ip = addr[k.id] /\ k.mu = None
            BY <2>3 DEF Begins, Call
        <3>2. k.mu = None <=> (k.at \in {"idle", "load"} \/ p = Reconciler)
            BY <2>3 DEF Begins
        <3>3. rec'[k.id] # "new" /\ k.ip = addr'[k.id]
            BY <3>1, RecordsOnward DEF AccessInv
        <3> QED BY <1>1, <1>2, <2>1, <3>2, <3>3 DEF CallShape
    <2>4. CASE GoesOn(p, k)
        <3>1. rec'[k.id] # "new" /\ k.ip = addr'[k.id]
            BY <1>1, <2>4 DEF GoesOn, Carries
        <3>2. k.mu = None <=> (k.at \in {"idle", "load"} \/ p = Reconciler)
            BY <2>4 DEF GoesOn, Steps
        <3> QED BY <1>1, <1>2, <2>1, <3>1, <3>2 DEF CallShape
    <2> QED BY <1>5, <2>2, <2>3, <2>4
<1> QED BY <1>3, <1>4, <1>5, CallsMove DEF CallMoves

(* keep changes by what reconcileSSH reads, and a listener by the calls of *)
(* the relay.                                                              *)
LEMMA KeepMoves ==
    ASSUME AccessInv, [Next]_vars, NEW s \in Ids
    PROVE  keep'[s] \in {keep[s], None} \/ (rec[s] = "running" /\ keep'[s] = addr[s])
<1> USE DEF AccessInv, TypeOK
<1>1. ASSUME NEW u \in Ids, ReconcileGet(u) PROVE keep'[s] = keep[s] \/ (rec[s] = "running" /\ keep'[s] = addr[s])
    BY <1>1 DEF ReconcileGet
<1>2. ASSUME NEW u \in Ids, ReconcilePort(u) PROVE keep'[s] \in {keep[s], None}
    BY <1>2 DEF ReconcilePort
<1>3. CASE Crash
    BY <1>3 DEF Crash
<1>4. ASSUME \/ \E u \in Ids : BoxStep(u)
             \/ \E p \in Preps : PrepLoad(p) \/ PrepLock(p) \/ PrepExec(p) \/ \E u \in Ids : PrepGet(p, u)
             \/ \E p \in Openers : OpenStep(p)
             \/ \E d \in Teardowns : TeardownStep(d) \/ \E u \in Ids : CreateUndone(d, u) \/ DeleteBegin(d, u) \/ DeadBegin(d, u)
             \/ ReconcileList \/ Retain \/ ReconcileDone \/ UNCHANGED vars
      PROVE  UNCHANGED keep
    BY <1>4 DEF BoxStep, CreateRunning, CreateUndone, AttachDevice, VMDies, CleanupStopped, SetupEnds, calls, PrepLoad, PrepLock, PrepExec, PrepGet, OpenStep, Ensure, Remember, Check, CloseOpened,
        TeardownStep, DeletePut, DeadPut, CloseSSH, VMDelete, Forget, DeleteBegin, DeadBegin, ReconcileList, Retain, ReconcileDone,
        vars, rcVars, boxRest, callRest, execRest, tdRest
<1>5. \A p \in Preps \cup {Reconciler} : p \in Openers
    BY DEF Openers
<1>6. ASSUME NEW p \in Preps, PrepStep(p) \/ \E u \in Ids : PrepGet(p, u) PROVE UNCHANGED keep
    BY <1>4, <1>5, <1>6 DEF PrepStep
<1>7. CASE ReconcileStep
    BY <1>1, <1>2, <1>4, <1>5, <1>7 DEF ReconcileStep
<1> QED BY <1>3, <1>4, <1>6, <1>7, NextBox

NoListener(s) == table'[s] = Relay!NoEndpoint

LEMMA TableMoves ==
    ASSUME AccessInv, [Next]_vars, NEW s \in Ids
    PROVE  \/ table'[s] = table[s]
           \/ NoListener(s)
           \/ \E p \in Openers : /\ Ensure(p) /\ call[p] \in Call /\ call[p].id = s
                                /\ table'[s].target = call[p].ip
<1>1. table \in [Ids -> Relay!Endpoint \cup {Relay!NoEndpoint}]
    BY DEF AccessInv, TypeOK
<1>2. ASSUME NEW p \in Openers, OpenStep(p)
      PROVE  \/ table'[s] = table[s] \/ NoListener(s)
             \/ Ensure(p) /\ call[p] \in Call /\ call[p].id = s /\ table'[s].target = call[p].ip
    <2>1. call[p] \in Call /\ call[p].id \in Ids
        BY <1>2, OpenStepMoves DEF Call
    <2>2. CASE Ensure(p)
        <3>1. CASE Relay!Reuse(call[p].id, call[p].ip)
            BY <3>1 DEF Relay!Reuse
        <3>2. ASSUME NEW q \in Ports, Relay!Open(call[p].id, call[p].ip, q)
              PROVE  table'[s] = table[s] \/ (call[p].id = s /\ table'[s].target = call[p].ip)
            BY <1>1, <2>1, <3>2 DEF Relay!Open
        <3>3. CASE Relay!Exhausted(call[p].id, call[p].ip)
            BY <1>1, <2>1, <3>3 DEF Relay!Exhausted, NoListener
        <3> QED BY <2>1, <2>2, <3>1, <3>2, <3>3 DEF Ensure
    <2>3. CASE CloseOpened(p)
        BY <1>1, <2>1, <2>3 DEF CloseOpened, Relay!Close, NoListener
    <2> QED BY <1>2, <2>2, <2>3 DEF OpenStep, Remember, Check
<1>3. ASSUME NEW d \in Teardowns, CloseSSH(d) PROVE table'[s] = table[s] \/ NoListener(s)
    BY <1>1, <1>3 DEF CloseSSH, Relay!Close, NoListener
<1>4. CASE Retain
    BY <1>1, <1>4 DEF Retain, Relay!Retain, NoListener
<1>5. CASE Crash
    BY <1>5 DEF Crash, NoListener
<1>6. ASSUME \/ \E u \in Ids : BoxStep(u)
             \/ \E p \in Preps : PrepLoad(p) \/ PrepLock(p) \/ PrepExec(p) \/ \E u \in Ids : PrepGet(p, u)
             \/ \E d \in Teardowns : DeletePut(d) \/ DeadPut(d) \/ VMDelete(d) \/ Forget(d) \/ \E u \in Ids : CreateUndone(d, u) \/ DeleteBegin(d, u) \/ DeadBegin(d, u)
             \/ ReconcileList \/ ReconcileDone \/ \E u \in Ids : ReconcileGet(u) \/ ReconcilePort(u)
             \/ UNCHANGED vars
      PROVE  UNCHANGED table
    BY <1>6 DEF BoxStep, CreateRunning, CreateUndone, AttachDevice, VMDies, CleanupStopped, SetupEnds, calls, PrepLoad, PrepLock, PrepExec, PrepGet, DeletePut, DeadPut, VMDelete, Forget, DeleteBegin,
        DeadBegin, ReconcileList, ReconcileDone, ReconcileGet, ReconcilePort, vars, boxRest
<1>7. \A p \in Preps \cup {Reconciler} : p \in Openers
    BY DEF Openers
<1>8. ASSUME NEW p \in Preps, PrepStep(p) PROVE UNCHANGED table \/ OpenStep(p)
    BY <1>6, <1>8 DEF PrepStep
<1>9. CASE ReconcileStep
    BY <1>2, <1>4, <1>6, <1>7, <1>9 DEF ReconcileStep
<1>10. ASSUME NEW d \in Teardowns, TeardownStep(d) PROVE table'[s] = table[s] \/ NoListener(s)
    BY <1>3, <1>6, <1>10 DEF TeardownStep
<1>11. ASSUME NEW p \in Preps, PrepStep(p)
       PROVE  \/ table'[s] = table[s] \/ NoListener(s)
              \/ \E q \in Openers : Ensure(q) /\ call[q] \in Call /\ call[q].id = s /\ table'[s].target = call[q].ip
    <2>1. p \in Openers
        BY <1>7
    <2>2. CASE UNCHANGED table
        BY <2>2
    <2>3. CASE OpenStep(p)
        BY <1>2, <2>1, <2>3
    <2> QED BY <1>8, <1>11, <2>2, <2>3
<1> QED BY <1>5, <1>6, <1>9, <1>10, <1>11, NextBox

LEMMA AddrShapeStep == ASSUME AccessInv, [Next]_vars PROVE AddrShape'
<1>1. TypeOK' /\ AddrShape /\ CallShape
    BY TypesStep DEF AccessInv
<1>2. ASSUME NEW s \in Ids
      PROVE  /\ rec'[s] # "new" => addr'[s] # None
             /\ keep'[s] # None => rec'[s] # "new" /\ keep'[s] = addr'[s]
             /\ table'[s] # Relay!NoEndpoint => rec'[s] # "new" /\ table'[s].target = addr'[s]
    <2>1. rec[s] # "new" => rec'[s] # "new" /\ addr'[s] = addr[s]
        BY RecordsOnward DEF AccessInv
    <2>2. rec'[s] # "new" => addr'[s] # None
        <3>1. ASSUME NEW u \in Ids, Started(u) PROVE addr'[u] # None /\ \A v \in Ids \ {u} : rec'[v] = rec[v]
            <4>1. PICK a \in Addrs : addr' = [addr EXCEPT ![u] = a]
                BY <3>1 DEF Started
            <4> QED BY <3>1, <4>1, SSHAccessAssumption DEF Started, AccessInv, TypeOK
        <3>2. CASE \E u \in Ids : Started(u)
            BY <1>1, <2>1, <3>1, <3>2 DEF AddrShape
        <3>3. CASE rec[s] # "new"
            BY <1>1, <2>1, <3>3 DEF AddrShape
        <3>4. CASE rec[s] = "new" /\ ~\E u \in Ids : Started(u)
            <4>1. ASSUME NEW d \in Teardowns, DeletePut(d) \/ DeadPut(d) \/ Forget(d) PROVE rec'[s] = rec[s]
                <5>1. td[d] # NoTeardown
                    BY <4>1 DEF DeletePut, DeadPut, Forget, NoTeardown
                <5>2. rec[td[d].id] # "new"
                    BY <5>1 DEF AccessInv, MarkedFirst
                <5> QED BY <3>4, <4>1, <5>2 DEF DeletePut, DeadPut, Forget, AccessInv, TypeOK
            <4>2. ASSUME NEW u \in Ids, BoxStep(u) PROVE rec'[s] = rec[s]
                <5>1. ~CreateRunning(u)
                    BY <3>4 DEF CreateRunning
                <5>2. AttachDevice(u) => rec[u] # "new" /\ \E was : rec' = [rec EXCEPT ![u] = was]
                    BY DEF AttachDevice
                <5> QED BY <3>4, <4>2, <5>1, <5>2 DEF BoxStep, VMDies, CleanupStopped, SetupEnds, boxVars, AccessInv, TypeOK
            <4>3. ~\E d \in Teardowns : \E u \in Ids : CreateUndone(d, u)
                BY <3>4 DEF CreateUndone
            <4>4. ASSUME \/ \E p \in Preps : PrepStep(p) \/ \E u \in Ids : PrepGet(p, u)
                         \/ \E d \in Teardowns : CloseSSH(d) \/ VMDelete(d) \/ \E u \in Ids : DeleteBegin(d, u) \/ DeadBegin(d, u)
                         \/ ReconcileStep \/ Crash \/ UNCHANGED vars
                  PROVE  UNCHANGED rec
                BY <4>4 DEF PrepStep, PrepLoad, PrepLock, PrepExec, OpenStep, Ensure, Remember, Check, CloseOpened, PrepGet,
                    CloseSSH, VMDelete, DeleteBegin, DeadBegin, ReconcileStep, ReconcileList, ReconcileGet, Retain, ReconcilePort,
                    ReconcileDone, Crash, vars, boxVars, boxRest, callRest, execRest, rcRest, tdRest
            <4> QED BY <3>4, <4>1, <4>4, <4>2, <4>3, NextBox DEF TeardownStep
        <3> QED BY <3>2, <3>3, <3>4
    <2>3. keep'[s] # None => rec'[s] # "new" /\ keep'[s] = addr'[s]
        BY <1>1, <2>1, KeepMoves DEF AddrShape
    <2>4. table'[s] # Relay!NoEndpoint => rec'[s] # "new" /\ table'[s].target = addr'[s]
        <3>1. CASE table'[s] = table[s]
            BY <1>1, <2>1, <3>1 DEF AddrShape, Relay!Listening
        <3>2. CASE NoListener(s)
            BY <3>2 DEF NoListener
        <3>3. ASSUME NEW p \in Openers, call[p] \in Call, call[p].id = s, table'[s].target = call[p].ip
              PROVE  rec'[s] # "new" /\ table'[s].target = addr'[s]
            <4>1. call[p] # NoCall
                BY <3>3, SSHAccessAssumption DEF NoCall
            <4>2. rec[s] # "new" /\ call[p].ip = addr[s]
                BY <1>1, <3>3, <4>1 DEF CallShape
            <4> QED BY <2>1, <3>3, <4>2
        <3> QED BY <3>1, <3>2, <3>3, TableMoves
    <2> QED BY <2>2, <2>3, <2>4
<1> QED BY <1>2, RunsMove DEF AddrShape, Relay!Listening

(* A teardown begins at a record that exists, marks it and goes on.        *)
Marked(s) == rec[s] # "running" \/ s \in unmarked
NowMarked(s) == rec'[s] # "running" \/ s \in unmarked'

LEMMA TeardownsMove ==
    ASSUME AccessInv, [Next]_vars, NEW d \in Teardowns
    PROVE  \/ td'[d] = NoTeardown \/ td'[d] = td[d]
           \/ td'[d].id \in Ids /\ rec[td'[d].id] # "new" /\ td'[d].at \in {"put", "putError"}
           \/ td'[d].id = td[d].id /\ td[d] # NoTeardown /\ NowMarked(td[d].id)
           \/ td'[d].id \in Ids /\ rec'[td'[d].id] # "new" /\ td'[d].id \in unmarked'
<1>1. td \in [Teardowns -> Teardown \cup {NoTeardown}]
    BY DEF AccessInv, TypeOK
<1>2. ASSUME NEW e \in Teardowns, NEW s \in Ids, DeleteBegin(e, s) \/ DeadBegin(e, s)
      PROVE  td'[d] = td[d] \/ (td'[d].id = s /\ rec[s] # "new" /\ td'[d].at \in {"put", "putError"})
    <2>1. PICK a \in {"put", "putError"} : td' = [td EXCEPT ![e] = [at |-> a, id |-> s]]
        BY <1>2 DEF DeleteBegin, DeadBegin
    <2>2. rec[s] # "new"
        BY <1>2 DEF DeleteBegin, DeadBegin
    <2> QED BY <1>1, <2>1, <2>2
<1>3. ASSUME NEW e \in Teardowns, TeardownStep(e)
      PROVE  \/ td'[d] = NoTeardown \/ td'[d] = td[d]
             \/ td'[d].id = td[d].id /\ td[d] # NoTeardown /\ NowMarked(td[d].id)
    <2>1. td[e] \in Teardown /\ td[e] # NoTeardown /\ td[e].id \in Ids
        BY <1>1, <1>3 DEF TeardownStep, DeletePut, DeadPut, CloseSSH, VMDelete, Forget, NoTeardown, Teardown
    <2>2. ASSUME NEW a, GoDown(e, a) PROVE td'[d] = td[d] \/ (d = e /\ td'[d].id = td[d].id)
        BY <1>1, <2>1, <2>2 DEF GoDown, Teardown
    <2>3. EndDown(e) => td'[d] = td[d] \/ td'[d] = NoTeardown
        BY <1>1 DEF EndDown
    <2>4. ASSUME DeletePut(e), ~EndDown(e) PROVE NowMarked(td[e].id) /\ GoDown(e, "close")
        <3>1. GoDown(e, "close") /\ rec' = [rec EXCEPT ![td[e].id] = "terminating"]
            BY <2>4 DEF DeletePut
        <3> QED BY <2>1, <3>1 DEF NowMarked, AccessInv, TypeOK
    <2>5. ASSUME DeadPut(e) PROVE NowMarked(td[e].id) /\ GoDown(e, "close")
        <3>1. /\ GoDown(e, "close")
              /\ rec' = [rec EXCEPT ![td[e].id] = "error"] \/ unmarked' = unmarked \cup {td[e].id}
            BY <2>5 DEF DeadPut
        <3> QED BY <2>1, <3>1 DEF NowMarked, AccessInv, TypeOK
    <2>6. ASSUME CloseSSH(e) \/ VMDelete(e)
          PROVE  NowMarked(td[e].id) /\ (EndDown(e) \/ GoDown(e, "vmDelete") \/ GoDown(e, "forget"))
        <3>1. UNCHANGED <<rec, unmarked>>
            BY <2>6 DEF CloseSSH, VMDelete
        <3>2. Marked(td[e].id)
            BY <2>1, <2>6 DEF CloseSSH, VMDelete, AccessInv, MarkedFirst, Marked
        <3> QED BY <2>6, <3>1, <3>2 DEF CloseSSH, VMDelete, Marked, NowMarked
    <2>7. Forget(e) => EndDown(e)
        BY DEF Forget
    <2> QED BY <1>3, <2>1, <2>2, <2>3, <2>4, <2>5, <2>6, <2>7 DEF TeardownStep
<1>4. ASSUME NEW e \in Teardowns, NEW s \in Ids, CreateUndone(e, s)
      PROVE  td'[d] = td[d] \/ (td'[d].id = s /\ rec'[s] # "new" /\ s \in unmarked')
    <2>1. rec' = [rec EXCEPT ![s] = "running"] /\ td' = [td EXCEPT ![e] = [at |-> "vmDelete", id |-> s]] /\ s \in unmarked'
        BY <1>4 DEF CreateUndone, Started
    <2> QED BY <1>1, <2>1 DEF AccessInv, TypeOK
<1>5. CASE Crash
    BY <1>5 DEF Crash
<1>6. ASSUME \/ \E s \in Ids : BoxStep(s)
             \/ \E p \in Preps : PrepStep(p) \/ \E s \in Ids : PrepGet(p, s)
             \/ ReconcileStep \/ UNCHANGED vars
      PROVE  UNCHANGED td
    BY <1>6 DEF BoxStep, CreateRunning, CreateUndone, AttachDevice, VMDies, CleanupStopped, SetupEnds, calls, PrepStep, PrepLoad, PrepLock, PrepExec, PrepGet, OpenStep, Ensure, Remember, Check, CloseOpened,
        ReconcileStep, ReconcileList, ReconcileGet, Retain, ReconcilePort, ReconcileDone, vars, boxRest, callRest, execRest, rcRest
<1> QED BY <1>2, <1>3, <1>5, <1>6, <1>4, NextBox

LEMMA VMsMove ==
    ASSUME AccessInv, [Next]_vars, NEW s \in Ids, rec'[s] = "running", s \notin unmarked', vm'[s] = "none"
    PROVE  rec[s] = "running" /\ vm[s] = "none"
<1>1. rec \in [Ids -> {"new", "creating", "running", "terminating", "error", "gone"}] /\ vm \in [Ids -> {"none", "live", "dead"}]
    BY DEF AccessInv, TypeOK
<1>2. ASSUME NEW u \in Ids, BoxStep(u) PROVE rec[s] = "running" /\ vm[s] = "none"
    <2>1. CASE CreateRunning(u)
        BY <1>1, <2>1 DEF CreateRunning, Started
    <2>2. CASE AttachDevice(u)
        <3>1. rec'[s] = rec[s] /\ vm' = vm
            BY <1>1, <2>2 DEF AttachDevice
        <3> QED BY <3>1
    <2>3. CASE VMDies(u) \/ SetupEnds(u)
        BY <1>1, <2>3 DEF VMDies, SetupEnds, boxVars
    <2>4. CASE CleanupStopped(u)
        <3>1. rec' = rec /\ s # u
            BY <2>4 DEF CleanupStopped
        <3> QED BY <1>1, <2>4, <3>1 DEF CleanupStopped
    <2> QED BY <1>2, <2>1, <2>2, <2>3, <2>4 DEF BoxStep
<1>3. ASSUME NEW d \in Teardowns, NEW u \in Ids, CreateUndone(d, u) PROVE rec[s] = "running" /\ vm[s] = "none"
    BY <1>1, <1>3 DEF CreateUndone, Started
<1>4. ASSUME NEW d \in Teardowns, DeletePut(d) \/ DeadPut(d) \/ Forget(d) PROVE rec[s] = "running" /\ vm[s] = "none"
    <2>1. UNCHANGED vm
        BY <1>4 DEF DeletePut, DeadPut, Forget
    <2>2. rec'[s] = rec[s] \/ rec'[s] \in {"terminating", "error", "gone"}
        BY <1>1, <1>4 DEF DeletePut, DeadPut, Forget
    <2> QED BY <2>1, <2>2
<1>5. ASSUME NEW d \in Teardowns, VMDelete(d) PROVE rec[s] = "running" /\ vm[s] = "none"
    <2>1. UNCHANGED <<rec, unmarked>> /\ td[d].at = "vmDelete" /\ td[d] # NoTeardown
        BY <1>5 DEF VMDelete, NoTeardown
    <2>2. td[d].id # s
        BY <2>1 DEF AccessInv, MarkedFirst
    <2>3. \E left : vm' = [vm EXCEPT ![td[d].id] = left]
        BY <1>5 DEF VMDelete
    <2> QED BY <1>1, <2>1, <2>2, <2>3
<1>6. ASSUME \/ \E p \in Preps : PrepStep(p) \/ \E u \in Ids : PrepGet(p, u)
             \/ \E d \in Teardowns : CloseSSH(d) \/ \E u \in Ids : DeleteBegin(d, u) \/ DeadBegin(d, u)
             \/ ReconcileStep \/ Crash \/ UNCHANGED vars
      PROVE  UNCHANGED <<rec, vm>>
    BY <1>6 DEF PrepStep, PrepLoad, PrepLock, PrepExec, OpenStep, Ensure, Remember, Check, CloseOpened, PrepGet,
        CloseSSH, DeleteBegin, DeadBegin, ReconcileStep, ReconcileList, ReconcileGet, Retain, ReconcilePort,
        ReconcileDone, Crash, vars, boxVars, callRest, execRest, rcRest
<1> QED BY <1>2, <1>4, <1>5, <1>6, <1>3, NextBox DEF TeardownStep

LEMMA MarkedFirstStep == ASSUME AccessInv, [Next]_vars PROVE MarkedFirst'
<1>1. MarkedFirst /\ TypeOK
    BY DEF AccessInv
<1>2. ASSUME NEW d \in Teardowns, td'[d] # NoTeardown
      PROVE  /\ rec'[td'[d].id] # "new"
             /\ td'[d].at \in {"close", "vmDelete", "forget"} => rec'[td'[d].id] # "running" \/ td'[d].id \in unmarked'
    <2>1. td[d] # NoTeardown => td[d].id \in Ids /\ rec[td[d].id] # "new"
        BY <1>1 DEF MarkedFirst, TypeOK, Teardown
    <2>2. CASE td'[d] = td[d]
        <3>1. td[d] # NoTeardown
            BY <1>2, <2>2
        <3> QED BY <1>1, <2>1, <2>2, <3>1, RecordsOnward DEF MarkedFirst
    <2>3. CASE td'[d].id \in Ids /\ rec[td'[d].id] # "new" /\ td'[d].at \in {"put", "putError"}
        BY <1>1, <2>3, RecordsOnward
    <2>4. CASE td'[d].id = td[d].id /\ td[d] # NoTeardown /\ NowMarked(td[d].id)
        BY <1>1, <2>1, <2>4, RecordsOnward DEF NowMarked
    <2>5. CASE td'[d].id \in Ids /\ rec'[td'[d].id] # "new" /\ td'[d].id \in unmarked'
        BY <2>5
    <2> QED BY <1>2, <2>2, <2>3, <2>4, <2>5, TeardownsMove
<1>3. ASSUME NEW s \in Ids, rec'[s] = "running", s \notin unmarked' PROVE vm'[s] # "none"
    BY <1>1, <1>3, VMsMove, RecordsOnward DEF MarkedFirst
<1> QED BY <1>2, <1>3 DEF MarkedFirst

LEMMA AccessInit == Init => AccessInv
<1> SUFFICES ASSUME Init PROVE AccessInv
    OBVIOUS
<1>1. TypeOK
    BY SSHAccessAssumption DEF Init, TypeOK, Relay!Init
<1>2. CallShape
    BY DEF Init, CallShape, NoCall
<1>3. AddrShape /\ MarkedFirst
    BY DEF Init, AddrShape, MarkedFirst, Relay!Init, Relay!Listening
<1> QED BY <1>1, <1>2, <1>3 DEF AccessInv

LEMMA AccessAlways == Spec => []AccessInv
<1>1. AccessInv /\ [Next]_vars => AccessInv'
    BY TypesStep, CallShapeStep, AddrShapeStep, MarkedFirstStep DEF AccessInv
<1> QED BY <1>1, AccessInit, PTL DEF Spec

(* The state of SSH access keeps its types: in particular LoadOrStore      *)
(* always has a mutex for a PrepareSSH that has none, and what a call      *)
(* carries is an address that the sandbox was given (service.go).          *)
THEOREM AccessTypes == Spec => []TypeOK
<1>1. AccessInv => TypeOK
    BY DEF AccessInv
<1> QED BY <1>1, AccessAlways, PTL

---------------------------------------------------------------------------
(* "Open, then look again": whoever opened a listener, or took the sandbox *)
(* down, watches it until it is closed.                                    *)

WatchedBy(p, s) == call[p].id = s /\ call[p].at \in {"remember", "check", "close"}

LEMMA OpenerWatches ==
    ASSUME AccessInv, [Next]_vars, NEW s \in Ids, NEW p \in Openers,
           WatchedBy(p, s), rec[s] # "running", ~NoListener(s)
    PROVE  WatchedBy(p, s)'
<1>1. call \in [Openers -> Call \cup {NoCall}] /\ table \in [Ids -> Relay!Endpoint \cup {Relay!NoEndpoint}]
    BY DEF AccessInv, TypeOK
<1>2. call[p] # NoCall /\ call[p] \in Call /\ call[p].at \in {"remember", "check", "close"} /\ call[p].id = s
    BY CallTypes DEF AccessInv, WatchedBy, NoCall
<1>3. CASE call'[p] = call[p]
    BY <1>3 DEF WatchedBy
<1>4. ASSUME NEW q \in Openers, NEW k, SetCall(q, k), q # p PROVE call'[p] = call[p]
    BY <1>1, <1>4 DEF SetCall
<1>5. CASE OpenStep(p)
    <2>1. ASSUME NEW a \in {"remember", "check", "close"}, Onward(p, {a}) PROVE WatchedBy(p, s)'
        BY <1>1, <1>2, <2>1 DEF Onward, SetCall, Carries, WatchedBy
    <2>2. CASE Remember(p)
        <3>1. SetCall(p, [call[p] EXCEPT !.at = "check", !.port = None]) \/ SetCall(p, [call[p] EXCEPT !.at = "close", !.port = None])
            BY <2>2 DEF Remember, Opened
        <3> QED BY <1>2, <2>1, <3>1, CallOnward DEF Steps
    <2>3. CASE Check(p)
        <3>1. GoCall(p, "close")
            BY <1>2, <2>3 DEF Check, WatchedBy
        <3> QED BY <1>2, <2>1, <3>1, CallOnward DEF Steps
    <2>4. CASE CloseOpened(p)
        BY <1>1, <1>2, <2>4 DEF CloseOpened, Relay!Close, NoListener
    <2>5. ~Ensure(p)
        BY <1>2 DEF Ensure
    <2> QED BY <1>5, <2>2, <2>3, <2>4, <2>5 DEF OpenStep
<1>6. ASSUME NEW q \in Openers, OpenStep(q) PROVE WatchedBy(p, s)'
    <2>1. \E k : SetCall(q, k)
        BY <1>6, OpenStepMoves DEF EndCall, Onward
    <2> QED BY <1>3, <1>4, <1>5, <1>6, <2>1
<1>7. ASSUME NEW q \in Preps, PrepLoad(q) \/ PrepLock(q) \/ PrepExec(q) PROVE WatchedBy(p, s)'
    <2>1. q # p /\ q \in Openers
        BY <1>2, <1>7 DEF PrepLoad, PrepLock, PrepExec, Openers
    <2>2. \E k : SetCall(q, k)
        BY <1>7, PrepLoadMoves, PrepStepMoves DEF EndCall, Onward, GetsMutex
    <2> QED BY <1>3, <1>4, <2>1, <2>2
<1>8. ASSUME NEW q \in Preps, NEW u \in Ids, PrepGet(q, u) PROVE WatchedBy(p, s)'
    <2>1. q # p /\ q \in Openers
        BY <1>2, <1>8 DEF PrepGet, Openers
    <2>2. \E k : SetCall(q, k)
        BY <1>8 DEF PrepGet
    <2> QED BY <1>3, <1>4, <2>1, <2>2
<1>9. ASSUME NEW u \in Ids, ReconcilePort(u) PROVE WatchedBy(p, s)'
    <2>1. Reconciler # p /\ Reconciler \in Openers
        BY <1>2, <1>9 DEF ReconcilePort, Openers
    <2>2. UNCHANGED call \/ \E k : SetCall(Reconciler, k)
        BY <1>9 DEF ReconcilePort
    <2> QED BY <1>3, <1>4, <2>1, <2>2
<1>10. CASE Crash
    BY <1>10 DEF Crash, NoListener
<1>11. ASSUME \/ \E u \in Ids : BoxStep(u)
              \/ \E d \in Teardowns : TeardownStep(d) \/ \E u \in Ids : CreateUndone(d, u) \/ DeleteBegin(d, u) \/ DeadBegin(d, u)
              \/ ReconcileList \/ Retain \/ ReconcileDone \/ \E u \in Ids : ReconcileGet(u)
              \/ UNCHANGED vars
       PROVE  UNCHANGED call
    BY <1>11 DEF BoxStep, CreateRunning, CreateUndone, AttachDevice, VMDies, CleanupStopped, SetupEnds, calls, TeardownStep, DeletePut, DeadPut, CloseSSH, VMDelete, Forget, DeleteBegin, DeadBegin,
        ReconcileList, Retain, ReconcileDone, ReconcileGet, vars, boxRest, tdRest
<1>12. CASE ReconcileStep
    <2>1. Reconciler \in Openers
        BY DEF Openers
    <2> QED BY <1>3, <1>6, <1>9, <1>11, <1>12, <2>1 DEF ReconcileStep
<1>13. ASSUME NEW q \in Preps, PrepStep(q) \/ \E u \in Ids : PrepGet(q, u) PROVE WatchedBy(p, s)'
    <2>1. q \in Openers
        BY DEF Openers
    <2> QED BY <1>6, <1>7, <1>8, <1>13, <2>1 DEF PrepStep
<1> QED BY <1>3, <1>10, <1>11, <1>12, <1>13, NextBox

LEMMA TeardownWatches ==
    ASSUME AccessInv, [Next]_vars, NEW s \in Ids, NEW d \in Teardowns,
           td[d].id = s, td[d].at = "close", ~NoListener(s)
    PROVE  td'[d] = td[d]
<1>1. td \in [Teardowns -> Teardown \cup {NoTeardown}] /\ table \in [Ids -> Relay!Endpoint \cup {Relay!NoEndpoint}]
    BY DEF AccessInv, TypeOK
<1>2. ASSUME NEW e \in Teardowns, TeardownStep(e) \/ \E u \in Ids : CreateUndone(e, u) \/ DeleteBegin(e, u) \/ DeadBegin(e, u)
      PROVE  td'[d] = td[d]
    <2>1. CASE e = d
        <3>1. CloseSSH(d)
            BY <1>2, <2>1 DEF TeardownStep, DeletePut, DeadPut, VMDelete, Forget, CreateUndone, DeleteBegin, DeadBegin, NoTeardown
        <3>2. NoListener(s)
            BY <1>1, <3>1 DEF CloseSSH, Relay!Close, NoListener
        <3> QED BY <3>2
    <2>2. CASE e # d
        <3>1. \/ \E t : td' = [td EXCEPT ![e] = t]
              \/ \E a : td' = [td EXCEPT ![e].at = a]
            BY <1>2 DEF TeardownStep, DeletePut, DeadPut, CloseSSH, VMDelete, Forget, CreateUndone, DeleteBegin, DeadBegin, GoDown, EndDown
        <3> QED BY <1>1, <2>2, <3>1
    <2> QED BY <2>1, <2>2
<1>3. CASE Crash
    BY <1>3 DEF Crash, NoListener
<1>4. ASSUME \/ \E u \in Ids : BoxStep(u)
             \/ \E p \in Preps : PrepStep(p) \/ \E u \in Ids : PrepGet(p, u)
             \/ ReconcileStep \/ UNCHANGED vars
      PROVE  UNCHANGED td
    BY <1>4 DEF BoxStep, CreateRunning, CreateUndone, AttachDevice, VMDies, CleanupStopped, SetupEnds, calls, PrepStep, PrepLoad, PrepLock, PrepExec, PrepGet, OpenStep, Ensure, Remember, Check, CloseOpened,
        ReconcileStep, ReconcileList, ReconcileGet, Retain, ReconcilePort, ReconcileDone, vars, boxRest, callRest, execRest, rcRest
<1> QED BY <1>2, <1>3, <1>4, NextBox

(* Nobody takes a running sandbox down without going on to close.          *)
LEMMA MarkerWatches ==
    ASSUME AccessInv, [Next]_vars, NEW s \in Ids,
           rec[s] = "running", rec'[s] # "running", s \notin unmarked'
    PROVE  \E d \in Teardowns : td'[d].id = s /\ td'[d].at = "close"
<1>1. td \in [Teardowns -> Teardown \cup {NoTeardown}]
      /\ rec \in [Ids -> {"new", "creating", "running", "terminating", "error", "gone"}]
    BY DEF AccessInv, TypeOK
<1>2. ASSUME NEW d \in Teardowns, DeletePut(d) \/ DeadPut(d) PROVE td'[d].id = s /\ td'[d].at = "close"
    <2>1. td[d] \in Teardown /\ td[d].id \in Ids
        BY <1>1, <1>2 DEF DeletePut, DeadPut, Teardown, NoTeardown
    <2>2. td[d].id = s
        BY <1>1, <1>2, <2>1 DEF DeletePut, DeadPut
    <2>3. unmarked' = unmarked \cup {s} \/ GoDown(d, "close")
        BY <1>2, <2>2 DEF DeletePut, DeadPut
    <2> QED BY <1>1, <2>1, <2>2, <2>3 DEF GoDown, Teardown
<1>3. ASSUME NEW d \in Teardowns, Forget(d) PROVE FALSE
    <2>1. td[d] # NoTeardown /\ td[d].at = "forget" /\ UNCHANGED unmarked
        BY <1>3 DEF Forget, NoTeardown
    <2>2. td[d].id # s
        BY <2>1 DEF AccessInv, MarkedFirst
    <2> QED BY <1>1, <1>3, <2>2 DEF Forget
<1>4. ASSUME NEW u \in Ids, BoxStep(u) PROVE FALSE
    <2>1. AttachDevice(u) => rec'[s] = rec[s]
        BY <1>1 DEF AttachDevice
    <2> QED BY <1>1, <1>4, <2>1 DEF BoxStep, CreateRunning, Started, VMDies, CleanupStopped, SetupEnds, boxVars
<1>5. ASSUME NEW d \in Teardowns, NEW u \in Ids, CreateUndone(d, u) PROVE FALSE
    BY <1>1, <1>5 DEF CreateUndone, Started
<1>6. ASSUME \/ \E p \in Preps : PrepStep(p) \/ \E u \in Ids : PrepGet(p, u)
             \/ \E d \in Teardowns : CloseSSH(d) \/ VMDelete(d) \/ \E u \in Ids : DeleteBegin(d, u) \/ DeadBegin(d, u)
             \/ ReconcileStep \/ Crash \/ UNCHANGED vars
      PROVE  UNCHANGED rec
    BY <1>6 DEF PrepStep, PrepLoad, PrepLock, PrepExec, OpenStep, Ensure, Remember, Check, CloseOpened, PrepGet,
        CloseSSH, VMDelete, DeleteBegin, DeadBegin, ReconcileStep, ReconcileList, ReconcileGet, Retain, ReconcilePort,
        ReconcileDone, Crash, vars, boxVars, boxRest, callRest, execRest, rcRest, tdRest
<1> QED BY <1>2, <1>3, <1>4, <1>6, <1>5, NextBox DEF TeardownStep

(* Who opens a listener looks at the record again.                         *)
LEMMA EnsureWatches ==
    ASSUME AccessInv, NEW p \in Openers, Ensure(p), ~NoListener(call[p].id)
    PROVE  WatchedBy(p, call[p].id)' /\ call'[p].id = call[p].id
<1>1. call[p] \in Call /\ call[p].id \in Ids
    BY OpenStepMoves DEF OpenStep, Call
<1>2. call \in [Openers -> Call \cup {NoCall}] /\ table \in [Ids -> Relay!Endpoint \cup {Relay!NoEndpoint}]
    BY DEF AccessInv, TypeOK
<1>3. ~Relay!Exhausted(call[p].id, call[p].ip)
    BY <1>1, <1>2 DEF Relay!Exhausted, NoListener
<1>4. \/ SetCall(p, [call[p] EXCEPT !.at = "check", !.port = None])
      \/ \E q : SetCall(p, [call[p] EXCEPT !.at = "remember", !.port = q])
    BY <1>3 DEF Ensure, Opened
<1>5. \E a \in {"check", "remember"} : \E q : call'[p] = [call[p] EXCEPT !.at = a, !.port = q]
    BY <1>2, <1>4 DEF SetCall
<1> QED BY <1>1, <1>5 DEF WatchedBy, Call

LEMMA LeadsHomeStep == ASSUME AccessInv, ListenerLeadsHome, [Next]_vars PROVE ListenerLeadsHome'
<1>1. AddrShape' /\ MarkedFirst' /\ TypeOK
    BY AddrShapeStep, MarkedFirstStep DEF AccessInv
<1>2. ASSUME NEW s \in Ids, Relay!Listening(s)', s \notin unmarked', rec'[s] = "running"
      PROVE  vm'[s] # "none" /\ table'[s].target = addr'[s]
    BY <1>1, <1>2 DEF AddrShape, MarkedFirst
<1>3. ASSUME NEW s \in Ids, Relay!Listening(s)', s \notin unmarked', rec'[s] # "running" PROVE Watched(s)'
    <2>1. ~NoListener(s)
        BY <1>3 DEF NoListener, Relay!Listening
    <2>2. s \notin unmarked
        BY <1>1, <1>3, RecordsOnward
    <2>3. CASE table'[s] = table[s] /\ rec[s] = "running"
        BY <1>3, <2>3, MarkerWatches DEF Watched
    <2>4. CASE table'[s] = table[s] /\ rec[s] # "running"
        <3>1. Relay!Listening(s)
            BY <2>1, <2>4 DEF NoListener, Relay!Listening
        <3>2. Watched(s)
            BY <2>2, <2>4, <3>1 DEF ListenerLeadsHome
        <3>3. ASSUME NEW p \in Openers, WatchedBy(p, s) PROVE WatchedBy(p, s)'
            BY <2>1, <2>4, <3>3, OpenerWatches
        <3>4. ASSUME NEW d \in Teardowns, td[d].id = s, td[d].at = "close" PROVE td'[d].id = s /\ td'[d].at = "close"
            BY <2>1, <3>4, TeardownWatches
        <3> QED BY <3>2, <3>3, <3>4 DEF Watched, WatchedBy
    <2>5. ASSUME NEW p \in Openers, Ensure(p), call[p].id = s PROVE Watched(s)'
        <3>1. WatchedBy(p, call[p].id)' /\ call'[p].id = call[p].id
            BY <2>1, <2>5, EnsureWatches
        <3> QED BY <2>5, <3>1 DEF Watched, WatchedBy
    <2> QED BY <2>1, <2>3, <2>4, <2>5, TableMoves
<1> QED BY <1>2, <1>3 DEF ListenerLeadsHome

(* Whatever Delete, teardownDead, PrepareSSH, reconcileSSH, failures,      *)
(* restarts and the reuse of addresses interleave, an open listener leads  *)
(* to the VM of its own running sandbox, or somebody is about to look      *)
(* (service.go), but for the sandboxes of unmarked: a lost write, Create's *)
(* undo, CleanupStopped before Reconcile, AttachDevice's write-back.       *)
THEOREM ListenersAlwaysLeadHome == Spec => []ListenerLeadsHome
<1>1. Init => ListenerLeadsHome
    BY DEF Init, Relay!Init, ListenerLeadsHome, Relay!Listening
<1> QED BY <1>1, AccessAlways, LeadsHomeStep, PTL DEF Spec

---------------------------------------------------------------------------
(* The mutexes of sshPrep. *)

Held == {"exec", "ensure", "remember", "check", "close"}

(* Of the calls that share a mutex one holds it. *)
HoldersDiffer ==
    \A p, q \in Preps :
        call[p].at \in Held /\ call[q].at \in Held /\ call[p].id = call[q].id /\ call[p].mu = call[q].mu => p = q

(* Until the sandbox is marked, nobody drops its mutex: all its calls      *)
(* share one.                                                              *)
MutexKept ==
    \A s \in Ids : rec[s] = "running" /\ s \notin unmarked =>
        \A p \in Preps : call[p].id = s /\ call[p].mu # None => call[p].mu = sshPrep[s]

Keeps(p) ==
    /\ call'[p].id = call[p].id /\ call'[p].mu = call[p].mu
    /\ call'[p].at \in Held => call[p].at \in Held \/ PrepLock(p)

LEMMA CallsKeep ==
    ASSUME AccessInv, [Next]_vars, NEW p \in Preps
    PROVE  \/ call'[p].at \notin Held /\ call'[p].mu = None
           \/ Keeps(p)
           \/ \E k \in Call : GetsMutex(p, k)
<1> DEFINE Goal == \/ call'[p].at \notin Held /\ call'[p].mu = None
                   \/ Keeps(p)
                   \/ \E k \in Call : GetsMutex(p, k)
<1> SUFFICES Goal
    OBVIOUS
<1>1. call \in [Openers -> Call \cup {NoCall}] /\ p \in Openers /\ p # Reconciler
    BY SSHAccessAssumption DEF AccessInv, TypeOK, Openers
<1>2. NoCall.at \notin Held /\ NoCall.mu = None
    BY DEF NoCall, Held
<1>3. CASE call'[p] = call[p]
    BY <1>3 DEF Keeps
<1>4. ASSUME NEW q \in Openers, q # p, NEW k, SetCall(q, k) PROVE Goal
    BY <1>1, <1>3, <1>4 DEF SetCall
<1>5. CASE EndCall(p)
    BY <1>1, <1>2, <1>5 DEF EndCall, SetCall
<1>6. ASSUME NEW At \in SUBSET Steps, Onward(p, At), call[p].at \in Held PROVE Goal
    <2>1. PICK k \in Call : SetCall(p, k) /\ Carries(k, call[p]) /\ k.mu = call[p].mu
        BY <1>6 DEF Onward
    <2>2. call'[p] = k
        BY <1>1, <2>1 DEF SetCall
    <2> QED BY <1>6, <2>1, <2>2 DEF Carries, Keeps
<1>7. ASSUME NEW q \in Openers, OpenStep(q) PROVE Goal
    <2>1. CASE q # p
        <3>1. \E k : SetCall(q, k)
            BY <1>7, OpenStepMoves DEF EndCall, Onward
        <3> QED BY <1>4, <2>1, <3>1
    <2>2. CASE q = p
        BY <1>5, <1>6, <1>7, <2>2, OpenStepMoves DEF Held, Steps
    <2> QED BY <2>1, <2>2
<1>8. ASSUME NEW q \in Preps, PrepLock(q) PROVE Goal
    <2>1. CASE q # p
        <3>1. \E k : SetCall(q, k)
            BY <1>8, PrepStepMoves DEF EndCall, Onward
        <3> QED BY <1>4, <2>1, <3>1 DEF Openers
    <2>2. CASE q = p
        <3>1. SetCall(p, [call[p] EXCEPT !.at = "exec"])
            BY <1>8, <2>2 DEF PrepLock, GoCall, SetCall
        <3>2. call[p] \in Call
            BY <1>8, <2>2, PrepStepMoves
        <3>3. call'[p].id = call[p].id /\ call'[p].mu = call[p].mu
            BY <1>1, <3>1, <3>2 DEF SetCall, Call
        <3> QED BY <1>8, <2>2, <3>3 DEF Keeps
    <2> QED BY <2>1, <2>2
<1>9. ASSUME NEW q \in Preps, PrepExec(q) PROVE Goal
    <2>1. CASE q # p
        <3>1. \E k : SetCall(q, k)
            BY <1>9, PrepStepMoves DEF EndCall, Onward
        <3> QED BY <1>4, <2>1, <3>1 DEF Openers
    <2>2. CASE q = p
        <3>1. call[p].at \in Held
            BY <1>9, <2>2 DEF PrepExec, Held
        <3> QED BY <1>5, <1>6, <1>9, <2>2, <3>1, PrepStepMoves DEF Steps
    <2> QED BY <2>1, <2>2
<1>10. ASSUME NEW q \in Preps, PrepLoad(q) PROVE Goal
    <2>1. PICK k \in Call : GetsMutex(q, k)
        BY <1>10, PrepLoadMoves
    <2> QED BY <1>4, <2>1 DEF GetsMutex, Openers
<1>11. ASSUME NEW q \in Preps, NEW s \in Ids, PrepGet(q, s) PROVE Goal
    <2>1. PICK k : SetCall(q, k) /\ k.at = "load" /\ k.mu = None
        BY <1>11 DEF PrepGet
    <2> QED BY <1>1, <1>4, <2>1 DEF SetCall, Held, Openers
<1>12. ASSUME NEW s \in Ids, ReconcilePort(s) PROVE Goal
    BY <1>1, <1>3, <1>4, <1>12 DEF ReconcilePort, Openers
<1>13. CASE Crash
    BY <1>1, <1>2, <1>13 DEF Crash
<1>14. ASSUME \/ \E s \in Ids : BoxStep(s)
              \/ \E d \in Teardowns : TeardownStep(d) \/ \E s \in Ids : CreateUndone(d, s) \/ DeleteBegin(d, s) \/ DeadBegin(d, s)
              \/ ReconcileList \/ Retain \/ ReconcileDone \/ \E s \in Ids : ReconcileGet(s)
              \/ UNCHANGED vars
       PROVE  UNCHANGED call
    BY <1>14 DEF BoxStep, CreateRunning, CreateUndone, AttachDevice, VMDies, CleanupStopped, SetupEnds, calls, TeardownStep, DeletePut, DeadPut, CloseSSH, VMDelete, Forget, DeleteBegin, DeadBegin,
        ReconcileList, Retain, ReconcileDone, ReconcileGet, vars, boxRest, tdRest
<1> HIDE DEF Goal
<1>15. ASSUME NEW q \in Preps, PrepStep(q) \/ \E s \in Ids : PrepGet(q, s) PROVE Goal
    BY <1>7, <1>8, <1>9, <1>10, <1>11, <1>15 DEF PrepStep, Openers
<1>16. CASE ReconcileStep
    BY <1>3, <1>7, <1>12, <1>14, <1>16 DEF ReconcileStep, Openers
<1> QED BY <1>3, <1>13, <1>14, <1>15, <1>16, NextBox

LEMMA MutexesMove ==
    ASSUME AccessInv, [Next]_vars, NEW s \in Ids
    PROVE  \/ sshPrep'[s] = sshPrep[s] \/ Marked(s)
           \/ call' = [p \in Openers |-> NoCall]
           \/ \E p \in Preps, k \in Call : GetsMutex(p, k)
<1>1. ASSUME NEW d \in Teardowns, CloseSSH(d) PROVE sshPrep'[s] = sshPrep[s] \/ Marked(s)
    <2>1. td[d].id = s => Marked(s)
        BY <1>1 DEF CloseSSH, NoTeardown, AccessInv, MarkedFirst, Marked
    <2> QED BY <1>1, <2>1 DEF CloseSSH, AccessInv, TypeOK
<1>2. CASE Crash
    BY <1>2 DEF Crash
<1>3. ASSUME NEW p \in Preps, PrepLoad(p) PROVE \E k \in Call : GetsMutex(p, k)
    BY <1>3, PrepLoadMoves
<1>4. ASSUME \/ \E u \in Ids : BoxStep(u)
             \/ \E p \in Preps : PrepLock(p) \/ PrepExec(p) \/ OpenStep(p) \/ \E u \in Ids : PrepGet(p, u)
             \/ \E d \in Teardowns : DeletePut(d) \/ DeadPut(d) \/ VMDelete(d) \/ Forget(d) \/ \E u \in Ids : CreateUndone(d, u) \/ DeleteBegin(d, u) \/ DeadBegin(d, u)
             \/ ReconcileStep \/ UNCHANGED vars
      PROVE  UNCHANGED sshPrep
    BY <1>4 DEF BoxStep, CreateRunning, CreateUndone, AttachDevice, VMDies, CleanupStopped, SetupEnds, calls, PrepLock, PrepExec, OpenStep, Ensure, Remember, Check, CloseOpened, PrepGet,
        DeletePut, DeadPut, VMDelete, Forget, DeleteBegin, DeadBegin, ReconcileStep, ReconcileList, Retain, ReconcileDone,
        ReconcileGet, ReconcilePort, vars, boxRest, rcRest
<1> QED BY <1>1, <1>2, <1>3, <1>4, NextBox DEF TeardownStep, PrepStep

LEMMA HoldersStep == ASSUME AccessInv, HoldersDiffer, [Next]_vars PROVE HoldersDiffer'
<1> SUFFICES ASSUME NEW p \in Preps, NEW q \in Preps, call'[p].at \in Held, call'[q].at \in Held,
                    call'[p].id = call'[q].id, call'[p].mu = call'[q].mu, p # q
             PROVE  FALSE
    BY DEF HoldersDiffer
<1>1. ASSUME NEW r \in Preps, call'[r].at \in Held PROVE Keeps(r)
    <2>1. ASSUME NEW k \in Call, GetsMutex(r, k) PROVE call'[r].at = "lock"
        BY <2>1 DEF GetsMutex, SetCall, AccessInv, TypeOK, Openers
    <2> QED BY <1>1, <2>1, CallsKeep DEF Held
<1>2. ASSUME NEW r \in Preps, NEW u \in Preps, r # u, PrepLock(r), call'[u].at \in Held,
             call'[u].id = call'[r].id, call'[u].mu = call'[r].mu, Keeps(r), Keeps(u)
      PROVE  FALSE
    <2>1. call'[u] = call[u]
        BY <1>2 DEF PrepLock, GoCall, AccessInv, TypeOK, Openers
    <2>2. ~Holds(u, call[r].id, call[r].mu)
        BY <1>2 DEF PrepLock
    <2> QED BY <1>2, <2>1, <2>2 DEF Holds, Keeps, Held
<1>3. Keeps(p) /\ Keeps(q)
    BY <1>1
<1>4. ~PrepLock(p) /\ ~PrepLock(q)
    BY <1>2, <1>3
<1> QED BY <1>3, <1>4 DEF Keeps, HoldersDiffer

LEMMA MutexStep == ASSUME AccessInv, MutexKept, [Next]_vars PROVE MutexKept'
<1> SUFFICES ASSUME NEW s \in Ids, rec'[s] = "running", s \notin unmarked',
                    NEW p \in Preps, call'[p].id = s, call'[p].mu # None
             PROVE  call'[p].mu = sshPrep'[s]
    BY DEF MutexKept
<1>1. /\ call \in [Openers -> Call \cup {NoCall}] /\ sshPrep \in [Ids -> Preps \cup {None}]
      /\ p \in Openers /\ None \notin Ids
    BY SSHAccessAssumption DEF AccessInv, TypeOK, Openers
<1>2. call[p].id = s /\ (Keeps(p) \/ \E k \in Call : GetsMutex(p, k))
    <2>1. ASSUME NEW k \in Call, GetsMutex(p, k) PROVE call'[p].id = call[p].id
        BY <1>1, <2>1 DEF GetsMutex, SetCall, Carries
    <2> QED BY <2>1, CallsKeep DEF Keeps
<1>3. rec[s] # "new"
    BY <1>1, <1>2, CallTypes DEF AccessInv, CallShape
<1>4. rec[s] = "running" /\ s \notin unmarked
    BY <1>3, RecordsOnward DEF AccessInv
<1>5. ASSUME NEW k \in Call, GetsMutex(p, k) PROVE call'[p].mu = sshPrep'[s]
    BY <1>1, <1>2, <1>5 DEF GetsMutex, SetCall
<1>6. ASSUME Keeps(p) PROVE call'[p].mu = sshPrep'[s]
    <2>1. call'[p].mu = call[p].mu /\ call[p].mu = sshPrep[s] /\ sshPrep[s] # None
        BY <1>2, <1>4, <1>6 DEF Keeps, MutexKept
    <2>2. ~Marked(s)
        BY <1>4 DEF Marked
    <2>3. call' # [q \in Openers |-> NoCall]
        BY <1>1 DEF NoCall
    <2>4. ASSUME NEW q \in Preps, NEW k \in Call, GetsMutex(q, k) PROVE sshPrep'[s] = sshPrep[s]
        BY <1>1, <2>1, <2>4 DEF GetsMutex
    <2> QED BY <2>1, <2>2, <2>3, <2>4, MutexesMove
<1> QED BY <1>2, <1>5, <1>6

(* "One prepare per VM at a time": although Delete drops the mutex of a    *)
(* sandbox while calls hold it and wait for it, of two set-ups in the      *)
(* guest of a running sandbox one has been abandoned by its call, for any  *)
(* number of calls, timeouts and restarts (service.go, sshPrep).           *)
THEOREM OverlapsAreAbandoned == Spec => []OverlapOnlyAbandoned
<1>1. Init => HoldersDiffer /\ MutexKept
    BY DEF Init, HoldersDiffer, MutexKept, NoCall, Held, Openers
<1>2. AccessInv /\ HoldersDiffer /\ MutexKept => OverlapOnlyAbandoned
    <2> SUFFICES ASSUME AccessInv, HoldersDiffer, MutexKept, NEW s \in Ids, rec[s] = "running", s \notin unmarked,
                        NEW p \in Setups(s), NEW q \in Setups(s), None \notin {p, q}
                 PROVE  p = q
        BY DEF OverlapOnlyAbandoned
    <2>1. ASSUME NEW r \in {p, q} PROVE r \in Preps /\ call[r].id = s /\ call[r].at = "exec"
        BY <2>1 DEF Setups
    <2>2. ASSUME NEW r \in {p, q} PROVE call[r].mu # None
        BY <2>1, SSHAccessAssumption DEF AccessInv, CallShape, Openers
    <2>3. call[p].mu = sshPrep[s] /\ call[q].mu = sshPrep[s]
        BY <2>1, <2>2 DEF MutexKept
    <2> QED BY <2>1, <2>3 DEF HoldersDiffer, Held
<1> QED BY <1>1, <1>2, AccessAlways, HoldersStep, MutexStep, PTL DEF Spec

---------------------------------------------------------------------------
(* The service on the relay's table. *)

TableType == table \in [Ids -> Relay!Endpoint \cup {Relay!NoEndpoint}]
TableInv == TableType /\ Relay!PortsDistinct

LEMMA TableStep == ASSUME TableInv, [Relay!Next]_table PROVE TableInv'
<1> USE DEF TableInv, TableType, Relay!PortsDistinct, Relay!Listening
<1>1. ASSUME NEW s \in Ids, NEW t \in Addrs, Relay!Exhausted(s, t) PROVE TableInv'
    BY <1>1 DEF Relay!Exhausted
<1>2. ASSUME NEW s \in Ids, NEW t \in Addrs, NEW q \in Ports, Relay!Open(s, t, q) PROVE TableInv'
    <2>1. TableType'
        BY <1>2 DEF Relay!Open, Relay!Endpoint
    <2>2. Relay!PortsDistinct'
        BY <1>2 DEF Relay!Open, Relay!FreePorts
    <2> QED BY <2>1, <2>2
<1>3. ASSUME NEW s \in Ids, Relay!Close(s) PROVE TableInv'
    BY <1>3 DEF Relay!Close
<1>4. ASSUME NEW k \in [Ids -> Addrs \cup {None}], Relay!Retain(k) PROVE TableInv'
    BY <1>4 DEF Relay!Retain
<1>5. CASE UNCHANGED table
    BY <1>5
<1> QED BY <1>1, <1>2, <1>3, <1>4, <1>5 DEF Relay!Next, Relay!Reuse

(* Two sandboxes never share a port of the relay, whatever calls of        *)
(* Ensure, Close and Retain are made (relay.go, the map "used"): with      *)
(* SSHRelay's TableSpec, this holds of the sockets as well.                *)
THEOREM PortsAlwaysDistinct == Relay!Spec => []Relay!PortsDistinct
<1>1. Relay!Init => TableInv
    BY DEF Relay!Init, TableInv, TableType, Relay!PortsDistinct, Relay!Listening
<1>2. TableInv => Relay!PortsDistinct
    BY DEF TableInv
<1> QED BY <1>1, <1>2, TableStep, PTL DEF Relay!Spec

LEMMA CallsOfRelay == ASSUME AccessInv, [Next]_vars PROVE [Relay!Next]_table
<1>1. ASSUME NEW p \in Openers, OpenStep(p) PROVE [Relay!Next]_table
    <2>1. call[p].id \in Ids /\ call[p].ip \in Addrs
        BY <1>1, OpenStepMoves DEF Call
    <2>2. CASE Ensure(p)
        BY <2>1, <2>2 DEF Ensure, Relay!Next
    <2>3. CASE CloseOpened(p)
        BY <2>1, <2>3 DEF CloseOpened, Relay!Next
    <2> QED BY <1>1, <2>2, <2>3 DEF OpenStep, Remember, Check
<1>2. ASSUME NEW d \in Teardowns, CloseSSH(d) PROVE Relay!Next
    <2>1. td[d].id \in Ids
        BY <1>2 DEF CloseSSH, NoTeardown, Teardown, AccessInv, TypeOK
    <2> QED BY <1>2, <2>1 DEF CloseSSH, Relay!Next
<1>3. CASE Retain
    <2>1. keep \in [Ids -> Addrs \cup {None}] /\ Relay!Retain(keep)
        BY <1>3 DEF Retain, AccessInv, TypeOK
    <2> QED BY <2>1 DEF Relay!Next
<1>4. CASE Crash
    <2> DEFINE none == [s \in Ids |-> None]
    <2>1. \A s \in Ids : table[s].target = None => table[s] = Relay!NoEndpoint
        BY SSHAccessAssumption DEF AccessInv, TypeOK, Relay!Endpoint
    <2>2. none \in [Ids -> Addrs \cup {None}] /\ Relay!Retain(none)
        BY <1>4, <2>1 DEF Crash, Relay!Retain
    <2> HIDE DEF none
    <2> QED BY <2>2 DEF Relay!Next
<1>5. ASSUME \/ \E s \in Ids : BoxStep(s)
             \/ \E p \in Preps : PrepLoad(p) \/ PrepLock(p) \/ PrepExec(p) \/ \E s \in Ids : PrepGet(p, s)
             \/ \E d \in Teardowns : DeletePut(d) \/ DeadPut(d) \/ VMDelete(d) \/ Forget(d) \/ \E s \in Ids : CreateUndone(d, s) \/ DeleteBegin(d, s) \/ DeadBegin(d, s)
             \/ ReconcileList \/ ReconcileDone \/ \E s \in Ids : ReconcileGet(s) \/ ReconcilePort(s)
             \/ UNCHANGED vars
      PROVE  UNCHANGED table
    BY <1>5 DEF BoxStep, CreateRunning, CreateUndone, AttachDevice, VMDies, CleanupStopped, SetupEnds, calls, PrepLoad, PrepLock, PrepExec, PrepGet, DeletePut, DeadPut, VMDelete, Forget, DeleteBegin,
        DeadBegin, ReconcileList, ReconcileDone, ReconcileGet, ReconcilePort, vars, boxRest
<1>6. ASSUME NEW p \in Preps, PrepStep(p) PROVE [Relay!Next]_table
    BY <1>1, <1>5, <1>6 DEF PrepStep, Openers
<1>7. CASE ReconcileStep
    BY <1>1, <1>3, <1>5, <1>7 DEF ReconcileStep, Openers
<1> QED BY <1>2, <1>4, <1>5, <1>6, <1>7, NextBox DEF TeardownStep

(* The service uses the relay as a table of endpoints and a restart        *)
(* empties it, so no two sandboxes are ever offered the same port,         *)
(* remembered ports and ports lost to other processes included             *)
(* (service.go, PrepareSSH and reconcileSSH).                              *)
THEOREM ServicePortsDistinct == Spec => Relay!Spec /\ []Relay!PortsDistinct
<1>1. Init => Relay!Init
    BY DEF Init
<1>2. AccessInv /\ [Next]_vars => [Relay!Next]_table
    BY CallsOfRelay
<1>3. Spec => Relay!Spec
    BY <1>1, <1>2, AccessAlways, PTL DEF Spec, Relay!Spec
<1> QED BY <1>3, PortsAlwaysDistinct, PTL

=============================================================================
