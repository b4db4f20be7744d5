---------------------------- MODULE SSHAccess -----------------------------
(***************************************************************************)
(* SSH access to running sandboxes: PrepareSSH, reconcileSSH and           *)
(* closeSSHUnlessRunning of internal/service/service.go over the relay     *)
(* that RelayTable specifies, while Delete, teardownDead, the undo of a    *)
(* Create and CleanupStopped take sandboxes down and their addresses go to *)
(* the next VM.                                                            *)
(*                                                                         *)
(* Every call to Redis, the guest or the relay is a step of its own.       *)
(* Create up to PutRunning is one step (Lifecycle and VMManager have its   *)
(* steps), and so are AttachDevice and what CleanupStopped does to one VM. *)
(***************************************************************************)
EXTENDS Naturals, FiniteSets

CONSTANTS Ids, Addrs, Ports, None,
          Preps,        \* concurrent PrepareSSH requests
          Teardowns,    \* concurrent Delete and teardownDead calls
          Reconciler,   \* the goroutine of ReconcileLoop
          MaxFaults,    \* bound: calls that fail or are given up, ports lost to other
                        \* processes, records written back by AttachDevice
          MaxCrashes    \* bound: restarts of the manager

Openers == Preps \cup {Reconciler}

ASSUME SSHAccessAssumption ==
    /\ None \notin Ids \cup Addrs \cup Ports \cup Preps
    /\ Reconciler \notin Preps /\ IsFiniteSet(Preps)
    /\ MaxFaults \in Nat /\ MaxCrashes \in Nat

VARIABLES rec,      \* state of each record; "new" and "gone": there is none
          addr,     \* its ip_address
          vm,       \* the VM behind it; it holds the address until "none"
          sshPort,  \* sandbox:ssh-port, the remembered port
          table,    \* the relay's listeners
          sshPrep,  \* the mutex that LoadOrStore returns for each id
          call,     \* PrepareSSH calls, and the listener reconcileSSH works on
          td,       \* teardowns
          rcAt, rcTodo, keep,   \* reconcileSSH: phase, ids left, its map of running sandboxes
          orphans,  \* sandboxes whose guest may run a set-up that no call waits for
          unmarked, \* history: taken down without the mark, or the mark was lost
          faults, crashes

Relay == INSTANCE RelayTable WITH Sandboxes <- Ids, Targets <- Addrs

boxVars == <<rec, addr, vm, sshPort>>
rcVars  == <<rcAt, rcTodo, keep>>
vars == <<boxVars, table, sshPrep, call, td, rcVars, orphans, unmarked, faults, crashes>>

Call   == [at : {"load", "lock", "exec", "ensure", "remember", "check", "close"},
           id : Ids, ip : Addrs, port : Ports \cup {None}, mu : Preps \cup {None}]
NoCall == [at |-> "idle", id |-> None, ip |-> None, port |-> None, mu |-> None]
Teardown   == [at : {"put", "putError", "close", "vmDelete", "forget"}, id : Ids]
NoTeardown == [at |-> "idle", id |-> None]

TypeOK ==
    /\ rec \in [Ids -> {"new", "creating", "running", "terminating", "error", "gone"}]
    /\ addr \in [Ids -> Addrs \cup {None}]
    /\ vm \in [Ids -> {"none", "live", "dead"}]
    /\ sshPort \in [Ids -> Ports \cup {None}]
    /\ table \in [Ids -> Relay!Endpoint \cup {Relay!NoEndpoint}]
    /\ sshPrep \in [Ids -> Preps \cup {None}]
    /\ call \in [Openers -> Call \cup {NoCall}]
    /\ td \in [Teardowns -> Teardown \cup {NoTeardown}]
    /\ rcAt \in {"idle", "list", "open"}
    /\ rcTodo \subseteq Ids
    /\ keep \in [Ids -> Addrs \cup {None}]
    /\ orphans \subseteq Ids /\ unmarked \subseteq Ids
    /\ faults \in 0..MaxFaults
    /\ crashes \in 0..MaxCrashes

Init ==
    /\ rec = [s \in Ids |-> "new"] /\ addr = [s \in Ids |-> None]
    /\ vm = [s \in Ids |-> "none"] /\ sshPort = [s \in Ids |-> None]
    /\ Relay!Init
    /\ sshPrep = [s \in Ids |-> None]
    /\ call = [p \in Openers |-> NoCall]
    /\ td = [d \in Teardowns |-> NoTeardown]
    /\ rcAt = "idle" /\ rcTodo = {} /\ keep = [s \in Ids |-> None]
    /\ orphans = {} /\ unmarked = {}
    /\ faults = 0 /\ crashes = 0

Fault == faults < MaxFaults /\ faults' = faults + 1
NoFault == UNCHANGED faults

Leased(a) == \E s \in Ids : vm[s] # "none" /\ addr[s] = a

---------------------------------------------------------------------------
(* Sandboxes come up, guests die and are swept. *)

calls   == <<sshPort, table, sshPrep, call, rcVars, crashes>>
boxRest == <<calls, td, faults>>

(* A VM comes up and PutRunning gives the record the address that CNI gave *)
(* the VM.                                                                 *)
Started(s) ==
    /\ rec[s] = "new"
    /\ \E a \in Addrs : ~Leased(a) /\ addr' = [addr EXCEPT ![s] = a]
    /\ rec' = [rec EXCEPT ![s] = "running"]
    /\ vm' = [vm EXCEPT ![s] = "live"]

CreateRunning(s) == Started(s) /\ UNCHANGED <<unmarked, orphans, boxRest>>

(* The reply of PutRunning is lost: Create takes the VM down again, with   *)
(* finishTeardown alone, while the record says that the sandbox runs.      *)
CreateUndone(d, s) ==
    /\ Started(s) /\ Fault
    /\ td[d] = NoTeardown /\ td' = [td EXCEPT ![d] = [at |-> "vmDelete", id |-> s]]
    /\ unmarked' = unmarked \cup {s}
    /\ UNCHANGED <<orphans, calls>>

(* AttachDevice, overtaken between its Get and its Put by a PutRunning, a  *)
(* teardown or both: its Put brings back the state that its Get found.     *)
AttachDevice(s) ==
    /\ rec[s] # "new" /\ Fault
    /\ \E was \in {"creating", "running"} \ {rec[s]} : rec' = [rec EXCEPT ![s] = was]
    /\ unmarked' = unmarked \cup {s}
    /\ UNCHANGED <<addr, vm, td, orphans, calls>>

VMDies(s) ==
    /\ vm[s] = "live"
    /\ vm' = [vm EXCEPT ![s] = "dead"] /\ orphans' = orphans \ {s}
    /\ UNCHANGED <<rec, addr, unmarked, boxRest>>

(* CleanupStopped, which follows Reconcile in ReconcileLoop: the container *)
(* of a VM that does not run is deleted and its address given back,        *)
(* whatever the record says.                                               *)
CleanupStopped(s) ==
    /\ rcAt = "idle" /\ vm[s] = "dead"
    /\ vm' = [vm EXCEPT ![s] = "none"]
    /\ unmarked' = unmarked \cup {u \in {s} : rec[u] = "running"}
    /\ UNCHANGED <<rec, addr, orphans, boxRest>>

---------------------------------------------------------------------------
(* PrepareSSH up to the relay. *)

SetCall(p, c) == call' = [call EXCEPT ![p] = c]
GoCall(p, a)  == call' = [call EXCEPT ![p].at = a]
EndCall(p)    == SetCall(p, NoCall)

execRest == <<rec, addr, vm, td, unmarked, crashes>>
callRest == <<execRest, orphans>>

(* Faulty variant: the state of the record is not looked at. *)
PrepGetAnyState(p, s) ==
    /\ call[p] = NoCall /\ NoFault
    /\ SetCall(p, [at |-> "load", id |-> s, ip |-> addr[s], port |-> None, mu |-> None])
    /\ UNCHANGED <<sshPort, table, sshPrep, rcVars, callRest>>

(* Get: a sandbox that is not running is refused. *)
PrepGet(p, s) ==
    /\ call[p] = NoCall /\ rec[s] = "running" /\ NoFault
    /\ SetCall(p, [at |-> "load", id |-> s, ip |-> addr[s], port |-> None, mu |-> None])
    /\ UNCHANGED <<sshPort, table, sshPrep, rcVars, callRest>>

(* Faulty variant: every call stores a mutex of its own. *)
PrepStore(p) ==
    LET mutex == CHOOSE m \in Preps : m \notin {call[q].mu : q \in Preps \ {p}} IN
    /\ call[p].at = "load" /\ NoFault
    /\ sshPrep' = [sshPrep EXCEPT ![call[p].id] = mutex]
    /\ SetCall(p, [call[p] EXCEPT !.at = "lock", !.mu = mutex])
    /\ UNCHANGED <<sshPort, table, rcVars, callRest>>

(* sshPrep.LoadOrStore: the mutex of this id, or a new one.  Mutexes are   *)
(* told apart by a name that no call on the id uses.                       *)
PrepLoad(p) ==
    LET s == call[p].id
        InUse == {call[q].mu : q \in {q \in Preps : call[q].id = s}}
        mutex == IF sshPrep[s] # None THEN sshPrep[s] ELSE CHOOSE m \in Preps : m \notin InUse
    IN
    /\ call[p].at = "load" /\ NoFault
    /\ sshPrep' = [sshPrep EXCEPT ![s] = mutex]
    /\ SetCall(p, [call[p] EXCEPT !.at = "lock", !.mu = mutex])
    /\ UNCHANGED <<sshPort, table, rcVars, callRest>>

Holds(q, s, m) == call[q].id = s /\ call[q].mu = m /\ call[q].at # "lock"
PrepLock(p) ==
    /\ call[p].at = "lock" /\ NoFault
    /\ \A q \in Preps \ {p} : ~Holds(q, call[p].id, call[p].mu)
    /\ GoCall(p, "exec")
    /\ UNCHANGED <<sshPort, table, sshPrep, rcVars, callRest>>

(* Exec of cloud-ssh-setup, then SSHPort, whose error counts as no port.   *)
(* When Exec fails, there may be no set-up in the guest; but a call that   *)
(* times out, or whose client goes away, leaves its set-up running.        *)
PrepExec(p) ==
    LET s == call[p].id IN
    /\ call[p].at = "exec"
    /\ \/ /\ vm[s] = "live" /\ NoFault
          /\ SetCall(p, [call[p] EXCEPT !.at = "ensure", !.port = sshPort[s]])
          /\ UNCHANGED orphans
       \/ vm[s] = "live" /\ Fault /\ GoCall(p, "ensure") /\ UNCHANGED orphans
       \/ vm[s] # "live" /\ NoFault /\ EndCall(p) /\ UNCHANGED orphans
       \/ vm[s] = "live" /\ Fault /\ EndCall(p) /\ orphans' \in {orphans, orphans \cup {s}}
    /\ UNCHANGED <<sshPort, table, sshPrep, rcVars, execRest>>

(* A set-up that nobody waits for ends by itself, if not with its VM.      *)
SetupEnds(s) ==
    /\ s \in orphans /\ orphans' = orphans \ {s}
    /\ UNCHANGED <<boxVars, table, sshPrep, call, td, rcVars, unmarked, faults, crashes>>

---------------------------------------------------------------------------
(* What PrepareSSH and reconcileSSH share: Ensure, SetSSHPort and          *)
(* closeSSHUnlessRunning.                                                  *)

(* The ports that Ensure may open for a call: the preferred one, else the  *)
(* first that no other sandbox has.  By a fault, another process has it.   *)
Wanted(c) ==
    LET free == Relay!FreePorts(c.id) IN
    IF c.port \in free THEN {c.port} ELSE {q \in free : \A r \in free : q <= r}

Opened(p, a) == SetCall(p, [call[p] EXCEPT !.at = a, !.port = None])

(* Faulty variant: reconcileSSH does not remember the port it got.         *)
EnsureForgetful(p) ==
    LET c == call[p]
        AfterPort(q) == IF q = c.port \/ p = Reconciler THEN Opened(p, "check")
                        ELSE SetCall(p, [c EXCEPT !.at = "remember", !.port = q])
    IN
    /\ c.at = "ensure"
    /\ \/ Relay!Reuse(c.id, c.ip) /\ NoFault /\ AfterPort(table[c.id].port)
       \/ \E q \in Ports :
             /\ Relay!Open(c.id, c.ip, q) /\ AfterPort(q)
             /\ IF q \in Wanted(c) THEN NoFault ELSE Fault
       \/ /\ Relay!Exhausted(c.id, c.ip) /\ EndCall(p)
          /\ IF Wanted(c) = {} THEN NoFault ELSE Fault
    /\ UNCHANGED <<sshPort, sshPrep, rcVars, callRest>>

(* A port that is not the remembered one is to be remembered.              *)
Ensure(p) ==
    LET c == call[p]
        AfterPort(q) == IF q = c.port THEN Opened(p, "check")
                        ELSE SetCall(p, [c EXCEPT !.at = "remember", !.port = q])
    IN
    /\ c.at = "ensure"
    /\ \/ Relay!Reuse(c.id, c.ip) /\ NoFault /\ AfterPort(table[c.id].port)
       \/ \E q \in Ports :
             /\ Relay!Open(c.id, c.ip, q) /\ AfterPort(q)
             /\ IF q \in Wanted(c) THEN NoFault ELSE Fault
       \/ /\ Relay!Exhausted(c.id, c.ip) /\ EndCall(p)
          /\ IF Wanted(c) = {} THEN NoFault ELSE Fault
    /\ UNCHANGED <<sshPort, sshPrep, rcVars, callRest>>

(* SetSSHPort; on an error, which may hide a write, the listener is closed.*)
Remember(p) ==
    LET Write == sshPort' = [sshPort EXCEPT ![call[p].id] = call[p].port] IN
    /\ call[p].at = "remember"
    /\ \/ Write /\ NoFault /\ Opened(p, "check")
       \/ (Write \/ UNCHANGED sshPort) /\ Fault /\ Opened(p, "close")
    /\ UNCHANGED <<table, sshPrep, rcVars, callRest>>

(* Faulty variant: the record is not read again. *)
CheckSkipped(p) ==
    /\ call[p].at = "check" /\ NoFault
    /\ EndCall(p)
    /\ UNCHANGED <<sshPort, table, sshPrep, rcVars, callRest>>

(* closeSSHUnlessRunning: Get, ... *)
Check(p) ==
    /\ call[p].at = "check"
    /\ \/ rec[call[p].id] = "running" /\ NoFault /\ EndCall(p)
       \/ rec[call[p].id] # "running" /\ NoFault /\ GoCall(p, "close")
       \/ Fault /\ GoCall(p, "close")
    /\ UNCHANGED <<sshPort, table, sshPrep, rcVars, callRest>>

(* ... then Close. *)
CloseOpened(p) ==
    /\ call[p].at = "close" /\ NoFault
    /\ Relay!Close(call[p].id)
    /\ EndCall(p)
    /\ UNCHANGED <<sshPort, sshPrep, rcVars, callRest>>

OpenStep(p) == Ensure(p) \/ Remember(p) \/ Check(p) \/ CloseOpened(p)
PrepStep(p) == PrepLoad(p) \/ PrepLock(p) \/ PrepExec(p) \/ OpenStep(p)

---------------------------------------------------------------------------
(* reconcileSSH. *)

rcRest == <<boxVars, sshPrep, td, orphans, unmarked, crashes>>

ReconcileList ==
    /\ rcAt = "idle" /\ NoFault
    /\ rcAt' = "list" /\ rcTodo' = {s \in Ids : rec[s] \notin {"new", "gone"}}
    /\ UNCHANGED <<keep, table, call, rcRest>>

(* A record that cannot be read is left out like one that is not running.  *)
ReconcileGet(s) ==
    /\ rcAt = "list" /\ s \in rcTodo
    /\ rcTodo' = rcTodo \ {s}
    /\ \/ rec[s] = "running" /\ NoFault /\ keep' = [keep EXCEPT ![s] = addr[s]]
       \/ rec[s] # "running" /\ NoFault /\ UNCHANGED keep
       \/ rec[s] = "running" /\ Fault /\ UNCHANGED keep
    /\ UNCHANGED <<rcAt, table, call, rcRest>>

(* Faulty variant: only listeners of sandboxes on the list are looked at.  *)
RetainListedOnly ==
    /\ rcAt = "list" /\ rcTodo = {} /\ NoFault
    /\ table' = [s \in Ids |-> IF keep[s] \in {None, table[s].target} THEN table[s] ELSE Relay!NoEndpoint]
    /\ rcAt' = "open" /\ rcTodo' = {s \in Ids : keep[s] # None}
    /\ UNCHANGED <<keep, call, rcRest>>

Retain ==
    /\ rcAt = "list" /\ rcTodo = {} /\ NoFault
    /\ Relay!Retain(keep)
    /\ rcAt' = "open" /\ rcTodo' = {s \in Ids : keep[s] # None}
    /\ UNCHANGED <<keep, call, rcRest>>

(* Only a remembered port makes reconcileSSH open a listener. *)
ReconcilePort(s) ==
    /\ rcAt = "open" /\ s \in rcTodo /\ call[Reconciler] = NoCall
    /\ rcTodo' = rcTodo \ {s} /\ keep' = [keep EXCEPT ![s] = None]
    /\ \/ /\ sshPort[s] # None /\ NoFault
          /\ SetCall(Reconciler, [at |-> "ensure", id |-> s, ip |-> keep[s], port |-> sshPort[s], mu |-> None])
       \/ sshPort[s] = None /\ NoFault /\ UNCHANGED call
       \/ sshPort[s] # None /\ Fault /\ UNCHANGED call
    /\ UNCHANGED <<rcAt, table, rcRest>>

ReconcileDone ==
    /\ rcAt = "open" /\ rcTodo = {} /\ call[Reconciler] = NoCall /\ NoFault
    /\ rcAt' = "idle"
    /\ UNCHANGED <<rcTodo, keep, table, call, rcRest>>

ReconcileStep ==
    \/ ReconcileList \/ Retain \/ ReconcileDone \/ OpenStep(Reconciler)
    \/ \E s \in Ids : ReconcileGet(s) \/ ReconcilePort(s)

---------------------------------------------------------------------------
(* Delete and teardownDead. *)

GoDown(d, a) == td' = [td EXCEPT ![d].at = a]
EndDown(d)   == td' = [td EXCEPT ![d] = NoTeardown]
tdRest == <<addr, call, rcVars, crashes>>

(* Delete: Get finds a record. *)
DeleteBegin(d, s) ==
    /\ td[d] = NoTeardown /\ rec[s] \notin {"new", "gone"}
    /\ td' = [td EXCEPT ![d] = [at |-> "put", id |-> s]]
    /\ UNCHANGED <<rec, vm, sshPort, table, sshPrep, unmarked, faults, orphans, tdRest>>

(* teardownDead: an active record and a VM that is definitively gone. *)
DeadBegin(d, s) ==
    /\ td[d] = NoTeardown /\ rec[s] \in {"creating", "running", "terminating"} /\ vm[s] # "live"
    /\ td' = [td EXCEPT ![d] = [at |-> "putError", id |-> s]]
    /\ UNCHANGED <<rec, vm, sshPort, table, sshPrep, unmarked, faults, orphans, tdRest>>

(* Delete persists terminating; an error, which may hide the write, ends   *)
(* it.                                                                     *)
DeletePut(d) ==
    LET s == td[d].id
        Write == rec' = [rec EXCEPT ![s] = "terminating"]
    IN
    /\ td[d].at = "put"
    /\ \/ Write /\ NoFault /\ GoDown(d, "close") /\ UNCHANGED unmarked
       \/ (Write \/ UNCHANGED rec) /\ Fault /\ EndDown(d) /\ unmarked' = unmarked \cup {s}
    /\ UNCHANGED <<vm, sshPort, table, sshPrep, orphans, tdRest>>

(* teardownDead only logs that its write failed. *)
DeadPut(d) ==
    LET s == td[d].id
        Write == rec' = [rec EXCEPT ![s] = "error"]
    IN
    /\ td[d].at = "putError" /\ GoDown(d, "close")
    /\ \/ Write /\ NoFault /\ UNCHANGED unmarked
       \/ (Write \/ UNCHANGED rec) /\ Fault /\ unmarked' = unmarked \cup {s}
    /\ UNCHANGED <<vm, sshPort, table, sshPrep, orphans, tdRest>>

(* ssh.Close, sshPrep.Delete. *)
CloseSSH(d) ==
    /\ td[d].at = "close"
    /\ Relay!Close(td[d].id)
    /\ sshPrep' = [sshPrep EXCEPT ![td[d].id] = None]
    /\ GoDown(d, "vmDelete")
    /\ UNCHANGED <<rec, vm, sshPort, unmarked, faults, orphans, tdRest>>

(* finishTeardown: vm.Delete gives the address back.  When it fails, the   *)
(* address may have gone nevertheless, and only a VM that is known not to  *)
(* run lets the teardown go on.                                            *)
VMDelete(d) ==
    LET s == td[d].id IN
    /\ td[d].at = "vmDelete"
    /\ \/ /\ vm' = [vm EXCEPT ![s] = "none"] /\ orphans' = orphans \ {s}
          /\ NoFault /\ GoDown(d, "forget")
       \/ /\ Fault
          /\ \E left \in {vm[s], "dead", "none"} :
                /\ vm[s] = "none" => left = "none"
                /\ vm' = [vm EXCEPT ![s] = left]
                /\ orphans' = IF left = "live" THEN orphans ELSE orphans \ {s}
                /\ \/ EndDown(d)
                   \/ left # "live" /\ GoDown(d, "forget")
    /\ UNCHANGED <<rec, sshPort, table, sshPrep, unmarked, tdRest>>

(* store.Delete: record and remembered port go, unless the record is gone. *)
Forget(d) ==
    LET s == td[d].id
        Write == IF rec[s] = "gone" THEN UNCHANGED <<rec, sshPort>>
                 ELSE rec' = [rec EXCEPT ![s] = "gone"] /\ sshPort' = [sshPort EXCEPT ![s] = None]
    IN
    /\ td[d].at = "forget" /\ EndDown(d)
    /\ \/ Write /\ NoFault
       \/ (Write \/ UNCHANGED <<rec, sshPort>>) /\ Fault
    /\ UNCHANGED <<vm, table, sshPrep, unmarked, orphans, tdRest>>

TeardownStep(d) == DeletePut(d) \/ DeadPut(d) \/ CloseSSH(d) \/ VMDelete(d) \/ Forget(d)

(* A restart: the relay's listeners and all calls are gone, and what they  *)
(* have started in the guests goes on.                                     *)
Crash ==
    /\ crashes < MaxCrashes /\ crashes' = crashes + 1
    /\ table' = [s \in Ids |-> Relay!NoEndpoint]
    /\ sshPrep' = [s \in Ids |-> None]
    /\ call' = [p \in Openers |-> NoCall]
    /\ td' = [d \in Teardowns |-> NoTeardown]
    /\ rcAt' = "idle" /\ rcTodo' = {} /\ keep' = [s \in Ids |-> None]
    /\ orphans' = orphans \cup {s \in Ids : vm[s] = "live" /\ \E p \in Preps : call[p].id = s /\ call[p].at = "exec"}
    /\ UNCHANGED <<boxVars, unmarked, faults>>

Next ==
    \/ \E s \in Ids : CreateRunning(s) \/ AttachDevice(s) \/ VMDies(s) \/ CleanupStopped(s) \/ SetupEnds(s)
    \/ \E p \in Preps : PrepStep(p) \/ \E s \in Ids : PrepGet(p, s)
    \/ \E d \in Teardowns : TeardownStep(d) \/ \E s \in Ids : CreateUndone(d, s) \/ DeleteBegin(d, s) \/ DeadBegin(d, s)
    \/ ReconcileStep
    \/ Crash

Spec == Init /\ [][Next]_vars

(* Every teardown has a deadline, and the reconcile loop ticks for ever,   *)
(* with a teardownDead for each record whose VM is gone.  Nothing depends  *)
(* on a PrepareSSH going on.                                               *)
Fairness ==
    /\ \A d \in Teardowns : WF_vars(TeardownStep(d) \/ \E s \in Ids : DeadBegin(d, s))
    /\ WF_vars(ReconcileStep)

FairSpec == Spec /\ Fairness

---------------------------------------------------------------------------
(* Properties. *)

(* Someone is about to close the listener of s, or to look whether s runs. *)
Watched(s) ==
    \/ \E p \in Openers : call[p].id = s /\ call[p].at \in {"remember", "check", "close"}
    \/ \E d \in Teardowns : td[d].id = s /\ td[d].at = "close"

(* An open listener leads to the VM of its own, running sandbox, or a call *)
(* that will notice is still under way, whatever Delete, teardownDead,     *)
(* PrepareSSH, reconcileSSH and the reuse of addresses interleave.  The    *)
(* sandboxes of unmarked are excepted: their VM went, or their mark, by a  *)
(* teardown whose write failed, by Create's undo after a lost reply, by a  *)
(* CleanupStopped that came before Reconcile or by AttachDevice's          *)
(* write-back (see StrayListenerClosed for all of them).                   *)
ListenerLeadsHome ==
    \A s \in Ids : Relay!Listening(s) /\ s \notin unmarked =>
        \/ rec[s] = "running" /\ vm[s] # "none" /\ table[s].target = addr[s]
        \/ Watched(s)

(* "never leave a listener pointing at a released IP" (PrepareSSH), and    *)
(* "Delete and teardown close the listener and all of its active           *)
(* connections before the VM is destroyed" (docs/cloud-ssh.md): a sandbox  *)
(* whose VM is destroyed has no listener but one that is being closed.     *)
NoListenerAtReleasedAddress ==
    \A s \in Ids : Relay!Listening(s) /\ vm[s] = "none" => Watched(s)

(* The set-ups in the guest of s: of the calls that wait for one, and None *)
(* for those that nobody waits for.                                        *)
Setups(s) == {p \in Preps : call[p].id = s /\ call[p].at = "exec"} \cup {n \in {None} : s \in orphans}

(* "One prepare per VM at a time: the guest setup writes key/config        *)
(* files": although Delete drops the mutex of a sandbox while calls hold   *)
(* it and wait for it, of two set-ups in the guest of a running sandbox    *)
(* one has been abandoned, by a call that timed out, lost its client or    *)
(* went with a restart: those the mutex does not keep apart.               *)
OverlapOnlyAbandoned ==
    \A s \in Ids : rec[s] = "running" /\ s \notin unmarked =>
        \A a, b \in Setups(s) : a # b => None \in {a, b}

(* Whatever failed, no listener of a sandbox stays open that does not run, *)
(* or whose VM and address are gone.                                       *)
StrayListenerClosed ==
    \A s \in Ids : Relay!Listening(s) /\ (rec[s] # "running" \/ vm[s] = "none")
                      ~> ~Relay!Listening(s)

(* A sandbox whose port is remembered is served on exactly that port again *)
(* after restarts, failed calls and listeners closed on a stale list.      *)
RememberedPortServed ==
    \A s \in Ids : rec[s] = "running" /\ sshPort[s] # None
                      ~> rec[s] # "running" \/ (Relay!Listening(s) /\ table[s].port = sshPort[s])
=============================================================================
