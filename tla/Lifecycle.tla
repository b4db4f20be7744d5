----------------------------- MODULE Lifecycle -----------------------------
(***************************************************************************)
(* The service layer of internal/service/service.go over the inventory of  *)
(* SandboxStore and over containerd: Create calls, Delete calls, admin     *)
(* DeleteUserData and AttachDevice calls, the reconcile loop, and restarts *)
(* of the manager.  Every call to Redis or containerd is a step of its     *)
(* own, so the calls of concurrent handlers interleave between them.       *)
(*                                                                         *)
(* A Create call is named by the id it draws.  Delete, teardownDead and    *)
(* finishTeardown are one state machine, the teardown frame td[p], run by  *)
(* whichever process p called it.                                          *)
(***************************************************************************)
EXTENDS SandboxStore

CONSTANTS Deleters,        \* concurrent DELETE /sandbox/{id} requests
          Purgers,         \* concurrent DeleteUserData requests
          Attachers,       \* concurrent AttachDevice requests
          Reconciler,      \* the goroutine of ReconcileLoop
          DeleteInFlight,  \* may a client delete a sandbox whose Create has not returned?
          RollbackFails,   \* may the best-effort rollback of vm.Create fail?
          MaxFaults,       \* bound: failed calls to Redis, containerd, disk or backend
          MaxCrashes       \* bound: restarts of the manager

Procs == Ids \cup Deleters \cup Purgers \cup {Reconciler}

ASSUME LifecycleAssumption ==
    /\ DeleteInFlight \in BOOLEAN
    /\ RollbackFails \in BOOLEAN
    /\ MaxFaults \in Nat
    /\ MaxCrashes \in Nat

VARIABLES cpc,      \* where the Create call of each id is
          expired,  \* Create calls whose context is done: timeout or client gone
          holder,   \* the slot holder that a healing Create call read,
          hsnap,    \* and the record it read of that holder
          td,       \* the teardown frame of each process
          vm,       \* containerd's truth: no container, container without running task, running
          homes,    \* users that have a home.img
          rcAt, rcTodo, rcSnap,   \* reconcile pass: phase, ids left, records read by List
          pu,       \* DeleteUserData calls
          att,      \* AttachDevice calls
          faults, crashes

createVars == <<cpc, expired, holder, hsnap>>
rcVars     == <<rcAt, rcTodo, rcSnap>>
vars == <<storeVars, createVars, td, vm, homes, rcVars, pu, att, faults, crashes>>

CreatePC == {"idle", "reserve", "heal", "healGet", "healLive", "healing", "retry", "disk",
             "mint", "boot", "start", "commit", "undo", "failPut", "failRelease", "done"}

(* A frame: where the teardown is, of which sandbox, the device_id of the  *)
(* record it works on, and whether it only has a slot to free at the end.  *)
FrameAt == {"get", "put", "putError", "close", "vmDelete", "isLive", "finish"}
Frame   == [at : FrameAt, id : Ids, dev : BOOLEAN, slotOnly : BOOLEAN]
NoFrame == [at |-> "none", id |-> NoId, dev |-> FALSE, slotOnly |-> FALSE]
FailedFrame == [NoFrame EXCEPT !.at = "failed"]
NewFrame(a, s, d) == [at |-> a, id |-> s, dev |-> d, slotOnly |-> FALSE]

Purge   == [at : {"idle", "delete", "purge", "rmHome"}, users : SUBSET Users, todo : SUBSET Ids]
NoPurge == [at |-> "idle", users |-> {}, todo |-> {}]
Attach  == [id : Ids, snap : Record]
NoAttach == [id |-> NoId, snap |-> NoRec]

TypeOK ==
    /\ StoreTypeOK
    /\ cpc \in [Ids -> CreatePC]
    /\ expired \subseteq Ids
    /\ holder \in [Ids -> Ids \cup {NoId}]
    /\ \A s \in Ids : cpc[s] \in {"healGet", "healLive"} => holder[s] \in Ids
    /\ hsnap \in [Ids -> Record \cup {NoRec}]
    /\ td \in [Procs -> Frame \cup {NoFrame, FailedFrame}]
    /\ vm \in [Ids -> {"none", "stopped", "live"}]
    /\ homes \subseteq Users
    /\ rcAt \in {"idle", "list", "process", "ssh", "sweep"}
    /\ rcTodo \subseteq Ids
    /\ rcSnap \in [Ids -> Record \cup {NoRec}]
    /\ pu \in [Purgers -> Purge]
    /\ att \in [Attachers -> Attach \cup {NoAttach}]
    /\ faults \in 0..MaxFaults
    /\ crashes \in 0..MaxCrashes

InFlight(s) == cpc[s] \notin {"idle", "done"}
Live(s) == vm[s] = "live"

(* A legacy slot's VM may be in any state when this release starts. *)
Init ==
    /\ StoreInit
    /\ cpc = [s \in Ids |-> "idle"]
    /\ expired = {}
    /\ holder = [s \in Ids |-> NoId]
    /\ hsnap = [s \in Ids |-> NoRec]
    /\ td = [p \in Procs |-> NoFrame]
    /\ vm \in [Ids -> {"none", "stopped", "live"}]
    /\ \A s \in Ids : slot[Owner[s]] # s => vm[s] = "none"
    /\ homes = {}
    /\ rcAt = "idle" /\ rcTodo = {} /\ rcSnap = [s \in Ids |-> NoRec]
    /\ pu = [p \in Purgers |-> NoPurge]
    /\ att = [a \in Attachers |-> NoAttach]
    /\ faults = 0 /\ crashes = 0

---------------------------------------------------------------------------
(* Calls that fail.  A call made with a context that is already done is    *)
(* refused without effect; any other failure (an outage, a client that     *)
(* disconnects) is charged to MaxFaults.  A failed Redis write may have    *)
(* been applied: its reply was lost.                                       *)

Fault == faults < MaxFaults /\ faults' = faults + 1

(* The undo of a Create call runs under a fresh context. *)
CtxDone(p) == p \in expired /\ cpc[p] # "undo"
CallOK(p) == ~CtxDone(p) /\ UNCHANGED faults
CallFails(p) == \/ CtxDone(p) /\ UNCHANGED faults
                \/ ~CtxDone(p) /\ Fault
WriteFails(p, Write) == \/ CtxDone(p) /\ UNCHANGED <<faults, storeVars>>
                        \/ ~CtxDone(p) /\ Fault /\ (Write \/ UNCHANGED storeVars)

---------------------------------------------------------------------------
(* The teardown frame: Delete, teardownDead, finishTeardown. *)

SetFrame(p, f) == td' = [td EXCEPT ![p] = f]
GoFrame(p, a) == td' = [td EXCEPT ![p].at = a]
(* Only DeleteUserData looks at the error that Delete returns. *)
EndFrame(p) == SetFrame(p, NoFrame)
AbortFrame(p) == SetFrame(p, IF p \in Purgers THEN FailedFrame ELSE NoFrame)

frameRest == <<createVars, homes, rcVars, pu, att, crashes>>

(* Delete: s.Get, not found ends it. *)
DeleteGet(p) ==
    LET s == td[p].id IN
    /\ td[p].at = "get"
    /\ \/ CallOK(p) /\ Exists(s) /\ SetFrame(p, NewFrame("put", s, rec[s].dev))
       \/ CallOK(p) /\ ~Exists(s) /\ EndFrame(p)
       \/ CallFails(p) /\ AbortFrame(p)
    /\ UNCHANGED <<storeVars, vm, frameRest>>

(* Delete: persist terminating, refreshing last_activity. *)
DeletePut(p) ==
    LET s == td[p].id
        r == [st |-> "terminating", old |-> FALSE, dev |-> td[p].dev]
    IN
    /\ td[p].at = "put"
    /\ \/ CallOK(p) /\ Put(s, r) /\ GoFrame(p, "close")
       \/ WriteFails(p, Put(s, r)) /\ AbortFrame(p)
    /\ UNCHANGED <<vm, frameRest>>

(* teardownDead: publish the error state; a failure is only logged. *)
TeardownPutError(p) ==
    LET s == td[p].id
        r == [st |-> "error", old |-> FALSE, dev |-> td[p].dev]
    IN
    /\ td[p].at = "putError"
    /\ \/ CallOK(p) /\ Put(s, r)
       \/ WriteFails(p, Put(s, r))
    /\ GoFrame(p, "close")
    /\ UNCHANGED <<vm, frameRest>>

(* ssh.Close and sshPrep.Delete: no-ops while the relay is not configured. *)
CloseSSH(p) ==
    /\ td[p].at = "close"
    /\ GoFrame(p, "vmDelete")
    /\ UNCHANGED <<storeVars, vm, faults, frameRest>>

(* vm.Delete.  Even when containerd fails, the VMM is killed if /proc has  *)
(* it under the sandbox's id.                                              *)
VMDelete(p) ==
    LET s == td[p].id IN
    /\ td[p].at = "vmDelete"
    /\ \/ CallOK(p) /\ vm' = [vm EXCEPT ![s] = "none"] /\ GoFrame(p, "finish")
       \/ /\ CallFails(p)
          /\ \/ UNCHANGED vm
             \/ Live(s) /\ vm' = [vm EXCEPT ![s] = "stopped"]
          /\ GoFrame(p, "isLive")
    /\ UNCHANGED <<storeVars, frameRest>>

(* Faulty variant: the error of vm.Delete is only logged. *)
VMIsLiveIgnored(p) ==
    /\ td[p].at = "isLive"
    /\ GoFrame(p, "finish")
    /\ UNCHANGED <<storeVars, vm, faults, frameRest>>

(* After a failed vm.Delete only a definitive LiveNo lets teardown go on. *)
VMIsLive(p) ==
    /\ td[p].at = "isLive"
    /\ \/ CallOK(p) /\ ~Live(td[p].id) /\ GoFrame(p, "finish")
       \/ CallOK(p) /\ Live(td[p].id) /\ AbortFrame(p)
       \/ CallFails(p) /\ AbortFrame(p)
    /\ UNCHANGED <<storeVars, vm, frameRest>>

(* Faulty variant: the record and its ids go, the slot stays. *)
ForgetRecordOnly(p) ==
    LET s == td[p].id IN
    /\ rec' = [rec EXCEPT ![s] = NoRec]
    /\ allIds' = allIds \ {s} /\ active' = active \ {s} /\ userIdx' = userIdx \ {s}
    /\ UNCHANGED <<slot, sshPort>>

(* The last Redis write, under a fresh deadline. *)
Forget(p) == IF td[p].slotOnly THEN ReleaseUserSlot(td[p].id) ELSE Delete(td[p].id)
Finish(p) ==
    /\ td[p].at = "finish"
    /\ \/ UNCHANGED faults /\ Forget(p) /\ EndFrame(p)
       \/ Fault /\ (Forget(p) \/ UNCHANGED storeVars) /\ AbortFrame(p)
    /\ UNCHANGED <<vm, frameRest>>

FrameStep(p) ==
    \/ DeleteGet(p) \/ DeletePut(p) \/ TeardownPutError(p) \/ CloseSSH(p)
    \/ VMDelete(p) \/ VMIsLive(p) \/ Finish(p)

---------------------------------------------------------------------------
(* Create. *)

(* The deferred cancel ends the call's context with the call. *)
GoCreate(s, pc) ==
    /\ cpc' = [cpc EXCEPT ![s] = pc]
    /\ expired' = IF pc = "done" THEN expired \ {s} ELSE expired
createRest == <<homes, rcVars, pu, att, crashes>>

(* Disk usage and admission passed; a rejected call leaves no state. *)
CreateBegin(s) ==
    /\ cpc[s] = "idle" /\ s \notin Legacy
    /\ GoCreate(s, "reserve")
    /\ UNCHANGED <<storeVars, holder, hsnap, td, vm, faults, createRest>>

(* createTimeout fires or the client disconnects. *)
Expire(s) ==
    /\ InFlight(s) /\ s \notin expired
    /\ expired' = expired \cup {s}
    /\ UNCHANGED <<storeVars, cpc, holder, hsnap, td, vm, faults, createRest>>

(* Faulty variant: the second reservation is not looked at. *)
ReserveRetryUnchecked(s) ==
    /\ cpc[s] \in {"reserve", "retry"}
    /\ \/ CallOK(s) /\ ReserveUserSlot(s) /\ GoCreate(s, "disk")
       \/ /\ CallOK(s) /\ slot[Owner[s]] # NoId
          /\ GoCreate(s, IF cpc[s] = "reserve" THEN "heal" ELSE "disk")
          /\ UNCHANGED storeVars
       \/ WriteFails(s, ReserveUserSlot(s)) /\ GoCreate(s, "done")
    /\ UNCHANGED <<holder, hsnap, td, vm, createRest>>

(* When the reply of an applied script is lost, the client library's own   *)
(* retry finds the slot taken - by this very call.                         *)
Reserve(s) ==
    /\ cpc[s] \in {"reserve", "retry"}
    /\ \/ CallOK(s) /\ ReserveUserSlot(s) /\ GoCreate(s, "disk")
       \/ /\ CallOK(s) /\ slot[Owner[s]] # NoId
          /\ GoCreate(s, IF cpc[s] = "reserve" THEN "heal" ELSE "done")
          /\ UNCHANGED storeVars
       \/ WriteFails(s, ReserveUserSlot(s)) /\ GoCreate(s, "done")
       \/ cpc[s] = "reserve" /\ ~CtxDone(s) /\ Fault /\ ReserveUserSlot(s) /\ GoCreate(s, "heal")
    /\ UNCHANGED <<holder, hsnap, td, vm, createRest>>

(* reconcileUserSlot: who holds the slot? *)
HealSlot(s) ==
    /\ cpc[s] = "heal"
    /\ \/ /\ CallOK(s)
          /\ holder' = [holder EXCEPT ![s] = slot[Owner[s]]]
          /\ GoCreate(s, IF slot[Owner[s]] = NoId THEN "retry" ELSE "healGet")
       \/ CallFails(s) /\ GoCreate(s, "retry") /\ UNCHANGED holder
    /\ UNCHANGED <<storeVars, hsnap, td, vm, createRest>>

HealEnds(s, pc) ==
    /\ GoCreate(s, pc)
    /\ holder' = [holder EXCEPT ![s] = NoId]
    /\ hsnap' = [hsnap EXCEPT ![s] = NoRec]

(* Faulty variant: no grace window for creating and terminating. *)
StaleNoGrace(r) == IsActive(r)

(* staleDead on a record read earlier.  A failed IsLive is LiveUnknown and *)
(* never authorizes a teardown.                                            *)
Stale(r) == IsActive(r) /\ (r.st # "running" => r.old)
StaleDead(s, r) == Stale(r) /\ ~Live(s)

(* The holder's record decides: an error is deleted, a record that is not  *)
(* subject to healing ends it, the rest depends on the VM.                 *)
HealGet(s) ==
    LET h == holder[s]
        suspect == ~Exists(h) \/ Stale(rec[h])
    IN
    /\ cpc[s] = "healGet"
    /\ \/ /\ CallOK(s) /\ rec[h].st = "error"
          /\ SetFrame(s, NewFrame("get", h, FALSE)) /\ HealEnds(s, "healing")
       \/ /\ CallOK(s) /\ suspect
          /\ hsnap' = [hsnap EXCEPT ![s] = rec[h]]
          /\ GoCreate(s, "healLive") /\ UNCHANGED <<holder, td>>
       \/ /\ CallOK(s) /\ rec[h].st # "error" /\ ~suspect
          /\ HealEnds(s, "retry") /\ UNCHANGED td
       \/ CallFails(s) /\ HealEnds(s, "retry") /\ UNCHANGED td
    /\ UNCHANGED <<storeVars, vm, createRest>>

(* IsLive: only a definitive LiveNo starts the teardown.  A holder without *)
(* a record has no record to publish or delete, only a VM and the slot.    *)
HealLive(s) ==
    LET h == holder[s]
        f == IF hsnap[s] = NoRec
             THEN [NewFrame("vmDelete", h, FALSE) EXCEPT !.slotOnly = TRUE]
             ELSE NewFrame("putError", h, hsnap[s].dev)
    IN
    /\ cpc[s] = "healLive"
    /\ \/ CallOK(s) /\ ~Live(h) /\ SetFrame(s, f) /\ HealEnds(s, "healing")
       \/ CallOK(s) /\ Live(h) /\ HealEnds(s, "retry") /\ UNCHANGED td
       \/ CallFails(s) /\ HealEnds(s, "retry") /\ UNCHANGED td
    /\ UNCHANGED <<storeVars, vm, createRest>>

(* The frame that this call ran has ended. *)
FrameDone(s) ==
    /\ cpc[s] \in {"healing", "undo"} /\ td[s].at = "none"
    /\ GoCreate(s, IF cpc[s] = "healing" THEN "retry" ELSE "done")
    /\ UNCHANGED <<storeVars, holder, hsnap, td, vm, faults, createRest>>

(* ShrinkDisk and EnsureDisk take no context: they run however late. *)
EnsureDisk(s) ==
    /\ cpc[s] = "disk"
    /\ \/ UNCHANGED faults /\ GoCreate(s, "mint") /\ homes' = homes \cup {Owner[s]}
       \/ Fault /\ GoCreate(s, "failPut") /\ UNCHANGED homes
    /\ UNCHANGED <<storeVars, holder, hsnap, td, vm, rcVars, pu, att, crashes>>

MintEnrollToken(s) ==
    /\ cpc[s] = "mint"
    /\ \/ CallOK(s) /\ GoCreate(s, "boot")
       \/ CallFails(s) /\ GoCreate(s, "failPut")
    /\ UNCHANGED <<storeVars, holder, hsnap, td, vm, createRest>>

(* vm.Create up to NewTask: the container exists, its task has not run.    *)
(* The rollback is best effort.                                            *)
VMBoot(s) ==
    /\ cpc[s] = "boot"
    /\ \/ CallOK(s) /\ vm' = [vm EXCEPT ![s] = "stopped"] /\ GoCreate(s, "start")
       \/ /\ CallFails(s) /\ GoCreate(s, "failPut")
          /\ \/ UNCHANGED vm
             \/ RollbackFails /\ vm' = [vm EXCEPT ![s] = "stopped"]
    /\ UNCHANGED <<storeVars, holder, hsnap, td, createRest>>

(* task.Start, which fails if a Delete removed the container meanwhile. *)
VMStart(s) ==
    /\ cpc[s] = "start"
    /\ \/ /\ CallOK(s) /\ vm[s] # "none"
          /\ vm' = [vm EXCEPT ![s] = "live"] /\ GoCreate(s, "commit")
       \/ CallOK(s) /\ vm[s] = "none" /\ GoCreate(s, "failPut") /\ UNCHANGED vm
       \/ /\ CallFails(s) /\ GoCreate(s, "failPut")
          /\ \/ vm' = [vm EXCEPT ![s] = "none"]
             \/ /\ RollbackFails /\ vm[s] # "none"
                /\ \E left \in {"stopped", "live"} : vm' = [vm EXCEPT ![s] = left]
    /\ UNCHANGED <<storeVars, holder, hsnap, td, createRest>>

(* Faulty variant: a refused PutRunning is just returned. *)
CommitNoUndo(s) ==
    /\ cpc[s] = "commit"
    /\ \/ CallOK(s) /\ PutRunning(s)
       \/ CallOK(s) /\ ~MayPutRunning(s) /\ UNCHANGED storeVars
       \/ WriteFails(s, PutRunning(s))
    /\ GoCreate(s, "done")
    /\ UNCHANGED <<holder, hsnap, td, vm, createRest>>

(* PutRunning; an error, or a refusal, tears the new VM down again. *)
Commit(s) ==
    /\ cpc[s] = "commit"
    /\ \/ CallOK(s) /\ PutRunning(s) /\ GoCreate(s, "done") /\ UNCHANGED td
       \/ /\ \/ CallOK(s) /\ ~MayPutRunning(s) /\ UNCHANGED storeVars
             \/ WriteFails(s, PutRunning(s))
          /\ GoCreate(s, "undo") /\ SetFrame(s, NewFrame("vmDelete", s, FALSE))
    /\ UNCHANGED <<holder, hsnap, vm, createRest>>

(* failCreate, under contexts of its own: errors are only logged. *)
ErrorRec == [st |-> "error", old |-> FALSE, dev |-> FALSE]
FailPut(s) ==
    /\ cpc[s] = "failPut"
    /\ \/ UNCHANGED faults /\ Put(s, ErrorRec)
       \/ Fault /\ (Put(s, ErrorRec) \/ UNCHANGED storeVars)
    /\ GoCreate(s, "failRelease")
    /\ UNCHANGED <<holder, hsnap, td, vm, createRest>>

FailRelease(s) ==
    /\ cpc[s] = "failRelease"
    /\ \/ UNCHANGED faults /\ ReleaseUserSlot(s)
       \/ Fault /\ (ReleaseUserSlot(s) \/ UNCHANGED storeVars)
    /\ GoCreate(s, "done")
    /\ UNCHANGED <<holder, hsnap, td, vm, createRest>>

CreateStep(s) ==
    \/ Reserve(s) \/ HealSlot(s) \/ HealGet(s) \/ HealLive(s) \/ FrameDone(s)
    \/ EnsureDisk(s) \/ MintEnrollToken(s) \/ VMBoot(s) \/ VMStart(s)
    \/ Commit(s) \/ FailPut(s) \/ FailRelease(s)

---------------------------------------------------------------------------
(* The other requests. *)

(* DELETE /sandbox/{id}, for an id the client has seen. *)
DeleteBegin(d, s) ==
    /\ td[d].at = "none"
    /\ InFlight(s) => DeleteInFlight
    /\ Exists(s)
    /\ SetFrame(d, NewFrame("get", s, FALSE))
    /\ UNCHANGED <<storeVars, createVars, vm, homes, rcVars, pu, att, faults, crashes>>

purgeRest == <<createVars, vm, rcVars, att, crashes>>
GoPurge(p, a) == pu' = [pu EXCEPT ![p].at = a]

(* DeleteUserData: ListByUserScan, which skips a record that cannot be     *)
(* read.  Only the ids matter: Delete reads the record again.              *)
PurgeScan(p, u) ==
    LET owned == {s \in allIds : Exists(s) /\ Owner[s] = u} IN
    /\ pu[p].at = "idle"
    /\ \E todo \in SUBSET owned :
          /\ IF todo = owned THEN UNCHANGED faults ELSE Fault
          /\ pu' = [pu EXCEPT ![p] = [at |-> "delete", users |-> {u}, todo |-> todo]]
    /\ UNCHANGED <<storeVars, td, homes, purgeRest>>

(* One Delete after the other; the first error is returned. *)
PurgeDelete(p) ==
    /\ pu[p].at = "delete" /\ UNCHANGED faults
    /\ \/ /\ td[p].at = "none" /\ pu[p].todo # {}
          /\ \E s \in pu[p].todo :
                /\ SetFrame(p, NewFrame("get", s, FALSE))
                /\ pu' = [pu EXCEPT ![p].todo = @ \ {s}]
       \/ td[p].at = "none" /\ pu[p].todo = {} /\ GoPurge(p, "purge") /\ UNCHANGED td
       \/ td[p].at = "failed" /\ pu' = [pu EXCEPT ![p] = NoPurge] /\ EndFrame(p)
    /\ UNCHANGED <<storeVars, homes, purgeRest>>

PurgeIndexes(p) ==
    /\ pu[p].at = "purge"
    /\ \E u \in pu[p].users :
          \/ UNCHANGED faults /\ PurgeUserIndexes(u) /\ GoPurge(p, "rmHome")
          \/ Fault /\ (PurgeUserIndexes(u) \/ UNCHANGED storeVars) /\ pu' = [pu EXCEPT ![p] = NoPurge]
    /\ UNCHANGED <<td, homes, purgeRest>>

PurgeHome(p) ==
    /\ pu[p].at = "rmHome"
    /\ homes' = homes \ pu[p].users
    /\ pu' = [pu EXCEPT ![p] = NoPurge]
    /\ UNCHANGED <<storeVars, td, faults, purgeRest>>

PurgeStep(p) == PurgeDelete(p) \/ PurgeIndexes(p) \/ PurgeHome(p)

attachRest == <<createVars, td, vm, homes, rcVars, pu, crashes>>

(* AttachDevice, called by the backend after the guest of s, which must    *)
(* have booted for that, has redeemed its token.                           *)
MayHaveBooted(s) == cpc[s] \in {"commit", "undo", "done"}
(* Faulty variant: no nil check after Get. *)
AttachGetUnchecked(a, s) ==
    /\ att[a] = NoAttach /\ MayHaveBooted(s)
    /\ att' = [att EXCEPT ![a] = [id |-> s, snap |-> rec[s]]]
    /\ UNCHANGED <<storeVars, faults, attachRest>>

AttachGet(a, s) ==
    /\ att[a] = NoAttach /\ MayHaveBooted(s) /\ Exists(s)
    /\ att' = [att EXCEPT ![a] = [id |-> s, snap |-> rec[s]]]
    /\ UNCHANGED <<storeVars, faults, attachRest>>

(* Faulty variant: a SET of the record alone, past the indexes. *)
AttachPutRecordOnly(a) ==
    /\ att[a] # NoAttach
    /\ att' = [att EXCEPT ![a] = NoAttach]
    /\ rec' = [rec EXCEPT ![att[a].id] = [att[a].snap EXCEPT !.dev = TRUE, !.old = FALSE]]
    /\ UNCHANGED <<slot, allIds, active, userIdx, sshPort, faults, attachRest>>

(* The whole record goes back, with the device and a new last_activity. *)
AttachPut(a) ==
    LET r == [att[a].snap EXCEPT !.dev = TRUE, !.old = FALSE] IN
    /\ att[a] # NoAttach
    /\ att' = [att EXCEPT ![a] = NoAttach]
    /\ \/ UNCHANGED faults /\ Put(att[a].id, r)
       \/ Fault /\ (Put(att[a].id, r) \/ UNCHANGED storeVars)
    /\ UNCHANGED attachRest

---------------------------------------------------------------------------
(* ReconcileLoop: one pass of Reconcile, then CleanupStopped. *)

reconcileRest == <<createVars, homes, pu, att, crashes>>

(* List: SMEMBERS, whose failure ends Reconcile, ... *)
ReconcileList ==
    /\ rcAt = "idle"
    /\ \/ UNCHANGED faults /\ rcAt' = "list" /\ rcTodo' = allIds
       \/ Fault /\ rcAt' = "sweep" /\ UNCHANGED rcTodo
    /\ UNCHANGED <<storeVars, td, vm, rcSnap, reconcileRest>>

(* ... then a Get per id; a record that cannot be read is skipped. *)
ReconcileGet(s) ==
    /\ rcAt = "list" /\ s \in rcTodo
    /\ rcTodo' = rcTodo \ {s}
    /\ \/ UNCHANGED faults /\ rcSnap' = [rcSnap EXCEPT ![s] = rec[s]]
       \/ Fault /\ UNCHANGED rcSnap
    /\ UNCHANGED <<storeVars, td, vm, rcAt, reconcileRest>>

ReconcileListed ==
    /\ rcAt = "list" /\ rcTodo = {}
    /\ rcAt' = "process" /\ rcTodo' = {s \in Ids : rcSnap[s] # NoRec}
    /\ UNCHANGED <<storeVars, td, vm, faults, rcSnap, reconcileRest>>

(* Faulty variant: error records are left to the 24h clean-up. *)
ReconcileOneSkipsErrors(s) ==
    /\ rcAt = "process" /\ s \in rcTodo /\ td[Reconciler].at = "none"
    /\ rcTodo' = rcTodo \ {s}
    /\ rcSnap' = [rcSnap EXCEPT ![s] = NoRec]
    /\ \/ /\ rcSnap[s].st = "error" /\ slot[Owner[s]] # s /\ rcSnap[s].old
          /\ SetFrame(Reconciler, NewFrame("finish", s, FALSE))
       \/ /\ StaleDead(s, rcSnap[s])
          /\ SetFrame(Reconciler, NewFrame("putError", s, rcSnap[s].dev))
       \/ /\ rcSnap[s].st = "error" => slot[Owner[s]] = s \/ ~rcSnap[s].old
          /\ ~StaleDead(s, rcSnap[s]) /\ UNCHANGED td
    /\ UNCHANGED <<storeVars, vm, faults, rcAt, reconcileRest>>

(* The loop body for s, on the record as List read it: an error that still *)
(* owns its slot is deleted, one that does not is a tombstone whose record *)
(* is dropped when old; an active record whose VM is definitively gone is  *)
(* torn down.  A failed UserSlot or IsLive skips the sandbox.              *)
ReconcileOne(s) ==
    LET r == rcSnap[s]
        owns == slot[Owner[s]] = s
    IN
    /\ rcAt = "process" /\ s \in rcTodo /\ td[Reconciler].at = "none"
    /\ rcTodo' = rcTodo \ {s}
    /\ rcSnap' = [rcSnap EXCEPT ![s] = NoRec]
    /\ \/ /\ r.st = "error" /\ owns /\ UNCHANGED faults
          /\ SetFrame(Reconciler, NewFrame("get", s, FALSE))
       \/ /\ r.st = "error" /\ ~owns /\ r.old /\ UNCHANGED faults
          /\ SetFrame(Reconciler, NewFrame("finish", s, FALSE))
       \/ r.st = "error" /\ ~owns /\ ~r.old /\ UNCHANGED <<faults, td>>
       \/ /\ StaleDead(s, r) /\ UNCHANGED faults
          /\ SetFrame(Reconciler, NewFrame("putError", s, r.dev))
       \/ r.st # "error" /\ ~StaleDead(s, r) /\ UNCHANGED <<faults, td>>
       \/ Fault /\ UNCHANGED td
    /\ UNCHANGED <<storeVars, vm, rcAt, reconcileRest>>

ReconcileProcessed ==
    /\ rcAt = "process" /\ rcTodo = {} /\ td[Reconciler].at = "none"
    /\ rcAt' = "ssh"
    /\ UNCHANGED <<storeVars, td, vm, faults, rcTodo, rcSnap, reconcileRest>>

(* reconcileSSH returns at once while the relay is not configured. *)
ReconcileSSH ==
    /\ rcAt = "ssh"
    /\ rcAt' = "sweep"
    /\ UNCHANGED <<storeVars, td, vm, faults, rcTodo, rcSnap, reconcileRest>>

(* CleanupStopped: containers without a running task, if older than any    *)
(* create attempt.  An error ends the sweep.                               *)
CleanupStopped(s) ==
    /\ rcAt = "sweep" /\ vm[s] = "stopped"
    /\ InFlight(s) => s \in expired
    /\ vm' = [vm EXCEPT ![s] = "none"]
    /\ UNCHANGED <<storeVars, td, faults, rcVars, reconcileRest>>

SweepDone ==
    /\ rcAt = "sweep"
    /\ \/ UNCHANGED faults /\ \A s \in Ids : vm[s] = "stopped" => InFlight(s) /\ s \notin expired
       \/ Fault
    /\ rcAt' = "idle"
    /\ UNCHANGED <<storeVars, td, vm, rcTodo, rcSnap, reconcileRest>>

ReconcileStep ==
    \/ ReconcileList \/ ReconcileListed \/ ReconcileProcessed \/ ReconcileSSH \/ SweepDone
    \/ \E s \in Ids : ReconcileGet(s) \/ ReconcileOne(s) \/ CleanupStopped(s)

---------------------------------------------------------------------------
(* The environment. *)

(* A guest powers off, panics or is OOM-killed. *)
VMDies(s) ==
    /\ Live(s)
    /\ vm' = [vm EXCEPT ![s] = "stopped"]
    /\ UNCHANGED <<storeVars, createVars, td, homes, rcVars, pu, att, faults, crashes>>

(* A creating record is younger than the context of its Create call, so it *)
(* only passes the grace window once that context is done.                 *)
TimePasses(s) ==
    /\ Age(s)
    /\ InFlight(s) => s \in expired /\ rec[s].st # "error"
    /\ UNCHANGED <<createVars, td, vm, homes, rcVars, pu, att, faults, crashes>>

(* The manager dies and restarts: every handler is gone, containerd and    *)
(* Redis keep what they had.                                               *)
Crash ==
    /\ crashes < MaxCrashes
    /\ crashes' = crashes + 1
    /\ cpc' = [s \in Ids |-> IF InFlight(s) THEN "done" ELSE cpc[s]]
    /\ expired' = {}
    /\ holder' = [s \in Ids |-> NoId]
    /\ hsnap' = [s \in Ids |-> NoRec]
    /\ td' = [p \in Procs |-> NoFrame]
    /\ rcAt' = "idle" /\ rcTodo' = {} /\ rcSnap' = [s \in Ids |-> NoRec]
    /\ pu' = [p \in Purgers |-> NoPurge]
    /\ att' = [a \in Attachers |-> NoAttach]
    /\ UNCHANGED <<storeVars, vm, homes, faults>>

Next ==
    \/ \E p \in Procs : FrameStep(p)
    \/ \E s \in Ids : CreateBegin(s) \/ Expire(s) \/ CreateStep(s) \/ VMDies(s) \/ TimePasses(s)
    \/ \E d \in Deleters, s \in Ids : DeleteBegin(d, s)
    \/ \E p \in Purgers : PurgeStep(p) \/ \E u \in Users : PurgeScan(p, u)
    \/ \E a \in Attachers : AttachPut(a) \/ \E s \in Ids : AttachGet(a, s)
    \/ ReconcileStep
    \/ Crash

Spec == Init /\ [][Next]_vars

(* Handlers run to their end (each call has a deadline), the reconcile     *)
(* loop ticks for ever, and time passes.  Nothing obliges a client to call *)
(* or a guest to die.                                                      *)
Fairness ==
    /\ \A p \in Procs : WF_vars(FrameStep(p))
    /\ \A s \in Ids : WF_vars(CreateStep(s)) /\ WF_vars(TimePasses(s))
    /\ \A p \in Purgers : WF_vars(PurgeStep(p))
    /\ \A a \in Attachers : WF_vars(AttachPut(a))
    /\ WF_vars(ReconcileStep)

FairSpec == Spec /\ Fairness

---------------------------------------------------------------------------
(* Properties. *)

(* A running VM holds its user's quota slot: every path that gives the     *)
(* slot back (Delete, the undo and the failure of a Create, healing,       *)
(* reconcile) first makes sure that the VM is gone and stays gone.         *)
LiveVMHoldsSlot == \A s \in Ids : Live(s) => slot[Owner[s]] = s

(* One VM per user, at every moment: two running VMs would mount the same  *)
(* home.img read-write (userhome.go relies on "never a second mounter").   *)
OneLiveVMPerUser ==
    \A s, t \in Ids : Live(s) /\ Live(t) /\ Owner[s] = Owner[t] => s = t

(* Every running VM can still be found through its record, also after a    *)
(* crash: CleanupStopped never touches a running task, so a running VM     *)
(* without a record would stay for ever.                                   *)
NoLeakedVM == \A s \in Ids \ Legacy : Live(s) => Exists(s)

(* ShrinkDisk and EnsureDisk run e2fsck and resize2fs on an image that no  *)
(* VM has mounted (userhome.go: "called before the VM attaches"), as long  *)
(* as the deadline of their Create has not passed.  They take no context,  *)
(* so a Create that is late still runs them, and its slot may have been    *)
(* healed in the meantime and a VM of the next one be up.                  *)
OfflineResizeInTime ==
    \A s, t \in Ids : cpc[s] = "disk" /\ s \notin expired /\ Live(t) => Owner[s] # Owner[t]

(* A delete is final: a record that a Delete or a teardown marked, or      *)
(* removed, never becomes creating or running again (PutRunning: "a        *)
(* concurrent delete must not be undone by a late successful vm.Create").  *)
(* This is not so of AttachDevice, which writes back an old copy, nor of   *)
(* two Deletes that cross a Create whose reservation reply was lost: the   *)
(* second one marks what the first has removed, and Create reserves anew.  *)
Doomed(s) == \/ rec[s].st \in {"terminating", "error"}
             \/ ~Exists(s) /\ cpc[s] \notin {"idle", "reserve", "retry"}
DeleteNeverUndone ==
    [][\A s \in Ids : Doomed(s) => rec'[s].st \notin {"creating", "running"}]_vars

(* A VM that comes up after its sandbox was deleted does not stay: the     *)
(* refused PutRunning makes its own Create call tear it down (service.go:  *)
(* "We have a running VM we can't record"), unless that fails once more.   *)
NoMoreFailures == faults = MaxFaults /\ crashes = MaxCrashes
UnrecordedVMStopped ==
    \A s \in Ids : cpc[s] = "commit" /\ Live(s) /\ ~Exists(s) /\ NoMoreFailures ~> ~Live(s)

(* A sandbox whose VM is gone is eventually forgotten, and its slot freed: *)
(* whatever crash or failed call left the record behind, no record of a    *)
(* dead sandbox survives the reconcile loop.                               *)
DeadSandboxForgotten ==
    \A s \in Ids : Exists(s) /\ ~Live(s) /\ ~InFlight(s) ~> ~Exists(s)

(* An operation that crashed is cleaned up: a record cannot stay creating  *)
(* or terminating for ever (service.go, reconcileGraceMillis: how long     *)
(* "before reconcile assumes the operation crashed and cleans it up").     *)
StuckOperationCleanedUp ==
    \A s \in Ids : rec[s].st \in {"creating", "terminating"}
                       ~> rec[s].st \notin {"creating", "terminating"}
=============================================================================
