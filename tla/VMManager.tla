---------------------------- MODULE VMManager -----------------------------
(***************************************************************************)
(* internal/vm/manager.go: what a microVM holds on the host, and who gives *)
(* it back.  Create acquires one resource after the other and rolls back   *)
(* when a call fails or its context is done; Delete and CleanupStopped     *)
(* tear down; Creates share one background unpack of the rootfs; the       *)
(* manager may restart at any step.                                        *)
(*                                                                         *)
(* Of the service the module has what vm.Manager sees: the record of a    *)
(* sandbox decides whether PutRunning takes a VM that has booted and who   *)
(* calls Delete, which may be at any time, also while the Create of the    *)
(* same sandbox is on its way.  Where the service reads a record before it *)
(* writes, the two are one step here (Lifecycle has them apart).           *)
(***************************************************************************)
EXTENDS Naturals, FiniteSets

CONSTANTS Ids,
          BootIds,      \* bound: the ids that are followed beyond the unpack, and deleted
          MaxFaults,    \* bound: failed calls
          MaxCrashes    \* bound: restarts of the manager

ASSUME VMManagerAssumption ==
    MaxFaults \in Nat /\ MaxCrashes \in Nat /\ BootIds \subseteq Ids /\ Ids \cap {"service", "sweep"} = {}

VARIABLES pc,        \* where the Create of each id is
          expired,   \* Creates whose context is done
          held,      \* what exists on the host for each id
          task,      \* its containerd task
          rec,       \* its record
          del,       \* the Delete that the service, the sweep and a Create's undo run
          unpacked,  \* image.IsUnpacked
          unpacking, \* m.unpacking # nil
          unreleased,\* history: ids that lost what would release their resources
          faults, crashes

unpackVars == <<unpacked, unpacking>>
vars == <<pc, expired, held, task, rec, del, unpackVars, unreleased, faults, crashes>>

CreatePC == {"idle", "image", "join", "wait", "losetup", "record", "volume", "netns", "cni",
             "container", "task", "start", "commit", "undo",
             "teardownNet", "detach", "failCreate", "up", "failed"}
(* loopFile: the file in which Attach records the loop device; volume:     *)
(* Kata's direct-volume entry, which names it too; vmm: the Firecracker    *)
(* process.                                                                *)
Resource == {"loop", "loopFile", "volume", "netns", "address", "snapshot", "container", "vmm"}
(* doomed: terminating, or an error that owns its slot, for which somebody *)
(* calls Delete some day; tombstone: an error that is dropped without one. *)
Record  == {"none", "creating", "running", "doomed", "tombstone"}
Callers == {"service", "sweep"} \cup Ids
Frame   == [at : {"lookup", "kill", "vmm", "net", "home", "forget"}, id : Ids, err : BOOLEAN]
NoFrame == [at |-> "idle", id |-> "none", err |-> FALSE]

TypeOK ==
    /\ pc \in [Ids -> CreatePC]
    /\ expired \subseteq Ids
    /\ held \in [Ids -> SUBSET Resource]
    /\ task \in [Ids -> {"none", "created", "running", "stopped"}]
    /\ rec \in [Ids -> Record]
    /\ del \in [Callers -> Frame \cup {NoFrame}]
    /\ unpacked \in BOOLEAN /\ unpacking \in BOOLEAN
    /\ unreleased \subseteq Ids
    /\ faults \in 0..MaxFaults
    /\ crashes \in 0..MaxCrashes

Init ==
    /\ pc = [s \in Ids |-> "idle"]
    /\ expired = {}
    /\ held = [s \in Ids |-> {}]
    /\ task = [s \in Ids |-> "none"]
    /\ rec = [s \in Ids |-> "none"]
    /\ del = [c \in Callers |-> NoFrame]
    /\ unpacked = FALSE /\ unpacking = FALSE
    /\ unreleased = {}
    /\ faults = 0 /\ crashes = 0

InFlight(s) == pc[s] \notin {"idle", "up", "failed"}

Fault == faults < MaxFaults /\ faults' = faults + 1
NoFault == UNCHANGED faults

(* A call made with a context that is done fails; one that was under way   *)
(* when the context ended may have had its effect.  A call also fails      *)
(* without what it works on, the set R: a Delete may have taken that.      *)
CallOK(s, R) == s \notin expired /\ R \subseteq held[s] /\ NoFault
CallFails(s, R) == IF s \in expired \/ ~(R \subseteq held[s]) THEN NoFault ELSE Fault

Go(s, p) == pc' = [pc EXCEPT ![s] = p]
Gain(s, R) == held' = [held EXCEPT ![s] = @ \cup R]
Lose(s, R) == held' = [held EXCEPT ![s] = @ \ R]
SetTask(s, t) == task' = [task EXCEPT ![s] = t]
SetRec(s, r) == rec' = [rec EXCEPT ![s] = r]
Known(s) == rec[s] \in {"creating", "running", "doomed"}

(* homeDisk.Detach: the loop device is found through its file or, failing  *)
(* that, through Kata's entry.                                             *)
Recorded(h) == h \cap {"loopFile", "volume"} # {}
Detached(h) == h \ (IF Recorded(h) THEN {"loop", "loopFile", "volume"} ELSE {"volume"})

---------------------------------------------------------------------------
(* The single-flight unpack. *)

createRest == <<rec, del, unreleased, crashes>>
imageRest  == <<held, task, createRest>>

(* GetImage or Pull, then the first look at the snapshotter. *)
Image(s) ==
    /\ pc[s] = "image"
    /\ \/ CallOK(s, {}) /\ Go(s, IF unpacked THEN "losetup" ELSE "join")
       \/ CallFails(s, {}) /\ Go(s, "failCreate")
    /\ UNCHANGED <<expired, unpackVars, imageRest>>

(* Under m.unpackMu: join the job that runs, or start one.                 *)
Join(s) ==
    /\ pc[s] = "join" /\ NoFault
    /\ unpacking' = TRUE
    /\ Go(s, "wait")
    /\ UNCHANGED <<expired, unpacked, imageRest>>

(* Faulty variant: the unpack runs under the context of its caller.        *)
GiveUpCancels(s) ==
    /\ pc[s] = "wait" /\ s \in expired /\ NoFault
    /\ Go(s, "failCreate")
    /\ unpacking' = FALSE
    /\ UNCHANGED <<expired, unpacked, imageRest>>

(* A caller whose context ends stops waiting; the job goes on.             *)
GiveUp(s) ==
    /\ pc[s] = "wait" /\ s \in expired /\ NoFault
    /\ Go(s, "failCreate")
    /\ UNCHANGED <<expired, unpackVars, imageRest>>

(* Faulty variant: the result of the job is not handed to those waiting.   *)
UnpackEndsUnchecked ==
    /\ unpacking /\ unpacking' = FALSE
    /\ pc' = [s \in Ids |-> IF pc[s] = "wait" THEN "losetup" ELSE pc[s]]
    /\ \/ unpacked' = TRUE /\ NoFault
       \/ Fault /\ UNCHANGED unpacked
    /\ UNCHANGED <<expired, imageRest>>

(* The job ends and everyone who waits gets its result.                    *)
UnpackEnds ==
    /\ unpacking /\ unpacking' = FALSE
    /\ \E ok \in BOOLEAN :
          /\ pc' = [s \in Ids |-> IF pc[s] # "wait" THEN pc[s] ELSE IF ok THEN "losetup" ELSE "failCreate"]
          /\ IF ok THEN unpacked' = TRUE /\ NoFault ELSE Fault /\ UNCHANGED unpacked
    /\ UNCHANGED <<expired, imageRest>>

---------------------------------------------------------------------------
(* Create: acquiring. *)

stepRest == <<expired, unpackVars, rec, del, crashes>>

(* The service has persisted the record before it calls vm.Create. *)
CreateBegin(s) ==
    /\ pc[s] = "idle" /\ Go(s, "image")
    /\ SetRec(s, "creating")
    /\ UNCHANGED <<expired, held, task, del, unpackVars, unreleased, faults, crashes>>

(* createTimeout, or the client disconnects. *)
Expire(s) ==
    /\ InFlight(s) /\ s \notin expired
    /\ expired' = expired \cup {s}
    /\ UNCHANGED <<pc, held, task, rec, del, unpackVars, unreleased, faults, crashes>>

(* homeDisk.Attach, which takes no context: clear what is stale, losetup, *)
Losetup(s) ==
    /\ pc[s] = "losetup" /\ s \in BootIds
    /\ \/ NoFault /\ held' = [held EXCEPT ![s] = Detached(@) \cup {"loop"}] /\ Go(s, "record")
       \/ Fault /\ held' = [held EXCEPT ![s] = Detached(@)] /\ Go(s, "failCreate")
    /\ UNCHANGED <<task, unreleased, stepRest>>

(* write the file, whose error is ignored: a Delete may have removed the   *)
(* directory,                                                              *)
RecordLoop(s) ==
    /\ pc[s] = "record" /\ Go(s, "volume")
    /\ \/ NoFault /\ Gain(s, {"loopFile"})
       \/ (IF rec[s] = "creating" THEN Fault ELSE NoFault) /\ UNCHANGED held
    /\ UNCHANGED <<task, unreleased, stepRest>>

(* direct-volume add; a failure undoes the rest by the device it has. *)
AddVolume(s) ==
    /\ pc[s] = "volume"
    /\ \/ NoFault /\ Gain(s, {"volume"}) /\ Go(s, "netns")
       \/ Fault /\ Lose(s, {"loop", "loopFile", "volume"}) /\ Go(s, "failCreate")
    /\ UNCHANGED <<task, unreleased, stepRest>>

(* Network.Setup: ip netns add, *)
AddNetns(s) ==
    /\ pc[s] = "netns"
    /\ \/ NoFault /\ Gain(s, {"netns"}) /\ Go(s, "cni")
       \/ Fault /\ UNCHANGED held /\ Go(s, "detach")
    /\ UNCHANGED <<task, unreleased, stepRest>>

(* and cni.Setup.  With a context that is done no plugin runs.  When it    *)
(* fails in time, cni.Remove takes back what it did; when the context ends *)
(* during the call, cni.Remove is called with it and does nothing.  Then   *)
(* ip netns del.                                                           *)
SetupCNI(s) ==
    /\ pc[s] = "cni"
    /\ \/ /\ CallOK(s, {"netns"}) /\ Gain(s, {"address"}) /\ Go(s, "container")
          /\ UNCHANGED expired
       \/ /\ CallFails(s, {"netns"}) /\ Lose(s, {"netns"}) /\ Go(s, "detach")
          /\ UNCHANGED expired
       \/ /\ s \notin expired /\ expired' = expired \cup {s} /\ NoFault
          /\ \E left \in SUBSET {"address"} : held' = [held EXCEPT ![s] = (@ \ {"netns"}) \cup left]
          /\ Go(s, "detach")
    /\ UNCHANGED <<task, unreleased, unpackVars, rec, del, crashes>>

(* Faulty variant: a snapshot prepared before the failure stays.           *)
NewContainerNoUndo(s) ==
    /\ pc[s] = "container" /\ UNCHANGED unreleased
    /\ \/ CallOK(s, {}) /\ Gain(s, {"snapshot", "container"}) /\ Go(s, "task")
       \/ CallFails(s, {}) /\ Go(s, "teardownNet") /\ Gain(s, {"snapshot"})
    /\ UNCHANGED <<task, stepRest>>

(* NewContainer; a snapshot prepared before a failure is removed under a   *)
(* context of its own.                                                     *)
NewContainer(s) ==
    /\ pc[s] = "container"
    /\ \/ CallOK(s, {}) /\ Gain(s, {"snapshot", "container"}) /\ Go(s, "task") /\ UNCHANGED unreleased
       \/ CallFails(s, {}) /\ Go(s, "teardownNet") /\ UNCHANGED <<held, unreleased>>
       \/ /\ s \in expired /\ Fault /\ Go(s, "teardownNet")
          /\ Gain(s, {"snapshot"}) /\ unreleased' = unreleased \cup {s}
    /\ UNCHANGED <<task, stepRest>>

(* task.Delete and container.Delete, under a context of their own: this    *)
(* kata-fc leaves its Firecracker process behind.                          *)
RollBackContainer(s) ==
    Lose(s, {"container", "snapshot"}) /\ SetTask(s, "none") /\ UNCHANGED unreleased

(* NewTask launches the VMM, from the container, its netns and its disk. *)
Bootable == {"container", "netns", "volume", "loop"}
NewTask(s) ==
    /\ pc[s] = "task"
    /\ \/ CallOK(s, Bootable) /\ Gain(s, {"vmm"}) /\ SetTask(s, "created") /\ Go(s, "start") /\ UNCHANGED unreleased
       \/ CallFails(s, Bootable) /\ Go(s, "teardownNet") /\ RollBackContainer(s)
       \/ /\ s \in expired /\ Fault /\ Go(s, "teardownNet")
          /\ unreleased' = unreleased \cup {s} /\ UNCHANGED <<held, task>>
    /\ UNCHANGED stepRest

(* task.Start. *)
Startable == {"container", "vmm"}
Start(s) ==
    /\ pc[s] = "start"
    /\ \/ CallOK(s, Startable) /\ SetTask(s, "running") /\ Go(s, "commit") /\ UNCHANGED <<held, unreleased>>
       \/ CallFails(s, Startable) /\ Go(s, "teardownNet") /\ RollBackContainer(s)
       \/ /\ s \in expired /\ Fault /\ Go(s, "teardownNet")
          /\ "container" \in held[s] /\ \E t \in {"created", "running"} : SetTask(s, t)
          /\ unreleased' = unreleased \cup {s} /\ UNCHANGED held
    /\ UNCHANGED stepRest

SetFrame(c, f) == del' = [del EXCEPT ![c] = f]
NewFrame(s) == [at |-> "lookup", id |-> s, err |-> FALSE]
commitRest == <<expired, held, task, unpackVars, unreleased, crashes>>

(* Faulty variant: the record is written whatever it has become. *)
CommitUnchecked(s) ==
    /\ pc[s] = "commit" /\ s \notin expired /\ NoFault
    /\ SetRec(s, "running") /\ Go(s, "up")
    /\ UNCHANGED <<del, commitRest>>

(* The service's PutRunning takes the VM only while its record says        *)
(* creating.  When it is refused or fails, or its reply is lost, Create    *)
(* runs finishTeardown itself.                                             *)
Commit(s) ==
    /\ pc[s] = "commit"
    /\ \/ /\ s \notin expired /\ rec[s] = "creating" /\ NoFault
          /\ SetRec(s, "running") /\ Go(s, "up") /\ UNCHANGED del
       \/ /\ Go(s, "undo") /\ SetFrame(s, NewFrame(s))
          /\ \/ (IF s \in expired \/ rec[s] # "creating" THEN NoFault ELSE Fault) /\ UNCHANGED rec
             \/ s \notin expired /\ rec[s] = "creating" /\ Fault /\ SetRec(s, "running")
    /\ UNCHANGED commitRest

---------------------------------------------------------------------------
(* Create: rolling back. *)

(* Network.Teardown with the request's context: cni.Remove does nothing    *)
(* once that is done; ip netns del takes no context.                       *)
TeardownNet(s) ==
    /\ pc[s] = "teardownNet" /\ Go(s, "detach")
    /\ \/ CallOK(s, {}) /\ Lose(s, {"netns", "address"})
       \/ CallFails(s, {}) /\ Lose(s, {"netns"})
    /\ UNCHANGED <<task, unreleased, stepRest>>

(* detachHome. *)
DetachHome(s) ==
    /\ pc[s] = "detach" /\ Go(s, "failCreate") /\ NoFault
    /\ held' = [held EXCEPT ![s] = Detached(@)]
    /\ UNCHANGED <<task, unreleased, stepRest>>

(* Faulty variant: the record is written with its state left empty. *)
FailCreateUnstated(s) ==
    /\ pc[s] = "failCreate" /\ Go(s, "failed") /\ NoFault
    /\ SetRec(s, "") /\ expired' = expired \ {s}
    /\ UNCHANGED <<held, task, del, unpackVars, unreleased, crashes>>

(* The service's failCreate writes an error record, whatever has become of *)
(* the record, and releases the slot: what is left is a tombstone.  If one *)
(* of the two fails, somebody still deletes the sandbox.                   *)
FailCreate(s) ==
    /\ pc[s] = "failCreate" /\ Go(s, "failed")
    /\ \/ NoFault /\ SetRec(s, "tombstone")
       \/ Fault /\ \E r \in {rec[s], IF rec[s] = "none" THEN "tombstone" ELSE "doomed"} : SetRec(s, r)
    /\ expired' = expired \ {s}
    /\ UNCHANGED <<held, task, del, unpackVars, unreleased, crashes>>

CreateStep(s) ==
    \/ Image(s) \/ Join(s) \/ GiveUp(s)
    \/ Losetup(s) \/ RecordLoop(s) \/ AddVolume(s) \/ AddNetns(s) \/ SetupCNI(s)
    \/ NewContainer(s) \/ NewTask(s) \/ Start(s) \/ Commit(s)
    \/ TeardownNet(s) \/ DetachHome(s) \/ FailCreate(s)

---------------------------------------------------------------------------
(* Delete, called by the service, by CleanupStopped and by Create's undo. *)

GoFrame(c, a) == del' = [del EXCEPT ![c].at = a]
beginRest == <<pc, expired, held, task, unpackVars, unreleased, crashes>>
delRest == <<pc, expired, unpackVars, unreleased, crashes>>

(* The service's Delete marks the record and goes on, at any time.  When   *)
(* the write fails it ends there, whether or not the mark was made.        *)
DeleteBegin(s) ==
    /\ del["service"] = NoFrame /\ rec[s] # "none" /\ s \in BootIds
    /\ \/ NoFault /\ SetRec(s, "doomed") /\ SetFrame("service", NewFrame(s))
       \/ Fault /\ SetRec(s, "doomed") /\ UNCHANGED del
    /\ UNCHANGED beginRest

(* teardownDead, by the reconcile loop, for a record whose VM is gone; a   *)
(* Create that has not committed is given its grace.  It goes on when the  *)
(* mark fails.                                                             *)
DeleteDead(s) ==
    /\ del["service"] = NoFrame /\ Known(s) /\ task[s] # "running" /\ s \in BootIds
    /\ InFlight(s) /\ rec[s] # "running" => s \in expired
    /\ \/ NoFault /\ SetRec(s, "doomed")
       \/ Fault /\ UNCHANGED rec
    /\ SetFrame("service", NewFrame(s))
    /\ UNCHANGED beginRest

(* cleanupGrace shields a Create that is in time from CleanupStopped. *)
MayClean(s) == "container" \in held[s] /\ (InFlight(s) => s \in expired)

(* Faulty variant: only containers without a task are cleaned up. *)
CleanupTaskless(s) ==
    /\ del["sweep"] = NoFrame /\ MayClean(s) /\ task[s] = "none"
    /\ SetFrame("sweep", NewFrame(s))
    /\ UNCHANGED <<rec, faults, beginRest>>

(* CleanupStopped: a container past cleanupGrace without a running task.   *)
CleanupStopped(s) ==
    /\ del["sweep"] = NoFrame /\ MayClean(s) /\ task[s] # "running"
    /\ SetFrame("sweep", NewFrame(s))
    /\ UNCHANGED <<rec, faults, beginRest>>

(* LoadContainer; a failed lookup is an error, an absent container is not. *)
Lookup(c) ==
    LET s == del[c].id IN
    /\ del[c].at = "lookup"
    /\ \/ "container" \in held[s] /\ NoFault /\ GoFrame(c, "kill")
       \/ "container" \notin held[s] /\ NoFault /\ GoFrame(c, "vmm")
       \/ Fault /\ SetFrame(c, [del[c] EXCEPT !.at = "vmm", !.err = TRUE])
    /\ UNCHANGED <<held, task, rec, delRest>>

Stopped(s) == IF task[s] = "running" THEN "stopped" ELSE task[s]

(* Kill, wait for the exit, task.Delete and container.Delete; any of them  *)
(* may fail, and the last one does when Create makes a task in between.    *)
Kill(c) ==
    LET s == del[c].id IN
    /\ del[c].at = "kill"
    /\ \/ /\ NoFault /\ GoFrame(c, "vmm") /\ SetTask(s, "none")
          /\ Lose(s, {"container", "snapshot"})
       \/ /\ IF pc[s] \in {"start", "commit"} THEN NoFault ELSE Fault
          /\ SetFrame(c, [del[c] EXCEPT !.at = "vmm", !.err = TRUE])
          /\ \E t \in {task[s], Stopped(s)} : SetTask(s, t)
          /\ UNCHANGED held
    /\ UNCHANGED <<rec, delRest>>

(* The host side, unconditionally: killFirecracker, by the sandbox id in   *)
(* /proc,                                                                  *)
KillVMM(c) ==
    LET s == del[c].id IN
    /\ del[c].at = "vmm" /\ NoFault /\ GoFrame(c, "net")
    /\ SetTask(s, Stopped(s)) /\ Lose(s, {"vmm"})
    /\ UNCHANGED <<rec, delRest>>

(* Network.Teardown, whose cni.Remove may fail unnoticed, *)
FreeNet(c) ==
    /\ del[c].at = "net" /\ GoFrame(c, "home")
    /\ \/ NoFault /\ Lose(del[c].id, {"netns", "address"})
       \/ Fault /\ Lose(del[c].id, {"netns"})
    /\ UNCHANGED <<task, rec, delRest>>

(* and home.Detach. *)
FreeHome(c) ==
    /\ del[c].at = "home" /\ NoFault
    /\ held' = [held EXCEPT ![del[c].id] = Detached(@)]
    /\ IF c = "sweep" THEN SetFrame(c, NoFrame) ELSE GoFrame(c, "forget")
    /\ UNCHANGED <<task, rec, delRest>>

(* finishTeardown drops the record unless Delete failed and the VM may     *)
(* still run.  This ends a Create that undid itself, too.                  *)
Forget(c) ==
    LET s == del[c].id IN
    /\ del[c].at = "forget" /\ SetFrame(c, NoFrame)
    /\ \/ (del[c].err => task[s] # "running") /\ NoFault /\ SetRec(s, "none")
       \/ (IF del[c].err THEN NoFault ELSE Fault) /\ UNCHANGED rec
    /\ IF c = s THEN Go(s, "failed") /\ expired' = expired \ {s} ELSE UNCHANGED <<pc, expired>>
    /\ UNCHANGED <<held, task, unpackVars, unreleased, crashes>>

DeleteStep(c) == Lookup(c) \/ Kill(c) \/ KillVMM(c) \/ FreeNet(c) \/ FreeHome(c) \/ Forget(c)

---------------------------------------------------------------------------
(* The environment. *)

(* A guest powers off or is killed; Firecracker may linger. *)
VMDies(s) ==
    /\ task[s] = "running" /\ SetTask(s, "stopped")
    /\ \E gone \in SUBSET {"vmm"} : Lose(s, gone)
    /\ UNCHANGED <<pc, expired, rec, del, unpackVars, unreleased, faults, crashes>>

(* A restart.  Records and the host keep what they had.  A Create that is  *)
(* cut is found again through its record, unless a Delete has overtaken    *)
(* it, and its loop device once that is recorded.                          *)
CutLoose(s) == InFlight(s) /\ (~Known(s) \/ ("loop" \in held[s] /\ ~Recorded(held[s])))
Crash ==
    /\ crashes < MaxCrashes /\ crashes' = crashes + 1
    /\ pc' = [s \in Ids |-> IF InFlight(s) THEN "failed" ELSE pc[s]]
    /\ expired' = {}
    /\ del' = [c \in Callers |-> NoFrame]
    /\ unpacking' = FALSE
    /\ unreleased' = unreleased \cup {s \in Ids : CutLoose(s)}
    /\ UNCHANGED <<held, task, rec, unpacked, faults>>

Next ==
    \/ \E s \in Ids : \/ CreateBegin(s) \/ Expire(s) \/ CreateStep(s)
                     \/ DeleteBegin(s) \/ DeleteDead(s) \/ CleanupStopped(s) \/ VMDies(s)
    \/ UnpackEnds
    \/ \E c \in Callers : DeleteStep(c)
    \/ Crash

Spec == Init /\ [][Next]_vars

(* The steps of Delete have deadlines, and the reconcile loop, which calls  *)
(* it for a dead VM and runs CleanupStopped, ticks for ever.  Creates need  *)
(* no fairness.                                                            *)
Fairness ==
    /\ \A s \in Ids : WF_vars(DeleteDead(s)) /\ WF_vars(CleanupStopped(s))
    /\ \A c \in Callers : WF_vars(DeleteStep(c))

FairSpec == Spec /\ Fairness

---------------------------------------------------------------------------
(* Properties. *)

(* Nothing is taken from under a VM that the service has accepted or has  *)
(* on record as running: no Delete, undo, sweep or rollback, also one that *)
(* began while the VM was booting, gets to its network, home disk or       *)
(* snapshot before its task is dead.  (PutRunning refuses a VM that a      *)
(* Delete has overtaken; until Create has undone that one, it runs without *)
(* what the Delete took.)                                                  *)
LiveVMKeepsItsResources ==
    \A s \in Ids : (pc[s] = "up" \/ rec[s] = "running") /\ task[s] = "running" =>
        {"loop", "volume", "netns", "address", "snapshot", "container", "vmm"} \subseteq held[s]

(* Somebody still has s in hand: its Create, a Delete, the record that     *)
(* makes the service delete it, or the container that CleanupStopped will  *)
(* find.                                                                   *)
On(c, s) == del[c].at # "idle" /\ del[c].id = s
InHand(s) == InFlight(s) \/ Known(s) \/ "container" \in held[s] \/ \E c \in Callers : On(c, s)

(* Whatever step a Create fails or expires at, its home disk, netns and    *)
(* snapshot are given back or still in hand, also after a restart: without *)
(* record and container nobody would ever look for them.                   *)
HostResidue == {"loop", "loopFile", "volume", "netns", "snapshot"}
ResidueInHand ==
    \A s \in Ids \ unreleased : ~InHand(s) =>
        held[s] \cap HostResidue = {}

(* The same for the address and the Firecracker process.                   *)
FailedCreateLeavesNothing ==
    \A s \in Ids \ unreleased : ~InHand(s) => held[s] \cap {"address", "vmm"} = {}

(* No Create gets past the unpack while the rootfs is not unpacked, also   *)
(* those that shared another request's job.                                *)
BootsOnlyUnpacked ==
    \A s \in Ids : pc[s] \in {"losetup", "container", "task"} => unpacked

(* Whoever waits for an unpack waits for a job that runs: a Create that    *)
(* gives up, or a job that ends, leaves no other one waiting for ever      *)
(* ("Callers wait for it but can give up (ctx) without cancelling it").    *)
WaitersHaveAJob == \A s \in Ids : pc[s] = "wait" => unpacking

(* Whatever a dead VM holds is given back while its sandbox is on record:  *)
(* Delete is repeated, by the service and by CleanupStopped, over failed   *)
(* lookups, failed kills, lost replies and restarts until it is through.   *)
DeadVMReclaimed ==
    \A s \in Ids : pc[s] = "up" /\ Known(s) /\ task[s] = "stopped"
                      ~> held[s] \cap {"vmm", "netns", "snapshot", "container", "volume", "loop"} = {}
=============================================================================
