# Formal model of the sandbox manager

TLA+ modules that model the control of the sandbox manager (a Go service that
runs one Kata/Firecracker microVM per user on a host), TLC configurations that
check them on small instances, and TLAPS proofs of the main results for every
size of the system.  `PROJECT.json` maps each definition to the source lines it
stands for and lists the runs, findings, hazards and theorems.

To check a run: `tlc -config LifecycleSafety.cfg MCLifecycle`; to check the
proofs of a module: `tlapm SlotProofs.tla`.

## 1. The system

| Component | State it keeps | Operations | Works with |
|---|---|---|---|
| Inventory, `store.go` | In Redis: a record per sandbox, one quota slot per user, the id sets `sandbox:all`, `sandbox:active`, `sandbox:user:<user>`, remembered relay ports | `ReserveUserSlot`, `Put`, `PutRunning`, `Delete`, `ReleaseUserSlot`, `PurgeUserIndexes`, `SetSSHPort`, reads | Called by the service only. Each operation is one MULTI block or Lua script |
| Lifecycle service, `service.go` | Nothing durable of its own | `Create`, `Delete`, `DeleteUserData`, `AttachDevice`, slot healing, `teardownDead`, `Reconcile`, `ReconcileLoop` | Redis, the VM manager, home disks, backend, relay |
| Admission, `service.go` (`admit`) | `pendingCreates`, `pendingMiB` under `admissionMu` | admit, release | Counts running containers through the VM manager |
| microVM manager, `manager.go` | containerd's containers, tasks, snapshots; per VM a netns, a loop device and a direct volume | `Create` with rollback, `Delete`, `IsLive`, `RunningCount`, `CleanupStopped`, single-flight unpack, `Exec` | containerd, CNI, `/proc` |
| Home disks, `userhome.go` | One sparse `home.img` per user | `EnsureDisk` (create, grow), `ShrinkDisk`, `Delete` | Called by `Create` before the boot and by `DeleteUserData` |
| SSH relay, `relay.go` | A listener per sandbox with its sessions | `Ensure`, `Close`, `Retain`, accept / dial / copy goroutines | Opened and closed by the service |
| SSH access, `service.go` | `sshPrep` cache | `PrepareSSH`, `reconcileSSH`, `closeSSHUnlessRunning` | Relay, `vm.Exec`, inventory |
| HTTP API, backend client, configuration, guest image, scripts, web pages | none that changes | request mapping, one outgoing call, start-up | the service |

### How the parts interact

There is no lock around a sandbox.  HTTP handlers (one goroutine per request)
and the reconcile loop work on the same records, slots and containers, and each
makes a sequence of calls to Redis and containerd.  Any other handler may run
between two of them.  A call can fail, its effect can survive a lost reply, a
context can expire in the middle of a handler, a guest can power off at any
time, and the manager can be restarted between any two calls while Redis and
containerd keep what they had.

Two mechanisms hold this together.  The *quota slot* is taken by a SET NX in a
script that also writes the record, and is released only if it still names the
releasing sandbox.  The *commit*, `PutRunning`, is a compare-and-set on slot and
record state.  Everything else (`Put`, `AttachDevice`, the teardown paths) is
read, then write.

### What makes each part correct

* Inventory: a held slot always leads to a record, and the id sets, through which
  every clean-up finds its work, agree with the records.
* Service: a running VM holds its user's slot, so nobody else can mount the same
  home image; no running VM is unknown to the inventory; a delete is final; a
  dead sandbox is forgotten and a late VM is stopped.
* Admission: the host never runs more than `MaxVMs`, and the counters never
  drift.
* Relay: closing a sandbox's listener cuts every connection, also the ones that
  were being set up, and the session cap holds.
* SSH access: a listener leads to the VM of its own, running sandbox or someone
  is about to close it, although addresses are reused; where a VM goes without anybody
  closing its listener, the next pass does; of two set-ups in a guest one was
  abandoned; a remembered port is served again after a restart.
* microVM manager: what a VM holds on the host is given back or somebody who will
  give it back still has it in hand; nothing is taken from a VM that the service has
  accepted; a shared unpack is neither cancelled by one of its users nor taken for done when it failed.
* Home disks: an image is resized only while nothing has it mounted, no resize
  loses files, and the filesystem fits its image at every step.

## 2. Modules

| Module | Models | Built on |
|---|---|---|
| `SandboxStore` | `store.go`; `StoreSpec`, any sequence of its operations, is the abstract specification of the inventory | |
| `Lifecycle` | `service.go` call by call, over containerd as seen through `manager.go`; implements `StoreSpec` | extends `SandboxStore` |
| `Admission` | `admit`, `release`, `RunningCount` | |
| `RelayTable` | what the relay promises: a table with one port per sandbox | |
| `SSHRelay` | `relay.go` with its locks and goroutines; implements `RelayTable` (`TableSpec`) | instance of `RelayTable` |
| `SSHAccess` | `PrepareSSH`, `reconcileSSH`, `closeSSHUnlessRunning` and the teardowns they race | instance of `RelayTable` |
| `VMManager` | `Create`, `Delete`, `CleanupStopped`, the unpack, network and home-disk attachment of `manager.go`, by what exists on the host | |
| `UserHome` | `userhome.go`: one `home.img`, call by call | |
| `MCLifecycle`, `MCAdmission` | constants and symmetry of the TLC instances | |
| `SandboxStoreProofs`, `LifecycleProofs`, `SlotProofs`, `AdmissionProofs`, `SSHRelayProofs`, `SSHAccessProofs`, `UserHomeProofs`, `VMManagerProofs` | theorems | the modules they are about |

`SSHAccess` and `Lifecycle` both start from `service.go` and divide it: `Lifecycle` has
the records, slots and VMs, with the relay calls as hooks without effect;
`SSHAccess` has the relay calls, with Create reduced to its last write and the
teardowns to the steps that touch records, addresses and listeners, whoever runs them
(Delete, the reconcile loop, the undo of a Create, `CleanupStopped`).  What lets
`SSHAccess` use a table instead of sockets is that `SSHRelay` implements that table.
`Lifecycle` takes of the VM manager whether a VM has a container and a running
task; `VMManager` has everything else a VM holds.  `Lifecycle` also says when
`EnsureDisk` and `ShrinkDisk` run; `UserHome` says what they do.

### SandboxStore

A record keeps the three fields the service branches on: its state, whether it
is `old` (past the one age limit its state is subject to: the 5-minute grace
window for creating and terminating, 24 hours for error) and whether it has a
`device_id`.  `Age` is the passage of time.  Since newID never repeats an id, an
id stands for the Create call that draws it, and `Owner` gives its user.
`Delete` in the code reads the record (for the user id) and then runs one
MULTI; the user id of a record never changes, so the two are one action.
Event publishing and the created counter are left out.  `Legacy` are ids whose
slot an earlier release left without a record, which `reconcileUserSlot`
handles explicitly.

### Lifecycle

* `cpc[s]` is the line of `Create` that call `s` has reached; `expired` are the
  calls whose context is done.  `holder` and `hsnap` are the local variables of
  `reconcileUserSlot`.
* `td[p]` is the teardown that process `p` is running.  `Delete`, `teardownDead`,
  the undo of a refused commit and the slot-only clean-up are the same sequence
  entered at different points: read, mark, close SSH, `vm.Delete`, `IsLive`,
  forget.  The process is a Create call, a Delete request, a DeleteUserData
  request or the reconcile loop.
* `vm[s]` is containerd's truth: no container, a container without running
  task, a running task.  `VMBoot` and `VMStart` are `vm.Create` up to `NewTask`
  and `task.Start`.  The rollback of a failed create is best effort;
  `RollbackFails` says whether an instance lets it fail.
* `rcAt`, `rcTodo`, `rcSnap` are one pass of the reconcile loop.  It acts on
  `rcSnap`, the records that List read earlier, which may be stale by then.
* `pu` and `att` are DeleteUserData and AttachDevice calls.
* A call fails without effect if its context is done, otherwise at the cost of one
  of `MaxFaults`; a failed Redis write may still have been applied.  `Crash`
  forgets every handler, at most `MaxCrashes` times.

Abstractions.  Admission always lets a Create in (a refused call leaves no
state; `Admission` models the decision).  `Get`, `List`, `Exec` and `Stats` only
read.  The reads of `UserSlot` and of `IsLive` in the loop body of `Reconcile` happen
with the decision they lead to; the record they are combined with is the stale
one.  In healing, where a Create races other Creates, each read is a step.
`CleanupStopped` compares container age with a limit longer than any create;
the model lets it take any stopped container except that of a call whose context
is still alive, which is more than the code does.  DeleteUserData's scan is one
step and keeps ids only, because `Delete` reads each record again.  SSH hooks have
no effect here (see `SSHAccess`).  AttachDevice is called
by the backend after the guest enrolled, hence only once the VM may have booted.

### Admission

`RunningCount` lists the containers and then asks for the status of each.  The
lock is held over scan, check and reservation, but VMs start, stop and
disappear meanwhile.  Memory readings are arbitrary members of `Available`.  A
rejection is allowed whatever the reason.

### SSHRelay

Each critical section of `r.mu` or `l.mu` is one action.  `Close` and `Retain`
take a listener out of the map under the lock and close it after unlocking
(`closing`); `Ensure` closes a stale listener under the lock.  A connection goes
through accept, registration, dial, adoption, copy and drop.  Two merges are coarser than
the code: `drop` takes a session out of the map under `l.mu` and closes its two sockets
after unlocking, which is one step here, so `ClosedMeansCut` speaks of sessions in the map
only; and where `Ensure` replaces a stale listener, that one's socket, its sessions and the
new listener are one step, all under `r.mu`.
`Connections` only reads.  Listener and connection objects come from pools and
return to them when nothing refers to them.

Under the mapping of `TableSpec`, an entry of `byID` is an endpoint of the table.
Closing a stale listener and opening its replacement happen under one hold of
`r.mu`, hence they are one step of the table.

### SSHAccess

`call[p]` is a PrepareSSH request, or the sandbox `reconcileSSH` is working on: the
id, the address and port it read, the mutex it got and the call it makes next.
Every call to Redis, the guest or the relay is one step.  `sshPrep` is the map of
mutexes, from which Delete removes the entry of a sandbox while calls may hold
the mutex; a later call then gets another one, which is
there to be had because only finitely many requests are in flight.  `Ensure` opens the
preferred port, else the lowest free one; that another process has a port, so that a later
one or none is taken, costs a fault.  `keep` is `reconcileSSH`'s copy of the list, stale by the
time it is used.  `td[d]` is a Delete or `teardownDead`, or the undo of a Create whose
`PutRunning` was applied and its reply lost (`CreateUndone`), which marks no record and closes no
listener.  `CleanupStopped` releases the address of a dead VM whatever its record says, between
two passes of `Reconcile`; the code also waits until the container is 10 minutes old, the
model does not.  CNI gives an address to one VM at a time, and to the next as soon as it is
released.

A set-up outlives its call: when `Exec` times out, or its client goes away, or the manager is
restarted, nobody kills the process in the guest.  `orphans` are the sandboxes in whose guest
such a set-up runs, until it ends by itself or with the VM.

`unmarked` is a history variable: the sandboxes whose VM was taken down without a mark in the
record (a teardown whose write failed, Create's undo, `CleanupStopped` on a record that still
says running), or whose mark was undone by the late write-back of `AttachDevice`.  The write-back is one
step that brings a record back to creating or running, at the cost of a fault.  It is more than the
code does, which writes what it read.  Left out is the 24-hour removal of error tombstones, which
`Lifecycle` has.  Each sandbox has an address and a device.

### VMManager

`held[s]` is what exists on the host for an id: loop device, the file that names
it, Kata's volume entry, netns, address, snapshot, container, Firecracker process.
`pc[s]` is the next call of `Create`, on the way up or rolling back, up to `PutRunning` and the
undo that follows a refusal.  Calls that take the request's context fail once it is done
(`expired`), those that take none go on, and rollback steps under `cleanupCtx` work until a
fault.  A call also fails when what it works on is gone.  `rec[s]` is the record as far as the
manager's callers depend on it: `PutRunning` takes a VM only while it says creating, a doomed one
(terminating, or an error that owns its slot) makes the service call `Delete` some day, and the
tombstone that `failCreate` leaves is dropped without a Delete.

`del` are the calls of `Delete`, by the service, by `CleanupStopped` and by a Create that undoes
itself, which interleave on one container: lookup, kill, `killFirecracker`, `Teardown`, `Detach` and the
service's last write are steps of their own.  The service's Delete may begin at any time,
also while the Create is in time and booting; it then takes netns, address and loop device of
a VM that may already run, and the VM is refused by `PutRunning` and undone.  `cleanupGrace`
keeps only `CleanupStopped` away from a Create that is in time (`MayClean`); past the deadline the model
lets it run earlier than the code would.

`unreleased` is a history variable: ids for which a rollback call itself failed, or
which a restart cut where nothing names the resource (between `losetup` and the
write of the loop file, for instance, or when a Delete had already removed the record).  Those
are lost by design and excluded.

Left out: `Exec` and its output capture (see `SSHAccess` for what it leaves in a guest), guest
logs, `Stats`, the contents of the OCI spec, the leases of an unpack, and `AttachDevice`, whose
write-back is in `Lifecycle` and `SSHAccess`.  A loop device belongs to its sandbox: that a number
freed by a stale detach goes to another sandbox before the second detach is not modelled.  Nor is
the volume directory, which stays behind, empty, when `losetup` fails.

### UserHome

`size`, `fs` and `data` are the size of the file, of the ext4 in it and of what its
files need.  `pc` is the next system call or e2fsprogs run of a Create.  The disk
is `ready` while a VM has it and writes to it.  A fault makes a call fail; a
restart ends a call between any two steps.  `cut` records that a change was
left half done, `blind` that the `Stat` of this call failed.  e2fsck and resize2fs need a
filesystem that lies within its image; resize2fs refuses to drop files.  The
external tools are atomic: a restart comes before or after e2fsck, resize2fs and mkfs, never
during one.  The headroom of 1.2 is kept as the exact test `6 * data <= 5 * size`.

### Faulty variants

An operator introduced by the comment "Faulty variant" is a plausible bug: a
dropped guard, a missing check, an off-by-one.  None of them is part of a
specification.  Each is put in place of the definition that follows it to
confirm that a property does depend on it (`mutants` in `PROJECT.json`).

## 3. Runs

All Lifecycle instances have one user, since slots of different users share
nothing but the id sets.

| Run | Instance | Shows |
|---|---|---|
| `lifecycle_safety` | 2 Creates, perhaps a leftover slot with its VM in any state, 1 Delete request (of a sandbox whose Create has returned), loop, 1 fault, 1 restart; rollbacks succeed, no DeleteUserData | `LiveVMHoldsSlot`, `NoLeakedVM`, `HeldSlotHasRecord`, `OfflineResizeInTime`; the service implements `StoreSpec` |
| `lifecycle_admin` | 1 Create, DeleteUserData, AttachDevice, rollbacks may fail, 1 fault | `TypeOK`, `IndexesMatchRecords`, `StoreSpec` |
| `lifecycle_liveness` | 1 Create, 1 Delete at any time, 2 faults, 1 restart, fairness | `UnrecordedVMStopped`, `DeadSandboxForgotten`, `DeleteNeverUndone` |
| `admission` | 4 calls, 2 VM sizes, `MaxVMs` = 2 | `TypeOK`, `CapacityRespected`, `PendingExact`, `PendingMiBExact` |
| `ssh_relay` | 2 sandboxes, 2 targets, 2 ports, 2 listeners, 2 connections, cap 1, fairness | `TypeOK`, `SessionCap`, `ClosedMeansCut`, `LinkedListenersServe`, `ClosedListenerDrains`; the relay implements `RelayTable` |
| `ssh_access` | 1 sandbox, 2 ports, 2 PrepareSSH, 1 teardown, sweep, AttachDevice, loop, 1 fault, 1 restart, fairness | `TypeOK`, `ListenerLeadsHome`, `OverlapOnlyAbandoned`, `StrayListenerClosed`, `RememberedPortServed` |
| `vm_manager` | 2 Creates that share an unpack, 1 of them followed further (`BootIds`), service Delete at any time, sweep, 1 fault, 1 restart, fairness | `TypeOK`, `LiveVMKeepsItsResources`, `ResidueInHand`, `BootsOnlyUnpacked`, `WaitersHaveAJob`, `DeadVMReclaimed` |
| `user_home` | sizes 2, 4 and 5, any number of Creates and Deletes, 2 faults, 1 restart | `TypeOK`, `FilesystemFitsImage`, `ReadyHomeFits`, `WholeBetweenCalls`, `FilesKept` |

Why the bounds are enough.  Two Creates of one user give every slot conflict:
one holds, the other heals.  A third could only repeat the second's steps.  One
fault reaches every error branch, and with a restart every state in which an
operation can be abandoned; the liveness run has two faults so that a clean-up
can fail as well.  The safety results on slots do not rest on the bounds, since
they are proved for all of them (section 4).  In `admission`, four calls for two
places let one be rejected while two are pending and a VM of a finished call is
running.  In `ssh_relay`, a cap of one is reached by one connection and exceeded
by the second.  In `ssh_access`, two calls are what it takes for two set-ups to overlap, and two
ports for a remembered one to be taken.  A second sandbox would add the VM that gets a released
address; the properties do not wait for it, since they already forbid an unwatched
listener whose VM is gone.  Two sandboxes on one address and any number of calls are
covered by the theorem.  In `vm_manager`, resources are per id and only the unpack is shared, so two
Creates give one that leads and one that joins, and one of them suffices for what follows.  In
`user_home`, from 5 to 4 leaves room for headroom to matter, and 2 for files that do
not fit; 2 faults let a failed repair follow a failed resize.

`vm_manager` and `failed_create_residue` do not check deadlock: ids are used once, so a host
with every sandbox gone has nothing left to do.  All other runs check it.

Fairness.  A handler that can take its next step takes it: Go schedules every
goroutine, and each Redis, containerd or backend call has a deadline.  The
reconcile loop ticks until the process ends, and time passes, so records age.
In `VMManager` only the teardown side is fair: the steps of `Delete`, the loop's Delete
for a dead VM and `CleanupStopped`.  The last is needed because a Delete whose
kill failed may be followed by the service forgetting the sandbox, which leaves
the container to the sweep.  In `SSHAccess` teardowns, the loop and its `teardownDead` for a VM that
is gone are fair; no property needs a PrepareSSH to go on.
There is no fairness on requests, on expiry, on guests dying or on restarts.
Faults and restarts are bounded, so the liveness properties say what happens
once failures stop.  `UnrecordedVMStopped` says so itself: if the undo of a Create
fails or is cut off by a restart after its record was deleted, the VM goes on
running and nothing finds it.

### Disagreements with the repository's own statements

Four runs check a statement of a comment or a document, and TLC finds it violated.

| Run | Statement | What happens |
|---|---|---|
| `two_live_vms` | userhome.go: "there is never a second mounter" | A Delete during a Create finds no container yet and frees the slot; a second Create boots; the first starts its VM as well and only then is refused by `PutRunning`. Both VMs have the image mounted until the undo has run |
| `stuck_operation` | service.go: after the grace window reconcile "assumes the operation crashed and cleans it up" | Only if the VM is gone. After a restart between `task.Start` and `PutRunning` the VM runs and its record stays creating |
| `failed_create_residue` | manager.go:741: "CNI may have partially allocated [...] run Remove to release it" | When the context of the Create ends during `cni.Setup`, `cni.Remove` gets that same context. The address stays allocated, `failCreate` releases the slot, and no Delete follows. `teardownNet` has the same defect when the context ends later. A Firecracker process that was launched before `task.Start` failed is not killed either |
| `released_address` | cloud-ssh.md:60: "Delete and teardown close the listener and all of its active connections before the VM is destroyed" | A VM dies after `Reconcile` has looked at it; `CleanupStopped`, which follows, deletes its container and gives its address back, and nothing closes the listener until the next pass. The undo of a Create after a lost reply does the same |

Others were met while modelling.  They can be read off the actions named here, and no
run is kept for them:

* `EnsureDisk` and `ShrinkDisk` take no context, so a Create past its deadline can resize an image
  that the VM of a later Create has mounted ("not mounted here",
  userhome.go:34).  `OfflineResizeInTime` holds only for calls that are in time.
* `DeleteUserData` drops the user's slot and indexes after a scan, together with
  those of a Create that began in between (`PurgeScan`, `PurgeStep`), where
  store.go expects them to be gone.
* `PutRunning` stores the creator's copy of the record, over a `device_id` that
  `AttachDevice` wrote during the boot (field `dev`).
* `AttachDevice` writes back the record it read before.  If Delete marked or removed that
  record meanwhile, the write brings it back as running until the reconcile loop
  finds its VM dead (`AttachPut`).
* A Create whose reservation was applied but whose reply was lost heals its own slot and
  reserves again.  Two Deletes that cross it, one about to free the slot and one that has
  marked the record, let that second reservation store a fresh record over the marked
  one (`Reserve`).  One Delete cannot; section 4 proves it.
* Any error of `Stat` counts as a missing image, and `os.Create` then empties the one
  that is there, where userhome.go:131 says "an existing image is never
  reformatted".  `FilesKept` names this exception (`blind`).
* A failed or interrupted grow, or a failed first `Truncate`, leaves a file
  whose size is right and whose filesystem is not; later calls look at the
  size only (`cut` in `ReadyHomeFits`).
* A PrepareSSH that Delete has overtaken can still write the remembered port
  of a deleted sandbox, which nothing removes (`Remember` in `SSHAccess`).
* A teardown whose first write fails ends, or goes on, without marking the
  record, so that a listener can lead to a released address until `reconcileSSH`
  runs next (`unmarked`).
* When the set-up of a PrepareSSH times out or its client goes away, `Exec` returns and leaves the
  process in the guest (manager.go:483-492); the mutex is unlocked and the next call starts a
  second set-up beside it, where cloud-ssh.md:11 says "serialized per sandbox" (`PrepExec`).
  `OverlapOnlyAbandoned` names this exception.
* A Delete during a Create that is in time finds no container yet and goes on to `Teardown` and
  `Detach`, which take netns, address and loop device from the VM that has booted meanwhile,
  until `PutRunning` refuses it (manager.go:672-674, `FreeNet` and `FreeHome`).
* A failed read makes `List` skip a record silently (store.go:317), so DeleteUserData can purge a user
  without having deleted that sandbox (`PurgeScan`).

## 4. Proofs

| Theorem | Statement | Assumes |
|---|---|---|
| `SlotAlwaysRecorded`, `IndexesAlwaysMatch` | `StoreSpec` keeps `HeldSlotHasRecord` and `IndexesMatchRecords` | assumptions on constants |
| `LifecycleTypes` | `Spec => []TypeOK` | the same |
| `ServiceImplementsStore` | `Spec => StoreSpec` | the same |
| `ServiceKeepsSlots` | the inventory's guarantees hold of the service | the same |
| `LiveVMAlwaysHoldsSlot` | `Spec => []LiveVMHoldsSlot` | `Orderly` |
| `NeverASecondMounter` | `Spec => []OneLiveVMPerUser` | `Orderly` |
| `NoVMIsLeaked` | `Spec => []NoLeakedVM` | `Orderly` |
| `ResizesInTimeAreOffline` | `Spec => []OfflineResizeInTime` | `Orderly` |
| `LateBootUndoesNothing` | only a reservation or `AttachDevice`'s write-back brings a deleted record back | assumptions on constants |
| `DeletesStayFinal` | `Spec => DeleteNeverUndone` | `OneDeleter`, no AttachDevice, no DeleteUserData |
| `CapacityAlwaysRespected`, `PendingAlwaysExact` | capacity and the pending counter | assumptions on constants |
| `AdmissionTypes` | `Spec => []TypeOK` of `Admission` | the same |
| `MemoryAlwaysExact` | `Spec => []PendingMiBExact` | the same |
| `RelayTypes`, `ClosedListenerIsCut`, `LinkedListenersAlwaysServe`, `SessionsAlwaysCapped` | `TypeOK`, `ClosedMeansCut`, `LinkedListenersServe` and `SessionCap` of `SSHRelay` always hold | the same |
| `RelayImplementsTable` | `Spec => TableSpec`: the relay implements `RelayTable` | the same |
| `PortsAlwaysDistinct` | no two sandboxes of `RelayTable` share a port, hence none of the relay | nothing |
| `ServicePortsDistinct` | the service uses `RelayTable` by its operations only, so it never has two sandboxes on a port | assumptions on constants |
| `AccessTypes`, `ListenersAlwaysLeadHome`, `OverlapsAreAbandoned` | `TypeOK`, `ListenerLeadsHome` and `OverlapOnlyAbandoned` of `SSHAccess` always hold | the same |
| `FilesystemAlwaysFits` | `Spec => []FilesystemFitsImage` of `UserHome` | sizes are positive |
| `HomeTypes`, `HomeAlwaysWhole`, `ImageAlwaysWhole` | `TypeOK`, `ReadyHomeFits` and `WholeBetweenCalls` of `UserHome` always hold | the same |
| `FilesAlwaysKept` | `Spec => FilesKept` | the same |
| `VMManagerTypes` | `Spec => []TypeOK` of `VMManager` | the bounds are natural numbers |
| `OnlyUnpackedBoots`, `NoWaiterIsLeft` | `BootsOnlyUnpacked` and `WaitersHaveAJob` always hold | the same |
| `ResidueAlwaysInHand` | `Spec => []ResidueInHand` | the same |
| `LiveVMAlwaysEquipped` | `Spec => []LiveVMKeepsItsResources` | the same |

`Orderly` says that no client deletes a sandbox whose Create has not returned,
that no DeleteUserData runs, and that the rollback of `vm.Create` succeeds.  Each
part is needed: `two_live_vms` and the lost slot of `DeleteUserData` (section 3) are what happens
without the first two, and a VM that survives its rollback has no slot.  Everything else is
arbitrary: users, sandboxes, Delete and AttachDevice requests, failures, lost
replies, expiries, restarts, and leftover slots.

**The argument for the slot.**  `LiveVMHoldsSlot` is not inductive: a slot freed
now may belong to a VM that starts later, or that starts between an `IsLive`
and the last write of a teardown.  The invariant `SlotInv` adds

* `YoungInv`: while a Create may still start its VM and its context is alive, nobody
  is working against it.  No teardown frame or attach is of this sandbox, every
  copy of its record is absent or a fresh creating one, a healing call that
  found it in the slot has not decided anything yet, and from the reservation
  on it holds its slot;
* `IdleInv`: leftover ids are never created, and only started calls expire;
* `StartedInv`: a running VM belongs to a Create that got past `task.Start`, or is a
  leftover;
* `FinishInv`: a teardown that reached its last write is of a VM that is not running.

An expired Create needs no protection, because `task.Start` refuses a context
that is done.  That is why healing after the grace window is sound for VMs,
although not for the disk (the late resize of section 3).  `NoVMIsLeaked` follows with
`HeldSlotHasRecord` through the refinement, and `NeverASecondMounter` because a
slot has one holder.  `OfflineResizeInTime` follows from `SlotInv` as well: a call at the
resize that is in time is young, so it holds the slot, and a running VM of the same
user would hold it too.

**Deletes are final.**  Here a client may delete a sandbox during its Create, which
`Orderly` excludes.  The first step, `UndoneBy`, goes through all actions and needs no
assumption: teardowns write terminal states only, `PutRunning` compares first, and so
only `Reserve` and `AttachPut` can bring a record back.  Without AttachDevice requests,
what is left is a Create that reserves again because the reply to its first reservation was
lost.  `FinalInv` says why that is harmless: as long as a call may still reserve, its
record, once there, keeps the slot occupied, since whoever could free it is the one
Delete at work on the record or a slot-only clean-up that starts once the record is gone.
`OneDeleter` allows one Delete request process, or any number of them if they wait for the Create; with
two during a Create the statement is false (section 3).  Reservation replies, failures,
expiries and restarts stay arbitrary.

**The refinement.**  `Lifecycle` extends `SandboxStore`, so the mapping is the
identity on the store's variables.  Each action either performs one store
operation or leaves the inventory alone.  What needs an invariant is that
records written back are proper ones: frames name a sandbox, and attach
snapshots are records.

**Capacity.**  The scan is not atomic, so the count may miss a VM.  The invariant
says what it may miss: while the lock is held, every running VM has been counted,
is still to be visited, or belongs to a pending call, since only pending calls
start VMs and none can release while the lock is held.

**Memory.**  `PendingMiBExact` says that the counter is a sum over the admitted calls.  A sum
over a set would need induction, so it is stated as the number of pairs of a call
and one of its MiB (`Reserved`).  Admission then adds a disjoint slice whose
cardinality is the budget of the call (`OneCallMore`), and release takes away the same slice.

**Relay.**  `RelayInv` says that what the map holds is open, on its way nowhere and of
one sandbox (`LinkShape`), that no two open sockets share a port (`OpenShape`), that a listener
being closed still has its flag down (`CloseShape`), and that a closed one has nothing left
that flows (`ClosedMeansCut`).  The last is inductive only because registration and
adoption look at the flag under the lock that `close` takes to set it.  For `SessionCap`, every
step leaves the sessions of a listener as they are, takes some away, or is a registration
that adds one to fewer than the cap (`SessionsMove`).  For `TableSpec`, `Ensure`, `Close` and `Retain` are matched
with the operations of the table, and every other action leaves byID and the
ports in it alone.

**SSH access.**  The argument for `ListenerLeadsHome` is the order "mark, then close"
against "open, then look again".  `MarkedFirst` says that a teardown which is about to close
has marked the record, and that a record which still says running has its VM, hence
its address; both for the sandboxes outside `unmarked`, whose VM or mark went another way.  `AddrShape` says that an
address, once given, is never changed in a record, so that every copy of it
(in a call, in reconcile's list, in a listener) is right.  Then for a listener that does not lead home somebody is
watching: the teardown that marked and has not closed, or the call that opened and has
not looked again.  `OverlapOnlyAbandoned` needs two facts: of the calls that share a mutex one
holds it (`HoldersDiffer`), and as long as a record says running all calls on the sandbox share the
mutex in `sshPrep` (`MutexKept`), since Delete drops it only after it has marked the record.

**Home disks.**  Neither `FilesystemFitsImage` nor `ReadyHomeFits` is inductive: what a
step may do to the image depends on what the steps before it established.
`Reached` says that for every call of the sequence (the filesystem is already cut
to size when `ShrinkTruncate` runs, the file already extended when `GrowCheck` does, a file is only
created over an existing one after a failed `Stat`), and `Whole` that an image with no interrupted change
behind it is whole between two changes.  The proof has one
lemma for each group of actions.  Any set of positive sizes and any number of
failures and restarts are covered.

**Resources on the host.**  `ResidueInHand` says nothing of a Create in flight, so it is
not inductive.  `HostInv` says what an id may hold at each step of its Create and afterwards
(`Tracked`), what a Create that is in time and whose record still says creating must hold, and a VM
whose record says running as well (`Equipped`), and that a record says running only
once its Create has reached `PutRunning` (`Ordered`).  `Late` is the key to `LiveVMKeepsItsResources`: no
Delete is of a Create that is in time and whose record still says creating, and one that has come to
network and disk is not of an accepted VM that runs.  The first holds because Deletes mark before
they go on, the second because a Create that a Delete has overtaken never commits: `PutRunning`,
which compares, is the only way to become running, and nothing marks a record creating again.  Each action
is about one id, so the lemma `OthersStay` deals with all the others at once.  For
the unpack it is enough that every step behind it implies `unpacked`, and that the job is there
while somebody waits (`UnpackInv`).

### Only model-checked

Every invariant and action property of a passing run is a theorem.  What only TLC checks
is liveness, since fairness and ENABLED are outside the prover's reach:
`UnrecordedVMStopped`, `DeadSandboxForgotten`, `ClosedListenerDrains`,
`StrayListenerClosed`, `RememberedPortServed` and `DeadVMReclaimed`.

## 5. Not modelled

* `Exec`, `Stats`, guest logs and the OCI spec in the VM manager: they read, or
  format arguments for containerd.
* HTTP API, identity lookup, configuration and start-up, backend client: mappings
  without state of their own; the backend call appears as a step that may fail.
* Guest image scripts, deployment scripts and web pages: outside the service.
* Event publishing, counters and log lines of the store.

## 6. Plan

Done: all components that keep state have a module and runs, and every safety property a
passing run checks is proved.  Next, in this order:

1. The slot theorems under a weaker `Orderly`: with DeleteUserData for users who have no
   Create in flight, and with Deletes during a Create once its task has started.
2. The safety halves of the liveness properties: that a dead sandbox stays reachable for
   the clean-up that will forget it, and a stray VM for the one that will stop it.
