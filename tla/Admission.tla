----------------------------- MODULE Admission -----------------------------
(***************************************************************************)
(* Host-wide admission control: Service.admit and its release closure      *)
(* (service.go) over Manager.RunningCount (manager.go).  The count is a    *)
(* scan of containerd, one query per container, while VMs start, stop and  *)
(* are removed; admissionMu is held over scan, check and reservation but   *)
(* never over a boot.                                                      *)
(***************************************************************************)
EXTENDS Integers, FiniteSets

CONSTANTS Calls,         \* Create calls; the VM of a call is named after it
          MaxVMs,        \* cfg.MaxVMs
          MiB,           \* MemoryFor(size, res) of each call
          VMMemoryMiB,   \* cfg.VMMemoryMiB: no VM is budgeted below it
          ReserveMiB,    \* cfg.HostMemoryReserveMiB
          Available,     \* the readings that MemAvailable may give
          NoCall

ASSUME CallsAssumption == IsFiniteSet(Calls) /\ NoCall \notin Calls
ASSUME LimitAssumption == MaxVMs \in Nat
ASSUME MemoryAssumption ==
    /\ MiB \in [Calls -> Nat]
    /\ VMMemoryMiB \in Nat /\ ReserveMiB \in Nat
    /\ Available \subseteq Nat

VARIABLES at,              \* where each Create call is
          mu,              \* the call that holds admissionMu
          todo, counted,   \* the holder's RunningCount: containers left, found running
          pendingCreates, pendingMiB,
          containers,      \* containerd: the VMs that have a container,
          live             \* and those whose task is running

vars == <<at, mu, todo, counted, pendingCreates, pendingMiB, containers, live>>

(* Calls that were admitted and have not called release. *)
Pending == {c \in Calls : at[c] = "boot"}
Budget(c) == IF MiB[c] > VMMemoryMiB THEN MiB[c] ELSE VMMemoryMiB

TypeOK ==
    /\ at \in [Calls -> {"idle", "list", "count", "boot", "done"}]
    /\ mu \in Calls \cup {NoCall}
    /\ todo \subseteq Calls
    /\ counted \subseteq Calls
    /\ pendingCreates \in Nat
    /\ pendingMiB \in Int
    /\ containers \subseteq Calls
    /\ live \subseteq containers

Init ==
    /\ at = [c \in Calls |-> "idle"]
    /\ mu = NoCall
    /\ todo = {} /\ counted = {}
    /\ pendingCreates = 0 /\ pendingMiB = 0
    /\ containers = {} /\ live = {}

Go(c, pc) == at' = [at EXCEPT ![c] = pc]
host == <<containers, live>>
scan == <<todo, counted>>
budget == <<pendingCreates, pendingMiB>>

---------------------------------------------------------------------------
(* admit *)

Lock(c) ==
    /\ at[c] = "idle" /\ mu = NoCall
    /\ mu' = c /\ Go(c, "list")
    /\ UNCHANGED <<scan, budget, host>>

(* RunningCount: the list of containers, ... *)
ListContainers(c) ==
    /\ at[c] = "list"
    /\ todo' = containers /\ counted' = {}
    /\ Go(c, "count")
    /\ UNCHANGED <<mu, budget, host>>

(* ... then the status of each; a container that is gone is skipped. *)
CountOne(c) ==
    /\ at[c] = "count"
    /\ \E x \in todo :
          /\ todo' = todo \ {x}
          /\ counted' = IF x \in live THEN counted \cup {x} ELSE counted
    /\ UNCHANGED <<at, mu, budget, host>>

Unlock == mu' = NoCall /\ todo' = {} /\ counted' = {}

(* Faulty variant: the pending creates are not counted. *)
FitsRunningOnly == Cardinality(counted) < MaxVMs
Fits == Cardinality(counted) + pendingCreates < MaxVMs
Admit(c) ==
    /\ at[c] = "count" /\ todo = {}
    /\ Fits
    /\ \E available \in Available : available >= ReserveMiB + pendingMiB + Budget(c)
    /\ pendingCreates' = pendingCreates + 1
    /\ pendingMiB' = pendingMiB + Budget(c)
    /\ Unlock /\ Go(c, "boot")
    /\ UNCHANGED host

(* Faulty variant: the rejected call also runs release. *)
RejectReleases(c) ==
    /\ at[c] \in {"list", "count"}
    /\ pendingCreates' = pendingCreates - 1
    /\ pendingMiB' = pendingMiB - Budget(c)
    /\ Unlock /\ Go(c, "done")
    /\ UNCHANGED host

(* Too many VMs, too little memory, or a query that failed: fail closed. *)
Reject(c) ==
    /\ at[c] \in {"list", "count"}
    /\ Unlock /\ Go(c, "done")
    /\ UNCHANGED <<budget, host>>

(* Faulty variants: release only after a successful boot, and release of   *)
(* the requested size instead of the budgeted one.                         *)
ReleaseAfterBoot(c) ==
    /\ at[c] = "boot" /\ mu = NoCall
    /\ pendingCreates' = IF c \in live THEN pendingCreates - 1 ELSE pendingCreates
    /\ pendingMiB' = IF c \in live THEN pendingMiB - Budget(c) ELSE pendingMiB
    /\ Go(c, "done")
    /\ UNCHANGED <<mu, scan, host>>
ReleaseRequested(c) ==
    /\ at[c] = "boot" /\ mu = NoCall
    /\ pendingCreates' = pendingCreates - 1
    /\ pendingMiB' = pendingMiB - MiB[c]
    /\ Go(c, "done")
    /\ UNCHANGED <<mu, scan, host>>

(* The deferred release: Create returned, with or without a running VM. *)
Release(c) ==
    /\ at[c] = "boot" /\ mu = NoCall
    /\ pendingCreates' = pendingCreates - 1
    /\ pendingMiB' = pendingMiB - Budget(c)
    /\ Go(c, "done")
    /\ UNCHANGED <<mu, scan, host>>

---------------------------------------------------------------------------
(* The VMs, and restarts of the manager. *)

NewContainer(c) ==
    /\ at[c] = "boot" /\ c \notin containers
    /\ containers' = containers \cup {c}
    /\ UNCHANGED <<at, mu, scan, budget, live>>

Start(c) ==
    /\ at[c] = "boot" /\ c \in containers
    /\ live' = live \cup {c}
    /\ UNCHANGED <<at, mu, scan, budget, containers>>

Stop(c) ==
    /\ c \in live
    /\ live' = live \ {c}
    /\ UNCHANGED <<at, mu, scan, budget, containers>>

Remove(c) ==
    /\ c \in containers \ live
    /\ containers' = containers \ {c}
    /\ UNCHANGED <<at, mu, scan, budget, live>>

(* The counters are in memory only: they restart at zero, with no call in  *)
(* flight that they would have to account for.                             *)
Crash ==
    /\ at' = [c \in Calls |-> IF at[c] = "idle" THEN "idle" ELSE "done"]
    /\ Unlock
    /\ pendingCreates' = 0 /\ pendingMiB' = 0
    /\ UNCHANGED host

Step(c) ==
    \/ Lock(c) \/ ListContainers(c) \/ CountOne(c) \/ Admit(c) \/ Reject(c) \/ Release(c)
    \/ NewContainer(c) \/ Start(c) \/ Stop(c) \/ Remove(c)

Next == Crash \/ \E c \in Calls : Step(c)

Spec == Init /\ [][Next]_vars

---------------------------------------------------------------------------
(* Properties. *)

(* The running VMs, together with every VM that an admitted Create may     *)
(* still start, never exceed MaxVMs, although the count that admission     *)
(* relies on is a scan that no lock protects against VMs coming and going. *)
CapacityRespected == Cardinality(live \cup Pending) <= MaxVMs

(* pendingCreates counts the admitted calls that have not released yet:    *)
(* no early return, error or restart loses or repeats a release.           *)
PendingExact == pendingCreates = Cardinality(Pending)
(* pendingMiB is what the admitted calls were admitted with, counted MiB   *)
(* by MiB: release gives back what admit took, and the unsigned counter    *)
(* never wraps.                                                            *)
Reserved(calls) == UNION {{c} \X (1..Budget(c)) : c \in calls}
PendingMiBExact == pendingMiB = Cardinality(Reserved(Pending))
=============================================================================
