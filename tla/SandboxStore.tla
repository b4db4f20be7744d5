--------------------------- MODULE SandboxStore ---------------------------
(***************************************************************************)
(* The Redis inventory of internal/store/store.go: one record per sandbox  *)
(* (sandbox:<id>), the quota slot of each user (sandbox:user-slot:<user>), *)
(* the three id sets (sandbox:all, sandbox:active, sandbox:user:<user>)    *)
(* and the remembered relay ports (sandbox:ssh-port:<id>).                 *)
(*                                                                         *)
(* Every operation is one Redis transaction or script, so it is one atomic *)
(* action.  StoreSpec lets clients call them in any order with any record; *)
(* it is the abstract specification that the service layer implements.     *)
(***************************************************************************)
EXTENDS Naturals, FiniteSets

CONSTANTS Ids,     \* sandbox ids: one per Create call, newID never repeats one
          Users,
          Owner,   \* the user_id that the Create call of an id writes in its record
          NoId,    \* what a GET of an absent slot returns
          Legacy,  \* ids whose slot an earlier release left behind without a record
          Ports,   \* relay ports
          NoPort   \* "none remembered"

ASSUME OwnerAssumption == Owner \in [Ids -> Users]
ASSUME NoIdAssumption == NoId \notin Ids
ASSUME LegacyAssumption ==
    /\ Legacy \subseteq Ids
    /\ \A s, t \in Legacy : Owner[s] = Owner[t] => s = t

VARIABLES slot,     \* the sandbox that holds each user's quota slot
          rec,      \* the record of each sandbox, NoRec when the key is absent
          allIds,   \* sandbox:all
          active,   \* sandbox:active
          userIdx,  \* the union of the sandbox:user:<user> sets
          sshPort

storeVars == <<slot, rec, allIds, active, userIdx, sshPort>>

(* The fields of a record that the service's control depends on.  "old" is *)
(* the outcome of the one age test that the record's state is subject to:  *)
(* creating and terminating against reconcileGraceMillis, error against    *)
(* errorGCMillis.  "dev" says whether device_id is set.                    *)
States == {"creating", "running", "terminating", "error"}
Record == [st : States, old : BOOLEAN, dev : BOOLEAN]
NoRec  == [st |-> "none", old |-> FALSE, dev |-> FALSE]

IsActive(r) == r.st \in {"running", "creating", "terminating"}
Exists(s) == rec[s] # NoRec

StoreTypeOK ==
    /\ slot \in [Users -> Ids \cup {NoId}]
    /\ rec \in [Ids -> Record \cup {NoRec}]
    /\ allIds \subseteq Ids
    /\ active \subseteq Ids
    /\ userIdx \subseteq Ids
    /\ sshPort \in [Ids -> Ports \cup {NoPort}]

(* A fresh deployment, except that a user may still have a slot that a     *)
(* cleanup of the previous release left without a record.                  *)
LegacyHolders(u) == {s \in Legacy : Owner[s] = u}
StoreInit ==
    /\ slot \in [Users -> Ids \cup {NoId}]
    /\ \A u \in Users : slot[u] \in LegacyHolders(u) \cup {NoId}
    /\ rec = [s \in Ids |-> NoRec]
    /\ allIds = {}
    /\ active = {}
    /\ userIdx = {}
    /\ sshPort = [s \in Ids |-> NoPort]

---------------------------------------------------------------------------
(* The operations of the store. *)

CreatingRec == [st |-> "creating", old |-> FALSE, dev |-> FALSE]

(* The script's successful branch: SET NX took the slot. *)
ReserveUserSlot(s) ==
    /\ slot[Owner[s]] = NoId
    /\ slot' = [slot EXCEPT ![Owner[s]] = s]
    /\ rec' = [rec EXCEPT ![s] = CreatingRec]
    /\ userIdx' = userIdx \cup {s}
    /\ allIds' = allIds \cup {s}
    /\ active' = active \cup {s}
    /\ UNCHANGED sshPort

(* Faulty variant: an inactive record keeps its place in sandbox:active. *)
PutLeavesActive(s, r) ==
    /\ rec' = [rec EXCEPT ![s] = r]
    /\ userIdx' = userIdx \cup {s}
    /\ allIds' = allIds \cup {s}
    /\ active' = IF IsActive(r) THEN active \cup {s} ELSE active
    /\ UNCHANGED <<slot, sshPort>>

(* Insert or replace, with no condition on what the key holds by now. *)
Put(s, r) ==
    /\ rec' = [rec EXCEPT ![s] = r]
    /\ userIdx' = userIdx \cup {s}
    /\ allIds' = allIds \cup {s}
    /\ active' = IF IsActive(r) THEN active \cup {s} ELSE active \ {s}
    /\ UNCHANGED <<slot, sshPort>>

(* The compare-and-set that commits a boot; the record it writes is the    *)
(* creator's own copy, which has no device_id.                             *)
RunningRec == [st |-> "running", old |-> FALSE, dev |-> FALSE]
(* Faulty variant: only the slot is compared. *)
MayPutRunningSlotOnly(s) == slot[Owner[s]] = s
MayPutRunning(s) == slot[Owner[s]] = s /\ rec[s].st = "creating"
PutRunning(s) ==
    /\ MayPutRunning(s)
    /\ rec' = [rec EXCEPT ![s] = RunningRec]
    /\ UNCHANGED <<slot, allIds, active, userIdx, sshPort>>

(* Faulty variant: the record goes and the slot stays. *)
DeleteKeepsSlot(s) ==
    /\ rec' = [rec EXCEPT ![s] = NoRec]
    /\ sshPort' = [sshPort EXCEPT ![s] = NoPort]
    /\ active' = active \ {s}
    /\ userIdx' = userIdx \ {s}
    /\ allIds' = allIds \ {s}
    /\ UNCHANGED slot

(* Record, relay port, indexes and the slot if this sandbox owns it.  An   *)
(* absent record makes it return early and leave even an owned slot alone. *)
Delete(s) ==
    \/ /\ Exists(s)
       /\ rec' = [rec EXCEPT ![s] = NoRec]
       /\ sshPort' = [sshPort EXCEPT ![s] = NoPort]
       /\ active' = active \ {s}
       /\ userIdx' = userIdx \ {s}
       /\ allIds' = allIds \ {s}
       /\ slot' = IF slot[Owner[s]] = s THEN [slot EXCEPT ![Owner[s]] = NoId] ELSE slot
    \/ /\ ~Exists(s)
       /\ UNCHANGED storeVars

ReleaseUserSlot(s) ==
    /\ slot' = IF slot[Owner[s]] = s THEN [slot EXCEPT ![Owner[s]] = NoId] ELSE slot
    /\ UNCHANGED <<rec, allIds, active, userIdx, sshPort>>

(* DEL of both keys, whoever holds the slot. *)
PurgeUserIndexes(u) ==
    /\ slot' = [slot EXCEPT ![u] = NoId]
    /\ userIdx' = {s \in userIdx : Owner[s] # u}
    /\ UNCHANGED <<rec, allIds, active, sshPort>>

SetSSHPort(s, p) ==
    /\ sshPort' = [sshPort EXCEPT ![s] = p]
    /\ UNCHANGED <<slot, rec, allIds, active, userIdx>>

(* Time passes: the age test of the record's state changes its outcome. *)
Age(s) ==
    /\ rec[s].st \in {"creating", "terminating", "error"}
    /\ ~rec[s].old
    /\ rec' = [rec EXCEPT ![s].old = TRUE]
    /\ UNCHANGED <<slot, allIds, active, userIdx, sshPort>>

StoreStep(s) ==
    \/ ReserveUserSlot(s)
    \/ \E r \in Record : Put(s, r)
    \/ PutRunning(s)
    \/ Delete(s)
    \/ ReleaseUserSlot(s)
    \/ \E p \in Ports : SetSSHPort(s, p)
    \/ Age(s)

StoreNext ==
    \/ \E s \in Ids : StoreStep(s)
    \/ \E u \in Users : PurgeUserIndexes(u)

StoreSpec == StoreInit /\ [][StoreNext]_storeVars

---------------------------------------------------------------------------
(* Properties. *)

(* A user's slot is only ever held by one of that user's own sandboxes,    *)
(* and a held slot always has the record that describes its holder: the    *)
(* only exception is a reservation left by an earlier release, which is    *)
(* what reconcileUserSlot relies on when it finds a slot without a record  *)
(* (store.go: "never a concurrent create between reservation and Put").    *)
HeldSlotHasRecord ==
    \A u \in Users : slot[u] # NoId =>
        /\ Owner[slot[u]] = u
        /\ Exists(slot[u]) \/ slot[u] \in Legacy

(* The id sets never drift from the records: sandbox:all lists exactly the *)
(* sandboxes with a record, which is what lets List and Reconcile replace  *)
(* a scan of the keyspace by one SMEMBERS; sandbox:active lists exactly    *)
(* those whose record is active; the per-user sets name no dead sandbox.   *)
IndexesMatchRecords ==
    /\ allIds = {s \in Ids : Exists(s)}
    /\ active = {s \in Ids : IsActive(rec[s])}
    /\ userIdx \subseteq allIds
=============================================================================
