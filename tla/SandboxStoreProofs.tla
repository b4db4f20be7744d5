------------------------ MODULE SandboxStoreProofs ------------------------
(* What the store promises whatever its clients do, for any set of users   *)
(* and sandboxes.                                                          *)
EXTENDS SandboxStore, TLAPS

StoreInv == StoreTypeOK /\ HeldSlotHasRecord /\ IndexesMatchRecords

LEMMA RecordFacts ==
    /\ NoRec \notin Record
    /\ \A r \in Record : r.st \in States
    /\ CreatingRec \in Record /\ RunningRec \in Record
<1>1. \A r \in Record : r.st \in States
    BY DEF Record
<1>2. NoRec \notin Record
    BY <1>1 DEF NoRec, States
<1>3. CreatingRec \in Record /\ RunningRec \in Record
    BY DEF Record, States, CreatingRec, RunningRec
<1> QED BY <1>1, <1>2, <1>3

LEMMA ActiveFacts ==
    /\ IsActive(CreatingRec) /\ IsActive(RunningRec) /\ ~IsActive(NoRec)
    /\ \A r : r.st = "creating" => IsActive(r) /\ r # NoRec
BY DEF IsActive, CreatingRec, RunningRec, NoRec

(* Ageing a record leaves a record in the same state. *)
LEMMA OldRecord ==
    ASSUME NEW r \in Record
    PROVE  [r EXCEPT !.old = TRUE] \in Record /\ [r EXCEPT !.old = TRUE].st = r.st
BY DEF Record

(* The initial inventory satisfies the invariant. *)
LEMMA StoreInitInv == StoreInit => StoreInv
<1> SUFFICES ASSUME StoreInit PROVE StoreInv
    OBVIOUS
<1> USE DEF StoreInit, NoRec
<1>1. StoreTypeOK
    BY DEF StoreTypeOK
<1>2. HeldSlotHasRecord
    BY LegacyAssumption DEF HeldSlotHasRecord, LegacyHolders, Exists
<1>3. IndexesMatchRecords
    BY DEF IndexesMatchRecords, Exists, IsActive
<1> QED BY <1>1, <1>2, <1>3 DEF StoreInv

(* Every operation of the store on one sandbox preserves it. *)
LEMMA StoreStepInv ==
    ASSUME NEW s \in Ids, StoreInv, StoreStep(s)
    PROVE  StoreInv'
<1> USE OwnerAssumption, NoIdAssumption, RecordFacts DEF StoreInv
<1>1. CASE ReserveUserSlot(s)
    <2>1. StoreTypeOK'
        BY <1>1 DEF StoreTypeOK, ReserveUserSlot
    <2>2. HeldSlotHasRecord'
        BY <1>1 DEF StoreTypeOK, ReserveUserSlot, HeldSlotHasRecord, Exists
    <2>3. IndexesMatchRecords'
        BY <1>1, ActiveFacts DEF StoreTypeOK, ReserveUserSlot, IndexesMatchRecords, Exists
    <2> QED BY <2>1, <2>2, <2>3
<1>2. CASE \E r \in Record : Put(s, r)
    <2> PICK r \in Record : Put(s, r)
        BY <1>2
    <2>1. StoreTypeOK'
        BY DEF StoreTypeOK, Put
    <2>2. HeldSlotHasRecord'
        BY DEF StoreTypeOK, Put, HeldSlotHasRecord, Exists
    <2>3. IndexesMatchRecords'
        BY DEF StoreTypeOK, Put, IndexesMatchRecords, Exists, IsActive
    <2> QED BY <2>1, <2>2, <2>3
<1>3. CASE PutRunning(s)
    <2>1. StoreTypeOK'
        BY <1>3 DEF StoreTypeOK, PutRunning
    <2>2. HeldSlotHasRecord'
        BY <1>3 DEF StoreTypeOK, PutRunning, HeldSlotHasRecord, Exists
    <2>3. IndexesMatchRecords'
        BY <1>3, ActiveFacts DEF StoreTypeOK, PutRunning, MayPutRunning, IndexesMatchRecords, Exists
    <2> QED BY <2>1, <2>2, <2>3
<1>4. CASE Delete(s)
    <2>1. StoreTypeOK'
        BY <1>4 DEF StoreTypeOK, Delete, storeVars
    <2>2. HeldSlotHasRecord'
        BY <1>4 DEF StoreTypeOK, Delete, storeVars, HeldSlotHasRecord, Exists
    <2>3. IndexesMatchRecords'
        BY <1>4, ActiveFacts DEF StoreTypeOK, Delete, storeVars, IndexesMatchRecords, Exists
    <2> QED BY <2>1, <2>2, <2>3
<1>5. CASE ReleaseUserSlot(s)
    BY <1>5 DEF StoreTypeOK, ReleaseUserSlot, HeldSlotHasRecord, IndexesMatchRecords, Exists
<1>6. CASE \E p \in Ports : SetSSHPort(s, p)
    BY <1>6 DEF StoreTypeOK, SetSSHPort, HeldSlotHasRecord, IndexesMatchRecords, Exists
<1>7. CASE Age(s)
    <2>1. rec[s] \in Record /\ rec'[s] \in Record /\ rec'[s].st = rec[s].st
        <3>1. rec[s] \in Record
            BY <1>7 DEF StoreTypeOK, Age, NoRec
        <3>2. rec'[s] = [rec[s] EXCEPT !.old = TRUE]
            BY <1>7 DEF StoreTypeOK, Age
        <3> QED BY <3>1, <3>2, OldRecord
    <2>2. StoreTypeOK'
        BY <1>7, <2>1 DEF StoreTypeOK, Age
    <2>3. HeldSlotHasRecord'
        BY <1>7, <2>1 DEF StoreTypeOK, Age, HeldSlotHasRecord, Exists
    <2>4. IndexesMatchRecords'
        BY <1>7, <2>1 DEF StoreTypeOK, Age, IndexesMatchRecords, Exists, IsActive
    <2> QED BY <2>2, <2>3, <2>4
<1> QED BY <1>1, <1>2, <1>3, <1>4, <1>5, <1>6, <1>7 DEF StoreStep

(* So does the removal of a user's keys. *)
LEMMA PurgeInv ==
    ASSUME NEW u \in Users, StoreInv, PurgeUserIndexes(u)
    PROVE  StoreInv'
BY NoIdAssumption
   DEF StoreInv, StoreTypeOK, PurgeUserIndexes, HeldSlotHasRecord, IndexesMatchRecords, Exists

LEMMA StoreInductive == StoreInv /\ [StoreNext]_storeVars => StoreInv'
<1> SUFFICES ASSUME StoreInv, [StoreNext]_storeVars PROVE StoreInv'
    OBVIOUS
<1>1. CASE StoreNext
    BY <1>1, StoreStepInv, PurgeInv DEF StoreNext
<1>2. CASE UNCHANGED storeVars
    BY <1>2 DEF StoreInv, storeVars, StoreTypeOK, HeldSlotHasRecord, IndexesMatchRecords, Exists
<1> QED BY <1>1, <1>2

(* The slot of a user is always held by a recorded sandbox of that user,   *)
(* whatever sequence of store.go operations the clients issue.             *)
THEOREM SlotAlwaysRecorded == StoreSpec => []HeldSlotHasRecord
<1>1. StoreInv => HeldSlotHasRecord
    BY DEF StoreInv
<1> QED BY <1>1, StoreInitInv, StoreInductive, PTL DEF StoreSpec

(* The id sets agree with the records, in the same generality. *)
THEOREM IndexesAlwaysMatch == StoreSpec => []IndexesMatchRecords
<1>1. StoreInv => IndexesMatchRecords
    BY DEF StoreInv
<1> QED BY <1>1, StoreInitInv, StoreInductive, PTL DEF StoreSpec
=============================================================================
