-------------------------- MODULE LifecycleProofs --------------------------
(* The service layer only ever moves the inventory by operations of the    *)
(* store, and a running VM always holds its user's slot, for any number of *)
(* users, sandboxes, requests, failed calls and restarts.                  *)
EXTENDS Lifecycle, SandboxStoreProofs

TypeInv == TypeOK /\ StoreInv
StoreMove == [StoreNext]_storeVars

(* TypeOK without its part about the store. *)
RestOK ==
    /\ cpc \in [Ids -> CreatePC]
    /\ expired \subseteq Ids
    /\ holder \in [Ids -> Ids \cup {NoId}]
    /\ \A s \in Ids : cpc[s] \in {"healGet", "healLive"} => holder[s] \in Ids
    /\ hsnap \in [Ids -> Record \cup {NoRec}]
    /\ td \in [Procs -> Frame \cup {NoFrame, FailedFrame}]
    /\ vm \in [Ids -> {"none", "stopped", "live"}]
    /\ homes \subseteq Users
    /\ rcAt \in {"idle", "list", "process", "ssh", "sweep"}
    /\ rcTodo \subseteq Ids
    /\ rcSnap \in [Ids -> Record \cup {NoRec}]
    /\ pu \in [Purgers -> Purge]
    /\ att \in [Attachers -> Attach \cup {NoAttach}]
    /\ faults \in 0..MaxFaults
    /\ crashes \in 0..MaxCrashes

---------------------------------------------------------------------------
(* Records and frames. *)

LEMMA RecordOf ==
    ASSUME StoreTypeOK, NEW s \in Ids
    PROVE  rec[s] \in Record \cup {NoRec} /\ rec[s].dev \in BOOLEAN /\ (Exists(s) => rec[s] \in Record)
<1>1. rec[s] \in Record \cup {NoRec}
    BY DEF StoreTypeOK
<1>2. \A r \in Record : r.dev \in BOOLEAN
    BY DEF Record
<1>3. NoRec.dev \in BOOLEAN
    BY DEF NoRec
<1> QED BY <1>1, <1>2, <1>3 DEF Exists

LEMMA SnapDev == \A r \in Record \cup {NoRec} : r.dev \in BOOLEAN
<1>1. \A r \in Record : r.dev \in BOOLEAN
    BY DEF Record
<1>2. NoRec.dev \in BOOLEAN
    BY DEF NoRec
<1> QED BY <1>1, <1>2

LEMMA MadeRecords ==
    ASSUME NEW d \in BOOLEAN
    PROVE  /\ [st |-> "terminating", old |-> FALSE, dev |-> d] \in Record
           /\ [st |-> "error", old |-> FALSE, dev |-> d] \in Record
BY DEF Record, States

LEMMA ErrorRecord == ErrorRec \in Record
BY DEF ErrorRec, Record, States

LEMMA AttachedRecord ==
    ASSUME NEW r \in Record
    PROVE  [r EXCEPT !.dev = TRUE, !.old = FALSE] \in Record
BY DEF Record

LEMMA MadeFrames ==
    ASSUME NEW a \in FrameAt, NEW s \in Ids, NEW d \in BOOLEAN
    PROVE  /\ NewFrame(a, s, d) \in Frame
           /\ [NewFrame(a, s, d) EXCEPT !.slotOnly = TRUE] \in Frame
           /\ NewFrame(a, s, d).at = a /\ NewFrame(a, s, d).id = s
           /\ [NewFrame(a, s, d) EXCEPT !.slotOnly = TRUE].at = a
           /\ [NewFrame(a, s, d) EXCEPT !.slotOnly = TRUE].id = s
BY DEF Frame, NewFrame

LEMMA MovedFrame ==
    ASSUME NEW f \in Frame, NEW a \in FrameAt
    PROVE  /\ [f EXCEPT !.at = a] \in Frame
           /\ [f EXCEPT !.at = a].at = a /\ [f EXCEPT !.at = a].id = f.id
BY DEF Frame

LEMMA FrameFields ==
    /\ \A f \in Frame : f.at \in FrameAt /\ f.id \in Ids /\ f.dev \in BOOLEAN
    /\ NoFrame.at = "none" /\ NoFrame.id = NoId
    /\ FailedFrame.at = "failed" /\ FailedFrame.id = NoId
BY DEF Frame, NoFrame, FailedFrame

(* A frame that is at work names a sandbox. *)
LEMMA FrameOf ==
    ASSUME TypeOK, NEW p \in Procs, td[p].at \in FrameAt
    PROVE  td[p] \in Frame /\ td[p].id \in Ids /\ td[p].dev \in BOOLEAN
<1>1. td[p] \in Frame \cup {NoFrame, FailedFrame}
    BY DEF TypeOK
<1>2. td[p] \in Frame
    BY <1>1, FrameFields DEF FrameAt
<1> QED BY <1>2, FrameFields

(* What a step of a frame may leave in td. *)
Frames == [Procs -> Frame \cup {NoFrame, FailedFrame}]

LEMMA FrameMoves ==
    ASSUME TypeOK, NEW p \in Procs
    PROVE  /\ \A f \in Frame \cup {NoFrame, FailedFrame} : SetFrame(p, f) => td' \in Frames
           /\ EndFrame(p) => td' \in Frames
           /\ AbortFrame(p) => td' \in Frames
           /\ \A a \in FrameAt : td[p].at \in FrameAt /\ GoFrame(p, a) => td' \in Frames
<1>1. \A f \in Frame \cup {NoFrame, FailedFrame} : SetFrame(p, f) => td' \in Frames
    BY DEF TypeOK, SetFrame, Frames
<1>2. EndFrame(p) => td' \in Frames
    BY <1>1 DEF EndFrame
<1>3. AbortFrame(p) => td' \in Frames
    BY <1>1 DEF AbortFrame
<1>4. ASSUME NEW a \in FrameAt, td[p].at \in FrameAt, GoFrame(p, a)
      PROVE  td' \in Frames
    <2>1. td[p] \in Frame
        BY <1>4, FrameOf
    <2>2. td' = [td EXCEPT ![p] = [td[p] EXCEPT !.at = a]]
        BY <1>4 DEF GoFrame
    <2> QED BY <2>1, <2>2, MovedFrame DEF TypeOK, Frames
<1> QED BY <1>1, <1>2, <1>3, <1>4

LEMMA FaultBound ==
    ASSUME TypeOK, Fault PROVE faults' \in 0..MaxFaults
BY LifecycleAssumption DEF TypeOK, Fault

LEMMA CallBound ==
    ASSUME TypeOK, NEW p, CallOK(p) \/ CallFails(p)
    PROVE  faults' \in 0..MaxFaults
BY FaultBound DEF TypeOK, CallOK, CallFails

LEMMA WriteBound ==
    ASSUME TypeOK, NEW p, NEW ACTION Write, WriteFails(p, Write)
    PROVE  faults' \in 0..MaxFaults /\ (Write \/ UNCHANGED storeVars)
BY FaultBound DEF TypeOK, WriteFails, storeVars

(* The operations of the store that the service calls. *)
LEMMA Moves ==
    ASSUME NEW s \in Ids
    PROVE  /\ \A r \in Record : Put(s, r) => StoreMove
           /\ ReserveUserSlot(s) => StoreMove
           /\ PutRunning(s) => StoreMove
           /\ Delete(s) => StoreMove
           /\ ReleaseUserSlot(s) => StoreMove
           /\ Age(s) => StoreMove
           /\ \A u \in Users : PurgeUserIndexes(u) => StoreMove
           /\ UNCHANGED storeVars => StoreMove
BY DEF StoreMove, StoreNext, StoreStep

---------------------------------------------------------------------------
(* Each action moves the store by one of its operations, or not at all,    *)
(* and keeps the types.                                                    *)

LEMMA FrameTypes ==
    ASSUME TypeInv, NEW p \in Procs, FrameStep(p)
    PROVE  StoreMove /\ RestOK'
<1> USE DEF TypeInv
<1>0. StoreTypeOK
    BY DEF TypeOK
<1>1. CASE DeleteGet(p)
    <2>1. td[p].id \in Ids
        BY <1>1, FrameOf DEF DeleteGet, FrameAt
    <2>2. rec[td[p].id].dev \in BOOLEAN
        BY <1>0, <2>1, RecordOf
    <2>3. NewFrame("put", td[p].id, rec[td[p].id].dev) \in Frame
        BY <2>1, <2>2, MadeFrames DEF FrameAt
    <2>4. td' \in Frames
        BY <1>1, <2>3, FrameMoves DEF DeleteGet
    <2>5. faults' \in 0..MaxFaults
        BY <1>1, CallBound DEF DeleteGet
    <2> QED BY <1>1, <2>4, <2>5, Moves, <2>1 DEF DeleteGet, frameRest, createVars, rcVars, TypeOK, RestOK, Frames
<1>2. CASE DeletePut(p)
    <2> DEFINE r == [st |-> "terminating", old |-> FALSE, dev |-> td[p].dev]
    <2>1. td[p].at \in FrameAt /\ td[p].id \in Ids /\ r \in Record
        BY <1>2, FrameOf, MadeRecords DEF DeletePut, FrameAt
    <2> HIDE DEF r
    <2>2. \/ CallOK(p) /\ Put(td[p].id, r) /\ GoFrame(p, "close")
          \/ WriteFails(p, Put(td[p].id, r)) /\ AbortFrame(p)
        BY <1>2 DEF DeletePut, r
    <2>3. td' \in Frames
        BY <2>1, <2>2, FrameMoves DEF FrameAt
    <2>4. faults' \in 0..MaxFaults
        BY <2>2, CallBound, WriteBound
    <2>5. StoreMove
        BY <2>1, <2>2, WriteBound, Moves
    <2> QED BY <1>2, <2>3, <2>4, <2>5 DEF DeletePut, frameRest, createVars, rcVars, TypeOK, RestOK, Frames
<1>3. CASE TeardownPutError(p)
    <2> DEFINE r == [st |-> "error", old |-> FALSE, dev |-> td[p].dev]
    <2>1. td[p].at \in FrameAt /\ td[p].id \in Ids /\ r \in Record
        BY <1>3, FrameOf, MadeRecords DEF TeardownPutError, FrameAt
    <2> HIDE DEF r
    <2>2. (CallOK(p) /\ Put(td[p].id, r)) \/ WriteFails(p, Put(td[p].id, r))
        BY <1>3 DEF TeardownPutError, r
    <2>3. td' \in Frames
        BY <1>3, <2>1, FrameMoves DEF TeardownPutError, FrameAt
    <2>4. faults' \in 0..MaxFaults
        BY <2>2, CallBound, WriteBound
    <2>5. StoreMove
        BY <2>1, <2>2, WriteBound, Moves
    <2> QED BY <1>3, <2>3, <2>4, <2>5 DEF TeardownPutError, frameRest, createVars, rcVars, TypeOK, RestOK, Frames
<1>4. CASE CloseSSH(p)
    <2>1. td' \in Frames
        BY <1>4, FrameMoves DEF CloseSSH, FrameAt
    <2> QED BY <1>4, <2>1 DEF CloseSSH, frameRest, createVars, rcVars, TypeOK, RestOK, Frames, StoreMove
<1>5. CASE VMDelete(p)
    <2>1. td' \in Frames
        BY <1>5, FrameMoves DEF VMDelete, FrameAt
    <2>2. faults' \in 0..MaxFaults
        BY <1>5, CallBound DEF VMDelete
    <2>3. vm' \in [Ids -> {"none", "stopped", "live"}]
        BY <1>5 DEF VMDelete, TypeOK
    <2> QED BY <1>5, <2>1, <2>2, <2>3 DEF VMDelete, frameRest, createVars, rcVars, TypeOK, RestOK, Frames, StoreMove
<1>6. CASE VMIsLive(p)
    <2>1. td' \in Frames
        BY <1>6, FrameMoves DEF VMIsLive, FrameAt
    <2>2. faults' \in 0..MaxFaults
        BY <1>6, CallBound DEF VMIsLive
    <2> QED BY <1>6, <2>1, <2>2 DEF VMIsLive, frameRest, createVars, rcVars, TypeOK, RestOK, Frames, StoreMove
<1>7. CASE Finish(p)
    <2>1. td[p].id \in Ids
        BY <1>7, FrameOf DEF Finish, FrameAt
    <2>2. td' \in Frames
        BY <1>7, FrameMoves DEF Finish
    <2>3. faults' \in 0..MaxFaults
        BY <1>7, FaultBound DEF Finish, TypeOK
    <2>4. StoreMove
        BY <1>7, <2>1, Moves DEF Finish, Forget
    <2> QED BY <1>7, <2>2, <2>3, <2>4 DEF Finish, frameRest, createVars, rcVars, TypeOK, RestOK, Frames
<1> QED BY <1>1, <1>2, <1>3, <1>4, <1>5, <1>6, <1>7 DEF FrameStep

(* A create step that is not a healing step. *)
LEMMA CreateMoves ==
    ASSUME TypeOK, NEW s \in Ids, NEW pc \in CreatePC, GoCreate(s, pc)
    PROVE  /\ cpc' \in [Ids -> CreatePC] /\ expired' \subseteq Ids
           /\ pc \notin {"healGet", "healLive"} /\ UNCHANGED holder
                => \A t \in Ids : cpc'[t] \in {"healGet", "healLive"} => holder'[t] \in Ids
BY DEF TypeOK, GoCreate

LEMMA HealMoves ==
    ASSUME TypeOK, NEW s \in Ids, NEW pc \in {"healing", "retry"}, HealEnds(s, pc)
    PROVE  /\ cpc' \in [Ids -> CreatePC] /\ expired' \subseteq Ids
           /\ holder' \in [Ids -> Ids \cup {NoId}]
           /\ hsnap' \in [Ids -> Record \cup {NoRec}]
           /\ \A t \in Ids : cpc'[t] \in {"healGet", "healLive"} => holder'[t] \in Ids
BY DEF TypeOK, HealEnds, GoCreate, CreatePC

LEMMA CreateTypes ==
    ASSUME TypeInv, NEW s \in Ids, CreateStep(s)
    PROVE  StoreMove /\ RestOK'
<1> USE DEF TypeInv
<1>0. StoreTypeOK /\ s \in Procs
    BY DEF TypeOK, Procs
<1>1. CASE Reserve(s)
    <2>1. PICK pc \in {"disk", "heal", "done"} : GoCreate(s, pc)
        BY <1>1 DEF Reserve
    <2>2. cpc' \in [Ids -> CreatePC] /\ expired' \subseteq Ids
          /\ \A t \in Ids : cpc'[t] \in {"healGet", "healLive"} => holder'[t] \in Ids
        BY <1>1, <2>1, CreateMoves DEF Reserve, CreatePC
    <2>3. faults' \in 0..MaxFaults
        BY <1>1, CallBound, WriteBound, FaultBound DEF Reserve
    <2>4. StoreMove
        BY <1>1, WriteBound, Moves DEF Reserve
    <2> QED BY <1>1, <2>2, <2>3, <2>4 DEF Reserve, createRest, rcVars, TypeOK, RestOK
<1>2. CASE HealSlot(s)
    <2>1. faults' \in 0..MaxFaults
        BY <1>2, CallBound DEF HealSlot
    <2>2. slot[Owner[s]] \in Ids \cup {NoId}
        BY <1>0, OwnerAssumption DEF StoreTypeOK
    <2>3. cpc' \in [Ids -> CreatePC] /\ expired' \subseteq Ids /\ holder' \in [Ids -> Ids \cup {NoId}]
        BY <1>2, <2>2 DEF HealSlot, GoCreate, TypeOK, CreatePC
    <2>4. \A t \in Ids : cpc'[t] \in {"healGet", "healLive"} => holder'[t] \in Ids
        BY <1>2, <2>2 DEF HealSlot, GoCreate, TypeOK, CreatePC
    <2> QED BY <1>2, <2>1, <2>3, <2>4 DEF HealSlot, createRest, rcVars, TypeOK, RestOK, StoreMove
<1>3. CASE HealGet(s)
    <2>1. faults' \in 0..MaxFaults
        BY <1>3, CallBound DEF HealGet
    <2>2. holder[s] \in Ids
        BY <1>3 DEF HealGet, TypeOK
    <2>3. rec[holder[s]] \in Record \cup {NoRec}
        BY <1>0, <2>2, RecordOf
    <2>4. NewFrame("get", holder[s], FALSE) \in Frame
        BY <2>2, MadeFrames DEF FrameAt
    <2>5. td' \in Frames
        BY <1>0, <1>3, <2>4, FrameMoves DEF HealGet, TypeOK, Frames
    <2>6. UNCHANGED <<storeVars, vm, homes, rcAt, rcTodo, rcSnap, pu, att, crashes>>
        BY <1>3 DEF HealGet, createRest, rcVars
    <2>7. CASE \E pc \in {"healing", "retry"} : HealEnds(s, pc)
        BY <2>1, <2>5, <2>6, <2>7, HealMoves DEF TypeOK, RestOK, StoreMove, Frames
    <2>8. CASE /\ hsnap' = [hsnap EXCEPT ![s] = rec[holder[s]]]
               /\ GoCreate(s, "healLive") /\ UNCHANGED <<holder, td>>
        <3>1. hsnap' \in [Ids -> Record \cup {NoRec}]
            BY <2>3, <2>8 DEF TypeOK
        <3>2. cpc' \in [Ids -> CreatePC] /\ expired' \subseteq Ids
              /\ \A t \in Ids : cpc'[t] \in {"healGet", "healLive"} => holder'[t] \in Ids
            BY <2>2, <2>8 DEF TypeOK, GoCreate, CreatePC
        <3> QED BY <2>1, <2>5, <2>6, <2>8, <3>1, <3>2 DEF TypeOK, RestOK, StoreMove, Frames
    <2> QED BY <1>3, <2>7, <2>8 DEF HealGet
<1>4. CASE HealLive(s)
    <2>1. faults' \in 0..MaxFaults
        BY <1>4, CallBound DEF HealLive
    <2>2. holder[s] \in Ids /\ hsnap[s].dev \in BOOLEAN
        BY <1>4, SnapDev DEF HealLive, TypeOK
    <2>3. /\ [NewFrame("vmDelete", holder[s], FALSE) EXCEPT !.slotOnly = TRUE] \in Frame
          /\ NewFrame("putError", holder[s], hsnap[s].dev) \in Frame
        BY <2>2, MadeFrames DEF FrameAt
    <2>4. td' \in Frames
        BY <1>0, <1>4, <2>3, FrameMoves DEF HealLive, TypeOK, Frames
    <2>5. PICK pc \in {"healing", "retry"} : HealEnds(s, pc)
        BY <1>4 DEF HealLive
    <2> QED BY <1>4, <2>1, <2>4, <2>5, HealMoves DEF HealLive, createRest, rcVars, TypeOK, RestOK, StoreMove, Frames
<1>5. CASE FrameDone(s)
    <2>1. PICK pc \in {"retry", "done"} : GoCreate(s, pc)
        BY <1>5 DEF FrameDone
    <2> QED BY <1>5, <2>1, CreateMoves DEF FrameDone, createRest, rcVars, TypeOK, RestOK, StoreMove, CreatePC
<1>6. CASE EnsureDisk(s)
    <2>1. PICK pc \in {"mint", "failPut"} : GoCreate(s, pc)
        BY <1>6 DEF EnsureDisk
    <2>2. faults' \in 0..MaxFaults /\ homes' \subseteq Users
        BY <1>6, FaultBound, OwnerAssumption DEF EnsureDisk, TypeOK
    <2> QED BY <1>6, <2>1, <2>2, CreateMoves DEF EnsureDisk, rcVars, TypeOK, RestOK, StoreMove, CreatePC
<1>7. CASE MintEnrollToken(s)
    <2>1. PICK pc \in {"boot", "failPut"} : GoCreate(s, pc)
        BY <1>7 DEF MintEnrollToken
    <2>2. faults' \in 0..MaxFaults
        BY <1>7, CallBound DEF MintEnrollToken
    <2> QED BY <1>7, <2>1, <2>2, CreateMoves DEF MintEnrollToken, createRest, rcVars, TypeOK, RestOK, StoreMove, CreatePC
<1>8. CASE VMBoot(s)
    <2>1. PICK pc \in {"start", "failPut"} : GoCreate(s, pc)
        BY <1>8 DEF VMBoot
    <2>2. faults' \in 0..MaxFaults /\ vm' \in [Ids -> {"none", "stopped", "live"}]
        BY <1>8, CallBound DEF VMBoot, TypeOK
    <2> QED BY <1>8, <2>1, <2>2, CreateMoves DEF VMBoot, createRest, rcVars, TypeOK, RestOK, StoreMove, CreatePC
<1>9. CASE VMStart(s)
    <2>1. PICK pc \in {"commit", "failPut"} : GoCreate(s, pc)
        BY <1>9 DEF VMStart
    <2>2. faults' \in 0..MaxFaults /\ vm' \in [Ids -> {"none", "stopped", "live"}]
        BY <1>9, CallBound DEF VMStart, TypeOK
    <2> QED BY <1>9, <2>1, <2>2, CreateMoves DEF VMStart, createRest, rcVars, TypeOK, RestOK, StoreMove, CreatePC
<1>10. CASE Commit(s)
    <2>1. PICK pc \in {"done", "undo"} : GoCreate(s, pc)
        BY <1>10 DEF Commit
    <2>2. NewFrame("vmDelete", s, FALSE) \in Frame
        BY MadeFrames DEF FrameAt
    <2>3. td' \in Frames
        BY <1>0, <1>10, <2>2, FrameMoves DEF Commit, TypeOK, Frames
    <2>4. faults' \in 0..MaxFaults
        BY <1>10, CallBound, WriteBound DEF Commit
    <2>5. PutRunning(s) \/ UNCHANGED storeVars
        BY <1>10 DEF Commit, WriteFails, storeVars
    <2>6. StoreMove
        BY <2>5, Moves
    <2> QED BY <1>10, <2>1, <2>3, <2>4, <2>6, CreateMoves DEF Commit, createRest, rcVars, TypeOK, RestOK, CreatePC, Frames
<1>11. CASE FailPut(s)
    <2>1. faults' \in 0..MaxFaults
        BY <1>11, FaultBound DEF FailPut, TypeOK
    <2>2. Put(s, ErrorRec) \/ UNCHANGED storeVars
        BY <1>11 DEF FailPut
    <2>3. StoreMove
        BY <2>2, ErrorRecord, Moves
    <2> QED BY <1>11, <2>1, <2>3, CreateMoves DEF FailPut, createRest, rcVars, TypeOK, RestOK, CreatePC
<1>12. CASE FailRelease(s)
    <2>1. faults' \in 0..MaxFaults
        BY <1>12, FaultBound DEF FailRelease, TypeOK
    <2>2. StoreMove
        BY <1>12, Moves DEF FailRelease
    <2> QED BY <1>12, <2>1, <2>2, CreateMoves DEF FailRelease, createRest, rcVars, TypeOK, RestOK, CreatePC
<1> QED BY <1>1, <1>2, <1>3, <1>4, <1>5, <1>6, <1>7, <1>8, <1>9, <1>10, <1>11, <1>12 DEF CreateStep

LEMMA RequestTypes ==
    ASSUME TypeInv
    PROVE  /\ \A s \in Ids : CreateBegin(s) \/ Expire(s) => StoreMove /\ RestOK'
           /\ \A d \in Deleters, s \in Ids : DeleteBegin(d, s) => StoreMove /\ RestOK'
           /\ \A a \in Attachers : AttachPut(a) => StoreMove /\ RestOK'
           /\ \A a \in Attachers, s \in Ids : AttachGet(a, s) => StoreMove /\ RestOK'
<1> USE DEF TypeInv
<1>1. ASSUME NEW s \in Ids, CreateBegin(s) PROVE StoreMove /\ RestOK'
    BY <1>1, CreateMoves DEF CreateBegin, createRest, rcVars, TypeOK, RestOK, StoreMove, CreatePC
<1>2. ASSUME NEW s \in Ids, Expire(s) PROVE StoreMove /\ RestOK'
    BY <1>2 DEF Expire, createRest, rcVars, TypeOK, RestOK, StoreMove
<1>3. ASSUME NEW d \in Deleters, NEW s \in Ids, DeleteBegin(d, s) PROVE StoreMove /\ RestOK'
    <2>1. NewFrame("get", s, FALSE) \in Frame /\ d \in Procs
        BY MadeFrames DEF FrameAt, Procs
    <2>2. td' \in Frames
        BY <1>3, <2>1, FrameMoves DEF DeleteBegin
    <2> QED BY <1>3, <2>2 DEF DeleteBegin, createVars, rcVars, TypeOK, RestOK, StoreMove, Frames
<1>4. ASSUME NEW a \in Attachers, AttachPut(a) PROVE StoreMove /\ RestOK'
    <2> DEFINE r == [att[a].snap EXCEPT !.dev = TRUE, !.old = FALSE]
    <2>1. att[a] \in Attach
        BY <1>4 DEF AttachPut, TypeOK
    <2>2. att[a].id \in Ids /\ r \in Record
        BY <2>1, AttachedRecord DEF Attach
    <2> HIDE DEF r
    <2>3. Put(att[a].id, r) \/ UNCHANGED storeVars
        BY <1>4 DEF AttachPut, r
    <2>4. StoreMove
        BY <2>2, <2>3, Moves
    <2>5. faults' \in 0..MaxFaults
        BY <1>4, FaultBound DEF AttachPut, TypeOK
    <2>6. att' \in [Attachers -> Attach \cup {NoAttach}]
        BY <1>4 DEF AttachPut, TypeOK
    <2> QED BY <1>4, <2>4, <2>5, <2>6 DEF AttachPut, attachRest, createVars, rcVars, TypeOK, RestOK
<1>5. ASSUME NEW a \in Attachers, NEW s \in Ids, AttachGet(a, s) PROVE StoreMove /\ RestOK'
    <2>1. rec[s] \in Record
        BY <1>5, RecordOf DEF AttachGet, TypeOK
    <2>2. att' \in [Attachers -> Attach \cup {NoAttach}]
        BY <1>5, <2>1 DEF AttachGet, TypeOK, Attach
    <2> QED BY <1>5, <2>2 DEF AttachGet, attachRest, createVars, rcVars, TypeOK, RestOK, StoreMove
<1> QED BY <1>1, <1>2, <1>3, <1>4, <1>5

LEMMA PurgeTypes ==
    ASSUME TypeInv, NEW p \in Purgers, PurgeStep(p) \/ \E u \in Users : PurgeScan(p, u)
    PROVE  StoreMove /\ RestOK'
<1> USE DEF TypeInv
<1>0. p \in Procs /\ pu[p] \in Purge /\ pu[p].users \subseteq Users /\ pu[p].todo \subseteq Ids
    BY DEF Procs, TypeOK, Purge
<1>1. NoPurge \in Purge
    BY DEF NoPurge, Purge
<1>2. ASSUME NEW u \in Users, PurgeScan(p, u) PROVE StoreMove /\ RestOK'
    <2>1. PICK todo \in SUBSET Ids : pu' = [pu EXCEPT ![p] = [at |-> "delete", users |-> {u}, todo |-> todo]]
        BY <1>2 DEF PurgeScan, TypeOK, StoreTypeOK
    <2>2. pu' \in [Purgers -> Purge]
        BY <2>1 DEF TypeOK, Purge
    <2>3. faults' \in 0..MaxFaults
        BY <1>2, FaultBound DEF PurgeScan, TypeOK
    <2> QED BY <1>2, <2>2, <2>3 DEF PurgeScan, purgeRest, createVars, rcVars, TypeOK, RestOK, StoreMove
<1>3. CASE PurgeDelete(p)
    <2>1. pu' \in [Purgers -> Purge]
        <3>1. CASE \E s \in Ids : pu' = [pu EXCEPT ![p].todo = @ \ {s}]
            BY <1>0, <3>1 DEF TypeOK, Purge
        <3>2. CASE GoPurge(p, "purge")
            BY <1>0, <3>2 DEF TypeOK, Purge, GoPurge
        <3>3. CASE pu' = [pu EXCEPT ![p] = NoPurge]
            BY <1>1, <3>3 DEF TypeOK
        <3> QED BY <1>0, <1>3, <3>1, <3>2, <3>3 DEF PurgeDelete
    <2>2. \A s \in Ids : NewFrame("get", s, FALSE) \in Frame
        BY MadeFrames DEF FrameAt
    <2>3. td' \in Frames
        BY <1>0, <1>3, <2>2, FrameMoves DEF PurgeDelete, TypeOK, Frames
    <2> QED BY <1>3, <2>1, <2>3 DEF PurgeDelete, purgeRest, createVars, rcVars, TypeOK, RestOK, StoreMove, Frames
<1>4. CASE PurgeIndexes(p)
    <2>1. pu' \in [Purgers -> Purge]
        <3>1. CASE GoPurge(p, "rmHome")
            BY <1>0, <3>1 DEF TypeOK, Purge, GoPurge
        <3>2. CASE pu' = [pu EXCEPT ![p] = NoPurge]
            BY <1>1, <3>2 DEF TypeOK
        <3> QED BY <1>4, <3>1, <3>2 DEF PurgeIndexes
    <2>2. faults' \in 0..MaxFaults
        BY <1>4, FaultBound DEF PurgeIndexes, TypeOK
    <2>3. StoreMove
        BY <1>0, <1>4 DEF PurgeIndexes, StoreMove, StoreNext
    <2> QED BY <1>4, <2>1, <2>2, <2>3 DEF PurgeIndexes, purgeRest, createVars, rcVars, TypeOK, RestOK
<1>5. CASE PurgeHome(p)
    BY <1>0, <1>1, <1>5 DEF PurgeHome, purgeRest, createVars, rcVars, TypeOK, RestOK, StoreMove
<1> QED BY <1>2, <1>3, <1>4, <1>5 DEF PurgeStep

LEMMA ReconcileTypes ==
    ASSUME TypeInv, ReconcileStep
    PROVE  StoreMove /\ RestOK'
<1> USE DEF TypeInv, reconcileRest, createVars, rcVars
<1>1. CASE ReconcileList
    BY <1>1, FaultBound DEF ReconcileList, TypeOK, StoreTypeOK, RestOK, StoreMove
<1>2. CASE ReconcileListed
    BY <1>2 DEF ReconcileListed, TypeOK, RestOK, StoreMove
<1>3. CASE ReconcileProcessed
    BY <1>3 DEF ReconcileProcessed, TypeOK, RestOK, StoreMove
<1>4. CASE ReconcileSSH
    BY <1>4 DEF ReconcileSSH, TypeOK, RestOK, StoreMove
<1>5. CASE SweepDone
    BY <1>5, FaultBound DEF SweepDone, TypeOK, RestOK, StoreMove
<1>6. ASSUME NEW s \in Ids, ReconcileGet(s) PROVE StoreMove /\ RestOK'
    <2>1. rcSnap' \in [Ids -> Record \cup {NoRec}]
        BY <1>6, RecordOf DEF ReconcileGet, TypeOK
    <2>2. faults' \in 0..MaxFaults
        BY <1>6, FaultBound DEF ReconcileGet, TypeOK
    <2> QED BY <1>6, <2>1, <2>2 DEF ReconcileGet, TypeOK, RestOK, StoreMove
<1>7. ASSUME NEW s \in Ids, ReconcileOne(s) PROVE StoreMove /\ RestOK'
    <2>1. Reconciler \in Procs /\ rcSnap[s].dev \in BOOLEAN
        BY SnapDev DEF Procs, TypeOK
    <2>2. /\ NewFrame("get", s, FALSE) \in Frame /\ NewFrame("finish", s, FALSE) \in Frame
          /\ NewFrame("putError", s, rcSnap[s].dev) \in Frame
        BY <2>1, MadeFrames DEF FrameAt
    <2>3. td' \in Frames
        BY <1>7, <2>1, <2>2, FrameMoves DEF ReconcileOne, TypeOK, Frames
    <2>4. faults' \in 0..MaxFaults
        BY <1>7, FaultBound DEF ReconcileOne, TypeOK
    <2>5. rcSnap' \in [Ids -> Record \cup {NoRec}] /\ rcTodo' \subseteq Ids
        BY <1>7 DEF ReconcileOne, TypeOK
    <2>6. UNCHANGED <<storeVars, vm, rcAt, reconcileRest>>
        BY <1>7 DEF ReconcileOne
    <2> QED BY <2>3, <2>4, <2>5, <2>6 DEF TypeOK, RestOK, StoreMove, Frames
<1>8. ASSUME NEW s \in Ids, CleanupStopped(s) PROVE StoreMove /\ RestOK'
    BY <1>8 DEF CleanupStopped, TypeOK, RestOK, StoreMove
<1> QED BY <1>1, <1>2, <1>3, <1>4, <1>5, <1>6, <1>7, <1>8 DEF ReconcileStep

LEMMA EnvironmentTypes ==
    ASSUME TypeInv
    PROVE  /\ \A s \in Ids : VMDies(s) \/ TimePasses(s) => StoreMove /\ RestOK'
           /\ Crash => StoreMove /\ RestOK'
<1> USE DEF TypeInv
<1>1. ASSUME NEW s \in Ids, VMDies(s) PROVE StoreMove /\ RestOK'
    BY <1>1 DEF VMDies, createVars, rcVars, TypeOK, RestOK, StoreMove
<1>2. ASSUME NEW s \in Ids, TimePasses(s) PROVE StoreMove /\ RestOK'
    BY <1>2, Moves DEF TimePasses, createVars, rcVars, TypeOK, RestOK
<1>3. ASSUME Crash PROVE StoreMove /\ RestOK'
    <2>1. NoPurge \in Purge
        BY DEF NoPurge, Purge
    <2>2. crashes' \in 0..MaxCrashes
        BY <1>3, LifecycleAssumption DEF Crash, TypeOK
    <2>3. cpc' \in [Ids -> CreatePC] /\ \A t \in Ids : cpc'[t] \in {"idle", "done"}
        BY <1>3 DEF Crash, TypeOK, InFlight, CreatePC
    <2> QED BY <1>3, <2>1, <2>2, <2>3 DEF Crash, TypeOK, RestOK, StoreMove
<1> QED BY <1>1, <1>2, <1>3

---------------------------------------------------------------------------
(* The theorems about the inventory. *)

LEMMA InitTypes == Init => TypeInv
<1> SUFFICES ASSUME Init PROVE TypeInv
    OBVIOUS
<1>1. StoreInv
    BY StoreInitInv DEF Init
<1>2. NoPurge \in Purge
    BY DEF NoPurge, Purge
<1> QED BY <1>1, <1>2, LifecycleAssumption DEF Init, TypeInv, TypeOK, StoreInv, CreatePC

LEMMA StepTypes ==
    ASSUME TypeInv, [Next]_vars
    PROVE  StoreMove /\ TypeInv'
<1>1. CASE UNCHANGED vars
    <2>1. UNCHANGED storeVars
        BY <1>1 DEF vars
    <2>2. StoreInv'
        BY <2>1, StoreInductive DEF TypeInv
    <2>3. RestOK'
        BY <1>1 DEF vars, createVars, rcVars, TypeInv, TypeOK, RestOK
    <2> QED BY <2>1, <2>2, <2>3 DEF TypeInv, TypeOK, RestOK, StoreInv, StoreMove
<1>2. CASE Next
    <2>1. StoreMove /\ RestOK'
        BY <1>2, FrameTypes, CreateTypes, RequestTypes, PurgeTypes, ReconcileTypes, EnvironmentTypes DEF Next
    <2>2. StoreInv'
        BY <2>1, StoreInductive DEF TypeInv, StoreMove
    <2> QED BY <2>1, <2>2 DEF TypeInv, TypeOK, RestOK, StoreInv
<1> QED BY <1>1, <1>2

LEMMA TypesAlways == Spec => []TypeInv
<1>1. TypeInv /\ [Next]_vars => TypeInv'
    BY StepTypes
<1> QED BY InitTypes, <1>1, PTL DEF Spec

(* No interleaving of handlers, failed calls and restarts leaves a state   *)
(* that the code does not expect: a frame always names a sandbox, a record *)
(* read for healing or AttachDevice is one that Get can return, a nil      *)
(* record is never written back (service.go, the nil checks after Get).    *)
THEOREM LifecycleTypes == Spec => []TypeOK
<1>1. TypeInv => TypeOK
    BY DEF TypeInv
<1> QED BY TypesAlways, <1>1, PTL

(* Create, Delete, healing, reconcile, AttachDevice and DeleteUserData     *)
(* change the inventory only by the operations of store.go: the service    *)
(* layer implements the abstract inventory of SandboxStore.                *)
THEOREM ServiceImplementsStore == Spec => StoreSpec
<1>1. Init => StoreInit
    BY DEF Init
<1>2. TypeInv /\ [Next]_vars => [StoreNext]_storeVars
    BY StepTypes DEF StoreMove
<1> QED BY <1>1, <1>2, TypesAlways, PTL DEF Spec, StoreSpec

(* So every guarantee of the inventory holds of the running service.       *)
THEOREM ServiceKeepsSlots == Spec => [](HeldSlotHasRecord /\ IndexesMatchRecords)
BY ServiceImplementsStore, SlotAlwaysRecorded, IndexesAlwaysMatch, PTL
=============================================================================
