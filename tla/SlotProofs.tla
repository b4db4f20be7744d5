----------------------------- MODULE SlotProofs -----------------------------
(* A running VM always holds its user's quota slot, for any number of      *)
(* users, sandboxes, delete and attach requests, failed calls and restarts *)
(* of the manager, if no client deletes a sandbox whose Create has not     *)
(* returned, no user data is purged and vm.Create rolls back what it did;  *)
(* and a delete is final, also of a sandbox whose Create has not returned. *)
EXTENDS LifecycleProofs

Orderly == ~DeleteInFlight /\ ~RollbackFails /\ Purgers = {}

(* A Create call is young while it may still start its VM. *)
BootPC  == {"disk", "mint", "boot", "start"}
YoungPC == {"idle", "reserve", "heal", "healGet", "healLive", "healing", "retry"} \cup BootPC
StartedPC == {"commit", "undo", "done"}
Young(s) == s \notin Legacy /\ s \notin expired /\ cpc[s] \in YoungPC

(* Nobody has a reason to tear the sandbox of a young call down: its       *)
(* record is absent or freshly creating, in the store and in what the      *)
(* reconciler has read, no frame and no AttachDevice works on it, and a    *)
(* call that found it in the slot will see its record.                     *)
FreshRec(r) == r = NoRec \/ (r.st = "creating" /\ ~r.old)
Untouched(s) ==
    /\ FreshRec(rec[s]) /\ FreshRec(rcSnap[s])
    /\ cpc[s] = "idle" => rec[s] = NoRec
    /\ cpc[s] \in BootPC => slot[Owner[s]] = s
    /\ \A p \in Procs : td[p].id # s
    /\ \A a \in Attachers : att[a].id # s
    /\ \A t \in Ids : holder[t] = s => Exists(s) /\ cpc[t] # "healLive"

YoungInv == \A s \in Ids : Young(s) => Untouched(s)
IdleInv == \A s \in Ids : /\ s \in Legacy => cpc[s] = "idle"
                          /\ s \in expired => cpc[s] # "idle"
StartedInv == \A s \in Ids : Live(s) => cpc[s] \in StartedPC \/ s \in Legacy
FinishInv == \A p \in Procs : td[p].at = "finish" => ~Live(td[p].id)

SlotInv == YoungInv /\ IdleInv /\ StartedInv /\ FinishInv /\ LiveVMHoldsSlot

---------------------------------------------------------------------------
(* What the frame operations do to td. *)

LEMMA TdSet ==
    ASSUME TypeOK, NEW p \in Procs, NEW f, SetFrame(p, f)
    PROVE  \A q \in Procs : td'[q] = IF q = p THEN f ELSE td[q]
BY DEF TypeOK, SetFrame

LEMMA TdGo ==
    ASSUME TypeOK, NEW p \in Procs, NEW a \in FrameAt, td[p].at \in FrameAt, GoFrame(p, a)
    PROVE  \A q \in Procs : /\ td'[q].id = td[q].id
                            /\ td'[q].at = IF q = p THEN a ELSE td[q].at
<1> DEFINE f == [td[p] EXCEPT !.at = a]
<1>1. td[p] \in Frame
    BY FrameOf
<1>2. f.at = a /\ f.id = td[p].id
    BY <1>1, MovedFrame
<1>3. td' = [td EXCEPT ![p] = f]
    BY DEF GoFrame
<1> HIDE DEF f
<1>4. \A q \in Procs : td'[q] = IF q = p THEN f ELSE td[q]
    BY <1>3 DEF TypeOK
<1> QED BY <1>2, <1>4

LEMMA TdEnd ==
    ASSUME TypeOK, NEW p \in Procs, EndFrame(p) \/ AbortFrame(p)
    PROVE  /\ \A q \in Procs \ {p} : td'[q] = td[q]
           /\ td'[p].id = NoId /\ td'[p].at # "finish"
BY TdSet, FrameFields DEF EndFrame, AbortFrame

(* A step of a frame that starts no VM, that leaves alone the sandboxes of *)
(* young calls, and that takes no slot from a running VM. *)
LEMMA FrameKeeps ==
    ASSUME TypeInv, SlotInv,
           UNCHANGED <<createVars, rcVars, att>>,
           \A q \in Procs : td'[q].id \in {td[q].id, NoId},
           \A q \in Procs : td'[q].at = "finish" => vm'[td'[q].id] # "live",
           \A s \in Ids : vm'[s] = "live" => Live(s),
           \A s \in Ids : Young(s) => rec'[s] = rec[s],
           \A s \in Ids : (Young(s) \/ vm'[s] = "live") /\ slot[Owner[s]] = s => slot'[Owner[s]] = s
    PROVE  SlotInv'
<1>1. YoungInv'
    <2> SUFFICES ASSUME NEW s \in Ids, Young(s)' PROVE Untouched(s)'
        BY DEF YoungInv
    <2>1. Young(s) /\ Untouched(s)
        BY DEF Young, createVars, SlotInv, YoungInv
    <2> QED BY <2>1, NoIdAssumption DEF Untouched, createVars, rcVars, Exists, FreshRec
<1>2. IdleInv' /\ StartedInv'
    BY DEF SlotInv, IdleInv, StartedInv, Live, createVars
<1>3. FinishInv' /\ LiveVMHoldsSlot'
    BY DEF SlotInv, FinishInv, LiveVMHoldsSlot, Live
<1> QED BY <1>1, <1>2, <1>3 DEF SlotInv

(* The sandbox of a frame is not that of a young call. *)
LEMMA FrameNotYoung ==
    ASSUME TypeInv, SlotInv, NEW p \in Procs, NEW s \in Ids, Young(s)
    PROVE  td[p].id # s
BY DEF SlotInv, YoungInv, Untouched

LEMMA FrameSlots ==
    ASSUME TypeInv, SlotInv, NEW p \in Procs, FrameStep(p)
    PROVE  SlotInv'
<1> USE DEF TypeInv
<1>0. UNCHANGED <<createVars, rcVars, att>>
    BY DEF FrameStep, DeleteGet, DeletePut, TeardownPutError, CloseSSH, VMDelete, VMIsLive, Finish, frameRest
<1>1. CASE DeleteGet(p)
    <2>1. td[p].id \in Ids /\ td[p].at \in FrameAt
        BY <1>1, FrameOf DEF DeleteGet, FrameAt
    <2>2. rec[td[p].id].dev \in BOOLEAN
        BY <2>1, RecordOf DEF TypeOK
    <2>3. NewFrame("put", td[p].id, rec[td[p].id].dev).id = td[p].id
          /\ NewFrame("put", td[p].id, rec[td[p].id].dev).at = "put"
        BY DEF NewFrame
    <2>4. \A q \in Procs : td'[q].id \in {td[q].id, NoId} /\ (td'[q].at = "finish" => td'[q] = td[q])
        BY <1>1, <2>3, TdSet, TdEnd DEF DeleteGet
    <2> QED BY <1>0, <1>1, <2>4, FrameKeeps DEF DeleteGet, storeVars, SlotInv, FinishInv, Live
<1>2. CASE DeletePut(p) \/ TeardownPutError(p)
    <2>1. td[p].id \in Ids /\ td[p].at \in FrameAt
        BY <1>2, FrameOf DEF DeletePut, TeardownPutError, FrameAt
    <2>2. \A q \in Procs : td'[q].id \in {td[q].id, NoId} /\ (td'[q].at = "finish" => td[q].at = "finish" /\ td'[q].id = td[q].id)
        BY <1>2, <2>1, TdGo, TdEnd DEF DeletePut, TeardownPutError, FrameAt
    <2>3. \A s \in Ids : s # td[p].id => rec'[s] = rec[s]
        BY <1>2, <2>1 DEF DeletePut, TeardownPutError, Put, WriteFails, storeVars, TypeOK, StoreTypeOK
    <2>4. UNCHANGED <<slot, vm>>
        BY <1>2 DEF DeletePut, TeardownPutError, Put, WriteFails, storeVars
    <2> QED BY <1>0, <2>2, <2>3, <2>4, FrameNotYoung, FrameKeeps DEF SlotInv, FinishInv, Live
<1>3. CASE CloseSSH(p)
    <2>1. \A q \in Procs : td'[q].id = td[q].id /\ (td'[q].at = "finish" => td[q].at = "finish")
        BY <1>3, TdGo DEF CloseSSH, FrameAt
    <2> QED BY <1>0, <1>3, <2>1, FrameKeeps DEF CloseSSH, storeVars, SlotInv, FinishInv, Live
<1>4. CASE VMDelete(p)
    <2>1. td[p].id \in Ids
        BY <1>4, FrameOf DEF VMDelete, FrameAt
    <2>2. \A s \in Ids : vm'[s] = "live" => Live(s)
        BY <1>4, <2>1 DEF VMDelete, TypeOK, Live
    <2>3. \A q \in Procs : td'[q].id = td[q].id /\ (td'[q].at = "finish" => td[q].at = "finish" \/ (q = p /\ vm'[td[p].id] = "none"))
        BY <1>4, <2>1, TdGo DEF VMDelete, FrameAt, TypeOK
    <2>4. \A q \in Procs : td'[q].at = "finish" => vm'[td'[q].id] # "live"
        <3> SUFFICES ASSUME NEW q \in Procs, td'[q].at = "finish", td[q].at = "finish"
                     PROVE  vm'[td[q].id] # "live"
            BY <2>3
        <3> QED BY <2>2, FrameOf DEF SlotInv, FinishInv, FrameAt
    <2> QED BY <1>0, <1>4, <2>2, <2>3, <2>4, FrameKeeps DEF VMDelete, storeVars
<1>5. CASE VMIsLive(p)
    <2>1. \A q \in Procs : td'[q].id \in {td[q].id, NoId}
                           /\ (td'[q].at = "finish" => (td[q].at = "finish" \/ ~Live(td[q].id)) /\ td'[q].id = td[q].id)
        BY <1>5, TdGo, TdEnd DEF VMIsLive, FrameAt
    <2> QED BY <1>0, <1>5, <2>1, FrameKeeps DEF VMIsLive, storeVars, SlotInv, FinishInv, Live
<1>6. CASE Finish(p)
    <2>1. td[p].id \in Ids /\ ~Live(td[p].id)
        BY <1>6, FrameOf DEF Finish, FrameAt, SlotInv, FinishInv
    <2>2. \A q \in Procs : td'[q].id \in {td[q].id, NoId} /\ (td'[q].at = "finish" => td'[q] = td[q])
        BY <1>6, TdEnd DEF Finish
    <2>3. \A s \in Ids : s # td[p].id => /\ rec'[s] = rec[s]
                                         /\ slot[Owner[s]] = s => slot'[Owner[s]] = s
        BY <1>6, <2>1, OwnerAssumption DEF Finish, Forget, Delete, ReleaseUserSlot, storeVars, TypeOK, StoreTypeOK
    <2> QED BY <1>0, <1>6, <2>1, <2>2, <2>3, FrameNotYoung, FrameKeeps DEF Finish, SlotInv, FinishInv, Live
<1> QED BY <1>1, <1>2, <1>3, <1>4, <1>5, <1>6 DEF FrameStep

---------------------------------------------------------------------------
(* A step of the Create call s that moves it to pc, and leaves alone the   *)
(* sandboxes of the other young calls and the slots of running VMs.        *)
LEMMA CreateKeeps ==
    ASSUME TypeInv, SlotInv, NEW s \in Ids, NEW pc \in CreatePC \ {"idle"}, GoCreate(s, pc),
           UNCHANGED <<rcSnap, att>>,
           s \notin Legacy,
           pc \in YoungPC => cpc[s] \in YoungPC,
           cpc[s] \in StartedPC \/ vm'[s] = "live" => pc \in StartedPC,
           pc \in BootPC /\ s \notin expired => slot'[Owner[s]] = s,
           vm'[s] = "live" => slot'[Owner[s]] = s,
           \A t \in Ids \ {s} : /\ vm'[t] = "live" => Live(t)
                                /\ rec'[t] = rec[t]
                                /\ slot[Owner[t]] = t => slot'[Owner[t]] = t,
           pc \in YoungPC => rec'[s] \in {rec[s], CreatingRec},
           \A t \in Ids : Young(t) /\ (t = s => pc \in YoungPC) =>
               /\ \A q \in Procs : td'[q].id # t
               /\ \A x \in Ids : holder'[x] = t => rec'[t] # NoRec /\ cpc'[x] # "healLive",
           \A q \in Procs : td'[q].at = "finish" => vm'[td'[q].id] # "live"
    PROVE  SlotInv'
<1>1. \A t \in Ids : cpc'[t] = IF t = s THEN pc ELSE cpc[t]
    BY DEF GoCreate, TypeInv, TypeOK
<1>2. expired' \subseteq expired /\ (pc # "done" => expired' = expired)
      /\ \A t \in Ids \ {s} : t \in expired' <=> t \in expired
    BY DEF GoCreate
<1>3. YoungInv'
    <2> SUFFICES ASSUME NEW t \in Ids, Young(t)' PROVE Untouched(t)'
        BY DEF YoungInv
    <2>1. Young(t) /\ Untouched(t) /\ (t = s => pc \in YoungPC)
        BY <1>1, <1>2 DEF Young, SlotInv, YoungInv, YoungPC, BootPC
    <2>2. FreshRec(CreatingRec)
        BY DEF FreshRec, CreatingRec
    <2>3. FreshRec(rec'[t]) /\ FreshRec(rcSnap'[t])
        BY <2>1, <2>2 DEF Untouched, FreshRec
    <2>4. cpc'[t] = "idle" => rec'[t] = NoRec
        BY <1>1, <2>1 DEF Untouched
    <2>5. cpc'[t] \in BootPC => slot'[Owner[t]] = t
        BY <1>1, <2>1 DEF Untouched, Young
    <2>6. \A a \in Attachers : att'[a].id # t
        BY <2>1 DEF Untouched
    <2> QED BY <2>1, <2>3, <2>4, <2>5, <2>6 DEF Untouched, Exists, FreshRec
<1>4. IdleInv'
    BY <1>1, <1>2 DEF SlotInv, IdleInv
<1>5. StartedInv' /\ FinishInv' /\ LiveVMHoldsSlot'
    BY <1>1 DEF SlotInv, StartedInv, FinishInv, LiveVMHoldsSlot, Live
<1> QED BY <1>3, <1>4, <1>5 DEF SlotInv

(* The same for a step that touches nothing but the call itself. *)
LEMMA MoveKeeps ==
    ASSUME TypeInv, SlotInv, NEW s \in Ids, NEW pc \in CreatePC \ {"idle", "healLive"}, GoCreate(s, pc),
           UNCHANGED <<slot, rec, holder, td, rcSnap, att>>,
           s \notin Legacy,
           pc \in YoungPC => cpc[s] \in YoungPC,
           pc \in BootPC => cpc[s] \in BootPC,
           cpc[s] \in StartedPC => pc \in StartedPC,
           ~Live(s) \/ pc \in StartedPC,
           \A t \in Ids : vm'[t] = "live" => Live(t)
    PROVE  SlotInv'
<1>1. \A t \in Ids : cpc'[t] = IF t = s THEN pc ELSE cpc[t]
    BY DEF GoCreate, TypeInv, TypeOK
<1>2. pc \in BootPC /\ s \notin expired => slot'[Owner[s]] = s
    BY DEF SlotInv, YoungInv, Untouched, Young, YoungPC
<1>3. \A t \in Ids : Young(t) =>
          /\ \A q \in Procs : td'[q].id # t
          /\ \A x \in Ids : holder'[x] = t => rec'[t] # NoRec /\ cpc'[x] # "healLive"
    BY <1>1 DEF SlotInv, YoungInv, Untouched, Exists
<1>4. \A q \in Procs : td'[q].at = "finish" => vm'[td'[q].id] # "live"
    BY FrameOf DEF SlotInv, FinishInv, TypeInv, FrameAt, Live
<1>5. vm'[s] = "live" => slot'[Owner[s]] = s
    BY DEF SlotInv, LiveVMHoldsSlot, Live
<1> QED BY <1>2, <1>3, <1>4, <1>5, CreateKeeps

(* What the invariant says about a sandbox whose record is not fresh. *)
LEMMA HealedNotYoung ==
    ASSUME TypeInv, SlotInv, NEW t \in Ids, Young(t)
    PROVE  rec[t].st # "error" /\ ~Stale(rec[t]) /\ rcSnap[t].st # "error" /\ ~Stale(rcSnap[t])
<1>1. FreshRec(rec[t]) /\ FreshRec(rcSnap[t])
    BY DEF SlotInv, YoungInv, Untouched
<1> QED BY <1>1 DEF FreshRec, NoRec, Stale, IsActive

LEMMA CreateSlots ==
    ASSUME Orderly, TypeInv, SlotInv, NEW s \in Ids, CreateStep(s)
    PROVE  SlotInv'
<1> USE DEF TypeInv
<1>0. s \in Procs /\ cpc[s] # "idle" /\ s \notin Legacy
    BY DEF CreateStep, Reserve, HealSlot, HealGet, HealLive, FrameDone, EnsureDisk, MintEnrollToken,
           VMBoot, VMStart, Commit, FailPut, FailRelease, SlotInv, IdleInv, Procs
<1>a. cpc[s] \notin StartedPC => ~Live(s)
    BY <1>0 DEF SlotInv, StartedInv
<1>b. UNCHANGED <<rcSnap, att>>
    BY DEF CreateStep, Reserve, HealSlot, HealGet, HealLive, FrameDone, EnsureDisk, MintEnrollToken,
           VMBoot, VMStart, Commit, FailPut, FailRelease, createRest, rcVars
<1>c. \A t \in Ids : Young(t) =>
          /\ \A q \in Procs : td[q].id # t
          /\ \A x \in Ids : holder[x] = t => rec[t] # NoRec /\ cpc[x] # "healLive"
    BY DEF SlotInv, YoungInv, Untouched, Exists
<1>d. \A q \in Procs : td[q].at = "finish" => vm[td[q].id] # "live"
    BY DEF SlotInv, FinishInv, Live
<1>e. \A pc : GoCreate(s, pc) => \A x \in Ids : cpc'[x] = IF x = s THEN pc ELSE cpc[x]
    BY DEF GoCreate, TypeOK
<1>1. CASE Reserve(s)
    <2>1. CASE UNCHANGED storeVars
        <3>1. PICK pc \in {"heal", "done"} : GoCreate(s, pc)
            BY <1>1, <2>1, OwnerAssumption, NoIdAssumption DEF Reserve, ReserveUserSlot, storeVars, TypeOK, StoreTypeOK
        <3> QED BY <1>0, <1>1, <1>a, <1>b, <2>1, <3>1, MoveKeeps
                DEF Reserve, storeVars, CreatePC, YoungPC, BootPC, StartedPC, Live
    <2>2. CASE ReserveUserSlot(s)
        <3>1. PICK pc \in {"disk", "heal", "done"} : GoCreate(s, pc)
            BY <1>1 DEF Reserve
        <3>2. slot'[Owner[s]] = s /\ rec'[s] = CreatingRec /\ CreatingRec # NoRec
            BY <2>2, OwnerAssumption DEF ReserveUserSlot, TypeOK, StoreTypeOK, CreatingRec, NoRec
        <3>3. \A t \in Ids \ {s} : rec'[t] = rec[t] /\ (slot[Owner[t]] = t => slot'[Owner[t]] = t)
            BY <2>2, OwnerAssumption, NoIdAssumption DEF ReserveUserSlot, TypeOK, StoreTypeOK
        <3>4. cpc[s] \in {"reserve", "retry"} /\ UNCHANGED <<holder, td, vm>>
            BY <1>1 DEF Reserve
        <3>5. \A t \in Ids : Young(t) =>
                 /\ \A q \in Procs : td'[q].id # t
                 /\ \A x \in Ids : holder'[x] = t => rec'[t] # NoRec /\ cpc'[x] # "healLive"
            BY <1>c, <1>e, <3>1, <3>2, <3>3, <3>4
        <3> QED BY <1>0, <1>a, <1>b, <1>d, <3>1, <3>2, <3>3, <3>4, <3>5, CreateKeeps
                DEF CreatePC, YoungPC, BootPC, StartedPC, Live
    <2> QED BY <1>1, <2>1, <2>2 DEF Reserve, WriteFails, storeVars
<1>2. CASE HealSlot(s)
    <2>1. PICK pc \in {"retry", "healGet"} : GoCreate(s, pc)
        BY <1>2 DEF HealSlot
    <2>2. \A t \in Ids : Young(t) /\ slot[Owner[s]] = t => rec[t] # NoRec
        BY NoIdAssumption, OwnerAssumption DEF StoreInv, HeldSlotHasRecord, Young, Exists
    <2>3. \A x \in Ids : holder'[x] = holder[x] \/ (x = s /\ holder'[x] = slot[Owner[s]])
        BY <1>2 DEF HealSlot, TypeOK
    <2>4. UNCHANGED <<slot, rec, td, vm>> /\ cpc[s] = "heal"
        BY <1>2 DEF HealSlot, storeVars
    <2>5. \A t \in Ids : Young(t) =>
             /\ \A q \in Procs : td'[q].id # t
             /\ \A x \in Ids : holder'[x] = t => rec'[t] # NoRec /\ cpc'[x] # "healLive"
        BY <1>c, <1>e, <2>1, <2>2, <2>3, <2>4
    <2> QED BY <1>0, <1>a, <1>b, <1>d, <2>1, <2>4, <2>5, CreateKeeps
            DEF CreatePC, YoungPC, BootPC, StartedPC, Live
<1>3. CASE HealGet(s) \/ HealLive(s)
    <2>1. UNCHANGED <<slot, rec, vm>> /\ cpc[s] \in {"healGet", "healLive"} /\ holder[s] \in Ids
        BY <1>3 DEF HealGet, HealLive, storeVars, TypeOK
    <2>2. CASE /\ ~Exists(holder[s]) \/ Stale(rec[holder[s]])
               /\ GoCreate(s, "healLive") /\ UNCHANGED <<holder, td>>
        <3>1. \A t \in Ids : Young(t) => t # holder[s]
            BY <1>0, <1>c, <2>2, HealedNotYoung DEF Exists
        <3>2. \A t \in Ids : Young(t) =>
                 /\ \A q \in Procs : td'[q].id # t
                 /\ \A x \in Ids : holder'[x] = t => rec'[t] # NoRec /\ cpc'[x] # "healLive"
            BY <1>c, <1>e, <2>1, <2>2, <3>1
        <3> QED BY <1>0, <1>a, <1>b, <1>d, <2>1, <2>2, <3>2, CreateKeeps
                DEF CreatePC, YoungPC, BootPC, StartedPC, Live
    <2>3. CASE \E pc \in {"healing", "retry"} : HealEnds(s, pc)
        <3>1. PICK pc \in {"healing", "retry"} : HealEnds(s, pc)
            BY <2>3
        <3>2. \A x \in Ids : holder'[x] = IF x = s THEN NoId ELSE holder[x]
            BY <3>1 DEF HealEnds, TypeOK
        <3>3. \A q \in Procs : \/ td'[q] = td[q]
                               \/ q = s /\ td'[q].id = holder[s] /\ td'[q].at # "finish"
                                  /\ \A t \in Ids : Young(t) => t # holder[s]
            <4>1. UNCHANGED td \/ \E f : /\ SetFrame(s, f) /\ f.id = holder[s] /\ f.at # "finish"
                                         /\ ((HealGet(s) /\ rec[holder[s]].st = "error") \/ HealLive(s))
                BY <1>3 DEF HealGet, HealLive, NewFrame
            <4>2. \A t \in Ids : Young(t) /\ (rec[t].st = "error" \/ cpc[s] = "healLive") => t # holder[s]
                BY <1>c, HealedNotYoung
            <4> QED BY <1>0, <4>1, <4>2, TdSet DEF HealLive
        <3>4. \A t \in Ids : Young(t) =>
                 /\ \A q \in Procs : td'[q].id # t
                 /\ \A x \in Ids : holder'[x] = t => rec'[t] # NoRec /\ cpc'[x] # "healLive"
            BY <1>c, <1>e, <2>1, <3>1, <3>2, <3>3, NoIdAssumption DEF HealEnds
        <3>5. \A q \in Procs : td'[q].at = "finish" => vm'[td'[q].id] # "live"
            BY <1>d, <2>1, <3>3
        <3> QED BY <1>0, <1>a, <1>b, <2>1, <3>1, <3>4, <3>5, CreateKeeps
                DEF CreatePC, YoungPC, BootPC, StartedPC, Live, HealEnds
    <2> QED BY <1>3, <2>2, <2>3 DEF HealGet, HealLive
<1>4. CASE FrameDone(s)
    BY <1>0, <1>4, <1>a, <1>b, MoveKeeps DEF FrameDone, storeVars, CreatePC, YoungPC, BootPC, StartedPC, Live
<1>5. CASE EnsureDisk(s) \/ MintEnrollToken(s)
    <2>1. PICK pc \in {"mint", "boot", "failPut"} : GoCreate(s, pc)
        BY <1>5 DEF EnsureDisk, MintEnrollToken
    <2> QED BY <1>0, <1>5, <1>a, <1>b, <2>1, MoveKeeps
            DEF EnsureDisk, MintEnrollToken, storeVars, CreatePC, YoungPC, BootPC, StartedPC, Live
<1>6. CASE VMBoot(s)
    <2>1. PICK pc \in {"start", "failPut"} : GoCreate(s, pc)
        BY <1>6 DEF VMBoot
    <2>2. \A t \in Ids : vm'[t] = "live" => Live(t)
        BY <1>6 DEF VMBoot, Live, TypeOK
    <2> QED BY <1>0, <1>6, <1>a, <1>b, <2>1, <2>2, MoveKeeps
            DEF VMBoot, storeVars, CreatePC, YoungPC, BootPC, StartedPC
<1>7. CASE VMStart(s)
    <2>1. CASE GoCreate(s, "failPut")
        <3>1. \A t \in Ids : vm'[t] = "live" => Live(t)
            BY <1>7, <1>e, <2>1 DEF VMStart, Live, TypeOK, Orderly
        <3> QED BY <1>0, <1>7, <1>a, <1>b, <2>1, <3>1, MoveKeeps
                DEF VMStart, storeVars, CreatePC, YoungPC, BootPC, StartedPC
    <2>2. CASE CallOK(s) /\ vm' = [vm EXCEPT ![s] = "live"] /\ GoCreate(s, "commit")
        <3>1. Young(s) /\ cpc[s] = "start" /\ UNCHANGED <<slot, rec, holder, td>>
            BY <1>0, <1>7, <2>2 DEF VMStart, CallOK, CtxDone, Young, YoungPC, BootPC, storeVars
        <3>2. slot'[Owner[s]] = s /\ \A q \in Procs : td[q].id # s
            BY <3>1 DEF SlotInv, YoungInv, Untouched, BootPC
        <3>3. \A t \in Ids : vm'[t] = IF t = s THEN "live" ELSE vm[t]
            BY <2>2 DEF TypeOK
        <3>4. \A q \in Procs : td'[q].at = "finish" => vm'[td'[q].id] # "live"
            BY <1>d, <3>1, <3>2, <3>3, FrameOf DEF FrameAt
        <3>5. \A t \in Ids : Young(t) =>
                 /\ \A q \in Procs : td'[q].id # t
                 /\ \A x \in Ids : holder'[x] = t => rec'[t] # NoRec /\ cpc'[x] # "healLive"
            BY <1>c, <1>e, <2>2, <3>1
        <3> QED BY <1>0, <1>b, <2>2, <3>1, <3>2, <3>3, <3>4, <3>5, CreateKeeps
                DEF CreatePC, YoungPC, BootPC, StartedPC, Live
    <2> QED BY <1>7, <2>1, <2>2 DEF VMStart
<1>8. CASE Commit(s) \/ FailPut(s) \/ FailRelease(s)
    <2>1. PICK pc \in {"done", "undo", "failRelease"} : GoCreate(s, pc) /\ (cpc[s] = "commit" => pc \in StartedPC)
        BY <1>8 DEF Commit, FailPut, FailRelease, StartedPC
    <2>2. cpc[s] \in {"commit", "failPut", "failRelease"} /\ UNCHANGED <<holder, vm>>
        BY <1>8 DEF Commit, FailPut, FailRelease
    <2>3. \A t \in Ids \ {s} : rec'[t] = rec[t] /\ (slot[Owner[t]] = t => slot'[Owner[t]] = t)
        BY <1>8, OwnerAssumption DEF Commit, FailPut, FailRelease, PutRunning, Put, ReleaseUserSlot, WriteFails,
           storeVars, TypeOK, StoreTypeOK
    <2>4. cpc[s] = "commit" => UNCHANGED slot
        BY <1>8 DEF Commit, FailPut, FailRelease, PutRunning, WriteFails, storeVars
    <2>5. vm'[s] = "live" => slot'[Owner[s]] = s
        BY <1>a, <2>2, <2>4 DEF StartedPC, Live, SlotInv, LiveVMHoldsSlot
    <2>6. \A q \in Procs : td'[q] = td[q] \/ (td'[q].id = s /\ td'[q].at # "finish")
        <3>1. UNCHANGED td \/ \E f : SetFrame(s, f) /\ f.id = s /\ f.at # "finish"
            BY <1>8 DEF Commit, FailPut, FailRelease, NewFrame
        <3> QED BY <1>0, <3>1, TdSet
    <2>7. \A t \in Ids : Young(t) /\ t # s =>
             /\ \A q \in Procs : td'[q].id # t
             /\ \A x \in Ids : holder'[x] = t => rec'[t] # NoRec /\ cpc'[x] # "healLive"
        BY <1>c, <1>e, <2>1, <2>2, <2>3, <2>6
    <2>8. \A q \in Procs : td'[q].at = "finish" => vm'[td'[q].id] # "live"
        BY <1>d, <2>2, <2>6
    <2> QED BY <1>0, <1>a, <1>b, <2>1, <2>2, <2>3, <2>5, <2>7, <2>8, CreateKeeps
            DEF CreatePC, YoungPC, BootPC, StartedPC, Live
<1> QED BY <1>1, <1>2, <1>3, <1>4, <1>5, <1>6, <1>7, <1>8 DEF CreateStep

---------------------------------------------------------------------------
(* The other requests, the reconcile loop and the environment. *)

(* Work on a sandbox that is not that of a young call may start. *)
LEMMA WorkKeeps ==
    ASSUME TypeInv, SlotInv, NEW p \in Procs, NEW s \in Ids, NEW f, SetFrame(p, f),
           f.id = s, ~Young(s), f.at = "finish" => ~Live(s),
           UNCHANGED <<slot, rec, createVars, vm, att>>,
           \A t \in Ids : rcSnap'[t] \in {rcSnap[t], NoRec}
    PROVE  SlotInv'
<1>1. \A q \in Procs : td'[q] = IF q = p THEN f ELSE td[q]
    BY TdSet DEF TypeInv
<1>2. YoungInv'
    <2> SUFFICES ASSUME NEW t \in Ids, Young(t)' PROVE Untouched(t)'
        BY DEF YoungInv
    <2>1. Young(t) /\ Untouched(t)
        BY DEF Young, createVars, SlotInv, YoungInv
    <2> QED BY <1>1, <2>1 DEF Untouched, createVars, Exists, FreshRec
<1>3. IdleInv' /\ StartedInv' /\ LiveVMHoldsSlot'
    BY DEF SlotInv, IdleInv, StartedInv, LiveVMHoldsSlot, Live, createVars
<1>4. FinishInv'
    BY <1>1 DEF SlotInv, FinishInv, Live
<1> QED BY <1>2, <1>3, <1>4 DEF SlotInv

(* Records and snapshots of other sandboxes than the young ones may change, *)
(* and VMs may stop.                                                        *)
LEMMA RestKeeps ==
    ASSUME TypeInv, SlotInv,
           UNCHANGED <<slot, createVars, td>>,
           \A t \in Ids : vm'[t] = "live" => Live(t),
           \A t \in Ids : Young(t) => /\ rec'[t] = rec[t]
                                      /\ rcSnap'[t] \in {rcSnap[t], rec[t], NoRec}
                                      /\ \A a \in Attachers : att'[a].id # t
    PROVE  SlotInv'
<1>1. YoungInv'
    <2> SUFFICES ASSUME NEW t \in Ids, Young(t)' PROVE Untouched(t)'
        BY DEF YoungInv
    <2>1. Young(t) /\ Untouched(t)
        BY DEF Young, createVars, SlotInv, YoungInv
    <2> QED BY <2>1 DEF Untouched, createVars, Exists, FreshRec
<1>2. IdleInv' /\ StartedInv' /\ LiveVMHoldsSlot'
    BY DEF SlotInv, IdleInv, StartedInv, LiveVMHoldsSlot, Live, createVars
<1>3. FinishInv'
    <2> SUFFICES ASSUME NEW q \in Procs, td[q].at = "finish" PROVE vm'[td[q].id] # "live"
        BY DEF FinishInv, Live
    <2>1. td[q].id \in Ids
        BY FrameOf DEF TypeInv, FrameAt
    <2> QED BY <2>1 DEF SlotInv, FinishInv
<1> QED BY <1>1, <1>2, <1>3 DEF SlotInv

LEMMA RequestSlots ==
    ASSUME Orderly, TypeInv, SlotInv
    PROVE  /\ \A s \in Ids : CreateBegin(s) \/ Expire(s) => SlotInv'
           /\ \A d \in Deleters, s \in Ids : DeleteBegin(d, s) => SlotInv'
           /\ \A a \in Attachers : AttachPut(a) => SlotInv'
           /\ \A a \in Attachers, s \in Ids : AttachGet(a, s) => SlotInv'
<1> USE DEF TypeInv
<1>0. \A t \in Ids : Young(t) => \A a \in Attachers : att[a].id # t
    BY DEF SlotInv, YoungInv, Untouched
<1>1. ASSUME NEW s \in Ids, CreateBegin(s) PROVE SlotInv'
    <2>1. ~Live(s)
        BY <1>1 DEF CreateBegin, SlotInv, StartedInv, StartedPC
    <2> QED BY <1>1, <2>1, MoveKeeps DEF CreateBegin, createRest, rcVars, storeVars, CreatePC, YoungPC, BootPC, StartedPC, Live
<1>2. ASSUME NEW s \in Ids, Expire(s) PROVE SlotInv'
    <2>1. YoungInv'
        <3> SUFFICES ASSUME NEW t \in Ids, Young(t)' PROVE Untouched(t)'
            BY DEF YoungInv
        <3>1. Young(t) /\ Untouched(t)
            BY <1>2 DEF Young, Expire, SlotInv, YoungInv
        <3> QED BY <1>2, <3>1 DEF Untouched, Expire, createRest, rcVars, storeVars, Exists
    <2>2. IdleInv' /\ StartedInv' /\ FinishInv' /\ LiveVMHoldsSlot'
        BY <1>2 DEF Expire, InFlight, SlotInv, IdleInv, StartedInv, FinishInv, LiveVMHoldsSlot, Live, storeVars
    <2> QED BY <2>1, <2>2 DEF SlotInv
<1>3. ASSUME NEW d \in Deleters, NEW s \in Ids, DeleteBegin(d, s) PROVE SlotInv'
    <2>1. ~Young(s)
        BY <1>3 DEF DeleteBegin, Orderly, InFlight, Exists, SlotInv, YoungInv, Young, Untouched, YoungPC, BootPC
    <2>2. NewFrame("get", s, FALSE).id = s /\ NewFrame("get", s, FALSE).at # "finish" /\ d \in Procs
        BY DEF NewFrame, Procs
    <2> QED BY <1>3, <2>1, <2>2, WorkKeeps DEF DeleteBegin, storeVars, rcVars
<1>4. ASSUME NEW a \in Attachers, AttachPut(a) PROVE SlotInv'
    <2>1. \A t \in Ids : t # att[a].id => rec'[t] = rec[t]
        BY <1>4 DEF AttachPut, Put, storeVars, TypeOK, StoreTypeOK
    <2>2. NoAttach.id = NoId
        BY DEF NoAttach
    <2>3. \A b \in Attachers : att'[b].id \in {att[b].id, NoId}
        BY <1>4, <2>2 DEF AttachPut, TypeOK
    <2>4. UNCHANGED <<slot, createVars, td, rcVars, vm>>
        BY <1>4 DEF AttachPut, attachRest, Put, storeVars
    <2> QED BY <1>0, <2>1, <2>3, <2>4, NoIdAssumption, RestKeeps DEF rcVars, Live
<1>5. ASSUME NEW a \in Attachers, NEW s \in Ids, AttachGet(a, s) PROVE SlotInv'
    <2>1. ~Young(s)
        BY <1>5 DEF AttachGet, MayHaveBooted, Young, YoungPC, BootPC
    <2>2. \A b \in Attachers : att'[b].id \in {att[b].id, s}
        BY <1>5 DEF AttachGet, TypeOK
    <2> QED BY <1>0, <1>5, <2>1, <2>2, RestKeeps DEF AttachGet, attachRest, storeVars, rcVars, Live
<1> QED BY <1>1, <1>2, <1>3, <1>4, <1>5

LEMMA ReconcileSlots ==
    ASSUME TypeInv, SlotInv, ReconcileStep
    PROVE  SlotInv'
<1> USE DEF TypeInv
<1>0. \A t \in Ids : Young(t) => \A a \in Attachers : att[a].id # t
    BY DEF SlotInv, YoungInv, Untouched
<1>1. CASE ReconcileList \/ ReconcileListed \/ ReconcileProcessed \/ ReconcileSSH \/ SweepDone
    <2>1. UNCHANGED <<storeVars, createVars, td, vm, rcSnap, att>>
        BY <1>1 DEF ReconcileList, ReconcileListed, ReconcileProcessed, ReconcileSSH, SweepDone, reconcileRest
    <2> QED BY <1>0, <2>1, RestKeeps DEF storeVars, Live
<1>2. ASSUME NEW s \in Ids, ReconcileGet(s) PROVE SlotInv'
    <2>1. \A t \in Ids : rcSnap'[t] \in {rcSnap[t], rec[t]}
        BY <1>2 DEF ReconcileGet, TypeOK
    <2> QED BY <1>0, <1>2, <2>1, RestKeeps DEF ReconcileGet, reconcileRest, storeVars, Live
<1>3. ASSUME NEW s \in Ids, ReconcileOne(s) PROVE SlotInv'
    <2>1. \A t \in Ids : rcSnap'[t] \in {rcSnap[t], NoRec}
        BY <1>3 DEF ReconcileOne, TypeOK
    <2>2. UNCHANGED <<slot, rec, createVars, vm, att>> /\ Reconciler \in Procs
        BY <1>3 DEF ReconcileOne, reconcileRest, storeVars, Procs
    <2>3. CASE UNCHANGED td
        BY <1>0, <2>1, <2>2, <2>3, RestKeeps DEF Live
    <2>4. CASE td' # td
        <3>1. \E f : /\ SetFrame(Reconciler, f) /\ f.id = s
                     /\ rcSnap[s].st = "error" \/ Stale(rcSnap[s])
                     /\ f.at = "finish" => slot[Owner[s]] # s
            BY <1>3, <2>4 DEF ReconcileOne, StaleDead, NewFrame
        <3>2. ~Young(s)
            BY <3>1, HealedNotYoung
        <3>3. slot[Owner[s]] # s => ~Live(s)
            BY DEF SlotInv, LiveVMHoldsSlot
        <3> QED BY <2>1, <2>2, <3>1, <3>2, <3>3, WorkKeeps
    <2> QED BY <2>3, <2>4
<1>4. ASSUME NEW s \in Ids, CleanupStopped(s) PROVE SlotInv'
    <2>1. \A t \in Ids : vm'[t] = "live" => Live(t)
        BY <1>4 DEF CleanupStopped, Live, TypeOK
    <2> QED BY <1>0, <1>4, <2>1, RestKeeps DEF CleanupStopped, reconcileRest, storeVars, rcVars
<1> QED BY <1>1, <1>2, <1>3, <1>4 DEF ReconcileStep

LEMMA EnvironmentSlots ==
    ASSUME TypeInv, SlotInv
    PROVE  /\ \A s \in Ids : VMDies(s) \/ TimePasses(s) => SlotInv'
           /\ Crash => SlotInv'
<1> USE DEF TypeInv
<1>0. \A t \in Ids : Young(t) => \A a \in Attachers : att[a].id # t
    BY DEF SlotInv, YoungInv, Untouched
<1>1. ASSUME NEW s \in Ids, VMDies(s) PROVE SlotInv'
    <2>1. \A t \in Ids : vm'[t] = "live" => Live(t)
        BY <1>1 DEF VMDies, Live, TypeOK
    <2> QED BY <1>0, <1>1, <2>1, RestKeeps DEF VMDies, storeVars, rcVars
<1>2. ASSUME NEW s \in Ids, TimePasses(s) PROVE SlotInv'
    <2>1. ~Young(s)
        <3>1. rec[s] # NoRec
            BY <1>2 DEF TimePasses, Age, NoRec
        <3> QED BY <1>2, <3>1 DEF TimePasses, InFlight, SlotInv, YoungInv, Untouched, Young, YoungPC, BootPC
    <2>2. \A t \in Ids \ {s} : rec'[t] = rec[t]
        BY <1>2 DEF TimePasses, Age, TypeOK, StoreTypeOK
    <2> QED BY <1>0, <1>2, <2>1, <2>2, RestKeeps DEF TimePasses, Age, rcVars, Live
<1>3. ASSUME Crash PROVE SlotInv'
    <2>1. /\ \A p \in Procs : td'[p] = NoFrame
          /\ \A a \in Attachers : att'[a] = NoAttach
          /\ \A t \in Ids : holder'[t] = NoId /\ rcSnap'[t] = NoRec
          /\ \A t \in Ids : cpc'[t] = IF InFlight(t) THEN "done" ELSE cpc[t]
        BY <1>3 DEF Crash
    <2>2. NoFrame.id = NoId /\ NoFrame.at = "none" /\ NoAttach.id = NoId
        BY DEF NoFrame, NoAttach
    <2>3. UNCHANGED <<slot, rec, vm>> /\ expired' = {}
        BY <1>3 DEF Crash, storeVars
    <2>4. YoungInv'
        <3> SUFFICES ASSUME NEW t \in Ids, Young(t)' PROVE Untouched(t)'
            BY DEF YoungInv
        <3>1. cpc[t] = "idle" /\ cpc'[t] = "idle" /\ t \notin Legacy
            BY <2>1 DEF Young, InFlight, YoungPC, BootPC
        <3>2. rec[t] = NoRec
            BY <3>1 DEF SlotInv, IdleInv, YoungInv, Young, Untouched, YoungPC
        <3> QED BY <2>1, <2>2, <2>3, <3>1, <3>2, NoIdAssumption DEF Untouched, FreshRec, BootPC
    <2>5. IdleInv' /\ StartedInv'
        BY <2>1, <2>3 DEF SlotInv, IdleInv, StartedInv, InFlight, Live, StartedPC
    <2>6. FinishInv' /\ LiveVMHoldsSlot'
        BY <2>1, <2>2, <2>3 DEF SlotInv, FinishInv, LiveVMHoldsSlot, Live
    <2> QED BY <2>4, <2>5, <2>6 DEF SlotInv
<1> QED BY <1>1, <1>2, <1>3

---------------------------------------------------------------------------
(* The theorem and what follows from it. *)

LEMMA InitSlots == Init => SlotInv
<1> SUFFICES ASSUME Init PROVE SlotInv
    OBVIOUS
<1>1. NoFrame.id = NoId /\ NoFrame.at = "none" /\ NoAttach.id = NoId
    BY DEF NoFrame, NoAttach
<1>2. YoungInv
    BY <1>1, NoIdAssumption DEF Init, StoreInit, YoungInv, Untouched, FreshRec, BootPC
<1>3. \A s \in Ids : Live(s) => slot[Owner[s]] = s
    BY DEF Init, Live
<1>4. \A s \in Ids : slot[Owner[s]] = s => s \in Legacy
    BY NoIdAssumption, OwnerAssumption DEF Init, StoreInit, LegacyHolders
<1> QED BY <1>1, <1>2, <1>3, <1>4 DEF Init, SlotInv, IdleInv, StartedInv, FinishInv, LiveVMHoldsSlot

LEMMA StepSlots ==
    ASSUME Orderly, TypeInv, SlotInv, [Next]_vars
    PROVE  SlotInv'
<1>1. CASE UNCHANGED vars
    BY <1>1 DEF vars, storeVars, createVars, rcVars, SlotInv, YoungInv, IdleInv, StartedInv, FinishInv,
                LiveVMHoldsSlot, Young, Untouched, Exists, Live
<1>2. CASE Next
    BY <1>2, FrameSlots, CreateSlots, RequestSlots, ReconcileSlots, EnvironmentSlots DEF Next, Orderly
<1> QED BY <1>1, <1>2

(* While Orderly holds, a running VM holds its user's slot: no sequence of *)
(* timeouts, healing, deletes, reconcile passes, lost replies and restarts *)
(* frees a slot before finishTeardown knows that the VM is gone.           *)
THEOREM LiveVMAlwaysHoldsSlot == ASSUME Orderly PROVE Spec => []LiveVMHoldsSlot
<1>1. TypeInv /\ SlotInv /\ [Next]_vars => SlotInv'
    BY StepSlots
<1>2. SlotInv => LiveVMHoldsSlot
    BY DEF SlotInv
<1> QED BY <1>1, <1>2, InitSlots, TypesAlways, PTL DEF Spec

(* So no two VMs of a user ever run at the same time ...                   *)
THEOREM NeverASecondMounter == ASSUME Orderly PROVE Spec => []OneLiveVMPerUser
<1>1. LiveVMHoldsSlot => OneLiveVMPerUser
    BY DEF LiveVMHoldsSlot, OneLiveVMPerUser
<1> QED BY <1>1, LiveVMAlwaysHoldsSlot, PTL

(* ... and a running VM can always be found through its record.            *)
THEOREM NoVMIsLeaked == ASSUME Orderly PROVE Spec => []NoLeakedVM
<1>1. LiveVMHoldsSlot /\ HeldSlotHasRecord => NoLeakedVM
    BY NoIdAssumption, OwnerAssumption DEF LiveVMHoldsSlot, HeldSlotHasRecord, NoLeakedVM
<1> QED BY <1>1, LiveVMAlwaysHoldsSlot, ServiceKeepsSlots, PTL

(* ... and e2fsck and resize2fs of a Create that is in time only ever run  *)
(* on an image that no VM has mounted (userhome.go: "called before the VM  *)
(* attaches"): its slot has not been healed, and nobody else has a VM.     *)
THEOREM ResizesInTimeAreOffline == ASSUME Orderly PROVE Spec => []OfflineResizeInTime
<1>1. SlotInv => OfflineResizeInTime
    <2> SUFFICES ASSUME SlotInv, NEW s \in Ids, NEW t \in Ids, cpc[s] = "disk", s \notin expired, Live(t),
                        Owner[s] = Owner[t]
                 PROVE  FALSE
        BY DEF OfflineResizeInTime
    <2>1. s \notin Legacy /\ Young(s)
        BY DEF SlotInv, IdleInv, Young, YoungPC, BootPC
    <2>2. slot[Owner[s]] = s
        BY <2>1 DEF SlotInv, YoungInv, Untouched, BootPC
    <2>3. slot[Owner[t]] = t
        BY DEF SlotInv, LiveVMHoldsSlot
    <2> QED BY <2>1, <2>2, <2>3 DEF SlotInv, StartedInv, StartedPC
<1>2. TypeInv /\ SlotInv /\ [Next]_vars => SlotInv'
    BY StepSlots
<1> QED BY <1>1, <1>2, InitSlots, TypesAlways, PTL DEF Spec

---------------------------------------------------------------------------
(* What can undo a delete. *)

Back(s) == rec'[s].st \in {"creating", "running"}

LEMMA UndoneBy ==
    ASSUME TypeInv, [Next]_vars, NEW s \in Ids, Doomed(s), Back(s)
    PROVE  Reserve(s) \/ \E a \in Attachers : AttachPut(a) /\ att[a].id = s
<1>1. rec \in [Ids -> Record \cup {NoRec}] /\ ~(rec'[s] = rec[s])
    BY DEF TypeInv, TypeOK, StoreTypeOK, Doomed, Back, Exists, NoRec
<1>2. ASSUME NEW t \in Ids, NEW r, Put(t, r), r.st \in {"terminating", "error"} PROVE FALSE
    BY <1>1, <1>2 DEF Put, Back
<1>3. ASSUME NEW t \in Ids, PutRunning(t) PROVE FALSE
    BY <1>1, <1>3 DEF PutRunning, MayPutRunning, Doomed, Exists, NoRec
<1>4. ASSUME NEW t \in Ids, Delete(t) \/ ReleaseUserSlot(t) PROVE FALSE
    BY <1>1, <1>4 DEF Delete, ReleaseUserSlot, storeVars, Back, NoRec
<1>5. ASSUME NEW p \in Procs, FrameStep(p) PROVE FALSE
    <2>1. DeletePut(p) \/ TeardownPutError(p) \/ Finish(p)
        BY <1>1, <1>5 DEF FrameStep, DeleteGet, CloseSSH, VMDelete, VMIsLive, storeVars
    <2>2. td[p].id \in Ids
        BY <2>1, FrameOf DEF TypeInv, DeletePut, TeardownPutError, Finish, FrameAt
    <2> DEFINE r(st) == [st |-> st, old |-> FALSE, dev |-> td[p].dev]
    <2>3. Finish(p) \/ \E st \in {"terminating", "error"} : Put(td[p].id, r(st))
        BY <1>1, <2>1 DEF DeletePut, TeardownPutError, WriteFails, storeVars
    <2>4. ~Finish(p)
        BY <1>1, <1>4, <2>2 DEF Finish, Forget, storeVars
    <2> QED BY <1>2, <2>2, <2>3, <2>4
<1>6. ASSUME NEW t \in Ids, Reserve(t) PROVE Reserve(s)
    <2>1. CASE t = s
        BY <1>6, <2>1
    <2>2. CASE t # s
        BY <1>1, <1>6, <2>2 DEF Reserve, ReserveUserSlot, WriteFails, storeVars
    <2> QED BY <2>1, <2>2
<1>7. ASSUME NEW t \in Ids, Commit(t) PROVE FALSE
    BY <1>1, <1>3, <1>7 DEF Commit, WriteFails, storeVars
<1>8. ASSUME NEW t \in Ids, FailPut(t) PROVE FALSE
    <2>1. Put(t, ErrorRec)
        BY <1>1, <1>8 DEF FailPut, storeVars
    <2> QED BY <1>2, <2>1 DEF ErrorRec
<1>9. ASSUME NEW t \in Ids, FailRelease(t) PROVE FALSE
    BY <1>1, <1>4, <1>9 DEF FailRelease, storeVars
<1>10. ASSUME NEW a \in Attachers, AttachPut(a) PROVE att[a].id = s
    <2>1. \E r : Put(att[a].id, r)
        BY <1>1, <1>10 DEF AttachPut, storeVars
    <2> QED BY <1>1, <2>1 DEF Put
<1>11. ASSUME NEW t \in Ids, TimePasses(t) PROVE FALSE
    <2>1. rec' = [rec EXCEPT ![t].old = TRUE] /\ rec[t].st \in {"creating", "terminating", "error"}
        BY <1>11 DEF TimePasses, Age
    <2>2. t = s
        BY <1>1, <2>1
    <2>3. rec[s] \in Record
        BY <1>1, <2>1, <2>2 DEF NoRec
    <2>4. rec'[s] = [rec[s] EXCEPT !.old = TRUE]
        BY <1>1, <2>1, <2>2
    <2>5. rec'[s].st = rec[s].st
        BY <2>3, <2>4 DEF Record
    <2> QED BY <2>1, <2>2, <2>5 DEF Doomed, Back, Exists, NoRec
<1>12. ASSUME \/ \E t \in Ids : \/ CreateBegin(t) \/ Expire(t) \/ HealSlot(t) \/ HealGet(t) \/ HealLive(t) \/ FrameDone(t)
                                \/ EnsureDisk(t) \/ MintEnrollToken(t) \/ VMBoot(t) \/ VMStart(t) \/ VMDies(t)
              \/ \E d \in Deleters, t \in Ids : DeleteBegin(d, t)
              \/ \E p \in Purgers : PurgeStep(p) \/ \E u \in Users : PurgeScan(p, u)
              \/ \E a \in Attachers, t \in Ids : AttachGet(a, t)
              \/ ReconcileStep \/ Crash \/ UNCHANGED vars
       PROVE  UNCHANGED rec
    BY <1>12 DEF CreateBegin, Expire, HealSlot, HealGet, HealLive, FrameDone, EnsureDisk, MintEnrollToken, VMBoot, VMStart,
        VMDies, DeleteBegin, PurgeStep, PurgeDelete, PurgeIndexes, PurgeHome, PurgeScan, PurgeUserIndexes, AttachGet, attachRest,
        ReconcileStep, ReconcileList, ReconcileListed, ReconcileProcessed, ReconcileSSH, SweepDone, ReconcileGet, ReconcileOne,
        CleanupStopped, Crash, vars, storeVars
<1> QED BY <1>1, <1>5, <1>6, <1>7, <1>8, <1>9, <1>10, <1>11, <1>12 DEF Next, CreateStep

(* Whatever requests, timeouts, failures, lost replies and restarts there  *)
(* are, only two writes can bring a sandbox back that was marked or        *)
(* removed: AttachDevice's, of a record read before, and that of a Create  *)
(* which reserves its slot once more.  A late boot never does (PutRunning  *)
(* in store.go: "must not be undone by a late successful vm.Create").      *)
THEOREM LateBootUndoesNothing ==
    Spec => [][\A s \in Ids : Doomed(s) /\ rec'[s].st \in {"creating", "running"} =>
                  Reserve(s) \/ \E a \in Attachers : AttachPut(a) /\ att[a].id = s]_vars
<1>1. TypeInv /\ [Next]_vars => [\A s \in Ids : Doomed(s) /\ rec'[s].st \in {"creating", "running"} =>
          Reserve(s) \/ \E a \in Attachers : AttachPut(a) /\ att[a].id = s]_vars
    BY UndoneBy DEF Back
<1> QED BY <1>1, TypesAlways, PTL DEF Spec

---------------------------------------------------------------------------
(* A delete is final.  A Create call is early while it may still reserve.  *)

OneDeleter == DeleteInFlight => \A c, d \in Deleters : c = d

FirstPC == {"idle", "reserve"}
EarlyPC == FirstPC \cup {"heal", "healGet", "healLive", "healing", "retry"}
Early(s) == s \notin Legacy /\ s \notin expired /\ cpc[s] \in EarlyPC

(* A record of an early call comes from a reservation whose reply was lost. *)
(* It is neither an error nor old, and its slot is not free for a second    *)
(* reservation, also when Delete has marked it.                             *)
EarlyRec(r) == r = NoRec \/ (r.st \in {"creating", "terminating"} /\ ~r.old)
RecordFits(s) ==
    /\ EarlyRec(rec[s]) /\ EarlyRec(rcSnap[s])
    /\ Exists(s) => slot[Owner[s]] = s /\ cpc[s] \notin FirstPC

(* The frame of a Delete works on a record that is there; a healing call   *)
(* that found the sandbox in the slot has at most a slot to free, and only *)
(* once the record is gone.                                                *)
FrameFits(p, s) == td[p].id = s =>
    /\ cpc[s] \notin FirstPC
    /\ IF td[p].slotOnly THEN ~Exists(s) /\ td[p].at \in {"vmDelete", "isLive", "finish"}
                         ELSE DeleteInFlight /\ p \in Deleters /\ Exists(s) /\ td[p].at # "putError"
HealFits(t, s) == holder[t] = s =>
    /\ cpc[s] \notin FirstPC
    /\ cpc[t] = "healLive" => hsnap[t] = NoRec /\ ~Exists(s)

Fits(s) ==
    /\ RecordFits(s)
    /\ \A p \in Procs : FrameFits(p, s)
    /\ \A t \in Ids : HealFits(t, s)

EarlyInv == \A s \in Ids : Early(s) => Fits(s)
FinalInv == IdleInv /\ EarlyInv

LEMMA FinalInit == Init => FinalInv
<1> SUFFICES ASSUME Init PROVE FinalInv
    OBVIOUS
<1>1. NoFrame.id = NoId /\ NoId \notin Ids
    BY NoIdAssumption DEF NoFrame
<1> QED BY <1>1 DEF Init, StoreInit, FinalInv, IdleInv, EarlyInv, Fits, RecordFits, EarlyRec, FrameFits, HealFits, Exists

(* Which steps move a Create call. *)
LEMMA CallsMove ==
    ASSUME TypeInv, [Next]_vars, NEW s \in Ids
    PROVE  \/ cpc'[s] = cpc[s] /\ (s \in expired' <=> s \in expired)
           \/ CreateBegin(s) \/ CreateStep(s) \/ Expire(s) \/ Crash
<1> USE DEF TypeInv
<1>1. ASSUME NEW t \in Ids, t # s, NEW pc, GoCreate(t, pc) PROVE cpc'[s] = cpc[s] /\ (s \in expired' <=> s \in expired)
    BY <1>1 DEF GoCreate, TypeOK
<1>2. ASSUME NEW t \in Ids, t # s, CreateStep(t) \/ CreateBegin(t) PROVE \E pc \in CreatePC : GoCreate(t, pc)
    BY <1>2 DEF CreateStep, CreateBegin, Reserve, HealSlot, HealGet, HealLive, HealEnds, FrameDone, EnsureDisk, MintEnrollToken,
        VMBoot, VMStart, Commit, FailPut, FailRelease, CreatePC
<1>3. ASSUME NEW t \in Ids, t # s, Expire(t) PROVE cpc'[s] = cpc[s] /\ (s \in expired' <=> s \in expired)
    BY <1>3 DEF Expire
<1>4. ASSUME \/ \E p \in Procs : FrameStep(p)
             \/ \E t \in Ids : VMDies(t) \/ TimePasses(t)
             \/ \E d \in Deleters, t \in Ids : DeleteBegin(d, t)
             \/ ReconcileStep \/ UNCHANGED vars
      PROVE  UNCHANGED createVars
    BY <1>4 DEF FrameStep, DeleteGet, DeletePut, TeardownPutError, CloseSSH, VMDelete, VMIsLive, Finish, frameRest, VMDies, TimePasses,
        DeleteBegin, ReconcileStep, ReconcileList, ReconcileListed, ReconcileProcessed, ReconcileSSH, SweepDone, ReconcileGet,
        ReconcileOne, CleanupStopped, reconcileRest, vars
<1>5. ASSUME \E p \in Purgers : PurgeStep(p) \/ \E u \in Users : PurgeScan(p, u)
      PROVE  UNCHANGED createVars
    BY <1>5 DEF PurgeStep, PurgeDelete, PurgeIndexes, PurgeHome, PurgeScan, purgeRest
<1>6. ASSUME \E a \in Attachers : AttachPut(a) \/ \E t \in Ids : AttachGet(a, t)
      PROVE  UNCHANGED createVars
    BY <1>6 DEF AttachPut, AttachGet, attachRest
<1> QED BY <1>1, <1>2, <1>3, <1>4, <1>5, <1>6 DEF Next, createVars

LEMMA IdleStep == ASSUME TypeInv, IdleInv, [Next]_vars PROVE IdleInv'
<1> SUFFICES ASSUME NEW s \in Ids PROVE /\ s \in Legacy => cpc'[s] = "idle"
                                        /\ s \in expired' => cpc'[s] # "idle"
    BY DEF IdleInv
<1> USE DEF TypeInv, IdleInv
<1>1. CASE CreateBegin(s)
    BY <1>1 DEF CreateBegin, GoCreate, TypeOK
<1>2. CASE CreateStep(s)
    <2>1. cpc[s] # "idle" /\ \E pc \in CreatePC \ {"idle"} : GoCreate(s, pc)
        BY <1>2 DEF CreateStep, Reserve, HealSlot, HealGet, HealLive, HealEnds, FrameDone, EnsureDisk, MintEnrollToken,
            VMBoot, VMStart, Commit, FailPut, FailRelease, CreatePC
    <2> QED BY <2>1 DEF GoCreate, TypeOK
<1>3. CASE Expire(s)
    BY <1>3 DEF Expire, InFlight
<1>4. CASE Crash
    BY <1>4 DEF Crash, InFlight
<1> QED BY <1>1, <1>2, <1>3, <1>4, CallsMove

(* A call that is early was early before. *)
LEMMA EarlyBefore ==
    ASSUME TypeInv, IdleInv, [Next]_vars, NEW s \in Ids, Early(s)'
    PROVE  /\ Early(s)
           /\ cpc'[s] = cpc[s] \/ CreateBegin(s) \/ CreateStep(s)
           /\ cpc'[s] \in FirstPC => cpc[s] \in FirstPC
<1> USE DEF TypeInv, IdleInv, Early, EarlyPC, FirstPC
<1>1. CASE CreateBegin(s)
    BY <1>1 DEF CreateBegin, GoCreate, TypeOK
<1>2. CASE CreateStep(s)
    <2>1. CASE Reserve(s)
        BY <1>2, <2>1 DEF Reserve, GoCreate, TypeOK
    <2>2. CASE HealSlot(s)
        BY <1>2, <2>2 DEF HealSlot, GoCreate, TypeOK
    <2>3. CASE HealGet(s)
        BY <1>2, <2>3 DEF HealGet, GoCreate, TypeOK, HealEnds
    <2>4. CASE HealLive(s)
        BY <1>2, <2>4 DEF HealLive, GoCreate, TypeOK, HealEnds
    <2>5. CASE FrameDone(s)
        BY <1>2, <2>5 DEF FrameDone, GoCreate, TypeOK
    <2>6. CASE EnsureDisk(s)
        BY <1>2, <2>6 DEF EnsureDisk, GoCreate, TypeOK
    <2>7. CASE MintEnrollToken(s)
        BY <1>2, <2>7 DEF MintEnrollToken, GoCreate, TypeOK
    <2>8. CASE VMBoot(s)
        BY <1>2, <2>8 DEF VMBoot, GoCreate, TypeOK
    <2>9. CASE VMStart(s)
        BY <1>2, <2>9 DEF VMStart, GoCreate, TypeOK
    <2>10. CASE Commit(s)
        BY <1>2, <2>10 DEF Commit, GoCreate, TypeOK
    <2>11. CASE FailPut(s)
        BY <1>2, <2>11 DEF FailPut, GoCreate, TypeOK
    <2>12. CASE FailRelease(s)
        BY <1>2, <2>12 DEF FailRelease, GoCreate, TypeOK
    <2> QED BY <1>2, <2>1, <2>2, <2>3, <2>4, <2>5, <2>6, <2>7, <2>8, <2>9, <2>10, <2>11, <2>12 DEF CreateStep
<1>3. CASE Expire(s)
    BY <1>3 DEF Expire
<1>4. CASE Crash
    BY <1>4 DEF Crash, InFlight
<1> QED BY <1>1, <1>2, <1>3, <1>4, CallsMove

(* A step that writes neither the record of an early call nor its slot     *)
(* while it has one.                                                       *)
LEMMA EarlyKeeps ==
    ASSUME NEW s \in Ids, Fits(s),
           rec'[s] = rec[s],
           Exists(s) => slot'[Owner[s]] = slot[Owner[s]],
           cpc'[s] \in FirstPC => cpc[s] \in FirstPC,
           rcSnap'[s] \in {rcSnap[s], rec[s], NoRec},
           \A p \in Procs : td'[p] = td[p] \/ FrameFits(p, s)',
           \A t \in Ids : \/ holder'[t] = holder[t] /\ hsnap'[t] = hsnap[t] /\ (cpc'[t] = "healLive" => cpc[t] = "healLive")
                          \/ HealFits(t, s)'
    PROVE  Fits(s)'
<1>1. RecordFits(s)'
    BY DEF Fits, RecordFits, EarlyRec, Exists
<1>2. ASSUME NEW p \in Procs PROVE FrameFits(p, s)'
    BY DEF Fits, FrameFits, Exists
<1>3. ASSUME NEW t \in Ids PROVE HealFits(t, s)'
    BY DEF Fits, HealFits, Exists
<1> QED BY <1>1, <1>2, <1>3 DEF Fits

(* Where a step of a frame leads. *)
LEMMA FrameGoes ==
    ASSUME TypeOK, NEW p \in Procs, FrameStep(p)
    PROVE  /\ td[p].id \in Ids
           /\ \A q \in Procs \ {p} : td'[q] = td[q]
           /\ \/ td'[p].id = NoId
              \/ /\ td'[p].id = td[p].id
                 /\ td[p].at # "get" => td'[p].slotOnly = td[p].slotOnly
                 /\ td[p].at = "get" => ~td'[p].slotOnly /\ Exists(td[p].id)
                 /\ td[p].at # "finish" /\ td'[p].at \in {"put", "close", "vmDelete", "isLive", "finish"}
                 /\ td[p].at \in {"vmDelete", "isLive"} => td'[p].at \in {"isLive", "finish"}
<1>1. td[p] \in Frame /\ td[p].id \in Ids
    BY FrameOf DEF FrameStep, DeleteGet, DeletePut, TeardownPutError, CloseSSH, VMDelete, VMIsLive, Finish, FrameAt
<1>2. ASSUME NEW a \in FrameAt, GoFrame(p, a)
      PROVE  /\ \A q \in Procs \ {p} : td'[q] = td[q]
             /\ td'[p].id = td[p].id /\ td'[p].slotOnly = td[p].slotOnly /\ td'[p].at = a
    <2>1. td' = [td EXCEPT ![p] = [td[p] EXCEPT !.at = a]]
        BY <1>2 DEF GoFrame
    <2> DEFINE f == [td[p] EXCEPT !.at = a]
    <2>2. f.id = td[p].id /\ f.slotOnly = td[p].slotOnly /\ f.at = a
        BY <1>1 DEF Frame
    <2> HIDE DEF f
    <2> QED BY <2>1, <2>2 DEF TypeOK, f
<1>3. ASSUME EndFrame(p) \/ AbortFrame(p)
      PROVE  (\A q \in Procs \ {p} : td'[q] = td[q]) /\ td'[p].id = NoId
    BY <1>3, TdEnd
<1>4. CASE DeleteGet(p)
    <2> DEFINE f == NewFrame("put", td[p].id, rec[td[p].id].dev)
    <2>1. f.id = td[p].id /\ f.at = "put" /\ ~f.slotOnly
        BY DEF NewFrame
    <2> HIDE DEF f
    <2>2. ASSUME SetFrame(p, f) PROVE td'[p] = f /\ \A q \in Procs \ {p} : td'[q] = td[q]
        BY <2>2, TdSet
    <2> QED BY <1>1, <1>3, <1>4, <2>1, <2>2 DEF DeleteGet, f
<1>5. CASE DeletePut(p) \/ TeardownPutError(p) \/ CloseSSH(p)
    BY <1>1, <1>2, <1>3, <1>5 DEF DeletePut, TeardownPutError, CloseSSH, FrameAt
<1>6. CASE VMDelete(p) \/ VMIsLive(p) \/ Finish(p)
    BY <1>1, <1>2, <1>3, <1>6 DEF VMDelete, VMIsLive, Finish, FrameAt
<1> QED BY <1>4, <1>5, <1>6 DEF FrameStep

LEMMA FrameEarly ==
    ASSUME TypeInv, OneDeleter, FinalInv, NEW p \in Procs, FrameStep(p), NEW s \in Ids, Early(s)
    PROVE  Fits(s)'
<1> USE DEF TypeInv
<1>1. Fits(s)
    BY DEF FinalInv, EarlyInv
<1>2. UNCHANGED <<createVars, rcSnap>>
    BY DEF FrameStep, DeleteGet, DeletePut, TeardownPutError, CloseSSH, VMDelete, VMIsLive, Finish, frameRest, rcVars
<1>3. UNCHANGED <<cpc, holder, hsnap>>
    BY <1>2 DEF createVars
<1>4. UNCHANGED <<slot, rec>> \/ DeletePut(p) \/ TeardownPutError(p) \/ Finish(p)
    BY DEF FrameStep, DeleteGet, CloseSSH, VMDelete, VMIsLive, storeVars
<1>5. CASE td[p].id # s
    <2>1. \A q \in Procs : td'[q] = td[q] \/ td'[q].id # s
        BY <1>5, FrameGoes, NoIdAssumption
    <2>2. rec'[s] = rec[s] /\ (Exists(s) => slot'[Owner[s]] = slot[Owner[s]])
        <3>1. CASE DeletePut(p) \/ TeardownPutError(p)
            BY <1>5, <3>1, FrameGoes DEF DeletePut, TeardownPutError, WriteFails, Put, storeVars, TypeOK, StoreTypeOK
        <3>2. CASE Finish(p)
            <4>1. Exists(s) => slot[Owner[s]] = s
                BY <1>1 DEF Fits, RecordFits
            <4> QED BY <1>5, <3>2, <4>1, FrameGoes, OwnerAssumption
                    DEF Finish, Forget, Delete, ReleaseUserSlot, storeVars, TypeOK, StoreTypeOK
        <3> QED BY <1>4, <3>1, <3>2
    <2> QED BY <1>1, <1>2, <1>3, <2>1, <2>2, EarlyKeeps DEF FrameFits
<1>6. CASE td[p].id = s /\ td[p].slotOnly
    <2>1. cpc[s] \notin FirstPC /\ ~Exists(s) /\ td[p].at \in {"vmDelete", "isLive", "finish"}
        BY <1>1, <1>6 DEF Fits, FrameFits
    <2>2. rec' = rec
        BY <1>4, <1>6, <2>1 DEF DeletePut, TeardownPutError, Finish, Forget, ReleaseUserSlot, storeVars
    <2>3. FrameFits(p, s)'
        BY <1>3, <1>6, <2>1, <2>2, FrameGoes, NoIdAssumption DEF FrameFits, Exists
    <2> QED BY <1>1, <1>2, <1>3, <2>1, <2>2, <2>3, FrameGoes, EarlyKeeps
<1>7. CASE td[p].id = s /\ ~td[p].slotOnly
    <2>1. cpc[s] \notin FirstPC /\ Exists(s) /\ DeleteInFlight /\ p \in Deleters /\ td[p].at # "putError" /\ slot[Owner[s]] = s
        BY <1>1, <1>7 DEF Fits, FrameFits, RecordFits
    <2>2. \A q \in Procs \ {p} : td[q].id # s
        BY <1>1, <2>1 DEF Fits, FrameFits, OneDeleter
    <2>3. \A q \in Procs \ {p} : td'[q].id # s
        BY <2>2, FrameGoes
    <2>4. CASE UNCHANGED <<slot, rec>>
        <3>1. FrameFits(p, s)'
            BY <1>3, <1>7, <2>1, <2>4, FrameGoes, NoIdAssumption DEF FrameFits, Exists
        <3> QED BY <1>1, <1>2, <1>3, <2>4, <3>1, FrameGoes, EarlyKeeps
    <2>5. ASSUME NEW r, Put(s, r), r = [st |-> "terminating", old |-> FALSE, dev |-> td[p].dev], td[p].at = "put" PROVE Fits(s)'
        <3>1. rec'[s] = r /\ slot' = slot /\ r # NoRec /\ EarlyRec(r)
            BY <2>5 DEF Put, TypeOK, StoreTypeOK, NoRec, EarlyRec
        <3>2. RecordFits(s)'
            BY <1>1, <1>2, <1>3, <2>1, <3>1 DEF Fits, RecordFits, Exists, EarlyRec
        <3>3. FrameFits(p, s)'
            BY <1>3, <1>7, <2>1, <2>5, <3>1, FrameGoes, NoIdAssumption DEF FrameFits, Exists
        <3>4. \A t \in Ids : HealFits(t, s)'
            BY <1>1, <1>3, <2>1 DEF Fits, HealFits
        <3> QED BY <2>3, <3>2, <3>3, <3>4 DEF Fits, FrameFits
    <2>6. CASE DeletePut(p)
        BY <1>7, <2>4, <2>5, <2>6 DEF DeletePut, WriteFails, storeVars
    <2>7. ASSUME Delete(s), td[p].at = "finish" PROVE Fits(s)'
        <3>1. rec'[s] = NoRec
            BY <2>1, <2>7 DEF Delete, TypeOK, StoreTypeOK
        <3>2. td'[p].id # s
            BY <2>7, FrameGoes, NoIdAssumption
        <3>3. RecordFits(s)'
            BY <1>1, <1>2, <3>1 DEF Fits, RecordFits, Exists, EarlyRec
        <3>4. \A t \in Ids : HealFits(t, s)'
            BY <1>1, <1>3, <2>1 DEF Fits, HealFits
        <3> QED BY <2>3, <3>2, <3>3, <3>4 DEF Fits, FrameFits
    <2>8. CASE Finish(p)
        BY <1>7, <2>4, <2>7, <2>8 DEF Finish, Forget, storeVars
    <2> QED BY <1>4, <2>1, <2>4, <2>6, <2>8 DEF TeardownPutError
<1> QED BY <1>5, <1>6, <1>7

LEMMA CreateEarly ==
    ASSUME TypeInv, FinalInv, NEW t \in Ids, CreateBegin(t) \/ CreateStep(t), NEW s \in Ids, Early(s), Early(s)',
           cpc'[s] \in FirstPC => cpc[s] \in FirstPC
    PROVE  Fits(s)'
<1> USE DEF TypeInv
<1>1. Fits(s) /\ cpc'[s] \in EarlyPC /\ s \notin Legacy
    BY DEF FinalInv, EarlyInv, Early
<1>2. rcSnap' = rcSnap
    BY DEF CreateBegin, CreateStep, Reserve, HealSlot, HealGet, HealLive, FrameDone, EnsureDisk, MintEnrollToken,
           VMBoot, VMStart, Commit, FailPut, FailRelease, createRest, rcVars
<1>3. ASSUME NEW pc, GoCreate(t, pc)
      PROVE  cpc'[t] = pc /\ \A x \in Ids \ {t} : cpc'[x] = cpc[x]
    BY <1>3 DEF GoCreate, TypeOK
<1>4. ASSUME NEW pc \in CreatePC \ {"healLive"}, GoCreate(t, pc), UNCHANGED <<holder, hsnap, td>>, rec'[s] = rec[s],
             Exists(s) => slot'[Owner[s]] = slot[Owner[s]]
      PROVE  Fits(s)'
    <2>1. \A x \in Ids : cpc'[x] = "healLive" => cpc[x] = "healLive"
        BY <1>3, <1>4
    <2> QED BY <1>1, <1>2, <1>4, <2>1, EarlyKeeps
<1>5. Exists(s) => slot[Owner[s]] = s
    BY <1>1 DEF Fits, RecordFits
<1>6. CASE CreateBegin(t)
    BY <1>4, <1>6 DEF CreateBegin, storeVars, CreatePC
<1>7. CASE Reserve(t)
    <2>1. CASE UNCHANGED storeVars
        <3>1. \E pc \in {"disk", "heal", "done"} : GoCreate(t, pc)
            BY <1>7 DEF Reserve
        <3> QED BY <1>4, <1>7, <2>1, <3>1 DEF Reserve, storeVars, CreatePC
    <2>2. CASE ReserveUserSlot(t) /\ t # s
        <3>1. \E pc \in {"disk", "heal", "done"} : GoCreate(t, pc)
            BY <1>7 DEF Reserve
        <3>2. rec'[s] = rec[s] /\ (Exists(s) => slot'[Owner[s]] = slot[Owner[s]])
            BY <1>5, <2>2, NoIdAssumption, OwnerAssumption DEF ReserveUserSlot, TypeOK, StoreTypeOK
        <3> QED BY <1>4, <1>7, <3>1, <3>2 DEF Reserve, CreatePC
    <2>3. CASE ReserveUserSlot(t) /\ t = s
        <3>0. ~GoCreate(s, "disk") /\ ~GoCreate(s, "done") /\ (GoCreate(s, "heal") => cpc'[s] = "heal")
            BY <1>1, <1>3, <2>3 DEF EarlyPC, FirstPC
        <3>1. cpc[s] = "reserve" /\ GoCreate(s, "heal")
            BY <1>7, <2>3, <3>0 DEF Reserve, ReserveUserSlot
        <3>2. (\A p \in Procs : td[p].id # s) /\ \A x \in Ids : holder[x] # s
            BY <1>1, <3>1 DEF Fits, FrameFits, HealFits, FirstPC
        <3>3. rec'[s] = CreatingRec /\ slot'[Owner[s]] = s
            BY <2>3, OwnerAssumption DEF ReserveUserSlot, TypeOK, StoreTypeOK
        <3>4. cpc'[s] \notin FirstPC
            BY <3>0, <3>1 DEF FirstPC
        <3>5. EarlyRec(CreatingRec)
            BY DEF EarlyRec, CreatingRec
        <3>6. RecordFits(s)'
            BY <1>1, <1>2, <3>3, <3>4, <3>5 DEF Fits, RecordFits, EarlyRec
        <3> QED BY <1>7, <3>2, <3>6 DEF Reserve, Fits, FrameFits, HealFits
    <2> QED BY <1>7, <2>1, <2>2, <2>3 DEF Reserve, WriteFails
<1>8. CASE HealSlot(t)
    <2>1. cpc'[t] # "healLive" /\ \A x \in Ids \ {t} : cpc'[x] = cpc[x]
        BY <1>3, <1>8 DEF HealSlot
    <2>2. holder'[t] \in {holder[t], slot[Owner[t]]} /\ \A x \in Ids \ {t} : holder'[x] = holder[x]
        BY <1>8 DEF HealSlot, TypeOK
    <2>3. UNCHANGED <<storeVars, hsnap, td>>
        BY <1>8 DEF HealSlot
    <2>4. ASSUME slot[Owner[t]] = s PROVE cpc[s] \notin FirstPC
        <3>1. Exists(s)
            BY <1>1, <2>4, NoIdAssumption, OwnerAssumption DEF StoreInv, HeldSlotHasRecord
        <3> QED BY <1>1, <3>1 DEF Fits, RecordFits
    <2>5. HealFits(t, s)'
        BY <1>1, <2>1, <2>2, <2>4 DEF HealFits, Fits
    <2> QED BY <1>1, <1>2, <2>1, <2>2, <2>3, <2>5, EarlyKeeps DEF storeVars
<1>9. CASE HealGet(t)
    <2>1. UNCHANGED storeVars /\ \A x \in Ids \ {t} : cpc'[x] = cpc[x]
        BY <1>3, <1>9 DEF HealGet, HealEnds
    <2>2. \A x \in Ids \ {t} : holder'[x] = holder[x] /\ hsnap'[x] = hsnap[x]
        BY <1>9 DEF HealGet, HealEnds, TypeOK
    <2>3. rec[s].st # "error" /\ (Exists(s) => ~Stale(rec[s]))
        BY <1>1 DEF Fits, RecordFits, EarlyRec, Stale, IsActive, NoRec
    <2>4. \A p \in Procs : td'[p] = td[p] \/ td'[p].id # s
        <3> DEFINE f == NewFrame("get", holder[t], FALSE)
        <3>1. f.id = holder[t] /\ t \in Procs
            BY DEF NewFrame, Procs
        <3> HIDE DEF f
        <3>2. UNCHANGED td \/ (SetFrame(t, f) /\ holder[t] # s)
            BY <1>9, <2>3 DEF HealGet, f
        <3> QED BY <3>1, <3>2, TdSet
    <2>5. HealFits(t, s)'
        <3>1. CASE HealEnds(t, "healing") \/ HealEnds(t, "retry")
            <4>1. holder'[t] = NoId
                BY <3>1 DEF HealEnds, TypeOK
            <4> QED BY <4>1, NoIdAssumption DEF HealFits
        <3>2. CASE hsnap' = [hsnap EXCEPT ![t] = rec[holder[t]]] /\ holder' = holder /\ (~Exists(holder[t]) \/ Stale(rec[holder[t]]))
            <4>1. holder[t] = s => ~Exists(s) /\ hsnap'[t] = NoRec
                BY <2>3, <3>2 DEF Exists, TypeOK
            <4> QED BY <1>1, <2>1, <3>2, <4>1 DEF HealFits, Fits, Exists, storeVars
        <3> QED BY <1>9, <3>1, <3>2 DEF HealGet
    <2> QED BY <1>1, <1>2, <2>1, <2>2, <2>4, <2>5, EarlyKeeps DEF storeVars, FrameFits
<1>10. CASE HealLive(t)
    <2>1. UNCHANGED storeVars /\ \A x \in Ids \ {t} : cpc'[x] = cpc[x]
        BY <1>3, <1>10 DEF HealLive, HealEnds
    <2>2. \A x \in Ids \ {t} : holder'[x] = holder[x] /\ hsnap'[x] = hsnap[x]
        BY <1>10 DEF HealLive, HealEnds, TypeOK
    <2>3. holder'[t] = NoId
        BY <1>10 DEF HealLive, HealEnds, TypeOK
    <2>4. holder[t] = s => hsnap[t] = NoRec /\ ~Exists(s) /\ cpc[s] \notin FirstPC
        BY <1>1, <1>10 DEF HealLive, Fits, HealFits
    <2>5. \A p \in Procs : td'[p] = td[p] \/ FrameFits(p, s)'
        <3> DEFINE g == [NewFrame("vmDelete", holder[t], FALSE) EXCEPT !.slotOnly = TRUE]
                   f == IF hsnap[t] = NoRec THEN g ELSE NewFrame("putError", holder[t], hsnap[t].dev)
        <3>1. f.id = holder[t] /\ (hsnap[t] = NoRec => f.slotOnly /\ f.at = "vmDelete") /\ t \in Procs
            BY DEF NewFrame, Procs
        <3>2. UNCHANGED td \/ SetFrame(t, f)
            BY <1>10 DEF HealLive
        <3> HIDE DEF f
        <3>3. ASSUME SetFrame(t, f) PROVE FrameFits(t, s)' /\ \A p \in Procs \ {t} : td'[p] = td[p]
            BY <2>1, <2>4, <3>1, <3>3, TdSet DEF FrameFits, Exists, storeVars
        <3> QED BY <3>2, <3>3
    <2> QED BY <1>1, <1>2, <2>1, <2>2, <2>3, <2>5, EarlyKeeps, NoIdAssumption DEF storeVars, HealFits
<1>11. CASE FrameDone(t) \/ EnsureDisk(t) \/ MintEnrollToken(t) \/ VMBoot(t) \/ VMStart(t)
    <2>1. \E pc \in {"retry", "done", "mint", "failPut", "boot", "start", "commit"} : GoCreate(t, pc)
        BY <1>11 DEF FrameDone, EnsureDisk, MintEnrollToken, VMBoot, VMStart
    <2>2. UNCHANGED <<storeVars, holder, hsnap, td>>
        BY <1>11 DEF FrameDone, EnsureDisk, MintEnrollToken, VMBoot, VMStart
    <2> QED BY <1>4, <2>1, <2>2 DEF storeVars, CreatePC
<1>12. CASE Commit(t) \/ FailPut(t) \/ FailRelease(t)
    <2>1. \E pc \in {"done", "undo", "failRelease"} : GoCreate(t, pc)
        BY <1>12 DEF Commit, FailPut, FailRelease
    <2>2. t # s /\ \A x \in Ids : cpc'[x] = "healLive" => cpc[x] = "healLive"
        BY <1>1, <1>3, <2>1 DEF EarlyPC, FirstPC
    <2>3. UNCHANGED <<holder, hsnap>>
        BY <1>12 DEF Commit, FailPut, FailRelease
    <2>4. \A p \in Procs : td'[p] = td[p] \/ td'[p].id # s
        <3> DEFINE f == NewFrame("vmDelete", t, FALSE)
        <3>1. f.id = t /\ t \in Procs
            BY DEF NewFrame, Procs
        <3> HIDE DEF f
        <3>2. UNCHANGED td \/ SetFrame(t, f)
            BY <1>12 DEF Commit, FailPut, FailRelease, f
        <3> QED BY <2>2, <3>1, <3>2, TdSet
    <2>5. rec'[s] = rec[s] /\ (Exists(s) => slot'[Owner[s]] = slot[Owner[s]])
        BY <1>5, <1>12, <2>2, OwnerAssumption
           DEF Commit, FailPut, FailRelease, WriteFails, PutRunning, Put, ReleaseUserSlot, storeVars, TypeOK, StoreTypeOK
    <2> QED BY <1>1, <1>2, <2>2, <2>3, <2>4, <2>5, EarlyKeeps DEF FrameFits
<1> QED BY <1>6, <1>7, <1>8, <1>9, <1>10, <1>11, <1>12 DEF CreateStep

LEMMA OtherEarly ==
    ASSUME TypeInv, OneDeleter, Attachers = {}, Purgers = {}, FinalInv, [Next]_vars, NEW s \in Ids, Early(s), Early(s)',
           cpc'[s] \in FirstPC => cpc[s] \in FirstPC
    PROVE  Fits(s)'
<1> USE DEF TypeInv
<1>1. Fits(s) /\ RecordFits(s)
    BY DEF FinalInv, EarlyInv, Fits
<1>2. ASSUME NEW p \in Procs, FrameStep(p) PROVE Fits(s)'
    BY <1>2, FrameEarly
<1>3. ASSUME NEW t \in Ids, CreateBegin(t) \/ CreateStep(t) PROVE Fits(s)'
    BY <1>3, CreateEarly
<1>4. CASE UNCHANGED <<rec, slot, holder, hsnap, td, rcSnap>> /\ \A x \in Ids : cpc'[x] = cpc[x]
    BY <1>1, <1>4, EarlyKeeps
<1>5. ASSUME \/ \E t \in Ids : Expire(t) \/ VMDies(t) \/ CleanupStopped(t)
             \/ ReconcileList \/ ReconcileListed \/ ReconcileProcessed \/ ReconcileSSH \/ SweepDone
             \/ UNCHANGED vars
      PROVE  Fits(s)'
    BY <1>4, <1>5 DEF Expire, VMDies, CleanupStopped, ReconcileList, ReconcileListed, ReconcileProcessed, ReconcileSSH,
        SweepDone, reconcileRest, createRest, createVars, storeVars, rcVars, vars
<1>6. ASSUME NEW t \in Ids, TimePasses(t) PROVE Fits(s)'
    <2>1. t # s
        BY <1>1, <1>6 DEF TimePasses, Age, RecordFits, Exists, NoRec, InFlight, Early, EarlyPC, FirstPC
    <2>2. rec'[s] = rec[s]
        BY <1>6, <2>1 DEF TimePasses, Age, TypeOK, StoreTypeOK
    <2>3. UNCHANGED <<slot, holder, hsnap, td, rcSnap, cpc>>
        BY <1>6 DEF TimePasses, Age, createVars, rcVars
    <2> QED BY <1>1, <2>2, <2>3, EarlyKeeps
<1>7. ASSUME NEW d \in Deleters, NEW t \in Ids, DeleteBegin(d, t) PROVE Fits(s)'
    <2> DEFINE f == NewFrame("get", t, FALSE)
    <2>1. f.id = t /\ f.at = "get" /\ ~f.slotOnly /\ d \in Procs
        BY DEF NewFrame, Procs
    <2> HIDE DEF f
    <2>2. \A q \in Procs : td'[q] = IF q = d THEN f ELSE td[q]
        BY <1>7, <2>1, TdSet DEF DeleteBegin, f
    <2>3. UNCHANGED <<rec, slot, holder, hsnap, rcSnap, cpc>> /\ Exists(t) /\ (InFlight(t) => DeleteInFlight)
        BY <1>7 DEF DeleteBegin, storeVars, createVars, rcVars
    <2>4. FrameFits(d, s)'
        BY <1>1, <2>1, <2>2, <2>3 DEF FrameFits, RecordFits, Exists, InFlight, Early, EarlyPC, FirstPC
    <2> QED BY <1>1, <2>2, <2>3, <2>4, EarlyKeeps
<1>8. ASSUME NEW t \in Ids, ReconcileGet(t) PROVE Fits(s)'
    <2>1. rcSnap'[s] \in {rcSnap[s], rec[s]}
        BY <1>8 DEF ReconcileGet, TypeOK
    <2>2. UNCHANGED <<rec, slot, holder, hsnap, td, cpc>>
        BY <1>8 DEF ReconcileGet, reconcileRest, storeVars, createVars
    <2> QED BY <1>1, <2>1, <2>2, EarlyKeeps
<1>9. ASSUME NEW t \in Ids, ReconcileOne(t) PROVE Fits(s)'
    <2>1. rcSnap'[s] \in {rcSnap[s], NoRec}
        BY <1>9 DEF ReconcileOne, TypeOK
    <2>2. UNCHANGED <<rec, slot, holder, hsnap, cpc>> /\ Reconciler \in Procs
        BY <1>9 DEF ReconcileOne, reconcileRest, storeVars, createVars, Procs
    <2>3. rcSnap[s].st # "error" /\ ~Stale(rcSnap[s])
        BY <1>1 DEF RecordFits, EarlyRec, Stale, IsActive, NoRec
    <2>4. UNCHANGED td \/ (t # s /\ \E f : SetFrame(Reconciler, f) /\ f.id = t)
        BY <1>9, <2>3 DEF ReconcileOne, StaleDead, NewFrame
    <2>5. \A p \in Procs : td'[p] = td[p] \/ td'[p].id # s
        BY <2>2, <2>4, TdSet
    <2> QED BY <1>1, <2>1, <2>2, <2>5, EarlyKeeps DEF FrameFits
<1>10. CASE Crash
    <2>1. cpc[s] = "idle"
        BY <1>10 DEF Crash, InFlight, Early, EarlyPC, FirstPC
    <2>2. /\ \A p \in Procs : td'[p] = NoFrame
          /\ \A x \in Ids : holder'[x] = NoId
          /\ rcSnap'[s] = NoRec /\ UNCHANGED <<rec, slot>>
        BY <1>10 DEF Crash, storeVars
    <2>3. NoFrame.id # s
        BY NoIdAssumption DEF NoFrame
    <2>4. ~Exists(s)
        BY <1>1, <2>1 DEF RecordFits, FirstPC
    <2> QED BY <2>2, <2>3, <2>4, NoIdAssumption DEF Fits, RecordFits, EarlyRec, FrameFits, HealFits, Exists
<1>11. ~(\E p \in Purgers : PurgeStep(p) \/ \E u \in Users : PurgeScan(p, u))
      /\ ~(\E a \in Attachers : AttachPut(a) \/ \E t \in Ids : AttachGet(a, t))
    OBVIOUS
<1> QED BY <1>2, <1>3, <1>5, <1>6, <1>7, <1>8, <1>9, <1>10, <1>11 DEF Next, ReconcileStep

LEMMA FinalStep ==
    ASSUME TypeInv, OneDeleter, Attachers = {}, Purgers = {}, FinalInv, [Next]_vars
    PROVE  FinalInv'
<1>1. IdleInv'
    BY IdleStep DEF FinalInv
<1>2. ASSUME NEW s \in Ids, Early(s)' PROVE Fits(s)'
    <2>1. Early(s) /\ (cpc'[s] \in FirstPC => cpc[s] \in FirstPC)
        BY <1>2, EarlyBefore DEF FinalInv
    <2> QED BY <1>2, <2>1, OtherEarly
<1> QED BY <1>1, <1>2 DEF FinalInv, EarlyInv

(* A delete is final (service.go): no Create that is late or that repeats  *)
(* its reservation after a lost reply, no healing, reconcile pass or       *)
(* restart brings a record back that Delete or a teardown marked or        *)
(* removed, even while the Create is in flight.  Two clients that delete   *)
(* the same starting sandbox, DeleteUserData, and AttachDevice with its    *)
(* write-back of an old copy are excluded.                                 *)
THEOREM DeletesStayFinal ==
    ASSUME OneDeleter, Attachers = {}, Purgers = {} PROVE Spec => DeleteNeverUndone
<1>1. ASSUME TypeInv, FinalInv, NEW s \in Ids, Doomed(s), Reserve(s) PROVE rec'[s].st \notin {"creating", "running"}
    <2>1. CASE UNCHANGED rec
        BY <1>1, <2>1 DEF Doomed, Exists, NoRec
    <2>2. CASE ReserveUserSlot(s) /\ ~CtxDone(s) /\ cpc[s] \in {"reserve", "retry"}
        <3>1. Early(s)
            BY <1>1, <2>2 DEF CtxDone, FinalInv, IdleInv, Early, EarlyPC, FirstPC
        <3>2. Exists(s) => slot[Owner[s]] = s
            BY <1>1, <3>1 DEF FinalInv, EarlyInv, Fits, RecordFits
        <3> QED BY <1>1, <2>2, <3>2, NoIdAssumption DEF Doomed, Exists, NoRec, ReserveUserSlot
    <2> QED BY <1>1, <2>1, <2>2 DEF Reserve, CallOK, WriteFails, storeVars
<1>2. TypeInv /\ FinalInv /\ [Next]_vars =>
          [\A s \in Ids : Doomed(s) => rec'[s].st \notin {"creating", "running"}]_vars
    BY <1>1, UndoneBy DEF Back
<1>3. TypeInv /\ FinalInv /\ [Next]_vars => FinalInv'
    BY FinalStep
<1> QED BY <1>2, <1>3, FinalInit, TypesAlways, PTL DEF Spec, DeleteNeverUndone
=============================================================================
