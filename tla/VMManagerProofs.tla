-------------------------- MODULE VMManagerProofs -------------------------
(* Proofs about VMManager, for any number of Creates, failed calls and     *)
(* restarts: its types, the shared unpack, and the resources on the host.  *)
EXTENDS VMManager, TLAPS

---------------------------------------------------------------------------
(* Types. *)

Numbers == faults \in 0..MaxFaults /\ crashes \in 0..MaxCrashes
Subsets == expired \subseteq Ids /\ unreleased \subseteq Ids
Flags   == unpacked \in BOOLEAN /\ unpacking \in BOOLEAN
CreateType == pc \in [Ids -> CreatePC]
HeldType   == held \in [Ids -> SUBSET Resource]
TaskType   == task \in [Ids -> {"none", "created", "running", "stopped"}]
RecType    == rec \in [Ids -> Record]
DelType    == del \in [Callers -> Frame \cup {NoFrame}]

LEMMA TypeParts ==
    TypeOK <=> Numbers /\ Subsets /\ Flags /\ CreateType /\ HeldType /\ TaskType /\ RecType /\ DelType
BY Zenon DEF TypeOK, Numbers, Subsets, Flags, CreateType, HeldType, TaskType, RecType, DelType

LEMMA TypePartsNext ==
    Numbers' /\ Subsets' /\ Flags' /\ CreateType' /\ HeldType' /\ TaskType' /\ RecType' /\ DelType' => TypeOK'
BY Zenon DEF TypeOK, Numbers, Subsets, Flags, CreateType, HeldType, TaskType, RecType, DelType

LEMMA TypeInit == Init => TypeOK
<1> SUFFICES ASSUME Init PROVE TypeOK
    OBVIOUS
<1>1. Flags
    BY Zenon DEF Init, Flags
<1>2. Numbers /\ Subsets /\ CreateType /\ HeldType /\ TaskType /\ RecType /\ DelType
    BY VMManagerAssumption DEF Init, Numbers, Subsets, CreateType, CreatePC, HeldType, TaskType, RecType, Record, DelType
<1> QED BY <1>1, <1>2, TypeParts

(* The service, the sweep and the Creates call Delete. *)
LEMMA CallerFacts ==
    "service" \in Callers /\ "sweep" \in Callers /\ \A s \in Ids : s \in Callers
BY DEF Callers

LEMMA NewFrameType == ASSUME NEW s \in Ids PROVE NewFrame(s) \in Frame
BY DEF NewFrame, Frame

(* The first steps of a Create, and its deadline. *)
LEMMA UnpackingTypes ==
    ASSUME TypeOK, NEW s \in Ids,
           CreateBegin(s) \/ Expire(s) \/ Image(s) \/ Join(s) \/ GiveUp(s)
    PROVE  TypeOK'
<1> USE DEF TypeOK, CreateBegin, Expire, Image, Join, GiveUp, imageRest, createRest, stepRest, unpackVars
<1>1. Flags'
    BY Zenon DEF Flags
<1>2. Numbers' /\ Subsets'
    BY VMManagerAssumption DEF Numbers, Subsets, Fault, NoFault, CallOK, CallFails, RollBackContainer
<1>3. CreateType'
    BY DEF CreateType, CreatePC, Go
<1>4. HeldType'
    BY DEF HeldType, Resource, Gain, Lose, RollBackContainer
<1>5. TaskType'
    BY DEF TaskType, SetTask, RollBackContainer
<1>6. DelType' /\ RecType'
    BY DEF DelType, RecType, Record, SetRec
<1> QED BY <1>1, <1>2, <1>3, <1>4, <1>5, <1>6, TypePartsNext

(* The home disk and the network. *)
LEMMA AttachingTypes ==
    ASSUME TypeOK, NEW s \in Ids,
           Losetup(s) \/ RecordLoop(s) \/ AddVolume(s) \/ AddNetns(s) \/ SetupCNI(s)
    PROVE  TypeOK'
<1> USE DEF TypeOK, Losetup, RecordLoop, AddVolume, AddNetns, SetupCNI, imageRest, createRest, stepRest, unpackVars
<1>1. Flags'
    BY Zenon DEF Flags
<1>2. Numbers' /\ Subsets'
    BY VMManagerAssumption DEF Numbers, Subsets, Fault, NoFault, CallOK, CallFails, RollBackContainer
<1>3. CreateType'
    BY DEF CreateType, CreatePC, Go
<1>4. HeldType'
    <2>1. CASE SetupCNI(s)
        <3>1. PICK R \in SUBSET Resource : held' = [held EXCEPT ![s] = R]
            BY <2>1 DEF HeldType, Resource, Gain, Lose
        <3> QED BY <3>1 DEF HeldType
    <2> QED BY <2>1 DEF HeldType, Resource, Gain, Lose, Detached
<1>5. TaskType'
    BY DEF TaskType, SetTask, RollBackContainer
<1>6. DelType' /\ RecType'
    BY DEF DelType, RecType, Record, SetRec
<1> QED BY <1>1, <1>2, <1>3, <1>4, <1>5, <1>6, TypePartsNext

(* Container and task, until the guest dies. *)
LEMMA BootingTypes ==
    ASSUME TypeOK, NEW s \in Ids,
           NewContainer(s) \/ NewTask(s) \/ Start(s) \/ VMDies(s)
    PROVE  TypeOK'
<1> USE DEF TypeOK, NewContainer, NewTask, Start, VMDies, imageRest, createRest, stepRest, unpackVars
<1>1. Flags'
    BY Zenon DEF Flags
<1>2. Numbers' /\ Subsets'
    BY VMManagerAssumption DEF Numbers, Subsets, Fault, NoFault, CallOK, CallFails, RollBackContainer
<1>3. CreateType'
    BY DEF CreateType, CreatePC, Go
<1>4. HeldType'
    BY DEF HeldType, Resource, Gain, Lose, RollBackContainer
<1>5. TaskType'
    BY DEF TaskType, SetTask, RollBackContainer
<1>6. DelType' /\ RecType'
    BY DEF DelType, RecType, Record, SetRec
<1> QED BY <1>1, <1>2, <1>3, <1>4, <1>5, <1>6, TypePartsNext

(* The rollback. *)
LEMMA UndoingTypes ==
    ASSUME TypeOK, NEW s \in Ids,
           TeardownNet(s) \/ DetachHome(s) \/ FailCreate(s)
    PROVE  TypeOK'
<1> USE DEF TypeOK, TeardownNet, DetachHome, FailCreate, imageRest, createRest, stepRest, unpackVars
<1>1. Flags'
    BY Zenon DEF Flags
<1>2. Numbers' /\ Subsets'
    BY VMManagerAssumption DEF Numbers, Subsets, Fault, NoFault, CallOK, CallFails, RollBackContainer
<1>3. CreateType'
    BY DEF CreateType, CreatePC, Go
<1>4. HeldType'
    BY DEF HeldType, Resource, Gain, Lose, Detached, RollBackContainer
<1>5. TaskType'
    BY DEF TaskType, SetTask, RollBackContainer
<1>6. DelType' /\ RecType'
    BY DEF DelType, RecType, Record, SetRec
<1> QED BY <1>1, <1>2, <1>3, <1>4, <1>5, <1>6, TypePartsNext

(* PutRunning, and the beginning of a Delete. *)
LEMMA BeginningTypes ==
    ASSUME TypeOK, NEW s \in Ids, Commit(s) \/ DeleteBegin(s) \/ DeleteDead(s) \/ CleanupStopped(s)
    PROVE  TypeOK'
<1> USE DEF TypeOK, Commit, DeleteBegin, DeleteDead, CleanupStopped, commitRest, beginRest, unpackVars
<1>1. Flags'
    BY Zenon DEF Flags
<1>2. Numbers' /\ Subsets'
    BY VMManagerAssumption DEF Numbers, Subsets, Fault, NoFault
<1>3. CreateType' /\ HeldType' /\ TaskType'
    BY DEF CreateType, CreatePC, Go, HeldType, TaskType
<1>4. RecType'
    BY DEF RecType, Record, SetRec
<1>5. DelType'
    <2>1. CASE UNCHANGED del
        BY <2>1 DEF DelType
    <2>2. CASE \E c \in Callers : del' = [del EXCEPT ![c] = NewFrame(s)]
        BY <2>2, NewFrameType DEF DelType
    <2>3. UNCHANGED del \/ \E c \in Callers : del' = [del EXCEPT ![c] = NewFrame(s)]
        BY CallerFacts DEF SetFrame
    <2> QED BY <2>1, <2>2, <2>3
<1> QED BY <1>1, <1>2, <1>3, <1>4, <1>5, TypePartsNext

(* A frame that is not idle has an id and its next steps are frames. *)
LEMMA FrameFacts ==
    ASSUME TypeOK, NEW c \in Callers, del[c].at # "idle"
    PROVE  /\ del[c] \in Frame
           /\ del[c].id \in Ids
           /\ \A a \in {"kill", "vmm", "net", "home", "forget"} :
                 /\ [del[c] EXCEPT !.at = a] \in Frame
                 /\ [del[c] EXCEPT !.at = a].at = a
                 /\ [del[c] EXCEPT !.at = a].id = del[c].id
           /\ [del[c] EXCEPT !.at = "vmm", !.err = TRUE] \in Frame
           /\ [del[c] EXCEPT !.at = "vmm", !.err = TRUE].at = "vmm"
           /\ [del[c] EXCEPT !.at = "vmm", !.err = TRUE].id = del[c].id
<1>1. del[c] \in Frame
    BY DEF TypeOK, NoFrame
<1> QED BY <1>1 DEF Frame

(* Where the frame of a Delete goes. *)
NextAt(c, a) ==
    \E f \in Frame : del' = [del EXCEPT ![c] = f] /\ f.at = a /\ f.id = del[c].id

LEMMA FrameMoves ==
    ASSUME TypeOK, NEW c \in Callers, DeleteStep(c)
    PROVE  /\ Lookup(c) => NextAt(c, "kill") \/ NextAt(c, "vmm")
           /\ Kill(c) => NextAt(c, "vmm")
           /\ KillVMM(c) => NextAt(c, "net")
           /\ FreeNet(c) => NextAt(c, "home")
           /\ FreeHome(c) => NextAt(c, "forget") \/ del' = [del EXCEPT ![c] = NoFrame]
           /\ Forget(c) => del' = [del EXCEPT ![c] = NoFrame]
<1>1. del[c].at # "idle"
    BY DEF DeleteStep, Lookup, Kill, KillVMM, FreeNet, FreeHome, Forget
<1>2. ASSUME NEW a \in {"kill", "vmm", "net", "home", "forget"}, GoFrame(c, a) PROVE NextAt(c, a)
    BY <1>1, <1>2, FrameFacts DEF NextAt, GoFrame
<1>3. SetFrame(c, [del[c] EXCEPT !.at = "vmm", !.err = TRUE]) => NextAt(c, "vmm")
    BY <1>1, FrameFacts DEF NextAt, SetFrame
<1>4. Lookup(c) => NextAt(c, "kill") \/ NextAt(c, "vmm")
    BY <1>2, <1>3 DEF Lookup
<1>5. Kill(c) => NextAt(c, "vmm")
    BY <1>2, <1>3 DEF Kill
<1>6. KillVMM(c) => NextAt(c, "net")
    BY <1>2 DEF KillVMM
<1>7. FreeNet(c) => NextAt(c, "home")
    BY <1>2 DEF FreeNet
<1>8. FreeHome(c) => NextAt(c, "forget") \/ del' = [del EXCEPT ![c] = NoFrame]
    BY <1>2 DEF FreeHome, SetFrame
<1>9. Forget(c) => del' = [del EXCEPT ![c] = NoFrame]
    BY DEF Forget, SetFrame
<1> QED BY <1>4, <1>5, <1>6, <1>7, <1>8, <1>9

LEMMA DeletingTypes ==
    ASSUME TypeOK, NEW c \in Callers, DeleteStep(c) PROVE TypeOK'
<1> USE DEF TypeOK, DeleteStep, Lookup, Kill, KillVMM, FreeNet, FreeHome, Forget, delRest, unpackVars
<1>0. del[c].at # "idle"
    OBVIOUS
<1>1. Flags'
    BY Zenon DEF Flags
<1>2. Numbers' /\ Subsets'
    BY VMManagerAssumption DEF Numbers, Subsets, Fault, NoFault
<1>3. CreateType' /\ RecType'
    BY DEF CreateType, CreatePC, Go, RecType, Record, SetRec
<1>4. TaskType'
    BY DEF TaskType, SetTask, Stopped
<1>5. HeldType'
    BY DEF HeldType, Resource, Lose, Detached
<1>6. DelType'
    <2>1. PICK f \in Frame \cup {NoFrame} : del' = [del EXCEPT ![c] = f]
        BY FrameMoves DEF NextAt
    <2> QED BY <2>1 DEF DelType
<1> QED BY <1>1, <1>2, <1>3, <1>4, <1>5, <1>6, TypePartsNext

LEMMA UnpackEndsTypes == TypeOK /\ UnpackEnds => TypeOK'
<1> SUFFICES ASSUME TypeOK, UnpackEnds PROVE TypeOK'
    OBVIOUS
<1> USE DEF TypeOK, UnpackEnds, imageRest, createRest
<1>1. Flags'
    BY Zenon DEF Flags
<1>2. Numbers' /\ Subsets'
    BY VMManagerAssumption DEF Numbers, Subsets, Fault, NoFault
<1>3. CreateType' /\ HeldType' /\ TaskType' /\ RecType' /\ DelType'
    BY DEF CreateType, CreatePC, HeldType, TaskType, RecType, DelType
<1> QED BY <1>1, <1>2, <1>3, TypePartsNext

LEMMA CrashTypes == TypeOK /\ Crash => TypeOK'
<1> SUFFICES ASSUME TypeOK, Crash PROVE TypeOK'
    OBVIOUS
<1> USE DEF TypeOK, Crash
<1>1. Flags'
    BY Zenon DEF Flags
<1>2. Numbers' /\ Subsets'
    BY VMManagerAssumption DEF Numbers, Subsets
<1>3. CreateType' /\ HeldType' /\ TaskType' /\ RecType' /\ DelType'
    BY DEF CreateType, CreatePC, HeldType, TaskType, RecType, DelType
<1> QED BY <1>1, <1>2, <1>3, TypePartsNext

LEMMA TypeNext == TypeOK /\ [Next]_vars => TypeOK'
<1> SUFFICES ASSUME TypeOK, [Next]_vars PROVE TypeOK'
    OBVIOUS
<1>1. ASSUME NEW s \in Ids, CreateBegin(s) \/ Expire(s) \/ CreateStep(s) \/ VMDies(s) PROVE TypeOK'
    BY <1>1, UnpackingTypes, AttachingTypes, BootingTypes, UndoingTypes, BeginningTypes DEF CreateStep
<1>2. ASSUME NEW s \in Ids, DeleteBegin(s) \/ DeleteDead(s) \/ CleanupStopped(s) PROVE TypeOK'
    BY <1>2, BeginningTypes
<1>3. ASSUME NEW c \in Callers, DeleteStep(c) PROVE TypeOK'
    BY <1>3, DeletingTypes
<1>4. CASE UNCHANGED vars
    <2>1. Flags'
        BY <1>4, Zenon DEF TypeOK, Flags, vars, unpackVars
    <2>2. Numbers' /\ Subsets' /\ CreateType' /\ HeldType' /\ TaskType' /\ RecType' /\ DelType'
        BY <1>4 DEF TypeOK, vars, unpackVars, Numbers, Subsets, CreateType, HeldType, TaskType, RecType, DelType
    <2> QED BY <2>1, <2>2, TypePartsNext
<1> QED BY <1>1, <1>2, <1>3, <1>4, UnpackEndsTypes, CrashTypes DEF Next

(* Create, its rollback, Delete, CleanupStopped and restarts keep every    *)
(* variable in its domain.                                                 *)
THEOREM VMManagerTypes == Spec => []TypeOK
BY TypeInit, TypeNext, PTL DEF Spec
---------------------------------------------------------------------------

(* The shared unpack. *)

UnpackTypes ==
    /\ pc \in [Ids -> CreatePC]
    /\ unpacked \in BOOLEAN
    /\ unpacking \in BOOLEAN

(* The steps that only a Create behind ensureUnpacked can be at. *)
Behind == {"losetup", "record", "volume", "netns", "cni", "container", "task", "start",
           "commit", "undo", "teardownNet", "detach", "up"}
UnpackedBehind == \A s \in Ids : pc[s] \in Behind => unpacked

UnpackInv == UnpackTypes /\ UnpackedBehind /\ WaitersHaveAJob

LEMMA UnpackInit == Init => UnpackInv
<1> SUFFICES ASSUME Init PROVE UnpackInv
    OBVIOUS
<1>1. /\ pc \in [Ids -> CreatePC]
      /\ \A s \in Ids : pc[s] \notin Behind /\ pc[s] # "wait"
    BY DEF Init, CreatePC, Behind
<1>2. unpacked \in BOOLEAN /\ unpacking \in BOOLEAN
    BY Zenon DEF Init
<1> QED BY <1>1, <1>2, Zenon DEF UnpackInv, UnpackTypes, UnpackedBehind, WaitersHaveAJob

(* A Create moves on: it gets behind the unpack only where that is done,   *)
(* and waits only for a job that runs.                                     *)
LEMMA UnpackMove ==
    ASSUME UnpackInv, NEW s \in Ids, NEW p \in CreatePC, Go(s, p),
           p \in Behind => pc[s] \in Behind \/ unpacked,
           p = "wait" => unpacking',
           UNCHANGED unpacked, UNCHANGED unpacking \/ unpacking' = TRUE
    PROVE  UnpackInv'
<1>1. UnpackTypes'
    <2>1. pc' \in [Ids -> CreatePC]
        BY DEF UnpackInv, UnpackTypes, Go
    <2>2. unpacked' \in BOOLEAN /\ unpacking' \in BOOLEAN
        BY Zenon DEF UnpackInv, UnpackTypes
    <2> QED BY <2>1, <2>2 DEF UnpackTypes
<1>2. ASSUME NEW t \in Ids PROVE pc'[t] = IF t = s THEN p ELSE pc[t]
    BY DEF Go, UnpackInv, UnpackTypes
<1>3. UnpackedBehind'
    BY <1>2, Zenon DEF UnpackInv, UnpackedBehind
<1>4. WaitersHaveAJob'
    <2> SUFFICES ASSUME NEW t \in Ids, pc'[t] = "wait" PROVE unpacking'
        BY Zenon DEF WaitersHaveAJob
    <2>1. unpacking => unpacking'
        BY Zenon
    <2>2. p = "wait" \/ pc[t] = "wait"
        BY <1>2
    <2> QED BY <2>1, <2>2, Zenon DEF UnpackInv, WaitersHaveAJob
<1> QED BY <1>1, <1>3, <1>4 DEF UnpackInv

(* A step that leaves the Creates and the unpack alone. *)
LEMMA UnpackOutside ==
    ASSUME UnpackInv, UNCHANGED <<pc, unpacked, unpacking>> PROVE UnpackInv'
BY Zenon DEF UnpackInv, UnpackTypes, UnpackedBehind, WaitersHaveAJob

LEMMA UnpackUnpackEnds ==
    ASSUME UnpackInv, UnpackEnds PROVE UnpackInv'
<1>1. PICK ok \in BOOLEAN :
          /\ pc' = [s \in Ids |-> IF pc[s] # "wait" THEN pc[s] ELSE IF ok THEN "losetup" ELSE "failCreate"]
          /\ IF ok THEN unpacked' = TRUE /\ NoFault ELSE Fault /\ UNCHANGED unpacked
    BY DEF UnpackEnds
<1>2. pc' \in [Ids -> CreatePC]
    BY <1>1 DEF UnpackInv, UnpackTypes, CreatePC
<1>3. unpacked' \in BOOLEAN /\ unpacking' \in BOOLEAN
    BY <1>1, Zenon DEF UnpackInv, UnpackTypes, UnpackEnds
<1>4. UnpackedBehind'
    <2> SUFFICES ASSUME NEW t \in Ids, pc'[t] \in Behind PROVE unpacked'
        BY Zenon DEF UnpackedBehind
    <2>1. CASE ok
        BY <1>1, <2>1, Zenon
    <2>2. CASE ~ok
        <3>1. pc[t] \in Behind
            BY <1>1, <2>2 DEF Behind
        <3> QED BY <1>1, <2>2, <3>1, Zenon DEF UnpackInv, UnpackedBehind
    <2> QED BY <2>1, <2>2
<1>5. WaitersHaveAJob'
    <2>1. \A t \in Ids : pc'[t] # "wait"
        BY <1>1
    <2> QED BY <2>1, Zenon DEF WaitersHaveAJob
<1> QED BY <1>2, <1>3, <1>4, <1>5 DEF UnpackInv, UnpackTypes

LEMMA UnpackCrash ==
    ASSUME UnpackInv, Crash PROVE UnpackInv'
<1>1. /\ pc' \in [Ids -> CreatePC]
      /\ \A t \in Ids : (pc'[t] = pc[t] /\ ~InFlight(t)) \/ pc'[t] = "failed"
    BY DEF Crash, UnpackInv, UnpackTypes, CreatePC
<1>2. unpacked' \in BOOLEAN /\ unpacking' \in BOOLEAN
    BY Zenon DEF Crash, UnpackInv, UnpackTypes
<1>3. UnpackedBehind'
    <2> SUFFICES ASSUME NEW t \in Ids, pc'[t] \in Behind PROVE unpacked'
        BY Zenon DEF UnpackedBehind
    <2>1. pc[t] \in Behind
        BY <1>1 DEF Behind
    <2> QED BY <2>1, Zenon DEF Crash, UnpackInv, UnpackedBehind
<1>4. WaitersHaveAJob'
    <2>1. \A t \in Ids : pc'[t] # "wait"
        BY <1>1 DEF InFlight
    <2> QED BY <2>1, Zenon DEF WaitersHaveAJob
<1> QED BY <1>1, <1>2, <1>3, <1>4 DEF UnpackInv, UnpackTypes

(* A Create's step, one by one: where it leads, and from where. *)
LEMMA UnpackCreate ==
    ASSUME UnpackInv, NEW s \in Ids, CreateStep(s) PROVE UnpackInv'
<1> USE DEF CreatePC, Behind, imageRest, createRest, stepRest, commitRest, unpackVars
<1>1. CASE Image(s)
    <2>1. PICK p \in {"losetup", "join", "failCreate"} : Go(s, p) /\ (p = "losetup" => unpacked)
        BY <1>1 DEF Image
    <2> QED BY <1>1, <2>1, UnpackMove DEF Image
<1>2. CASE Join(s)
    BY <1>2, UnpackMove DEF Join
<1>3. CASE GiveUp(s)
    BY <1>3, UnpackMove DEF GiveUp
<1>4. CASE Losetup(s)
    BY <1>4, UnpackMove DEF Losetup
<1>5. CASE RecordLoop(s)
    BY <1>5, UnpackMove DEF RecordLoop
<1>6. CASE AddVolume(s)
    BY <1>6, UnpackMove DEF AddVolume
<1>7. CASE AddNetns(s)
    BY <1>7, UnpackMove DEF AddNetns
<1>8. CASE SetupCNI(s)
    BY <1>8, UnpackMove DEF SetupCNI
<1>9. CASE NewContainer(s)
    BY <1>9, UnpackMove DEF NewContainer
<1>10. CASE NewTask(s)
    BY <1>10, UnpackMove DEF NewTask
<1>11. CASE Start(s)
    BY <1>11, UnpackMove DEF Start
<1>12. CASE Commit(s)
    BY <1>12, UnpackMove DEF Commit
<1>13. CASE TeardownNet(s)
    BY <1>13, UnpackMove DEF TeardownNet
<1>14. CASE DetachHome(s)
    BY <1>14, UnpackMove DEF DetachHome
<1>15. CASE FailCreate(s)
    BY <1>15, UnpackMove DEF FailCreate
<1> QED BY <1>1, <1>2, <1>3, <1>4, <1>5, <1>6, <1>7, <1>8, <1>9, <1>10, <1>11, <1>12, <1>13, <1>14, <1>15
        DEF CreateStep

(* Requests, deadlines and guests do not touch the unpack. *)
LEMMA UnpackOther ==
    ASSUME UnpackInv, NEW s \in Ids,
           Expire(s) \/ DeleteBegin(s) \/ DeleteDead(s) \/ CleanupStopped(s) \/ VMDies(s)
    PROVE  UnpackInv'
BY UnpackOutside DEF Expire, DeleteBegin, DeleteDead, CleanupStopped, VMDies, beginRest, unpackVars

LEMMA UnpackDelete ==
    ASSUME UnpackInv, NEW c \in Callers, DeleteStep(c) PROVE UnpackInv'
<1>1. CASE ~Forget(c) \/ UNCHANGED pc
    BY <1>1, UnpackOutside DEF DeleteStep, Lookup, Kill, KillVMM, FreeNet, FreeHome, Forget, delRest, unpackVars
<1>2. CASE Forget(c) /\ ~UNCHANGED pc
    <2>1. PICK s : c = s /\ Go(s, "failed")
        BY <1>2 DEF Forget
    <2>2. CASE s \in Ids
        BY <1>2, <2>1, <2>2, UnpackMove DEF Forget, unpackVars, CreatePC, Behind
    <2>3. CASE s \notin Ids
        BY <1>2, <2>1, <2>3 DEF Go, UnpackInv, UnpackTypes
    <2> QED BY <2>2, <2>3
<1> QED BY <1>1, <1>2

LEMMA UnpackNext == UnpackInv /\ [Next]_vars => UnpackInv'
<1> SUFFICES ASSUME UnpackInv, [Next]_vars PROVE UnpackInv'
    OBVIOUS
<1>1. ASSUME NEW s \in Ids, CreateBegin(s) PROVE UnpackInv'
    BY <1>1, UnpackMove DEF CreateBegin, unpackVars, CreatePC, Behind
<1>2. ASSUME NEW s \in Ids, CreateStep(s) PROVE UnpackInv'
    BY <1>2, UnpackCreate
<1>3. ASSUME NEW s \in Ids,
             Expire(s) \/ DeleteBegin(s) \/ DeleteDead(s) \/ CleanupStopped(s) \/ VMDies(s)
      PROVE  UnpackInv'
    BY <1>3, UnpackOther
<1>4. ASSUME NEW c \in Callers, DeleteStep(c) PROVE UnpackInv'
    BY <1>4, UnpackDelete
<1>5. CASE UNCHANGED vars
    BY <1>5, UnpackOutside DEF vars, unpackVars
<1> QED BY <1>1, <1>2, <1>3, <1>4, <1>5, UnpackUnpackEnds, UnpackCrash DEF Next

(* No Create builds on a rootfs that is not unpacked, also one that waited *)
(* for the job of another request (ensureUnpacked).                        *)
THEOREM OnlyUnpackedBoots == Spec => []BootsOnlyUnpacked
<1>1. UnpackInv => BootsOnlyUnpacked
    BY Zenon DEF UnpackInv, UnpackedBehind, BootsOnlyUnpacked, Behind
<1> QED BY <1>1, UnpackInit, UnpackNext, PTL DEF Spec

(* However many requests share an unpack, abandon it or see it fail, none  *)
(* is left waiting for a job that is gone (ensureUnpacked).                *)
THEOREM NoWaiterIsLeft == Spec => []WaitersHaveAJob
<1>1. UnpackInv => WaitersHaveAJob
    BY DEF UnpackInv
<1> QED BY <1>1, UnpackInit, UnpackNext, PTL DEF Spec
---------------------------------------------------------------------------

(* What exists on the host. *)

AfterBoot    == {"task", "start", "commit", "undo", "up", "failed"}
AfterNetns   == {"cni", "container", "teardownNet"} \cup AfterBoot
AfterVolume  == {"netns", "detach"} \cup AfterNetns
AfterRecord  == {"volume"} \cup AfterVolume
AfterLosetup == {"record"} \cup AfterRecord

(* What s may hold at each step of its Create; that its loop device is on  *)
(* record; and that without a record nothing is left.                      *)
HomeAndNet == {"loop", "loopFile", "volume", "netns"}
Tracked(s) ==
    /\ "loop" \in held[s] => pc[s] \in AfterLosetup
    /\ "loopFile" \in held[s] => pc[s] \in AfterRecord
    /\ "volume" \in held[s] => pc[s] \in AfterVolume
    /\ "netns" \in held[s] => pc[s] \in AfterNetns
    /\ "container" \in held[s] => pc[s] \in AfterBoot
    /\ "snapshot" \in held[s] => "container" \in held[s]
    /\ "loop" \in held[s] /\ pc[s] \notin {"record", "volume"} =>
          "loopFile" \in held[s] \/ "volume" \in held[s]
    /\ pc[s] \in {"up", "failed"} /\ ~Known(s) => held[s] \cap HomeAndNet = {}

(* A Create that is in time and that no Delete has overtaken, and a VM     *)
(* that the service has accepted, have all that they have acquired.        *)
Ahead(s) == pc[s] \notin {"idle", "undo", "up", "failed"} /\ s \notin expired /\ rec[s] = "creating"
Live(s)  == (pc[s] = "up" \/ rec[s] = "running") /\ task[s] = "running"
Equipped(s) ==
    /\ Ahead(s) =>
        /\ pc[s] = "start" \/ (pc[s] = "commit" /\ task[s] = "running") => "vmm" \in held[s]
        /\ pc[s] \in {"task", "start", "commit"} => {"snapshot", "container"} \subseteq held[s]
        /\ pc[s] \in {"container", "task", "start", "commit"} => "address" \in held[s]
        /\ pc[s] \in {"cni", "container", "task", "start", "commit"} => "netns" \in held[s]
        /\ pc[s] \in {"netns", "cni", "container", "task", "start", "commit"} => "volume" \in held[s]
        /\ pc[s] \in {"record", "volume", "netns", "cni", "container", "task", "start", "commit"} => "loop" \in held[s]
    /\ Live(s) => {"loop", "volume", "netns", "address", "snapshot", "container", "vmm"} \subseteq held[s]

(* A record says running only after Commit. *)
Ordered(s) ==
    /\ rec[s] = "running" => pc[s] \in {"up", "undo", "failed"}
    /\ pc[s] = "idle" => rec[s] = "none" /\ "container" \notin held[s]
    /\ pc[s] = "start" /\ Ahead(s) => task[s] # "running"

(* What a Delete may be at: not at such a Create, and at the network and   *)
(* the disk of an accepted VM only when its task is dead.  Once the Create *)
(* is over, what a Delete has released stays so.                           *)
Late(c) ==
    del[c].at # "idle" =>
        LET s == del[c].id IN
        /\ pc[s] # "idle" /\ ~Ahead(s)
        /\ Live(s) => del[c].at \notin {"net", "home"}
        /\ c \in Ids => c = s /\ pc[s] = "undo"
        /\ s \notin unreleased /\ (pc[s] \in {"up", "failed"} \/ c = s) =>
              /\ del[c].at \in {"home", "forget"} => "netns" \notin held[s]
              /\ del[c].at = "forget" => held[s] \cap HomeAndNet = {}

HostInv ==
    /\ \A s \in Ids \ unreleased : Tracked(s)
    /\ \A s \in Ids : Equipped(s) /\ Ordered(s)
    /\ \A c \in Callers : Late(c)

LEMMA HostInit == Init => HostInv
BY DEF Init, HostInv, Tracked, Equipped, Ordered, Ahead, Live, Late, NoFrame

(* A step that is about s alone: nothing of the other ids changes.         *)
Only(s) ==
    /\ \A t \in Ids \ {s} : pc'[t] = pc[t] /\ held'[t] = held[t] /\ task'[t] = task[t] /\ rec'[t] = rec[t]
    /\ expired' \ {s} = expired \ {s}
    /\ unreleased \subseteq unreleased'
SFacts(s) == (s \notin unreleased => Tracked(s)) /\ Equipped(s) /\ Ordered(s)

LEMMA OthersStay ==
    ASSUME HostInv, NEW s \in Ids, Only(s), SFacts(s)', \A c \in Callers : Late(c)'
    PROVE  HostInv'
<1>1. ASSUME NEW t \in Ids, t # s PROVE (t \notin unreleased' => Tracked(t)') /\ Equipped(t)' /\ Ordered(t)'
    <2>1. t \notin unreleased' => Tracked(t)'
        BY <1>1 DEF HostInv, Tracked, Only, Known
    <2>2. Equipped(t)' /\ Ordered(t)'
        BY <1>1 DEF HostInv, Equipped, Ordered, Ahead, Live, Only
    <2> QED BY <2>1, <2>2
<1> QED BY <1>1 DEF HostInv, SFacts

(* Deletes of other sandboxes stay as they are. *)
LEMMA LateElsewhere ==
    ASSUME TypeOK, HostInv, NEW s \in Ids, Only(s),
           NEW c \in Callers, del[c].at # "idle", del[c].id # s, del'[c] = del[c]
    PROVE  Late(c)'
<1>1. PICK t \in Ids : t = del[c].id
    BY FrameFacts
<1> QED BY <1>1 DEF HostInv, Late, Only, Ahead, Live

(* A step of a Create towards its end: it gains nothing that a Delete      *)
(* could be after, and ends with nothing in hand.                          *)
LEMMA CreateMoves ==
    ASSUME TypeOK, HostInv, NEW s \in Ids, Only(s), UNCHANGED del, SFacts(s)',
           pc[s] \notin {"idle", "undo", "up", "failed"}, pc'[s] # "idle",
           Ahead(s)' => Ahead(s), Live(s)' => Ahead(s), pc'[s] = "up" => Ahead(s),
           pc'[s] = "failed" /\ s \notin unreleased' => held'[s] \cap HomeAndNet = {}
    PROVE  HostInv'
<1>1. ASSUME NEW c \in Callers PROVE Late(c)'
    <2> SUFFICES ASSUME del[c].at # "idle" PROVE Late(c)'
        BY DEF Late
    <2>1. CASE del[c].id # s
        BY <2>1, LateElsewhere
    <2>2. CASE del[c].id = s
        <3>1. ~Ahead(s) /\ c \notin Ids
            BY <2>2 DEF HostInv, Late
        <3>2. ~Live(s)' /\ ~Ahead(s)' /\ pc'[s] # "up"
            BY <3>1
        <3>3. "netns" \in HomeAndNet
            BY DEF HomeAndNet
        <3> QED BY <2>2, <3>1, <3>2, <3>3 DEF Late
    <2> QED BY <2>1, <2>2
<1> QED BY <1>1, OthersStay

(* The first steps of a Create. *)
LEMMA UnpackingHost ==
    ASSUME TypeOK, HostInv, NEW s \in Ids,
           Image(s) \/ Join(s) \/ GiveUp(s)
    PROVE  HostInv'
<1>1. SFacts(s)
    BY DEF HostInv, SFacts
<1>2. Only(s) /\ UNCHANGED del /\ pc[s] \notin {"idle", "undo", "up", "failed"}
    BY DEF TypeOK, Image, Join, GiveUp, Only,
       Go, SetTask, SetRec, Gain, Lose, RollBackContainer, imageRest, createRest, stepRest, commitRest, beginRest, unpackVars
<1>3. CASE Image(s)
    <2>1. s \notin unreleased' => Tracked(s)'
        BY <1>1, <1>3 DEF TypeOK, SFacts, Image, Tracked, Known, HomeAndNet, Go, Gain, Lose, SetRec, Detached, Recorded,
           RollBackContainer, imageRest, createRest, stepRest, commitRest, beginRest, unpackVars,
           AfterLosetup, AfterRecord, AfterVolume, AfterNetns, AfterBoot
    <2>2. Equipped(s)'
        BY <1>1, <1>3 DEF TypeOK, SFacts, Image, Equipped, Ordered, Ahead, Live, Go, SetTask, SetRec, Gain, Lose, Detached,
           RollBackContainer, CallOK, CallFails, Bootable, Startable, imageRest, createRest, stepRest, commitRest, beginRest, unpackVars
    <2>3. Ordered(s)' /\ pc'[s] \notin {"idle", "up"}
        BY <1>1, <1>3 DEF TypeOK, SFacts, Image, Ordered, Ahead, Go, SetTask, SetRec, Gain, Lose, RollBackContainer, imageRest, createRest, stepRest, commitRest, beginRest, unpackVars
    <2>4. (Ahead(s)' => Ahead(s)) /\ ~Live(s)'
        BY <1>1, <1>3 DEF TypeOK, SFacts, Image, Ordered, Ahead, Live, Go, SetTask, SetRec, RollBackContainer, imageRest, createRest, stepRest, commitRest, beginRest, unpackVars
    <2>5. pc'[s] = "failed" /\ s \notin unreleased' => held'[s] \cap HomeAndNet = {}
        BY <1>1, <1>3 DEF TypeOK, SFacts, Image, Tracked, HomeAndNet, Go, imageRest, createRest, stepRest, commitRest, beginRest, unpackVars,
           AfterLosetup, AfterRecord, AfterVolume, AfterNetns, AfterBoot
    <2> QED BY <1>2, <2>1, <2>2, <2>3, <2>4, <2>5, CreateMoves DEF SFacts
<1>4. CASE Join(s)
    <2>1. s \notin unreleased' => Tracked(s)'
        BY <1>1, <1>4 DEF TypeOK, SFacts, Join, Tracked, Known, HomeAndNet, Go, Gain, Lose, SetRec, Detached, Recorded,
           RollBackContainer, imageRest, createRest, stepRest, commitRest, beginRest, unpackVars,
           AfterLosetup, AfterRecord, AfterVolume, AfterNetns, AfterBoot
    <2>2. Equipped(s)'
        BY <1>1, <1>4 DEF TypeOK, SFacts, Join, Equipped, Ordered, Ahead, Live, Go, SetTask, SetRec, Gain, Lose, Detached,
           RollBackContainer, CallOK, CallFails, Bootable, Startable, imageRest, createRest, stepRest, commitRest, beginRest, unpackVars
    <2>3. Ordered(s)' /\ pc'[s] \notin {"idle", "up"}
        BY <1>1, <1>4 DEF TypeOK, SFacts, Join, Ordered, Ahead, Go, SetTask, SetRec, Gain, Lose, RollBackContainer, imageRest, createRest, stepRest, commitRest, beginRest, unpackVars
    <2>4. (Ahead(s)' => Ahead(s)) /\ ~Live(s)'
        BY <1>1, <1>4 DEF TypeOK, SFacts, Join, Ordered, Ahead, Live, Go, SetTask, SetRec, RollBackContainer, imageRest, createRest, stepRest, commitRest, beginRest, unpackVars
    <2>5. pc'[s] = "failed" /\ s \notin unreleased' => held'[s] \cap HomeAndNet = {}
        BY <1>1, <1>4 DEF TypeOK, SFacts, Join, Tracked, HomeAndNet, Go, imageRest, createRest, stepRest, commitRest, beginRest, unpackVars,
           AfterLosetup, AfterRecord, AfterVolume, AfterNetns, AfterBoot
    <2> QED BY <1>2, <2>1, <2>2, <2>3, <2>4, <2>5, CreateMoves DEF SFacts
<1>5. CASE GiveUp(s)
    <2>1. s \notin unreleased' => Tracked(s)'
        BY <1>1, <1>5 DEF TypeOK, SFacts, GiveUp, Tracked, Known, HomeAndNet, Go, Gain, Lose, SetRec, Detached, Recorded,
           RollBackContainer, imageRest, createRest, stepRest, commitRest, beginRest, unpackVars,
           AfterLosetup, AfterRecord, AfterVolume, AfterNetns, AfterBoot
    <2>2. Equipped(s)'
        BY <1>1, <1>5 DEF TypeOK, SFacts, GiveUp, Equipped, Ordered, Ahead, Live, Go, SetTask, SetRec, Gain, Lose, Detached,
           RollBackContainer, CallOK, CallFails, Bootable, Startable, imageRest, createRest, stepRest, commitRest, beginRest, unpackVars
    <2>3. Ordered(s)' /\ pc'[s] \notin {"idle", "up"}
        BY <1>1, <1>5 DEF TypeOK, SFacts, GiveUp, Ordered, Ahead, Go, SetTask, SetRec, Gain, Lose, RollBackContainer, imageRest, createRest, stepRest, commitRest, beginRest, unpackVars
    <2>4. (Ahead(s)' => Ahead(s)) /\ ~Live(s)'
        BY <1>1, <1>5 DEF TypeOK, SFacts, GiveUp, Ordered, Ahead, Live, Go, SetTask, SetRec, RollBackContainer, imageRest, createRest, stepRest, commitRest, beginRest, unpackVars
    <2>5. pc'[s] = "failed" /\ s \notin unreleased' => held'[s] \cap HomeAndNet = {}
        BY <1>1, <1>5 DEF TypeOK, SFacts, GiveUp, Tracked, HomeAndNet, Go, imageRest, createRest, stepRest, commitRest, beginRest, unpackVars,
           AfterLosetup, AfterRecord, AfterVolume, AfterNetns, AfterBoot
    <2> QED BY <1>2, <2>1, <2>2, <2>3, <2>4, <2>5, CreateMoves DEF SFacts
<1> QED BY <1>3, <1>4, <1>5

(* The home disk and the network. *)
LEMMA AttachingHost ==
    ASSUME TypeOK, HostInv, NEW s \in Ids,
           Losetup(s) \/ RecordLoop(s) \/ AddVolume(s) \/ AddNetns(s) \/ SetupCNI(s)
    PROVE  HostInv'
<1>1. SFacts(s)
    BY DEF HostInv, SFacts
<1>2. Only(s) /\ UNCHANGED del /\ pc[s] \notin {"idle", "undo", "up", "failed"}
    BY DEF TypeOK, Losetup, RecordLoop, AddVolume, AddNetns, SetupCNI, Only,
       Go, SetTask, SetRec, Gain, Lose, RollBackContainer, imageRest, createRest, stepRest, commitRest, beginRest, unpackVars
<1>3. CASE Losetup(s)
    <2>1. s \notin unreleased' => Tracked(s)'
        BY <1>1, <1>3 DEF TypeOK, SFacts, Losetup, Tracked, Known, HomeAndNet, Go, Gain, Lose, SetRec, Detached, Recorded,
           RollBackContainer, imageRest, createRest, stepRest, commitRest, beginRest, unpackVars,
           AfterLosetup, AfterRecord, AfterVolume, AfterNetns, AfterBoot
    <2>2. Equipped(s)'
        BY <1>1, <1>3 DEF TypeOK, SFacts, Losetup, Equipped, Ordered, Ahead, Live, Go, SetTask, SetRec, Gain, Lose, Detached,
           RollBackContainer, CallOK, CallFails, Bootable, Startable, imageRest, createRest, stepRest, commitRest, beginRest, unpackVars
    <2>3. Ordered(s)' /\ pc'[s] \notin {"idle", "up"}
        BY <1>1, <1>3 DEF TypeOK, SFacts, Losetup, Ordered, Ahead, Go, SetTask, SetRec, Gain, Lose, RollBackContainer, imageRest, createRest, stepRest, commitRest, beginRest, unpackVars
    <2>4. (Ahead(s)' => Ahead(s)) /\ ~Live(s)'
        BY <1>1, <1>3 DEF TypeOK, SFacts, Losetup, Ordered, Ahead, Live, Go, SetTask, SetRec, RollBackContainer, imageRest, createRest, stepRest, commitRest, beginRest, unpackVars
    <2>5. pc'[s] = "failed" /\ s \notin unreleased' => held'[s] \cap HomeAndNet = {}
        BY <1>1, <1>3 DEF TypeOK, SFacts, Losetup, Tracked, HomeAndNet, Go, imageRest, createRest, stepRest, commitRest, beginRest, unpackVars,
           AfterLosetup, AfterRecord, AfterVolume, AfterNetns, AfterBoot
    <2> QED BY <1>2, <2>1, <2>2, <2>3, <2>4, <2>5, CreateMoves DEF SFacts
<1>4. CASE RecordLoop(s)
    <2>1. s \notin unreleased' => Tracked(s)'
        BY <1>1, <1>4 DEF TypeOK, SFacts, RecordLoop, Tracked, Known, HomeAndNet, Go, Gain, Lose, SetRec, Detached, Recorded,
           RollBackContainer, imageRest, createRest, stepRest, commitRest, beginRest, unpackVars,
           AfterLosetup, AfterRecord, AfterVolume, AfterNetns, AfterBoot
    <2>2. Equipped(s)'
        BY <1>1, <1>4 DEF TypeOK, SFacts, RecordLoop, Equipped, Ordered, Ahead, Live, Go, SetTask, SetRec, Gain, Lose, Detached,
           RollBackContainer, CallOK, CallFails, Bootable, Startable, imageRest, createRest, stepRest, commitRest, beginRest, unpackVars
    <2>3. Ordered(s)' /\ pc'[s] \notin {"idle", "up"}
        BY <1>1, <1>4 DEF TypeOK, SFacts, RecordLoop, Ordered, Ahead, Go, SetTask, SetRec, Gain, Lose, RollBackContainer, imageRest, createRest, stepRest, commitRest, beginRest, unpackVars
    <2>4. (Ahead(s)' => Ahead(s)) /\ ~Live(s)'
        BY <1>1, <1>4 DEF TypeOK, SFacts, RecordLoop, Ordered, Ahead, Live, Go, SetTask, SetRec, RollBackContainer, imageRest, createRest, stepRest, commitRest, beginRest, unpackVars
    <2>5. pc'[s] = "failed" /\ s \notin unreleased' => held'[s] \cap HomeAndNet = {}
        BY <1>1, <1>4 DEF TypeOK, SFacts, RecordLoop, Tracked, HomeAndNet, Go, imageRest, createRest, stepRest, commitRest, beginRest, unpackVars,
           AfterLosetup, AfterRecord, AfterVolume, AfterNetns, AfterBoot
    <2> QED BY <1>2, <2>1, <2>2, <2>3, <2>4, <2>5, CreateMoves DEF SFacts
<1>5. CASE AddVolume(s)
    <2>1. s \notin unreleased' => Tracked(s)'
        BY <1>1, <1>5 DEF TypeOK, SFacts, AddVolume, Tracked, Known, HomeAndNet, Go, Gain, Lose, SetRec, Detached, Recorded,
           RollBackContainer, imageRest, createRest, stepRest, commitRest, beginRest, unpackVars,
           AfterLosetup, AfterRecord, AfterVolume, AfterNetns, AfterBoot
    <2>2. Equipped(s)'
        BY <1>1, <1>5 DEF TypeOK, SFacts, AddVolume, Equipped, Ordered, Ahead, Live, Go, SetTask, SetRec, Gain, Lose, Detached,
           RollBackContainer, CallOK, CallFails, Bootable, Startable, imageRest, createRest, stepRest, commitRest, beginRest, unpackVars
    <2>3. Ordered(s)' /\ pc'[s] \notin {"idle", "up"}
        BY <1>1, <1>5 DEF TypeOK, SFacts, AddVolume, Ordered, Ahead, Go, SetTask, SetRec, Gain, Lose, RollBackContainer, imageRest, createRest, stepRest, commitRest, beginRest, unpackVars
    <2>4. (Ahead(s)' => Ahead(s)) /\ ~Live(s)'
        BY <1>1, <1>5 DEF TypeOK, SFacts, AddVolume, Ordered, Ahead, Live, Go, SetTask, SetRec, RollBackContainer, imageRest, createRest, stepRest, commitRest, beginRest, unpackVars
    <2>5. pc'[s] = "failed" /\ s \notin unreleased' => held'[s] \cap HomeAndNet = {}
        BY <1>1, <1>5 DEF TypeOK, SFacts, AddVolume, Tracked, HomeAndNet, Go, imageRest, createRest, stepRest, commitRest, beginRest, unpackVars,
           AfterLosetup, AfterRecord, AfterVolume, AfterNetns, AfterBoot
    <2> QED BY <1>2, <2>1, <2>2, <2>3, <2>4, <2>5, CreateMoves DEF SFacts
<1>6. CASE AddNetns(s)
    <2>1. s \notin unreleased' => Tracked(s)'
        BY <1>1, <1>6 DEF TypeOK, SFacts, AddNetns, Tracked, Known, HomeAndNet, Go, Gain, Lose, SetRec, Detached, Recorded,
           RollBackContainer, imageRest, createRest, stepRest, commitRest, beginRest, unpackVars,
           AfterLosetup, AfterRecord, AfterVolume, AfterNetns, AfterBoot
    <2>2. Equipped(s)'
        BY <1>1, <1>6 DEF TypeOK, SFacts, AddNetns, Equipped, Ordered, Ahead, Live, Go, SetTask, SetRec, Gain, Lose, Detached,
           RollBackContainer, CallOK, CallFails, Bootable, Startable, imageRest, createRest, stepRest, commitRest, beginRest, unpackVars
    <2>3. Ordered(s)' /\ pc'[s] \notin {"idle", "up"}
        BY <1>1, <1>6 DEF TypeOK, SFacts, AddNetns, Ordered, Ahead, Go, SetTask, SetRec, Gain, Lose, RollBackContainer, imageRest, createRest, stepRest, commitRest, beginRest, unpackVars
    <2>4. (Ahead(s)' => Ahead(s)) /\ ~Live(s)'
        BY <1>1, <1>6 DEF TypeOK, SFacts, AddNetns, Ordered, Ahead, Live, Go, SetTask, SetRec, RollBackContainer, imageRest, createRest, stepRest, commitRest, beginRest, unpackVars
    <2>5. pc'[s] = "failed" /\ s \notin unreleased' => held'[s] \cap HomeAndNet = {}
        BY <1>1, <1>6 DEF TypeOK, SFacts, AddNetns, Tracked, HomeAndNet, Go, imageRest, createRest, stepRest, commitRest, beginRest, unpackVars,
           AfterLosetup, AfterRecord, AfterVolume, AfterNetns, AfterBoot
    <2> QED BY <1>2, <2>1, <2>2, <2>3, <2>4, <2>5, CreateMoves DEF SFacts
<1>7. CASE SetupCNI(s)
    <2>1. s \notin unreleased' => Tracked(s)'
        BY <1>1, <1>7 DEF TypeOK, SFacts, SetupCNI, Tracked, Known, HomeAndNet, Go, Gain, Lose, SetRec, Detached, Recorded,
           RollBackContainer, imageRest, createRest, stepRest, commitRest, beginRest, unpackVars,
           AfterLosetup, AfterRecord, AfterVolume, AfterNetns, AfterBoot
    <2>2. Equipped(s)'
        BY <1>1, <1>7 DEF TypeOK, SFacts, SetupCNI, Equipped, Ordered, Ahead, Live, Go, SetTask, SetRec, Gain, Lose, Detached,
           RollBackContainer, CallOK, CallFails, Bootable, Startable, imageRest, createRest, stepRest, commitRest, beginRest, unpackVars
    <2>3. Ordered(s)' /\ pc'[s] \notin {"idle", "up"}
        BY <1>1, <1>7 DEF TypeOK, SFacts, SetupCNI, Ordered, Ahead, Go, SetTask, SetRec, Gain, Lose, RollBackContainer, imageRest, createRest, stepRest, commitRest, beginRest, unpackVars
    <2>4. (Ahead(s)' => Ahead(s)) /\ ~Live(s)'
        BY <1>1, <1>7 DEF TypeOK, SFacts, SetupCNI, Ordered, Ahead, Live, Go, SetTask, SetRec, RollBackContainer, imageRest, createRest, stepRest, commitRest, beginRest, unpackVars
    <2>5. pc'[s] = "failed" /\ s \notin unreleased' => held'[s] \cap HomeAndNet = {}
        BY <1>1, <1>7 DEF TypeOK, SFacts, SetupCNI, Tracked, HomeAndNet, Go, imageRest, createRest, stepRest, commitRest, beginRest, unpackVars,
           AfterLosetup, AfterRecord, AfterVolume, AfterNetns, AfterBoot
    <2> QED BY <1>2, <2>1, <2>2, <2>3, <2>4, <2>5, CreateMoves DEF SFacts
<1> QED BY <1>3, <1>4, <1>5, <1>6, <1>7

(* Container and task. *)
LEMMA BootingHost ==
    ASSUME TypeOK, HostInv, NEW s \in Ids,
           NewContainer(s) \/ NewTask(s) \/ Start(s)
    PROVE  HostInv'
<1>1. SFacts(s)
    BY DEF HostInv, SFacts
<1>2. Only(s) /\ UNCHANGED del /\ pc[s] \notin {"idle", "undo", "up", "failed"}
    BY DEF TypeOK, NewContainer, NewTask, Start, Only,
       Go, SetTask, SetRec, Gain, Lose, RollBackContainer, imageRest, createRest, stepRest, commitRest, beginRest, unpackVars
<1>3. CASE NewContainer(s)
    <2>1. s \notin unreleased' => Tracked(s)'
        BY <1>1, <1>3 DEF TypeOK, SFacts, NewContainer, Tracked, Known, HomeAndNet, Go, Gain, Lose, SetRec, Detached, Recorded,
           RollBackContainer, imageRest, createRest, stepRest, commitRest, beginRest, unpackVars,
           AfterLosetup, AfterRecord, AfterVolume, AfterNetns, AfterBoot
    <2>2. Equipped(s)'
        BY <1>1, <1>3 DEF TypeOK, SFacts, NewContainer, Equipped, Ordered, Ahead, Live, Go, SetTask, SetRec, Gain, Lose, Detached,
           RollBackContainer, CallOK, CallFails, Bootable, Startable, imageRest, createRest, stepRest, commitRest, beginRest, unpackVars
    <2>3. Ordered(s)' /\ pc'[s] \notin {"idle", "up"}
        BY <1>1, <1>3 DEF TypeOK, SFacts, NewContainer, Ordered, Ahead, Go, SetTask, SetRec, Gain, Lose, RollBackContainer, imageRest, createRest, stepRest, commitRest, beginRest, unpackVars
    <2>4. (Ahead(s)' => Ahead(s)) /\ ~Live(s)'
        BY <1>1, <1>3 DEF TypeOK, SFacts, NewContainer, Ordered, Ahead, Live, Go, SetTask, SetRec, RollBackContainer, imageRest, createRest, stepRest, commitRest, beginRest, unpackVars
    <2>5. pc'[s] = "failed" /\ s \notin unreleased' => held'[s] \cap HomeAndNet = {}
        BY <1>1, <1>3 DEF TypeOK, SFacts, NewContainer, Tracked, HomeAndNet, Go, imageRest, createRest, stepRest, commitRest, beginRest, unpackVars,
           AfterLosetup, AfterRecord, AfterVolume, AfterNetns, AfterBoot
    <2> QED BY <1>2, <2>1, <2>2, <2>3, <2>4, <2>5, CreateMoves DEF SFacts
<1>4. CASE NewTask(s)
    <2>1. s \notin unreleased' => Tracked(s)'
        BY <1>1, <1>4 DEF TypeOK, SFacts, NewTask, Tracked, Known, HomeAndNet, Go, Gain, Lose, SetRec, Detached, Recorded,
           RollBackContainer, imageRest, createRest, stepRest, commitRest, beginRest, unpackVars,
           AfterLosetup, AfterRecord, AfterVolume, AfterNetns, AfterBoot
    <2>2. Equipped(s)'
        BY <1>1, <1>4 DEF TypeOK, SFacts, NewTask, Equipped, Ordered, Ahead, Live, Go, SetTask, SetRec, Gain, Lose, Detached,
           RollBackContainer, CallOK, CallFails, Bootable, Startable, imageRest, createRest, stepRest, commitRest, beginRest, unpackVars
    <2>3. Ordered(s)' /\ pc'[s] \notin {"idle", "up"}
        BY <1>1, <1>4 DEF TypeOK, SFacts, NewTask, Ordered, Ahead, Go, SetTask, SetRec, Gain, Lose, RollBackContainer, imageRest, createRest, stepRest, commitRest, beginRest, unpackVars
    <2>4. (Ahead(s)' => Ahead(s)) /\ ~Live(s)'
        BY <1>1, <1>4 DEF TypeOK, SFacts, NewTask, Ordered, Ahead, Live, Go, SetTask, SetRec, RollBackContainer, imageRest, createRest, stepRest, commitRest, beginRest, unpackVars
    <2>5. pc'[s] = "failed" /\ s \notin unreleased' => held'[s] \cap HomeAndNet = {}
        BY <1>1, <1>4 DEF TypeOK, SFacts, NewTask, Tracked, HomeAndNet, Go, imageRest, createRest, stepRest, commitRest, beginRest, unpackVars,
           AfterLosetup, AfterRecord, AfterVolume, AfterNetns, AfterBoot
    <2> QED BY <1>2, <2>1, <2>2, <2>3, <2>4, <2>5, CreateMoves DEF SFacts
<1>5. CASE Start(s)
    <2>1. s \notin unreleased' => Tracked(s)'
        BY <1>1, <1>5 DEF TypeOK, SFacts, Start, Tracked, Known, HomeAndNet, Go, Gain, Lose, SetRec, Detached, Recorded,
           RollBackContainer, imageRest, createRest, stepRest, commitRest, beginRest, unpackVars,
           AfterLosetup, AfterRecord, AfterVolume, AfterNetns, AfterBoot
    <2>2. Equipped(s)'
        BY <1>1, <1>5 DEF TypeOK, SFacts, Start, Equipped, Ordered, Ahead, Live, Go, SetTask, SetRec, Gain, Lose, Detached,
           RollBackContainer, CallOK, CallFails, Bootable, Startable, imageRest, createRest, stepRest, commitRest, beginRest, unpackVars
    <2>3. Ordered(s)' /\ pc'[s] \notin {"idle", "up"}
        BY <1>1, <1>5 DEF TypeOK, SFacts, Start, Ordered, Ahead, Go, SetTask, SetRec, Gain, Lose, RollBackContainer, imageRest, createRest, stepRest, commitRest, beginRest, unpackVars
    <2>4. (Ahead(s)' => Ahead(s)) /\ ~Live(s)'
        BY <1>1, <1>5 DEF TypeOK, SFacts, Start, Ordered, Ahead, Live, Go, SetTask, SetRec, RollBackContainer, imageRest, createRest, stepRest, commitRest, beginRest, unpackVars
    <2>5. pc'[s] = "failed" /\ s \notin unreleased' => held'[s] \cap HomeAndNet = {}
        BY <1>1, <1>5 DEF TypeOK, SFacts, Start, Tracked, HomeAndNet, Go, imageRest, createRest, stepRest, commitRest, beginRest, unpackVars,
           AfterLosetup, AfterRecord, AfterVolume, AfterNetns, AfterBoot
    <2> QED BY <1>2, <2>1, <2>2, <2>3, <2>4, <2>5, CreateMoves DEF SFacts
<1> QED BY <1>3, <1>4, <1>5

(* The rollback. *)
LEMMA UndoingHost ==
    ASSUME TypeOK, HostInv, NEW s \in Ids,
           TeardownNet(s) \/ DetachHome(s) \/ FailCreate(s)
    PROVE  HostInv'
<1>1. SFacts(s)
    BY DEF HostInv, SFacts
<1>2. Only(s) /\ UNCHANGED del /\ pc[s] \notin {"idle", "undo", "up", "failed"}
    BY DEF TypeOK, TeardownNet, DetachHome, FailCreate, Only,
       Go, SetTask, SetRec, Gain, Lose, RollBackContainer, imageRest, createRest, stepRest, commitRest, beginRest, unpackVars
<1>3. CASE TeardownNet(s)
    <2>1. s \notin unreleased' => Tracked(s)'
        BY <1>1, <1>3 DEF TypeOK, SFacts, TeardownNet, Tracked, Known, HomeAndNet, Go, Gain, Lose, SetRec, Detached, Recorded,
           RollBackContainer, imageRest, createRest, stepRest, commitRest, beginRest, unpackVars,
           AfterLosetup, AfterRecord, AfterVolume, AfterNetns, AfterBoot
    <2>2. Equipped(s)'
        BY <1>1, <1>3 DEF TypeOK, SFacts, TeardownNet, Equipped, Ordered, Ahead, Live, Go, SetTask, SetRec, Gain, Lose, Detached,
           RollBackContainer, CallOK, CallFails, Bootable, Startable, imageRest, createRest, stepRest, commitRest, beginRest, unpackVars
    <2>3. Ordered(s)' /\ pc'[s] \notin {"idle", "up"}
        BY <1>1, <1>3 DEF TypeOK, SFacts, TeardownNet, Ordered, Ahead, Go, SetTask, SetRec, Gain, Lose, RollBackContainer, imageRest, createRest, stepRest, commitRest, beginRest, unpackVars
    <2>4. (Ahead(s)' => Ahead(s)) /\ ~Live(s)'
        BY <1>1, <1>3 DEF TypeOK, SFacts, TeardownNet, Ordered, Ahead, Live, Go, SetTask, SetRec, RollBackContainer, imageRest, createRest, stepRest, commitRest, beginRest, unpackVars
    <2>5. pc'[s] = "failed" /\ s \notin unreleased' => held'[s] \cap HomeAndNet = {}
        BY <1>1, <1>3 DEF TypeOK, SFacts, TeardownNet, Tracked, HomeAndNet, Go, imageRest, createRest, stepRest, commitRest, beginRest, unpackVars,
           AfterLosetup, AfterRecord, AfterVolume, AfterNetns, AfterBoot
    <2> QED BY <1>2, <2>1, <2>2, <2>3, <2>4, <2>5, CreateMoves DEF SFacts
<1>4. CASE DetachHome(s)
    <2>1. s \notin unreleased' => Tracked(s)'
        BY <1>1, <1>4 DEF TypeOK, SFacts, DetachHome, Tracked, Known, HomeAndNet, Go, Gain, Lose, SetRec, Detached, Recorded,
           RollBackContainer, imageRest, createRest, stepRest, commitRest, beginRest, unpackVars,
           AfterLosetup, AfterRecord, AfterVolume, AfterNetns, AfterBoot
    <2>2. Equipped(s)'
        BY <1>1, <1>4 DEF TypeOK, SFacts, DetachHome, Equipped, Ordered, Ahead, Live, Go, SetTask, SetRec, Gain, Lose, Detached,
           RollBackContainer, CallOK, CallFails, Bootable, Startable, imageRest, createRest, stepRest, commitRest, beginRest, unpackVars
    <2>3. Ordered(s)' /\ pc'[s] \notin {"idle", "up"}
        BY <1>1, <1>4 DEF TypeOK, SFacts, DetachHome, Ordered, Ahead, Go, SetTask, SetRec, Gain, Lose, RollBackContainer, imageRest, createRest, stepRest, commitRest, beginRest, unpackVars
    <2>4. (Ahead(s)' => Ahead(s)) /\ ~Live(s)'
        BY <1>1, <1>4 DEF TypeOK, SFacts, DetachHome, Ordered, Ahead, Live, Go, SetTask, SetRec, RollBackContainer, imageRest, createRest, stepRest, commitRest, beginRest, unpackVars
    <2>5. pc'[s] = "failed" /\ s \notin unreleased' => held'[s] \cap HomeAndNet = {}
        BY <1>1, <1>4 DEF TypeOK, SFacts, DetachHome, Tracked, HomeAndNet, Go, imageRest, createRest, stepRest, commitRest, beginRest, unpackVars,
           AfterLosetup, AfterRecord, AfterVolume, AfterNetns, AfterBoot
    <2> QED BY <1>2, <2>1, <2>2, <2>3, <2>4, <2>5, CreateMoves DEF SFacts
<1>5. CASE FailCreate(s)
    <2>1. s \notin unreleased' => Tracked(s)'
        BY <1>1, <1>5 DEF TypeOK, SFacts, FailCreate, Tracked, Known, HomeAndNet, Go, Gain, Lose, SetRec, Detached, Recorded,
           RollBackContainer, imageRest, createRest, stepRest, commitRest, beginRest, unpackVars,
           AfterLosetup, AfterRecord, AfterVolume, AfterNetns, AfterBoot
    <2>2. Equipped(s)'
        BY <1>1, <1>5 DEF TypeOK, SFacts, FailCreate, Equipped, Ordered, Ahead, Live, Go, SetTask, SetRec, Gain, Lose, Detached,
           RollBackContainer, CallOK, CallFails, Bootable, Startable, imageRest, createRest, stepRest, commitRest, beginRest, unpackVars
    <2>3. Ordered(s)' /\ pc'[s] \notin {"idle", "up"}
        BY <1>1, <1>5 DEF TypeOK, SFacts, FailCreate, Ordered, Ahead, Go, SetTask, SetRec, Gain, Lose, RollBackContainer, imageRest, createRest, stepRest, commitRest, beginRest, unpackVars
    <2>4. (Ahead(s)' => Ahead(s)) /\ ~Live(s)'
        BY <1>1, <1>5 DEF TypeOK, SFacts, FailCreate, Ordered, Ahead, Live, Go, SetTask, SetRec, RollBackContainer, imageRest, createRest, stepRest, commitRest, beginRest, unpackVars
    <2>5. pc'[s] = "failed" /\ s \notin unreleased' => held'[s] \cap HomeAndNet = {}
        BY <1>1, <1>5 DEF TypeOK, SFacts, FailCreate, Tracked, HomeAndNet, Go, imageRest, createRest, stepRest, commitRest, beginRest, unpackVars,
           AfterLosetup, AfterRecord, AfterVolume, AfterNetns, AfterBoot
    <2> QED BY <1>2, <2>1, <2>2, <2>3, <2>4, <2>5, CreateMoves DEF SFacts
<1> QED BY <1>3, <1>4, <1>5

(* A Create begins: nobody deletes a sandbox that has never been. *)
LEMMA CreateBeginHost ==
    ASSUME TypeOK, HostInv, NEW s \in Ids, CreateBegin(s) PROVE HostInv'
<1>1. SFacts(s)
    BY DEF HostInv, SFacts
<1>2. Only(s) /\ UNCHANGED del /\ pc[s] = "idle"
    BY DEF TypeOK, CreateBegin, Only, Go, SetRec
<1>3. SFacts(s)'
    BY <1>1 DEF TypeOK, CreateBegin, SFacts, Tracked, Known, HomeAndNet, Equipped, Ordered, Ahead, Live, Go, SetRec,
       AfterLosetup, AfterRecord, AfterVolume, AfterNetns, AfterBoot
<1>4. ASSUME NEW c \in Callers PROVE Late(c)'
    <2> SUFFICES ASSUME del[c].at # "idle" PROVE Late(c)'
        BY <1>2 DEF Late
    <2>1. del[c].id # s
        BY <1>2 DEF HostInv, Late
    <2> QED BY <1>2, <2>1, LateElsewhere
<1> QED BY <1>2, <1>3, <1>4, OthersStay

(* A deadline passes, or a guest dies: s only loses claims. *)
LEMMA PassingHost ==
    ASSUME TypeOK, HostInv, NEW s \in Ids, Expire(s) \/ VMDies(s) PROVE HostInv'
<1>1. SFacts(s)
    BY DEF HostInv, SFacts
<1>2. Only(s) /\ UNCHANGED <<del, pc>>
    BY DEF TypeOK, Expire, VMDies, Only, SetTask, Lose
<1>3. SFacts(s)'
    <2>1. CASE Expire(s)
        BY <1>1, <2>1 DEF TypeOK, Expire, SFacts, Tracked, Known, Equipped, Ordered, Ahead, Live
    <2>2. CASE VMDies(s)
        BY <1>1, <2>2 DEF TypeOK, VMDies, SFacts, Tracked, Known, HomeAndNet, Equipped, Ordered, Ahead, Live, SetTask, Lose
    <2> QED BY <2>1, <2>2
<1>4. /\ Ahead(s)' => Ahead(s)
      /\ Live(s)' => Live(s)
      /\ held'[s] \subseteq held[s] /\ unreleased' = unreleased
    BY DEF TypeOK, Expire, VMDies, Ahead, Live, SetTask, Lose
<1>5. ASSUME NEW c \in Callers PROVE Late(c)'
    <2> SUFFICES ASSUME del[c].at # "idle" PROVE Late(c)'
        BY <1>2 DEF Late
    <2>1. CASE del[c].id # s
        BY <1>2, <2>1, LateElsewhere
    <2>2. CASE del[c].id = s
        BY <1>2, <1>4, <2>2 DEF HostInv, Late
    <2> QED BY <2>1, <2>2
<1> QED BY <1>2, <1>3, <1>5, OthersStay

(* PutRunning: a VM is accepted only when no Delete has overtaken it. *)
LEMMA CommitHost ==
    ASSUME TypeOK, HostInv, NEW s \in Ids, Commit(s) PROVE HostInv'
<1>1. SFacts(s)
    BY DEF HostInv, SFacts
<1>2. Only(s) /\ pc[s] = "commit" /\ UNCHANGED <<held, task, expired, unreleased>>
    BY DEF TypeOK, Commit, Only, Go, SetRec, commitRest
<1>3. s \notin unreleased' => Tracked(s)'
    BY <1>1 DEF TypeOK, SFacts, Commit, Tracked, Known, HomeAndNet, Go, SetRec, commitRest, unpackVars,
       AfterLosetup, AfterRecord, AfterVolume, AfterNetns, AfterBoot
<1>4. Equipped(s)'
    BY <1>1 DEF TypeOK, SFacts, Commit, Equipped, Ordered, Ahead, Live, Go, SetRec, commitRest, unpackVars
<1>5. Ordered(s)'
    BY <1>1 DEF TypeOK, SFacts, Commit, Ordered, Ahead, Go, SetRec, commitRest, unpackVars
<1>6. CASE UNCHANGED del
    <2>1. pc'[s] \in {"up", "undo"} /\ ~Ahead(s)'
        BY DEF TypeOK, Commit, Go, Ahead
    <2>2. pc'[s] = "up"
        <3>1. SetFrame(s, NewFrame(s)) => ~UNCHANGED del
            <4>1. s \in Callers /\ NewFrame(s).at = "lookup"
                BY CallerFacts DEF NewFrame
            <4>2. del[s].at = "idle"
                BY <1>2, <4>1 DEF HostInv, Late
            <4> QED BY <4>1, <4>2 DEF SetFrame, TypeOK
        <3> QED BY <1>6, <3>1 DEF Commit, Go, TypeOK
    <2>3. Ahead(s)
        BY <1>2, <2>2 DEF Commit, Ahead, Go, TypeOK
    <2> QED BY <1>2, <1>3, <1>4, <1>5, <1>6, <2>1, <2>2, <2>3, CreateMoves DEF SFacts
<1>7. CASE SetFrame(s, NewFrame(s)) /\ pc'[s] = "undo"
    <2>1. ASSUME NEW c \in Callers PROVE Late(c)'
        <3>1. CASE c = s
            BY <1>7, <3>1, CallerFacts DEF TypeOK, SetFrame, NewFrame, Late, Ahead
        <3>2. CASE c # s
            <4>1. del'[c] = del[c]
                BY <1>7, <3>2 DEF TypeOK, SetFrame
            <4> SUFFICES ASSUME del[c].at # "idle" PROVE Late(c)'
                BY <4>1 DEF Late
            <4>2. CASE del[c].id # s
                BY <1>2, <4>1, <4>2, LateElsewhere
            <4>3. CASE del[c].id = s
                <5>1. ~Ahead(s) /\ c \notin Ids
                    BY <3>2, <4>3 DEF HostInv, Late
                <5>2. ~Live(s)' /\ ~Ahead(s)'
                    BY <1>1, <1>2, <1>7, <5>1 DEF TypeOK, SFacts, Commit, Ordered, Ahead, Live, Go, SetRec
                <5> QED BY <1>7, <3>2, <4>1, <4>3, <5>1, <5>2 DEF Late
            <4> QED BY <4>2, <4>3
        <3> QED BY <3>1, <3>2
    <2> QED BY <1>2, <1>3, <1>4, <1>5, <2>1, OthersStay DEF SFacts
<1> QED BY <1>6, <1>7 DEF Commit, Go, TypeOK

(* A Delete begins: it marks the record, or the Create is late. *)
LEMMA BeginningHost ==
    ASSUME TypeOK, HostInv, NEW s \in Ids, DeleteBegin(s) \/ DeleteDead(s) \/ CleanupStopped(s)
    PROVE  HostInv'
<1>1. SFacts(s)
    BY DEF HostInv, SFacts
<1>2. Only(s) /\ UNCHANGED <<pc, held, task, expired, unreleased>>
    BY DEF TypeOK, DeleteBegin, DeleteDead, CleanupStopped, Only, SetRec, beginRest
<1>3. (rec'[s] = "doomed" /\ rec[s] # "none") \/ UNCHANGED rec
    BY DEF TypeOK, DeleteBegin, DeleteDead, CleanupStopped, SetRec, Known
<1>4. SFacts(s)'
    BY <1>1, <1>2, <1>3 DEF SFacts, Tracked, Known, Equipped, Ordered, Ahead, Live
<1>5. ASSUME NEW c \in Callers, del'[c] = del[c] PROVE Late(c)'
    <2> SUFFICES ASSUME del[c].at # "idle" PROVE Late(c)'
        BY <1>5 DEF Late
    <2>1. CASE del[c].id # s
        BY <1>2, <1>5, <2>1, LateElsewhere
    <2>2. CASE del[c].id = s
        BY <1>2, <1>3, <1>5, <2>2 DEF HostInv, Late, Ahead, Live
    <2> QED BY <2>1, <2>2
<1>6. ASSUME NEW c \in Callers, c \notin Ids, del'[c] = NewFrame(s) PROVE Late(c)'
    <2>1. pc[s] # "idle"
        BY <1>1 DEF SFacts, Ordered, DeleteBegin, DeleteDead, CleanupStopped, MayClean, Known
    <2>2. ~Ahead(s)'
        <3>1. CASE rec'[s] = "doomed"
            BY <3>1 DEF Ahead
        <3>2. CASE UNCHANGED rec /\ rec[s] # "doomed"
            <4>1. DeleteDead(s) \/ CleanupStopped(s)
                BY <3>2 DEF TypeOK, DeleteBegin, SetRec
            <4>2. InFlight(s) => s \in expired \/ rec[s] = "running"
                BY <4>1 DEF DeleteDead, CleanupStopped, MayClean
            <4> QED BY <1>2, <3>2, <4>2 DEF Ahead, InFlight
        <3> QED BY <1>3, <3>1, <3>2 DEF Ahead
    <2> QED BY <1>2, <1>6, <2>1, <2>2 DEF Late, NewFrame
<1>7. ASSUME NEW c \in Callers PROVE Late(c)'
    <2>1. "service" \notin Ids /\ "sweep" \notin Ids
        BY VMManagerAssumption
    <2>2. del'[c] = del[c] \/ (c \notin Ids /\ del'[c] = NewFrame(s))
        BY <2>1, CallerFacts DEF TypeOK, DeleteBegin, DeleteDead, CleanupStopped, SetFrame
    <2> QED BY <1>5, <1>6, <2>2
<1> QED BY <1>2, <1>4, <1>7, OthersStay

(* A step of a Delete: s only loses, and the VM is not started by it.      *)
Shrinks(s) ==
    /\ held'[s] \subseteq held[s]
    /\ task'[s] = "running" => task[s] = "running"
    /\ rec'[s] \in {rec[s], "none"}
    /\ UNCHANGED unreleased

LEMMA DeleteMoves ==
    ASSUME TypeOK, HostInv, NEW s \in Ids, NEW c \in Callers, Only(s), Shrinks(s), SFacts(s)',
           del[c].at # "idle", del[c].id = s, UNCHANGED pc, UNCHANGED expired,
           \A d \in Callers \ {c} : del'[d] = del[d], Late(c)'
    PROVE  HostInv'
<1>1. (Ahead(s)' => Ahead(s)) /\ (Live(s)' => Live(s))
    BY DEF Ahead, Live, Shrinks
<1>2. ASSUME NEW d \in Callers PROVE Late(d)'
    <2>1. CASE d = c
        BY <2>1
    <2>2. CASE d # c
        <3>1. del'[d] = del[d]
            BY <2>2
        <3> SUFFICES ASSUME del[d].at # "idle" PROVE Late(d)'
            BY <3>1 DEF Late
        <3>2. CASE del[d].id # s
            BY <3>1, <3>2, LateElsewhere
        <3>3. CASE del[d].id = s
            BY <1>1, <3>1, <3>3 DEF HostInv, Late, Shrinks
        <3> QED BY <3>2, <3>3
    <2> QED BY <2>1, <2>2
<1> QED BY <1>2, OthersStay

LEMMA DeletingHost ==
    ASSUME TypeOK, HostInv, NEW c \in Callers,
           Lookup(c) \/ Kill(c) \/ KillVMM(c) \/ FreeNet(c) \/ FreeHome(c)
    PROVE  HostInv'
<1>a. del[c].at # "idle"
    BY DEF Lookup, Kill, KillVMM, FreeNet, FreeHome
<1>b. PICK s \in Ids : s = del[c].id
    BY <1>a, FrameFacts
<1>1. SFacts(s) /\ Late(c)
    BY DEF HostInv, SFacts
<1>2. Only(s) /\ UNCHANGED <<pc, expired, rec, unreleased>>
    BY <1>b DEF TypeOK, Lookup, Kill, KillVMM, FreeNet, FreeHome, Only, SetTask, Lose, delRest
<1>3. Shrinks(s)
    BY <1>b DEF TypeOK, Lookup, Kill, KillVMM, FreeNet, FreeHome, Shrinks, SetTask, Lose, Stopped, Detached, delRest
<1>4. \A d \in Callers \ {c} : del'[d] = del[d]
    BY FrameMoves DEF TypeOK, DeleteStep, NextAt
<1>5. CASE Lookup(c)
    <2>1. del'[c].at \in {"kill", "vmm"} /\ (del'[c].at # "idle" => del'[c].id = s)
        BY <1>b, <1>5, FrameMoves DEF TypeOK, DeleteStep, NextAt, NoFrame
    <2>2. s \notin unreleased' => Tracked(s)'
        BY <1>b, <1>1, <1>2, <1>5 DEF TypeOK, SFacts, Lookup, Tracked, Known, HomeAndNet, Lose, Detached, Recorded, delRest
    <2>3. Equipped(s)' /\ Ordered(s)'
        BY <1>a, <1>b, <1>1, <1>2, <1>5 DEF TypeOK, SFacts, Lookup, Equipped, Ordered, Ahead, Live, Late, SetTask, Lose, Stopped, delRest
    <2>4. Late(c)'
        BY <1>b, <1>1, <1>2, <1>5, <2>1 DEF TypeOK, SFacts, Lookup, Tracked, Late, Ahead, Live, HomeAndNet, SetTask, Lose, Stopped,
           Detached, Recorded, delRest
    <2> QED BY <1>a, <1>b, <1>2, <1>3, <1>4, <2>2, <2>3, <2>4, DeleteMoves DEF SFacts
<1>6. CASE Kill(c)
    <2>1. del'[c].at = "vmm" /\ (del'[c].at # "idle" => del'[c].id = s)
        BY <1>b, <1>6, FrameMoves DEF TypeOK, DeleteStep, NextAt, NoFrame
    <2>2. s \notin unreleased' => Tracked(s)'
        BY <1>b, <1>1, <1>2, <1>6 DEF TypeOK, SFacts, Kill, Tracked, Known, HomeAndNet, Lose, Detached, Recorded, delRest
    <2>3. Equipped(s)' /\ Ordered(s)'
        BY <1>a, <1>b, <1>1, <1>2, <1>6 DEF TypeOK, SFacts, Kill, Equipped, Ordered, Ahead, Live, Late, SetTask, Lose, Stopped, delRest
    <2>4. Late(c)'
        BY <1>b, <1>1, <1>2, <1>6, <2>1 DEF TypeOK, SFacts, Kill, Tracked, Late, Ahead, Live, HomeAndNet, SetTask, Lose, Stopped,
           Detached, Recorded, delRest
    <2> QED BY <1>a, <1>b, <1>2, <1>3, <1>4, <2>2, <2>3, <2>4, DeleteMoves DEF SFacts
<1>7. CASE KillVMM(c)
    <2>1. del'[c].at = "net" /\ (del'[c].at # "idle" => del'[c].id = s)
        BY <1>b, <1>7, FrameMoves DEF TypeOK, DeleteStep, NextAt, NoFrame
    <2>2. s \notin unreleased' => Tracked(s)'
        BY <1>b, <1>1, <1>2, <1>7 DEF TypeOK, SFacts, KillVMM, Tracked, Known, HomeAndNet, Lose, Detached, Recorded, delRest
    <2>3. Equipped(s)' /\ Ordered(s)'
        BY <1>a, <1>b, <1>1, <1>2, <1>7 DEF TypeOK, SFacts, KillVMM, Equipped, Ordered, Ahead, Live, Late, SetTask, Lose, Stopped, delRest
    <2>4. Late(c)'
        BY <1>b, <1>1, <1>2, <1>7, <2>1 DEF TypeOK, SFacts, KillVMM, Tracked, Late, Ahead, Live, HomeAndNet, SetTask, Lose, Stopped,
           Detached, Recorded, delRest
    <2> QED BY <1>a, <1>b, <1>2, <1>3, <1>4, <2>2, <2>3, <2>4, DeleteMoves DEF SFacts
<1>8. CASE FreeNet(c)
    <2>1. del'[c].at = "home" /\ (del'[c].at # "idle" => del'[c].id = s)
        BY <1>b, <1>8, FrameMoves DEF TypeOK, DeleteStep, NextAt, NoFrame
    <2>2. s \notin unreleased' => Tracked(s)'
        BY <1>b, <1>1, <1>2, <1>8 DEF TypeOK, SFacts, FreeNet, Tracked, Known, HomeAndNet, Lose, Detached, Recorded, delRest
    <2>3. Equipped(s)' /\ Ordered(s)'
        BY <1>a, <1>b, <1>1, <1>2, <1>8 DEF TypeOK, SFacts, FreeNet, Equipped, Ordered, Ahead, Live, Late, SetTask, Lose, Stopped, delRest
    <2>4. Late(c)'
        BY <1>b, <1>1, <1>2, <1>8, <2>1 DEF TypeOK, SFacts, FreeNet, Tracked, Late, Ahead, Live, HomeAndNet, SetTask, Lose, Stopped,
           Detached, Recorded, delRest
    <2> QED BY <1>a, <1>b, <1>2, <1>3, <1>4, <2>2, <2>3, <2>4, DeleteMoves DEF SFacts
<1>9. CASE FreeHome(c)
    <2>1. del'[c].at \in {"idle", "forget"} /\ (del'[c].at # "idle" => del'[c].id = s)
        BY <1>b, <1>9, FrameMoves DEF TypeOK, DeleteStep, NextAt, NoFrame
    <2>2. s \notin unreleased' => Tracked(s)'
        BY <1>b, <1>1, <1>2, <1>9 DEF TypeOK, SFacts, FreeHome, Tracked, Known, HomeAndNet, Lose, Detached, Recorded, delRest
    <2>3. Equipped(s)' /\ Ordered(s)'
        BY <1>a, <1>b, <1>1, <1>2, <1>9 DEF TypeOK, SFacts, FreeHome, Equipped, Ordered, Ahead, Live, Late, SetTask, Lose, Stopped, delRest
    <2>4. Late(c)'
        BY <1>b, <1>1, <1>2, <1>9, <2>1 DEF TypeOK, SFacts, FreeHome, Tracked, Late, Ahead, Live, HomeAndNet, SetTask, Lose, Stopped,
           Detached, Recorded, delRest
    <2> QED BY <1>a, <1>b, <1>2, <1>3, <1>4, <2>2, <2>3, <2>4, DeleteMoves DEF SFacts
<1> QED BY <1>5, <1>6, <1>7, <1>8, <1>9

(* finishTeardown ends a Delete, and with it a Create that undid itself. *)
LEMMA ForgetHost ==
    ASSUME TypeOK, HostInv, NEW c \in Callers, Forget(c) PROVE HostInv'
<1>a. del[c].at = "forget"
    BY DEF Forget
<1>b. PICK s \in Ids : s = del[c].id
    BY <1>a, FrameFacts
<1>1. SFacts(s) /\ Late(c)
    BY DEF HostInv, SFacts
<1>2. Only(s) /\ Shrinks(s)
    BY <1>b DEF TypeOK, Forget, Only, Shrinks, Go, SetRec
<1>3. /\ del'[c] = NoFrame /\ \A d \in Callers \ {c} : del'[d] = del[d]
      /\ Late(c)'
    BY DEF TypeOK, Forget, SetFrame, Late, NoFrame
<1>4. /\ UNCHANGED <<held, task, unreleased>>
      /\ rec'[s] \in {rec[s], "none"}
    BY <1>b DEF TypeOK, Forget, SetRec
<1>5. CASE c # s
    <2>1. UNCHANGED <<pc, expired>>
        BY <1>b, <1>5 DEF Forget
    <2>2. s \notin unreleased' => Tracked(s)'
        BY <1>a, <1>b, <1>1, <1>4, <2>1 DEF SFacts, Tracked, Known, Late, HomeAndNet
    <2>3. Equipped(s)' /\ Ordered(s)'
        BY <1>1, <1>4, <2>1 DEF SFacts, Equipped, Ordered, Ahead, Live
    <2> QED BY <1>a, <1>b, <1>2, <1>3, <2>1, <2>2, <2>3, DeleteMoves DEF SFacts
<1>6. CASE c = s
    <2>1. pc[s] = "undo" /\ pc'[s] = "failed"
        BY <1>a, <1>b, <1>1, <1>6 DEF TypeOK, Forget, Late, Go
    <2>2. s \notin unreleased => held[s] \cap HomeAndNet = {}
        BY <1>a, <1>b, <1>1, <1>6 DEF Late
    <2>3. s \notin unreleased' => Tracked(s)'
        BY <1>1, <1>4, <2>1, <2>2 DEF SFacts, Tracked, Known, AfterLosetup, AfterRecord, AfterVolume, AfterNetns, AfterBoot
    <2>4. Equipped(s)' /\ Ordered(s)'
        BY <1>1, <1>4, <2>1 DEF SFacts, Equipped, Ordered, Ahead, Live
    <2>5. ASSUME NEW d \in Callers PROVE Late(d)'
        <3>1. CASE d = c
            BY <1>3, <3>1
        <3>2. CASE d # c
            <4>1. del'[d] = del[d]
                BY <1>3, <3>2
            <4> SUFFICES ASSUME del[d].at # "idle" PROVE Late(d)'
                BY <4>1 DEF Late
            <4>2. CASE del[d].id # s
                BY <1>2, <4>1, <4>2, LateElsewhere
            <4>3. CASE del[d].id = s
                <5>1. Live(s)' => Live(s)
                    BY <1>4, <2>1 DEF Live
                <5>2. ~Ahead(s)' /\ "netns" \in HomeAndNet
                    BY <2>1 DEF Ahead, HomeAndNet
                <5> QED BY <1>4, <1>6, <2>1, <2>2, <3>2, <4>1, <4>3, <5>1, <5>2 DEF HostInv, Late
            <4> QED BY <4>2, <4>3
        <3> QED BY <3>1, <3>2
    <2> QED BY <1>2, <2>3, <2>4, <2>5, OthersStay DEF SFacts
<1> QED BY <1>5, <1>6

LEMMA UnpackEndsHost ==
    ASSUME TypeOK, HostInv, UnpackEnds PROVE HostInv'
<1>0. /\ \A t \in Ids : pc'[t] = pc[t] \/ (pc[t] = "wait" /\ pc'[t] \in {"losetup", "failCreate"})
      /\ UNCHANGED <<held, task, rec, del, expired, unreleased>>
    BY DEF TypeOK, UnpackEnds, imageRest, createRest
<1>1. ASSUME NEW t \in Ids, t \notin unreleased' PROVE Tracked(t)'
    BY <1>0, <1>1 DEF HostInv, Tracked, Known, AfterLosetup, AfterRecord, AfterVolume, AfterNetns, AfterBoot
<1>2. ASSUME NEW t \in Ids PROVE Equipped(t)' /\ Ordered(t)'
    BY <1>0 DEF HostInv, Equipped, Ordered, Ahead, Live
<1>3. ASSUME NEW c \in Callers PROVE Late(c)'
    <2> SUFFICES ASSUME del[c].at # "idle" PROVE Late(c)'
        BY <1>0 DEF Late
    <2>1. PICK t \in Ids : t = del[c].id
        BY FrameFacts
    <2> QED BY <1>0, <2>1 DEF HostInv, Late, Ahead, Live
<1> QED BY <1>1, <1>2, <1>3 DEF HostInv

LEMMA CrashHost ==
    ASSUME TypeOK, HostInv, Crash PROVE HostInv'
<1>1. ASSUME NEW t \in Ids, t \notin unreleased' PROVE Tracked(t)'
    <2>1. t \notin unreleased /\ ~CutLoose(t) /\ Tracked(t)
        BY <1>1 DEF Crash, HostInv
    <2>2. CASE InFlight(t)
        <3>1. pc'[t] = "failed" /\ Known(t)
            BY <2>1, <2>2 DEF Crash, CutLoose
        <3> QED BY <2>1, <2>2, <3>1 DEF Crash, Tracked, Known, CutLoose, Recorded,
                AfterLosetup, AfterRecord, AfterVolume, AfterNetns, AfterBoot
    <2>3. CASE ~InFlight(t)
        BY <2>1, <2>3 DEF Crash, Tracked, Known
    <2> QED BY <2>2, <2>3
<1>2. ASSUME NEW t \in Ids PROVE Equipped(t)' /\ Ordered(t)'
    BY DEF HostInv, Crash, Equipped, Ordered, Ahead, Live, InFlight
<1>3. ASSUME NEW c \in Callers PROVE Late(c)'
    BY DEF Crash, Late, NoFrame
<1> QED BY <1>1, <1>2, <1>3 DEF HostInv

LEMMA HostNext == TypeOK /\ HostInv /\ [Next]_vars => HostInv'
<1> SUFFICES ASSUME TypeOK, HostInv, [Next]_vars PROVE HostInv'
    OBVIOUS
<1>1. ASSUME NEW s \in Ids, CreateBegin(s) \/ Expire(s) \/ CreateStep(s) \/ VMDies(s) PROVE HostInv'
    BY <1>1, CreateBeginHost, PassingHost, UnpackingHost, AttachingHost, BootingHost, CommitHost, UndoingHost DEF CreateStep
<1>2. ASSUME NEW s \in Ids, DeleteBegin(s) \/ DeleteDead(s) \/ CleanupStopped(s) PROVE HostInv'
    BY <1>2, BeginningHost
<1>3. ASSUME NEW c \in Callers, DeleteStep(c) PROVE HostInv'
    BY <1>3, DeletingHost, ForgetHost DEF DeleteStep
<1>4. CASE UNCHANGED vars
    <2>1. UNCHANGED <<pc, held, task, rec, del, expired, unreleased>>
        BY <1>4 DEF vars
    <2> QED BY <2>1 DEF HostInv, Tracked, Known, Equipped, Ordered, Ahead, Live, Late
<1> QED BY <1>1, <1>2, <1>3, <1>4, UnpackEndsHost, CrashHost DEF Next

LEMMA HostAlways == Spec => [](TypeOK /\ HostInv)
<1>1. Init => TypeOK /\ HostInv
    BY TypeInit, HostInit
<1>2. TypeOK /\ HostInv /\ [Next]_vars => TypeOK' /\ HostInv'
    BY TypeNext, HostNext
<1> QED BY <1>1, <1>2, PTL DEF Spec

(* The home disk, the netns and the snapshot of a Create that failed or    *)
(* was cut are given back or in somebody's hand (rollback in Create, its   *)
(* undo, Delete, CleanupStopped).                                          *)
THEOREM ResidueAlwaysInHand == Spec => []ResidueInHand
<1>1. TypeOK /\ HostInv => ResidueInHand
    <2> SUFFICES ASSUME TypeOK, HostInv, NEW s \in Ids \ unreleased, ~InHand(s)
                 PROVE  held[s] \cap HostResidue = {}
        BY DEF ResidueInHand
    <2>1. Tracked(s) /\ ~InFlight(s) /\ ~Known(s) /\ "container" \notin held[s]
        BY DEF HostInv, InHand
    <2>2. pc[s] \in {"idle", "up", "failed"}
        BY <2>1 DEF InFlight
    <2> QED BY <2>1, <2>2 DEF Tracked, HomeAndNet, HostResidue, AfterLosetup, AfterRecord, AfterVolume, AfterNetns, AfterBoot
<1> QED BY <1>1, HostAlways, PTL

(* No Delete, rollback or sweep, whenever it began, takes from a VM that   *)
(* the service has accepted what it runs on (PutRunning refuses a VM that  *)
(* a Delete has overtaken; Delete kills before it releases).               *)
THEOREM LiveVMAlwaysEquipped == Spec => []LiveVMKeepsItsResources
<1>1. HostInv => LiveVMKeepsItsResources
    BY DEF HostInv, Equipped, Live, LiveVMKeepsItsResources
<1> QED BY <1>1, HostAlways, PTL

=============================================================================
