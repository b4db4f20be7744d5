-------------------------- MODULE UserHomeProofs --------------------------
(* What the steps of EnsureDisk and ShrinkDisk keep of a home.img, for any *)
(* sizes, any number of failed calls and any number of restarts.           *)
EXTENDS UserHome, TLAPS

Flags == exists \in BOOLEAN /\ cut \in BOOLEAN /\ blind \in BOOLEAN

Types ==
    /\ pc \in {"idle", "ensure", "ready"} \cup ShrinkPC \cup GrowPC \cup FormatPC
    /\ want \in Sizes
    /\ size \in Sizes \cup {0} /\ fs \in Sizes \cup {0}
    /\ data \in Nat
    /\ Flags

(* What each call of the sequence may rely on from those before it. *)
Reached ==
    /\ ~exists => size = 0
    /\ pc \in ShrinkPC => exists /\ want < size
    /\ pc = "shrinkTruncate" => fs = want
    /\ pc = "grow" => exists /\ size < want
    /\ pc \in {"growCheck", "growResize"} => exists /\ size = want
    /\ pc = "create" /\ exists => blind
    /\ pc \in {"createTruncate", "mkfs"} => exists /\ fs = 0 /\ data = 0
    /\ pc = "createTruncate" => size = 0
    /\ pc = "mkfs" => size = want
    /\ pc = "ready" => exists /\ want <= size

(* Between two changes an image that was never cut is whole. *)
Settled == {"idle", "ensure", "ready", "shrink", "shrinkResize", "grow", "create"}
Whole == exists /\ ~cut /\ pc \in Settled => fs = size /\ fs > 0

Inv == Types /\ Reached /\ FilesystemFitsImage /\ Whole

(* Sizes are positive numbers. *)
LEMMA SizesPositive == \A w \in Sizes : w \in Nat /\ w > 0
BY UserHomeAssumption

LEMMA NoImageEffect ==
    NoImage => ~exists' /\ size' = 0 /\ fs' = 0 /\ data' = 0 /\ ~cut'
BY DEF NoImage

LEMMA ImageRemoved ==
    ASSUME Inv, NoImage, pc' = "idle", want' = want, blind' = blind
    PROVE  Inv'
<1>1. Flags'
    BY Zenon DEF Inv, Types, Flags, NoImage
<1>2. Types'
    BY <1>1, NoImageEffect DEF Inv, Types
<1>3. Reached' /\ FilesystemFitsImage' /\ Whole'
    BY NoImageEffect DEF Reached, FilesystemFitsImage, Whole, ShrinkPC
<1> QED BY <1>2, <1>3 DEF Inv

LEMMA HomeInit == Init => Inv
<1> SUFFICES ASSUME Init PROVE Inv
    OBVIOUS
<1>1. Types
    BY DEF Init, Types, Flags
<1>2. Reached
    BY DEF Init, Reached, ShrinkPC
<1>3. FilesystemFitsImage
    BY DEF Init, FilesystemFitsImage
<1>4. Whole
    BY DEF Init, Whole
<1> QED BY <1>1, <1>2, <1>3, <1>4 DEF Inv

LEMMA ShrinkInv ==
    ASSUME Inv, Shrink \/ ShrinkResize \/ ShrinkTruncate
    PROVE  Inv'
<1> USE SizesPositive DEF Inv, Types, Flags, Reached, FilesystemFitsImage, Whole, Settled,
        ShrinkPC, GrowPC, FormatPC, rest, image
<1>1. CASE Shrink
    <2>1. Types'
        BY <1>1 DEF Shrink
    <2>2. Reached'
        BY <1>1 DEF Shrink
    <2>3. FilesystemFitsImage'
        BY <1>1 DEF Shrink
    <2>4. Whole'
        BY <1>1 DEF Shrink
    <2> QED BY <2>1, <2>2, <2>3, <2>4
<1>2. CASE ShrinkResize
    <2>1. Types'
        BY <1>2 DEF ShrinkResize
    <2>2. Reached'
        BY <1>2 DEF ShrinkResize
    <2>3. FilesystemFitsImage'
        BY <1>2 DEF ShrinkResize
    <2>4. Whole'
        BY <1>2 DEF ShrinkResize
    <2> QED BY <2>1, <2>2, <2>3, <2>4
<1>3. CASE ShrinkTruncate
    <2>1. Types'
        BY <1>3 DEF ShrinkTruncate, Kept
    <2>2. Reached'
        BY <1>3 DEF ShrinkTruncate, Kept
    <2>3. FilesystemFitsImage'
        BY <1>3 DEF ShrinkTruncate, Kept
    <2>4. Whole'
        BY <1>3 DEF ShrinkTruncate, Kept
    <2> QED BY <2>1, <2>2, <2>3, <2>4
<1> QED BY <1>1, <1>2, <1>3

LEMMA GrowInv ==
    ASSUME Inv, Grow \/ GrowCheck \/ GrowResize
    PROVE  Inv'
<1> USE SizesPositive DEF Inv, Types, Flags, Reached, FilesystemFitsImage, Whole, Settled,
        ShrinkPC, GrowPC, FormatPC, rest, image
<1>1. CASE Grow
    <2>1. Types'
        BY <1>1 DEF Grow
    <2>2. Reached'
        BY <1>1 DEF Grow
    <2>3. FilesystemFitsImage'
        BY <1>1 DEF Grow
    <2>4. Whole'
        BY <1>1 DEF Grow
    <2> QED BY <2>1, <2>2, <2>3, <2>4
<1>2. CASE GrowCheck
    <2>1. Types'
        BY <1>2 DEF GrowCheck
    <2>2. Reached'
        BY <1>2 DEF GrowCheck
    <2>3. FilesystemFitsImage'
        BY <1>2 DEF GrowCheck
    <2>4. Whole'
        BY <1>2 DEF GrowCheck
    <2> QED BY <2>1, <2>2, <2>3, <2>4
<1>3. CASE GrowResize
    <2>1. Types'
        BY <1>3 DEF GrowResize
    <2>2. Reached'
        BY <1>3 DEF GrowResize
    <2>3. FilesystemFitsImage'
        BY <1>3 DEF GrowResize
    <2>4. Whole'
        BY <1>3 DEF GrowResize
    <2> QED BY <2>1, <2>2, <2>3, <2>4
<1> QED BY <1>1, <1>2, <1>3

LEMMA FormatInv ==
    ASSUME Inv, CreateFile \/ CreateTruncate \/ Mkfs
    PROVE  Inv'
<1> USE SizesPositive DEF Inv, Types, Flags, Reached, FilesystemFitsImage, Whole, Settled,
        ShrinkPC, GrowPC, FormatPC, rest, image
<1>1. CASE CreateFile
    <2>0. Flags'
        BY <1>1, Zenon DEF CreateFile
    <2>1. Types'
        BY <1>1, <2>0 DEF CreateFile
    <2>2. Reached'
        BY <1>1, <2>0 DEF CreateFile
    <2>3. FilesystemFitsImage'
        BY <1>1, <2>0 DEF CreateFile
    <2>4. Whole'
        BY <1>1, <2>0 DEF CreateFile
    <2> QED BY <2>1, <2>2, <2>3, <2>4
<1>2. CASE CreateTruncate
    <2>1. Types'
        BY <1>2 DEF CreateTruncate
    <2>2. Reached'
        BY <1>2 DEF CreateTruncate
    <2>3. FilesystemFitsImage'
        BY <1>2 DEF CreateTruncate
    <2>4. Whole'
        BY <1>2 DEF CreateTruncate
    <2> QED BY <2>1, <2>2, <2>3, <2>4
<1>3. CASE Mkfs
    <2>1. CASE NoFault /\ fs' = size /\ cut' = FALSE /\ pc' = "ready" /\ UNCHANGED <<exists, size, data>>
        <3>1. Types'
            BY <1>3, <2>1 DEF Mkfs
        <3>2. Reached'
            BY <1>3, <2>1 DEF Mkfs
        <3>3. FilesystemFitsImage'
            BY <1>3, <2>1 DEF Mkfs
        <3>4. Whole'
            BY <1>3, <2>1 DEF Mkfs
        <3> QED BY <3>1, <3>2, <3>3, <3>4
    <2>2. CASE NoImage /\ pc' = "idle"
        BY <1>3, <2>2, ImageRemoved DEF Mkfs
    <2>3. CASE cut' = TRUE /\ pc' = "idle" /\ UNCHANGED image
        <3>1. Types'
            BY <1>3, <2>3 DEF Mkfs
        <3>2. Reached'
            BY <1>3, <2>3 DEF Mkfs
        <3>3. FilesystemFitsImage'
            BY <1>3, <2>3 DEF Mkfs
        <3>4. Whole'
            BY <1>3, <2>3 DEF Mkfs
        <3> QED BY <3>1, <3>2, <3>3, <3>4
    <2> QED BY <1>3, <2>1, <2>2, <2>3 DEF Mkfs
<1> QED BY <1>1, <1>2, <1>3

LEMMA CallInv ==
    ASSUME Inv,
           \/ \E w \in Sizes, explicit \in BOOLEAN : CreateBegin(w, explicit)
           \/ Ensure \/ Write \/ Release \/ Delete \/ Crash
    PROVE  Inv'
<1> USE SizesPositive DEF Inv, Types, Flags, Reached, FilesystemFitsImage, Whole, Settled,
        ShrinkPC, GrowPC, FormatPC, rest, image
<1>1. ASSUME NEW w \in Sizes, NEW explicit \in BOOLEAN, CreateBegin(w, explicit)
      PROVE  Inv'
    <2>1. Types'
        BY <1>1 DEF CreateBegin
    <2>2. Reached'
        BY <1>1 DEF CreateBegin
    <2>3. FilesystemFitsImage'
        BY <1>1 DEF CreateBegin
    <2>4. Whole'
        BY <1>1 DEF CreateBegin
    <2> QED BY <2>1, <2>2, <2>3, <2>4
<1>2. CASE Ensure
    <2>1. Types'
        BY <1>2 DEF Ensure
    <2>2. Reached'
        BY <1>2 DEF Ensure
    <2>3. FilesystemFitsImage'
        BY <1>2 DEF Ensure
    <2>4. Whole'
        BY <1>2 DEF Ensure
    <2> QED BY <2>1, <2>2, <2>3, <2>4
<1>3. CASE Write
    <2>1. Types'
        BY <1>3 DEF Write
    <2>2. Reached'
        BY <1>3 DEF Write
    <2>3. FilesystemFitsImage'
        BY <1>3 DEF Write
    <2>4. Whole'
        BY <1>3 DEF Write
    <2> QED BY <2>1, <2>2, <2>3, <2>4
<1>4. CASE Release
    <2>1. Types'
        BY <1>4 DEF Release
    <2>2. Reached'
        BY <1>4 DEF Release
    <2>3. FilesystemFitsImage'
        BY <1>4 DEF Release
    <2>4. Whole'
        BY <1>4 DEF Release
    <2> QED BY <2>1, <2>2, <2>3, <2>4
<1>5. CASE Delete
    <2>1. CASE NoImage
        BY <1>5, <2>1, ImageRemoved DEF Delete
    <2>2. CASE UNCHANGED <<image, cut>>
        <3>1. Types'
            BY <1>5, <2>2 DEF Delete
        <3>2. Reached'
            BY <1>5, <2>2 DEF Delete
        <3>3. FilesystemFitsImage'
            BY <1>5, <2>2 DEF Delete
        <3>4. Whole'
            BY <1>5, <2>2 DEF Delete
        <3> QED BY <3>1, <3>2, <3>3, <3>4
    <2> QED BY <1>5, <2>1, <2>2 DEF Delete
<1>6. CASE Crash
    <2>1. Types'
        BY <1>6 DEF Crash
    <2>2. Reached'
        BY <1>6 DEF Crash
    <2>3. FilesystemFitsImage'
        BY <1>6 DEF Crash
    <2>4. Whole'
        BY <1>6 DEF Crash
    <2> QED BY <2>1, <2>2, <2>3, <2>4
<1> QED BY <1>1, <1>2, <1>3, <1>4, <1>5, <1>6

LEMMA HomeStep == Inv /\ [Next]_vars => Inv'
<1> SUFFICES ASSUME Inv, [Next]_vars PROVE Inv'
    OBVIOUS
<1>1. CASE UNCHANGED vars
    BY <1>1 DEF vars, image, Inv, Types, Flags, Reached, FilesystemFitsImage, Whole
<1>2. CASE Next
    BY <1>2, ShrinkInv, GrowInv, FormatInv, CallInv DEF Next
<1> QED BY <1>1, <1>2

LEMMA HomeAlways == Spec => []Inv
BY HomeInit, HomeStep, PTL DEF Spec

(* At no step of any resize, interrupted or not, does the filesystem reach *)
(* past its image (userhome.go: growDisk extends first, shrinkDisk cuts    *)
(* last).                                                                  *)
THEOREM FilesystemAlwaysFits == Spec => []FilesystemFitsImage
<1>1. Inv => FilesystemFitsImage
    BY DEF Inv
<1> QED BY HomeAlways, <1>1, PTL

(* A disk handed to a VM holds what was asked for, unless a change of the  *)
(* image was cut: EnsureDisk's test of the file size is enough exactly     *)
(* when no earlier call stopped half way.                                  *)
THEOREM HomeAlwaysWhole == Spec => []ReadyHomeFits
<1>1. Inv => ReadyHomeFits
    BY DEF Inv, Reached, Whole, Settled, ReadyHomeFits
<1> QED BY HomeAlways, <1>1, PTL

(* An image at rest is whole, unless a change of it was cut: what a failed *)
(* ShrinkDisk or a failed mkfs leaves is as good as before.                *)
THEOREM ImageAlwaysWhole == Spec => []WholeBetweenCalls
<1>1. Inv => WholeBetweenCalls
    BY DEF Inv, Whole, Settled, WholeBetweenCalls
<1> QED BY HomeAlways, <1>1, PTL

(* Every step counts at most one fault or one restart. *)
Bounds == faults \in 0..MaxFaults /\ crashes \in 0..MaxCrashes

LEMMA BoundsStep == Bounds /\ [Next]_vars => Bounds'
<1> SUFFICES ASSUME Bounds, [Next]_vars PROVE Bounds'
    OBVIOUS
<1> USE UserHomeAssumption DEF Bounds, Fault, NoFault, CheckOK, CheckFails, rest
<1>1. CASE \E w \in Sizes, explicit \in BOOLEAN : CreateBegin(w, explicit)
    BY <1>1 DEF CreateBegin
<1>2. CASE Shrink \/ ShrinkResize \/ ShrinkTruncate
    BY <1>2 DEF Shrink, ShrinkResize, ShrinkTruncate
<1>3. CASE Ensure \/ Grow \/ GrowCheck \/ GrowResize
    BY <1>3 DEF Ensure, Grow, GrowCheck, GrowResize
<1>4. CASE CreateFile \/ CreateTruncate \/ Mkfs
    BY <1>4 DEF CreateFile, CreateTruncate, Mkfs
<1>5. CASE Write \/ Release \/ Delete \/ Crash
    BY <1>5 DEF Write, Release, Delete, Crash
<1>6. CASE UNCHANGED vars
    BY <1>6 DEF vars
<1> QED BY <1>1, <1>2, <1>3, <1>4, <1>5, <1>6 DEF Next

(* ShrinkDisk, EnsureDisk and Delete keep the image's state in its domain: *)
(* an image and its filesystem have a size that somebody asked for, or     *)
(* none, however many steps of a resize fail or are cut.                   *)
THEOREM HomeTypes == Spec => []TypeOK
<1>1. Init => Bounds
    BY UserHomeAssumption DEF Init, Bounds
<1>2. Inv /\ Bounds => TypeOK
    BY DEF Inv, Types, Flags, Bounds, TypeOK
<1> QED BY HomeAlways, BoundsStep, <1>1, <1>2, PTL DEF Spec

(* No resize loses files ("never loses data"), and only a failed Stat lets *)
(* EnsureDisk format over an image that is there.                          *)
THEOREM FilesAlwaysKept == Spec => FilesKept
<1>1. ASSUME Inv, [Next]_vars
      PROVE  [data' >= data \/ pc = "ready" \/ ~exists' \/ (pc = "create" /\ blind)]_vars
    <2>1. CASE UNCHANGED vars
        BY <2>1
    <2>2. CASE Shrink \/ ShrinkResize \/ ShrinkTruncate
        BY <1>1, <2>2, SizesPositive
           DEF Shrink, ShrinkResize, ShrinkTruncate, Kept, image, Inv, Types, Reached, FilesystemFitsImage
    <2>3. CASE Grow \/ GrowCheck \/ GrowResize
        BY <1>1, <2>3 DEF Grow, GrowCheck, GrowResize, image, Inv, Types
    <2>4. CASE CreateFile
        BY <1>1, <2>4, SizesPositive DEF CreateFile, image, Inv, Types, Reached, FilesystemFitsImage
    <2>5. CASE CreateTruncate \/ Mkfs
        BY <1>1, <2>5 DEF CreateTruncate, Mkfs, NoImage, image, Inv, Types
    <2>6. CASE \E w \in Sizes, explicit \in BOOLEAN : CreateBegin(w, explicit)
        BY <1>1, <2>6 DEF CreateBegin, image, Inv, Types
    <2>7. CASE Ensure \/ Write \/ Release \/ Delete \/ Crash
        BY <1>1, <2>7 DEF Ensure, Write, Release, Delete, Crash, NoImage, image, Inv, Types
    <2> QED BY <1>1, <2>1, <2>2, <2>3, <2>4, <2>5, <2>6, <2>7 DEF Next
<1> QED BY HomeAlways, <1>1, PTL DEF Spec, FilesKept
=============================================================================
