----------------------------- MODULE UserHome -----------------------------
(***************************************************************************)
(* internal/userhome: the home.img of one user.  Create brings it to the   *)
(* size of the tier, or to an explicit one, by a sequence of system calls  *)
(* and e2fsprogs runs, each of which can fail and between any two of which *)
(* the manager can be restarted; nothing records how far the last call     *)
(* got, the size of the file is all that the next one looks at.  One call  *)
(* runs at a time, and none while a VM has the disk (Lifecycle checks when *)
(* that is so).                                                            *)
(***************************************************************************)
EXTENDS Naturals

CONSTANTS Sizes,        \* the sizes that are asked for
          MaxFaults,    \* bound: failed calls
          MaxCrashes    \* bound: restarts of the manager

ASSUME UserHomeAssumption ==
    Sizes \subseteq Nat \ {0} /\ MaxFaults \in Nat /\ MaxCrashes \in Nat

VARIABLES pc,           \* the next call of Create, or "ready": a VM has the disk
          want,         \* the size that it asks for
          exists,       \* home.img is there
          size,         \* its size,
          fs,           \* that of the ext4 in it, 0: none,
          data,         \* and what its files need
          cut,          \* history: a change of the image was cut half way
          blind,        \* history: the Stat of this call failed
          faults, crashes

image == <<exists, size, fs, data>>
vars  == <<pc, want, image, cut, blind, faults, crashes>>

ShrinkPC == {"shrink", "shrinkResize", "shrinkTruncate"}
GrowPC   == {"grow", "growCheck", "growResize"}
FormatPC == {"create", "createTruncate", "mkfs"}

TypeOK ==
    /\ pc \in {"idle", "ensure", "ready"} \cup ShrinkPC \cup GrowPC \cup FormatPC
    /\ want \in Sizes
    /\ exists \in BOOLEAN
    /\ size \in Sizes \cup {0} /\ fs \in Sizes \cup {0}
    /\ data \in Nat
    /\ cut \in BOOLEAN /\ blind \in BOOLEAN
    /\ faults \in 0..MaxFaults
    /\ crashes \in 0..MaxCrashes

Init ==
    /\ pc = "idle"
    /\ want \in Sizes
    /\ exists = FALSE /\ size = 0 /\ fs = 0 /\ data = 0
    /\ cut = FALSE /\ blind = FALSE
    /\ faults = 0 /\ crashes = 0

Fault == faults < MaxFaults /\ faults' = faults + 1
NoFault == UNCHANGED faults

(* e2fsck and resize2fs need a filesystem that its image holds. *)
CheckOK == fs > 0 /\ fs <= size /\ NoFault
CheckFails == IF fs > 0 /\ fs <= size THEN Fault ELSE NoFault

(* What a cut file loses. *)
Kept(n) == IF data <= n THEN data ELSE n

rest == <<want, blind, crashes>>

---------------------------------------------------------------------------
(* ShrinkDisk, for an explicit size only.  Its errors are logged.          *)

(* Create asks for w; DiskMiB is 0 when the image cannot be looked at. *)
CreateBegin(w, explicit) ==
    /\ pc = "idle" /\ want' = w /\ blind' = FALSE
    /\ \/ explicit /\ size > w /\ pc' = "shrink" /\ NoFault
       \/ ~(explicit /\ size > w) /\ pc' = "ensure" /\ NoFault
       \/ explicit /\ size > w /\ pc' = "ensure" /\ Fault
    /\ UNCHANGED <<image, cut, crashes>>

(* resize2fs -P, with shrinkHeadroom = 1.2 *)
Fits(d, n) == 6 * d <= 5 * n

(* e2fsck, then the size that the files need. *)
Shrink ==
    /\ pc = "shrink" /\ UNCHANGED <<image, cut, rest>>
    /\ \/ CheckOK /\ pc' = IF Fits(data, want) THEN "shrinkResize" ELSE "ensure"
       \/ CheckFails /\ pc' = "ensure"

(* Faulty variant: the file is cut before the filesystem is. *)
ShrinkTruncateFirst ==
    /\ pc = "shrinkResize" /\ UNCHANGED <<exists, rest>>
    /\ \/ NoFault /\ size' = want /\ data' = Kept(want) /\ fs' = want /\ pc' = "ensure" /\ UNCHANGED cut
       \/ Fault /\ size' = want /\ data' = Kept(want) /\ pc' = "ensure" /\ UNCHANGED <<fs, cut>>

(* resize2fs to the new size: it refuses to drop files. *)
ShrinkResize ==
    /\ pc = "shrinkResize" /\ UNCHANGED <<exists, size, data, cut, rest>>
    /\ \/ data <= want /\ NoFault /\ fs' = want /\ pc' = "shrinkTruncate"
       \/ data > want /\ NoFault /\ pc' = "ensure" /\ UNCHANGED fs
       \/ Fault /\ pc' = "ensure" /\ UNCHANGED fs

(* os.Truncate: the filesystem fills its image again.                      *)
ShrinkTruncate ==
    /\ pc = "shrinkTruncate" /\ pc' = "ensure" /\ UNCHANGED <<exists, fs, rest>>
    /\ \/ NoFault /\ size' = want /\ data' = Kept(want) /\ cut' = FALSE
       \/ Fault /\ cut' = TRUE /\ UNCHANGED <<size, data>>

---------------------------------------------------------------------------
(* EnsureDisk. *)

(* Faulty variant: an image that is too small is made anew. *)
EnsureAnew ==
    /\ pc = "ensure" /\ UNCHANGED <<image, cut, rest>>
    /\ NoFault /\ pc' = IF exists /\ size >= want THEN "ready" ELSE "create"

(* MkdirAll and the size of the file.  Any error of Stat is taken for a    *)
(* missing image.                                                          *)
Ensure ==
    /\ pc = "ensure" /\ UNCHANGED <<image, cut, want, crashes>>
    /\ \/ /\ NoFault /\ UNCHANGED blind
          /\ pc' = CASE ~exists -> "create"
                     [] exists /\ size < want -> "grow"
                     [] OTHER -> "ready"
       \/ Fault /\ pc' \in {"idle", "create"} /\ blind' = TRUE

(* Faulty variant: grown by the size asked for, not to it. *)
GrowBy ==
    /\ pc = "grow" /\ UNCHANGED <<exists, fs, data, cut, rest>>
    /\ \/ NoFault /\ size' = size + want /\ pc' = "growCheck"
       \/ Fault /\ pc' = "idle" /\ UNCHANGED size

(* growDisk: os.Truncate, *)
Grow ==
    /\ pc = "grow" /\ UNCHANGED <<exists, fs, data, cut, rest>>
    /\ \/ NoFault /\ size' = want /\ pc' = "growCheck"
       \/ Fault /\ pc' = "idle" /\ UNCHANGED size

(* Faulty variant: resize2fs is forgotten. *)
GrowCheckOnly ==
    /\ pc = "growCheck" /\ UNCHANGED <<image, rest>>
    /\ \/ CheckOK /\ pc' = "ready" /\ UNCHANGED cut
       \/ CheckFails /\ pc' = "idle" /\ cut' = TRUE

(* e2fsck, *)
GrowCheck ==
    /\ pc = "growCheck" /\ UNCHANGED <<image, rest>>
    /\ \/ CheckOK /\ pc' = "growResize" /\ UNCHANGED cut
       \/ CheckFails /\ pc' = "idle" /\ cut' = TRUE

(* resize2fs to the size of the image. *)
GrowResize ==
    /\ pc = "growResize" /\ UNCHANGED <<exists, size, data, rest>>
    /\ \/ NoFault /\ fs' = size /\ cut' = FALSE /\ pc' = "ready"
       \/ Fault /\ cut' = TRUE /\ pc' = "idle" /\ UNCHANGED fs

(* os.Create, which empties an image that is there after all. *)
CreateFile ==
    /\ pc = "create" /\ UNCHANGED <<cut, rest>>
    /\ \/ NoFault /\ exists' = TRUE /\ size' = 0 /\ fs' = 0 /\ data' = 0 /\ pc' = "createTruncate"
       \/ Fault /\ pc' = "idle" /\ UNCHANGED image

(* f.Truncate; a failure leaves the empty file. *)
CreateTruncate ==
    /\ pc = "createTruncate" /\ UNCHANGED <<exists, fs, data, rest>>
    /\ \/ NoFault /\ size' = want /\ pc' = "mkfs" /\ UNCHANGED cut
       \/ Fault /\ cut' = TRUE /\ pc' = "idle" /\ UNCHANGED size

NoImage == exists' = FALSE /\ size' = 0 /\ fs' = 0 /\ data' = 0 /\ cut' = FALSE

(* Faulty variant: the image stays when mkfs fails. *)
MkfsKeepsImage ==
    /\ pc = "mkfs" /\ UNCHANGED <<exists, size, data, rest>>
    /\ \/ NoFault /\ fs' = size /\ cut' = FALSE /\ pc' = "ready"
       \/ Fault /\ pc' = "idle" /\ UNCHANGED <<fs, cut>>

(* mkfs.ext4; a failure removes the image, if that succeeds.               *)
Mkfs ==
    /\ pc = "mkfs" /\ UNCHANGED rest
    /\ \/ NoFault /\ fs' = size /\ cut' = FALSE /\ pc' = "ready" /\ UNCHANGED <<exists, size, data>>
       \/ Fault /\ NoImage /\ pc' = "idle"
       \/ Fault /\ cut' = TRUE /\ pc' = "idle" /\ UNCHANGED image

---------------------------------------------------------------------------
(* The disk in use, Delete and restarts. *)

(* The VM writes and removes files. *)
Write ==
    /\ pc = "ready" /\ data' \in 0..fs
    /\ UNCHANGED <<pc, exists, size, fs, cut, faults, rest>>

(* The sandbox is gone, or its Create fails in a later step. *)
Release ==
    /\ pc = "ready" /\ pc' = "idle"
    /\ UNCHANGED <<image, cut, faults, rest>>

(* DeleteUserData: os.RemoveAll of the user's directory. *)
Delete ==
    /\ pc = "idle" /\ exists /\ UNCHANGED <<pc, rest>>
    /\ \/ NoFault /\ NoImage
       \/ Fault /\ UNCHANGED <<image, cut>>

(* A restart: a call that was under way is not resumed. *)
Crash ==
    /\ crashes < MaxCrashes /\ crashes' = crashes + 1
    /\ pc \notin {"idle", "ready"} /\ pc' = "idle"
    /\ cut' = (cut \/ pc \in {"shrinkTruncate", "growCheck", "growResize", "createTruncate", "mkfs"})
    /\ UNCHANGED <<image, want, blind, faults>>

Next ==
    \/ \E w \in Sizes, explicit \in BOOLEAN : CreateBegin(w, explicit)
    \/ Shrink \/ ShrinkResize \/ ShrinkTruncate
    \/ Ensure \/ Grow \/ GrowCheck \/ GrowResize
    \/ CreateFile \/ CreateTruncate \/ Mkfs
    \/ Write \/ Release \/ Delete \/ Crash

Spec == Init /\ [][Next]_vars

---------------------------------------------------------------------------
(* Properties. *)

(* The files lie in the filesystem and the filesystem in its image at      *)
(* every step of every resize, so also where one fails or a restart cuts   *)
(* it: growDisk extends the file first, shrinkDisk cuts it last.           *)
FilesystemFitsImage == data <= fs /\ fs <= size

(* No resize loses files: "never loses data" (userhome.go:121) and "an     *)
(* existing image is never reformatted" (userhome.go:132).  Files go only  *)
(* where the VM removes them, where Delete removes the image, and where    *)
(* Stat failed on an image that is there: EnsureDisk then takes it for     *)
(* missing, and os.Create empties it.                                      *)
FilesKept == [][data' >= data \/ pc = "ready" \/ ~exists' \/ (pc = "create" /\ blind)]_vars

(* A disk that a VM gets has a filesystem of the size asked for, or more,  *)
(* unless a change of the image was cut between two of its steps, by this  *)
(* call or an earlier one: EnsureDisk looks at the size of the file alone, *)
(* so it never makes good what is missing inside.  A failure that leaves   *)
(* the image whole (in e2fsck of a shrink, in mkfs, of a first Truncate)   *)
(* does no harm to any later call.                                         *)
ReadyHomeFits == pc = "ready" /\ ~cut => fs = size /\ fs >= want

(* The image is whole between calls, unless one was cut. *)
WholeBetweenCalls == pc = "idle" /\ exists /\ ~cut => fs = size /\ fs > 0
=============================================================================
