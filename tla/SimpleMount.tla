----------------------------- MODULE SimpleMount -----------------------------
(***************************************************************************)
(* Registering, mounting and unmounting the two small filesystems: myfs    *)
(* (Exercises 11 to 15) and the counter filesystem lfs (Exercise 16).  The *)
(* VFS is modelled from how they use it: mount_bdev claims the device, and *)
(* for a new superblock calls fill_super; when that fails, and at the last *)
(* unmount, the superblock goes through the filesystem's kill_sb.          *)
(***************************************************************************)
EXTENDS Integers, FiniteSets

CONSTANTS
  Fs,          \* "myfs" or "lfs"
  Devices,     \* block devices
  MaxMounts    \* bound: mounts of one device at a time, and claims on it

\* What the constants may be.
ConstantsOK ==
  /\ Fs \in {"myfs", "lfs"}
  /\ MaxMounts \in Nat

VARIABLES
  registered,  \* the type is on the VFS's list; the module is loaded
  at,          \* where each device's superblock is: "none", "inode", "root",
               \* "files", "mounted" or "dying"
  claims,      \* references to the open block device
  mounts,      \* mounts of the superblock
  iroot,       \* references to the root inode; negative: put once too often
  droot,       \* s_root is set: the dentry holds a reference to the inode
  made         \* the files lfs_create_files has made

vars == <<registered, at, claims, mounts, iroot, droot, made>>

\* What lfs_create_files makes: a counter, a directory and a counter in it.
Files == {"counter", "subdir", "subcounter"}

TypeOK ==
  /\ registered \in BOOLEAN
  /\ at \in [Devices -> {"none", "inode", "root", "files", "mounted", "dying"}]
  /\ claims \in [Devices -> Nat]
  /\ mounts \in [Devices -> 0 .. MaxMounts]
  /\ iroot \in [Devices -> {-1, 0, 1}]
  /\ droot \in [Devices -> BOOLEAN]
  /\ made \in [Devices -> SUBSET Files]

Init ==
  /\ registered = FALSE
  /\ at = [d \in Devices |-> "none"]
  /\ claims = [d \in Devices |-> 0]
  /\ mounts = [d \in Devices |-> 0]
  /\ iroot = [d \in Devices |-> 0]
  /\ droot = [d \in Devices |-> FALSE]
  /\ made = [d \in Devices |-> {}]

-----------------------------------------------------------------------------
register_filesystem ==
  /\ ~registered
  /\ registered' = TRUE
  /\ UNCHANGED <<at, claims, mounts, iroot, droot, made>>

\* rmmod: .owner holds the module for as long as there is a superblock.
InUse == \E d \in Devices : at[d] # "none"

unregister_filesystem ==
  /\ registered /\ ~InUse
  /\ registered' = FALSE
  /\ UNCHANGED <<at, claims, mounts, iroot, droot, made>>

Goto(d, from, to) ==
  /\ at[d] = from
  /\ at' = [at EXCEPT ![d] = to]

\* mount_bdev for a device without a superblock.
MountNew(d) ==
  /\ registered
  /\ claims[d] < MaxMounts
  /\ Goto(d, "none", "inode")
  /\ claims' = [claims EXCEPT ![d] = @ + 1]
  /\ UNCHANGED <<registered, mounts, iroot, droot, made>>

\* mount_bdev for a device that is mounted: the second claim is dropped.
MountAgain(d) ==
  /\ at[d] = "mounted" /\ mounts[d] < MaxMounts
  /\ mounts' = [mounts EXCEPT ![d] = @ + 1]
  /\ UNCHANGED <<registered, at, claims, iroot, droot, made>>

\* new_inode for the root: one reference, or -ENOMEM.
NewRoot(d) ==
  /\ \/ Goto(d, "inode", "root") /\ iroot' = [iroot EXCEPT ![d] = 1]
     \/ Goto(d, "inode", "dying") /\ iroot' = iroot
  /\ UNCHANGED <<registered, claims, mounts, droot, made>>

\* Mutant: myfs puts the inode as lfs does.
PutsTwice == 2

\* What fill_super does after d_make_root failed, which has put the inode:
\* lfs puts it again.
PutsAfterFailure == IF Fs = "lfs" THEN 2 ELSE 1

MakeRoot(d) ==
  /\ \/ /\ Goto(d, "root", IF Fs = "lfs" THEN "files" ELSE "mounted")
        /\ droot' = [droot EXCEPT ![d] = TRUE]
        /\ mounts' = [mounts EXCEPT ![d] = IF Fs = "lfs" THEN 0 ELSE 1]
        /\ iroot' = iroot
     \/ /\ Goto(d, "root", "dying")
        /\ iroot' = [iroot EXCEPT ![d] = @ - PutsAfterFailure]
        /\ UNCHANGED <<droot, mounts>>
  /\ UNCHANGED <<registered, claims, made>>

\* lfs_create_files: a file that cannot be made is left out, and the files of a
\* directory with it; lfs_fill_super answers 0 whatever was made.
CreateFiles(d) ==
  /\ Goto(d, "files", "mounted")
  /\ \E m \in SUBSET Files :
       /\ "subcounter" \in m => "subdir" \in m
       /\ made' = [made EXCEPT ![d] = m]
  /\ mounts' = [mounts EXCEPT ![d] = 1]
  /\ UNCHANGED <<registered, claims, iroot, droot>>

\* umount(2): the last one takes the superblock down.
Umount(d) ==
  /\ at[d] = "mounted"
  /\ mounts' = [mounts EXCEPT ![d] = @ - 1]
  /\ at' = [at EXCEPT ![d] = IF mounts[d] = 1 THEN "dying" ELSE @]
  /\ UNCHANGED <<registered, claims, iroot, droot, made>>

\* kill_litter_super does not know of the device; kill_block_super puts it.
DevicePuts == IF Fs = "lfs" THEN 0 ELSE 1

kill_sb(d) ==
  /\ Goto(d, "dying", "none")
  /\ claims' = [claims EXCEPT ![d] = @ - DevicePuts]
  /\ iroot' = [iroot EXCEPT ![d] = IF droot[d] THEN @ - 1 ELSE @]
  /\ droot' = [droot EXCEPT ![d] = FALSE]
  /\ made' = [made EXCEPT ![d] = {}]
  /\ UNCHANGED <<registered, mounts>>

Next ==
  \/ register_filesystem \/ unregister_filesystem
  \/ \E d \in Devices :
       \/ MountNew(d) \/ MountAgain(d) \/ NewRoot(d) \/ MakeRoot(d)
       \/ CreateFiles(d) \/ Umount(d) \/ kill_sb(d)

Spec == Init /\ [][Next]_vars

-----------------------------------------------------------------------------
\* A mount that succeeded has a root: s_root is set and holds the inode.
MountedHasRoot ==
  \A d \in Devices : at[d] = "mounted" => droot[d] /\ iroot[d] = 1

\* The module stays while a superblock of its type is being filled, mounted or
\* taken down: its functions are called for it.
ModuleHeld == ~registered => \A d \in Devices : at[d] = "none"

\* When the superblock is gone, after an unmount or a fill_super that failed,
\* the root inode has been put exactly as often as it was taken.
InodeFreed ==
  \A d \in Devices : at[d] = "none" => iroot[d] = 0 /\ ~droot[d]

\* ... and the block device that mount_bdev claimed is free again.
DeviceReleased == \A d \in Devices : at[d] = "none" => claims[d] = 0

\* A mounted counter filesystem shows both counters.
MountedHasFiles == \A d \in Devices : at[d] = "mounted" => made[d] = Files
=============================================================================
