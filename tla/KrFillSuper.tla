------------------------------ MODULE KrFillSuper ------------------------------
(***************************************************************************)
(* What a mount of the kr filesystem takes and gives back                  *)
(* (Exercises/Exercise19/super.c): kr_fill_super acquires memory, buffers  *)
(* and counters one after the other, and every step may fail and leave by  *)
(* one of five labels; kr_put_super releases what a successful mount holds.*)
(* The values that are checked on the way are abstracted to whether the    *)
(* check fails; KrSuper has what happens to the flags of the superblock.   *)
(***************************************************************************)
EXTENDS Integers

CONSTANT MaxDescBlocks    \* bound: db_count

ConstantsOK == MaxDescBlocks \in Nat \ {0}

Desc(i) == <<"s_group_desc", i>>
Descs(n) == {Desc(i) : i \in 0 .. n - 1}

\* What is acquired: sbi, its blockgroup lock, the buffer of the superblock, the
\* array of descriptor blocks and its buffers, the debts, the counters, the root.
Things == {<<t, 0>> : t \in {"sbi", "bgl", "bh", "array", "debts", "counters", "root"}}
          \cup Descs(MaxDescBlocks)
Thing(t) == <<t, 0>>

VARIABLES
    pc,         \* the next step of kr_fill_super; "mounted", "failed", "none"
    ptr,        \* of each thing: "null", "live", "stale" (given back), "wild"
    s_fs_info,  \* does sb->s_fs_info point to sbi?
    db_count,
    i,          \* the descriptor block to read next
    twice       \* something was given back that was not held

vars == <<pc, ptr, s_fs_info, db_count, i, twice>>

Init ==
    /\ pc = "none"
    /\ ptr = [t \in Things |-> "null"]
    /\ s_fs_info = FALSE
    /\ db_count = 1 /\ i = 0
    /\ twice = FALSE

\* kfree and brelse do nothing with a null pointer.
Release(given) ==
    /\ ptr' = [t \in Things |-> IF t \in given /\ ptr[t] # "null" THEN "stale" ELSE ptr[t]]
    /\ twice' = (twice \/ \E t \in given : ptr[t] \in {"stale", "wild"})

Acquire(t) == ptr' = [ptr EXCEPT ![t] = "live"] /\ UNCHANGED twice

\* What is given back from each label on: the code falls from one to the next.
ReleasedAt(label) ==
    LET sbi == {Thing("bgl"), Thing("sbi")}
        mount == sbi \cup {Thing("bh")}
        desc == mount \cup {Thing("array"), Thing("debts")}
        two == desc \cup Descs(db_count)
    IN  CASE label = "failed_sbi" -> sbi
          [] label = "failed_mount" -> mount
          [] label = "failed_mount_group_desc" -> desc
          [] label = "failed_mount2" -> two
          [] label = "failed_mount3" -> two \cup {Thing("counters")}

Fail(label) ==
    /\ pc' = "failed"
    /\ s_fs_info' = FALSE
    /\ Release(ReleasedAt(label))
    /\ UNCHANGED <<db_count, i>>

Step(from, to) ==
    /\ pc = from
    /\ pc' = to
    /\ UNCHANGED <<s_fs_info, db_count, i>>

-----------------------------------------------------------------------------
\* A mount: sbi is zeroed, so its pointers are null.
Start ==
    /\ pc \in {"none", "failed"}
    /\ pc' = "sbi"
    /\ ptr' = [t \in Things |-> "null"]
    /\ db_count' \in 1 .. MaxDescBlocks
    /\ i' = 0
    /\ UNCHANGED <<s_fs_info, twice>>

AllocSbi ==
    \/ Step("sbi", "bgl") /\ Acquire(Thing("sbi"))
    \/ Step("sbi", "failed") /\ UNCHANGED <<ptr, twice>>

AllocBlockgroupLock ==
    \/ /\ pc = "bgl" /\ pc' = "bh"
       /\ Acquire(Thing("bgl"))
       /\ s_fs_info' = TRUE
       /\ UNCHANGED <<db_count, i>>
    \/ Step("bgl", "failed") /\ Release({Thing("sbi")})

\* The device's block size is set, and the block of the superblock read.
ReadSuper ==
    \/ Step("bh", "check") /\ Acquire(Thing("bh"))
    \/ pc = "bh" /\ Fail("failed_sbi")

\* The magic number, the options, the features.
CheckSuper ==
    \/ \E to \in {"reread", "geometry"} : Step("check", to) /\ UNCHANGED <<ptr, twice>>
    \/ pc = "check" /\ Fail("failed_mount")

\* Mutant: a failure to set the block size leaves by failed_mount.
RereadWrongLabel ==
    \/ Step("reread", "reread2") /\ Release({Thing("bh")})
    \/ pc = "reread2" /\ Fail("failed_mount")
    \/ Step("reread2", "geometry") /\ Acquire(Thing("bh"))

\* The block size is another one: the buffer is given back, and the superblock read
\* again with the right size, if it can be.
Reread ==
    \/ Step("reread", "reread2") /\ Release({Thing("bh")})
    \/ pc = "reread2" /\ Fail("failed_sbi")
    \/ Step("reread2", "geometry") /\ Acquire(Thing("bh"))

\* A second magic number, the sizes of inodes, fragments and groups.
CheckGeometry ==
    \/ Step("geometry", "array") /\ UNCHANGED <<ptr, twice>>
    \/ pc = "geometry" /\ Fail("failed_mount")

\* The array comes from kmalloc: its pointers are not set.
AllocArray ==
    \/ /\ Step("array", "debts")
       /\ ptr' = [t \in Things |-> IF t = Thing("array") THEN "live"
                                   ELSE IF t \in Descs(db_count) THEN "wild" ELSE ptr[t]]
       /\ UNCHANGED twice
    \/ pc = "array" /\ Fail("failed_mount")

AllocDebts ==
    \/ Step("debts", "descs") /\ Acquire(Thing("debts"))
    \/ pc = "debts" /\ Fail("failed_mount_group_desc")

\* The descriptor blocks are read in turn; those before one that cannot be are given
\* back.
ReadDescriptors ==
    \/ /\ pc = "descs" /\ i < db_count
       /\ Acquire(Desc(i))
       /\ i' = i + 1
       /\ UNCHANGED <<pc, s_fs_info, db_count>>
    \/ /\ pc = "descs" /\ i < db_count
       /\ pc' = "failed"
       /\ s_fs_info' = FALSE
       /\ Release(Descs(i) \cup ReleasedAt("failed_mount_group_desc"))
       /\ UNCHANGED <<db_count, i>>
    \/ Step("descs", "valid") /\ i = db_count /\ UNCHANGED <<ptr, twice>>

\* kr_check_descriptors, which reports what it finds with kr_error.
CheckDescriptors ==
    \/ Step("valid", "counters") /\ UNCHANGED <<ptr, twice>>
    \/ pc = "valid" /\ Fail("failed_mount2")

\* The three counters; those that did not come to be are null.
InitCounters ==
    \/ Step("counters", "root") /\ Acquire(Thing("counters"))
    \/ pc = "counters" /\ Fail("failed_mount3")

\* The root: kr_iget, a look at it, d_make_root, which gives it back if it fails.
GetRoot ==
    \/ Step("root", "mounted") /\ Acquire(Thing("root"))
    \/ pc = "root" /\ Fail("failed_mount3")

\* The VFS gives the root back, and kr_put_super the rest.
PutSuper ==
    /\ pc = "mounted" /\ pc' = "none"
    /\ s_fs_info' = FALSE
    /\ Release(Descs(db_count) \cup {Thing("array"), Thing("debts"), Thing("counters"),
               Thing("bh"), Thing("bgl"), Thing("sbi"), Thing("root")})
    /\ UNCHANGED <<db_count, i>>

Next ==
    \/ Start \/ AllocSbi \/ AllocBlockgroupLock \/ ReadSuper \/ CheckSuper \/ Reread
    \/ CheckGeometry \/ AllocArray \/ AllocDebts \/ ReadDescriptors \/ CheckDescriptors
    \/ InitCounters \/ GetRoot \/ PutSuper

Spec == Init /\ [][Next]_vars

-----------------------------------------------------------------------------
\* Whichever step fails, and after an unmount, nothing is held any more and the
\* superblock does not point to what was.
NothingLeaks ==
    pc \in {"failed", "none"} => ~s_fs_info /\ \A t \in Things : ptr[t] # "live"

\* Nothing is given back twice, and nothing that was never set.
NoDoubleRelease == ~twice

\* From the first step that may call kr_error or kr_put_super on, what they use is
\* there: sbi, the superblock's buffer and every descriptor block.
ErrorsCanBeReported ==
    pc \in {"valid", "counters", "root", "mounted"} =>
        /\ s_fs_info
        /\ \A t \in {Thing("sbi"), Thing("bh"), Thing("array")} \cup Descs(db_count) :
            ptr[t] = "live"

\* Whichever step of kr_fill_super fails, and after an unmount, nothing is held any more
\* and nothing was given back twice or without having been set; and from the first step
\* that may call kr_error or kr_put_super on, what they use is there.
FillUnwinds == NothingLeaks /\ NoDoubleRelease /\ ErrorsCanBeReported
=============================================================================
