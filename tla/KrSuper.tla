-------------------------------- MODULE KrSuper --------------------------------
(***************************************************************************)
(* The state flags of the kr superblock (Exercises/Exercise19/super.c):    *)
(* KR_VALID_FS on the device promises that the filesystem was left whole,  *)
(* KR_ERROR_FS that an error was met.  Mount, remount, freeze, thaw, sync  *)
(* and unmount are steps of one administrator (the VFS holds s_umount);    *)
(* writers, and a task in kr_error, run beside it.  The machine may crash  *)
(* between any two steps, and e2fsck repairs what it finds.                *)
(*                                                                         *)
(* The buffer of the superblock and the device are apart: kr_sync_super    *)
(* changes the one and then writes it to the other.  Mount counts, times   *)
(* and free counts, which nothing here depends on, are left out.           *)
(***************************************************************************)
CONSTANTS
    Policy,         \* errors= : "continue", "ro" or "panic"
    RemountFails,   \* may parse_options or dquot_suspend fail?
    Binds,          \* are there other mounts of the filesystem (bind mounts)?
    RevTooHigh      \* s_rev_level > KR_MAX_SUPP_REV

ASSUME SuperAssumption ==
    /\ Policy \in {"continue", "ro", "panic"}
    /\ {RemountFails, Binds, RevTooHigh} \subseteq BOOLEAN

VARIABLES
    disk,      \* s_state on the device
    es,        \* s_state in the buffer
    esDirty,   \* the buffer is to be written
    state,     \* s_mount_state
    mnt,       \* "none", or "rw" or "ro": MS_RDONLY in s_flags
    still,     \* writers are held off: s_readonly_remount, or frozen for writes
    frozen,
    adm,       \* where the administrator is, what it wants, the old flags, and what next
    err,       \* where the task in kr_error is
    pending,   \* changes may be on the device in part
    broken,    \* a crash, or an unmount after an error, left it so
    orphans,   \* files without a name are open (s_remove_count)
    met,       \* an error was met since the last check
    damaged,   \* and has been written to the device
    crashed    \* a crash, since the last check, with the filesystem in use

vars == <<disk, es, esDirty, state, mnt, still, frozen, adm, err, pending, orphans,
          broken, met, damaged, crashed>>
flags == <<es, state, mnt>>
usage == <<still, frozen>>
device == <<disk, esDirty>>
history == <<broken, met, damaged, crashed>>

Idle == [pc |-> "idle", want |-> "rw", old |-> "rw", next |-> "idle"]

Init ==
    /\ disk = {"VALID"} /\ es = {"VALID"} /\ esDirty = FALSE
    /\ state = {"VALID"} /\ mnt = "none"
    /\ still = FALSE /\ frozen = FALSE
    /\ adm = Idle /\ err = "idle"
    /\ pending = FALSE /\ orphans = FALSE
    /\ broken = FALSE /\ met = FALSE /\ damaged = FALSE /\ crashed = FALSE

At(pc) == adm.pc = pc
Go(pc) == adm' = IF pc = "idle" THEN Idle ELSE [adm EXCEPT !.pc = pc]
GoSync(next) == adm' = [adm EXCEPT !.pc = "sync_fs", !.next = next]

-----------------------------------------------------------------------------
\* kr_sync_fs up to kr_sync_super: the filesystem is in use, and not valid.
SyncFs ==
    /\ At("sync_fs")
    /\ es' = es \ {"VALID"}
    /\ Go("sync_super")
    /\ UNCHANGED <<device, state, mnt, usage, err, pending, orphans, history>>

\* kr_sync_super with wait set: the buffer is written.
SyncSuper ==
    /\ At("sync_super")
    /\ disk' = es
    /\ esDirty' = FALSE
    /\ Go(adm.next)
    /\ UNCHANGED <<flags, usage, err, pending, orphans, history>>

\* kr_sync_super without wait, and the buffer written at some later time.
SyncLater ==
    /\ At("sync_super") /\ adm.next = "idle"
    /\ esDirty' = TRUE
    /\ Go("idle")
    /\ UNCHANGED <<flags, disk, usage, err, pending, orphans, history>>

Writeback ==
    /\ esDirty
    /\ disk' = es
    /\ esDirty' = FALSE
    /\ UNCHANGED <<flags, usage, adm, err, pending, orphans, history>>

\* sync(2), which writes the changes first.
Sync ==
    /\ At("idle") /\ mnt = "rw"
    /\ pending' = FALSE
    /\ GoSync("idle")
    /\ UNCHANGED <<flags, device, usage, err, orphans, history>>

-----------------------------------------------------------------------------
\* kr_fill_super reads the flags and kr_setup_super decides about read-only; when it
\* is writable kr_write_super takes the flag away.  A filesystem whose descriptors
\* are bad is refused, and kr_error has written that down.
Mount(want) ==
    /\ At("idle") /\ mnt = "none"
    /\ es' = disk
    /\ state' = disk
    /\ mnt' = IF RevTooHigh THEN "ro" ELSE want
    /\ IF mnt' = "rw"
       THEN adm' = [Idle EXCEPT !.pc = "sync_fs", !.next = "mounted"]
       ELSE adm' = Idle
    /\ still' = (mnt' = "rw")
    /\ UNCHANGED <<device, frozen, err, pending, orphans, history>>

Mounted ==
    /\ At("mounted")
    /\ still' = FALSE
    /\ Go("idle")
    /\ UNCHANGED <<flags, device, frozen, err, pending, orphans, history>>

MountRefused(want) ==
    /\ At("idle") /\ mnt = "none"
    /\ disk' = IF want = "rw" THEN disk \cup {"ERROR"} ELSE disk
    /\ damaged' = (damaged \/ want = "rw") /\ met' = TRUE
    /\ UNCHANGED <<flags, esDirty, usage, adm, err, pending, orphans, broken, crashed>>

\* Unmounting: the VFS writes everything, then kr_put_super the flags of the mount.
Unmount ==
    /\ At("idle") /\ mnt # "none"
    /\ ~frozen /\ ~orphans /\ err = "idle"
    /\ still' = TRUE
    /\ IF mnt = "rw" THEN pending' = FALSE /\ GoSync("put_super")
       ELSE UNCHANGED pending /\ Go("unmounted")
    /\ UNCHANGED <<flags, device, frozen, err, orphans, history>>

PutSuper ==
    /\ At("put_super")
    /\ es' = state
    /\ adm' = [adm EXCEPT !.pc = "sync_super", !.next = "unmounted"]
    /\ UNCHANGED <<device, state, mnt, usage, err, pending, orphans, history>>

Unmounted ==
    /\ At("unmounted")
    /\ mnt' = "none" /\ still' = FALSE
    /\ disk' = IF esDirty THEN es ELSE disk
    /\ esDirty' = FALSE
    /\ broken' = (broken \/ pending) /\ pending' = FALSE
    /\ Go("idle")
    /\ UNCHANGED <<es, state, frozen, err, orphans, met, damaged, crashed>>

-----------------------------------------------------------------------------
\* The VFS holds writers off before a remount to read-only, which it refuses while
\* there are files without a name; kr_remount starts with sync_filesystem.
Remount(want) ==
    /\ At("idle") /\ mnt # "none" /\ ~frozen
    /\ want = "ro" /\ mnt = "rw" => ~orphans
    /\ still' = (want = "ro" /\ mnt = "rw")
    /\ IF mnt = "rw"
       THEN /\ pending' = FALSE
            /\ adm' = [pc |-> "sync_fs", want |-> want, old |-> mnt, next |-> "remount"]
       ELSE /\ UNCHANGED pending
            /\ adm' = [pc |-> "remount", want |-> want, old |-> mnt, next |-> "idle"]
    /\ UNCHANGED <<flags, device, frozen, err, orphans, history>>

\* kr_remount under s_lock: bad options, nothing to do, to read-only, to writable.
RemountOptions ==
    /\ At("remount") /\ RemountFails
    /\ adm' = [adm EXCEPT !.old = mnt, !.pc = "restore_opts"]
    /\ UNCHANGED <<flags, device, usage, err, pending, orphans, history>>

RemountSame ==
    /\ At("remount")
    /\ \/ adm.want = mnt
       \/ adm.want = "ro" /\ ("VALID" \in es \/ "VALID" \notin state)
    /\ Go("remounted")
    /\ UNCHANGED <<flags, device, usage, err, pending, orphans, history>>

\* Mutant: a filesystem that was not valid when it was mounted is made so.
RemountAlwaysValid ==
    /\ At("remount") /\ adm.want = "ro" /\ mnt = "rw"
    /\ es' = state \cup {"VALID"}
    /\ adm' = [adm EXCEPT !.old = mnt, !.pc = "suspend"]
    /\ UNCHANGED <<device, state, mnt, usage, err, pending, orphans, history>>

RemountRO ==
    /\ At("remount") /\ adm.want = "ro" /\ mnt = "rw"
    /\ "VALID" \notin es /\ "VALID" \in state
    /\ es' = state
    /\ adm' = [adm EXCEPT !.old = mnt, !.pc = "suspend"]
    /\ UNCHANGED <<device, state, mnt, usage, err, pending, orphans, history>>

\* Mutant: the flags that e2fsck may have changed are not read again.
RemountRWStale ==
    /\ At("remount") /\ adm.want = "rw" /\ mnt = "ro"
    /\ mnt' = IF RevTooHigh THEN mnt ELSE "rw"
    /\ IF mnt' = "rw" THEN GoSync("remounted") ELSE Go("remounted")
    /\ UNCHANGED <<es, state, device, usage, err, pending, orphans, history>>

RemountRW ==
    /\ At("remount") /\ adm.want = "rw" /\ mnt = "ro"
    /\ state' = es
    /\ mnt' = IF RevTooHigh THEN mnt ELSE "rw"
    /\ IF mnt' = "rw" THEN GoSync("remounted") ELSE Go("remounted")
    /\ UNCHANGED <<es, device, usage, err, pending, orphans, history>>

\* dquot_suspend between the two halves of a remount to read-only.
Suspend ==
    /\ At("suspend")
    /\ \/ adm' = [adm EXCEPT !.pc = "sync_super", !.next = "remounted"]
       \/ RemountFails /\ Go("restore_opts")
    /\ UNCHANGED <<flags, device, usage, err, pending, orphans, history>>

\* Mutant: the flags restored are not the old ones.
RestoreOptsWritable ==
    /\ At("restore_opts")
    /\ mnt' = "rw"
    /\ still' = FALSE
    /\ Go("idle")
    /\ UNCHANGED <<es, state, device, frozen, err, pending, orphans, history>>

\* restore_opts: the flags as they were; the VFS lets writers go on.
RestoreOpts ==
    /\ At("restore_opts")
    /\ mnt' = adm.old
    /\ still' = FALSE
    /\ Go("idle")
    /\ UNCHANGED <<es, state, device, frozen, err, pending, orphans, history>>

\* do_remount_sb after kr_remount: MS_RDONLY as it was asked for.
Remounted ==
    /\ At("remounted")
    /\ mnt' = adm.want
    /\ still' = FALSE
    /\ Go("idle")
    /\ UNCHANGED <<es, state, device, frozen, err, pending, orphans, history>>

-----------------------------------------------------------------------------
\* freeze_super: no more writers, everything written, then kr_freeze.
FreezeSuper ==
    /\ At("idle") /\ mnt # "none" /\ ~frozen
    /\ still' = TRUE
    /\ IF mnt = "rw" THEN pending' = FALSE /\ frozen' = FALSE /\ GoSync("freeze")
       ELSE UNCHANGED pending /\ frozen' = TRUE /\ Go("idle")
    /\ UNCHANGED <<flags, device, err, orphans, history>>

\* kr_freeze: valid again, unless files without a name are open.
Freeze ==
    /\ At("freeze")
    /\ frozen' = TRUE
    /\ IF orphans THEN UNCHANGED es /\ GoSync("idle")
       ELSE es' = state /\ adm' = [adm EXCEPT !.pc = "sync_super", !.next = "idle"]
    /\ UNCHANGED <<device, state, mnt, still, err, pending, orphans, history>>

\* thaw_super calls kr_unfreeze, and then lets writers go on.
ThawSuper ==
    /\ At("idle") /\ frozen
    /\ IF mnt = "rw" THEN GoSync("thawed") ELSE Go("thawed")
    /\ UNCHANGED <<flags, device, usage, err, pending, orphans, history>>

Thawed ==
    /\ At("thawed")
    /\ still' = FALSE /\ frozen' = FALSE
    /\ Go("idle")
    /\ UNCHANGED <<flags, device, err, pending, orphans, history>>

-----------------------------------------------------------------------------
\* A writer may write: through this mount when no remount is under way, through
\* another as soon as MS_RDONLY is off.
MayWrite ==
    /\ mnt = "rw" /\ ~still
    /\ Binds \/ adm.want = adm.old

\* A change: some of it reaches the device.  A file may lose its last name while it
\* is open, and be closed.
Write ==
    /\ MayWrite
    /\ pending' = TRUE
    /\ orphans' \in BOOLEAN
    /\ UNCHANGED <<flags, device, usage, adm, err, history>>

\* kr_error: the flag is set under s_lock, in the buffer and for the unmount, unless
\* the filesystem is read-only.
Error ==
    /\ err = "idle" /\ mnt # "none" /\ adm.next # "mounted" /\ adm.pc # "mounted"
    /\ adm.next \notin {"put_super", "unmounted"} /\ adm.pc \notin {"put_super", "unmounted"}
    /\ IF mnt = "ro" THEN err' = "policy" /\ UNCHANGED <<es, state>>
       ELSE /\ state' = state \cup {"ERROR"}
            /\ es' = es \cup {"ERROR"}
            /\ err' = "sync"
    /\ met' = TRUE
    /\ UNCHANGED <<device, mnt, usage, adm, pending, orphans, broken, damaged, crashed>>

\* its kr_sync_super
ErrorSync ==
    /\ err = "sync"
    /\ disk' = es /\ esDirty' = FALSE
    /\ damaged' = TRUE
    /\ err' = "policy"
    /\ UNCHANGED <<flags, usage, adm, pending, orphans, broken, met, crashed>>

Fall ==
    /\ mnt' = "none" /\ still' = FALSE /\ frozen' = FALSE /\ esDirty' = FALSE
    /\ adm' = Idle /\ err' = "idle"
    /\ broken' = (broken \/ pending \/ orphans)
    /\ pending' = FALSE /\ orphans' = FALSE
    /\ crashed' = (crashed \/ disk # {"VALID"})
    /\ UNCHANGED <<disk, es, state, met, damaged>>

\* and what errors= says.
ErrorPolicy ==
    /\ err = "policy"
    /\ \/ Policy = "continue" /\ mnt' = mnt
       \/ Policy = "ro" /\ mnt' = "ro"
    /\ err' = "idle"
    /\ UNCHANGED <<es, state, device, usage, adm, pending, orphans, history>>

ErrorPanic == err = "policy" /\ Policy = "panic" /\ Fall

\* A crash, and a check: of a filesystem that is not mounted, or is read-only and has
\* been spared.
Crash == mnt # "none" /\ Fall

Fsck ==
    /\ At("idle") /\ err = "idle"
    /\ mnt = "none" \/ (mnt = "ro" /\ ~frozen /\ ~orphans /\ ~met)
    /\ disk' = {"VALID"} /\ es' = {"VALID"} /\ esDirty' = FALSE
    /\ broken' = FALSE /\ met' = FALSE /\ damaged' = FALSE /\ crashed' = FALSE
    /\ UNCHANGED <<state, mnt, usage, adm, err, pending, orphans>>

Next ==
    \/ SyncFs \/ SyncSuper \/ SyncLater \/ Writeback \/ Sync
    \/ \E want \in {"rw", "ro"} : Mount(want) \/ MountRefused(want) \/ Remount(want)
    \/ Mounted \/ Unmount \/ PutSuper \/ Unmounted
    \/ RemountOptions \/ RemountSame \/ RemountRO \/ RemountRW \/ Suspend
    \/ RestoreOpts \/ Remounted
    \/ FreezeSuper \/ Freeze \/ ThawSuper \/ Thawed
    \/ Write \/ Error \/ ErrorSync \/ ErrorPolicy \/ ErrorPanic
    \/ Crash \/ Fsck

Spec == Init /\ [][Next]_vars

-----------------------------------------------------------------------------
Flags == SUBSET {"VALID", "ERROR"}
Steps == {"idle", "sync_fs", "sync_super", "mounted", "put_super", "unmounted", "remount",
          "suspend", "restore_opts", "remounted", "freeze", "thawed"}
Places == [pc : Steps, want : {"rw", "ro"}, old : {"rw", "ro"}, next : Steps]

\* Flags, modes and program counters are what they can be.
TypeOK ==
    /\ disk \in Flags /\ es \in Flags /\ state \in Flags
    /\ mnt \in {"none", "rw", "ro"}
    /\ {esDirty, still, frozen, pending, orphans, broken, met, damaged, crashed} \subseteq BOOLEAN
    /\ err \in {"idle", "sync", "policy"}
    /\ adm \in Places

\* Whenever the machine stops, a device that says valid and nothing else is whole: no
\* change is there in part, and no file without a name.
ValidMeansWhole == disk = {"VALID"} => ~pending /\ ~orphans /\ ~broken

\* An error that has been written down stays on the device until a check.
ErrorsStay == damaged => "ERROR" \in disk

\* Without crash and error, a filesystem that is unmounted or has become read-only is
\* marked valid: it need not be checked.
NoNeedlessCheck ==
    At("idle") /\ err = "idle" /\ mnt \in {"none", "ro"} /\ ~met /\ ~crashed
        => disk = {"VALID"}

\* The device asks for a check, until there is one, exactly when there is a reason: an
\* error that was met stays on it, and a device that was whole is not checked.
CheckedWhenNeeded == TypeOK /\ ErrorsStay /\ NoNeedlessCheck

\* A filesystem that is read-only is made writable by a remount that succeeds, and by
\* nothing else.
OnlyRemountMakesWritable ==
    [][mnt = "ro" /\ mnt' = "rw" => adm.pc \in {"remount", "remounted"}]_vars

\* A revision that is not supported is never writable.
ForcedReadOnly == RevTooHigh => mnt # "rw"
=============================================================================
