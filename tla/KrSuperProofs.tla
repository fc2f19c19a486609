----------------------------- MODULE KrSuperProofs -----------------------------
(***************************************************************************)
(* Proofs about the flags of the superblock (KrSuper), for every error     *)
(* policy and whether or not remounts may fail.  What a crash, an unmount  *)
(* or a writeback may put on the device is decided by flags that were set  *)
(* several steps before, by the administrator or by a task in kr_error, so *)
(* each of the three invariants says of every place where a flag waits     *)
(* (the buffer, s_mount_state, the device) and of every step of the        *)
(* administrator what may be there.                                        *)
(***************************************************************************)
EXTENDS KrSuper, TLAPS

\* VALID and nothing else, said of the elements.
Clean(S) == "VALID" \in S /\ "ERROR" \notin S

-----------------------------------------------------------------------------
\* While the filesystem is not mounted nobody does anything with it; from the start
\* of the unmount on there are no writers, no files without a name and no error.
Quiet ==
    /\ mnt = "none" =>
         /\ adm = Idle /\ err = "idle"
         /\ ~esDirty /\ ~still /\ ~frozen /\ ~pending /\ ~orphans
    /\ {adm.pc, adm.next} \cap {"put_super", "unmounted"} # {} =>
         /\ err = "idle"
         /\ still /\ ~frozen /\ ~orphans

\* An error that was written down is in all three places, from where the others are
\* written; kr_error has put it there before it writes.
ErrorEverywhere ==
    /\ damaged => "ERROR" \in disk
    /\ damaged /\ mnt # "none" => "ERROR" \in es /\ "ERROR" \in state
    /\ err = "sync" => "ERROR" \in es /\ "ERROR" \in state
    /\ err # "idle" => met

\* Without crash and error: s_mount_state is clean while the filesystem is
\* writable, a read-only mount has a clean buffer and device, and on the way to read-only and to
\* the unmount the buffer is clean before it is written.
CleanOnTheWay ==
    /\ mnt = "none" => Clean(disk)
    /\ mnt = "rw" => Clean(state)
    /\ mnt = "ro" => Clean(disk) /\ Clean(es)
    /\ At("unmounted") => Clean(disk) /\ (esDirty => Clean(es))
    /\ At("suspend") => Clean(es) /\ adm.old = mnt
    /\ At("sync_super") /\ adm.next = "unmounted" => Clean(es)
    /\ At("sync_super") /\ adm.next = "remounted" /\ adm.want = "ro" => Clean(es)
    /\ At("remounted") /\ adm.want = "ro" => Clean(disk) /\ Clean(es)
    /\ At("remounted") /\ adm.want = "rw" => Clean(state)
    /\ At("restore_opts") => mnt = adm.old
    /\ At("remount") /\ mnt = "rw" => "VALID" \notin es
    /\ At("sync_super") /\ adm.next = "remount" => "VALID" \notin es
    /\ adm.pc \in {"sync_fs", "sync_super", "put_super", "suspend", "freeze"} => mnt = "rw"
    /\ adm.pc \in {"sync_fs", "sync_super"} => adm.next \notin {"suspend", "restore_opts"}
    /\ At("sync_fs") => adm.next # "unmounted"
    /\ At("sync_fs") /\ adm.next = "remounted" => adm.want = "rw"

CheckInv == TypeOK /\ Quiet /\ ErrorEverywhere /\ (~met /\ ~crashed => CleanOnTheWay)

-----------------------------------------------------------------------------
\* Which steps a remount takes; in all others want and old are as in Idle.
Remounting ==
    \/ adm.pc \in {"remount", "suspend", "restore_opts", "remounted"}
    \/ adm.pc \in {"sync_fs", "sync_super"} /\ adm.next \in {"remount", "remounted"}

StepsInOrder ==
    /\ At("idle") => adm = Idle /\ (still => frozen)
    /\ ~Remounting => adm.want = "rw" /\ adm.old = "rw"
    /\ Remounting /\ adm.want = "rw" => ~still
    /\ adm.pc \in {"sync_fs", "sync_super"} =>
          adm.next \notin {"sync_super", "suspend", "restore_opts"}
    /\ adm.pc \in {"sync_fs", "sync_super"} /\ adm.next = "remount" => adm.old = "rw"
    /\ adm.pc \in {"sync_fs", "sync_super"} /\ adm.next = "idle" /\ still => frozen
    /\ At("remount") /\ mnt = "rw" => adm.old = "rw"
    /\ At("suspend") => adm.old = "rw"
    /\ At("restore_opts") /\ adm.old = "ro" => mnt = "ro"

\* What is not whole is not called so: neither on the device nor in a buffer that is
\* about to be written.
NotCalledWhole ==
    /\ ~Clean(disk)
    /\ esDirty => ~Clean(es)
    /\ At("sync_super") => ~Clean(es)

\* The device has been told that the filesystem is in use.
ToldInUse == ~Clean(disk) /\ ~esDirty

\* Writers are held off, and the changes written, wherever the buffer is made valid;
\* the device is told before they are let go, by a mount, a thaw, or a remount that
\* succeeds or fails.
HeldOff ==
    /\ MayWrite => NotCalledWhole
    /\ pending \/ orphans \/ broken => NotCalledWhole
    /\ broken /\ mnt # "none" => ~Clean(es) /\ ~Clean(state)
    /\ mnt = "ro" /\ pending => met
    /\ still /\ mnt = "rw" => ~pending
    /\ adm.want = "ro" /\ mnt = "rw" => still /\ ~pending /\ ~orphans
    /\ "freeze" \in {adm.pc, adm.next} => still /\ ~pending
    /\ At("suspend") => still /\ ~pending /\ ~orphans
    /\ "put_super" \in {adm.pc, adm.next} => still /\ ~pending /\ ~orphans
    /\ At("sync_super") /\ adm.next \in {"mounted", "thawed", "remount"} => ~Clean(es)
    /\ At("sync_super") /\ adm.next = "remounted" /\ adm.want = "rw" => ~Clean(es)
    /\ At("mounted") \/ At("suspend") => ToldInUse
    /\ At("thawed") /\ mnt = "rw" => ToldInUse
    /\ adm.pc \in {"remount", "restore_opts"} /\ adm.old = "rw" => ToldInUse
    /\ At("remounted") /\ adm.want = "rw" => ToldInUse

WholeInv == TypeOK /\ Quiet /\ ErrorEverywhere /\ StepsInOrder /\ HeldOff

-----------------------------------------------------------------------------
\* Every step keeps the flags, modes and program counters in their sets.
LEMMA TypeStep ==
    ASSUME TypeOK, Quiet, [Next]_vars
    PROVE  TypeOK'
PROOF
  <1>1. CASE SyncFs
    BY <1>1 DEF TypeOK, Flags, Places, Steps, SyncFs, At, Go, Idle, device, usage,
       history
  <1>2. CASE SyncSuper
    BY <1>2 DEF TypeOK, Flags, Places, Steps, SyncSuper, At, Go, Idle, flags, usage,
       history
  <1>3. CASE SyncLater
    BY <1>3 DEF TypeOK, Flags, Places, Steps, SyncLater, At, Go, Idle, flags, usage,
       history
  <1>4. CASE Writeback
    BY <1>4 DEF TypeOK, Flags, Places, Steps, Writeback, flags, usage, history
  <1>5. CASE Sync
    BY <1>5 DEF TypeOK, Flags, Places, Steps, Sync, At, GoSync, flags, device, usage,
       history
  <1>6. ASSUME NEW want \in {"rw", "ro"}, Mount(want) PROVE TypeOK'
    <2>1. Idle \in Places /\ [Idle EXCEPT !.pc = "sync_fs", !.next = "mounted"] \in Places
      BY DEF Idle, Places, Steps
    <2>2. adm' \in Places
      BY <1>6, <2>1 DEF Mount
    <2>3. mnt' \in {"rw", "ro"} /\ still' \in BOOLEAN
      BY <1>6 DEF Mount
    <2>4. QED
      BY <1>6, <2>2, <2>3 DEF TypeOK, Mount, device, history
  <1>7. ASSUME NEW want \in {"rw", "ro"}, MountRefused(want) PROVE TypeOK'
    BY <1>7 DEF TypeOK, Flags, Places, Steps, MountRefused, At, flags, usage
  <1>8. ASSUME NEW want \in {"rw", "ro"}, Remount(want) PROVE TypeOK'
    <2>1. still' \in BOOLEAN /\ pending' \in BOOLEAN
      BY <1>8 DEF TypeOK, Remount
    <2>2. adm' \in Places
      BY <1>8 DEF TypeOK, Places, Steps, Remount
    <2>3. QED
      BY <1>8, <2>1, <2>2 DEF TypeOK, Remount, flags, device, history
  <1>9. CASE Mounted
    BY <1>9 DEF TypeOK, Flags, Places, Steps, Mounted, At, Go, Idle, flags, device,
       history
  <1>10. CASE Unmount
    BY <1>10 DEF TypeOK, Flags, Places, Steps, Unmount, At, Go, GoSync, Idle, flags,
       device, history
  <1>11. CASE PutSuper
    BY <1>11 DEF TypeOK, Flags, Places, Steps, PutSuper, At, device, usage, history
  <1>12. CASE Unmounted
    BY <1>12 DEF TypeOK, Flags, Places, Steps, Unmounted, At, Go, Idle
  <1>13. CASE RemountOptions
    <2>1. mnt # "none"
      BY <1>13 DEF RemountOptions, Quiet, Idle, At
    <2>2. adm' \in Places
      BY <1>13, <2>1 DEF TypeOK, Places, Steps, RemountOptions
    <2>3. QED
      BY <1>13, <2>2 DEF TypeOK, RemountOptions, flags, device, usage, history
  <1>14. CASE RemountSame
    BY <1>14 DEF TypeOK, Flags, Places, Steps, RemountSame, At, Go, Idle, flags,
       device, usage, history
  <1>15. CASE RemountRO
    BY <1>15 DEF TypeOK, Flags, Places, Steps, RemountRO, At, device, usage, history
  <1>16. CASE RemountRW
    BY <1>16 DEF TypeOK, Flags, Places, Steps, RemountRW, At, Go, GoSync, Idle, device,
       usage, history
  <1>17. CASE Suspend
    BY <1>17 DEF TypeOK, Flags, Places, Steps, Suspend, At, Go, Idle, flags, device,
       usage, history
  <1>18. CASE RestoreOpts
    BY <1>18 DEF TypeOK, Flags, Places, Steps, RestoreOpts, At, Go, Idle, device,
       history
  <1>19. CASE Remounted
    BY <1>19 DEF TypeOK, Flags, Places, Steps, Remounted, At, Go, Idle, device, history
  <1>20. CASE FreezeSuper
    <2>1. Idle \in Places
      BY DEF Idle, Places, Steps
    <2>2. CASE mnt = "rw"
      BY <1>20, <2>2 DEF TypeOK, Places, Steps, FreezeSuper, GoSync, flags, device, history
    <2>3. CASE mnt # "rw"
      BY <1>20, <2>1, <2>3 DEF TypeOK, FreezeSuper, Go, flags, device, history
    <2>4. QED
      BY <2>2, <2>3
  <1>21. CASE Freeze
    BY <1>21 DEF TypeOK, Flags, Places, Steps, Freeze, At, GoSync, device, history
  <1>22. CASE ThawSuper
    BY <1>22 DEF TypeOK, Flags, Places, Steps, ThawSuper, At, Go, GoSync, Idle, flags,
       device, usage, history
  <1>23. CASE Thawed
    BY <1>23 DEF TypeOK, Flags, Places, Steps, Thawed, At, Go, Idle, flags, device,
       history
  <1>24. CASE Write
    BY <1>24 DEF TypeOK, Flags, Places, Steps, Write, MayWrite, flags, device, usage,
       history
  <1>25. CASE Error
    BY <1>25 DEF TypeOK, Flags, Places, Steps, Error, device, usage
  <1>26. CASE ErrorSync
    BY <1>26 DEF TypeOK, Flags, Places, Steps, ErrorSync, flags, usage
  <1>27. CASE ErrorPolicy
    BY <1>27 DEF TypeOK, Flags, Places, Steps, ErrorPolicy, device, usage, history
  <1>28. CASE ErrorPanic
    BY <1>28 DEF TypeOK, Flags, Places, Steps, ErrorPanic, Fall, Idle, usage
  <1>29. CASE Crash
    BY <1>29 DEF TypeOK, Flags, Places, Steps, Crash, Fall, Idle, usage
  <1>30. CASE Fsck
    BY <1>30 DEF TypeOK, Flags, Places, Steps, Fsck, At, usage
  <1>31. CASE UNCHANGED vars
    BY <1>31 DEF TypeOK, Flags, Places, Steps, vars
  <1>32. QED
    BY <1>1, <1>2, <1>3, <1>4, <1>5, <1>6, <1>7, <1>8, <1>9, <1>10, <1>11, <1>12,
       <1>13, <1>14, <1>15, <1>16, <1>17, <1>18, <1>19, <1>20, <1>21, <1>22, <1>23,
       <1>24, <1>25, <1>26, <1>27, <1>28, <1>29, <1>30, <1>31 DEF Next

\* Every step leaves nothing under way when it leaves the filesystem unmounted.
LEMMA QuietStep ==
    ASSUME TypeOK, Quiet, [Next]_vars
    PROVE  Quiet'
PROOF
  <1>1. CASE SyncFs
    BY <1>1 DEF Quiet, TypeOK, Places, At, Idle, SyncFs, Go, device, usage, history
  <1>2. CASE SyncSuper
    BY <1>2 DEF Quiet, TypeOK, Places, At, Idle, SyncSuper, Go, flags, usage, history
  <1>3. CASE SyncLater
    BY <1>3 DEF Quiet, TypeOK, Places, At, Idle, SyncLater, Go, flags, usage, history
  <1>4. CASE Writeback
    BY <1>4 DEF Quiet, TypeOK, Places, At, Idle, Writeback, flags, usage, history
  <1>5. CASE Sync
    BY <1>5 DEF Quiet, TypeOK, Places, At, Idle, Sync, GoSync, flags, device, usage,
       history
  <1>6. ASSUME NEW want \in {"rw", "ro"}, Mount(want) PROVE Quiet'
    BY <1>6 DEF Quiet, TypeOK, Places, At, Idle, Mount, device, history
  <1>7. ASSUME NEW want \in {"rw", "ro"}, MountRefused(want) PROVE Quiet'
    BY <1>7 DEF Quiet, TypeOK, Places, At, Idle, MountRefused, flags, usage
  <1>8. ASSUME NEW want \in {"rw", "ro"}, Remount(want) PROVE Quiet'
    BY <1>8 DEF Quiet, TypeOK, Places, At, Idle, Remount, flags, device, history
  <1>9. CASE Mounted
    BY <1>9 DEF Quiet, TypeOK, Places, At, Idle, Mounted, Go, flags, device, history
  <1>10. CASE Unmount
    BY <1>10 DEF Quiet, TypeOK, Places, At, Idle, Unmount, Go, GoSync, flags, device,
       history
  <1>11. CASE PutSuper
    BY <1>11 DEF Quiet, TypeOK, Places, At, Idle, PutSuper, device, usage, history
  <1>12. CASE Unmounted
    BY <1>12 DEF Quiet, TypeOK, Places, At, Idle, Unmounted, Go
  <1>13. CASE RemountOptions
    BY <1>13 DEF Quiet, TypeOK, Places, At, Idle, RemountOptions, flags, device, usage,
       history
  <1>14. CASE RemountSame
    BY <1>14 DEF Quiet, TypeOK, Places, At, Idle, RemountSame, Go, flags, device,
       usage, history
  <1>15. CASE RemountRO
    BY <1>15 DEF Quiet, TypeOK, Places, At, Idle, RemountRO, device, usage, history
  <1>16. CASE RemountRW
    BY <1>16 DEF Quiet, TypeOK, Places, At, Idle, RemountRW, Go, GoSync, device, usage,
       history
  <1>17. CASE Suspend
    BY <1>17 DEF Quiet, TypeOK, Places, At, Idle, Suspend, Go, flags, device, usage,
       history
  <1>18. CASE RestoreOpts
    BY <1>18 DEF Quiet, TypeOK, Places, At, Idle, RestoreOpts, Go, device, history
  <1>19. CASE Remounted
    BY <1>19 DEF Quiet, TypeOK, Places, At, Idle, Remounted, Go, device, history
  <1>20. CASE FreezeSuper
    BY <1>20 DEF Quiet, TypeOK, Places, At, Idle, FreezeSuper, Go, GoSync, flags,
       device, history
  <1>21. CASE Freeze
    BY <1>21 DEF Quiet, TypeOK, Places, At, Idle, Freeze, GoSync, device, history
  <1>22. CASE ThawSuper
    BY <1>22 DEF Quiet, TypeOK, Places, At, Idle, ThawSuper, Go, GoSync, flags, device,
       usage, history
  <1>23. CASE Thawed
    BY <1>23 DEF Quiet, TypeOK, Places, At, Idle, Thawed, Go, flags, device, history
  <1>24. CASE Write
    BY <1>24 DEF Quiet, TypeOK, Places, At, Idle, Write, MayWrite, flags, device,
       usage, history
  <1>25. CASE Error
    BY <1>25 DEF Quiet, TypeOK, Places, At, Idle, Error, device, usage
  <1>26. CASE ErrorSync
    BY <1>26 DEF Quiet, TypeOK, Places, At, Idle, ErrorSync, flags, usage
  <1>27. CASE ErrorPolicy
    BY <1>27 DEF Quiet, TypeOK, Places, At, Idle, ErrorPolicy, device, usage, history
  <1>28. CASE ErrorPanic
    BY <1>28 DEF Quiet, TypeOK, Places, At, Idle, ErrorPanic, Fall, usage
  <1>29. CASE Crash
    BY <1>29 DEF Quiet, TypeOK, Places, At, Idle, Crash, Fall, usage
  <1>30. CASE Fsck
    BY <1>30 DEF Quiet, TypeOK, Places, At, Idle, Fsck, usage
  <1>31. CASE UNCHANGED vars
    BY <1>31 DEF Quiet, TypeOK, Places, At, Idle, vars
  <1>32. QED
    BY <1>1, <1>2, <1>3, <1>4, <1>5, <1>6, <1>7, <1>8, <1>9, <1>10, <1>11, <1>12,
       <1>13, <1>14, <1>15, <1>16, <1>17, <1>18, <1>19, <1>20, <1>21, <1>22, <1>23,
       <1>24, <1>25, <1>26, <1>27, <1>28, <1>29, <1>30, <1>31 DEF Next

\* Every step keeps an error that was written down in all three places.
LEMMA ErrorStep ==
    ASSUME TypeOK, Quiet, ErrorEverywhere, [Next]_vars
    PROVE  ErrorEverywhere'
PROOF
  <1>1. CASE SyncFs
    BY <1>1 DEF ErrorEverywhere, Quiet, SyncFs, At, Go, Idle, device, usage, history
  <1>2. CASE SyncSuper
    BY <1>2 DEF ErrorEverywhere, Quiet, SyncSuper, At, Go, Idle, flags, usage, history
  <1>3. CASE SyncLater
    BY <1>3 DEF ErrorEverywhere, Quiet, SyncLater, At, Go, Idle, flags, usage, history
  <1>4. CASE Writeback
    BY <1>4 DEF ErrorEverywhere, Quiet, Writeback, flags, usage, history
  <1>5. CASE Sync
    BY <1>5 DEF ErrorEverywhere, Quiet, Sync, At, GoSync, flags, device, usage, history
  <1>6. ASSUME NEW want \in {"rw", "ro"}, Mount(want) PROVE ErrorEverywhere'
    BY <1>6 DEF ErrorEverywhere, Quiet, Mount, At, Idle, device, history
  <1>7. ASSUME NEW want \in {"rw", "ro"}, MountRefused(want) PROVE ErrorEverywhere'
    BY <1>7 DEF ErrorEverywhere, Quiet, MountRefused, At, flags, usage
  <1>8. ASSUME NEW want \in {"rw", "ro"}, Remount(want) PROVE ErrorEverywhere'
    BY <1>8 DEF ErrorEverywhere, Quiet, Remount, At, flags, device, history
  <1>9. CASE Mounted
    BY <1>9 DEF ErrorEverywhere, Quiet, Mounted, At, Go, Idle, flags, device, history
  <1>10. CASE Unmount
    BY <1>10 DEF ErrorEverywhere, Quiet, Unmount, At, Go, GoSync, Idle, flags, device,
       history
  <1>11. CASE PutSuper
    BY <1>11 DEF ErrorEverywhere, Quiet, PutSuper, At, device, usage, history
  <1>12. CASE Unmounted
    BY <1>12 DEF ErrorEverywhere, Quiet, Unmounted, At, Go, Idle
  <1>13. CASE RemountOptions
    BY <1>13 DEF ErrorEverywhere, Quiet, RemountOptions, At, flags, device, usage,
       history
  <1>14. CASE RemountSame
    BY <1>14 DEF ErrorEverywhere, Quiet, RemountSame, At, Go, Idle, flags, device,
       usage, history
  <1>15. CASE RemountRO
    BY <1>15 DEF ErrorEverywhere, Quiet, RemountRO, At, device, usage, history
  <1>16. CASE RemountRW
    BY <1>16 DEF ErrorEverywhere, Quiet, RemountRW, At, Go, GoSync, Idle, device,
       usage, history
  <1>17. CASE Suspend
    BY <1>17 DEF ErrorEverywhere, Quiet, Suspend, At, Go, Idle, flags, device, usage,
       history
  <1>18. CASE RestoreOpts
    BY <1>18 DEF ErrorEverywhere, Quiet, RestoreOpts, At, Go, Idle, device, history
  <1>19. CASE Remounted
    BY <1>19 DEF ErrorEverywhere, Quiet, Remounted, At, Go, Idle, device, history
  <1>20. CASE FreezeSuper
    BY <1>20 DEF ErrorEverywhere, Quiet, FreezeSuper, At, Go, GoSync, Idle, flags,
       device, history
  <1>21. CASE Freeze
    BY <1>21 DEF ErrorEverywhere, Quiet, Freeze, At, GoSync, device, history
  <1>22. CASE ThawSuper
    BY <1>22 DEF ErrorEverywhere, Quiet, ThawSuper, At, Go, GoSync, Idle, flags,
       device, usage, history
  <1>23. CASE Thawed
    BY <1>23 DEF ErrorEverywhere, Quiet, Thawed, At, Go, Idle, flags, device, history
  <1>24. CASE Write
    BY <1>24 DEF ErrorEverywhere, Quiet, Write, MayWrite, flags, device, usage, history
  <1>25. CASE Error
    BY <1>25 DEF ErrorEverywhere, Quiet, Error, device, usage
  <1>26. CASE ErrorSync
    BY <1>26 DEF ErrorEverywhere, Quiet, ErrorSync, flags, usage
  <1>27. CASE ErrorPolicy
    BY <1>27 DEF ErrorEverywhere, Quiet, ErrorPolicy, device, usage, history
  <1>28. CASE ErrorPanic
    BY <1>28 DEF ErrorEverywhere, Quiet, ErrorPanic, Fall, Idle, usage
  <1>29. CASE Crash
    BY <1>29 DEF ErrorEverywhere, Quiet, Crash, Fall, Idle, usage
  <1>30. CASE Fsck
    BY <1>30 DEF ErrorEverywhere, Quiet, Fsck, At, usage
  <1>31. CASE UNCHANGED vars
    BY <1>31 DEF ErrorEverywhere, Quiet, vars
  <1>32. QED
    BY <1>1, <1>2, <1>3, <1>4, <1>5, <1>6, <1>7, <1>8, <1>9, <1>10, <1>11, <1>12,
       <1>13, <1>14, <1>15, <1>16, <1>17, <1>18, <1>19, <1>20, <1>21, <1>22, <1>23,
       <1>24, <1>25, <1>26, <1>27, <1>28, <1>29, <1>30, <1>31 DEF Next

\* Every step without a crash or an error keeps the way to read-only clean.
LEMMA CleanStep ==
    ASSUME TypeOK, Quiet, ErrorEverywhere,
           ~met /\ ~crashed => CleanOnTheWay, [Next]_vars, ~met', ~crashed'
    PROVE  CleanOnTheWay'
PROOF
  <1>1. CASE SyncFs
    BY <1>1 DEF CleanOnTheWay, Clean, TypeOK, Flags, Places, Quiet, ErrorEverywhere,
       At, Idle, SyncFs, Go, device, usage, history
  <1>2. CASE SyncSuper
    BY <1>2 DEF CleanOnTheWay, Clean, TypeOK, Flags, Places, Quiet, ErrorEverywhere,
       At, Idle, SyncSuper, Go, flags, usage, history
  <1>3. CASE SyncLater
    BY <1>3 DEF CleanOnTheWay, Clean, TypeOK, Flags, Places, Quiet, ErrorEverywhere,
       At, Idle, SyncLater, Go, flags, usage, history
  <1>4. CASE Writeback
    BY <1>4 DEF CleanOnTheWay, Clean, TypeOK, Flags, Places, Quiet, ErrorEverywhere,
       At, Idle, Writeback, flags, usage, history
  <1>5. CASE Sync
    BY <1>5 DEF CleanOnTheWay, Clean, TypeOK, Flags, Places, Quiet, ErrorEverywhere,
       At, Idle, Sync, GoSync, flags, device, usage, history
  <1>6. ASSUME NEW want \in {"rw", "ro"}, Mount(want) PROVE CleanOnTheWay'
    BY <1>6 DEF CleanOnTheWay, Clean, TypeOK, Flags, Places, Quiet, ErrorEverywhere,
       At, Idle, Mount, device, history
  <1>7. ASSUME NEW want \in {"rw", "ro"}, MountRefused(want) PROVE CleanOnTheWay'
    BY <1>7 DEF CleanOnTheWay, Clean, TypeOK, Flags, Places, Quiet, ErrorEverywhere,
       At, Idle, MountRefused, flags, usage
  <1>8. ASSUME NEW want \in {"rw", "ro"}, Remount(want) PROVE CleanOnTheWay'
    BY <1>8 DEF CleanOnTheWay, Clean, TypeOK, Flags, Places, Quiet, ErrorEverywhere,
       At, Idle, Remount, flags, device, history
  <1>9. CASE Mounted
    BY <1>9 DEF CleanOnTheWay, Clean, TypeOK, Flags, Places, Quiet, ErrorEverywhere,
       At, Idle, Mounted, Go, flags, device, history
  <1>10. CASE Unmount
    BY <1>10 DEF CleanOnTheWay, Clean, TypeOK, Flags, Places, Quiet, ErrorEverywhere,
       At, Idle, Unmount, Go, GoSync, flags, device, history
  <1>11. CASE PutSuper
    BY <1>11 DEF CleanOnTheWay, Clean, TypeOK, Flags, Places, Quiet, ErrorEverywhere,
       At, Idle, PutSuper, device, usage, history
  <1>12. CASE Unmounted
    BY <1>12 DEF CleanOnTheWay, Clean, TypeOK, Flags, Places, Quiet, ErrorEverywhere,
       At, Idle, Unmounted, Go
  <1>13. CASE RemountOptions
    BY <1>13 DEF CleanOnTheWay, Clean, TypeOK, Flags, Places, Quiet, ErrorEverywhere,
       At, Idle, RemountOptions, flags, device, usage, history
  <1>14. CASE RemountSame
    BY <1>14 DEF CleanOnTheWay, Clean, TypeOK, Flags, Places, Quiet, ErrorEverywhere,
       At, Idle, RemountSame, Go, flags, device, usage, history
  <1>15. CASE RemountRO
    BY <1>15 DEF CleanOnTheWay, Clean, TypeOK, Flags, Places, Quiet, ErrorEverywhere,
       At, Idle, RemountRO, device, usage, history
  <1>16. CASE RemountRW
    BY <1>16 DEF CleanOnTheWay, Clean, TypeOK, Flags, Places, Quiet, ErrorEverywhere,
       At, Idle, RemountRW, Go, GoSync, device, usage, history
  <1>17. CASE Suspend
    <2>1. /\ ~met /\ ~crashed /\ mnt = "rw" /\ adm.old = "rw"
          /\ Clean(es) /\ Clean(state)
      BY <1>17 DEF CleanOnTheWay, Suspend, history, At
    <2>2. CASE adm' = [adm EXCEPT !.pc = "sync_super", !.next = "remounted"]
      BY <1>17, <2>1, <2>2
      DEF CleanOnTheWay, Clean, TypeOK, Places, At, Suspend, flags, device, usage, history
    <2>3. CASE Go("restore_opts")
      BY <1>17, <2>1, <2>3
      DEF CleanOnTheWay, Clean, TypeOK, Places, At, Go, Suspend, flags, device, usage,
          history
    <2>4. QED
      BY <1>17, <2>2, <2>3 DEF Suspend
  <1>18. CASE RestoreOpts
    BY <1>18 DEF CleanOnTheWay, Clean, TypeOK, Flags, Places, Quiet, ErrorEverywhere,
       At, Idle, RestoreOpts, Go, device, history
  <1>19. CASE Remounted
    BY <1>19 DEF CleanOnTheWay, Clean, TypeOK, Flags, Places, Quiet, ErrorEverywhere,
       At, Idle, Remounted, Go, device, history
  <1>20. CASE FreezeSuper
    <2>1. CASE mnt = "rw"
      BY <1>20, <2>1
      DEF CleanOnTheWay, Clean, TypeOK, Places, At, GoSync, FreezeSuper, flags, device,
          history
    <2>2. CASE mnt # "rw"
      BY <1>20, <2>2
      DEF CleanOnTheWay, Clean, TypeOK, Places, At, Go, Idle, FreezeSuper, flags, device,
          history
    <2>3. QED
      BY <2>1, <2>2
  <1>21. CASE Freeze
    BY <1>21 DEF CleanOnTheWay, Clean, TypeOK, Flags, Places, Quiet, ErrorEverywhere,
       At, Idle, Freeze, GoSync, device, history
  <1>22. CASE ThawSuper
    BY <1>22 DEF CleanOnTheWay, Clean, TypeOK, Flags, Places, Quiet, ErrorEverywhere,
       At, Idle, ThawSuper, Go, GoSync, flags, device, usage, history
  <1>23. CASE Thawed
    BY <1>23 DEF CleanOnTheWay, Clean, TypeOK, Flags, Places, Quiet, ErrorEverywhere,
       At, Idle, Thawed, Go, flags, device, history
  <1>24. CASE Write
    BY <1>24 DEF CleanOnTheWay, Clean, TypeOK, Flags, Places, Quiet, ErrorEverywhere,
       At, Idle, Write, MayWrite, flags, device, usage, history
  <1>25. CASE Error
    BY <1>25 DEF CleanOnTheWay, Clean, TypeOK, Flags, Places, Quiet, ErrorEverywhere,
       At, Idle, Error, device, usage
  <1>26. CASE ErrorSync
    BY <1>26 DEF CleanOnTheWay, Clean, TypeOK, Flags, Places, Quiet, ErrorEverywhere,
       At, Idle, ErrorSync, flags, usage
  <1>27. CASE ErrorPolicy
    BY <1>27 DEF CleanOnTheWay, Clean, TypeOK, Flags, Places, Quiet, ErrorEverywhere,
       At, Idle, ErrorPolicy, device, usage, history
  <1>28. CASE ErrorPanic
    BY <1>28 DEF CleanOnTheWay, Clean, TypeOK, Flags, Places, Quiet, ErrorEverywhere,
       At, Idle, ErrorPanic, Fall, usage
  <1>29. CASE Crash
    BY <1>29 DEF CleanOnTheWay, Clean, TypeOK, Flags, Places, Quiet, ErrorEverywhere,
       At, Idle, Crash, Fall, usage
  <1>30. CASE Fsck
    BY <1>30 DEF CleanOnTheWay, Clean, TypeOK, Flags, Places, Quiet, ErrorEverywhere,
       At, Idle, Fsck, usage
  <1>31. CASE UNCHANGED vars
    BY <1>31 DEF CleanOnTheWay, Clean, TypeOK, Flags, Places, Quiet, ErrorEverywhere, At, Idle, vars
  <1>32. QED
    BY <1>1, <1>2, <1>3, <1>4, <1>5, <1>6, <1>7, <1>8, <1>9, <1>10, <1>11, <1>12,
       <1>13, <1>14, <1>15, <1>16, <1>17, <1>18, <1>19, <1>20, <1>21, <1>22, <1>23,
       <1>24, <1>25, <1>26, <1>27, <1>28, <1>29, <1>30, <1>31 DEF Next

\* Every step follows the order of the steps of a remount.
LEMMA OrderStep ==
    ASSUME TypeOK, Quiet, StepsInOrder, [Next]_vars
    PROVE  StepsInOrder'
PROOF
  <1>1. CASE SyncFs
    BY <1>1 DEF StepsInOrder, Remounting, TypeOK, Places, Quiet, At, Idle, SyncFs, Go,
       device, usage, history
  <1>2. CASE SyncSuper
    BY <1>2 DEF StepsInOrder, Remounting, TypeOK, Places, Quiet, At, Idle, SyncSuper,
       Go, flags, usage, history
  <1>3. CASE SyncLater
    BY <1>3 DEF StepsInOrder, Remounting, TypeOK, Places, Quiet, At, Idle, SyncLater,
       Go, flags, usage, history
  <1>4. CASE Writeback
    BY <1>4 DEF StepsInOrder, Remounting, TypeOK, Places, Quiet, At, Idle, Writeback,
       flags, usage, history
  <1>5. CASE Sync
    BY <1>5 DEF StepsInOrder, Remounting, TypeOK, Places, Quiet, At, Idle, Sync,
       GoSync, flags, device, usage, history
  <1>6. ASSUME NEW want \in {"rw", "ro"}, Mount(want) PROVE StepsInOrder'
    BY <1>6 DEF StepsInOrder, Remounting, TypeOK, Places, Quiet, At, Idle, Mount,
       device, history
  <1>7. ASSUME NEW want \in {"rw", "ro"}, MountRefused(want) PROVE StepsInOrder'
    BY <1>7 DEF StepsInOrder, Remounting, TypeOK, Places, Quiet, At, Idle,
       MountRefused, flags, usage
  <1>8. ASSUME NEW want \in {"rw", "ro"}, Remount(want) PROVE StepsInOrder'
    BY <1>8 DEF StepsInOrder, Remounting, TypeOK, Places, Quiet, At, Idle, Remount,
       flags, device, history
  <1>9. CASE Mounted
    BY <1>9 DEF StepsInOrder, Remounting, TypeOK, Places, Quiet, At, Idle, Mounted, Go,
       flags, device, history
  <1>10. CASE Unmount
    BY <1>10 DEF StepsInOrder, Remounting, TypeOK, Places, Quiet, At, Idle, Unmount,
       Go, GoSync, flags, device, history
  <1>11. CASE PutSuper
    BY <1>11 DEF StepsInOrder, Remounting, TypeOK, Places, Quiet, At, Idle, PutSuper,
       device, usage, history
  <1>12. CASE Unmounted
    BY <1>12 DEF StepsInOrder, Remounting, TypeOK, Places, Quiet, At, Idle, Unmounted,
       Go
  <1>13. CASE RemountOptions
    BY <1>13 DEF StepsInOrder, Remounting, TypeOK, Places, Quiet, At, Idle,
       RemountOptions, flags, device, usage, history
  <1>14. CASE RemountSame
    BY <1>14 DEF StepsInOrder, Remounting, TypeOK, Places, Quiet, At, Idle,
       RemountSame, Go, flags, device, usage, history
  <1>15. CASE RemountRO
    BY <1>15 DEF StepsInOrder, Remounting, TypeOK, Places, Quiet, At, Idle, RemountRO,
       device, usage, history
  <1>16. CASE RemountRW
    BY <1>16 DEF StepsInOrder, Remounting, TypeOK, Places, Quiet, At, Idle, RemountRW,
       Go, GoSync, device, usage, history
  <1>17. CASE Suspend
    BY <1>17 DEF StepsInOrder, Remounting, TypeOK, Places, Quiet, At, Idle, Suspend,
       Go, flags, device, usage, history
  <1>18. CASE RestoreOpts
    BY <1>18 DEF StepsInOrder, Remounting, TypeOK, Places, Quiet, At, Idle,
       RestoreOpts, Go, device, history
  <1>19. CASE Remounted
    BY <1>19 DEF StepsInOrder, Remounting, TypeOK, Places, Quiet, At, Idle, Remounted,
       Go, device, history
  <1>20. CASE FreezeSuper
    BY <1>20 DEF StepsInOrder, Remounting, TypeOK, Places, Quiet, At, Idle,
       FreezeSuper, Go, GoSync, flags, device, history
  <1>21. CASE Freeze
    BY <1>21 DEF StepsInOrder, Remounting, TypeOK, Places, Quiet, At, Idle, Freeze,
       GoSync, device, history
  <1>22. CASE ThawSuper
    BY <1>22 DEF StepsInOrder, Remounting, TypeOK, Places, Quiet, At, Idle, ThawSuper,
       Go, GoSync, flags, device, usage, history
  <1>23. CASE Thawed
    BY <1>23 DEF StepsInOrder, Remounting, TypeOK, Places, Quiet, At, Idle, Thawed, Go,
       flags, device, history
  <1>24. CASE Write
    BY <1>24 DEF StepsInOrder, Remounting, TypeOK, Places, Quiet, At, Idle, Write,
       MayWrite, flags, device, usage, history
  <1>25. CASE Error
    BY <1>25 DEF StepsInOrder, Remounting, TypeOK, Places, Quiet, At, Idle, Error,
       device, usage
  <1>26. CASE ErrorSync
    BY <1>26 DEF StepsInOrder, Remounting, TypeOK, Places, Quiet, At, Idle, ErrorSync,
       flags, usage
  <1>27. CASE ErrorPolicy
    BY <1>27 DEF StepsInOrder, Remounting, TypeOK, Places, Quiet, At, Idle,
       ErrorPolicy, device, usage, history
  <1>28. CASE ErrorPanic
    BY <1>28 DEF StepsInOrder, Remounting, TypeOK, Places, Quiet, At, Idle, ErrorPanic,
       Fall, usage
  <1>29. CASE Crash
    BY <1>29 DEF StepsInOrder, Remounting, TypeOK, Places, Quiet, At, Idle, Crash,
       Fall, usage
  <1>30. CASE Fsck
    BY <1>30 DEF StepsInOrder, Remounting, TypeOK, Places, Quiet, At, Idle, Fsck, usage
  <1>31. CASE UNCHANGED vars
    BY <1>31 DEF StepsInOrder, Remounting, TypeOK, Places, Quiet, At, Idle, vars
  <1>32. QED
    BY <1>1, <1>2, <1>3, <1>4, <1>5, <1>6, <1>7, <1>8, <1>9, <1>10, <1>11, <1>12,
       <1>13, <1>14, <1>15, <1>16, <1>17, <1>18, <1>19, <1>20, <1>21, <1>22, <1>23,
       <1>24, <1>25, <1>26, <1>27, <1>28, <1>29, <1>30, <1>31 DEF Next

\* Every step, of a filesystem mounted once and of a revision that is supported, keeps
\* writers off what is called whole.
LEMMA HeldOffStep ==
    ASSUME ~Binds, ~RevTooHigh, TypeOK, Quiet, ErrorEverywhere, StepsInOrder, HeldOff,
           [Next]_vars
    PROVE  HeldOff'
PROOF
  <1>1. CASE SyncFs
    BY <1>1 DEF HeldOff, NotCalledWhole, ToldInUse, StepsInOrder, Remounting, MayWrite,
       Clean, TypeOK, Places, Quiet, ErrorEverywhere, At, Idle, SyncFs, Go, device,
       usage, history
  <1>2. CASE SyncSuper
    BY <1>2 DEF HeldOff, NotCalledWhole, ToldInUse, StepsInOrder, Remounting, MayWrite,
       Clean, TypeOK, Places, Quiet, ErrorEverywhere, At, Idle, SyncSuper, Go, flags,
       usage, history
  <1>3. CASE SyncLater
    BY <1>3 DEF HeldOff, NotCalledWhole, ToldInUse, StepsInOrder, Remounting, MayWrite,
       Clean, TypeOK, Places, Quiet, ErrorEverywhere, At, Idle, SyncLater, Go, flags,
       usage, history
  <1>4. CASE Writeback
    BY <1>4 DEF HeldOff, NotCalledWhole, ToldInUse, StepsInOrder, Remounting, MayWrite,
       Clean, TypeOK, Places, Quiet, ErrorEverywhere, At, Idle, Writeback, flags,
       usage, history
  <1>5. CASE Sync
    BY <1>5 DEF HeldOff, NotCalledWhole, ToldInUse, StepsInOrder, Remounting, MayWrite,
       Clean, TypeOK, Places, Quiet, ErrorEverywhere, At, Idle, Sync, GoSync, flags,
       device, usage, history
  <1>6. ASSUME NEW want \in {"rw", "ro"}, Mount(want) PROVE HeldOff'
    BY <1>6 DEF HeldOff, NotCalledWhole, ToldInUse, StepsInOrder, Remounting, MayWrite,
       Clean, TypeOK, Places, Quiet, ErrorEverywhere, At, Idle, Mount, device, history
  <1>7. ASSUME NEW want \in {"rw", "ro"}, MountRefused(want) PROVE HeldOff'
    BY <1>7 DEF HeldOff, NotCalledWhole, ToldInUse, StepsInOrder, Remounting, MayWrite,
       Clean, TypeOK, Places, Quiet, ErrorEverywhere, At, Idle, MountRefused, flags,
       usage
  <1>8. ASSUME NEW want \in {"rw", "ro"}, Remount(want) PROVE HeldOff'
    <2>1. /\ adm = Idle /\ ~still
          /\ still' <=> (want = "ro" /\ mnt = "rw")
      BY <1>8 DEF Remount, StepsInOrder, At
    <2>2. CASE mnt = "rw"
      <3>1. /\ adm' = [pc |-> "sync_fs", want |-> want, old |-> "rw", next |-> "remount"]
            /\ ~pending' /\ (want = "ro" => ~orphans)
        BY <1>8, <2>2 DEF Remount
      <3>2. MayWrite /\ NotCalledWhole
        BY <2>1, <2>2 DEF MayWrite, HeldOff, Idle
      <3>3. NotCalledWhole'
        BY <1>8, <3>1, <3>2 DEF NotCalledWhole, Clean, At, Remount, flags, device
      <3>4. QED
        BY <1>8, <2>1, <2>2, <3>1, <3>3 DEF HeldOff, MayWrite, ToldInUse, Clean, At, Idle,
           Remount, flags, device, history
    <2>3. CASE mnt # "rw"
      BY <1>8, <2>1, <2>3 DEF HeldOff, NotCalledWhole, ToldInUse, MayWrite, Clean, TypeOK,
         Quiet, At, Idle, Remount, flags, device, history
    <2>4. QED
      BY <2>2, <2>3
  <1>9. CASE Mounted
    BY <1>9 DEF HeldOff, NotCalledWhole, ToldInUse, StepsInOrder, Remounting, MayWrite,
       Clean, TypeOK, Places, Quiet, ErrorEverywhere, At, Idle, Mounted, Go, flags,
       device, history
  <1>10. CASE Unmount
    BY <1>10 DEF HeldOff, NotCalledWhole, ToldInUse, StepsInOrder, Remounting,
       MayWrite, Clean, TypeOK, Places, Quiet, ErrorEverywhere, At, Idle, Unmount, Go,
       GoSync, flags, device, history
  <1>11. CASE PutSuper
    BY <1>11 DEF HeldOff, NotCalledWhole, ToldInUse, StepsInOrder, Remounting,
       MayWrite, Clean, TypeOK, Places, Quiet, ErrorEverywhere, At, Idle, PutSuper,
       device, usage, history
  <1>12. CASE Unmounted
    BY <1>12 DEF HeldOff, NotCalledWhole, ToldInUse, StepsInOrder, Remounting,
       MayWrite, Clean, TypeOK, Places, Quiet, ErrorEverywhere, At, Idle, Unmounted, Go
  <1>13. CASE RemountOptions
    BY <1>13 DEF HeldOff, NotCalledWhole, ToldInUse, StepsInOrder, Remounting,
       MayWrite, Clean, TypeOK, Places, Quiet, ErrorEverywhere, At, Idle,
       RemountOptions, flags, device, usage, history
  <1>14. CASE RemountSame
    BY <1>14 DEF HeldOff, NotCalledWhole, ToldInUse, StepsInOrder, Remounting,
       MayWrite, Clean, TypeOK, Places, Quiet, ErrorEverywhere, At, Idle, RemountSame,
       Go, flags, device, usage, history
  <1>15. CASE RemountRO
    BY <1>15 DEF HeldOff, NotCalledWhole, ToldInUse, StepsInOrder, Remounting,
       MayWrite, Clean, TypeOK, Places, Quiet, ErrorEverywhere, At, Idle, RemountRO,
       device, usage, history
  <1>16. CASE RemountRW
    BY <1>16 DEF HeldOff, NotCalledWhole, ToldInUse, StepsInOrder, Remounting,
       MayWrite, Clean, TypeOK, Places, Quiet, ErrorEverywhere, At, Idle, RemountRW,
       Go, GoSync, device, usage, history
  <1>17. CASE Suspend
    BY <1>17 DEF HeldOff, NotCalledWhole, ToldInUse, StepsInOrder, Remounting,
       MayWrite, Clean, TypeOK, Places, Quiet, ErrorEverywhere, At, Idle, Suspend, Go,
       flags, device, usage, history
  <1>18. CASE RestoreOpts
    BY <1>18 DEF HeldOff, NotCalledWhole, ToldInUse, StepsInOrder, Remounting,
       MayWrite, Clean, TypeOK, Places, Quiet, ErrorEverywhere, At, Idle, RestoreOpts,
       Go, device, history
  <1>19. CASE Remounted
    BY <1>19 DEF HeldOff, NotCalledWhole, ToldInUse, StepsInOrder, Remounting,
       MayWrite, Clean, TypeOK, Places, Quiet, ErrorEverywhere, At, Idle, Remounted,
       Go, device, history
  <1>20. CASE FreezeSuper
    BY <1>20 DEF HeldOff, NotCalledWhole, ToldInUse, StepsInOrder, Remounting,
       MayWrite, Clean, TypeOK, Places, Quiet, ErrorEverywhere, At, Idle, FreezeSuper,
       Go, GoSync, flags, device, history
  <1>21. CASE Freeze
    BY <1>21 DEF HeldOff, NotCalledWhole, ToldInUse, StepsInOrder, Remounting,
       MayWrite, Clean, TypeOK, Places, Quiet, ErrorEverywhere, At, Idle, Freeze,
       GoSync, device, history
  <1>22. CASE ThawSuper
    BY <1>22 DEF HeldOff, NotCalledWhole, ToldInUse, StepsInOrder, Remounting,
       MayWrite, Clean, TypeOK, Places, Quiet, ErrorEverywhere, At, Idle, ThawSuper,
       Go, GoSync, flags, device, usage, history
  <1>23. CASE Thawed
    BY <1>23 DEF HeldOff, NotCalledWhole, ToldInUse, StepsInOrder, Remounting,
       MayWrite, Clean, TypeOK, Places, Quiet, ErrorEverywhere, At, Idle, Thawed, Go,
       flags, device, history
  <1>24. CASE Write
    BY <1>24 DEF HeldOff, NotCalledWhole, ToldInUse, StepsInOrder, Remounting,
       MayWrite, Clean, TypeOK, Places, Quiet, ErrorEverywhere, At, Idle, Write, flags,
       device, usage, history
  <1>25. CASE Error
    BY <1>25 DEF HeldOff, NotCalledWhole, ToldInUse, StepsInOrder, Remounting,
       MayWrite, Clean, TypeOK, Places, Quiet, ErrorEverywhere, At, Idle, Error,
       device, usage
  <1>26. CASE ErrorSync
    BY <1>26 DEF HeldOff, NotCalledWhole, ToldInUse, StepsInOrder, Remounting,
       MayWrite, Clean, TypeOK, Places, Quiet, ErrorEverywhere, At, Idle, ErrorSync,
       flags, usage
  <1>27. CASE ErrorPolicy
    BY <1>27 DEF HeldOff, NotCalledWhole, ToldInUse, StepsInOrder, Remounting,
       MayWrite, Clean, TypeOK, Places, Quiet, ErrorEverywhere, At, Idle, ErrorPolicy,
       device, usage, history
  <1>28. CASE ErrorPanic
    BY <1>28 DEF HeldOff, NotCalledWhole, ToldInUse, StepsInOrder, Remounting,
       MayWrite, Clean, TypeOK, Places, Quiet, ErrorEverywhere, At, Idle, ErrorPanic,
       Fall, usage
  <1>29. CASE Crash
    BY <1>29 DEF HeldOff, NotCalledWhole, ToldInUse, StepsInOrder, Remounting,
       MayWrite, Clean, TypeOK, Places, Quiet, ErrorEverywhere, At, Idle, Crash, Fall,
       usage
  <1>30. CASE Fsck
    BY <1>30 DEF HeldOff, NotCalledWhole, ToldInUse, StepsInOrder, Remounting,
       MayWrite, Clean, TypeOK, Places, Quiet, ErrorEverywhere, At, Idle, Fsck, usage
  <1>31. CASE UNCHANGED vars
    BY <1>31 DEF HeldOff, NotCalledWhole, ToldInUse, StepsInOrder, Remounting, MayWrite, Clean, TypeOK, Places, Quiet, ErrorEverywhere, At, Idle, vars
  <1>32. QED
    BY <1>1, <1>2, <1>3, <1>4, <1>5, <1>6, <1>7, <1>8, <1>9, <1>10, <1>11, <1>12,
       <1>13, <1>14, <1>15, <1>16, <1>17, <1>18, <1>19, <1>20, <1>21, <1>22, <1>23,
       <1>24, <1>25, <1>26, <1>27, <1>28, <1>29, <1>30, <1>31 DEF Next
-----------------------------------------------------------------------------
\* A set of flags is VALID and nothing else exactly when its elements say so.
LEMMA CleanMeansValid ==
    ASSUME NEW S \in Flags
    PROVE  S = {"VALID"} <=> Clean(S)
PROOF
  BY DEF Flags, Clean

\* At the start the parts that all of the proofs share hold.
LEMMA AtTheStart ==
    ASSUME Init
    PROVE  TypeOK /\ Quiet /\ ErrorEverywhere /\ StepsInOrder
PROOF
  <1>1. adm = Idle /\ Idle \in Places
    BY DEF Init, Idle, Places, Steps
  <1>2. TypeOK
    BY <1>1 DEF Init, TypeOK, Flags
  <1>3. Quiet /\ ErrorEverywhere
    BY <1>1 DEF Init, Quiet, ErrorEverywhere, Idle
  <1>4. StepsInOrder
    BY <1>1 DEF Init, StepsInOrder, Remounting, At, Idle
  <1>5. QED
    BY <1>2, <1>3, <1>4

\* The device asks for a check, until there is one, exactly when there is a reason, for
\* every error policy, with bind mounts and with a revision that is too high.
THEOREM CheckedWhenNeededHolds == Spec => []CheckedWhenNeeded
PROOF
  <1>1. Init => CheckInv
    <2>1. Init => CleanOnTheWay
      BY DEF Init, CleanOnTheWay, Clean, At, Idle
    <2>2. QED
      BY <2>1, AtTheStart DEF CheckInv
  <1>2. CheckInv /\ [Next]_vars => CheckInv'
    BY TypeStep, QuietStep, ErrorStep, CleanStep DEF CheckInv
  <1>3. CheckInv => CheckedWhenNeeded
    BY CleanMeansValid DEF CheckInv, CheckedWhenNeeded, ErrorsStay, NoNeedlessCheck,
       TypeOK, Quiet, ErrorEverywhere, CleanOnTheWay
  <1>4. QED
    BY <1>1, <1>2, <1>3, PTL DEF Spec

\* Whenever the machine stops, a device that says valid and nothing else is whole, for
\* every error policy and whether or not remounts may fail, when the filesystem is
\* mounted once and its revision is supported.
THEOREM ValidIsWhole ==
    ASSUME ~Binds, ~RevTooHigh
    PROVE  Spec => []ValidMeansWhole
PROOF
  <1>1. Init => WholeInv
    <2>1. Init => HeldOff
      BY DEF Init, HeldOff, ToldInUse, MayWrite, At, Idle
    <2>2. QED
      BY <2>1, AtTheStart DEF WholeInv
  <1>2. WholeInv /\ [Next]_vars => WholeInv'
    BY TypeStep, QuietStep, ErrorStep, OrderStep, HeldOffStep DEF WholeInv
  <1>3. WholeInv => ValidMeansWhole
    BY CleanMeansValid DEF WholeInv, ValidMeansWhole, TypeOK, HeldOff, NotCalledWhole
  <1>4. QED
    BY <1>1, <1>2, <1>3, PTL DEF Spec

-----------------------------------------------------------------------------
\* The old flags, which a remount that failed gives back, are those in force.
OldIsNow ==
    /\ At("restore_opts") => RemountFails
    /\ RemountFails /\ adm.pc \in {"suspend", "restore_opts"} => mnt = adm.old

\* Every step keeps the old flags those in force, unless kr_error may have made the
\* filesystem read-only in between.
LEMMA OldStep ==
    ASSUME ~(Policy = "ro" /\ RemountFails), TypeOK, StepsInOrder, OldIsNow, [Next]_vars
    PROVE  OldIsNow'
PROOF
  <1>1. CASE SyncFs
    BY <1>1 DEF OldIsNow, TypeOK, Places, StepsInOrder, At, Idle, SyncFs, Go, device,
       usage, history
  <1>2. CASE SyncSuper
    BY <1>2 DEF OldIsNow, TypeOK, Places, StepsInOrder, At, Idle, SyncSuper, Go, flags,
       usage, history
  <1>3. CASE SyncLater
    BY <1>3 DEF OldIsNow, TypeOK, Places, StepsInOrder, At, Idle, SyncLater, Go, flags,
       usage, history
  <1>4. CASE Writeback
    BY <1>4 DEF OldIsNow, TypeOK, Places, StepsInOrder, At, Idle, Writeback, flags,
       usage, history
  <1>5. CASE Sync
    BY <1>5 DEF OldIsNow, TypeOK, Places, StepsInOrder, At, Idle, Sync, GoSync, flags,
       device, usage, history
  <1>6. ASSUME NEW want \in {"rw", "ro"}, Mount(want) PROVE OldIsNow'
    BY <1>6 DEF OldIsNow, TypeOK, Places, StepsInOrder, At, Idle, Mount, device, history
  <1>7. ASSUME NEW want \in {"rw", "ro"}, MountRefused(want) PROVE OldIsNow'
    BY <1>7 DEF OldIsNow, TypeOK, Places, StepsInOrder, At, Idle, MountRefused, flags,
       usage
  <1>8. ASSUME NEW want \in {"rw", "ro"}, Remount(want) PROVE OldIsNow'
    BY <1>8 DEF OldIsNow, TypeOK, Places, StepsInOrder, At, Idle, Remount, flags,
       device, history
  <1>9. CASE Mounted
    BY <1>9 DEF OldIsNow, TypeOK, Places, StepsInOrder, At, Idle, Mounted, Go, flags,
       device, history
  <1>10. CASE Unmount
    BY <1>10 DEF OldIsNow, TypeOK, Places, StepsInOrder, At, Idle, Unmount, Go, GoSync,
       flags, device, history
  <1>11. CASE PutSuper
    BY <1>11 DEF OldIsNow, TypeOK, Places, StepsInOrder, At, Idle, PutSuper, device,
       usage, history
  <1>12. CASE Unmounted
    BY <1>12 DEF OldIsNow, TypeOK, Places, StepsInOrder, At, Idle, Unmounted, Go
  <1>13. CASE RemountOptions
    BY <1>13 DEF OldIsNow, TypeOK, Places, StepsInOrder, At, Idle, RemountOptions,
       flags, device, usage, history
  <1>14. CASE RemountSame
    BY <1>14 DEF OldIsNow, TypeOK, Places, StepsInOrder, At, Idle, RemountSame, Go,
       flags, device, usage, history
  <1>15. CASE RemountRO
    BY <1>15 DEF OldIsNow, TypeOK, Places, StepsInOrder, At, Idle, RemountRO, device,
       usage, history
  <1>16. CASE RemountRW
    BY <1>16 DEF OldIsNow, TypeOK, Places, StepsInOrder, At, Idle, RemountRW, Go,
       GoSync, device, usage, history
  <1>17. CASE Suspend
    BY <1>17 DEF OldIsNow, TypeOK, Places, StepsInOrder, At, Idle, Suspend, Go, flags,
       device, usage, history
  <1>18. CASE RestoreOpts
    BY <1>18 DEF OldIsNow, TypeOK, Places, StepsInOrder, At, Idle, RestoreOpts, Go,
       device, history
  <1>19. CASE Remounted
    BY <1>19 DEF OldIsNow, TypeOK, Places, StepsInOrder, At, Idle, Remounted, Go,
       device, history
  <1>20. CASE FreezeSuper
    BY <1>20 DEF OldIsNow, TypeOK, Places, StepsInOrder, At, Idle, FreezeSuper, Go,
       GoSync, flags, device, history
  <1>21. CASE Freeze
    BY <1>21 DEF OldIsNow, TypeOK, Places, StepsInOrder, At, Idle, Freeze, GoSync,
       device, history
  <1>22. CASE ThawSuper
    BY <1>22 DEF OldIsNow, TypeOK, Places, StepsInOrder, At, Idle, ThawSuper, Go,
       GoSync, flags, device, usage, history
  <1>23. CASE Thawed
    BY <1>23 DEF OldIsNow, TypeOK, Places, StepsInOrder, At, Idle, Thawed, Go, flags,
       device, history
  <1>24. CASE Write
    BY <1>24 DEF OldIsNow, TypeOK, Places, StepsInOrder, At, Idle, Write, MayWrite,
       flags, device, usage, history
  <1>25. CASE Error
    BY <1>25 DEF OldIsNow, TypeOK, Places, StepsInOrder, At, Idle, Error, device, usage
  <1>26. CASE ErrorSync
    BY <1>26 DEF OldIsNow, TypeOK, Places, StepsInOrder, At, Idle, ErrorSync, flags,
       usage
  <1>27. CASE ErrorPolicy
    BY <1>27 DEF OldIsNow, TypeOK, Places, StepsInOrder, At, Idle, ErrorPolicy, device,
       usage, history
  <1>28. CASE ErrorPanic
    BY <1>28 DEF OldIsNow, TypeOK, Places, StepsInOrder, At, Idle, ErrorPanic, Fall,
       usage
  <1>29. CASE Crash
    BY <1>29 DEF OldIsNow, TypeOK, Places, StepsInOrder, At, Idle, Crash, Fall, usage
  <1>30. CASE Fsck
    BY <1>30 DEF OldIsNow, TypeOK, Places, StepsInOrder, At, Idle, Fsck, usage
  <1>31. CASE UNCHANGED vars
    BY <1>31 DEF OldIsNow, TypeOK, Places, StepsInOrder, At, Idle, vars
  <1>32. QED
    BY <1>1, <1>2, <1>3, <1>4, <1>5, <1>6, <1>7, <1>8, <1>9, <1>10, <1>11, <1>12,
       <1>13, <1>14, <1>15, <1>16, <1>17, <1>18, <1>19, <1>20, <1>21, <1>22, <1>23,
       <1>24, <1>25, <1>26, <1>27, <1>28, <1>29, <1>30, <1>31 DEF Next

\* The only steps that turn read-only into writable are those of a remount.
LEMMA WritableStep ==
    ASSUME TypeOK, OldIsNow, [Next]_vars, mnt = "ro", mnt' = "rw"
    PROVE  adm.pc \in {"remount", "remounted"}
PROOF
  <1>1. CASE SyncFs
    BY <1>1 DEF OldIsNow, At, SyncFs, Go, Idle, device, usage, history
  <1>2. CASE SyncSuper
    BY <1>2 DEF OldIsNow, At, SyncSuper, Go, Idle, flags, usage, history
  <1>3. CASE SyncLater
    BY <1>3 DEF OldIsNow, At, SyncLater, Go, Idle, flags, usage, history
  <1>4. CASE Writeback
    BY <1>4 DEF OldIsNow, At, Writeback, flags, usage, history
  <1>5. CASE Sync
    BY <1>5 DEF OldIsNow, At, Sync, GoSync, flags, device, usage, history
  <1>6. ASSUME NEW want \in {"rw", "ro"}, Mount(want) PROVE FALSE
    BY <1>6 DEF OldIsNow, At, Mount, Idle, device, history
  <1>7. ASSUME NEW want \in {"rw", "ro"}, MountRefused(want) PROVE FALSE
    BY <1>7 DEF OldIsNow, At, MountRefused, flags, usage
  <1>8. ASSUME NEW want \in {"rw", "ro"}, Remount(want) PROVE FALSE
    BY <1>8 DEF OldIsNow, At, Remount, flags, device, history
  <1>9. CASE Mounted
    BY <1>9 DEF OldIsNow, At, Mounted, Go, Idle, flags, device, history
  <1>10. CASE Unmount
    BY <1>10 DEF OldIsNow, At, Unmount, Go, GoSync, Idle, flags, device, history
  <1>11. CASE PutSuper
    BY <1>11 DEF OldIsNow, At, PutSuper, device, usage, history
  <1>12. CASE Unmounted
    BY <1>12 DEF OldIsNow, At, Unmounted, Go, Idle
  <1>13. CASE RemountOptions
    BY <1>13 DEF OldIsNow, At, RemountOptions, flags, device, usage, history
  <1>14. CASE RemountSame
    BY <1>14 DEF OldIsNow, At, RemountSame, Go, Idle, flags, device, usage, history
  <1>15. CASE RemountRO
    BY <1>15 DEF OldIsNow, At, RemountRO, device, usage, history
  <1>16. CASE RemountRW
    BY <1>16 DEF OldIsNow, At, RemountRW, Go, GoSync, Idle, device, usage, history
  <1>17. CASE Suspend
    BY <1>17 DEF OldIsNow, At, Suspend, Go, Idle, flags, device, usage, history
  <1>18. CASE RestoreOpts
    BY <1>18 DEF OldIsNow, At, RestoreOpts, Go, Idle, device, history
  <1>19. CASE Remounted
    BY <1>19 DEF OldIsNow, At, Remounted, Go, Idle, device, history
  <1>20. CASE FreezeSuper
    BY <1>20 DEF OldIsNow, At, FreezeSuper, Go, GoSync, Idle, flags, device, history
  <1>21. CASE Freeze
    BY <1>21 DEF OldIsNow, At, Freeze, GoSync, device, history
  <1>22. CASE ThawSuper
    BY <1>22 DEF OldIsNow, At, ThawSuper, Go, GoSync, Idle, flags, device, usage,
       history
  <1>23. CASE Thawed
    BY <1>23 DEF OldIsNow, At, Thawed, Go, Idle, flags, device, history
  <1>24. CASE Write
    BY <1>24 DEF OldIsNow, At, Write, MayWrite, flags, device, usage, history
  <1>25. CASE Error
    BY <1>25 DEF OldIsNow, At, Error, device, usage
  <1>26. CASE ErrorSync
    BY <1>26 DEF OldIsNow, At, ErrorSync, flags, usage
  <1>27. CASE ErrorPolicy
    BY <1>27 DEF OldIsNow, At, ErrorPolicy, device, usage, history
  <1>28. CASE ErrorPanic
    BY <1>28 DEF OldIsNow, At, ErrorPanic, Fall, Idle, usage
  <1>29. CASE Crash
    BY <1>29 DEF OldIsNow, At, Crash, Fall, Idle, usage
  <1>30. CASE Fsck
    BY <1>30 DEF OldIsNow, At, Fsck, usage
  <1>31. CASE UNCHANGED vars
    BY <1>31 DEF OldIsNow, At, vars
  <1>32. QED
    BY <1>1, <1>2, <1>3, <1>4, <1>5, <1>6, <1>7, <1>8, <1>9, <1>10, <1>11, <1>12,
       <1>13, <1>14, <1>15, <1>16, <1>17, <1>18, <1>19, <1>20, <1>21, <1>22, <1>23,
       <1>24, <1>25, <1>26, <1>27, <1>28, <1>29, <1>30, <1>31 DEF Next

\* A read-only filesystem is made writable by a remount that succeeds and by nothing
\* else, unless errors=remount-ro meets a remount that fails: there restore_opts undoes
\* what kr_error has just done.
THEOREM OnlyRemountWrites ==
    ASSUME ~(Policy = "ro" /\ RemountFails)
    PROVE  Spec => OnlyRemountMakesWritable
PROOF
  <1> DEFINE Inv == TypeOK /\ Quiet /\ StepsInOrder /\ OldIsNow
  <1>1. Init => Inv
    <2>1. Init => OldIsNow
      BY DEF Init, OldIsNow, At, Idle
    <2>2. QED
      BY <2>1, AtTheStart
  <1>2. Inv /\ [Next]_vars => Inv'
    BY TypeStep, QuietStep, OrderStep, OldStep
  <1>3. Inv /\ [Next]_vars =>
          [mnt = "ro" /\ mnt' = "rw" => adm.pc \in {"remount", "remounted"}]_vars
    BY WritableStep
  <1>4. QED
    BY <1>1, <1>2, <1>3, PTL DEF Spec, OnlyRemountMakesWritable
=============================================================================
