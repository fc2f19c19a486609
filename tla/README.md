# A TLA+ verification of K-rack

K-rack is a course on Linux kernel programming: a series of small kernel
modules that ends with *kr* (`src/Exercises/Exercise19`), a complete
block-based filesystem with the on-disk format of ext2.  This directory holds
TLA+ modules that model the parts of it that keep state, TLC configurations
that check them on small instances, and proofs, checked by TLAPS, of the
properties that hold for every size of the filesystem and any number of inodes and tasks.

`src/` paths below are relative to the repository; `kr/` abbreviates
`src/Exercises/Exercise19/`.

## 1. Inventory

| Component | State it keeps | Operations | Correct when |
|---|---|---|---|
| **Block allocator** `kr/balloc.c` | block bitmaps, `bg_free_blocks_count` of each group, `s_freeblocks_counter`, the tree of reservation windows under `s_rsv_window_lock` | `kr_new_blocks`, `kr_free_blocks`, `kr_discard_reservation`, `kr_init_block_alloc_info`, `KR_IOC_SETRSVSZ` | a block has one holder; windows are disjoint; bitmap, counts, counter and quota agree; metadata is never handed out; a call returns, and with ENOSPC only if the filesystem is full |
| **Inode allocator** `kr/ialloc.c` | inode bitmaps, `bg_free_inodes_count`, `bg_used_dirs_count`, `s_freeinodes_counter`, `s_dir_count`, `s_debts` | `kr_new_inode`, `kr_free_inode`, `find_group_{dir,orlov,other}` | an inode number has one owner; the counts agree with the bitmaps; a failed creation leaves nothing behind |
| **Block map** `kr/inode.c` | `i_data` and the indirect blocks, `i_size`, `i_blocks` | `kr_get_blocks`, `kr_truncate_blocks`, `kr_evict_inode`, `kr_iget`, `__kr_write_inode` | a lookup never uses a branch that truncate detached; every block is mapped once and freed once |
| **Directories and names** `kr/dir.c`, `kr/namei.c` | directory entries, link counts | add, find, delete, set link; create, link, unlink, mkdir, rmdir, symlink, rename | a link count is the number of names; an error leaves no half operation |
| **Mount state** `kr/super.c` | `s_state`, `s_mnt_count`, the mount flags, the superblock on disk and in memory | fill, put, remount, freeze, unfreeze, sync, error | a filesystem marked VALID on disk has no unfinished write |
| **File entry points** `kr/file.c`, `kr/symlink.c`, `kr/ioctl.c` | inode flags and generation | release, ioctl, tables of generic operations | (those that change a reservation window belong to the allocator) |
| **Character device** `src/Exercises/Exercise6`, `Exercise7` | `device_count`, the message pointer, the registered major number, class and device | open, read, write, release, module init and exit | one opener at a time; a failed init undoes what it did |
| **proc file** `src/Exercises/Exercise8`, `Exercise9` | a static end-of-file flag, a buffer | read, write | every reader sees the text and then an end of file |
| **Counter filesystem** `src/Exercises/Exercise16`, `Exercise17` | an atomic counter per file, a dentry tree built at mount | read, write, `fill_super` | each read hands out its own number |
| **myfs** `src/Exercises/Exercise11` to `15`, `src/myfs` | registration of the type, the in-memory superblock | init, exit, mount, put | registration and mounts are undone in order |
| **First modules** `src/Exercises/Exercise1` to `5`, `10` | none that changes | load, unload | - |

**Interaction.**  The filesystem's parts call each other synchronously: a system
call enters through `namei.c`, `file.c` or `ioctl.c`, which call `dir.c` and
`inode.c`; these call the two allocators; every part marks buffers dirty that
`super.c` and the generic writeback flush.  What makes it hard is that the calls
of different inodes run at the same time and share the bitmaps, the group
descriptors, the per-CPU counters and the reservation tree under four different
disciplines: atomic bit operations, a lock per block group, a spinlock for the
tree, and no lock at all for several reads.  On top of that, reads of a bitmap
may fail in the middle of an operation that has already changed something, and
a mounted image may be damaged.  The list of hazards, each at its line, is in
`PROJECT.json`.

## 2. Modules

| Module | Role |
|---|---|
| `KrBalloc` | the block allocator with its reservation windows: state, one action per access to shared state, properties |
| `KrBallocProofs` | type correctness, disjoint windows, unreachable `BUG()`, claims that respect reservations; one holder per block, counts and quota, bitmaps and metadata that are not touched, no damage reported on a sane filesystem |
| `KrIalloc` | the inode allocator: creation with its group policies, eviction, counts |
| `KrIallocProofs` | one user per inode number, counts, numbers that are returned |
| `KrBlockPath` | where the pointer to a block of a file is kept: `kr_block_to_path` as an operator |
| `KrFileMap` | abstract: a file is a partial map from its blocks to blocks of the filesystem, and a size |
| `KrBlockMap` | the pointer tree of one inode: lookups, allocation of branches, truncation, eviction; it implements `KrFileMap` |
| `KrBlockMapProofs` | the tree is a tree: no block hangs in two places, none that hangs in it is free |
| `KrFileMapProofs` | the tree implements `KrFileMap`; lookups answer what the map said; allocations fill holes; truncations spare what is below the size |
| `KrInode` | one slot of the inode table: what is kept of an inode in memory and in its image, and the handles that NFS has of it |
| `KrNames` | abstract: a directory is a finite map from names to inodes |
| `KrDir` | the records of one directory in its pages, and scans of it; it implements `KrNames` |
| `KrDirProofs` | records that tile the pages, names that are unique, scans that are complete, the refinement of `KrNames` |
| `KrNamei` | every operation on names, over directories that are the maps of `KrNames` |
| `KrNameiProofs` | link counts, no dangling name, the tree, failures that leave no trace |
| `KrSuper` | the state flags of the superblock through mounts, errors and crashes |
| `KrSuperProofs` | a valid device is whole, checks when needed, who makes it writable |
| `KrFillSuper` | what `kr_fill_super` acquires and gives back, with every step failing |
| `KrFillSuperProofs` | everything acquired is given back once |
| `KrGeometry` | copies of the superblock, places of the descriptors and the maximal file size, as operators |
| `KrStatfs` | `kr_statfs` and the overhead it remembers; uses `KrGeometry` |
| `CharDevice` | the character device of Exercise 6, one step for each access to a shared variable |
| `CharStarter` | loading and unloading the driver of Exercise 7 |
| `ProcFile` | the proc files of Exercises 8 and 9 |
| `LwnCounter` | the counter files of Exercises 16 and 17 |
| `SimpleMount` | registration and mounts of myfs (Exercises 11 to 15) and of the counter filesystem |
| `MCKrBalloc` | `KrBalloc` for TLC |
| `MCKrIalloc` | `KrIalloc` for TLC |
| `MCKrBlockMap`, `MCKrBlockMapFaults` | `KrBlockMap` for TLC |
| `MCCallsReturn` | both allocators on damaged images, and the block map, with fairness |
| `MCKrDir`, `MCKrNamei` | directories and names for TLC |
| `MCKrDisk` | superblock, inodes, group choice, full filesystems and block paths for TLC |
| `MCExercises` | the small modules for TLC |

An operator with a comment that begins "Mutant:" is a variant of the definition after it
with a plausible mistake; `PROJECT.json` pairs it with the property that finds it.

*Composition.*  `KrNamei` works on the directories that `KrNames` specifies, and
`KrDir` shows that the records on the pages implement it.  `KrBlockMap` takes the block
allocator by its promise, that a block has one holder, which is what `KrBalloc` is
proved to keep; it gives freed blocks to other files so that a stale pointer can
matter.  `KrIalloc` and `KrInode` share an inode number: the one has who owns
it, the other what is stored under it.

### How `KrBalloc` corresponds to the code

*Actors.*  `kr_new_blocks`, `kr_free_blocks` and every change of an inode's
window run under that inode's `truncate_mutex`, so the actor is the inode; it has
at most one call in progress (`pc[i]`), whose locals are `af[i]` (an allocation)
or `ff[i]` (a free).  Calls on different inodes interleave.

*Grain.*  One action is one access to state that inodes share.  A bit is found
in one step (`TryToAllocate`) and set in the next (`ClaimFirst`, then `ClaimMore`
for each further bit), because another thread can come between them; a bit
is cleared (`ClearBit`) and counted (`FreeAdjust`, `FreeReturn`) in different
steps for the same reason.  What happens under `s_rsv_window_lock` is one step;
`alloc_new_reservation` drops the lock to look at the bitmap, so it is three:
`AllocNewReservation` places the window, `CheckReservation` looks for a free bit
in it, `RenewReservation` takes the lock again and moves on.

*Data.*  A bitmap is the set of blocks whose bit is set, for all groups; a block
number is filesystem-wide where the code has a number relative to its group.  The
red-black tree is the set of its nodes; `rb_next` and `search_reserve_window` are
what they compute on a tree of disjoint windows ordered by their start, and that
the windows are disjoint is a property, not an assumption.  The group count is a
16-bit number (`U16`).  The windows of the code are in blocks of 8, 64 and 1027;
these numbers are constants.

*Failure.*  With `IOErrors`, reading a bitmap may fail wherever the code reads
one, and `kmalloc` of the window structure may fail.  `CounterLag` is the error
of `percpu_counter_read`.  `InitBitmap` and `InitOwned` may describe a damaged
image, which is how the "system zone" tests are reached.  `fs_error` is what
`kr_error` was called for: "read" for a bitmap that could not be read
(`read_block_bitmap`, `FreeGroup`), "damage" for a bitmap in which metadata is not
marked (`kr_valid_block_bitmap`: `BitmapInvalid`, after which the code goes on with the
bitmap as it is), for blocks in the system zone or out of range and for a bit already clear.

*Outside the model.*  The caller maps the blocks it gets (`owned`), and drops a
run of mapped blocks before it frees them.  Blocks whose free was given up
are remembered in `lost`: their bits stay set and they stay charged, as in the
code.  Writing the buffers back, debug output and the descriptor lookup (which
cannot fail for an existing group) are left out.  `quota` stands for
`dquot_alloc_block_nodirty` and `dquot_free_block_nodirty`, external to the code.

### How `KrIalloc` corresponds to the code

*Actors and grain.*  A task is in `kr_new_inode` or in the eviction of an unlinked
inode (`kr_evict_inode` up to and including `kr_free_inode`).  The search for a clear
bit (`FindBit`), its atomic claim (`ClaimBit`), the check of the number and the
counters (`NumberInode`), the counts of the group (`CountInode`), the inode
cache (`InsertInode`) and the quota (`InitQuota`) are separate steps; so are
the start of `kr_free_inode`, the clearing of the bit and the two halves of
`kr_release_inode`.  The `find_group` functions read descriptors without a lock and
change nothing; each is one look, and every result of a look that was torn by
another task is a result `kr_new_inode` has to cope with anyway, since it goes by
the bitmap.  Their loops are written as what they select: `FirstFrom(start, S)` is the
first group of `S` met when going round from `start`.

*Data.*  `live` are the inodes with a name (the root directory, which is never
evicted, excepted), `cached` those in the inode cache and not marked as being
freed, `lost` those whose `kr_free_inode` gave up.  The free-block counts
of the groups are an input (`BlockCounts`), as are the random number of Orlov's policy
and the readings of the per-CPU counters (within `CounterLag`).  The inode cache
(`insert_inode_locked`, `iget_locked`) and the quota calls are external.

### How `KrBlockMap` corresponds to the code

*Actors and grain.*  `kr_get_blocks` reads the chain of pointers without a lock and
verifies it (`verify_chain`), takes `truncate_mutex` when it has to change the tree, and
reads again.  The unlocked walk is one action for each link; a store to the tree
is one action; what the holder of the mutex only reads is part of the action that uses
it.  `i_meta_lock` appears where it has an effect: `kr_find_shared` waits for
readers that are adding a link.  The inode's lock (`rwsem`) keeps writes and
truncations apart, but not page writeback and reads from them.

*Data.*  `ptr` is the content of `i_data` and of every indirect block, blocks that
other files have taken and overwritten included: `MaxForeign` blocks of other
files at a time, filled with pointers to themselves, which a reader that follows a stale
pointer takes for blocks of its file at every level.  A size is a number of blocks.  `held` are the
buffers a call has references to.  `leaked` is a history variable: blocks
that an error path leaves allocated to nobody.  `seen` remembers what the tree
said of a block during a lookup, for `LookupsLinearize`.

*Implements.*  `ImplementsFileMap` is `KrFileMap!Spec` with the mapping that follows the
pointers from `i_data`; a branch counts from the moment it is spliced in.

### How `KrInode` corresponds to the code

`kr_iget` decodes an image, `__kr_write_inode` encodes the inode in memory over the
image of whatever file had the slot before.  Widths are scaled down:
`Half`, `Word` and `GenMod` stand for 2^16, 2^32 and 2^32, and `OldDevs` for
the range of the old device numbers; the splitting of owner and size and the shared field
of `i_size_high` and `i_dir_acl` are as in the code.  `file` is what the user
of the file knows of it; `handles` are those given out by the VFS's export
code, which is external.

### How `KrDir` and `KrNamei` correspond to the code

`mem` maps an offset to the record that the bytes there make, so a record that was
merged into the one before it is still there to be found by a reader with an old
position: this is what `kr_validate_entry` is for.  Lengths are small numbers in
place of multiples of four; a chunk has room for two or three records, a page for one
or two chunks.  Changes and reads of one directory exclude each other by the
inode's lock, so an operation is one action and a scan is a sequence of calls of
`kr_readdir`.  `kr_find_entry` also gives up when a page number passes the blocks of
the directory (`kr/dir.c:409-415`); the pages of the model are those of `i_size`, so this does not occur.

In `KrNamei` an operation is one action because the VFS holds the locks of all
directories and inodes concerned; how far it gets is chosen by the faults in
`Faults`: no memory, quota, inode or block ("alloc"), an entry that is changed in memory
and cannot be written ("sync").  Pages are assumed readable: with one that is not, a
directory is no longer the map of names that `KrNamei` works on (section 5).  The VFS's
dentries (`dc`) are part of the state, since they decide what is called.

### How the modules of `super.c` correspond to the code

`KrSuper` has the flags on the device (`disk`), in the buffer (`es`) and of the mount
(`state`).  One administrator mounts, remounts, freezes and unmounts (the VFS
serializes these by `s_umount`), step by step; writers and a task in `kr_error` run beside
it, and the machine may stop at any point.  `pending`, `broken`, `met`, `damaged` and
`crashed` are history: what the device is really like.  Writing the
superblock always succeeds, since `kr_sync_super` ignores errors.

`KrFillSuper` has the things a mount acquires, each "null", "live", "stale" or
"wild" (not initialised).  `KrStatfs` is one step for each call, which holds `s_lock`;
the layout that mkfs makes is its reference.

### How the small modules correspond to the code

In `CharDevice` `device_count++` and `buffer_ptr++` are a load and a store, since nothing
is locked and the variables are not atomic; calls of several tasks and the removal of the module
overlap, and `raced` remembers that two calls of `device_open` did.  `CharStarter` tests the
answers of the kernel's calls as the code does, and lets the calls fail as their
documentation says; `missed` and `undue` remember the failures that went unnoticed and
what was given back without having been acquired.  In `ProcFile` the static flag is tested and set in different
steps, and `alone` has the answers of the last reads that nobody overlapped.  `LwnCounter` has a
step for each atomic operation; of the text of a number only its length matters.  `SimpleMount` has the kernel's side of a mount
(`mount_bdev`, `kill_block_super`, `d_make_root`) as external steps and the
filesystem's `fill_super` and module functions as its own.

## 3. Runs

An MC module gives the constants values.  Where a component is checked under several
conditions, its MC module has a variable `scenario` (or `part`, where the components
differ) that is chosen in the initial state and never changes: each scenario is an
instance of the component's module over the same variables with other constants, and a
behaviour is one of exactly one of them.  A property that is about some of the scenarios
says so (`scenario = "race" => ...`).  Components that share nothing are put side by side
in the same way: the step of one leaves the others' variables alone.

Deadlock is not checked where calls are bounded in number and the tasks stop, and in
`disk` and `exercises`, where a machine that has panicked, a walk that has come to its end
and a loading that does not come back stop too; that no call gets stuck is
`EveryCallReturns`.  Symmetry is not used, since in most scenarios the tasks differ.

| Run | Question | Result |
|---|---|---|
| `balloc` | two regular files, 3 and 2 calls, every interleaving: `TypeOK`, `WindowsDisjoint`, `NoBUG`, `ClaimsOnlyOwnReservation`, `NoBlockHeldTwice`, `AccountsAgree` | holds, 1.6 million states |
| `balloc_faults` | failing bitmap reads, which `kr_error` reports, and `kmalloc`, lagging counter, a block kept for root, one inode without reservations, a mapped run across the groups: `SoundUnderFaults` | holds |
| `ialloc` | two tasks, 3 and 2 calls, every interleaving, and 2 and 2 with bitmaps that cannot be read: `NoInodeTwice`, `InodeAccountsAgree`, `NoFalseAlarm` | holds |
| `calls_return` | damaged images: `DamageContained`; fairness: `EveryCallReturns` | holds |
| `block_map` | one call each of two tasks, another file taking freed blocks: `TreeIsSound`, `NothingLostOrHeld`, `LookupsLinearize`, `NoBlocksPastEOF`, `ImplementsFileMap` | holds |
| `block_map_faults` | up to the triple indirect block with failing allocations; a read during two changes, with freed blocks that come back or go to another file; DAX and eviction; indirect blocks that cannot be read: `SoundUnderFaults`, `ImplementsFileMapUnlessIO` | holds |
| `dir` | a scan beside changes, wide chunks, unreadable pages: `DirectoryIsSound`, `ScansAreRight` (the scan), `OthersAreSound` (the other two), `RecordsImplementNames` (wide chunks) | holds |
| `namei` | `NoNameDangles`, `LinksCounted`, `TreeAndDentries`, `FailuresUndo` with failing allocations | holds |
| `disk` | see below | holds |
| `exercises` | see below | holds |
| `balloc_wrap` | `GroupCountInRange`: is `bg_free_blocks_count` always a number of blocks of the group? | violated |
| `ialloc_drift` | `FreeInodesCounterAgrees`: with no call in progress, is `s_freeinodes_counter` the sum of the groups' counts? | violated |

A property of an MC module is often the conjunction of properties of the components, each of
which has its own comment where it is defined: `AccountsAgree` is `FreeCountsAgree` and
`QuotaAgrees`, `FillUnwinds` is `NothingLeaks`, `NoDoubleRelease` and `ErrorsCanBeReported`, and so on.

*Fairness.*  `calls_return` has weak fairness of a step of the call that each task is in
(`CallStep`): a thread inside a call is in the kernel, holds no lock that another thread
can keep for ever, and is scheduled again.  Nobody has to start a call.  A mutex is
released by its holder, whose own steps are fair; `kr_find_shared` waits for readers that
are adding a link, a finite number.

### The block allocator

All runs of `KrBalloc` use two groups of six bits on blocks 1..12.  The last block is past the
end of the filesystem, so the last group is short; the metadata of group 1 is not
at its start, so a search meets it; the data blocks 6 and 7 are adjacent across
the boundary of the groups, so windows and runs cross it.  There are two inodes,
windows of 2 blocks that may grow to 3, and requests for 1 or 2 blocks with the
goals 5 and 6.  Two actors are enough for every race of the code, each of which
is between one call and one other; five data blocks are few enough for the two
files to fill the filesystem, take each other's bits and run into each other's
windows.  `MaxCalls` bounds the calls on each inode; `HitCap` saturates the
hit counter of a window above the value at which it makes a difference.

That a filesystem is reported full only when it is (`NoBogusENOSPC`, a part of `SearchesFindRoom` of `disk`) is asked of one call at a time: with a second one in
progress it does not hold and nobody would want it to, since a block may become
free behind the scan.  On the damaged image of `calls_return` the bits of a metadata block and
of the block past the end are clear and the maps point there (a single goal, 6, keeps the run
short); the windows on such
an image are the theorems' business.

*What `balloc_wrap` found.*  `kr_free_blocks` clears the bits of a group (line 535)
before it counts them (line 549).  An allocation that saw the group's count while
it was positive, and came to the bitmap late, can claim a bit that has just been
cleared and subtract it (line 1418) before the free has added it.  The count was
0 by then, and the `__le16` becomes 65535 until the free catches up.  `kr.h:202`
calls the field "Free blocks count".  `FreeCountsAgree`, which takes the calls in
progress into account modulo 2^16, holds as a part of `AccountsAgree`: the value comes back.

### The inode allocator

Two groups of three inodes, 1 and 2 reserved, 3 a file and 4 a directory: few enough
for two tasks to race for the last inode and to find a group exhausted.  On the
damaged image of `calls_return` a reserved and a used inode are not marked and `s_inodes_count` is
short of the bitmaps.  `ChoiceIsRight`, the other part of `SearchesFindRoom`, is about one call at a time, with three groups, so
that the quadratic hash takes two steps, three distributions of the free blocks, both
policies for directories and counters off by up to 5.

*What `ialloc_drift` found.*  `kr_new_inode` subtracts one from `s_freeinodes_counter`
(line 531) and `kr_release_inode` never adds one (lines 75 to 81), so the counter
falls with every inode created and never rises.  `find_group_orlov` takes its
average from it (line 273), and its comment (line 233) promises groups "not worse
than average".  The effect is bounded: `ChoiceIsRight` holds, that is, the
drift spoils the spreading of directories but never the search.

The counts of inodes wrap in the same transient way as those of blocks, for the
same reason (line 138 clears the bit, line 76 counts it); `CountsAgree` is
stated modulo 2^16.

### The block map

`NDir` is 1 and an indirect block has two pointers, so that blocks 0, 1-2, 3-6 and 7-14
of a file have paths of length one to four; five blocks of the filesystem are enough for a
path to the last of these and one more.  Two tasks: every race of the code is between the
holder of the mutex and one that does not hold it.  `MaxCalls` bounds the calls of each,
`MaxRun` the blocks of a call, `LastBlock` the part of the file that calls are about.
`BuffersReleased`, `NoBlocksPastEOF` and the refinement are not asked of the scenario
with unreadable blocks, whose error paths break them (section 5).

### Directories and names

Three names of two lengths (two names where pages fail), three chunks, one reader whose
buffer holds one entry: few enough to fill the directory, and for a record to be split,
merged and reused around the reader's position.  The refinement is checked with the
wide chunks.  `KrNamei` has four inodes, two names and
at most four links, so that directories can be moved below one another, link counts
reach their limit and inodes run out.

### Superblock and inodes: `disk`

| Part | Module and bounds | Properties |
|---|---|---|
| `continue`, `ro`, `panic` | `KrSuper` under the three policies for errors; its state is finite.  With `continue` a remount may fail; there is no bind mount | `ValidMeansWhole`, `CheckedWhenNeeded`, `OnlyRemountMakesWritable` |
| `fill` | `KrFillSuper`, every step failing, up to `MaxDescBlocks` descriptor blocks | `FillUnwinds` |
| `df`, `statfs` | `KrStatfs` on filesystems of 1, 2 and 4 groups, without and with remounts that change the way of reporting | `LayoutIsRight` (`SizeIsRight` for `df`, `NeverMoreFree`) |
| `geometry` | `KrGeometry`: filesystems of 1 to 12 groups, 3000 group numbers, the real widths of 1K, 2K and 4K blocks | `LayoutIsRight` (`SparseGroups`, `DescriptorsApart`, `MaxSizeFits`) |
| `path` | `KrBlockPath` over every block number and beyond both ends, blocks of 4 and 8 pointers | `LayoutIsRight` (`PathsAreRight`, `BoundaryIsRight`) |
| `slot`, `uid16` | `KrInode`: up to `MaxFiles` (3) files one after another in a slot, of the three kinds whose encodings differ; owners, sizes and devices on both sides of each boundary; the slot begins with a deleted file, a directory or never used; `uid16` with `nouid32` and `KR_IOC_SETVERSION` | `InodesReadBack`, `HandlesAreUnique` (`slot`) |
| `group` | `KrIalloc`, one task, 4 calls | `SearchesFindRoom` (`ChoiceIsRight`) |
| `full` | `KrBalloc`, two files, 3 and 2 calls that do not overlap, windows of 1 to 3 blocks | `SearchesFindRoom` (`NoBogusENOSPC`) |

`slot` counts generations from 1 and modulo 4 (`FirstGen`, `GenMod`) over three files, so that
they do not come to 0, do not wrap and do not meet that of the image the slot began with.
`s_next_generation` begins with a random number (`kr/super.c:1028`), so in the code each of these can happen
once in 2^32: what `HandlesAreUnique` shows is about files whose generations differ and are not 0.

### The exercises

| Part | Module and conditions | Properties |
|---|---|---|
| `device` | `CharDevice`: three tasks whose calls overlap with each other and with the removal and loading of the module | `DeviceGuarded` (`ExclusiveUnlessOpensRace`, `OpenFilesHoldModule`) |
| `starter` | `CharStarter`, every call failing | `NothingLeftBehind` (`Unwinds`) |
| `proc` | `ProcFile`: three tasks whose reads overlap, buffers smaller and larger than the message, early closes | `AnswersAlternate` |
| `counters` | `LwnCounter`: one task at a time at each of two counters, a carry and a sign, mounts that reset them | `CountersCount` (`SameNumber`, `CountsByOne`) |
| `counter` | `LwnCounter`: three tasks at one counter | `CountersCount` (`NoLostCount`) |
| `myfs` | `SimpleMount` for Exercise 15 on three devices, every failure of a mount | `NothingLeftBehind` (`MountedHasRoot`, `ModuleHeld`, `InodeFreed`, `DeviceReleased`) |
| `lfs` | `SimpleMount` for Exercise 16 on two devices | `NothingLeftBehind` (`MountedHasRoot`, `ModuleHeld`) |

Two or three tasks show every race, each of which is between two calls; `MaxOpens`, `MaxReads`,
`MaxValue` and `MaxMounts` bound what is counted.  `MaxValue` is above 9 where a
carry changes the length of the text.  The code of these modules takes no lock, and what
a reader would first ask of it (one opener at a time, an end of file after the message) is
not so; section 5 has the answers.  The properties say what is so in spite of it: only overlapping
calls of `device_open` break the exclusion, while reads, releases and `rmmod` may overlap with
anything; a reference keeps the module; the shared flag of the proc file comes right for a
reader that is alone.  Only `SameNumber` and `CountsByOne` are asked of one task at a time.

## 4. Proofs

The theorems hold for every value of the constants: any set of inodes, tasks and names, any
geometry, any bound on the calls.  What they assume of the constants is said with each and is
an assumption or a definition of the module that has the constants; the MC modules state
it of their instances, where TLC evaluates it.

### Blocks: `KrBalloc`

Everything here assumes `ConstantsAssumption` and `GroupsAssumption` (the groups
cover the filesystem, the numbers are natural numbers), which `kr_fill_super` sees to.

* `TypeCorrect`: `Spec => []TypeOK`.  Its content is in the frames: the
  group of an allocation is a group of the filesystem, so that no descriptor
  lookup in the group scan can fail, and its goal a block of the filesystem.  One
  lemma per action; `TypeOK` is inductive as it stands.
* `ReservationsDisjoint`, `BugUnreachable`, `ClaimsStayReserved`: windows
  never overlap, neither `BUG()` is reached, and an allocation from a window
  only claims blocks nobody else has reserved.  None of the three is
  inductive.  A window placed by `find_next_reservable_window` is disjoint from the
  others only if the ordered walk started from a node at or before the place, so
  the invariant `RsvInv` adds, for each call in progress, what it remembers
  across an unlock: its request is positive and bounded (`RequestInv`), the window
  it is checking begins in its group and is its own node of the tree (`SearchInv`),
  and the range it claims from lies inside its own window (`ClaimInv`).  The
  last is stable because only the owner changes a window's bounds.
* `BlocksHaveOneHolder`: `SaneMount => (Spec => []NoBlockHeldTwice)`.  From an image
  on which every mapped block is marked and has one owner, no block is ever in the
  hands of two inodes and every block in somebody's hands is marked.  The
  strengthening `HandsInv` says that the hands of one inode do not overlap
  either (a block being freed is no longer mapped, a claimed one is not mapped
  yet) and that a run being freed lies in the bitmap's range.  It needs nothing of
  the reservations: the atomic bit alone carries it, which is how
  allocations without a window can run beside those with one.
* `CountsAndQuotaAgree`: `AccountsAgree`, that is, every `bg_free_blocks_count`,
  `s_freeblocks_counter` and the quota of every inode agree with the bitmap and
  the calls in progress until `kr_error` reports damage, from `SaneMount` and `SaneCounts` (finitely many inodes,
  a group that fits its 16-bit count, the bits of the metadata set).  The sums over the calls are the
  cardinality of a set of pairs (`Total`), not a fold, so that no induction is
  needed: a step is about one call and at most one bit, and `TotalMoves` says by how much
  the sum follows.  Each call has a weight, what it has done to the bits and
  not yet to the count, and in every step bits, weight and count change
  by amounts that cancel.  `RangeInv` adds where a call may set or clear a bit: in
  the bitmap of the one group whose count it is going to adjust.
* `FaultsAreContained`: `SoundUnderFaults`, with `SaneZones` besides (nobody maps metadata or
  blocks past the end, and their bits are set).  Then no test of the system zone, of
  the range of a free or of a bit's old value ever fails, and no bitmap that is read is found invalid.
  `kr_error` reports the bitmaps that could not be read and nothing else, so the condition of
  `AccountsAgree`, that no damage was reported, always holds.
* `BitmapsUntouched`: `DescriptorsChecked => (Spec => BitmapsAreSafe)`, for an image
  whose bitmaps and block maps may say anything: no block that is a bitmap is given to an inode, and
  its bit is not cleared.  `DescriptorsChecked` is what `kr_check_descriptors` tests at mount and no more.
  Neither of the two invariants above holds on such an image; `ZoneInv` keeps what the last test of the zone said.
* `MetadataUntouched`: the same of all metadata (`MetadataIsSafe`), with `TablesBehindBitmaps` besides.  The
  code tests the two ends of a run against the inode table, and a run that covers the
  whole table and nothing else would pass (section 5); where the table lies right behind a
  bitmap, as mkfs puts it, such a run has the bitmap too or begins in the table.  The mount does not test this.

### Inodes: `KrIalloc`

* `NumbersHaveOneUser`: `SaneImage => (Spec => []NoInodeTwice)`, unreadable bitmaps included.
  `SaneImage` says that inodes with names have their bits set and that reserved
  numbers and those past `s_inodes_count` do too.  `NoInodeTwice` is not inductive:
  it does not exclude that an inode that was lost is also live, which would
  be evicted and give its number away; nor does it say that a number in hand is in its
  group.  `UseInv` adds the first, `NumbersInv` the second.
* `CountsAgreeAlways`: `InodeAccountsAgree`, from `SaneImage` and `CountsFit` (a group's inodes and the tasks are
  fewer than 2^16).  The argument is that of the blocks, with a
  weight for each of the counts: free inodes and directories of a group,
  directories of the filesystem, quota.
* `NothingReported`: `kr_new_inode` and `kr_free_inode` never report damage that is not there
  (`NoFalseAlarm`), whichever bitmaps cannot be read; `fs_error` tells a report of a failed
  read from one of damage.
* `NoBadNumber`: the action property `NoBadInode`, for an image of any damage: a number that is
  returned is neither reserved nor past `s_inodes_count`; an inode that enters the cache finds none of its
  number there; and no two calls make the same number between `insert_inode_locked` and the return.  The
  last is not what one step does: it holds because an inode being made is in the cache
  (`BeingMade`), so that the other call's `insert_inode_locked` fails and an eviction cannot take it out.

### The block map: `KrBlockMap`

The assumptions are `MapAssumption` (the constants have their types and a file has no block
that `kr_block_to_path` has no path to; `Ptrs \in Nat` is said there because the provers do not
know powers of two) and `TreesAssumption` (the file is sound at the start).

* `TreeIsSoundAlways`: `Spec => []TreeIsSound`, with errors of every kind.  `TreeIsSound` is about
  the paths that exist; what is inductive is that there is a function `lev` that gives each block its
  height over the data, or -1, with which every pointer leads exactly one level down and no two
  pointers lead to one block (`Levelled`).  A store or a clear then changes `lev` for one
  subtree at most.  `Inv` adds what calls in progress have: blocks that were allocated or detached are loose,
  that is, nothing in the tree points to them (`HandOK`); the items of a truncation's work are
  apart from each other; the chain of a walk that has the mutex is threaded, each link being in the
  block that the one before it led to; and only the holder of `truncate_mutex` has blocks in
  hand, so that no two of these can clash.
* `TreeImplementsMap`: `~IOErrors => (Spec => ImplementsFileMap)`, step by step: an allocation is a
  step that fills holes of the map, a truncation one that empties blocks past the
  size, every other step changes nothing.  `MapInv` says what that needs: the slots in
  which an allocation will store are empty (`HoleOK`: the chain was verified under the mutex); the
  slots a truncation has left to clear are read only by walks to blocks at or past the new size (`CutOK`), which is
  about the order of paths (`AfterPath`) and, for the branch that `kr_find_shared` cuts, about the zeros to the left
  of it (`CutSpares`); calls map no more than they were asked to; and the size stands still
  while somebody truncates, who has the inode's lock or the inode (`SizedOK`).  The
  hypothesis is needed: section 5 has what a failed read does.
* `SplicesFillHoles` and `RestIsSpared`: `SpliceFillsHole` and the action property
  `TruncationSparesTheRest`, from the same invariant.
* `LookupsAnswerRight`: `~IOErrors => (Spec => []LookupsLinearize)`.  The invariant has two more parts.
  `PageInv`: a read or a writeback in progress is about a block below `i_size`, or a truncation waits for
  pages; so whatever a truncation cuts lies past the block of every such call, and the chain that
  a walk verified under `i_meta_lock` is still good when its next link is added (`AddOK`).
  `LookInv`: what a call has found out so far is in `seen` already (`SeenOK`), because a chain that is
  what the pointers say is the walk to the block (`ChainWalk`), and the blocks after it up to the boundary are in the
  same array (`NextPath`, `NextMapped`); and before the link of a new branch is stored, the tree with that
  link has the blocks that will be returned (`LandOK`, `BranchLands`).  Calls of `kr_bmap`, which hold no page, are
  outside the property.

### Directories: `KrDir`

The assumption is `DirAssumption`: a record is at least `KR_DIR_REC_LEN(1)` long, a chunk has
room for the longest one and for "." and "..", no name of the directory is one of these two (the VFS
resolves them), and the constants have their types.  Sizes of records, of chunks and of pages are
arbitrary otherwise; pages may be unreadable (`IOErrors`) unless it is said that they are not.

* `DirectoryAlwaysSound`: `Spec => []DirectoryIsSound`.  `PagesPassCheck` is not inductive, since what a
  walk over the page meets depends on every length before it.  The invariant `DirInv` speaks of the set of offsets at which
  records begin instead: `Tiling` says that they and their lengths cover the directory without gap or overlap,
  that no record crosses the edge of a chunk, and that each is long enough for its name.  `WalkIs` shows
  that a walk by `kr_next_entry` from such an offset meets these offsets and nothing else, so stale
  bytes left by a merge are never taken for a record.  A split and a new chunk add an offset, a merge
  takes one away, and each leaves a tiling.  `Unique` is kept although `kr_add_link` stops at the first room, because
  `kr_find_entry`, which the VFS has called, misses no record: `i_dir_start_lookup` decides only at which page it begins.
* `ScansAlwaysRight`: `Spec => []ScansAreRight`.  `ScanInv` says of each reader that a name still due is in a
  record at or after its position and that those it was given are in records before it, and that the position is that of
  a record or a page unless the directory has changed.  After a change it may lie inside a record;
  `kr_validate_entry` then walks from the start of the chunk to the first record at or after it, which passes no name
  that is due and comes back to none that was given.  A scan that was told of an unreadable page is
  excused: `kr_readdir` goes on after it.
* `RecordsImplementMap`: `Spec => ImplementsNames`.  Each operation changes the records of one name
  (`Spares`), and the map that is read from the records changes there only (`OneName`).  It holds with
  unreadable pages, where a name may have two records: the map gives the first.

### Names: `KrNamei`

`LinksAlwaysCounted`, `NamesNeverDangle`, `TreeStands` and `FailuresLeaveNoTrace` are the
properties of the run `namei`, under `ConstantsOK` and `PagesWork`: allocations may fail
anywhere, pages can be read and written (section 5 has what happens otherwise).
The invariant `NameiInv` is about the names, links and dentries together, since none of the four
is inductive by itself:

* link counts are the numbers of names (`Counted`) and names refer to inodes that are there (`Alive`):
  an inode is freed when its count is 0, so the one gives the other;
* a directory has one name, in the directory that its ".." says (`OneName`);
* every set of directories that is not empty and has the parent of each of its members has the
  root (`Rooted`).  This is `Root \in Above(d)` without a recursion; a rename keeps it
  because the VFS refuses a target below the directory that moves: the set of
  directories above the target does not have that directory and so hangs from the root still;
* a dentry says what the directory says (`Cached`);
* nothing that is neither linked nor open remains (`Kept`), so that the inode of a failed
  creation is the only one that goes, and goes without a trace.

The operations are composed of changes of one name, each with a lemma about the tables
and not about states (`FreshFile`, `AddFileName`, `DropFileName`, `NewDirectory`, `RemoveDirectory`,
`MoveDirectory`, `SetDentry`); `SettleSound` says that evicting what is neither linked nor open
keeps everything.

### The superblock: `KrSuper`, `KrFillSuper`

* `CheckedWhenNeededHolds`: no assumption.  The invariant follows an error from
  `kr_error` through the superblock in memory to the device, and through the steps of a
  remount, freeze or unmount that is under way.
* `ValidIsWhole`: `ValidMeansWhole` without bind mounts and with a revision that is supported;
  with either the code breaks it (section 5).  `HeldOff` says, step by step, that writers are
  held off and their changes written wherever the superblock is made valid, and that
  the device is told before they go on.
* `OnlyRemountWrites`: the action property, unless `errors=remount-ro` meets a remount that fails (section 5).  `OldIsNow`
  says that the flags a remount saved are still those in force.
* `FillSuperUnwinds`: whichever step of `kr_fill_super` fails, for any number of descriptor blocks.  `FillInv` says
  for each label of the cascade of gotos exactly what is held there.

### Model-checked only

* Of `KrBlockMap`: that no block is lost (`NothingLost`) and that nothing is left past the size (`NoBlocksPastEOF`).
* `KrInode` and the exercises.
* What the operators of `KrBlockPath`, `KrGeometry` and `KrStatfs` compute: recursion over data.
* Liveness (`EveryCallReturns`), which is out of the provers' reach.
* `SearchesFindRoom`, which is about a whole call that runs alone.

## 5. Observations

The conditions under which the passing runs check a property are not always the
weakest one would expect.  Each line here is a question whose answer is no: the
property, the constant or the condition of the MC module with which TLC shows it, and what the code does.  Properties
that no run checks are kept in their modules because these lines are about them.

| Property | With | What happens |
|---|---|---|
| `KrBlockMap!LookupsRetry` | the constants of `MCKrBlockMap` | A lookup (`create == 0`) that meets a changed chain returns -EAGAIN (`kr/inode.c:674`); the comment at lines 653-657 says "forget what we've got now, go to reread".  A read of a hole fails because a truncation removed the empty indirect block above it. |
| `KrBlockMap!SpliceFillsHole` | `IOErrors` | Under the mutex the error of the second `kr_get_branch` is looked at only when the chain is complete (`kr/inode.c:695-702`); after a failed read a new branch is stored over a pointer that is not zero, which the comment at lines 460-461 excludes, and what hung there is lost (`NothingLost`). |
| `KrBlockMap!NothingLeaked` | `IOErrors`, `Dax` | When `sb_issue_zeroout` fails, the branch just allocated is not freed (`kr/inode.c:749-755`; the comment at 609-611: "we simply release blocks"). |
| `KrBlockMap!TruncationSparesTheRest` | `IOErrors` | `kr_find_shared` ignores the error of `kr_get_branch` (`kr/inode.c:987-989`): the link to an unreadable indirect block is cut, with the data below the new size (the comment at 958-959: "leave the blocks themselves alive"). |
| `KrDir!NamesUnique` | `IOErrors` | `kr_find_entry` skips a page that cannot be read (`kr/dir.c:405-406`) and `kr_add_link` stops at the first room: the directory can have a name twice.  An unlink of the name may then remove the other record and take the last link of an inode that is still named; `KrNamei` does not have such pages. |
| `KrDir!EmptyDirIsRight` | `IOErrors` | `kr_empty_dir` skips such a page (`kr/dir.c:675-678`): a directory with names on it is taken for empty. |
| `KrNamei!NoNameDangles` | `"sync"` in `Faults` | In a directory written synchronously `kr_commit_chunk` reports the failed write of an entry that is in the page already (`kr/dir.c:88-111`), and `kr_add_nondir` then drops the inode (`kr/namei.c:45-48`): the name refers to a freed inode, which `kr_lookup` reports as "deleted inode referenced" (`kr/namei.c:69`). |
| `KrSuper!ValidMeansWhole` | `Binds` | `kr_remount` clears `MS_RDONLY` (`kr/super.c:1304`) before `kr_write_super` takes `KR_VALID_FS` off the device (1308): through a bind mount a writer gets in between. |
| `KrSuper!OnlyRemountMakesWritable` | `Policy = "ro"`, `RemountFails` | `restore_opts` writes back the `s_flags` saved at the start (`kr/super.c:1239`, 1318) and undoes the `MS_RDONLY` that `kr_error` set in between (74). |
| `KrSuper!ForcedReadOnly` | `RevTooHigh` | `kr_remount` keeps `MS_RDONLY` when `kr_setup_super` says "forcing read-only mode" (`kr/super.c:588-589`, 1303) but returns 0 with `*flags` unchanged, and the VFS then makes the filesystem writable. |
| `KrStatfs!SizeIsRight` | `Remounts` | minixdf sets `s_overhead_last` to 0 and leaves `s_blocks_last` (`kr/super.c:1332-1333`): after a remount to bsddf the overhead is not computed again. |
| `KrInode!HandleFindsItsFile` | `ImageGen = 0`, `FirstGen` 0 or 3 (it wraps), or versions that are set | `kr_nfs_get_inode` compares generations only if that of the handle is not zero (`kr/super.c:334`): such a handle finds the next file with the same number.  So does one whose generation the random start or the wrap of `s_next_generation` gives again (1028). |
| `KrBalloc!MetadataIsSafe` | an image with `DescriptorsChecked` and not `TablesBehindBitmaps` | `kr_free_blocks` and `kr_new_blocks` test the first and the last block of a run against the inode table (`kr/balloc.c:522-527`, 1391-1395): a run that begins before the table and ends behind it passes, though `kr_check_descriptors` accepted the image. |
| (the descriptor blocks of a group, counted) | `meta_bg` | `kr_bg_num_gdb` knows the groups with a superblock only (`kr/balloc.c:1552`), while `descriptor_loc` finds a descriptor block in the first group of each set (`kr/super.c:739-743`). |
| (a file one block larger has too many sectors) | 4K blocks | `kr_max_size` subtracts the indirect blocks of a full triple tree (`kr/super.c:703-710`): the result is below the "largest file size" of its comment (690-693), never above it. |
| `CharDevice!Exclusive` | the constants of `MCExercises` | `device_open` tests `device_count` and increments it later without a lock (`src/Exercises/Exercise6/open.c:16-21`; the comment at 12-13: "lock it by making it non zero"): two tasks that overlap there both have the device. |
| `CharDevice!NeverWedged` | the same | `device_count++` and `device_count--` are not atomic (`open.c:21`, `release.c:5`): a lost decrement leaves the device busy for good. |
| `CharDevice!ReadersStayInBuffer` | the same | With two tasks in `device_read` the test and the increment of `buffer_ptr` are apart (`read.c:33-35`): the pointer passes the NUL that ends the message, by as much as the tasks have left to read. |
| `CharDevice!GoneMeansUnused` | the same | The file operations have no owner and the answer of `try_module_get` is not looked at (`open.c:31-36`): the module can be removed under a task in `device_open`, or in `device_release` after its `module_put`. |
| `CharDevice!MessageTellsReads` | the same | `counter` counts opens; the comment at `open.c:7-8` says "the number of read operations performed". |
| `CharStarter!NothingUndue` | any | `starter` tests for `NULL` and -1 (`src/Exercises/Exercise7/driver.c:59`, 89, 112), which the failures of its calls are not (85 says "ERR_PTR on error", 110 "a negative error code"): the module loads without its class, device or cdev, and `ender` gives back what it never had (141-144). |
| `CharStarter!RemovalEnds` | any | With an `ERR_PTR` for a class, against the notes at 86-87 and 131-132, `device_destroy` of `ender` follows it and `rmmod` does not come back; the device number stays taken. |
| `ProcFile!EofAfterMessage` | the same | The flag `finished` is one for all opens and is set whatever part of the message fitted (`src/Exercises/Exercise8/read.c:23-34`): an end of file may follow a part only, or what another task read. |
| `ProcFile!NextIsServed` | the same | `release` does not clear the flag (`release.c:4-8`): the next to open the file is told the end of file first. |
| `LwnCounter!SameNumber`, `CountsByOne` | `Serial = FALSE` | A read at an offset goes on with the counter minus one (`src/Exercises/Exercise16/lfs.c:79-81`), which may be another number by then; reading and incrementing are two steps (79, 83). |
| `SimpleMount!InodeFreed` | `Fs = "lfs"` | When `d_make_root` fails `lfs_fill_super` puts the inode that `d_make_root` has put (`lfs.c:283-293`). |
| `SimpleMount!DeviceReleased` | `Fs = "lfs"` | The filesystem is mounted by `mount_bdev` and unmounted by `kill_litter_super`, which does not put the block device (`lfs.c:305`, 312): the claim on the device stays after the unmount. |
| `SimpleMount!MountedHasFiles` | `Fs = "lfs"` | `lfs_create_files` drops the answers of `lfs_create_file` (`lfs.c:229`, 236): the mount succeeds with a counter missing. |

The questions of `balloc_wrap` and `ialloc_drift` are of the same kind; they are runs because
they are about the allocators' shared counts, which everything else relies on.

## 6. Not modelled

* `Unused/` (extended attributes, ACLs): not built by the Makefile.
* The first exercises (1 to 5, 10), which print messages and keep no state that changes.
* The text of `parse_options` and `kr_show_options`; the options that matter are constants or
  actions of the modules they act on.  The `sb=` option: mounts read the first superblock.
* `kr_quota_read` and `kr_quota_write`, copies through `kr_get_block`; `device_write` of Exercise 7,
  a copy of the caller's bytes; the zeroing of the rest of a partial block by a truncation.
* Times, mount counts and file types in directory entries, which no decision depends on.
* A crash between the two writes by which a first large file gets the LARGE_FILE feature:
  `KrInode` writes both in one step, and the code promises nothing for it.
* Page cache, buffer cache, quota, locking primitives and the VFS are external and appear
  by what the code relies on.

## 7. Plan

1. *Done:* the block allocator, its properties and the theorems above.
2. *Done:* the inode allocator; the block map with its abstract map; inodes and handles;
   directories with their abstract map, and names; the mount state, the resources of a mount,
   its geometry and statfs; the small drivers and filesystems.
3. *Done:* theorems on both allocators, directories, names, the mount state and the resources of a mount.
4. *Done:* theorems on the block map: that the tree is sound, that it implements `KrFileMap` and that lookups
   answer what the map said.
5. `NoBlocksPastEOF` and `NothingLost`, which need that the work of a truncation covers all that is to go.
6. `ExclusiveUnlessOpensRace` of `CharDevice`, `NoLostCount` of `LwnCounter` and
   `ModuleHeld` of `SimpleMount`.
