------------------------------ MODULE KrBlockMap ------------------------------
(***************************************************************************)
(* The pointer tree of one inode of the kr filesystem                      *)
(* (Exercises/Exercise19/inode.c): kr_get_blocks, which looks a block up   *)
(* and maps it when asked to, and kr_truncate_blocks, which cuts the tree. *)
(*                                                                         *)
(* kr_get_blocks walks the tree without a lock and verifies what it read;  *)
(* whoever changes the tree holds truncate_mutex.  So the unlocked walk is *)
(* one action for each link it reads, a change is one action for each      *)
(* pointer it stores, and what the holder of the mutex only reads is read  *)
(* in the action that uses it.  i_meta_lock is held for reading by the     *)
(* tasks at "add", and kr_find_shared, which takes it for writing, waits   *)
(* for them; the rest of the truncation stores its zeros without it.       *)
(*                                                                         *)
(* Sizes are whole blocks, and a page is one block.  Freed blocks may be   *)
(* taken, overwritten and released by other files.                         *)
(***************************************************************************)
EXTENDS KrBlockPath, FiniteSetsExt, Functions

CONSTANTS
    Tasks,       \* the tasks that use the file
    Kinds,       \* for each task, the calls it makes
    PtrBits,     \* KR_ADDR_PER_BLOCK_BITS
    NBlocks,     \* the blocks of the filesystem are 1 .. NBlocks
    LastBlock,   \* bound: calls are for the blocks 0 .. LastBlock of the file
    MaxRun,      \* bound: largest maxblocks
    Trees,       \* the pointer trees with which the file may start
    InitSize,    \* its size then, for each of them
    MaxForeign,  \* bound: blocks that other files have at a time
    IOErrors,    \* may reading an indirect block or zeroing a block fail?
    AllocErrors, \* may kr_new_blocks and sb_getblk fail at any time?
    Dax,         \* IS_DAX(inode)
    AppendOnly,  \* IS_APPEND(inode) or IS_IMMUTABLE(inode)
    MaxCalls     \* bound: calls made by each task

Ptrs == AddrPerBlock(PtrBits)
Blocks == 1 .. NBlocks
Inode == -1
Nodes == {Inode} \cup Blocks
Slots(node) == 0 .. (IF node = Inode THEN TIND ELSE Ptrs - 1)
FileRange == 0 .. LastBlock
None == "none"

ASSUME MapAssumption ==
    /\ PtrBits \in Nat /\ Ptrs \in Nat
    /\ NDir <= Ptrs
    /\ NBlocks \in Nat
    /\ LastBlock \in Nat /\ LastBlock < FileBlocks(PtrBits)
    /\ MaxRun \in Nat \ {0}
    /\ InitSize \in [Trees -> Nat]
    /\ Kinds \in [Tasks -> SUBSET {"read", "bmap", "write", "writepage", "setsize", "evict"}]
    /\ MaxCalls \in [Tasks -> Nat]
    /\ None \notin Tasks

\* How far below a slot of i_data the data is.
SlotDepth(slot) == IF slot < NDir THEN 0 ELSE slot - NDir + 1

IsPointers(p) == DOMAIN p = Nodes /\ \A x \in Nodes : p[x] \in [Slots(x) -> 0 .. NBlocks]

\* The pointers of the inode and of the blocks above the data make a tree: lev is the
\* height of each block over the data, and -1 for the blocks that are not the file's.
Leads(lev, x) == x = Inode \/ lev[x] >= 1

Levelled(p, lev) ==
    /\ \A x \in Nodes : \A o \in Slots(x) :
         (Leads(lev, x) /\ p[x][o] # 0) =>
             lev[p[x][o]] = IF x = Inode THEN SlotDepth(o) ELSE lev[x] - 1
    /\ \A x, y \in Nodes : \A o \in Slots(x), q \in Slots(y) :
         (Leads(lev, x) /\ Leads(lev, y) /\ p[x][o] # 0 /\ p[x][o] = p[y][q]) =>
             x = y /\ o = q

Levels == [Blocks -> -1 .. 3]

\* The file is sound at the start.
ASSUME TreesAssumption ==
    \A p \in Trees :
        /\ IsPointers(p)
        /\ InitSize[p] <= LastBlock + 1
        /\ \E lev \in Levels : Levelled(p, lev)

VARIABLES
    ptr,       \* the pointers in i_data and in each block; 0 is no block
    free,      \* the blocks kr_new_blocks may give
    foreign,   \* the blocks other files have
    i_size,    \* in blocks
    mutex,     \* the holder of truncate_mutex
    rwsem,     \* the holder of the inode's lock, taken by write and truncate
    deleted,   \* the inode has been evicted with i_nlink 0
    leaked,    \* blocks that an error path left allocated to nobody
    held,      \* buffer heads each task has a reference to
    pc, fr,    \* where the call of each task stands, and its locals
    calls,     \* calls made so far by each task
    seen       \* what the map said, during each call, of the blocks it is about

disk == <<ptr, free, foreign>>
locks == <<mutex, rwsem>>
vars == <<disk, i_size, locks, deleted, leaked, held, pc, fr, calls, seen>>

NoCall == [kind |-> "", iblock |-> 0, max |-> 1, chain |-> <<>>, whole |-> FALSE,
           count |-> 0, err |-> "", partial |-> 0, new |-> <<>>, want |-> 0,
           done |-> 0, size |-> 0, work |-> <<>>]

-----------------------------------------------------------------------------
(***************************************************************************)
(* The tree as it stands.                                                  *)
(***************************************************************************)

Offsets(i) == kr_block_to_path(PtrBits, i)

\* The keys met on a path, 0 from the first absent one on.
Walk(path, p) ==
    LET w[k \in 1 .. Len(path)] ==
            LET up == IF k = 1 THEN Inode ELSE w[k - 1]
            IN  IF up = 0 THEN 0 ELSE p[up][path[k]]
    IN  w

\* The block of the file's block i: the map this module is about.
MapOf(p) == [i \in FileRange |-> Walk(Offsets(i), p)[Len(Offsets(i))]]
Map == MapOf(ptr)

Link(node, off) == [bh |-> node, off |-> off, key |-> ptr[node][off]]

\* verify_chain
verify_chain(chain) ==
    \A k \in 1 .. Len(chain) : ptr[chain[k].bh][chain[k].off] = chain[k].key

\* How far kr_get_branch may get when nothing changes under it: to the first zero
\* pointer, to the data, or to a block that cannot be read.
BranchLengths(path) ==
    LET keys == Walk(path, ptr)
        end == Min({k \in 1 .. Len(path) : keys[k] = 0 \/ k = Len(path)})
    IN  IF IOErrors THEN 1 .. end ELSE {end}

\* The chain of that length.
kr_get_branch(path, length) ==
    LET keys == Walk(path, ptr)
    IN  [k \in 1 .. length |-> Link(IF k = 1 THEN Inode ELSE keys[k - 1], path[k])]

\* The blocks of the subtree under block nr, whose leaves are depth levels down.
Subtree(nr, depth) ==
    LET level[d \in 0 .. depth] ==
            IF d = 0 THEN {nr} \ {0}
            ELSE (UNION {{ptr[b][o] : o \in 0 .. Ptrs - 1} : b \in level[d - 1]}) \ {0}
    IN  UNION {level[d] : d \in 0 .. depth}

\* Everything the inode leads to.
Reachable ==
    UNION {Subtree(ptr[Inode][s], SlotDepth(s)) : s \in 0 .. TIND}

Init ==
    /\ \E t \in Trees :
        /\ ptr = t
        /\ i_size = InitSize[t]
    /\ free = Blocks \ Reachable
    /\ foreign = {}
    /\ mutex = None
    /\ rwsem = None
    /\ deleted = FALSE
    /\ leaked = {}
    /\ held = [t \in Tasks |-> 0]
    /\ pc = [t \in Tasks |-> "idle"]
    /\ fr = [t \in Tasks |-> NoCall]
    /\ calls = [t \in Tasks |-> 0]
    /\ seen = [t \in Tasks |-> {}]

At(t, label) == pc[t] = label

Goto(t, label) == pc' = [pc EXCEPT ![t] = label]

Hold(t, n) == held' = [held EXCEPT ![t] = @ + n]

Path(t) == Offsets(fr[t].iblock)

Creates(t) == fr[t].kind \in {"write", "writepage"}

-----------------------------------------------------------------------------
(***************************************************************************)
(* kr_get_blocks: the walk without a lock.                                 *)
(***************************************************************************)

\* The calls that hold the lock of the page of the block they are about.
Locks(u, i) ==
    /\ pc[u] \notin {"idle", "pages", "truncate", "shared", "free"}
    /\ fr[u].kind \in {"read", "write", "writepage"}
    /\ fr[u].iblock = i

Enter(t, kind) ==
    /\ At(t, "idle")
    /\ ~deleted
    /\ kind \in Kinds[t]
    /\ calls[t] < MaxCalls[t]
    /\ calls' = [calls EXCEPT ![t] = @ + 1]

\* A call of kr_get_block: by kr_readpage and kr_readpages, for a block below
\* i_size; by kr_bmap, for any; by kr_write_begin and kr_direct_IO, under the
\* inode's lock; by kr_writepage, for one block below i_size.
GetBlock(t) ==
    \E kind \in {"read", "bmap", "write", "writepage"}, i \in FileRange, n \in 1 .. MaxRun :
        /\ Enter(t, kind)
        /\ i + n - 1 <= LastBlock
        /\ kind \in {"bmap", "writepage"} => n = 1
        /\ kind \in {"read", "writepage"} => i < i_size
        /\ kind # "bmap" => ~\E u \in Tasks : Locks(u, i)
        /\ IF kind = "write" THEN rwsem = None /\ rwsem' = t ELSE UNCHANGED rwsem
        /\ Goto(t, "first")
        /\ fr' = [fr EXCEPT ![t] = [NoCall EXCEPT !.kind = kind, !.iblock = i, !.max = n]]
        /\ UNCHANGED <<disk, i_size, mutex, deleted, leaked, held>>

\* Where kr_get_branch goes with the link it added: on, or back to kr_get_blocks.
AfterLink(chain, depth) ==
    IF chain[Len(chain)].key = 0 THEN "absent"
    ELSE IF Len(chain) = depth THEN "found"
    ELSE "bread"

\* add_chain for the slot of i_data.
FirstLink(t) ==
    /\ At(t, "first")
    /\ LET chain == <<Link(Inode, Path(t)[1])>>
       IN  /\ fr' = [fr EXCEPT ![t].chain = chain]
           /\ Goto(t, AfterLink(chain, Len(Path(t))))
    /\ UNCHANGED <<disk, i_size, locks, deleted, leaked, held, calls>>

\* Mutant: the chain is not verified once the block is read.
BreadUnverified(t) ==
    /\ At(t, "bread")
    /\ Goto(t, "add")
    /\ UNCHANGED <<disk, i_size, locks, deleted, leaked, held, fr, calls>>

\* sb_bread of the next block, then i_meta_lock and verify_chain.
Bread(t) ==
    /\ At(t, "bread")
    /\ \/ /\ IOErrors
          /\ fr' = [fr EXCEPT ![t].err = "EIO"]
          /\ Goto(t, "absent")
       \/ /\ ~verify_chain(fr[t].chain)
          /\ fr' = [fr EXCEPT ![t].err = "EAGAIN"]
          /\ Goto(t, "absent")
       \/ /\ verify_chain(fr[t].chain)
          /\ UNCHANGED fr
          /\ Goto(t, "add")
    /\ UNCHANGED <<disk, i_size, locks, deleted, leaked, held, calls>>

\* add_chain for a slot of the block read, and the release of i_meta_lock.
AddLink(t) ==
    /\ At(t, "add")
    /\ LET old == fr[t].chain
           chain == Append(old, Link(old[Len(old)].key, Path(t)[Len(old) + 1]))
       IN  /\ fr' = [fr EXCEPT ![t].chain = chain]
           /\ Goto(t, AfterLink(chain, Len(Path(t))))
    /\ Hold(t, 1)
    /\ UNCHANGED <<disk, i_size, locks, deleted, leaked, calls>>

\* The block of the file is there: count the blocks that follow it on disk.  One
\* action is one turn of the loop.  A chain that changed is dropped as a whole;
\* no caller meets that, because the block it holds the page of stays mapped.
MapMore(t) ==
    LET f == fr[t]
        last == f.chain[Len(f.chain)]
        count == IF f.count = 0 THEN 1 ELSE f.count
        more == count < f.max /\ count <= boundary(PtrBits, f.iblock)
        changed == more /\ ~verify_chain(f.chain)
        next == more /\ ~changed /\ ptr[last.bh][last.off + count] = last.key + count
    IN  /\ At(t, "found")
        /\ fr' = [fr EXCEPT ![t].count = IF changed THEN 0 ELSE IF next THEN count + 1 ELSE count,
                            ![t].err = IF changed THEN "EAGAIN" ELSE "",
                            ![t].whole = changed]
        /\ Goto(t, IF changed THEN "absent" ELSE IF next THEN "found" ELSE "return")
        /\ UNCHANGED <<disk, i_size, locks, deleted, leaked, held, calls>>

-----------------------------------------------------------------------------
(***************************************************************************)
(* kr_get_blocks: mapping a block, under truncate_mutex.                   *)
(***************************************************************************)

\* A plain lookup and a failed read end here.
Absent(t) ==
    /\ At(t, "absent")
    /\ Goto(t, IF ~Creates(t) \/ fr[t].err = "EIO" THEN "return" ELSE "lock")
    /\ UNCHANGED <<disk, i_size, locks, deleted, leaked, held, fr, calls>>

\* kr_blks_to_allocate: data blocks to map from the last link of the chain on,
\* when k indirect blocks are missing.
kr_blks_to_allocate(link, k, blks, to_boundary) ==
    LET most == Min({blks, to_boundary + 1})
    IN  IF k > 0 THEN most
        ELSE Max({c \in 1 .. most :
                    \A j \in 1 .. c - 1 : ptr[link.bh][link.off + j] = 0})

\* With the chain in hand: how many blocks it takes to complete it.
Want(t, chain) ==
    LET k == Len(Path(t)) - Len(chain)
    IN  k + kr_blks_to_allocate(chain[Len(chain)], k, fr[t].max,
                                boundary(PtrBits, fr[t].iblock))

\* Mutant: a chain that changed before the mutex was taken is used as it is.
LockTreeStale(t) ==
    /\ At(t, "lock")
    /\ mutex = None
    /\ LET chain == fr[t].chain
       IN  /\ mutex' = t
           /\ fr' = [fr EXCEPT ![t].err = "", ![t].whole = FALSE,
                               ![t].partial = Len(chain), ![t].want = Want(t, chain)]
           /\ Goto(t, "alloc")
           /\ UNCHANGED <<disk, i_size, rwsem, deleted, leaked, held, calls>>

\* The mutex is taken; a chain that changed is read again, and may turn out to be
\* complete.  An error of that second read is looked at only if it is complete.
LockTree(t) ==
    LET f == fr[t]
        depth == Len(Path(t))
    IN  /\ At(t, "lock")
        /\ mutex = None
        /\ \/ /\ f.err # "EAGAIN" /\ verify_chain(f.chain)
              /\ mutex' = t
              /\ fr' = [fr EXCEPT ![t].partial = Len(f.chain), ![t].want = Want(t, f.chain)]
              /\ Goto(t, "alloc")
              /\ UNCHANGED held
           \/ /\ f.err = "EAGAIN" \/ ~verify_chain(f.chain)
              /\ \E length \in BranchLengths(Path(t)) :
                    LET chain == kr_get_branch(Path(t), length)
                        complete == length = depth /\ chain[length].key # 0
                        g == [f EXCEPT !.chain = chain, !.err = "", !.whole = FALSE]
                    IN  /\ Hold(t, length - 1 - (IF f.whole THEN 0 ELSE Len(f.chain) - 1))
                        /\ \/ /\ complete
                              /\ UNCHANGED mutex
                              /\ fr' = [fr EXCEPT ![t] = [g EXCEPT !.count = 1]]
                              /\ Goto(t, "return")
                           \/ /\ ~complete
                              /\ mutex' = t
                              /\ fr' = [fr EXCEPT ![t] =
                                    [g EXCEPT !.partial = length, !.want = Want(t, chain)]]
                              /\ Goto(t, "alloc")
        /\ UNCHANGED <<disk, i_size, rwsem, deleted, leaked, calls>>

\* What kr_new_blocks may return: consecutive free blocks.  The goal that
\* kr_find_goal and kr_find_near work out is only a hint of where.
Runs(n) ==
    {r \in {<<first, count>> : first \in Blocks, count \in 1 .. n} :
        r[1] .. r[1] + r[2] - 1 \subseteq free}

Missing(t) == Len(Path(t)) - fr[t].partial

\* An error under the mutex: the call gives up, with nothing in hand.
GiveUp(t, err) ==
    /\ mutex' = None
    /\ fr' = [fr EXCEPT ![t].err = err, ![t].count = 0, ![t].new = <<>>]
    /\ Goto(t, "return")

\* Mutant: the indirect blocks already allocated are not freed on an error.
AllocBlocksNoUndo(t) ==
    LET f == fr[t]
    IN  /\ At(t, "alloc")
        /\ \/ (AllocErrors \/ free = {}) /\ GiveUp(t, "ENOSPC") /\ UNCHANGED free
           \/ \E run \in Runs(f.want) :
                LET new == f.new \o [k \in 1 .. run[2] |-> run[1] + k - 1]
                IN  /\ free' = free \ Range(new)
                    /\ fr' = [fr EXCEPT ![t].new = new, ![t].want = @ - run[2]]
                    /\ Goto(t, IF Len(new) > Missing(t) THEN "setup" ELSE "alloc")
                    /\ UNCHANGED mutex
        /\ UNCHANGED <<ptr, foreign, i_size, rwsem, deleted, leaked, held, calls>>

\* One turn of the loop of kr_alloc_blocks: it ends with the first call of
\* kr_new_blocks that leaves a block for data.
AllocBlocks(t) ==
    LET f == fr[t]
    IN  /\ At(t, "alloc")
        /\ \/ /\ AllocErrors \/ free = {}
              /\ free' = free \cup Range(f.new)
              /\ GiveUp(t, "ENOSPC")
           \/ \E run \in Runs(f.want) :
                LET new == f.new \o [k \in 1 .. run[2] |-> run[1] + k - 1]
                IN  /\ free' = free \ Range(new)
                    /\ fr' = [fr EXCEPT ![t].new = new, ![t].want = @ - run[2]]
                    /\ Goto(t, IF Len(new) > Missing(t) THEN "setup" ELSE "alloc")
                    /\ UNCHANGED mutex
        /\ UNCHANGED <<ptr, foreign, i_size, rwsem, deleted, leaked, held, calls>>

\* The contents of the new indirect blocks: each points to the next, the last to
\* the data blocks.
NewPointers(t) ==
    LET f == fr[t]
        k == Missing(t)
        data == Len(f.new) - k
    IN  [b \in Range(SubSeq(f.new, 1, k)) |->
            LET n == CHOOSE m \in 1 .. k : f.new[m] = b
                off == Path(t)[f.partial + n]
            IN  [o \in 0 .. Ptrs - 1 |->
                    IF o = off THEN f.new[n + 1]
                    ELSE IF n = k /\ o \in off .. off + data - 1
                    THEN f.new[k + 1] + o - off
                    ELSE 0]]

\* The rest of kr_alloc_branch, seen by nobody until the branch is spliced in.
SetUpBranch(t) ==
    LET f == fr[t]
        k == Missing(t)
        new == NewPointers(t)
        links == [n \in 1 .. k |->
                    [bh |-> f.new[n], off |-> Path(t)[f.partial + n], key |-> f.new[n + 1]]]
    IN  /\ At(t, "setup")
        /\ \/ /\ AllocErrors /\ k > 0
              /\ free' = free \cup Range(f.new)
              /\ GiveUp(t, "ENOMEM")
              /\ UNCHANGED <<ptr, held>>
           \/ /\ ptr' = [b \in Nodes |-> IF b \in DOMAIN new THEN new[b] ELSE ptr[b]]
              /\ fr' = [fr EXCEPT ![t].chain = [@ EXCEPT ![f.partial].key = f.new[1]] \o links,
                                  ![t].count = Len(f.new) - k]
              /\ Hold(t, k)
              /\ Goto(t, IF Dax THEN "zero" ELSE "splice")
              /\ UNCHANGED <<free, mutex>>
        /\ UNCHANGED <<foreign, i_size, rwsem, deleted, leaked, calls>>

\* sb_issue_zeroout, for a file accessed directly.  When it fails the branch is
\* neither spliced in nor freed.
ZeroOut(t) ==
    /\ At(t, "zero")
    /\ \/ /\ IOErrors
          /\ leaked' = leaked \cup Range(fr[t].new)
          /\ GiveUp(t, "EIO")
       \/ /\ Goto(t, "splice")
          /\ UNCHANGED <<leaked, mutex, fr>>
    /\ UNCHANGED <<disk, i_size, rwsem, deleted, held, calls>>

\* Mutant: the mutex is kept when the branch is in place.
SpliceKeepsMutex(t) ==
    LET f == fr[t]
        where == f.chain[f.partial]
        last == Missing(t) > 0 \/ f.done + 1 = f.count
    IN  /\ At(t, "splice")
        /\ ptr' = [ptr EXCEPT ![where.bh][where.off + f.done] = where.key + f.done]
        /\ \/ /\ last
              /\ fr' = [fr EXCEPT ![t].new = <<>>]
              /\ Goto(t, "return")
           \/ /\ ~last
              /\ fr' = [fr EXCEPT ![t].done = @ + 1]
              /\ UNCHANGED pc
        /\ UNCHANGED <<free, foreign, i_size, mutex, rwsem, deleted, leaked, held, calls>>

\* kr_splice_branch: the missing link, then the slots of the data blocks that
\* follow it in the same array, one store each.
Splice(t) ==
    LET f == fr[t]
        where == f.chain[f.partial]
        last == Missing(t) > 0 \/ f.done + 1 = f.count
    IN  /\ At(t, "splice")
        /\ ptr' = [ptr EXCEPT ![where.bh][where.off + f.done] = where.key + f.done]
        /\ \/ /\ last
              /\ mutex' = None
              /\ fr' = [fr EXCEPT ![t].new = <<>>]
              /\ Goto(t, "return")
           \/ /\ ~last
              /\ fr' = [fr EXCEPT ![t].done = @ + 1]
              /\ UNCHANGED <<mutex, pc>>
        /\ UNCHANGED <<free, foreign, i_size, rwsem, deleted, leaked, held, calls>>

\* got_it and cleanup: the buffers of the chain up to partial are released, which
\* is none of them when partial is NULL, that is when the chain was whole.
Return(t) ==
    LET f == fr[t]
        partial == IF f.partial > 0 THEN f.partial ELSE Len(f.chain)
    IN  /\ At(t, "return")
        /\ Hold(t, IF f.count > 0 THEN 1 - Len(Path(t))
                   ELSE IF f.whole THEN 0 ELSE 1 - partial)
        /\ \/ /\ f.kind = "write"
              /\ Goto(t, "written")
              /\ UNCHANGED fr
           \/ /\ f.kind # "write"
              /\ Goto(t, "idle")
              /\ fr' = [fr EXCEPT ![t] = NoCall]
        /\ UNCHANGED <<disk, i_size, locks, deleted, leaked, calls>>

\* The end of a write: i_size moves past what was written; or the write failed,
\* or was cut short by the user's memory, and kr_write_failed trims the file.
WriteEnd(t) ==
    LET f == fr[t]
    IN  /\ At(t, "written")
        /\ \/ /\ f.count > 0
              /\ i_size' = Max({i_size, f.iblock + f.count})
              /\ rwsem' = None
              /\ Goto(t, "idle")
              /\ fr' = [fr EXCEPT ![t] = NoCall]
           \/ /\ f.iblock + f.max > i_size /\ ~AppendOnly
              /\ Goto(t, "truncate")
              /\ fr' = [fr EXCEPT ![t] = [NoCall EXCEPT !.kind = "failed", !.size = i_size]]
              /\ UNCHANGED <<i_size, rwsem>>
           \/ /\ f.iblock + f.max <= i_size \/ AppendOnly
              /\ rwsem' = None
              /\ Goto(t, "idle")
              /\ fr' = [fr EXCEPT ![t] = NoCall]
              /\ UNCHANGED i_size
        /\ UNCHANGED <<disk, mutex, deleted, leaked, held, calls>>

-----------------------------------------------------------------------------
(***************************************************************************)
(* kr_truncate_blocks.  What is left to free is a stack of items: the      *)
(* slots p .. q - 1 of a node, with the run of blocks kr_free_data has     *)
(* gathered; a subtree that is detached; a block; a whole slot of i_data.  *)
(***************************************************************************)

Item(op, nr, p, q, depth) ==
    [op |-> op, nr |-> nr, p |-> p, q |-> q, depth |-> depth, start |-> 0, count |-> 0]

Array(node, p, q, depth) == Item("array", node, p, q, depth)
Detached(nr, depth) == Item("subtree", nr, 0, 0, depth)
FreeOne(nr) == Item("block", nr, 0, 0, 0)
WholeSlot(slot) == Item("slot", Inode, slot, 0, slot - NDir + 1)

\* Mutant: the slot after the one the truncation starts in is left alone.
RemainingSkips(slot) ==
    LET all == <<WholeSlot(IND), WholeSlot(DIND), WholeSlot(TIND)>>
    IN  SubSeq(all, IF slot < NDir THEN 2 ELSE slot - NDir + 3, 3)

\* do_indirects: the slots of i_data after the one the truncation starts in.
Remaining(slot) ==
    LET all == <<WholeSlot(IND), WholeSlot(DIND), WholeSlot(TIND)>>
    IN  SubSeq(all, IF slot < NDir THEN 1 ELSE slot - NDir + 2, 3)

\* kr_setsize up to truncate_setsize: the size is changed, then the pages past it
\* are waited for.
SetSize(t) ==
    /\ ~AppendOnly
    /\ rwsem = None
    /\ Enter(t, "setsize")
    /\ \E size \in 0 .. LastBlock + 1 :
        /\ i_size' = size
        /\ fr' = [fr EXCEPT ![t] = [NoCall EXCEPT !.kind = "setsize", !.size = size]]
    /\ rwsem' = t
    /\ Goto(t, "pages")
    /\ UNCHANGED <<disk, mutex, deleted, leaked, held>>

\* truncate_pagecache: every page past the size is locked in turn.
WaitForPages(t) ==
    /\ At(t, "pages")
    /\ \A u \in Tasks, i \in fr[t].size .. LastBlock : ~Locks(u, i)
    /\ Goto(t, "truncate")
    /\ UNCHANGED <<disk, i_size, locks, deleted, leaked, held, fr, calls>>

\* kr_evict_inode of an inode without a name: nobody else uses it.
Evict(t) ==
    /\ Enter(t, "evict")
    /\ \A u \in Tasks : At(u, "idle")
    /\ deleted' = TRUE
    /\ i_size' = 0
    /\ \/ /\ Reachable # {} /\ ~AppendOnly
          /\ Goto(t, "truncate")
          /\ fr' = [fr EXCEPT ![t] = [NoCall EXCEPT !.kind = "evict"]]
       \/ /\ Reachable = {} \/ AppendOnly
          /\ UNCHANGED <<pc, fr>>
    /\ UNCHANGED <<disk, locks, leaked, held>>

TruncatePath(t) == Offsets(fr[t].size)

Finish(t) ==
    /\ mutex' = None
    /\ rwsem' = IF rwsem = t THEN None ELSE rwsem
    /\ Goto(t, "idle")
    /\ fr' = [fr EXCEPT ![t] = NoCall]

\* The start of __kr_truncate_blocks, up to the free of direct blocks.
Truncate(t) ==
    LET path == TruncatePath(t)
    IN  /\ At(t, "truncate")
        /\ mutex = None
        /\ \/ Len(path) = 0 /\ Finish(t)
           \/ /\ Len(path) = 1
              /\ mutex' = t
              /\ fr' = [fr EXCEPT ![t].work =
                            <<Array(Inode, path[1], NDir, 0)>> \o Remaining(path[1])]
              /\ Goto(t, "free")
              /\ UNCHANGED rwsem
           \/ /\ Len(path) > 1
              /\ mutex' = t
              /\ Goto(t, "shared")
              /\ UNCHANGED <<rwsem, fr>>
        /\ UNCHANGED <<disk, i_size, deleted, leaked, held, calls>>

all_zeroes(link) == \A o \in 0 .. link.off - 1 : ptr[link.bh][o] = 0

\* The blocks of the branch that stay, and what is freed: the top of the branch,
\* then the ends of the blocks on it, from the bottom up.
SharedWork(n, chain, p, top, past) ==
    LET ends == [j \in 1 .. p - 1 |->
                    LET q == p - j + 1
                    IN  Array(chain[q].bh, chain[q].off + (IF q = p THEN past ELSE 1),
                              Ptrs, n - q)]
    IN  (IF top = 0 THEN <<>> ELSE <<Detached(top, n - p)>>) \o ends

\* Mutant: the last block that survives is the one below the right one.
FindSharedTooHigh(t) ==
    LET path == TruncatePath(t)
        n == Len(path)
        k == Max({1} \cup {j \in 1 .. n : path[j] # 0})
    IN  /\ At(t, "shared")
        /\ \E length \in BranchLengths(SubSeq(path, 1, k)) :
            LET chain == kr_get_branch(path, length)
            IN  /\ ptr' = [ptr EXCEPT ![Inode][path[1]] = 0]
                /\ fr' = [fr EXCEPT ![t].work =
                            SharedWork(n, chain, 1, ptr[Inode][path[1]], 1) \o Remaining(path[1])]
                /\ Goto(t, "free")
        /\ UNCHANGED <<free, foreign, i_size, locks, deleted, leaked, held, calls>>

\* kr_find_shared, with i_meta_lock for writing: the branch that leads to the
\* first block to go is detached where its blocks hold nothing to the left of it.
\* (Under the mutex a branch does not acquire a continuation.)
FindShared(t) ==
    LET path == TruncatePath(t)
        n == Len(path)
        k == Max({1} \cup {j \in 1 .. n : path[j] # 0})
    IN  /\ At(t, "shared")
        /\ ~\E u \in Tasks : At(u, "add")
        /\ \E length \in BranchLengths(SubSeq(path, 1, k)) :
            LET chain == kr_get_branch(path, length)
                p == Max({1} \cup {j \in 2 .. length : ~all_zeroes(chain[j])})
                ours == p = k /\ p > 1
                cut == chain[p]
                top == IF ours THEN 0 ELSE cut.key
            IN  /\ ptr' = IF ours THEN ptr ELSE [ptr EXCEPT ![cut.bh][cut.off] = 0]
                /\ fr' = [fr EXCEPT ![t].work =
                            SharedWork(n, chain, p, top, IF ours THEN 0 ELSE 1)
                                \o Remaining(path[1])]
                /\ Goto(t, "free")
        /\ UNCHANGED <<free, foreign, i_size, locks, deleted, leaked, held, calls>>

Run(item) == item.start .. item.start + item.count - 1

\* One step of kr_free_data and kr_free_branches on the slots of a node.
FreeArray(t, item, rest) ==
    LET slots == {o \in item.p .. item.q - 1 : ptr[item.nr][o] # 0}
        o == Min(slots)
        nr == ptr[item.nr][o]
        next == [item EXCEPT !.p = o + 1]
    IN  \/ /\ slots = {}
           /\ free' = free \cup Run(item)
           /\ fr' = [fr EXCEPT ![t].work = rest]
           /\ UNCHANGED ptr
        \/ /\ slots # {}
           /\ ptr' = [ptr EXCEPT ![item.nr][o] = 0]
           /\ \/ /\ item.depth > 0
                 /\ fr' = [fr EXCEPT ![t].work = <<Detached(nr, item.depth), next>> \o rest]
                 /\ UNCHANGED free
              \/ /\ item.depth = 0 /\ item.count > 0 /\ nr = item.start + item.count
                 /\ fr' = [fr EXCEPT ![t].work =
                                <<[next EXCEPT !.count = @ + 1]>> \o rest]
                 /\ UNCHANGED free
              \/ /\ item.depth = 0 /\ (item.count = 0 \/ nr # item.start + item.count)
                 /\ free' = free \cup Run(item)
                 /\ fr' = [fr EXCEPT ![t].work =
                                <<[next EXCEPT !.start = nr, !.count = 1]>> \o rest]

\* A block that leads to data is read, emptied and then freed; when it cannot be
\* read it stays allocated, with all it leads to.
FreeSubtree(t, item, rest) ==
    \/ /\ item.depth = 0
       /\ fr' = [fr EXCEPT ![t].work = <<FreeOne(item.nr)>> \o rest]
       /\ UNCHANGED leaked
    \/ /\ item.depth > 0
       /\ fr' = [fr EXCEPT ![t].work =
                    <<Array(item.nr, 0, Ptrs, item.depth - 1), FreeOne(item.nr)>> \o rest]
       /\ UNCHANGED leaked
    \/ /\ item.depth > 0 /\ IOErrors
       /\ leaked' = leaked \cup Subtree(item.nr, item.depth)
       /\ fr' = [fr EXCEPT ![t].work = rest]

\* Mutant: the slot is not cleared.
FreeSlotKeepsPointer(t, item, rest) ==
    LET nr == ptr[Inode][item.p]
    IN  /\ fr' = [fr EXCEPT ![t].work = (IF nr = 0 THEN <<>> ELSE <<Detached(nr, item.depth)>>) \o rest]
        /\ UNCHANGED ptr

\* do_indirects for one slot of i_data.
FreeSlot(t, item, rest) ==
    LET nr == ptr[Inode][item.p]
    IN  IF nr = 0
        THEN fr' = [fr EXCEPT ![t].work = rest] /\ UNCHANGED ptr
        ELSE /\ ptr' = [ptr EXCEPT ![Inode][item.p] = 0]
             /\ fr' = [fr EXCEPT ![t].work = <<Detached(nr, item.depth)>> \o rest]

\* One step of the work that is left.
FreeWork(t) ==
    /\ At(t, "free") /\ fr[t].work # <<>>
    /\ LET item == Head(fr[t].work)
           rest == Tail(fr[t].work)
       IN  \/ item.op = "array" /\ FreeArray(t, item, rest) /\ UNCHANGED leaked
           \/ item.op = "subtree" /\ FreeSubtree(t, item, rest) /\ UNCHANGED <<ptr, free>>
           \/ item.op = "slot" /\ FreeSlot(t, item, rest) /\ UNCHANGED <<free, leaked>>
           \/ /\ item.op = "block"
              /\ free' = free \cup {item.nr}
              /\ fr' = [fr EXCEPT ![t].work = rest]
              /\ UNCHANGED <<ptr, leaked>>
    /\ UNCHANGED <<foreign, i_size, locks, deleted, held, pc, calls>>

\* The end of __kr_truncate_blocks and of its caller.
TruncateDone(t) ==
    /\ At(t, "free") /\ fr[t].work = <<>>
    /\ Finish(t)
    /\ UNCHANGED <<disk, i_size, deleted, leaked, held, calls>>

-----------------------------------------------------------------------------
\* Another file takes a free block and fills it with what looks like pointers, to the block
\* itself: a block that is not free and not of this file.
OtherTakes ==
    /\ Cardinality(foreign) < MaxForeign
    /\ \E b \in free :
        /\ free' = free \ {b}
        /\ foreign' = foreign \cup {b}
        /\ ptr' = [ptr EXCEPT ![b] = [o \in 0 .. Ptrs - 1 |-> b]]
    /\ UNCHANGED <<i_size, locks, deleted, leaked, held, pc, fr, calls>>

OtherReleases ==
    /\ \E b \in foreign :
        /\ foreign' = foreign \ {b}
        /\ free' = free \cup {b}
    /\ UNCHANGED <<ptr, i_size, locks, deleted, leaked, held, pc, fr, calls>>

\* What the map says of the blocks of each lookup that holds their page.
Watch ==
    seen' = [t \in Tasks |->
                IF pc'[t] \in {"first", "bread", "add", "found", "absent", "lock", "alloc",
                               "setup", "zero", "splice", "return"}
                   /\ fr'[t].kind # "bmap"
                THEN seen[t] \cup
                     {<<j, MapOf(ptr')[fr'[t].iblock + j]>> : j \in 0 .. fr'[t].max - 1}
                ELSE {}]

Step(t) ==
    \/ FirstLink(t) \/ Bread(t) \/ AddLink(t) \/ MapMore(t) \/ Absent(t)
    \/ LockTree(t) \/ AllocBlocks(t) \/ SetUpBranch(t) \/ ZeroOut(t) \/ Splice(t)
    \/ Return(t) \/ WriteEnd(t) \/ WaitForPages(t) \/ Truncate(t) \/ FindShared(t)
    \/ FreeWork(t) \/ TruncateDone(t)

Next ==
    /\ \/ \E t \in Tasks : GetBlock(t) \/ SetSize(t) \/ Evict(t) \/ Step(t)
       \/ OtherTakes
       \/ OtherReleases
    /\ Watch

Spec == Init /\ [][Next]_vars

\* A task that is in a call is scheduled, and gets the locks it waits for.
FairSpec == Spec /\ \A t \in Tasks : WF_vars(Step(t) /\ Watch)

-----------------------------------------------------------------------------
\* The locals of the calls, the locks and the sets of blocks have their types.
TypeOK ==
    /\ IsPointers(ptr)
    /\ free \subseteq Blocks /\ foreign \subseteq Blocks /\ leaked \subseteq Blocks
    /\ i_size \in 0 .. LastBlock + 1
    /\ mutex \in Tasks \cup {None} /\ rwsem \in Tasks \cup {None}
    /\ \A t \in Tasks : held[t] >= 0 /\ calls[t] \in 0 .. MaxCalls[t]

\* Blocks a call has allocated and not yet hooked in, or detached and not freed.
InHand ==
    UNION {Range(fr[t].new) : t \in Tasks}
    \cup UNION {UNION {CASE i.op = "array" -> Run(i)
                                \cup UNION {Subtree(ptr[i.nr][o], i.depth) : o \in i.p .. i.q - 1}
                         [] i.op = "subtree" -> Subtree(i.nr, i.depth)
                         [] i.op = "block" -> {i.nr}
                         [] i.op = "slot" -> {} : i \in Range(fr[t].work)} : t \in Tasks}

\* The pointers of the tree, each with the path of slots that leads to it.
Pointers ==
    UNION {LET path == Offsets(i)
               keys == Walk(path, ptr)
           IN  {<<SubSeq(path, 1, k), keys[k]>> : k \in {n \in 1 .. Len(path) : keys[n] # 0}}
           : i \in FileRange}

\* No block hangs from two places of the tree, and none that does is free or has
\* another owner: kr_splice_branch, kr_find_shared and the frees keep it a tree
\* while readers walk it, truncations cut it and other files take what is freed.
TreeIsSound ==
    /\ Reachable \cap (free \cup foreign) = {}
    /\ \A x, y \in Pointers : x[2] = y[2] => x = y

\* A block that is allocated and not another file's is in the tree, in the hand of
\* a call, or was given up by an error path: no race between allocation and
\* truncation loses one.
NothingLost == Blocks \ (free \cup foreign) = Reachable \cup InHand \cup leaked

\* What a lookup or an allocation returns is what the tree said of each of its
\* blocks at some time during the call, though the walk held no lock.
LookupsLinearize ==
    \A t \in Tasks :
        (At(t, "return") /\ fr[t].err = "" /\ fr[t].kind # "bmap") =>
            LET first == fr[t].chain[Len(fr[t].chain)].key
            IN  IF fr[t].count = 0 THEN <<0, 0>> \in seen[t]
                ELSE \A j \in 0 .. fr[t].count - 1 : <<j, first + j>> \in seen[t]

\* Between writes and truncations no block is mapped at or past i_size: a failed
\* write takes back what it mapped, and a truncation leaves nothing behind.
NoBlocksPastEOF ==
    (rwsem = None /\ ~AppendOnly /\ (deleted => \A t \in Tasks : At(t, "idle"))) =>
        /\ \A i \in FileRange : i >= i_size => Map[i] = 0
        /\ deleted => Reachable = {}

\* Mapping never overwrites a pointer: the comment on kr_alloc_branch has it that
\* partial is the triple with zero key.
SpliceFillsHole ==
    \A t \in Tasks : At(t, "splice") =>
        LET where == fr[t].chain[fr[t].partial]
        IN  ptr[where.bh][where.off + fr[t].done] = 0

\* A call that has returned holds no buffer.
BuffersReleased == \A t \in Tasks : At(t, "idle") => held[t] = 0

\* A lookup that met a changed chain reads it again: -EAGAIN is not an answer.
LookupsRetry == \A t \in Tasks : At(t, "return") => fr[t].err # "EAGAIN"

\* Blocks an error path could have freed are freed.
NothingLeaked == leaked = {}

\* A truncation leaves alone the blocks of the file below the new size, and the
\* indirect blocks that lead to them (the comment on kr_find_shared).
TruncationSparesTheRest ==
    [][\A i \in FileRange :
        (i < i_size /\ i < i_size' /\ Map[i] # 0) => MapOf(ptr')[i] = Map[i]]_vars

\* Every call returns: no lookup chases a changing tree for ever and no truncation
\* and allocation wait for each other.
CallsReturn == \A t \in Tasks : ~At(t, "idle") ~> At(t, "idle")

-----------------------------------------------------------------------------
\* The map, as a user of the file sees it.
FileMap == INSTANCE KrFileMap WITH map <- Map, size <- i_size

\* The tree implements the map: see KrFileMap.
ImplementsFileMap == FileMap!Spec
=============================================================================
