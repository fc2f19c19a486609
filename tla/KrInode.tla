------------------------------- MODULE KrInode -------------------------------
(***************************************************************************)
(* One slot of the inode table: the inode in memory, its image in the      *)
(* buffer (raw), and the conversions between them.  The slot is used by    *)
(* one file after another; an NFS client may come back with the handle of  *)
(* any of them.  The words of the image keep their width: the owner is     *)
(* split in two halves of Half values, the size in two words of Word       *)
(* values, and the upper word of a regular file's size is the field that   *)
(* other kinds use for i_dir_acl.                                          *)
(***************************************************************************)
EXTENDS Integers, FiniteSets

CONSTANTS
  Half,        \* 2^16: values of i_uid_low and of i_uid_high
  Word,        \* 2^32: values of i_size and of i_size_high
  OldDevs,     \* device numbers below this have the old encoding
  GenMod,      \* 2^32: values of i_generation
  ImageGen,    \* i_generation of the file that the mount finds
  FirstGen,    \* s_next_generation at the mount, a random number
  Uids, Sizes, Devs,  \* owners, sizes and device numbers that are given to files
  Versions,    \* generations that KR_IOC_SETVERSION sets
  NoUid32,     \* the mount option nouid32
  Overflow,    \* fs_overflowuid
  MaxFiles     \* bound: files that the slot holds one after another

Kinds == {"reg", "dir", "dev"}

\* Flags of the image; those of VfsFlags are also kept in the VFS inode, and the
\* user can change all but "btree".
Flags == {"sync", "dirsync", "nodump", "btree"}
VfsFlags == {"sync", "dirsync"}
Modifiable == Flags \ {"btree"}

ConstantsOK ==
  /\ Half \in Nat \ {0} /\ Word \in Nat \ {0, 1} /\ GenMod \in Nat \ {0}
  /\ Uids \subseteq 0 .. Half * Half - 1
  /\ Sizes \subseteq 0 .. Word * Word - 1
  /\ Devs \subseteq Nat /\ OldDevs \in Nat
  /\ {ImageGen, FirstGen} \subseteq 0 .. GenMod - 1 /\ Versions \subseteq 0 .. GenMod - 1
  /\ Overflow \in 0 .. Half - 1
  /\ NoUid32 \in BOOLEAN /\ MaxFiles \in Nat

VARIABLES
  mem,       \* the inode in the cache, or NoInode
  dirty,     \* it has changed since it was last written to the buffer
  raw,       \* the image in the buffer
  features,  \* the superblock's features: whether LARGE_FILE is set
  next_gen,  \* s_next_generation
  file,      \* history: the file in the slot, as its user knows it, or NoFile
  files,     \* history: number of files the slot has held
  handles,   \* history: handles that were given out, with the file they mean
  answer     \* history: the handle that the last step looked up, and what it found

vars == <<mem, dirty, raw, features, next_gen, file, files, handles, answer>>

NoInode == [kind |-> "none"]
NoFile == [id |-> 0]
NoAnswer == [wanted |-> 0, found |-> 0]

-----------------------------------------------------------------------------
\* kr_mask_flags
Mask(kind, fl) ==
  CASE kind = "dir" -> fl
    [] kind = "reg" -> fl \ {"dirsync"}
    [] kind = "dev" -> fl \cap {"nodump"}

\* kr_iget, from an image to an inode.  i_data of a device is not used again.
DecodeUid(r) == IF NoUid32 THEN r.uid_low ELSE r.uid_low + Half * r.uid_high

DecodeDev(r) == IF r.kind # "dev" THEN 0 ELSE IF r.b0 # 0 THEN r.b0 ELSE r.b1

Decode(r) ==
  [kind   |-> r.kind,
   uid    |-> DecodeUid(r),
   links  |-> r.links,
   size   |-> r.size + (IF r.kind = "reg" THEN Word * r.size_high ELSE 0),
   acl    |-> IF r.kind = "reg" THEN 0 ELSE r.size_high,
   flags  |-> r.flags,
   vflags |-> r.flags \cap VfsFlags,
   gen    |-> r.gen,
   dev    |-> DecodeDev(r),
   dtime  |-> FALSE,
   new    |-> FALSE]

\* The test for a deleted inode, which e2fsck uses too.
Deleted(r) == r.links = 0 /\ (r.kind = "none" \/ r.dtime)

\* __kr_write_inode, from an inode to an image; extra are the bytes that the
\* inode in memory does not know.
EncodeUid(i) ==
  IF NoUid32
    THEN [low |-> IF i.uid >= Half THEN Overflow ELSE i.uid, high |-> 0]
    ELSE [low |-> i.uid % Half, high |-> IF i.dtime THEN 0 ELSE i.uid \div Half]

EncodeDev(i) ==
  IF i.kind = "dev" /\ i.dev >= OldDevs
    THEN [b0 |-> 0, b1 |-> i.dev]
    ELSE [b0 |-> i.dev, b1 |-> 0]

EncodeFlags(i) == (i.flags \ VfsFlags) \cup i.vflags

Encode(i) ==
  [kind      |-> i.kind,
   uid_low   |-> EncodeUid(i).low,
   uid_high  |-> EncodeUid(i).high,
   links     |-> i.links,
   size      |-> i.size % Word,
   size_high |-> IF i.kind = "reg" THEN i.size \div Word ELSE i.acl,
   flags     |-> EncodeFlags(i),
   gen       |-> i.gen,
   b0        |-> EncodeDev(i).b0,
   b1        |-> EncodeDev(i).b1,
   dtime     |-> i.dtime,
   extra     |-> IF i.new THEN 0 ELSE raw.extra]

\* The size from which a file needs LARGE_FILE.
Large(i) == i.kind = "reg" /\ i.size > Word \div 2 - 1

\* Mutant: the LARGE_FILE feature is not set.
WrittenSmall(i) ==
  /\ raw' = Encode(i)
  /\ features' = features

Written(i) ==
  /\ raw' = Encode(i)
  /\ features' = (features \/ Large(i))

\* Images that the mount finds: a slot that held a large file, now deleted, one that mkfs
\* has cleared (i_mode is 0), and a directory that another kernel has indexed.
DeletedImage ==
  [kind |-> "reg", uid_low |-> 0, uid_high |-> 0, links |-> 0, size |-> 0,
   size_high |-> 1, flags |-> {"sync"}, gen |-> ImageGen, b0 |-> 1, b1 |-> 1,
   dtime |-> TRUE, extra |-> 1]
BlankImage ==
  [DeletedImage EXCEPT !.kind = "none", !.size_high = 0, !.flags = {}, !.gen = 0,
                       !.b0 = 0, !.b1 = 0, !.dtime = FALSE, !.extra = 0]
DirImage ==
  [DeletedImage EXCEPT !.kind = "dir", !.links = 2, !.size = 1, !.size_high = 0,
                       !.flags = {"btree"}, !.b0 = 0, !.b1 = 0, !.dtime = FALSE]

TypeOK ==
  /\ mem # NoInode =>
       /\ mem.kind \in Kinds /\ mem.uid \in 0 .. Half * Half - 1
       /\ mem.size \in 0 .. Word * Word - 1 /\ mem.links \in 0 .. 2
       /\ mem.flags \subseteq Flags /\ mem.vflags \subseteq VfsFlags
       /\ mem.gen \in 0 .. GenMod - 1
  /\ raw.uid_low \in 0 .. Half - 1 /\ raw.uid_high \in 0 .. Half - 1
  /\ raw.size \in 0 .. Word - 1 /\ raw.size_high \in 0 .. Word - 1
  /\ {dirty, features, raw.dtime} \subseteq BOOLEAN
  /\ next_gen \in 0 .. GenMod - 1
  /\ files \in 0 .. MaxFiles
  /\ handles \subseteq (0 .. GenMod - 1) \X (1 .. MaxFiles)

\* What the user of a file knows of the inode i.
Known(i, id, extra) ==
  [id |-> id, kind |-> i.kind, uid |-> i.uid, size |-> i.size, acl |-> i.acl,
   flags |-> i.flags, gen |-> i.gen, dev |-> i.dev, extra |-> extra]

Init ==
  /\ raw \in {DeletedImage, BlankImage, DirImage}
  /\ files = IF Deleted(raw) THEN 0 ELSE 1
  /\ file = IF Deleted(raw) THEN NoFile ELSE Known(Decode(raw), 1, raw.extra)
  /\ mem = NoInode /\ dirty = FALSE /\ features = FALSE
  /\ next_gen = FirstGen
  /\ handles = {} /\ answer = NoAnswer

\* History: a step that looks up no handle.
NotAsked == answer' = NoAnswer

-----------------------------------------------------------------------------
\* kr_new_inode in this slot, and the name it is given.
kr_new_inode(kind, uid, fl, dev) ==
  /\ file = NoFile /\ mem = NoInode /\ files < MaxFiles
  /\ mem' = [kind |-> kind, uid |-> uid, links |-> 1, size |-> 0, acl |-> 0,
             flags |-> Mask(kind, fl), vflags |-> Mask(kind, fl) \cap VfsFlags,
             gen |-> next_gen, dev |-> dev, dtime |-> FALSE, new |-> TRUE]
  /\ dirty' = TRUE
  /\ next_gen' = (next_gen + 1) % GenMod
  /\ files' = files + 1
  /\ file' = Known(mem', files', 0)
  /\ NotAsked
  /\ UNCHANGED <<raw, features, handles>>

\* A change of the inode that its user asked for; mark_inode_dirty.
Change(i) ==
  /\ mem # NoInode /\ mem.links > 0
  /\ mem' = i /\ i # mem
  /\ dirty' = TRUE
  /\ file' = Known(i, file.id, file.extra)
  /\ NotAsked
  /\ UNCHANGED <<raw, features, next_gen, files, handles>>

Chown(uid) == mem # NoInode /\ Change([mem EXCEPT !.uid = uid])

SetSize(size) == mem # NoInode /\ mem.kind = "reg" /\ Change([mem EXCEPT !.size = size])

\* KR_IOC_SETFLAGS
NewFlags(fl) == (Mask(mem.kind, fl) \cap Modifiable) \cup (mem.flags \ Modifiable)

SetFlags(fl) ==
  mem # NoInode /\ Change([mem EXCEPT !.flags = NewFlags(fl),
                                      !.vflags = NewFlags(fl) \cap VfsFlags])

\* KR_IOC_SETVERSION
SetVersion(g) == mem # NoInode /\ Change([mem EXCEPT !.gen = g])

\* Writing the inode to its buffer; the superblock is flagged before the first
\* large file.
kr_write_inode ==
  /\ mem # NoInode /\ dirty
  /\ Written(mem)
  /\ mem' = [mem EXCEPT !.flags = EncodeFlags(mem), !.new = FALSE]
  /\ dirty' = FALSE
  /\ NotAsked
  /\ UNCHANGED <<next_gen, file, files, handles>>

\* The cache lets go of an inode that is written and has a name.
Reclaim ==
  /\ mem # NoInode /\ ~dirty /\ mem.links > 0
  /\ mem' = NoInode
  /\ NotAsked
  /\ UNCHANGED <<dirty, raw, features, next_gen, file, files, handles>>

\* Mutant: a deleted inode is not refused.
IgetUnchecked == IF mem # NoInode THEN mem ELSE Decode(raw)

\* The inode that kr_iget returns, NoInode for -ESTALE.
Iget == IF mem # NoInode THEN mem ELSE IF Deleted(raw) THEN NoInode ELSE Decode(raw)

kr_iget ==
  /\ file # NoFile /\ mem = NoInode
  /\ mem' = Iget
  /\ NotAsked
  /\ UNCHANGED <<dirty, raw, features, next_gen, file, files, handles>>

\* The last name goes, and with it the last user: kr_evict_inode notes the time
\* and writes the inode, and the slot is free.
kr_evict_inode ==
  /\ mem # NoInode
  /\ Written([mem EXCEPT !.links = 0, !.dtime = TRUE])
  /\ mem' = NoInode /\ dirty' = FALSE /\ file' = NoFile
  /\ NotAsked
  /\ UNCHANGED <<next_gen, files, handles>>

\* exportfs gives out the handle of a file in use.
GiveHandle ==
  /\ mem # NoInode
  /\ handles' = handles \cup {<<mem.gen, file.id>>}
  /\ NotAsked
  /\ UNCHANGED <<mem, dirty, raw, features, next_gen, file, files>>

\* The answer to handle h when inode i was found.
RightGeneration(h, i) == i # NoInode /\ (h[1] # 0 => i.gen = h[1])

kr_nfs_get_inode(h) ==
  /\ mem' = Iget
  /\ answer' = [wanted |-> h[2],
                found |-> IF ~RightGeneration(h, Iget) THEN 0
                          ELSE IF file = NoFile THEN -1 ELSE file.id]
  /\ UNCHANGED <<dirty, raw, features, next_gen, file, files, handles>>

Next ==
  \/ \E kind \in Kinds, uid \in Uids, fl \in SUBSET VfsFlags, dev \in Devs :
       /\ dev # 0 => kind = "dev"
       /\ kr_new_inode(kind, uid, fl, dev)
  \/ \E uid \in Uids : Chown(uid)
  \/ \E size \in Sizes : SetSize(size)
  \/ \E fl \in SUBSET Modifiable : SetFlags(fl)
  \/ \E g \in Versions : SetVersion(g)
  \/ kr_write_inode \/ Reclaim \/ kr_iget \/ kr_evict_inode
  \/ GiveHandle
  \/ \E h \in handles : kr_nfs_get_inode(h)

Spec == Init /\ [][Next]_vars

-----------------------------------------------------------------------------
\* The owner that can be expected of an image: with nouid32 a large one is lost.
Stored(f) ==
  IF NoUid32 /\ f.uid >= Half THEN [f EXCEPT !.uid = Overflow] ELSE f

\* An inode that has been written is read back as its user knows it, whatever
\* the slot held before: owner, size, flags, device and generation, and none of
\* the bytes of an earlier file.
ReadsBack ==
  file # NoFile /\ ~dirty =>
    /\ ~Deleted(raw)
    /\ Stored(Known(Decode(raw), file.id, raw.extra)) = Stored(file)

\* A file whose size needs the LARGE_FILE feature is not written without it.
LargeFilesFlagged ==
  raw.kind = "reg" /\ raw.links > 0 /\ Large(Decode(raw)) => features

\* A handle finds the file it was given for, or nothing.  s_next_generation is a random
\* number and wraps around: this is asked where no file of the slot has generation 0, which
\* kr_nfs_get_inode does not compare, and no two have the same.
HandleFindsItsFile == answer.found \in {0, answer.wanted}
==============================================================================
