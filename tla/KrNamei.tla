-------------------------------- MODULE KrNamei --------------------------------
(***************************************************************************)
(* The names of the kr filesystem (Exercises/Exercise19/namei.c): files,   *)
(* directories and symlinks are created, linked, renamed and removed.      *)
(*                                                                         *)
(* A directory is the map from names to inodes that KrNames specifies and  *)
(* KrDir implements, with ".." beside it.  It has each name once, which    *)
(* KrDir shows as long as its pages can be read: that they can is assumed  *)
(* throughout.  The VFS locks the directories of an operation and the      *)
(* inodes it changes, so an operation is one action; how far it gets       *)
(* before an error is chosen in it.  The VFS works from its dentries,      *)
(* which it drops and looks up again as it likes, and an inode without     *)
(* links is evicted when nobody has it open.                               *)
(***************************************************************************)
EXTENDS Integers, FiniteSets

CONSTANTS
    Inos,        \* the inodes, Root included
    Root,        \* KR_ROOT_INO
    Names,
    MaxLinks,    \* s_max_links
    MaxOpen,     \* bound: the inodes that are open at a time
    Faults       \* what may go wrong: see FaultKinds

Unknown == -1    \* no dentry
NoInode == 0     \* no entry, or a negative dentry

\* "alloc": no quota, inode, block or page is to be had.  "sync": kr_commit_chunk of
\* a directory that is IS_DIRSYNC changes the page and fails to write it.
FaultKinds == {"alloc", "sync"}

ConstantsOK ==
    /\ Inos \subseteq Nat \ {0} /\ IsFiniteSet(Inos)
    /\ Root \in Inos
    /\ IsFiniteSet(Names)
    /\ MaxLinks \in Nat \ {0, 1}
    /\ Faults \subseteq FaultKinds

VARIABLES
    kind,     \* "free", "file" (or symlink, device...), "dir", or "dead": a directory
              \* that was removed (S_DEAD)
    nlink,    \* i_nlink
    entry,    \* the names in each directory
    dotdot,   \* its ".."
    opened,   \* the inodes somebody has open
    tmp,      \* those of kr_tmpfile that have had no name yet: I_LINKABLE
    dc,       \* the dentries
    ret       \* "ok" or "error": how the last operation ended

vars == <<kind, nlink, entry, dotdot, opened, tmp, dc, ret>>

NoNames == [n \in Names |-> NoInode]
NoDentries == [n \in Names |-> Unknown]

Init ==
    /\ kind = [i \in Inos |-> IF i = Root THEN "dir" ELSE "free"]
    /\ nlink = [i \in Inos |-> IF i = Root THEN 2 ELSE 0]
    /\ entry = [i \in Inos |-> NoNames]
    /\ dotdot = [i \in Inos |-> IF i = Root THEN Root ELSE NoInode]
    /\ opened = {}
    /\ tmp = {}
    /\ dc = [i \in Inos |-> NoDentries]
    /\ ret = "ok"

Dirs == {i \in Inos : kind[i] = "dir"}
IsDir(i) == kind[i] = "dir"

Negative(d, n) == d \in Dirs /\ dc[d][n] = NoInode
Positive(d, n) == d \in Dirs /\ dc[d][n] \in Inos

\* The directories on the path to d, and d: those in every set that has d and, with a
\* directory, the one it is in.
Above(d) ==
    LET dirs == Dirs
        paths == {S \in SUBSET dirs :
                    d \in S /\ \A p \in dirs \ S : \A n \in Names : entry[p][n] \notin S}
    IN  {a \in dirs : \A S \in paths : a \in S}

-----------------------------------------------------------------------------
\* kr_new_inode, as KrIalloc has it: a free inode, here the first.
NewInode == LET free == {i \in Inos : kind[i] = "free"}
            IN  {i \in free : \A j \in free : i <= j}

\* How kr_add_link may end, and what the names are then: done; failed, as when the
\* name is there; or failed with the entry in place.
AddLink(d, n, i) ==
    LET end(ok, e) == [ok |-> ok, entry |-> e]
        added == [entry EXCEPT ![d][n] = i]
    IN  IF entry[d][n] # NoInode THEN {end(FALSE, entry)}
        ELSE {end(TRUE, added)}
             \cup (IF "alloc" \in Faults THEN {end(FALSE, entry)} ELSE {})
             \cup (IF "sync" \in Faults THEN {end(FALSE, added)} ELSE {})

kr_empty_dir(i) == entry[i] = NoNames

\* The last reference of an operation goes: an inode left with neither a link nor an
\* opener is evicted, and the dentries in a directory that is gone are.
Settle(k, nl, e, dd, c) ==
    LET gone == {i \in Inos \ opened' : k[i] # "free" /\ nl[i] = 0}
    IN  /\ kind' = [i \in Inos |-> IF i \in gone THEN "free" ELSE k[i]]
        /\ nlink' = nl
        /\ entry' = [i \in Inos |-> IF i \in gone THEN NoNames ELSE e[i]]
        /\ dotdot' = [i \in Inos |-> IF i \in gone THEN NoInode ELSE dd[i]]
        /\ dc' = [i \in Inos |-> IF k[i] = "dir" THEN c[i] ELSE NoDentries]

\* An error before anything was changed: of dquot_initialize, or a failed search.
Refused ==
    /\ ret' = "error"
    /\ UNCHANGED <<kind, nlink, entry, dotdot, opened, tmp, dc>>

Result(ok) == ret' = IF ok THEN "ok" ELSE "error"

-----------------------------------------------------------------------------
\* kr_lookup: a dentry for a name.  An entry whose inode is gone gives -EIO.
Lookup ==
    \E d \in Dirs, n \in Names :
        LET i == entry[d][n]
            stale == i # NoInode /\ kind[i] = "free"
        IN  /\ dc[d][n] = Unknown
            /\ dc' = IF stale THEN dc ELSE [dc EXCEPT ![d][n] = i]
            /\ Result(~stale)
            /\ UNCHANGED <<kind, nlink, entry, dotdot, opened, tmp>>

\* The VFS drops a dentry it does not need, opens an inode and closes it.
DropDentry ==
    \E d \in Inos, n \in Names :
        /\ dc[d][n] # Unknown
        /\ dc' = [dc EXCEPT ![d][n] = Unknown]
        /\ Result(TRUE)
        /\ UNCHANGED <<kind, nlink, entry, dotdot, opened, tmp>>

Open ==
    \E d \in Dirs, n \in Names :
        /\ Positive(d, n) /\ Cardinality(opened) < MaxOpen
        /\ opened' = opened \cup {dc[d][n]}
        /\ Result(TRUE)
        /\ UNCHANGED <<kind, nlink, entry, dotdot, tmp, dc>>

Close ==
    \E i \in opened :
        /\ opened' = opened \ {i}
        /\ tmp' = tmp \ {i}
        /\ Settle(kind, nlink, entry, dotdot, dc)
        /\ Result(TRUE)

\* Mutant: the link is dropped though the name was added.
AddNondirFallsThrough(d, n, i) ==
    \E a \in AddLink(d, n, i) :
        /\ Settle([kind EXCEPT ![i] = "file"], [nlink EXCEPT ![i] = 0], a.entry, dotdot, dc)
        /\ Result(a.ok)

\* kr_add_nondir: a new inode gets its name and the dentry, or goes again.
AddNondir(d, n, i) ==
    LET k == [kind EXCEPT ![i] = "file"]
        nl == [nlink EXCEPT ![i] = 1]
    IN  \E a \in AddLink(d, n, i) :
            /\ Settle(k, IF a.ok THEN nl ELSE [nl EXCEPT ![i] = @ - 1], a.entry, dotdot,
                      IF a.ok THEN [dc EXCEPT ![d][n] = i] ELSE dc)
            /\ Result(a.ok)

NoNewInode == (NewInode = {} \/ "alloc" \in Faults) /\ Refused

Create ==
    \E d \in Dirs, n \in Names :
        /\ Negative(d, n)
        /\ \/ NoNewInode
           \/ \E i \in NewInode : UNCHANGED <<opened, tmp>> /\ AddNondir(d, n, i)

Mknod == Create

\* kr_symlink: as kr_create, but a long target needs a page, which may not be had.
Symlink ==
    \E d \in Dirs, n \in Names, i \in NewInode :
        LET nl == [nlink EXCEPT ![i] = 1]
        IN  /\ Negative(d, n)
            /\ UNCHANGED <<opened, tmp>>
            /\ \/ AddNondir(d, n, i)
               \/ /\ "alloc" \in Faults
                  /\ Settle([kind EXCEPT ![i] = "file"], [nl EXCEPT ![i] = @ - 1],
                            entry, dotdot, dc)
                  /\ Result(FALSE)

\* kr_tmpfile: an open inode whose one link d_tmpfile takes away.
Tmpfile ==
    \/ NoNewInode
    \/ \E i \in NewInode :
        /\ Cardinality(opened) < MaxOpen
        /\ opened' = opened \cup {i}
        /\ tmp' = tmp \cup {i}
        /\ Settle([kind EXCEPT ![i] = "file"], [nlink EXCEPT ![i] = 0], entry, dotdot, dc)
        /\ Result(TRUE)

\* kr_link: the link is counted before the name is added, and uncounted if it cannot
\* be.  The VFS lets only a file of kr_tmpfile have its first name this way.
Link ==
    \E d \in Dirs, n \in Names, i \in Inos :
        /\ Negative(d, n)
        /\ kind[i] = "file" /\ nlink[i] < MaxLinks
        /\ \/ i \in tmp
           \/ nlink[i] > 0 /\ \E x \in Dirs, y \in Names : dc[x][y] = i
        /\ LET nl == [nlink EXCEPT ![i] = @ + 1]
           IN  \/ "alloc" \in Faults /\ Refused
               \/ \E a \in AddLink(d, n, i) :
                   /\ opened' = opened
                   /\ tmp' = IF a.ok THEN tmp \ {i} ELSE tmp
                   /\ Settle(kind, IF a.ok THEN nl ELSE [nl EXCEPT ![i] = @ - 1],
                             a.entry, dotdot, IF a.ok THEN [dc EXCEPT ![d][n] = i] ELSE dc)
                   /\ Result(a.ok)

\* kr_mkdir: ".." is counted in the parent first, then "." in the new inode; its two
\* entries are written, and it gets its name.
Mkdir ==
    \E d \in Dirs, n \in Names :
        /\ Negative(d, n)
        /\ nlink[d] < MaxLinks
        /\ UNCHANGED <<opened, tmp>>
        /\ LET up == [nlink EXCEPT ![d] = @ + 1]
               outDir(nl) == [nl EXCEPT ![d] = @ - 1]
               fail(k, nl, e) == Settle(k, outDir(nl), e, dotdot, dc) /\ Result(FALSE)
           IN  \/ /\ NewInode = {} \/ "alloc" \in Faults
                  /\ fail(kind, up, entry)
               \/ \E i \in NewInode :
                   LET k == [kind EXCEPT ![i] = "dir"]
                       nl == [up EXCEPT ![i] = 2]
                       undone == [nl EXCEPT ![i] = @ - 2]
                   IN  \/ "alloc" \in Faults /\ fail(k, undone, entry)
                       \/ \E a \in AddLink(d, n, i) :
                           \/ ~a.ok /\ fail(k, undone, a.entry)
                           \/ /\ a.ok
                              /\ Settle(k, nl, a.entry, [dotdot EXCEPT ![i] = d],
                                        [dc EXCEPT ![d][n] = i])
                              /\ Result(TRUE)

-----------------------------------------------------------------------------
\* How kr_unlink may end: the name is not found, is removed, or is removed from the
\* page and reported as an error.
Removals(d, n) ==
    LET end(ok, e) == [ok |-> ok, entry |-> e]
        gone == [entry EXCEPT ![d][n] = NoInode]
    IN  IF entry[d][n] = NoInode THEN {end(FALSE, entry)}
        ELSE {end(TRUE, gone)}
             \cup (IF "alloc" \in Faults THEN {end(FALSE, entry)} ELSE {})
             \cup (IF "sync" \in Faults THEN {end(FALSE, gone)} ELSE {})

\* kr_unlink of a file; the VFS then makes the dentry negative.
Unlink ==
    \E d \in Dirs, n \in Names :
        LET i == dc[d][n]
        IN  /\ Positive(d, n) /\ ~IsDir(i)
            /\ UNCHANGED <<opened, tmp>>
            /\ \E r \in Removals(d, n) :
                /\ Settle(kind, IF r.ok THEN [nlink EXCEPT ![i] = @ - 1] ELSE nlink,
                          r.entry, dotdot,
                          IF r.ok THEN [dc EXCEPT ![d][n] = NoInode] ELSE dc)
                /\ Result(r.ok)

\* kr_rmdir: an empty directory loses its name, "." and ".." in it.
Rmdir ==
    \E d \in Dirs, n \in Names :
        LET i == dc[d][n]
        IN  /\ Positive(d, n) /\ IsDir(i)
            /\ \/ ~kr_empty_dir(i) /\ Refused
               \/ /\ kr_empty_dir(i)
                  /\ UNCHANGED <<opened, tmp>>
                  /\ \E r \in Removals(d, n) :
                      /\ Settle(IF r.ok THEN [kind EXCEPT ![i] = "dead"] ELSE kind,
                                IF r.ok THEN [nlink EXCEPT ![i] = @ - 2, ![d] = @ - 1]
                                ELSE nlink,
                                r.entry, dotdot,
                                IF r.ok THEN [dc EXCEPT ![d][n] = NoInode] ELSE dc)
                      /\ Result(r.ok)

\* Mutant: ".." is left as it was.
RenameEndKeepsDotdot(i, od, on, nd, nn, k, nl, e) ==
    /\ opened' = opened
    /\ Settle(k, IF IsDir(i) THEN [nl EXCEPT ![od] = @ - 1] ELSE nl,
              [e EXCEPT ![od][on] = NoInode], dotdot,
              [dc EXCEPT ![od][on] = Unknown, ![nd][nn] = i])
    /\ Result(TRUE)

\* The end of kr_rename, from the new name on: the old one goes, whatever
\* kr_delete_entry returns, and ".." and the link it stands for move.  The VFS moves
\* the dentry.
RenameEnd(i, od, on, nd, nn, k, nl, e) ==
    /\ opened' = opened
    /\ Settle(k, IF IsDir(i) THEN [nl EXCEPT ![od] = @ - 1] ELSE nl,
              [e EXCEPT ![od][on] = NoInode],
              IF IsDir(i) /\ od # nd THEN [dotdot EXCEPT ![i] = nd] ELSE dotdot,
              [dc EXCEPT ![od][on] = Unknown, ![nd][nn] = i])
    /\ Result(TRUE)

\* Mutant: a directory that is replaced loses one link.
RenameOverDropsOne(i, od, on, nd, nn) ==
    LET t == dc[nd][nn]
        k == IF IsDir(i) THEN [kind EXCEPT ![t] = "dead"] ELSE kind
    IN  /\ entry[nd][nn] # NoInode
        /\ IsDir(i) => kr_empty_dir(t)
        /\ RenameEnd(i, od, on, nd, nn, k, [nlink EXCEPT ![t] = @ - 1],
                     [entry EXCEPT ![nd][nn] = i])

\* Mutant: the old name of the target is removed first, and the new one then refused.
RenameOverUnlinksFirst(i, od, on, nd, nn) ==
    LET t == dc[nd][nn]
    IN  /\ ~IsDir(t) /\ entry[nd][nn] # NoInode
        /\ opened' = opened
        /\ Settle(kind, [nlink EXCEPT ![t] = @ - 1], [entry EXCEPT ![nd][nn] = NoInode],
                  dotdot, [dc EXCEPT ![nd][nn] = NoInode])
        /\ Result(FALSE)

\* kr_rename to a name that exists: its entry is pointed to the inode, and the inode
\* it had loses the link, a directory both.
RenameOver(i, od, on, nd, nn) ==
    LET t == dc[nd][nn]
        k == IF IsDir(i) THEN [kind EXCEPT ![t] = "dead"] ELSE kind
        nl == IF IsDir(i) THEN [nlink EXCEPT ![t] = @ - 1] ELSE nlink
    IN  \/ /\ (IsDir(i) /\ ~kr_empty_dir(t)) \/ entry[nd][nn] = NoInode
           /\ Refused
        \/ /\ IsDir(i) => kr_empty_dir(t)
           /\ entry[nd][nn] # NoInode
           /\ RenameEnd(i, od, on, nd, nn, k, [nl EXCEPT ![t] = @ - 1],
                        [entry EXCEPT ![nd][nn] = i])

\* kr_rename to a new name.
RenameTo(i, od, on, nd, nn) ==
    \E a \in AddLink(nd, nn, i) :
        \/ /\ ~a.ok
           /\ opened' = opened
           /\ Settle(kind, nlink, a.entry, dotdot, dc)
           /\ Result(FALSE)
        \/ /\ a.ok
           /\ RenameEnd(i, od, on, nd, nn, kind,
                        IF IsDir(i) THEN [nlink EXCEPT ![nd] = @ + 1] ELSE nlink, a.entry)

\* kr_rename, after what the VFS checks: not onto another name of the inode, not into
\* the directory itself, a directory only onto a directory, and the links of the new
\* parent.
Rename ==
    \E od, nd \in Dirs, on, nn \in Names :
        LET i == dc[od][on]
            t == dc[nd][nn]
        IN  /\ Positive(od, on)
            /\ t # Unknown /\ t # i
            /\ IsDir(i) => i \notin Above(nd)
            /\ t # NoInode =>
                /\ IsDir(t) <=> IsDir(i)
                /\ IsDir(t) => t \notin Above(od)
            /\ IsDir(i) /\ od # nd /\ t = NoInode => nlink[nd] < MaxLinks
            /\ tmp' = tmp
            /\ \/ /\ entry[od][on] = NoInode \/ "alloc" \in Faults
                  /\ Refused
               \/ /\ entry[od][on] # NoInode
                  /\ \/ t # NoInode /\ RenameOver(i, od, on, nd, nn)
                     \/ t = NoInode /\ RenameTo(i, od, on, nd, nn)

Next ==
    \/ Lookup \/ DropDentry \/ Open \/ Close
    \/ Create \/ Mknod \/ Symlink \/ Tmpfile \/ Link \/ Mkdir
    \/ Unlink \/ Rmdir \/ Rename

Spec == Init /\ [][Next]_vars

-----------------------------------------------------------------------------
\* Link counts stay between 0 and what the VFS allows.
TypeOK ==
    /\ kind \in [Inos -> {"free", "file", "dir", "dead"}]
    /\ nlink \in [Inos -> 0 .. MaxLinks]
    /\ entry \in [Inos -> [Names -> Inos \cup {NoInode}]]
    /\ dotdot \in [Inos -> Inos \cup {NoInode}]
    /\ opened \subseteq Inos /\ tmp \subseteq opened
    /\ dc \in [Inos -> [Names -> Inos \cup {NoInode, Unknown}]]

\* Pages are written when they must be.
PagesWork == Faults \subseteq {"alloc"}

NamesOf(i) == {p \in Inos \X Names : entry[p[1]][p[2]] = i}
Subdirs(d) == {n \in Names : entry[d][n] \in Inos /\ IsDir(entry[d][n])}

\* Every name, and every "..", is of an inode that is there: kr_lookup never meets a
\* "deleted inode".
NoNameDangles ==
    /\ \A d \in Inos, n \in Names : entry[d][n] # NoInode => kind[entry[d][n]] # "free"
    /\ \A d \in Dirs : kind[dotdot[d]] # "free"

\* i_nlink is the number of an inode's names; a directory has its name, "." and the
\* ".." of each of its subdirectories.
LinkCounts ==
    \A i \in Inos :
        /\ kind[i] = "file" => nlink[i] = Cardinality(NamesOf(i))
        /\ kind[i] = "dir" => nlink[i] = 2 + Cardinality(Subdirs(i))
        /\ kind[i] = "dead" => nlink[i] = 0

\* i_nlink counts the links, and stays between 0 and what the VFS allows.
LinksCounted == TypeOK /\ LinkCounts

\* kr_get_parent
kr_get_parent(d) == dotdot[d]

\* The directories are a tree: each has one name, is below the root, and its ".." is
\* the directory that has the name.  A directory that was removed has no names in it.
TreeShape ==
    /\ NamesOf(Root) = {}
    /\ \A d \in Dirs \ {Root} :
        /\ \E p \in Dirs, n \in Names : NamesOf(d) = {<<p, n>>} /\ kr_get_parent(d) = p
        /\ Root \in Above(d)
    /\ \A d \in Inos \ Dirs : entry[d] = NoNames /\ (kind[d] = "dead" => NamesOf(d) = {})

\* A dentry says what the directory says.
DcacheAgrees ==
    \A d \in Dirs, n \in Names : dc[d][n] # Unknown => dc[d][n] = entry[d][n]

\* The directories are a tree, and what the VFS believes of them is so.
TreeAndDentries == TreeShape /\ DcacheAgrees

Undone == ret' = "error" => UNCHANGED <<kind, nlink, entry, dotdot, dc>>

\* An operation that fails leaves names, links and inodes as they were.
FailuresUndo == [][Undone]_vars
=============================================================================
