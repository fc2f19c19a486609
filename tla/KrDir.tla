--------------------------------- MODULE KrDir ---------------------------------
(***************************************************************************)
(* One directory of the kr filesystem as records in pages                  *)
(* (Exercises/Exercise19/dir.c).  A record has a length, a name and an     *)
(* inode, 0 when it is unused; the records of a chunk tile it.  mem holds  *)
(* what the bytes at each offset say when they are read as a record: when  *)
(* a record is merged into the one before it, its bytes stay behind.       *)
(*                                                                         *)
(* Those who change a directory hold its inode's lock, and kr_readdir and  *)
(* kr_find_entry hold it shared: an operation is one action, and a scan of *)
(* the directory is a sequence of calls of kr_readdir with changes between *)
(* them.  The version numbers i_version and f_version are only compared:   *)
(* moved[r] says that they differ.                                         *)
(***************************************************************************)
EXTENDS Integers, FiniteSets, FiniteSetsExt

CONSTANTS
    Names,          \* the names that are created, "." and ".." excepted
    RecLen,         \* KR_DIR_REC_LEN of each name, the two included
    MinRec,         \* KR_DIR_REC_LEN(1)
    Inos,           \* the inodes that names are given to
    Chunk,          \* kr_chunk_size
    ChunksPerPage,
    MaxChunks,      \* bound: the size of the directory, in chunks
    Readers,        \* open files that read the directory
    Batch,          \* bound: the entries that fit a caller's buffer
    IOErrors        \* may reading a page fail?

PageSize == Chunk * ChunksPerPage
Bytes == 0 .. MaxChunks * Chunk - 1
Self == 1       \* the inode of the directory
Parent == 2     \* and of its parent

ASSUME DirAssumption ==
    /\ Names \cap {".", ".."} = {}
    /\ RecLen \in [Names \cup {".", ".."} -> Nat]
    /\ MinRec \in Nat \ {0} /\ \A n \in DOMAIN RecLen : RecLen[n] >= MinRec
    /\ RecLen["."] = MinRec /\ RecLen[".."] = MinRec
    /\ \A n \in Names : RecLen[n] <= Chunk
    /\ Chunk \in Nat /\ Chunk >= 2 * MinRec
    /\ Inos \subseteq Nat \ {0, Self, Parent}
    /\ ChunksPerPage \in Nat \ {0} /\ MaxChunks \in Nat \ {0} /\ Batch \in Nat
    /\ IOErrors \in BOOLEAN

VARIABLES
    mem,      \* the record that the bytes at each offset make
    i_size,
    start,    \* i_dir_start_lookup
    pos,      \* ctx->pos of each reader
    moved,    \* is f_version different from i_version?
    due,      \* names there since the scan began and not yet returned
    got,      \* names returned by the scan and there ever since
    twice     \* a reader was given a name it had

scan == <<pos, moved, due, got, twice>>
vars == <<mem, i_size, start, scan>>

Rec(len, name, ino) == [len |-> len, name |-> name, ino |-> ino]
Blank == Rec(0, ".", 0)

-----------------------------------------------------------------------------
\* kr_next_entry, time and again, from the offset from up to the end of its page
\* or of size.
WalkFrom(m, from, size) ==
    LET end == Min({size, ((from \div PageSize) + 1) * PageSize})
        w[k \in 0 .. (end - from) \div MinRec] ==
            IF k = 0 THEN from
            ELSE LET o == w[k - 1] IN IF o >= end THEN o ELSE o + m[o].len
    IN  {o \in {w[k] : k \in 0 .. (end - from) \div MinRec} : o < end}

NPages(size) == (size + PageSize - 1) \div PageSize    \* dir_pages
Pages == 0 .. NPages(i_size) - 1

\* The records of a page, and of all pages.
RecordsIn(page) == WalkFrom(mem, page * PageSize, i_size)
Records == UNION {RecordsIn(p) : p \in Pages}

BadPages == IF IOErrors THEN SUBSET Pages ELSE {{}}

\* kr_check_page: what is tested when a page comes into memory.
kr_check_page(page) ==
    LET first == page * PageSize
        limit == Min({i_size, first + PageSize})
        recs == RecordsIn(page)
    IN  /\ limit % Chunk = 0
        /\ \A o \in recs :
            /\ mem[o].len >= MinRec
            /\ mem[o].len >= RecLen[mem[o].name]
            /\ (o + mem[o].len - 1) \div Chunk = o \div Chunk
        /\ \E o \in recs : o + mem[o].len = limit

\* kr_match
kr_match(o, name) == mem[o].ino # 0 /\ mem[o].name = name

Matches(name) == {o \in Records : kr_match(o, name)}

\* The pages in the order kr_find_entry visits them.
Distance(page) ==
    LET from == IF start >= NPages(i_size) THEN 0 ELSE start
    IN  (page - from) % NPages(i_size)

\* Mutant: the search stops at the first page that cannot be read or has no match.
FindOnePage(name, bad) ==
    {o \in Matches(name) : Distance(o \div PageSize) = 0}

\* kr_find_entry: the record of a name, if a page that can be read has it.  Its search also
\* ends at a page past i_blocks, which is not met: all pages of a directory have their blocks.
kr_find_entry(name, bad) ==
    LET found == {o \in Matches(name) : o \div PageSize \notin bad}
        near == {o \in found : \A x \in found :
                    Distance(o \div PageSize) <= Distance(x \div PageSize)}
    IN  {o \in near : \A x \in near : o <= x}

\* kr_empty_dir: no name but "." and "..", in the pages that can be read.
kr_empty_dir(bad) ==
    \A o \in Records :
        \/ o \div PageSize \in bad
        \/ mem[o].ino = 0
        \/ mem[o].name = "." /\ mem[o].ino = Self
        \/ mem[o].name = ".."

\* kr_make_empty: "." and "..", the latter up to the end of the chunk.
Init ==
    /\ mem = [o \in Bytes |->
                IF o = 0 THEN Rec(MinRec, ".", Self)
                ELSE IF o = MinRec THEN Rec(Chunk - MinRec, "..", Parent)
                ELSE Blank]
    /\ i_size = Chunk
    /\ start = 0
    /\ pos = [r \in Readers |-> 0]
    /\ moved = [r \in Readers |-> TRUE]
    /\ due = [r \in Readers |-> {}]
    /\ got = [r \in Readers |-> {}]
    /\ twice = [r \in Readers |-> FALSE]

\* kr_commit_chunk: the new contents, the version and the size.
Commit(m, size) ==
    /\ mem' = m
    /\ i_size' = size
    /\ moved' = [r \in Readers |-> TRUE]

\* The name and inode written at an offset cover what was there.
Write(m, o, rec) ==
    [x \in Bytes |->
        IF x = o THEN rec
        ELSE IF x \in o + 1 .. o + RecLen[rec.name] - 1 THEN Blank
        ELSE m[x]]

-----------------------------------------------------------------------------
\* Where kr_add_link stops: at a record of the same name, at one with room, or at
\* i_size.  Only offsets at which the name would fit the page are looked at.
Stops(name) ==
    LET fits(o) == (o % PageSize) <= PageSize - RecLen[name]
        room(o) == \/ mem[o].ino = 0 /\ mem[o].len >= RecLen[name]
                   \/ mem[o].len >= RecLen[mem[o].name] + RecLen[name]
    IN  {o \in Records : fits(o) /\ (kr_match(o, name) \/ room(o))}
        \cup {o \in {i_size} : fits(o)}

\* Mutant: the record made from the tail of another has the other's length.
PlaceTooLong(o, name, ino) ==
    IF o = i_size THEN Write(mem, o, Rec(Chunk, name, ino))
    ELSE IF mem[o].ino = 0 THEN Write(mem, o, Rec(mem[o].len, name, ino))
    ELSE LET used == RecLen[mem[o].name]
         IN  Write([mem EXCEPT ![o].len = used], o + used, Rec(mem[o].len, name, ino))

\* got_it: a new chunk, an unused record, or the tail of one in use.
Place(o, name, ino) ==
    IF o = i_size THEN Write(mem, o, Rec(Chunk, name, ino))
    ELSE IF mem[o].ino = 0 THEN Write(mem, o, Rec(mem[o].len, name, ino))
    ELSE LET used == RecLen[mem[o].name]
         IN  Write([mem EXCEPT ![o].len = used],
                   o + used, Rec(mem[o].len - used, name, ino))

\* The VFS looks a name up before it creates it; then kr_add_link.  A page that
\* cannot be read ends the latter, and a chunk that cannot be had.
AddLink ==
    \E name \in Names, ino \in Inos, bad \in BadPages, bad2 \in BadPages :
        LET o == Min(Stops(name))
        IN  /\ kr_find_entry(name, bad) = {}
            /\ \A p \in bad2 : p > o \div PageSize
            /\ o \in Records => ~kr_match(o, name)
            /\ o = i_size => i_size < MaxChunks * Chunk
            /\ Commit(Place(o, name, ino), IF o = i_size THEN i_size + Chunk ELSE i_size)
            /\ UNCHANGED <<start, pos, due, got, twice>>

\* What a removal does to the names a reader has been or is to be given.
Forget(name) ==
    /\ due' = [r \in Readers |-> due[r] \ {name}]
    /\ got' = [r \in Readers |-> got[r] \ {name}]

\* Mutant: the record that follows goes as well.
MergedWithNext(o) ==
    LET next == {x \in Records : x > o /\ x \div Chunk = o \div Chunk}
        end == IF next = {} THEN o + mem[o].len ELSE Min(next) + mem[Min(next)].len
    IN  [mem EXCEPT ![o].len = end - o, ![o].ino = 0]

\* kr_delete_entry: the record goes to the one before it in its chunk.
Merged(o) ==
    LET before == {x \in Records : x < o /\ x \div Chunk = o \div Chunk}
    IN  IF before = {} THEN [mem EXCEPT ![o].ino = 0]
        ELSE [mem EXCEPT ![Max(before)].len = o + mem[o].len - Max(before), ![o].ino = 0]

DeleteEntry ==
    \E name \in Names, bad \in BadPages : \E o \in kr_find_entry(name, bad) :
        /\ Commit(Merged(o), i_size)
        /\ start' = o \div PageSize
        /\ Forget(name)
        /\ UNCHANGED <<pos, twice>>

\* kr_set_link: a name that a rename gives to another inode.
SetLink ==
    \E name \in Names, ino \in Inos, bad \in BadPages : \E o \in kr_find_entry(name, bad) :
        /\ Commit([mem EXCEPT ![o].ino = ino], i_size)
        /\ start' = o \div PageSize
        /\ UNCHANGED <<pos, due, got, twice>>

-----------------------------------------------------------------------------
Bound == {n \in Names : Matches(n) # {}}

\* Mutant: the scan goes on after the first record past the position.
ValidateTooFar(r) ==
    IF moved[r] /\ pos[r] % PageSize # 0
    THEN LET chunk == (pos[r] \div Chunk) * Chunk
             end == Min({i_size, (pos[r] \div PageSize + 1) * PageSize})
         IN  Min({o \in WalkFrom(mem, chunk, i_size) : o > pos[r]} \cup {end})
    ELSE pos[r]

\* kr_validate_entry: after a change the first record at or after the position,
\* found from the start of its chunk.
kr_validate_entry(r) ==
    IF moved[r] /\ pos[r] % PageSize # 0
    THEN LET chunk == (pos[r] \div Chunk) * Chunk
             end == Min({i_size, (pos[r] \div PageSize + 1) * PageSize})
         IN  Min({o \in WalkFrom(mem, chunk, i_size) : o >= pos[r]} \cup {end})
    ELSE pos[r]

\* The records from an offset on, to the end of the directory.
From(o) ==
    WalkFrom(mem, o, i_size)
    \cup UNION {RecordsIn(p) : p \in {q \in Pages : q > o \div PageSize}}

\* A call of kr_readdir whose buffer takes n entries.
Readdir(r) ==
    /\ pos[r] <= i_size - MinRec
    /\ \E n \in 1 .. Batch, bad \in BadPages :
        LET o == kr_validate_entry(r)
            stop == {p * PageSize : p \in {q \in bad : q >= pos[r] \div PageSize}}
            used == {x \in From(o) : mem[x].ino # 0 /\ \A s \in stop : x < s}
            rank(x) == Cardinality({y \in used : y <= x})
            given == {mem[x].name : x \in {y \in used : rank(y) <= n}} \cap Names
            rest == {x \in used : rank(x) > n}
        IN  /\ \/ /\ rest # {}
                  /\ pos' = [pos EXCEPT ![r] = Min(rest)]
               \/ /\ rest = {} /\ stop = {}
                  /\ pos' = [pos EXCEPT ![r] = i_size]
               \/ /\ rest = {} /\ stop # {}
                  /\ pos' = [pos EXCEPT ![r] = (Min(stop) \div PageSize + 1) * PageSize]
            /\ due' = [due EXCEPT ![r] = IF rest = {} /\ stop # {} THEN {} ELSE @ \ given]
            /\ twice' = [twice EXCEPT ![r] = @ \/ got[r] \cap given # {}]
            /\ got' = [got EXCEPT ![r] = @ \cup given]
            /\ moved' = [moved EXCEPT ![r] = @ /\ pos[r] \div PageSize \in bad]
    /\ UNCHANGED <<mem, i_size, start>>

\* The file is opened, or rewound: llseek clears f_version.
Rewind(r) ==
    /\ pos' = [pos EXCEPT ![r] = 0]
    /\ moved' = [moved EXCEPT ![r] = TRUE]
    /\ due' = [due EXCEPT ![r] = Bound]
    /\ got' = [got EXCEPT ![r] = {}]
    /\ UNCHANGED <<mem, i_size, start, twice>>

Next == AddLink \/ DeleteEntry \/ SetLink \/ \E r \in Readers : Readdir(r) \/ Rewind(r)

Spec == Init /\ [][Next]_vars

-----------------------------------------------------------------------------
\* Offsets, lengths and positions are in range.
TypeOK ==
    /\ mem \in [Bytes -> [len : 0 .. Chunk, name : DOMAIN RecLen, ino : Inos \cup {0, Self, Parent}]]
    /\ i_size \in {k * Chunk : k \in 1 .. MaxChunks}
    /\ start \in 0 .. MaxChunks
    /\ \A r \in Readers : pos[r] \in 0 .. MaxChunks * Chunk + PageSize

\* Whatever is added, split, merged and reused, a page that is dropped from memory
\* and read again passes kr_check_page.
PagesPassCheck == \A p \in Pages : kr_check_page(p)

\* kr_add_link finds room or the end of the directory: its BUG() is not reached.
AddLinkFinds == \A n \in Names : Stops(n) # {}

\* No name is in the directory twice, though kr_add_link does not search all of it.
NamesUnique == \A n \in Names : Cardinality(Matches(n)) <= 1

\* rmdir takes a directory for empty exactly when it has no names.
EmptyDirIsRight == \A bad \in BadPages : kr_empty_dir(bad) <=> Bound = {}

\* A directory read again from the device passes kr_check_page, and kr_add_link finds
\* room in it or its end; as long as pages can be read, no name is in it twice, and rmdir
\* takes it for empty exactly when it has no names.
DirectoryIsSound ==
    /\ TypeOK /\ PagesPassCheck /\ AddLinkFinds
    /\ ~IOErrors => NamesUnique /\ EmptyDirIsRight

\* A scan gives every name that is there from its beginning to its end, and gives
\* none twice, however the directory changes between the calls.
ScanComplete ==
    \A r \in Readers : pos[r] > i_size - MinRec => due[r] = {}
ScanOnce == \A r \in Readers : ~twice[r]

\* A scan that ends and was told of no error has given every name that was there from its
\* beginning on, and, when every page can be read, none twice.
ScansAreRight == ScanComplete /\ (~IOErrors => ScanOnce)

-----------------------------------------------------------------------------
\* The directory as a map from names to inodes.
InoOf == LET recs == Records
         IN  [n \in Names |-> LET found == {o \in recs : kr_match(o, n)}
                              IN  IF found = {} THEN 0 ELSE mem[Min(found)].ino]

Dir == INSTANCE KrNames WITH names <- InoOf, NoInode <- 0

\* The records implement the map: see KrNames.
ImplementsNames == Dir!Spec
=============================================================================
