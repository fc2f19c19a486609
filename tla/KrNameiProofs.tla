----------------------------- MODULE KrNameiProofs -----------------------------
(***************************************************************************)
(* Proofs about the names of KrNamei, for any number of inodes and names.  *)
(* The operations are taken apart into changes of one name: the lemmas up  *)
(* to ReplaceDirectory say of each that it keeps Sound, and a rename is    *)
(* two or three of them.  Settle then evicts only what has no name         *)
(* (SettleSound), or exactly what a failed operation had made (SettleSame).*)
(***************************************************************************)
EXTENDS KrNamei, FiniteSetTheorems, TLAPS

Kinds == {"free", "file", "dir", "dead"}

\* One name of directory d set to x.
Put(e, d, n, x) == [e EXCEPT ![d][n] = x]

NamesIn(e, i) == {p \in Inos \X Names : e[p[1]][p[2]] = i}
SubdirsIn(k, e, d) == {n \in Names : e[d][n] \in Inos /\ k[e[d][n]] = "dir"}

-----------------------------------------------------------------------------
Typed(k, nl, e, dd, c) ==
    /\ k \in [Inos -> Kinds]
    /\ nl \in [Inos -> Nat]
    /\ e \in [Inos -> [Names -> Inos \cup {NoInode}]]
    /\ dd \in [Inos -> Inos \cup {NoInode}]
    /\ c \in [Inos -> [Names -> Inos \cup {NoInode, Unknown}]]

\* Only directories have names in them, of files and directories.
Alive(k, e) ==
    \A d \in Inos, n \in Names :
        e[d][n] # NoInode => k[d] = "dir" /\ k[e[d][n]] \in {"file", "dir"}

Counted(k, nl, e) ==
    \A i \in Inos :
        /\ k[i] = "file" => nl[i] = Cardinality(NamesIn(e, i))
        /\ k[i] = "dir" => nl[i] = 2 + Cardinality(SubdirsIn(k, e, i))
        /\ k[i] \in {"dead", "free"} => nl[i] = 0

\* Every directory but the root has one name, in the directory ".." is.
OneName(k, e, dd) ==
    /\ k[Root] = "dir" /\ dd[Root] = Root
    /\ \A p \in Inos, n \in Names : e[p][n] # Root
    /\ \A d \in Inos : k[d] = "dir" /\ d # Root =>
        /\ dd[d] \in Inos
        /\ \E n \in Names :
            /\ e[dd[d]][n] = d
            /\ \A p \in Inos, m \in Names : e[p][m] = d => p = dd[d] /\ m = n

\* S has, with a directory, the one it is in.
Upward(k, e, S) ==
    /\ S \in SUBSET Inos
    /\ \A x \in S : k[x] = "dir"
    /\ \A p \in Inos, n \in Names : k[p] = "dir" /\ e[p][n] \in S => p \in S

\* Whatever goes up arrives at the root.
Rooted(k, e) == \A S \in SUBSET Inos : Upward(k, e, S) /\ S # {} => Root \in S

Cached(k, e, c) ==
    \A d \in Inos, n \in Names : k[d] = "dir" /\ c[d][n] # Unknown => c[d][n] = e[d][n]

Sound(k, nl, e, dd, c) ==
    /\ Typed(k, nl, e, dd, c)
    /\ Alive(k, e)
    /\ Counted(k, nl, e)
    /\ OneName(k, e, dd)
    /\ Rooted(k, e)
    /\ Cached(k, e, c)

\* What has neither a link nor an opener is gone, and what is gone has neither; only
\* directories have dentries in them.
Kept(k, nl, dd, c, op) ==
    /\ op \subseteq Inos
    /\ \A i \in Inos : k[i] # "dir" => \A n \in Names : c[i][n] = Unknown
    /\ \A i \in Inos : k[i] # "free" /\ nl[i] = 0 => i \in op
    /\ \A i \in Inos : k[i] = "free" => i \notin op /\ dd[i] = NoInode

NameiInv ==
    /\ Sound(kind, nlink, entry, dotdot, dc)
    /\ Kept(kind, nlink, dotdot, dc, opened)
    /\ \A i \in Inos : nlink[i] <= MaxLinks
    /\ tmp \subseteq opened

-----------------------------------------------------------------------------
\* The numbers of inodes are neither of the two others.
LEMMA Numbers == ConstantsOK => NoInode \notin Inos /\ Unknown \notin Inos /\ NoInode # Unknown
PROOF
  BY DEF ConstantsOK, NoInode, Unknown

\* The names there are of an inode, and in a directory, can be counted.
LEMMA Countable ==
    ASSUME ConstantsOK, NEW e, NEW k, NEW i
    PROVE  /\ IsFiniteSet(NamesIn(e, i)) /\ IsFiniteSet(SubdirsIn(k, e, i))
           /\ Cardinality(NamesIn(e, i)) \in Nat /\ Cardinality(SubdirsIn(k, e, i)) \in Nat
PROOF
  <1>1. IsFiniteSet(Inos \X Names)
    BY FS_Product DEF ConstantsOK
  <1>2. IsFiniteSet(NamesIn(e, i))
    BY <1>1, FS_Subset DEF NamesIn
  <1>3. IsFiniteSet(SubdirsIn(k, e, i))
    BY FS_Subset DEF SubdirsIn, ConstantsOK
  <1> QED
    BY <1>2, <1>3, FS_CardinalityType

\* What setting one name, y before, to x does to the names of each inode.
NamesChange(e, f, d, n, x, y) ==
    /\ f \in [Inos -> [Names -> Inos \cup {NoInode}]]
    /\ \A p \in Inos, m \in Names : f[p][m] = IF p = d /\ m = n THEN x ELSE e[p][m]
    /\ Cardinality(NamesIn(f, x)) = Cardinality(NamesIn(e, x)) + 1
    /\ Cardinality(NamesIn(f, y)) = Cardinality(NamesIn(e, y)) - 1
    /\ \A j : j # x /\ j # y => Cardinality(NamesIn(f, j)) = Cardinality(NamesIn(e, j))

LEMMA PutNames ==
    ASSUME ConstantsOK, NEW e \in [Inos -> [Names -> Inos \cup {NoInode}]],
           NEW d \in Inos, NEW n \in Names, NEW x \in Inos \cup {NoInode}, e[d][n] # x
    PROVE  NamesChange(e, Put(e, d, n, x), d, n, x, e[d][n])
PROOF
  <1> DEFINE f == Put(e, d, n, x)
             y == e[d][n]
  <1>1. f \in [Inos -> [Names -> Inos \cup {NoInode}]]
    BY DEF Put
  <1>2. \A p \in Inos, m \in Names : f[p][m] = IF p = d /\ m = n THEN x ELSE e[p][m]
    BY DEF Put
  <1>3. NamesIn(f, x) = NamesIn(e, x) \cup {<<d, n>>} /\ <<d, n>> \notin NamesIn(e, x)
    BY <1>2 DEF NamesIn
  <1>4. NamesIn(f, y) = NamesIn(e, y) \ {<<d, n>>} /\ <<d, n>> \in NamesIn(e, y)
    BY <1>2 DEF NamesIn
  <1>5. \A j : j # x /\ j # y => NamesIn(f, j) = NamesIn(e, j)
    BY <1>2 DEF NamesIn
  <1> HIDE DEF f, y
  <1>6. Cardinality(NamesIn(f, x)) = Cardinality(NamesIn(e, x)) + 1
    BY <1>3, Countable, FS_AddElement
  <1>7. Cardinality(NamesIn(f, y)) = Cardinality(NamesIn(e, y)) - 1
    <2>1. IsFiniteSet(NamesIn(e, y))
      BY Countable
    <2>2. Cardinality(NamesIn(e, y) \ {<<d, n>>}) = Cardinality(NamesIn(e, y)) - 1
      BY <2>1, <1>4, FS_RemoveElement
    <2> QED
      BY <2>2, <1>4
  <1> QED
    BY <1>1, <1>2, <1>5, <1>6, <1>7 DEF f, y, NamesChange

\* And to the number of subdirectories of each directory.
SubdirsChange(k, e, f, d, n, x) ==
    /\ \A j \in Inos : j # d => SubdirsIn(k, f, j) = SubdirsIn(k, e, j)
    /\ Cardinality(SubdirsIn(k, f, d))
         = Cardinality(SubdirsIn(k, e, d))
           - (IF n \in SubdirsIn(k, e, d) THEN 1 ELSE 0)
           + (IF x \in Inos /\ k[x] = "dir" THEN 1 ELSE 0)

LEMMA PutSubdirs ==
    ASSUME ConstantsOK, NEW k, NEW e \in [Inos -> [Names -> Inos \cup {NoInode}]],
           NEW d \in Inos, NEW n \in Names, NEW x \in Inos \cup {NoInode}
    PROVE  SubdirsChange(k, e, Put(e, d, n, x), d, n, x)
PROOF
  <1> DEFINE f == Put(e, d, n, x)
             old == SubdirsIn(k, e, d)
             less == old \ {n}
  <1>1. \A p \in Inos, m \in Names : f[p][m] = IF p = d /\ m = n THEN x ELSE e[p][m]
    BY DEF Put
  <1>2. \A j \in Inos : j # d => SubdirsIn(k, f, j) = SubdirsIn(k, e, j)
    BY <1>1 DEF SubdirsIn
  <1>3. SubdirsIn(k, f, d) = IF x \in Inos /\ k[x] = "dir" THEN less \cup {n} ELSE less
    <2>1. \A m \in Names \ {n} : m \in SubdirsIn(k, f, d) <=> m \in old
      BY <1>1 DEF SubdirsIn
    <2>2. n \in SubdirsIn(k, f, d) <=> x \in Inos /\ k[x] = "dir"
      BY <1>1 DEF SubdirsIn
    <2>3. SubdirsIn(k, f, d) \subseteq Names /\ old \subseteq Names
      BY DEF SubdirsIn
    <2> QED
      BY <2>1, <2>2, <2>3
  <1>4. IsFiniteSet(old) /\ IsFiniteSet(less) /\ Cardinality(old) \in Nat
    BY Countable, FS_Subset DEF old, less
  <1> HIDE DEF f, old
  <1>5. Cardinality(less) = Cardinality(old) - (IF n \in old THEN 1 ELSE 0)
    <2>1. CASE n \in old
      BY <1>4, <2>1, FS_RemoveElement
    <2>2. CASE n \notin old
      <3>1. less = old
        BY <2>2
      <3>2. Cardinality(less) = Cardinality(old)
        BY <3>1
      <3> HIDE DEF less
      <3> QED
        BY <3>2, <2>2, <1>4
    <2> QED
      BY <2>1, <2>2
  <1>6. Cardinality(less \cup {n}) = Cardinality(less) + 1
    BY <1>4, FS_AddElement
  <1>7. Cardinality(less) \in Nat
    BY <1>4, FS_CardinalityType
  <1>8. Cardinality(SubdirsIn(k, f, d))
          = Cardinality(less) + (IF x \in Inos /\ k[x] = "dir" THEN 1 ELSE 0)
    BY <1>3, <1>6, <1>7
  <1> HIDE DEF less
  <1>9. Cardinality(SubdirsIn(k, f, d))
          = Cardinality(old) - (IF n \in old THEN 1 ELSE 0)
              + (IF x \in Inos /\ k[x] = "dir" THEN 1 ELSE 0)
    BY <1>4, <1>5, <1>7, <1>8
  <1> QED
    BY <1>2, <1>9 DEF f, old, SubdirsChange

\* The subdirectories do not depend on inodes that have no name there.
LEMMA SameSubdirs ==
    ASSUME NEW k, NEW k2, NEW e, NEW d \in Inos,
           \A n \in Names : e[d][n] \in Inos => (k2[e[d][n]] = "dir" <=> k[e[d][n]] = "dir")
    PROVE  SubdirsIn(k2, e, d) = SubdirsIn(k, e, d)
PROOF
  BY DEF SubdirsIn

-----------------------------------------------------------------------------
\* An inode that is free has no name.
LEMMA FreeHasNoName ==
    ASSUME ConstantsOK, NEW k, NEW nl, NEW e, NEW dd, NEW c, Sound(k, nl, e, dd, c),
           NEW i \in Inos, k[i] \in {"free", "dead"}
    PROVE  /\ \A d \in Inos, n \in Names : e[d][n] # i
           /\ \A n \in Names : e[i][n] = NoInode
           /\ NamesIn(e, i) = {}
           /\ i # Root
           /\ nl[i] = 0
PROOF
  <1>1. \A d \in Inos, n \in Names : e[d][n] # i
    BY Numbers DEF Sound, Alive
  <1>2. \A n \in Names : e[i][n] = NoInode
    BY DEF Sound, Alive
  <1>3. i # Root
    BY DEF Sound, OneName
  <1>4. nl[i] = 0
    BY DEF Sound, Counted
  <1> QED
    BY <1>1, <1>2, <1>3, <1>4 DEF NamesIn

\* A free inode becomes a file without a name.
LEMMA FreshFile ==
    ASSUME ConstantsOK, NEW k, NEW nl, NEW e, NEW dd, NEW c, Sound(k, nl, e, dd, c),
           NEW i \in Inos, k[i] = "free"
    PROVE  Sound([k EXCEPT ![i] = "file"], nl, e, dd, c)
PROOF
  <1> DEFINE k2 == [k EXCEPT ![i] = "file"]
  <1>1. k \in [Inos -> Kinds] /\ k2 \in [Inos -> Kinds]
    BY DEF Sound, Typed, Kinds
  <1>2. k2[i] = "file" /\ \A j \in Inos : j # i => k2[j] = k[j]
    BY <1>1
  <1> HIDE DEF k2
  <1>3. \A j \in Inos : k2[j] = "dir" <=> k[j] = "dir"
    BY <1>2
  <1>4. \A j \in Inos : SubdirsIn(k2, e, j) = SubdirsIn(k, e, j)
    BY <1>3, SameSubdirs
  <1>5. /\ \A d \in Inos, n \in Names : e[d][n] # i
        /\ NamesIn(e, i) = {} /\ nl[i] = 0
    BY FreeHasNoName
  <1>6. Typed(k2, nl, e, dd, c)
    BY <1>1 DEF Sound, Typed
  <1>7. Alive(k2, e)
    <2> SUFFICES ASSUME NEW d \in Inos, NEW n \in Names, e[d][n] # NoInode
                 PROVE  k2[d] = "dir" /\ k2[e[d][n]] \in {"file", "dir"}
      BY DEF Alive
    <2>1. k[d] = "dir" /\ k[e[d][n]] \in {"file", "dir"} /\ e[d][n] \in Inos
      BY DEF Sound, Alive, Typed
    <2> QED
      BY <2>1, <1>2, <1>5
  <1>8. Counted(k2, nl, e)
    <2> SUFFICES ASSUME NEW j \in Inos
                 PROVE  /\ k2[j] = "file" => nl[j] = Cardinality(NamesIn(e, j))
                        /\ k2[j] = "dir" => nl[j] = 2 + Cardinality(SubdirsIn(k2, e, j))
                        /\ k2[j] \in {"dead", "free"} => nl[j] = 0
      BY DEF Counted
    <2>1. CASE j = i
      BY <2>1, <1>2, <1>5, FS_EmptySet
    <2>2. CASE j # i
      BY <2>2, <1>2, <1>4 DEF Sound, Counted
    <2> QED
      BY <2>1, <2>2
  <1>9. OneName(k2, e, dd)
    BY <1>3 DEF Sound, OneName, ConstantsOK
  <1>10. Rooted(k2, e)
    <2>1. \A S \in SUBSET Inos : Upward(k2, e, S) => Upward(k, e, S)
      BY <1>3 DEF Upward
    <2> QED
      BY <2>1 DEF Sound, Rooted
  <1>11. Cached(k2, e, c)
    BY <1>3 DEF Sound, Cached
  <1> QED
    BY <1>6, <1>7, <1>8, <1>9, <1>10, <1>11 DEF Sound, k2

\* Changing names of files leaves the tree of the directories.
LEMMA SameTree ==
    ASSUME ConstantsOK, NEW k \in [Inos -> Kinds], NEW dd,
           NEW e \in [Inos -> [Names -> Inos \cup {NoInode}]],
           NEW d \in Inos, NEW n \in Names, NEW x \in Inos \cup {NoInode},
           x # NoInode => k[x] = "file", e[d][n] # NoInode => k[e[d][n]] = "file",
           OneName(k, e, dd), Rooted(k, e)
    PROVE  OneName(k, Put(e, d, n, x), dd) /\ Rooted(k, Put(e, d, n, x))
PROOF
  <1> DEFINE f == Put(e, d, n, x)
  <1>1. \A p \in Inos, m \in Names : f[p][m] = IF p = d /\ m = n THEN x ELSE e[p][m]
    BY DEF Put
  <1> HIDE DEF f
  <1>2. \A p \in Inos, m \in Names, y \in Inos : k[y] = "dir" => (f[p][m] = y <=> e[p][m] = y)
    BY <1>1, Numbers
  <1>3. OneName(k, f, dd)
    <2>1. /\ k[Root] = "dir" /\ dd[Root] = Root
          /\ \A p \in Inos, m \in Names : f[p][m] # Root
      <3>1. Root \in Inos /\ k[Root] = "dir" /\ dd[Root] = Root
        BY DEF OneName, ConstantsOK
      <3>2. \A p \in Inos, m \in Names : e[p][m] # Root
        BY DEF OneName
      <3> QED
        BY <3>1, <3>2, <1>2
    <2>2. ASSUME NEW y \in Inos, k[y] = "dir", y # Root
          PROVE  /\ dd[y] \in Inos
                 /\ \E m \in Names :
                     /\ f[dd[y]][m] = y
                     /\ \A p \in Inos, q \in Names : f[p][q] = y => p = dd[y] /\ q = m
      <3>1. /\ dd[y] \in Inos
            /\ \E m \in Names :
                /\ e[dd[y]][m] = y
                /\ \A p \in Inos, q \in Names : e[p][q] = y => p = dd[y] /\ q = m
        BY <2>2 DEF OneName
      <3>2. \A p \in Inos, q \in Names : f[p][q] = y <=> e[p][q] = y
        BY <1>2, <2>2
      <3> QED
        BY <3>1, <3>2
    <2> QED
      BY <2>1, <2>2 DEF OneName
  <1>4. \A S \in SUBSET Inos : Upward(k, f, S) => Upward(k, e, S)
    BY <1>2 DEF Upward
  <1> QED
    BY <1>3, <1>4 DEF Rooted, f

\* A file gets one more name.
LEMMA AddFileName ==
    ASSUME ConstantsOK, NEW k, NEW nl, NEW e, NEW dd, NEW c, Sound(k, nl, e, dd, c),
           NEW i \in Inos, k[i] = "file",
           NEW d \in Inos, k[d] = "dir", NEW n \in Names, e[d][n] = NoInode
    PROVE  Sound(k, [nl EXCEPT ![i] = @ + 1], Put(e, d, n, i), dd, [c EXCEPT ![d][n] = i])
PROOF
  <1> DEFINE f == Put(e, d, n, i)
             nl2 == [nl EXCEPT ![i] = @ + 1]
             c2 == [c EXCEPT ![d][n] = i]
  <1>1. /\ k \in [Inos -> Kinds] /\ nl \in [Inos -> Nat]
        /\ e \in [Inos -> [Names -> Inos \cup {NoInode}]]
        /\ c \in [Inos -> [Names -> Inos \cup {NoInode, Unknown}]]
    BY DEF Sound, Typed
  <1>2. i # NoInode
    BY Numbers
  <1>3. /\ f \in [Inos -> [Names -> Inos \cup {NoInode}]]
        /\ \A p \in Inos, m \in Names : f[p][m] = IF p = d /\ m = n THEN i ELSE e[p][m]
        /\ Cardinality(NamesIn(f, i)) = Cardinality(NamesIn(e, i)) + 1
        /\ \A j : j # i /\ j # NoInode => Cardinality(NamesIn(f, j)) = Cardinality(NamesIn(e, j))
    <2>1. i \in Inos \cup {NoInode} /\ e[d][n] # i
      BY <1>2
    <2>2. NamesChange(e, f, d, n, i, e[d][n])
      BY <1>1, <2>1, PutNames
    <2> HIDE DEF f
    <2> QED
      BY <2>2 DEF NamesChange
  <1>4. \A j \in Inos : Cardinality(SubdirsIn(k, f, j)) = Cardinality(SubdirsIn(k, e, j))
    <2>1. i \in Inos \cup {NoInode}
      OBVIOUS
    <2>2. SubdirsChange(k, e, f, d, n, i)
      BY <1>1, <2>1, PutSubdirs
    <2>3. n \notin SubdirsIn(k, e, d)
      BY Numbers DEF SubdirsIn
    <2>4. Cardinality(SubdirsIn(k, e, d)) \in Nat
      BY Countable
    <2> HIDE DEF f
    <2>5. Cardinality(SubdirsIn(k, f, d)) = Cardinality(SubdirsIn(k, e, d))
      BY <2>2, <2>3, <2>4 DEF SubdirsChange
    <2> QED
      BY <2>2, <2>5 DEF SubdirsChange
  <1>5. /\ nl2 \in [Inos -> Nat] /\ nl2[i] = nl[i] + 1
        /\ \A j \in Inos : j # i => nl2[j] = nl[j]
    BY <1>1
  <1>6. /\ c2 \in [Inos -> [Names -> Inos \cup {NoInode, Unknown}]]
        /\ \A p \in Inos, m \in Names : c2[p][m] = IF p = d /\ m = n THEN i ELSE c[p][m]
    BY <1>1
  <1> HIDE DEF f, nl2, c2
  <1>7. Typed(k, nl2, f, dd, c2)
    BY <1>3, <1>5, <1>6 DEF Sound, Typed
  <1>8. Alive(k, f)
    BY <1>3 DEF Sound, Alive
  <1>9. Counted(k, nl2, f)
    <2> SUFFICES ASSUME NEW j \in Inos
                 PROVE  /\ k[j] = "file" => nl2[j] = Cardinality(NamesIn(f, j))
                        /\ k[j] = "dir" => nl2[j] = 2 + Cardinality(SubdirsIn(k, f, j))
                        /\ k[j] \in {"dead", "free"} => nl2[j] = 0
      BY DEF Counted
    <2>1. CASE j = i
      BY <2>1, <1>3, <1>5 DEF Sound, Counted
    <2>2. CASE j # i
      BY <2>2, <1>3, <1>4, <1>5, Numbers DEF Sound, Counted
    <2> QED
      BY <2>1, <2>2
  <1>10. OneName(k, f, dd) /\ Rooted(k, f)
    BY <1>1, SameTree DEF Sound, f
  <1>11. Cached(k, f, c2)
    BY <1>3, <1>6 DEF Sound, Cached
  <1> QED
    BY <1>7, <1>8, <1>9, <1>10, <1>11 DEF Sound, f, nl2, c2

\* A file loses a name.
LEMMA DropFileName ==
    ASSUME ConstantsOK, NEW k, NEW nl, NEW e, NEW dd, NEW c, Sound(k, nl, e, dd, c),
           NEW i \in Inos, k[i] = "file",
           NEW d \in Inos, NEW n \in Names, e[d][n] = i
    PROVE  /\ Sound(k, [nl EXCEPT ![i] = @ - 1], Put(e, d, n, NoInode), dd,
                    [c EXCEPT ![d][n] = NoInode])
           /\ nl[i] > 0
PROOF
  <1> DEFINE f == Put(e, d, n, NoInode)
             nl2 == [nl EXCEPT ![i] = @ - 1]
             c2 == [c EXCEPT ![d][n] = NoInode]
  <1>1. /\ k \in [Inos -> Kinds] /\ nl \in [Inos -> Nat]
        /\ e \in [Inos -> [Names -> Inos \cup {NoInode}]]
        /\ c \in [Inos -> [Names -> Inos \cup {NoInode, Unknown}]]
    BY DEF Sound, Typed
  <1>2. i # NoInode
    BY Numbers
  <1>3. /\ f \in [Inos -> [Names -> Inos \cup {NoInode}]]
        /\ \A p \in Inos, m \in Names : f[p][m] = IF p = d /\ m = n THEN NoInode ELSE e[p][m]
        /\ Cardinality(NamesIn(f, i)) = Cardinality(NamesIn(e, i)) - 1
        /\ \A j : j # i /\ j # NoInode => Cardinality(NamesIn(f, j)) = Cardinality(NamesIn(e, j))
    <2>1. NoInode \in Inos \cup {NoInode} /\ e[d][n] # NoInode
      BY <1>2
    <2>2. NamesChange(e, f, d, n, NoInode, e[d][n])
      BY <1>1, <2>1, PutNames
    <2> HIDE DEF f
    <2> QED
      BY <2>2 DEF NamesChange
  <1>4. \A j \in Inos : Cardinality(SubdirsIn(k, f, j)) = Cardinality(SubdirsIn(k, e, j))
    <2>1. NoInode \in Inos \cup {NoInode}
      OBVIOUS
    <2>2. SubdirsChange(k, e, f, d, n, NoInode)
      BY <1>1, <2>1, PutSubdirs
    <2>3. n \notin SubdirsIn(k, e, d) /\ NoInode \notin Inos
      BY Numbers DEF SubdirsIn
    <2>4. Cardinality(SubdirsIn(k, e, d)) \in Nat
      BY Countable
    <2> HIDE DEF f
    <2>5. Cardinality(SubdirsIn(k, f, d)) = Cardinality(SubdirsIn(k, e, d))
      BY <2>2, <2>3, <2>4 DEF SubdirsChange
    <2> QED
      BY <2>2, <2>5 DEF SubdirsChange
  <1>5. nl[i] > 0
    <2>1. nl[i] = Cardinality(NamesIn(e, i))
      BY DEF Sound, Counted
    <2>2. Cardinality(NamesIn(e, i)) \in Nat /\ Cardinality(NamesIn(f, i)) \in Nat
      BY Countable
    <2> QED
      BY <2>1, <2>2, <1>3
  <1>6. /\ nl2 \in [Inos -> Nat] /\ nl2[i] = nl[i] - 1
        /\ \A j \in Inos : j # i => nl2[j] = nl[j]
    BY <1>1, <1>5
  <1>7. /\ c2 \in [Inos -> [Names -> Inos \cup {NoInode, Unknown}]]
        /\ \A p \in Inos, m \in Names : c2[p][m] = IF p = d /\ m = n THEN NoInode ELSE c[p][m]
    BY <1>1
  <1> HIDE DEF f, nl2, c2
  <1>8. Typed(k, nl2, f, dd, c2)
    BY <1>3, <1>6, <1>7 DEF Sound, Typed
  <1>9. Alive(k, f)
    BY <1>3 DEF Sound, Alive
  <1>10. Counted(k, nl2, f)
    <2> SUFFICES ASSUME NEW j \in Inos
                 PROVE  /\ k[j] = "file" => nl2[j] = Cardinality(NamesIn(f, j))
                        /\ k[j] = "dir" => nl2[j] = 2 + Cardinality(SubdirsIn(k, f, j))
                        /\ k[j] \in {"dead", "free"} => nl2[j] = 0
      BY DEF Counted
    <2>1. CASE j = i
      BY <2>1, <1>3, <1>6 DEF Sound, Counted
    <2>2. CASE j # i
      BY <2>2, <1>3, <1>4, <1>6, Numbers DEF Sound, Counted
    <2> QED
      BY <2>1, <2>2
  <1>11. OneName(k, f, dd) /\ Rooted(k, f)
    BY <1>1, SameTree DEF Sound, f
  <1>12. Cached(k, f, c2)
    <2>1. k[d] = "dir"
      BY <1>2 DEF Sound, Alive
    <2> QED
      BY <2>1, <1>3, <1>7 DEF Sound, Cached
  <1> QED
    BY <1>5, <1>8, <1>9, <1>10, <1>11, <1>12 DEF Sound, f, nl2, c2

-----------------------------------------------------------------------------
\* A free inode becomes a directory with a name.
LEMMA NewDirectory ==
    ASSUME ConstantsOK, NEW k, NEW nl, NEW e, NEW dd, NEW c, Sound(k, nl, e, dd, c),
           NEW i \in Inos, k[i] = "free", \A n \in Names : c[i][n] = Unknown,
           NEW d \in Inos, k[d] = "dir", NEW n \in Names, e[d][n] = NoInode
    PROVE  Sound([k EXCEPT ![i] = "dir"], [[nl EXCEPT ![d] = @ + 1] EXCEPT ![i] = 2],
                 Put(e, d, n, i), [dd EXCEPT ![i] = d], [c EXCEPT ![d][n] = i])
PROOF
  <1> DEFINE f == Put(e, d, n, i)
             k2 == [k EXCEPT ![i] = "dir"]
             nl2 == [[nl EXCEPT ![d] = @ + 1] EXCEPT ![i] = 2]
             dd2 == [dd EXCEPT ![i] = d]
             c2 == [c EXCEPT ![d][n] = i]
  <1>1. /\ k \in [Inos -> Kinds] /\ nl \in [Inos -> Nat]
        /\ e \in [Inos -> [Names -> Inos \cup {NoInode}]]
        /\ dd \in [Inos -> Inos \cup {NoInode}]
        /\ c \in [Inos -> [Names -> Inos \cup {NoInode, Unknown}]]
    BY DEF Sound, Typed
  <1>2. /\ \A p \in Inos, m \in Names : e[p][m] # i
        /\ \A m \in Names : e[i][m] = NoInode
        /\ NamesIn(e, i) = {} /\ i # Root /\ nl[i] = 0
    BY FreeHasNoName
  <1>3. i # d /\ i # NoInode
    BY Numbers
  <1>4. NamesChange(e, f, d, n, i, e[d][n])
    BY <1>1, <1>3, PutNames
  <1>5. SubdirsChange(k2, e, f, d, n, i)
    BY <1>1, PutSubdirs
  <1>6. /\ k2 \in [Inos -> Kinds] /\ k2[i] = "dir"
        /\ \A j \in Inos : j # i => k2[j] = k[j]
    BY <1>1 DEF Kinds
  <1>7. /\ nl2 \in [Inos -> Nat] /\ nl2[i] = 2 /\ nl2[d] = nl[d] + 1
        /\ \A j \in Inos : j # i /\ j # d => nl2[j] = nl[j]
    BY <1>1, <1>3
  <1>8. /\ dd2 \in [Inos -> Inos \cup {NoInode}] /\ dd2[i] = d
        /\ \A j \in Inos : j # i => dd2[j] = dd[j]
    BY <1>1
  <1>9. /\ c2 \in [Inos -> [Names -> Inos \cup {NoInode, Unknown}]]
        /\ \A p \in Inos, m \in Names : c2[p][m] = IF p = d /\ m = n THEN i ELSE c[p][m]
    BY <1>1
  <1> HIDE DEF f, k2, nl2, dd2, c2
  <1>10. /\ f \in [Inos -> [Names -> Inos \cup {NoInode}]]
         /\ \A p \in Inos, m \in Names : f[p][m] = IF p = d /\ m = n THEN i ELSE e[p][m]
    BY <1>4 DEF NamesChange
  <1>11. \A j \in Inos : SubdirsIn(k2, e, j) = SubdirsIn(k, e, j)
    BY <1>2, <1>6, SameSubdirs
  <1>12. Typed(k2, nl2, f, dd2, c2)
    BY <1>6, <1>7, <1>8, <1>9, <1>10 DEF Typed
  <1>13. Alive(k2, f)
    BY <1>1, <1>2, <1>3, <1>6, <1>10 DEF Sound, Alive
  <1>14. Counted(k2, nl2, f)
    <2> SUFFICES ASSUME NEW j \in Inos
                 PROVE  /\ k2[j] = "file" => nl2[j] = Cardinality(NamesIn(f, j))
                        /\ k2[j] = "dir" => nl2[j] = 2 + Cardinality(SubdirsIn(k2, f, j))
                        /\ k2[j] \in {"dead", "free"} => nl2[j] = 0
      BY DEF Counted
    <2>1. CASE j = i
      <3>1. SubdirsIn(k2, e, i) = {}
        BY <1>2, Numbers DEF SubdirsIn
      <3>2. SubdirsIn(k2, f, i) = {}
        BY <3>1, <1>3, <1>5 DEF SubdirsChange
      <3> QED
        BY <2>1, <3>2, <1>6, <1>7, FS_EmptySet
    <2>2. CASE j = d
      <3>1. n \notin SubdirsIn(k2, e, d)
        BY Numbers DEF SubdirsIn
      <3>2. Cardinality(SubdirsIn(k2, e, d)) \in Nat
        BY Countable
      <3>3. Cardinality(SubdirsIn(k2, f, d)) = Cardinality(SubdirsIn(k2, e, d)) + 1
        BY <3>1, <3>2, <1>5, <1>6 DEF SubdirsChange
      <3>4. nl[d] = 2 + Cardinality(SubdirsIn(k, e, d))
        BY DEF Sound, Counted
      <3>5. k2[d] = "dir" /\ SubdirsIn(k2, e, d) = SubdirsIn(k, e, d)
        BY <1>3, <1>6, <1>11
      <3> QED
        BY <2>2, <3>2, <3>3, <3>4, <3>5, <1>7
    <2>3. CASE j # i /\ j # d
      <3>1. SubdirsIn(k2, f, j) = SubdirsIn(k, e, j)
        BY <2>3, <1>5, <1>11 DEF SubdirsChange
      <3>2. Cardinality(NamesIn(f, j)) = Cardinality(NamesIn(e, j))
        BY <2>3, <1>4, Numbers DEF NamesChange
      <3> QED
        BY <2>3, <3>1, <3>2, <1>6, <1>7 DEF Sound, Counted
    <2> QED
      BY <2>1, <2>2, <2>3
  <1>15. OneName(k2, f, dd2)
    <2>1. /\ Root \in Inos /\ k[Root] = "dir" /\ dd[Root] = Root
          /\ \A p \in Inos, m \in Names : e[p][m] # Root
      BY DEF Sound, OneName, ConstantsOK
    <2>2. /\ k2[Root] = "dir" /\ dd2[Root] = Root
          /\ \A p \in Inos, m \in Names : f[p][m] # Root
      <3>1. k2[Root] = "dir" /\ dd2[Root] = Root
        BY <2>1, <1>2, <1>6, <1>8
      <3>2. \A p \in Inos, m \in Names : f[p][m] = i \/ f[p][m] = e[p][m]
        BY <1>10
      <3> QED
        BY <3>1, <3>2, <2>1, <1>2
    <2>3. ASSUME NEW y \in Inos, k2[y] = "dir", y # Root
          PROVE  /\ dd2[y] \in Inos
                 /\ \E m \in Names :
                     /\ f[dd2[y]][m] = y
                     /\ \A p \in Inos, q \in Names : f[p][q] = y => p = dd2[y] /\ q = m
      <3>1. CASE y = i
        BY <3>1, <1>2, <1>8, <1>10
      <3>2. CASE y # i
        <4>1. /\ dd[y] \in Inos
              /\ \E m \in Names :
                  /\ e[dd[y]][m] = y
                  /\ \A p \in Inos, q \in Names : e[p][q] = y => p = dd[y] /\ q = m
          BY <2>3, <3>2, <1>6 DEF Sound, OneName
        <4>2. \A p \in Inos, q \in Names : f[p][q] = y <=> e[p][q] = y
          BY <3>2, <1>10, Numbers
        <4>3. dd2[y] = dd[y]
          BY <3>2, <1>8
        <4> QED
          BY <4>1, <4>2, <4>3
      <3> QED
        BY <3>1, <3>2
    <2> QED
      BY <2>2, <2>3 DEF OneName
  <1>16. Rooted(k2, f)
    <2> SUFFICES ASSUME NEW S \in SUBSET Inos, Upward(k2, f, S), S # {}
                 PROVE  Root \in S
      BY DEF Rooted
    <2> DEFINE T == S \ {i}
    <2>1. T \in SUBSET Inos /\ \A x \in T : k[x] = "dir"
      BY <1>6 DEF Upward
    <2>2. \A p \in Inos, m \in Names : k[p] = "dir" /\ e[p][m] \in T => p \in T
      <3> SUFFICES ASSUME NEW p \in Inos, NEW m \in Names, k[p] = "dir", e[p][m] \in T
                   PROVE  p \in T
        OBVIOUS
      <3>1. p # i /\ k2[p] = "dir"
        BY <1>6
      <3>2. f[p][m] = e[p][m]
        BY <1>10, Numbers
      <3> QED
        BY <3>1, <3>2 DEF Upward
    <2>3. T # {}
      <3>1. i \in S => d \in S
        <4>1. f[d][n] = i /\ k2[d] = "dir"
          BY <1>3, <1>6, <1>10
        <4> QED
          BY <4>1 DEF Upward
      <3> QED
        BY <3>1, <1>3
    <2>4. Root \in T
      BY <2>1, <2>2, <2>3 DEF Sound, Rooted, Upward
    <2> QED
      BY <2>4
  <1>17. Cached(k2, f, c2)
    <2> SUFFICES ASSUME NEW p \in Inos, NEW m \in Names, k2[p] = "dir", c2[p][m] # Unknown
                 PROVE  c2[p][m] = f[p][m]
      BY DEF Cached
    <2>1. CASE p = i
      BY <2>1, <1>3, <1>9
    <2>2. CASE p # i
      BY <2>2, <1>6, <1>9, <1>10 DEF Sound, Cached
    <2> QED
      BY <2>1, <2>2
  <1> QED
    BY <1>12, <1>13, <1>14, <1>15, <1>16, <1>17 DEF Sound, f, k2, nl2, dd2, c2

\* An empty directory loses its name.
LEMMA RemoveDirectory ==
    ASSUME ConstantsOK, NEW k, NEW nl, NEW e, NEW dd, NEW c, Sound(k, nl, e, dd, c),
           NEW i \in Inos, k[i] = "dir", \A n \in Names : e[i][n] = NoInode,
           NEW d \in Inos, NEW n \in Names, e[d][n] = i
    PROVE  /\ Sound([k EXCEPT ![i] = "dead"], [nl EXCEPT ![i] = @ - 2, ![d] = @ - 1],
                    Put(e, d, n, NoInode), dd, [c EXCEPT ![d][n] = NoInode])
           /\ i # d /\ i # Root /\ nl[i] = 2 /\ nl[d] > 2
PROOF
  <1> DEFINE f == Put(e, d, n, NoInode)
             k2 == [k EXCEPT ![i] = "dead"]
             nl2 == [nl EXCEPT ![i] = @ - 2, ![d] = @ - 1]
             c2 == [c EXCEPT ![d][n] = NoInode]
  <1>1. /\ k \in [Inos -> Kinds] /\ nl \in [Inos -> Nat]
        /\ e \in [Inos -> [Names -> Inos \cup {NoInode}]]
        /\ c \in [Inos -> [Names -> Inos \cup {NoInode, Unknown}]]
    BY DEF Sound, Typed
  <1>2. i # NoInode /\ i # d /\ k[d] = "dir"
    BY Numbers DEF Sound, Alive
  <1>3. i # Root
    BY DEF Sound, OneName
  <1>4. \A p \in Inos, m \in Names : e[p][m] = i => p = d /\ m = n
    BY <1>3 DEF Sound, OneName
  <1>5. NamesChange(e, f, d, n, NoInode, e[d][n])
    BY <1>1, <1>2, PutNames
  <1>6. SubdirsChange(k, e, f, d, n, NoInode)
    BY <1>1, PutSubdirs
  <1> HIDE DEF f
  <1>7. /\ f \in [Inos -> [Names -> Inos \cup {NoInode}]]
        /\ \A p \in Inos, m \in Names : f[p][m] = IF p = d /\ m = n THEN NoInode ELSE e[p][m]
    BY <1>5 DEF NamesChange
  <1>8. \A p \in Inos, m \in Names : f[p][m] # i
    BY <1>2, <1>4, <1>7
  <1>9. nl[i] = 2
    <2>1. SubdirsIn(k, e, i) = {}
      BY Numbers DEF SubdirsIn
    <2> QED
      BY <2>1, FS_EmptySet DEF Sound, Counted
  <1>10. /\ Cardinality(SubdirsIn(k, f, d)) = Cardinality(SubdirsIn(k, e, d)) - 1
         /\ nl[d] = 2 + Cardinality(SubdirsIn(k, e, d)) /\ nl[d] > 2
    <2>1. n \in SubdirsIn(k, e, d) /\ NoInode \notin Inos
      BY Numbers DEF SubdirsIn
    <2>2. Cardinality(SubdirsIn(k, e, d)) \in Nat /\ Cardinality(SubdirsIn(k, f, d)) \in Nat
      BY Countable
    <2>3. Cardinality(SubdirsIn(k, f, d)) = Cardinality(SubdirsIn(k, e, d)) - 1
      BY <1>6, <2>1, <2>2 DEF SubdirsChange
    <2>4. nl[d] = 2 + Cardinality(SubdirsIn(k, e, d))
      BY <1>2 DEF Sound, Counted
    <2> QED
      BY <2>2, <2>3, <2>4
  <1>11. /\ k2 \in [Inos -> Kinds] /\ k2[i] = "dead"
         /\ \A j \in Inos : j # i => k2[j] = k[j]
    BY <1>1 DEF Kinds
  <1>12. /\ nl2 \in [Inos -> Nat] /\ nl2[i] = 0 /\ nl2[d] = nl[d] - 1
         /\ \A j \in Inos : j # i /\ j # d => nl2[j] = nl[j]
    <2>1. nl[i] = 2 /\ nl[d] - 1 \in Nat
      BY <1>1, <1>9, <1>10
    <2>2. nl2[i] = nl[i] - 2 /\ nl2[d] = nl[d] - 1
      BY <1>1, <1>2
    <2>3. \A j \in Inos : j # i /\ j # d => nl2[j] = nl[j]
      BY <1>1
    <2>4. DOMAIN nl2 = Inos /\ nl2 = [j \in Inos |-> nl2[j]]
      BY <1>1
    <2> HIDE DEF nl2
    <2>5. \A j \in Inos : nl2[j] \in Nat
      BY <2>1, <2>2, <2>3, <1>1
    <2> QED
      BY <2>1, <2>2, <2>3, <2>4, <2>5
  <1>13. /\ c2 \in [Inos -> [Names -> Inos \cup {NoInode, Unknown}]]
         /\ \A p \in Inos, m \in Names : c2[p][m] = IF p = d /\ m = n THEN NoInode ELSE c[p][m]
    BY <1>1
  <1> HIDE DEF k2, nl2, c2
  <1>14. \A j \in Inos : SubdirsIn(k2, f, j) = SubdirsIn(k, f, j)
    BY <1>8, <1>11, SameSubdirs
  <1>15. Typed(k2, nl2, f, dd, c2)
    BY <1>7, <1>11, <1>12, <1>13 DEF Sound, Typed
  <1>16. Alive(k2, f)
    <2> SUFFICES ASSUME NEW p \in Inos, NEW m \in Names, f[p][m] # NoInode
                 PROVE  k2[p] = "dir" /\ k2[f[p][m]] \in {"file", "dir"}
      BY DEF Alive
    <2>1. f[p][m] = e[p][m] /\ f[p][m] \in Inos /\ f[p][m] # i
      BY <1>7, <1>8
    <2>2. k[p] = "dir" /\ k[f[p][m]] \in {"file", "dir"} /\ p # i
      BY <2>1 DEF Sound, Alive
    <2> QED
      BY <2>1, <2>2, <1>11
  <1>17. Counted(k2, nl2, f)
    <2> SUFFICES ASSUME NEW j \in Inos
                 PROVE  /\ k2[j] = "file" => nl2[j] = Cardinality(NamesIn(f, j))
                        /\ k2[j] = "dir" => nl2[j] = 2 + Cardinality(SubdirsIn(k2, f, j))
                        /\ k2[j] \in {"dead", "free"} => nl2[j] = 0
      BY DEF Counted
    <2>1. CASE j = i
      BY <2>1, <1>11, <1>12
    <2>2. CASE j = d
      <3>1. Cardinality(SubdirsIn(k, e, d)) \in Nat
        BY Countable
      <3> QED
        BY <2>2, <3>1, <1>2, <1>10, <1>11, <1>12, <1>14
    <2>3. CASE j # i /\ j # d
      <3>1. SubdirsIn(k2, f, j) = SubdirsIn(k, e, j)
        BY <2>3, <1>6, <1>14 DEF SubdirsChange
      <3>2. Cardinality(NamesIn(f, j)) = Cardinality(NamesIn(e, j))
        BY <2>3, <1>5, Numbers DEF NamesChange
      <3> QED
        BY <2>3, <3>1, <3>2, <1>11, <1>12 DEF Sound, Counted
    <2> QED
      BY <2>1, <2>2, <2>3
  <1>18. OneName(k2, f, dd)
    <2>1. /\ Root \in Inos /\ k[Root] = "dir" /\ dd[Root] = Root
          /\ \A p \in Inos, m \in Names : e[p][m] # Root
      BY DEF Sound, OneName, ConstantsOK
    <2>2. /\ k2[Root] = "dir" /\ dd[Root] = Root
          /\ \A p \in Inos, m \in Names : f[p][m] # Root
      BY <2>1, <1>3, <1>7, <1>11, Numbers
    <2>3. ASSUME NEW y \in Inos, k2[y] = "dir", y # Root
          PROVE  /\ dd[y] \in Inos
                 /\ \E m \in Names :
                     /\ f[dd[y]][m] = y
                     /\ \A p \in Inos, q \in Names : f[p][q] = y => p = dd[y] /\ q = m
      <3>1. y # i /\ k[y] = "dir"
        BY <2>3, <1>11
      <3>2. /\ dd[y] \in Inos
            /\ \E m \in Names :
                /\ e[dd[y]][m] = y
                /\ \A p \in Inos, q \in Names : e[p][q] = y => p = dd[y] /\ q = m
        BY <2>3, <3>1 DEF Sound, OneName
      <3>3. \A p \in Inos, q \in Names : f[p][q] = y <=> e[p][q] = y
        BY <3>1, <1>7, Numbers
      <3> QED
        BY <3>2, <3>3
    <2> QED
      BY <2>2, <2>3 DEF OneName
  <1>19. Rooted(k2, f)
    <2> SUFFICES ASSUME NEW S \in SUBSET Inos, Upward(k2, f, S), S # {}
                 PROVE  Root \in S
      BY DEF Rooted
    <2>1. i \notin S /\ \A x \in S : k[x] = "dir"
      BY <1>11 DEF Upward
    <2>2. \A p \in Inos, m \in Names : k[p] = "dir" /\ e[p][m] \in S => p \in S
      <3> SUFFICES ASSUME NEW p \in Inos, NEW m \in Names, k[p] = "dir", e[p][m] \in S
                   PROVE  p \in S
        OBVIOUS
      <3>1. e[p][m] # NoInode /\ e[p][m] # i
        BY <2>1, Numbers
      <3>2. f[p][m] = e[p][m] /\ p # i
        BY <3>1, <1>7
      <3> QED
        BY <3>2, <1>11 DEF Upward
    <2> QED
      BY <2>1, <2>2 DEF Sound, Rooted, Upward
  <1>20. Cached(k2, f, c2)
    BY <1>7, <1>11, <1>13 DEF Sound, Cached
  <1> QED
    BY <1>2, <1>3, <1>9, <1>10, <1>15, <1>16, <1>17, <1>18, <1>19, <1>20
    DEF Sound, f, k2, nl2, c2

\* A directory moves to where it is not above.
DirectoryMoves(k, nl, e, dd, c, i, od, on, nd, nn) ==
    /\ Sound(k, [[nl EXCEPT ![nd] = @ + 1] EXCEPT ![od] = @ - 1],
             Put(Put(e, nd, nn, i), od, on, NoInode), [dd EXCEPT ![i] = nd],
             [c EXCEPT ![od][on] = Unknown, ![nd][nn] = i])
    /\ dd[i] = od

LEMMA MoveDirectory ==
    ASSUME ConstantsOK, NEW k, NEW nl, NEW e, NEW dd, NEW c, Sound(k, nl, e, dd, c),
           NEW i \in Inos, k[i] = "dir",
           NEW od \in Inos, NEW on \in Names, e[od][on] = i,
           NEW nd \in Inos, k[nd] = "dir", NEW nn \in Names, e[nd][nn] = NoInode,
           NEW path, Upward(k, e, path), nd \in path, i \notin path
    PROVE  DirectoryMoves(k, nl, e, dd, c, i, od, on, nd, nn)
PROOF
  <1> DEFINE g == Put(e, nd, nn, i)
             f == Put(g, od, on, NoInode)
             nl1 == [nl EXCEPT ![nd] = @ + 1]
             nl2 == [nl1 EXCEPT ![od] = @ - 1]
             dd2 == [dd EXCEPT ![i] = nd]
             c2 == [c EXCEPT ![od][on] = Unknown, ![nd][nn] = i]
  <1>1. /\ k \in [Inos -> Kinds] /\ nl \in [Inos -> Nat]
        /\ e \in [Inos -> [Names -> Inos \cup {NoInode}]]
        /\ dd \in [Inos -> Inos \cup {NoInode}]
        /\ c \in [Inos -> [Names -> Inos \cup {NoInode, Unknown}]]
    BY DEF Sound, Typed
  <1>2. i # NoInode /\ k[od] = "dir"
    BY Numbers DEF Sound, Alive
  <1>3. i # Root
    BY DEF Sound, OneName
  <1>4. dd[i] = od /\ \A p \in Inos, m \in Names : e[p][m] = i => p = od /\ m = on
    BY <1>3 DEF Sound, OneName
  <1>5. ~ (od = nd /\ on = nn)
    BY <1>2
  <1>6. NamesChange(e, g, nd, nn, i, e[nd][nn])
    BY <1>1, <1>2, PutNames
  <1>7. SubdirsChange(k, e, g, nd, nn, i)
    BY <1>1, PutSubdirs
  <1> HIDE DEF g
  <1>8. /\ g \in [Inos -> [Names -> Inos \cup {NoInode}]]
        /\ \A p \in Inos, m \in Names : g[p][m] = IF p = nd /\ m = nn THEN i ELSE e[p][m]
    BY <1>6 DEF NamesChange
  <1>9. g[od][on] = i
    BY <1>5, <1>8
  <1>10. NamesChange(g, f, od, on, NoInode, g[od][on])
    BY <1>2, <1>8, <1>9, PutNames
  <1>11. SubdirsChange(k, g, f, od, on, NoInode)
    BY <1>8, PutSubdirs
  <1> HIDE DEF f
  <1>12. /\ f \in [Inos -> [Names -> Inos \cup {NoInode}]]
         /\ \A p \in Inos, m \in Names :
              f[p][m] = IF p = od /\ m = on THEN NoInode
                        ELSE IF p = nd /\ m = nn THEN i ELSE e[p][m]
    BY <1>8, <1>10 DEF NamesChange
  <1>13. \A p \in Inos, m \in Names, y \in Inos : y # i => (f[p][m] = y <=> e[p][m] = y)
    BY <1>2, <1>12, Numbers
  <1>14. \A p \in Inos, m \in Names : f[p][m] = i <=> p = nd /\ m = nn
    BY <1>2, <1>4, <1>5, <1>12
  <1>15. \A j \in Inos : j # i => Cardinality(NamesIn(f, j)) = Cardinality(NamesIn(e, j))
    BY <1>6, <1>9, <1>10, Numbers DEF NamesChange
  <1>16. /\ Cardinality(SubdirsIn(k, g, nd)) = Cardinality(SubdirsIn(k, e, nd)) + 1
         /\ \A j \in Inos : j # nd => SubdirsIn(k, g, j) = SubdirsIn(k, e, j)
    <2>1. nn \notin SubdirsIn(k, e, nd)
      BY Numbers DEF SubdirsIn
    <2>2. Cardinality(SubdirsIn(k, e, nd)) \in Nat
      BY Countable
    <2> QED
      BY <2>1, <2>2, <1>7 DEF SubdirsChange
  <1>17. /\ Cardinality(SubdirsIn(k, f, od)) = Cardinality(SubdirsIn(k, g, od)) - 1
         /\ \A j \in Inos : j # od => SubdirsIn(k, f, j) = SubdirsIn(k, g, j)
    <2>1. on \in SubdirsIn(k, g, od) /\ NoInode \notin Inos
      BY <1>9, Numbers DEF SubdirsIn
    <2>2. Cardinality(SubdirsIn(k, g, od)) \in Nat
      BY Countable
    <2> QED
      BY <2>1, <2>2, <1>11 DEF SubdirsChange
  <1>18. /\ nl1 \in [Inos -> Nat] /\ nl1[nd] = nl[nd] + 1
         /\ \A j \in Inos : j # nd => nl1[j] = nl[j]
    BY <1>1
  <1> HIDE DEF nl1
  <1>19. ASSUME NEW j \in Inos, k[j] = "dir"
         PROVE  nl1[j] = 2 + Cardinality(SubdirsIn(k, g, j))
    <2>1. nl[j] = 2 + Cardinality(SubdirsIn(k, e, j))
      BY <1>19 DEF Sound, Counted
    <2>2. Cardinality(SubdirsIn(k, e, j)) \in Nat
      BY Countable
    <2>3. CASE j = nd
      BY <2>1, <2>2, <2>3, <1>16, <1>18
    <2>4. CASE j # nd
      BY <2>1, <2>4, <1>16, <1>18
    <2> QED
      BY <2>3, <2>4
  <1>20. nl1[od] - 1 = 2 + Cardinality(SubdirsIn(k, f, od)) /\ nl1[od] - 1 \in Nat
    <2>1. nl1[od] = 2 + Cardinality(SubdirsIn(k, g, od))
      BY <1>2, <1>19
    <2>2. Cardinality(SubdirsIn(k, g, od)) \in Nat /\ Cardinality(SubdirsIn(k, f, od)) \in Nat
      BY Countable
    <2> QED
      BY <2>1, <2>2, <1>17
  <1>21. /\ nl2 \in [Inos -> Nat] /\ nl2[od] = nl1[od] - 1
         /\ \A j \in Inos : j # od => nl2[j] = nl1[j]
    BY <1>18, <1>20
  <1>22. /\ dd2 \in [Inos -> Inos \cup {NoInode}] /\ dd2[i] = nd
         /\ \A j \in Inos : j # i => dd2[j] = dd[j]
    BY <1>1
  <1>23. /\ c2 \in [Inos -> [Names -> Inos \cup {NoInode, Unknown}]]
         /\ \A p \in Inos, m \in Names :
              c2[p][m] = IF p = od /\ m = on THEN Unknown
                         ELSE IF p = nd /\ m = nn THEN i ELSE c[p][m]
    BY <1>1, <1>5
  <1> HIDE DEF nl2, dd2, c2
  <1>24. Typed(k, nl2, f, dd2, c2)
    BY <1>1, <1>12, <1>21, <1>22, <1>23 DEF Typed
  <1>25. Alive(k, f)
    <2> SUFFICES ASSUME NEW p \in Inos, NEW m \in Names, f[p][m] # NoInode
                 PROVE  k[p] = "dir" /\ k[f[p][m]] \in {"file", "dir"}
      BY DEF Alive
    <2>1. CASE f[p][m] = i
      BY <2>1, <1>14
    <2>2. CASE f[p][m] # i
      BY <2>2, <1>12 DEF Sound, Alive
    <2> QED
      BY <2>1, <2>2
  <1>26. Counted(k, nl2, f)
    <2> SUFFICES ASSUME NEW j \in Inos
                 PROVE  /\ k[j] = "file" => nl2[j] = Cardinality(NamesIn(f, j))
                        /\ k[j] = "dir" => nl2[j] = 2 + Cardinality(SubdirsIn(k, f, j))
                        /\ k[j] \in {"dead", "free"} => nl2[j] = 0
      BY DEF Counted
    <2>1. CASE k[j] = "dir"
      <3>1. CASE j = od
        BY <2>1, <3>1, <1>20, <1>21
      <3>2. CASE j # od
        BY <2>1, <3>2, <1>17, <1>19, <1>21
      <3> QED
        BY <2>1, <3>1, <3>2
    <2>2. CASE k[j] # "dir"
      <3>1. j # od /\ j # nd /\ j # i
        BY <2>2, <1>2
      <3> QED
        BY <2>2, <3>1, <1>15, <1>18, <1>21 DEF Sound, Counted
    <2> QED
      BY <2>1, <2>2
  <1>27. OneName(k, f, dd2)
    <2>1. /\ Root \in Inos /\ k[Root] = "dir" /\ dd[Root] = Root
          /\ \A p \in Inos, m \in Names : e[p][m] # Root
      BY DEF Sound, OneName, ConstantsOK
    <2>2. /\ k[Root] = "dir" /\ dd2[Root] = Root
          /\ \A p \in Inos, m \in Names : f[p][m] # Root
      BY <2>1, <1>3, <1>13, <1>22
    <2>3. ASSUME NEW y \in Inos, k[y] = "dir", y # Root
          PROVE  /\ dd2[y] \in Inos
                 /\ \E m \in Names :
                     /\ f[dd2[y]][m] = y
                     /\ \A p \in Inos, q \in Names : f[p][q] = y => p = dd2[y] /\ q = m
      <3>1. CASE y = i
        BY <3>1, <1>14, <1>22
      <3>2. CASE y # i
        <4>1. /\ dd[y] \in Inos
              /\ \E m \in Names :
                  /\ e[dd[y]][m] = y
                  /\ \A p \in Inos, q \in Names : e[p][q] = y => p = dd[y] /\ q = m
          BY <2>3 DEF Sound, OneName
        <4>2. \A p \in Inos, q \in Names : f[p][q] = y <=> e[p][q] = y
          BY <3>2, <1>13
        <4>3. dd2[y] = dd[y]
          BY <3>2, <1>22
        <4> QED
          BY <4>1, <4>2, <4>3
      <3> QED
        BY <3>1, <3>2
    <2> QED
      BY <2>2, <2>3 DEF OneName
  <1>28. Rooted(k, f)
    <2> SUFFICES ASSUME NEW S \in SUBSET Inos, Upward(k, f, S), S # {}
                 PROVE  Root \in S
      BY DEF Rooted
    <2>1. \A x \in S : k[x] = "dir"
      BY DEF Upward
    <2>2. \A p \in Inos, m \in Names : k[p] = "dir" /\ e[p][m] \in S /\ e[p][m] # i => p \in S
      BY <1>13 DEF Upward
    <2>3. CASE i \notin S
      <3>1. Upward(k, e, S)
        BY <2>1, <2>2, <2>3 DEF Upward
      <3> QED
        BY <3>1 DEF Sound, Rooted
    <2>4. CASE i \in S
      <3> DEFINE T == S \cap path
      <3>1. nd \in S
        BY <2>4, <1>14 DEF Upward
      <3>2. Upward(k, e, T)
        BY <2>1, <2>2 DEF Upward
      <3>3. T \in SUBSET Inos /\ nd \in T
        BY <3>1
      <3>4. Root \in T
        BY <3>2, <3>3 DEF Sound, Rooted
      <3> QED
        BY <3>4
    <2> QED
      BY <2>3, <2>4
  <1>29. Cached(k, f, c2)
    <2> SUFFICES ASSUME NEW p \in Inos, NEW m \in Names, k[p] = "dir", c2[p][m] # Unknown
                 PROVE  c2[p][m] = f[p][m]
      BY DEF Cached
    <2> QED
      BY <1>12, <1>23 DEF Sound, Cached
  <1> QED
    BY <1>4, <1>24, <1>25, <1>26, <1>27, <1>28, <1>29
    DEF Sound, f, g, nl1, nl2, dd2, c2, DirectoryMoves

\* A dentry is dropped, or made from what the directory says.
LEMMA SetDentry ==
    ASSUME ConstantsOK, NEW k, NEW nl, NEW e, NEW dd, NEW c, Sound(k, nl, e, dd, c),
           NEW d \in Inos, NEW n \in Names, NEW x, x = Unknown \/ x = e[d][n]
    PROVE  Sound(k, nl, e, dd, [c EXCEPT ![d][n] = x])
PROOF
  <1> DEFINE c2 == [c EXCEPT ![d][n] = x]
  <1>1. /\ e \in [Inos -> [Names -> Inos \cup {NoInode}]]
        /\ c \in [Inos -> [Names -> Inos \cup {NoInode, Unknown}]]
    BY DEF Sound, Typed
  <1>2. x \in Inos \cup {NoInode, Unknown}
    BY <1>1
  <1>3. /\ c2 \in [Inos -> [Names -> Inos \cup {NoInode, Unknown}]]
        /\ \A p \in Inos, m \in Names : c2[p][m] = IF p = d /\ m = n THEN x ELSE c[p][m]
    BY <1>1, <1>2
  <1> HIDE DEF c2
  <1>4. Typed(k, nl, e, dd, c2)
    BY <1>3 DEF Sound, Typed
  <1>5. Cached(k, e, c2)
    BY <1>3 DEF Sound, Cached
  <1> QED
    BY <1>4, <1>5 DEF Sound, c2

-----------------------------------------------------------------------------
\* A name set twice has the last value.
LEMMA PutTwice ==
    ASSUME NEW e \in [Inos -> [Names -> Inos \cup {NoInode}]],
           NEW d \in Inos, NEW n \in Names, NEW x, NEW y
    PROVE  Put(Put(e, d, n, x), d, n, y) = Put(e, d, n, y)
PROOF
  BY DEF Put

\* So has a dentry, whatever the other one is meanwhile.
MoveEnds(c, od, on, nd, nn, i) ==
    [[[c EXCEPT ![nd][nn] = i] EXCEPT ![od][on] = NoInode] EXCEPT ![od][on] = Unknown]
        = [c EXCEPT ![od][on] = Unknown, ![nd][nn] = i]

LEMMA SameMove ==
    ASSUME NEW c \in [Inos -> [Names -> Inos \cup {NoInode, Unknown}]],
           NEW od \in Inos, NEW on \in Names, NEW nd \in Inos, NEW nn \in Names,
           ~ (od = nd /\ on = nn), NEW i
    PROVE  MoveEnds(c, od, on, nd, nn, i)
PROOF
  <1> DEFINE a == [[[c EXCEPT ![nd][nn] = i] EXCEPT ![od][on] = NoInode]
                     EXCEPT ![od][on] = Unknown]
             b == [c EXCEPT ![od][on] = Unknown, ![nd][nn] = i]
  <1>1. a = [p \in Inos |-> a[p]] /\ b = [p \in Inos |-> b[p]]
    OBVIOUS
  <1>2. \A p \in Inos : a[p] = [m \in Names |-> a[p][m]] /\ b[p] = [m \in Names |-> b[p][m]]
    <2>1. CASE od = nd
      BY <2>1
    <2>2. CASE od # nd
      BY <2>2
    <2> QED
      BY <2>1, <2>2
  <1>3. \A p \in Inos, m \in Names : a[p][m] = b[p][m]
    <2>1. CASE od = nd
      BY <2>1
    <2>2. CASE od # nd
      BY <2>2
    <2> QED
      BY <2>1, <2>2
  <1> HIDE DEF a, b
  <1>4. \A p \in Inos : a[p] = b[p]
    BY <1>2, <1>3
  <1>5. a = b
    BY <1>1, <1>4
  <1> QED
    BY <1>5 DEF a, b, MoveEnds

\* A file is renamed to a name that is not there.
LEMMA MoveFile ==
    ASSUME ConstantsOK, NEW k, NEW nl, NEW e, NEW dd, NEW c, Sound(k, nl, e, dd, c),
           NEW i \in Inos, k[i] = "file",
           NEW od \in Inos, NEW on \in Names, e[od][on] = i,
           NEW nd \in Inos, k[nd] = "dir", NEW nn \in Names, e[nd][nn] = NoInode
    PROVE  Sound(k, nl, Put(Put(e, nd, nn, i), od, on, NoInode), dd,
                 [c EXCEPT ![od][on] = Unknown, ![nd][nn] = i])
PROOF
  <1> DEFINE g == Put(e, nd, nn, i)
             f == Put(g, od, on, NoInode)
             nl1 == [nl EXCEPT ![i] = @ + 1]
             nl2 == [nl1 EXCEPT ![i] = @ - 1]
             c1 == [c EXCEPT ![nd][nn] = i]
             c2 == [c1 EXCEPT ![od][on] = NoInode]
             c3 == [c2 EXCEPT ![od][on] = Unknown]
  <1>1. /\ nl \in [Inos -> Nat]
        /\ e \in [Inos -> [Names -> Inos \cup {NoInode}]]
        /\ c \in [Inos -> [Names -> Inos \cup {NoInode, Unknown}]]
    BY DEF Sound, Typed
  <1>2. ~ (od = nd /\ on = nn)
    BY Numbers
  <1>3. Sound(k, nl1, g, dd, c1)
    BY AddFileName
  <1>4. g[od][on] = i
    BY <1>1, <1>2 DEF Put
  <1>5. nl2 = nl
    <2>1. nl2 = [j \in Inos |-> nl2[j]] /\ \A j \in Inos : nl2[j] = nl[j]
      BY <1>1
    <2> HIDE DEF nl2
    <2> QED
      BY <2>1, <1>1
  <1>6. c3 = [c EXCEPT ![od][on] = Unknown, ![nd][nn] = i]
    <2>1. MoveEnds(c, od, on, nd, nn, i)
      BY <1>1, <1>2, SameMove
    <2> QED
      BY <2>1 DEF MoveEnds
  <1> HIDE DEF g, nl1, c1
  <1>7. Sound(k, nl2, f, dd, c2)
    BY <1>3, <1>4, DropFileName
  <1> HIDE DEF f, nl2, c2
  <1>8. Sound(k, nl2, f, dd, c3)
    BY <1>7, SetDentry
  <1> HIDE DEF c3
  <1> QED
    BY <1>5, <1>6, <1>8 DEF f, g

\* A file is renamed to a name that another file has.
LEMMA ReplaceFile ==
    ASSUME ConstantsOK, NEW k, NEW nl, NEW e, NEW dd, NEW c, Sound(k, nl, e, dd, c),
           NEW i \in Inos, k[i] = "file",
           NEW od \in Inos, NEW on \in Names, e[od][on] = i,
           NEW t \in Inos, k[t] = "file", t # i,
           NEW nd \in Inos, NEW nn \in Names, e[nd][nn] = t
    PROVE  Sound(k, [nl EXCEPT ![t] = @ - 1], Put(Put(e, nd, nn, i), od, on, NoInode), dd,
                 [c EXCEPT ![od][on] = Unknown, ![nd][nn] = i])
PROOF
  <1> DEFINE g == Put(e, nd, nn, NoInode)
             nl1 == [nl EXCEPT ![t] = @ - 1]
             c1 == [c EXCEPT ![nd][nn] = NoInode]
             f == Put(Put(g, nd, nn, i), od, on, NoInode)
             c2 == [c1 EXCEPT ![od][on] = Unknown, ![nd][nn] = i]
  <1>1. /\ e \in [Inos -> [Names -> Inos \cup {NoInode}]]
        /\ c \in [Inos -> [Names -> Inos \cup {NoInode, Unknown}]]
    BY DEF Sound, Typed
  <1>2. ~ (od = nd /\ on = nn) /\ k[nd] = "dir"
    BY Numbers DEF Sound, Alive
  <1>3. Sound(k, nl1, g, dd, c1)
    BY DropFileName
  <1>4. g[od][on] = i /\ g[nd][nn] = NoInode
    BY <1>1, <1>2 DEF Put
  <1>5. Put(g, nd, nn, i) = Put(e, nd, nn, i)
    BY <1>1, PutTwice
  <1>6. c2 = [c EXCEPT ![od][on] = Unknown, ![nd][nn] = i]
    BY <1>1, <1>2
  <1> HIDE DEF g, nl1, c1
  <1>7. Sound(k, nl1, f, dd, c2)
    BY <1>2, <1>3, <1>4, MoveFile
  <1> HIDE DEF c2
  <1> QED
    BY <1>5, <1>6, <1>7 DEF nl1

\* A directory is renamed to the name of one that is empty.
DirectoryReplaces(k, nl, e, dd, c, i, od, on, t, nd, nn) ==
    /\ Sound([k EXCEPT ![t] = "dead"],
             [[[nl EXCEPT ![t] = @ - 1] EXCEPT ![t] = @ - 1] EXCEPT ![od] = @ - 1],
             Put(Put(e, nd, nn, i), od, on, NoInode), [dd EXCEPT ![i] = nd],
             [c EXCEPT ![od][on] = Unknown, ![nd][nn] = i])
    /\ dd[i] = od /\ t # od /\ t # nd

LEMMA ReplaceDirectory ==
    ASSUME ConstantsOK, NEW k, NEW nl, NEW e, NEW dd, NEW c, Sound(k, nl, e, dd, c),
           NEW i \in Inos, k[i] = "dir",
           NEW od \in Inos, NEW on \in Names, e[od][on] = i,
           NEW t \in Inos, k[t] = "dir", t # i, \A n \in Names : e[t][n] = NoInode,
           NEW nd \in Inos, k[nd] = "dir", NEW nn \in Names, e[nd][nn] = t,
           NEW path, Upward(k, e, path), nd \in path, i \notin path
    PROVE  DirectoryReplaces(k, nl, e, dd, c, i, od, on, t, nd, nn)
PROOF
  <1> DEFINE g == Put(e, nd, nn, NoInode)
             k2 == [k EXCEPT ![t] = "dead"]
             nl1 == [nl EXCEPT ![t] = @ - 2, ![nd] = @ - 1]
             nl2 == [[nl1 EXCEPT ![nd] = @ + 1] EXCEPT ![od] = @ - 1]
             c1 == [c EXCEPT ![nd][nn] = NoInode]
             f == Put(Put(g, nd, nn, i), od, on, NoInode)
             c2 == [c1 EXCEPT ![od][on] = Unknown, ![nd][nn] = i]
             path2 == path \ {t}
  <1>1. /\ k \in [Inos -> Kinds] /\ nl \in [Inos -> Nat]
        /\ e \in [Inos -> [Names -> Inos \cup {NoInode}]]
        /\ c \in [Inos -> [Names -> Inos \cup {NoInode, Unknown}]]
    BY DEF Sound, Typed
  <1>2. ~ (od = nd /\ on = nn) /\ t # od /\ i # NoInode
    BY Numbers
  <1>3. Sound(k2, nl1, g, dd, c1) /\ t # nd /\ nl[t] = 2 /\ nl[nd] > 2
    BY RemoveDirectory
  <1>4. /\ g[od][on] = i /\ g[nd][nn] = NoInode
        /\ \A p \in Inos, m \in Names : g[p][m] = e[p][m] \/ g[p][m] = NoInode
    BY <1>1, <1>2 DEF Put
  <1>5. Put(g, nd, nn, i) = Put(e, nd, nn, i)
    BY <1>1, PutTwice
  <1>6. c2 = [c EXCEPT ![od][on] = Unknown, ![nd][nn] = i]
    BY <1>1, <1>2
  <1>7. nl2 = [[[nl EXCEPT ![t] = @ - 1] EXCEPT ![t] = @ - 1] EXCEPT ![od] = @ - 1]
    <2> DEFINE nl3 == [[[nl EXCEPT ![t] = @ - 1] EXCEPT ![t] = @ - 1] EXCEPT ![od] = @ - 1]
    <2>1. nl2 = [j \in Inos |-> nl2[j]] /\ nl3 = [j \in Inos |-> nl3[j]]
      BY <1>1
    <2>2. nl2[t] = nl[t] - 2 /\ nl3[t] = nl[t] - 2
      BY <1>1, <1>2, <1>3
    <2>3. nl1[nd] + 1 = nl[nd] /\ \A j \in Inos : j # t /\ j # nd => nl1[j] = nl[j]
      BY <1>1, <1>3
    <2>4. \A j \in Inos : j # t /\ j # od => nl2[j] = nl[j] /\ nl3[j] = nl[j]
      BY <1>1, <2>3
    <2>5. nl2[od] = nl[od] - 1 /\ nl3[od] = nl[od] - 1
      BY <1>1, <1>2, <2>3
    <2> HIDE DEF nl2, nl3
    <2>6. \A j \in Inos : nl2[j] = nl3[j]
      BY <2>2, <2>4, <2>5
    <2>7. nl2 = nl3
      BY <2>1, <2>6
    <2> QED
      BY <2>7 DEF nl3
  <1>8. k2[i] = "dir" /\ k2[nd] = "dir" /\ \A j \in Inos : j # t => k2[j] = k[j]
    BY <1>1, <1>3
  <1>9. k2[t] = "dead"
    BY <1>1
  <1> HIDE DEF g, k2, nl1, c1
  <1>10. Upward(k2, g, path2) /\ nd \in path2 /\ i \notin path2
    <2>1. path2 \in SUBSET Inos /\ \A x \in path2 : k2[x] = "dir"
      BY <1>8 DEF Upward
    <2>2. \A p \in Inos, m \in Names : k2[p] = "dir" /\ g[p][m] \in path2 => p \in path2
      <3> SUFFICES ASSUME NEW p \in Inos, NEW m \in Names, k2[p] = "dir", g[p][m] \in path2
                   PROVE  p \in path2
        OBVIOUS
      <3>1. p # t /\ k[p] = "dir"
        BY <1>8, <1>9
      <3>2. g[p][m] \in path /\ g[p][m] # NoInode
        BY Numbers DEF Upward
      <3> QED
        BY <3>1, <3>2, <1>4 DEF Upward
    <2> QED
      BY <2>1, <2>2, <1>3 DEF Upward
  <1> HIDE DEF path2
  <1>11. DirectoryMoves(k2, nl1, g, dd, c1, i, od, on, nd, nn)
    BY <1>3, <1>4, <1>8, <1>10, MoveDirectory
  <1>12. Sound(k2, nl2, f, [dd EXCEPT ![i] = nd], c2) /\ dd[i] = od
    BY <1>11 DEF DirectoryMoves
  <1> HIDE DEF c2, nl2
  <1> QED
    BY <1>2, <1>3, <1>5, <1>6, <1>7, <1>12 DEF k2, DirectoryReplaces

-----------------------------------------------------------------------------
\* A step that keeps the invariant and undoes what failed.
StepOK == NameiInv' /\ Undone

\* The last reference goes: only what has no name is evicted.
LEMMA SettleSound ==
    ASSUME ConstantsOK, NEW k, NEW nl, NEW e, NEW dd, NEW c, Sound(k, nl, e, dd, c),
           opened' \subseteq Inos, tmp' \subseteq opened',
           \A i \in Inos : k[i] = "free" => i \notin opened' /\ dd[i] = NoInode,
           \A i \in Inos : nl[i] <= MaxLinks,
           Settle(k, nl, e, dd, c)
    PROVE  NameiInv'
PROOF
  <1> DEFINE gone == {i \in Inos \ opened' : k[i] # "free" /\ nl[i] = 0}
  <1>1. /\ k \in [Inos -> Kinds] /\ nl \in [Inos -> Nat]
        /\ e \in [Inos -> [Names -> Inos \cup {NoInode}]]
        /\ dd \in [Inos -> Inos \cup {NoInode}]
        /\ c \in [Inos -> [Names -> Inos \cup {NoInode, Unknown}]]
    BY DEF Sound, Typed
  <1>2. /\ kind' = [i \in Inos |-> IF i \in gone THEN "free" ELSE k[i]]
        /\ nlink' = nl
        /\ entry' = [i \in Inos |-> IF i \in gone THEN NoNames ELSE e[i]]
        /\ dotdot' = [i \in Inos |-> IF i \in gone THEN NoInode ELSE dd[i]]
        /\ dc' = [i \in Inos |-> IF k[i] = "dir" THEN c[i] ELSE NoDentries]
    BY DEF Settle
  <1>3. ASSUME NEW i \in gone
        PROVE  k[i] \in {"file", "dead"} /\ \A d \in Inos, n \in Names : e[d][n] # i
    <2>1. i \in Inos /\ k[i] # "free" /\ nl[i] = 0
      OBVIOUS
    <2>2. k[i] # "dir"
      <3>1. Cardinality(SubdirsIn(k, e, i)) \in Nat
        BY Countable
      <3> QED
        BY <3>1, <2>1 DEF Sound, Counted
    <2>3. CASE k[i] = "file"
      <3>1. Cardinality(NamesIn(e, i)) = 0
        BY <2>1, <2>3 DEF Sound, Counted
      <3>2. NamesIn(e, i) = {}
        BY <3>1, Countable, FS_EmptySet
      <3>3. ASSUME NEW d \in Inos, NEW n \in Names, e[d][n] = i
            PROVE  FALSE
        <4>1. <<d, n>> \in NamesIn(e, i)
          BY <3>3 DEF NamesIn
        <4> QED
          BY <4>1, <3>2
      <3> QED
        BY <2>3, <3>3
    <2>4. CASE k[i] = "dead"
      BY <2>1, <2>4, FreeHasNoName
    <2> QED
      BY <1>1, <2>1, <2>2, <2>3, <2>4 DEF Kinds
  <1>4. \A i \in gone : i \in Inos /\ k[i] \in {"file", "dead"} /\ nl[i] = 0 /\ i \notin opened'
    BY <1>3
  <1>5. \A i \in Inos : k[i] # "free" /\ nl[i] = 0 /\ i \notin opened' => i \in gone
    OBVIOUS
  <1>6. entry' = e
    <2>1. \A i \in gone : e[i] = NoNames
      <3> SUFFICES ASSUME NEW i \in gone
                   PROVE  e[i] = NoNames
        OBVIOUS
      <3>1. \A n \in Names : e[i][n] = NoInode
        BY <1>4 DEF Sound, Alive
      <3>2. e[i] \in [Names -> Inos \cup {NoInode}]
        BY <1>1, <1>4
      <3> QED
        BY <3>1, <3>2 DEF NoNames
    <2> HIDE DEF gone
    <2> QED
      BY <1>1, <1>2, <2>1
  <1> HIDE DEF gone
  <1>7. /\ kind' \in [Inos -> Kinds]
        /\ \A i \in gone : kind'[i] = "free"
        /\ \A i \in Inos \ gone : kind'[i] = k[i]
    BY <1>1, <1>2, <1>4 DEF Kinds
  <1>8. /\ dotdot' \in [Inos -> Inos \cup {NoInode}]
        /\ \A i \in gone : i \in Inos => dotdot'[i] = NoInode
        /\ \A i \in Inos \ gone : dotdot'[i] = dd[i]
    BY <1>1, <1>2
  <1>9. /\ dc' \in [Inos -> [Names -> Inos \cup {NoInode, Unknown}]]
        /\ \A i \in Inos : k[i] = "dir" => dc'[i] = c[i]
        /\ \A i \in Inos : k[i] # "dir" => \A n \in Names : dc'[i][n] = Unknown
    BY <1>1, <1>2 DEF NoDentries
  <1>10. \A i \in Inos : kind'[i] = "dir" <=> k[i] = "dir"
    BY <1>4, <1>7
  <1>11. \A i \in Inos : kind'[i] = "dir" => dotdot'[i] = dd[i]
    BY <1>4, <1>8, <1>10
  <1>12. Typed(kind', nlink', entry', dotdot', dc')
    BY <1>1, <1>2, <1>6, <1>7, <1>8, <1>9 DEF Typed
  <1>13. Alive(kind', e)
    <2> SUFFICES ASSUME NEW d \in Inos, NEW n \in Names, e[d][n] # NoInode
                 PROVE  kind'[d] = "dir" /\ kind'[e[d][n]] \in {"file", "dir"}
      BY DEF Alive
    <2>1. k[d] = "dir" /\ k[e[d][n]] \in {"file", "dir"} /\ e[d][n] \in Inos
      BY <1>1 DEF Sound, Alive
    <2>2. e[d][n] \notin gone
      BY <1>3
    <2> QED
      BY <2>1, <2>2, <1>7, <1>10
  <1>14. Counted(kind', nl, e)
    <2> SUFFICES ASSUME NEW j \in Inos
                 PROVE  /\ kind'[j] = "file" => nl[j] = Cardinality(NamesIn(e, j))
                        /\ kind'[j] = "dir" => nl[j] = 2 + Cardinality(SubdirsIn(kind', e, j))
                        /\ kind'[j] \in {"dead", "free"} => nl[j] = 0
      BY DEF Counted
    <2>1. SubdirsIn(kind', e, j) = SubdirsIn(k, e, j)
      BY <1>10, SameSubdirs
    <2>2. CASE j \in gone
      BY <2>2, <1>4, <1>7
    <2>3. CASE j \notin gone
      BY <2>1, <2>3, <1>7 DEF Sound, Counted
    <2> QED
      BY <2>2, <2>3
  <1>15. OneName(kind', e, dotdot')
    <2>1. /\ Root \in Inos /\ k[Root] = "dir" /\ dd[Root] = Root
          /\ \A p \in Inos, m \in Names : e[p][m] # Root
      BY DEF Sound, OneName, ConstantsOK
    <2>2. kind'[Root] = "dir" /\ dotdot'[Root] = Root
      BY <2>1, <1>10, <1>11
    <2>3. ASSUME NEW y \in Inos, kind'[y] = "dir", y # Root
          PROVE  /\ dotdot'[y] \in Inos
                 /\ \E m \in Names :
                     /\ e[dotdot'[y]][m] = y
                     /\ \A p \in Inos, q \in Names : e[p][q] = y => p = dotdot'[y] /\ q = m
      <3>1. k[y] = "dir" /\ dotdot'[y] = dd[y]
        BY <2>3, <1>10, <1>11
      <3>2. /\ dd[y] \in Inos
            /\ \E m \in Names :
                /\ e[dd[y]][m] = y
                /\ \A p \in Inos, q \in Names : e[p][q] = y => p = dd[y] /\ q = m
        BY <2>3, <3>1 DEF Sound, OneName
      <3> QED
        BY <3>1, <3>2
    <2> QED
      BY <2>1, <2>2, <2>3 DEF OneName
  <1>16. Rooted(kind', e)
    <2>1. \A S \in SUBSET Inos : Upward(kind', e, S) => Upward(k, e, S)
      BY <1>10 DEF Upward
    <2> QED
      BY <2>1 DEF Sound, Rooted
  <1>17. Cached(kind', e, dc')
    BY <1>9, <1>10 DEF Sound, Cached
  <1>18. Sound(kind', nlink', entry', dotdot', dc')
    BY <1>2, <1>6, <1>12, <1>13, <1>14, <1>15, <1>16, <1>17 DEF Sound
  <1>19. Kept(kind', nlink', dotdot', dc', opened')
    <2>1. \A i \in Inos : kind'[i] # "dir" => \A n \in Names : dc'[i][n] = Unknown
      BY <1>9, <1>10
    <2>2. \A i \in Inos : kind'[i] # "free" /\ nlink'[i] = 0 => i \in opened'
      BY <1>2, <1>5, <1>7
    <2>3. \A i \in Inos : kind'[i] = "free" => i \notin opened' /\ dotdot'[i] = NoInode
      BY <1>4, <1>7, <1>8
    <2> QED
      BY <2>1, <2>2, <2>3 DEF Kept
  <1> QED
    BY <1>2, <1>18, <1>19 DEF NameiInv

\* What the invariant says of the variables.
LEMMA InvFacts ==
    ASSUME NameiInv
    PROVE  /\ Sound(kind, nlink, entry, dotdot, dc)
           /\ kind \in [Inos -> Kinds] /\ nlink \in [Inos -> Nat]
           /\ entry \in [Inos -> [Names -> Inos \cup {NoInode}]]
           /\ dotdot \in [Inos -> Inos \cup {NoInode}]
           /\ dc \in [Inos -> [Names -> Inos \cup {NoInode, Unknown}]]
           /\ opened \subseteq Inos /\ tmp \subseteq opened
           /\ \A i \in Inos : nlink[i] <= MaxLinks
           /\ \A i \in Inos : kind[i] # "free" /\ nlink[i] = 0 => i \in opened
           /\ \A i \in Inos : kind[i] = "free" =>
                i \notin opened /\ dotdot[i] = NoInode /\ nlink[i] = 0
           /\ \A i \in Inos : kind[i] # "dir" => \A n \in Names : dc[i][n] = Unknown
           /\ \A d \in Inos, n \in Names :
                kind[d] = "dir" /\ dc[d][n] # Unknown => dc[d][n] = entry[d][n]
           /\ \A d \in Inos, n \in Names : entry[d][n] # NoInode =>
                entry[d][n] \in Inos /\ kind[d] = "dir" /\ kind[entry[d][n]] \in {"file", "dir"}
PROOF
  BY DEF NameiInv, Sound, Typed, Kept, Cached, Alive, Counted

\* Nothing changed.
LEMMA Unchanged ==
    ASSUME NameiInv, UNCHANGED <<kind, nlink, entry, dotdot, dc, opened, tmp>>
    PROVE  StepOK
PROOF
  <1>1. NameiInv'
    BY DEF NameiInv
  <1> QED
    BY <1>1 DEF StepOK, Undone

\* A new inode that goes again leaves no trace.
LEMMA SettleSame ==
    ASSUME ConstantsOK, NameiInv, NEW k, \A j \in Inos : k[j] = kind[j] \/ kind[j] = "free",
           opened' = opened, Settle(k, nlink, entry, dotdot, dc)
    PROVE  UNCHANGED <<kind, nlink, entry, dotdot, dc>>
PROOF
  <1> DEFINE gone == {i \in Inos \ opened' : k[i] # "free" /\ nlink[i] = 0}
  <1>1. /\ kind \in [Inos -> Kinds]
        /\ entry \in [Inos -> [Names -> Inos \cup {NoInode}]]
        /\ dotdot \in [Inos -> Inos \cup {NoInode}]
        /\ dc \in [Inos -> [Names -> Inos \cup {NoInode, Unknown}]]
        /\ \A i \in Inos : kind[i] # "free" /\ nlink[i] = 0 => i \in opened
        /\ \A i \in Inos : kind[i] = "free" =>
             i \notin opened /\ dotdot[i] = NoInode /\ nlink[i] = 0
        /\ \A i \in Inos : kind[i] # "dir" => \A n \in Names : dc[i][n] = Unknown
        /\ \A d \in Inos, n \in Names : entry[d][n] # NoInode => kind[d] = "dir"
    BY InvFacts
  <1>2. /\ kind' = [i \in Inos |-> IF i \in gone THEN "free" ELSE k[i]]
        /\ nlink' = nlink
        /\ entry' = [i \in Inos |-> IF i \in gone THEN NoNames ELSE entry[i]]
        /\ dotdot' = [i \in Inos |-> IF i \in gone THEN NoInode ELSE dotdot[i]]
        /\ dc' = [i \in Inos |-> IF k[i] = "dir" THEN dc[i] ELSE NoDentries]
    BY DEF Settle
  <1>3. \A i \in gone : i \in Inos /\ kind[i] = "free"
    BY <1>1
  <1>4. \A i \in Inos \ gone : k[i] = kind[i]
    BY <1>1
  <1>5. \A i \in Inos : kind[i] = "free" => entry[i] = NoNames /\ dc[i] = NoDentries
    <2> SUFFICES ASSUME NEW i \in Inos, kind[i] = "free"
                 PROVE  entry[i] = NoNames /\ dc[i] = NoDentries
      OBVIOUS
    <2>1. /\ entry[i] \in [Names -> Inos \cup {NoInode}]
          /\ dc[i] \in [Names -> Inos \cup {NoInode, Unknown}]
      BY <1>1
    <2>2. \A n \in Names : entry[i][n] = NoInode /\ dc[i][n] = Unknown
      BY <1>1
    <2> QED
      BY <2>1, <2>2 DEF NoNames, NoDentries
  <1>6. \A i \in Inos : kind[i] # "dir" => dc[i] = NoDentries
    <2> SUFFICES ASSUME NEW i \in Inos, kind[i] # "dir"
                 PROVE  dc[i] = NoDentries
      OBVIOUS
    <2>1. dc[i] \in [Names -> Inos \cup {NoInode, Unknown}]
      BY <1>1
    <2>2. \A n \in Names : dc[i][n] = Unknown
      BY <1>1
    <2> QED
      BY <2>1, <2>2 DEF NoDentries
  <1> HIDE DEF gone
  <1>7. kind' = kind
    BY <1>1, <1>2, <1>3, <1>4
  <1>8. entry' = entry
    BY <1>1, <1>2, <1>3, <1>5
  <1>9. dotdot' = dotdot
    BY <1>1, <1>2, <1>3
  <1>10. dc' = dc
    <2>1. \A i \in Inos : dc[i] = IF k[i] = "dir" THEN dc[i] ELSE NoDentries
      BY <1>3, <1>4, <1>6
    <2> QED
      BY <1>1, <1>2, <2>1
  <1> QED
    BY <1>2, <1>7, <1>8, <1>9, <1>10

\* Ends of an operation: refused, undone, done.
LEMMA RefusedOK ==
    ASSUME NameiInv, Refused
    PROVE  StepOK
PROOF
  BY Unchanged DEF Refused

LEMMA UndoneOK ==
    ASSUME ConstantsOK, NameiInv, NEW k, \A j \in Inos : k[j] = kind[j] \/ kind[j] = "free",
           UNCHANGED <<opened, tmp>>, NEW nl, nl = nlink, Settle(k, nl, entry, dotdot, dc)
    PROVE  StepOK
PROOF
  <1>1. UNCHANGED <<kind, nlink, entry, dotdot, dc>>
    BY SettleSame
  <1> QED
    BY <1>1, Unchanged

LEMMA DoneOK ==
    ASSUME ConstantsOK, NEW k, NEW nl, NEW e, NEW dd, NEW c, Sound(k, nl, e, dd, c),
           opened' \subseteq Inos, tmp' \subseteq opened',
           \A i \in Inos : k[i] = "free" => i \notin opened' /\ dd[i] = NoInode,
           \A i \in Inos : nl[i] <= MaxLinks,
           Settle(k, nl, e, dd, c), Result(TRUE)
    PROVE  StepOK
PROOF
  <1>1. NameiInv'
    BY SettleSound
  <1>2. Undone
    BY DEF Result, Undone
  <1> QED
    BY <1>1, <1>2 DEF StepOK

\* How adding and removing a name end when pages work.
LEMMA AddLinkEnds ==
    ASSUME PagesWork, NEW d, NEW n, NEW i, NEW a \in AddLink(d, n, i)
    PROVE  \/ a.ok = TRUE /\ entry[d][n] = NoInode /\ a.entry = Put(entry, d, n, i)
           \/ a.ok = FALSE /\ a.entry = entry
PROOF
  <1>1. "sync" \notin Faults
    BY DEF PagesWork
  <1> QED
    BY <1>1 DEF AddLink, Put

LEMMA RemovalEnds ==
    ASSUME PagesWork, NEW d, NEW n, NEW r \in Removals(d, n)
    PROVE  \/ /\ r.ok = TRUE /\ entry[d][n] # NoInode
              /\ r.entry = Put(entry, d, n, NoInode)
           \/ r.ok = FALSE /\ r.entry = entry
PROOF
  <1>1. "sync" \notin Faults
    BY DEF PagesWork
  <1> QED
    BY <1>1 DEF Removals, Put

LEMMA NewInodeIsFree == \A i \in NewInode : i \in Inos /\ kind[i] = "free"
PROOF
  BY DEF NewInode

\* What is found to be empty has no names.
LEMMA EmptyIsEmpty ==
    ASSUME NEW i, kr_empty_dir(i)
    PROVE  \A n \in Names : entry[i][n] = NoInode
PROOF
  BY DEF kr_empty_dir, NoNames

-----------------------------------------------------------------------------
\* One lemma for each operation.
LEMMA LookupOK ==
    ASSUME ConstantsOK, PagesWork, NameiInv, Lookup
    PROVE  StepOK
PROOF
  <1>1. PICK d \in Dirs, n \in Names :
          LET i == entry[d][n]
              stale == i # NoInode /\ kind[i] = "free"
          IN  /\ dc[d][n] = Unknown
              /\ dc' = IF stale THEN dc ELSE [dc EXCEPT ![d][n] = i]
              /\ Result(~stale)
              /\ UNCHANGED <<kind, nlink, entry, dotdot, opened, tmp>>
    BY DEF Lookup
  <1>3. d \in Inos /\ kind[d] = "dir"
    BY DEF Dirs
  <1>4. ~ (entry[d][n] # NoInode /\ kind[entry[d][n]] = "free")
    BY <1>3, InvFacts
  <1>5. /\ dc' = [dc EXCEPT ![d][n] = entry[d][n]] /\ Result(TRUE)
        /\ UNCHANGED <<kind, nlink, entry, dotdot, opened, tmp>>
    BY <1>1, <1>4
  <1> DEFINE c2 == [dc EXCEPT ![d][n] = entry[d][n]]
  <1>6. Sound(kind, nlink, entry, dotdot, c2)
    BY <1>3, InvFacts, SetDentry
  <1>7. Kept(kind, nlink, dotdot, c2, opened)
    <2>1. \A j \in Inos : kind[j] # "dir" => \A m \in Names : c2[j][m] = Unknown
      BY <1>3, InvFacts
    <2> HIDE DEF c2
    <2> QED
      BY <2>1 DEF NameiInv, Kept
  <1> HIDE DEF c2
  <1>8. NameiInv'
    BY <1>5, <1>6, <1>7 DEF NameiInv, c2
  <1> QED
    BY <1>5, <1>8 DEF StepOK, Undone, Result

LEMMA DropDentryOK ==
    ASSUME ConstantsOK, NameiInv, DropDentry
    PROVE  StepOK
PROOF
  <1>1. PICK d \in Inos, n \in Names :
          /\ dc' = [dc EXCEPT ![d][n] = Unknown]
          /\ Result(TRUE)
          /\ UNCHANGED <<kind, nlink, entry, dotdot, opened, tmp>>
    BY DEF DropDentry
  <1> DEFINE c2 == [dc EXCEPT ![d][n] = Unknown]
  <1>2. Sound(kind, nlink, entry, dotdot, c2)
    BY InvFacts, SetDentry
  <1>3. Kept(kind, nlink, dotdot, c2, opened)
    <2>1. \A j \in Inos : kind[j] # "dir" => \A m \in Names : c2[j][m] = Unknown
      BY InvFacts
    <2> HIDE DEF c2
    <2> QED
      BY <2>1 DEF NameiInv, Kept
  <1> HIDE DEF c2
  <1>4. NameiInv'
    BY <1>1, <1>2, <1>3 DEF NameiInv, c2
  <1> QED
    BY <1>1, <1>4 DEF StepOK, Undone, Result

LEMMA OpenOK ==
    ASSUME ConstantsOK, NameiInv, Open
    PROVE  StepOK
PROOF
  <1>1. PICK d \in Dirs, n \in Names :
          /\ Positive(d, n)
          /\ opened' = opened \cup {dc[d][n]}
          /\ Result(TRUE)
          /\ UNCHANGED <<kind, nlink, entry, dotdot, tmp, dc>>
    BY DEF Open
  <1>2. d \in Inos /\ kind[d] = "dir" /\ dc[d][n] \in Inos
    BY <1>1 DEF Positive, Dirs
  <1>3. kind[dc[d][n]] # "free"
    BY <1>2, InvFacts, Numbers
  <1>4. Kept(kind, nlink, dotdot, dc, opened')
    BY <1>1, <1>2, <1>3 DEF NameiInv, Kept
  <1>5. NameiInv'
    BY <1>1, <1>4 DEF NameiInv
  <1> QED
    BY <1>1, <1>5 DEF StepOK, Undone, Result

LEMMA CloseOK ==
    ASSUME ConstantsOK, NameiInv, Close
    PROVE  StepOK
PROOF
  <1>1. PICK i \in opened :
          /\ opened' = opened \ {i}
          /\ tmp' = tmp \ {i}
          /\ Settle(kind, nlink, entry, dotdot, dc)
          /\ Result(TRUE)
    BY DEF Close
  <1>2. opened' \subseteq Inos /\ tmp' \subseteq opened'
    BY <1>1, InvFacts
  <1>3. \A j \in Inos : kind[j] = "free" => j \notin opened' /\ dotdot[j] = NoInode
    BY <1>1, InvFacts
  <1>4. Sound(kind, nlink, entry, dotdot, dc) /\ \A j \in Inos : nlink[j] <= MaxLinks
    BY InvFacts
  <1> QED
    BY <1>1, <1>2, <1>3, <1>4, DoneOK

\* kr_add_nondir, of kr_create, kr_mknod and kr_symlink.
LEMMA AddNondirOK ==
    ASSUME ConstantsOK, PagesWork, NameiInv, NEW d \in Dirs, NEW n \in Names,
           NEW i \in NewInode, UNCHANGED <<opened, tmp>>, AddNondir(d, n, i)
    PROVE  StepOK
PROOF
  <1> DEFINE k2 == [kind EXCEPT ![i] = "file"]
             nl2 == [nlink EXCEPT ![i] = 1]
             nl0 == [nl2 EXCEPT ![i] = @ - 1]
             c2 == [dc EXCEPT ![d][n] = i]
  <1>1. PICK a \in AddLink(d, n, i) :
          /\ Settle(k2, IF a.ok THEN nl2 ELSE nl0, a.entry, dotdot,
                    IF a.ok THEN c2 ELSE dc)
          /\ Result(a.ok)
    BY DEF AddNondir
  <1>2. i \in Inos /\ kind[i] = "free" /\ d \in Inos /\ kind[d] = "dir"
    BY NewInodeIsFree DEF Dirs
  <1>3. nlink[i] = 0 /\ kind \in [Inos -> Kinds] /\ nlink \in [Inos -> Nat]
    BY <1>2, InvFacts
  <1>4. \A j \in Inos : k2[j] = IF j = i THEN "file" ELSE kind[j]
    BY <1>3
  <1>5. CASE a.ok = TRUE /\ entry[d][n] = NoInode /\ a.entry = Put(entry, d, n, i)
    <2>1. Sound(k2, nlink, entry, dotdot, dc)
      BY <1>2, InvFacts, FreshFile
    <2>2. k2[i] = "file" /\ k2[d] = "dir"
      BY <1>2, <1>4
    <2>3. nl2 = [nlink EXCEPT ![i] = @ + 1]
      BY <1>2, <1>3
    <2>4. \A j \in Inos : nl2[j] <= MaxLinks
      BY <1>2, <1>3, InvFacts DEF ConstantsOK
    <2>5. Settle(k2, nl2, Put(entry, d, n, i), dotdot, c2) /\ Result(TRUE)
      BY <1>1, <1>5
    <2> HIDE DEF k2
    <2>6. Sound(k2, nl2, Put(entry, d, n, i), dotdot, c2)
      BY <1>2, <1>5, <2>1, <2>2, <2>3, AddFileName
    <2>7. \A j \in Inos : k2[j] = "free" => j \notin opened' /\ dotdot[j] = NoInode
      BY <1>4, InvFacts
    <2>8. opened' \subseteq Inos /\ tmp' \subseteq opened'
      BY InvFacts
    <2> HIDE DEF nl2, c2
    <2> QED
      BY <2>4, <2>5, <2>6, <2>7, <2>8, DoneOK
  <1>6. CASE a.ok = FALSE /\ a.entry = entry
    <2>1. nl0 = nlink
      <3>1. nl0 = [j \in Inos |-> nl0[j]] /\ \A j \in Inos : nl0[j] = nlink[j]
        BY <1>2, <1>3
      <3> HIDE DEF nl0
      <3> QED
        BY <3>1, <1>3
    <2>2. Settle(k2, nl0, entry, dotdot, dc)
      BY <1>1, <1>6
    <2>3. \A j \in Inos : k2[j] = kind[j] \/ kind[j] = "free"
      BY <1>2, <1>4
    <2> HIDE DEF k2, nl0
    <2> QED
      BY <2>1, <2>2, <2>3, UndoneOK
  <1> QED
    BY <1>5, <1>6, AddLinkEnds

LEMMA CreateOK ==
    ASSUME ConstantsOK, PagesWork, NameiInv, Create
    PROVE  StepOK
PROOF
  <1>1. PICK d \in Dirs, n \in Names :
          \/ NoNewInode
          \/ \E i \in NewInode : UNCHANGED <<opened, tmp>> /\ AddNondir(d, n, i)
    BY DEF Create
  <1>2. CASE NoNewInode
    BY <1>2, RefusedOK DEF NoNewInode
  <1>3. CASE \E i \in NewInode : UNCHANGED <<opened, tmp>> /\ AddNondir(d, n, i)
    BY <1>3, AddNondirOK
  <1> QED
    BY <1>1, <1>2, <1>3

LEMMA SymlinkOK ==
    ASSUME ConstantsOK, PagesWork, NameiInv, Symlink
    PROVE  StepOK
PROOF
  <1>1. PICK d \in Dirs, n \in Names, i \in NewInode :
          LET nl == [nlink EXCEPT ![i] = 1]
          IN  /\ UNCHANGED <<opened, tmp>>
              /\ \/ AddNondir(d, n, i)
                 \/ Settle([kind EXCEPT ![i] = "file"], [nl EXCEPT ![i] = @ - 1],
                           entry, dotdot, dc)
    BY DEF Symlink
  <1>2. CASE AddNondir(d, n, i)
    BY <1>1, <1>2, AddNondirOK
  <1>3. CASE ~ AddNondir(d, n, i)
    <2> DEFINE k2 == [kind EXCEPT ![i] = "file"]
               nl0 == [[nlink EXCEPT ![i] = 1] EXCEPT ![i] = @ - 1]
    <2>1. Settle(k2, nl0, entry, dotdot, dc)
      BY <1>1, <1>3
    <2>2. i \in Inos /\ kind[i] = "free"
      BY NewInodeIsFree
    <2>3. nlink[i] = 0 /\ kind \in [Inos -> Kinds] /\ nlink \in [Inos -> Nat]
      BY <2>2, InvFacts
    <2>4. nl0 = nlink
      <3>1. nl0 = [j \in Inos |-> nl0[j]] /\ \A j \in Inos : nl0[j] = nlink[j]
        BY <2>2, <2>3
      <3> HIDE DEF nl0
      <3> QED
        BY <3>1, <2>3
    <2>5. \A j \in Inos : k2[j] = kind[j] \/ kind[j] = "free"
      BY <2>2, <2>3
    <2> HIDE DEF k2, nl0
    <2> QED
      BY <1>1, <2>1, <2>4, <2>5, UndoneOK
  <1> QED
    BY <1>2, <1>3

LEMMA TmpfileOK ==
    ASSUME ConstantsOK, PagesWork, NameiInv, Tmpfile
    PROVE  StepOK
PROOF
  <1>1. CASE NoNewInode
    BY <1>1, RefusedOK DEF NoNewInode
  <1>2. CASE ~ NoNewInode
    <2>1. PICK i \in NewInode :
            /\ opened' = opened \cup {i}
            /\ tmp' = tmp \cup {i}
            /\ Settle([kind EXCEPT ![i] = "file"], [nlink EXCEPT ![i] = 0], entry, dotdot, dc)
            /\ Result(TRUE)
      BY <1>2 DEF Tmpfile
    <2> DEFINE k2 == [kind EXCEPT ![i] = "file"]
    <2>2. i \in Inos /\ kind[i] = "free"
      BY NewInodeIsFree
    <2>3. nlink[i] = 0 /\ kind \in [Inos -> Kinds] /\ nlink \in [Inos -> Nat]
      BY <2>2, InvFacts
    <2>4. [nlink EXCEPT ![i] = 0] = nlink
      BY <2>2, <2>3
    <2>5. Sound(k2, nlink, entry, dotdot, dc)
      BY <2>2, InvFacts, FreshFile
    <2>6. \A j \in Inos : k2[j] = IF j = i THEN "file" ELSE kind[j]
      BY <2>3
    <2>7. Settle(k2, nlink, entry, dotdot, dc)
      BY <2>1, <2>4
    <2> HIDE DEF k2
    <2>8. \A j \in Inos : k2[j] = "free" => j \notin opened' /\ dotdot[j] = NoInode
      BY <2>1, <2>6, InvFacts
    <2>9. opened' \subseteq Inos /\ tmp' \subseteq opened' /\ \A j \in Inos : nlink[j] <= MaxLinks
      BY <2>1, <2>2, InvFacts
    <2> QED
      BY <2>1, <2>5, <2>7, <2>8, <2>9, DoneOK
  <1> QED
    BY <1>1, <1>2

LEMMA LinkOK ==
    ASSUME ConstantsOK, PagesWork, NameiInv, Link
    PROVE  StepOK
PROOF
  <1>1. PICK d \in Dirs, n \in Names, i \in Inos :
          /\ kind[i] = "file" /\ nlink[i] < MaxLinks
          /\ LET nl == [nlink EXCEPT ![i] = @ + 1]
             IN  \/ Refused
                 \/ \E a \in AddLink(d, n, i) :
                     /\ opened' = opened
                     /\ tmp' = IF a.ok THEN tmp \ {i} ELSE tmp
                     /\ Settle(kind, IF a.ok THEN nl ELSE [nl EXCEPT ![i] = @ - 1],
                               a.entry, dotdot, IF a.ok THEN [dc EXCEPT ![d][n] = i] ELSE dc)
                     /\ Result(a.ok)
    BY DEF Link
  <1>2. CASE Refused
    BY <1>2, RefusedOK
  <1>3. CASE ~ Refused
    <2> DEFINE nl2 == [nlink EXCEPT ![i] = @ + 1]
               nl0 == [nl2 EXCEPT ![i] = @ - 1]
               c2 == [dc EXCEPT ![d][n] = i]
    <2>1. PICK a \in AddLink(d, n, i) :
            /\ opened' = opened
            /\ tmp' = IF a.ok THEN tmp \ {i} ELSE tmp
            /\ Settle(kind, IF a.ok THEN nl2 ELSE nl0, a.entry, dotdot,
                      IF a.ok THEN c2 ELSE dc)
            /\ Result(a.ok)
      BY <1>1, <1>3
    <2>2. d \in Inos /\ kind[d] = "dir"
      BY DEF Dirs
    <2>3. nlink \in [Inos -> Nat]
      BY InvFacts
    <2>4. CASE a.ok = TRUE /\ entry[d][n] = NoInode /\ a.entry = Put(entry, d, n, i)
      <3>1. Sound(kind, nl2, Put(entry, d, n, i), dotdot, c2)
        BY <1>1, <2>2, <2>4, InvFacts, AddFileName
      <3>2. \A j \in Inos : nl2[j] <= MaxLinks
        BY <1>1, <2>3, InvFacts DEF ConstantsOK
      <3>3. Settle(kind, nl2, Put(entry, d, n, i), dotdot, c2) /\ Result(TRUE)
        BY <2>1, <2>4
      <3>4. \A j \in Inos : kind[j] = "free" => j \notin opened' /\ dotdot[j] = NoInode
        BY <2>1, InvFacts
      <3>5. opened' \subseteq Inos /\ tmp' \subseteq opened'
        BY <2>1, InvFacts
      <3> HIDE DEF nl2, c2
      <3> QED
        BY <3>1, <3>2, <3>3, <3>4, <3>5, DoneOK
    <2>5. CASE a.ok = FALSE /\ a.entry = entry
      <3>1. nl0 = nlink
        <4>1. nl0 = [j \in Inos |-> nl0[j]] /\ \A j \in Inos : nl0[j] = nlink[j]
          BY <2>3
        <4> HIDE DEF nl0
        <4> QED
          BY <4>1, <2>3
      <3>2. Settle(kind, nl0, entry, dotdot, dc) /\ UNCHANGED <<opened, tmp>>
        BY <2>1, <2>5
      <3> HIDE DEF nl0
      <3> QED
        BY <3>1, <3>2, UndoneOK
    <2> QED
      BY <2>4, <2>5, AddLinkEnds
  <1> QED
    BY <1>2, <1>3

LEMMA MkdirOK ==
    ASSUME ConstantsOK, PagesWork, NameiInv, Mkdir
    PROVE  StepOK
PROOF
  <1>1. PICK d \in Dirs, n \in Names :
          /\ nlink[d] < MaxLinks
          /\ UNCHANGED <<opened, tmp>>
          /\ LET up == [nlink EXCEPT ![d] = @ + 1]
                 outDir(nl) == [nl EXCEPT ![d] = @ - 1]
                 fail(k, nl, e) == Settle(k, outDir(nl), e, dotdot, dc) /\ Result(FALSE)
             IN  \/ fail(kind, up, entry)
                 \/ \E i \in NewInode :
                     LET k == [kind EXCEPT ![i] = "dir"]
                         nl == [up EXCEPT ![i] = 2]
                         undone == [nl EXCEPT ![i] = @ - 2]
                     IN  \/ fail(k, undone, entry)
                         \/ \E a \in AddLink(d, n, i) :
                             \/ ~a.ok /\ fail(k, undone, a.entry)
                             \/ /\ a.ok
                                /\ Settle(k, nl, a.entry, [dotdot EXCEPT ![i] = d],
                                          [dc EXCEPT ![d][n] = i])
                                /\ Result(TRUE)
    BY DEF Mkdir
  <1> DEFINE up == [nlink EXCEPT ![d] = @ + 1]
             down == [up EXCEPT ![d] = @ - 1]
  <1>2. d \in Inos /\ kind[d] = "dir" /\ nlink \in [Inos -> Nat] /\ kind \in [Inos -> Kinds]
    BY InvFacts DEF Dirs
  <1>3. CASE Settle(kind, down, entry, dotdot, dc)
    <2>1. down = nlink
      <3>1. down = [j \in Inos |-> down[j]] /\ \A j \in Inos : down[j] = nlink[j]
        BY <1>2
      <3> HIDE DEF down
      <3> QED
        BY <3>1, <1>2
    <2> HIDE DEF down
    <2> QED
      BY <1>1, <1>3, <2>1, UndoneOK
  <1>4. CASE ~ Settle(kind, down, entry, dotdot, dc)
    <2>1. PICK i \in NewInode :
            LET k == [kind EXCEPT ![i] = "dir"]
                nl == [up EXCEPT ![i] = 2]
                undone == [[nl EXCEPT ![i] = @ - 2] EXCEPT ![d] = @ - 1]
            IN  \/ Settle(k, undone, entry, dotdot, dc)
                \/ \E a \in AddLink(d, n, i) :
                    \/ ~a.ok /\ Settle(k, undone, a.entry, dotdot, dc)
                    \/ /\ a.ok
                       /\ Settle(k, nl, a.entry, [dotdot EXCEPT ![i] = d],
                                 [dc EXCEPT ![d][n] = i])
                       /\ Result(TRUE)
      BY <1>1, <1>4
    <2> DEFINE k2 == [kind EXCEPT ![i] = "dir"]
               nl2 == [up EXCEPT ![i] = 2]
               nl0 == [[nl2 EXCEPT ![i] = @ - 2] EXCEPT ![d] = @ - 1]
               dd2 == [dotdot EXCEPT ![i] = d]
               c2 == [dc EXCEPT ![d][n] = i]
    <2>2. i \in Inos /\ kind[i] = "free" /\ i # d
      BY <1>2, NewInodeIsFree
    <2>3. nlink[i] = 0 /\ dotdot \in [Inos -> Inos \cup {NoInode}]
      BY <2>2, InvFacts
    <2>4. \A j \in Inos : k2[j] = IF j = i THEN "dir" ELSE kind[j]
      BY <1>2
    <2>5. CASE Settle(k2, nl0, entry, dotdot, dc)
      <3>1. nl0 = nlink
        <4>1. nl2 \in [Inos -> Nat] /\ nl2[i] = 2 /\ nl2[d] = nlink[d] + 1
          BY <1>2, <2>2
        <4>2. \A j \in Inos : j # i /\ j # d => nl2[j] = nlink[j]
          BY <1>2
        <4> HIDE DEF nl2
        <4> DEFINE nl1 == [nl2 EXCEPT ![i] = @ - 2]
        <4>3. nl1 \in [Inos -> Nat] /\ nl1[i] = 0 /\ \A j \in Inos : j # i => nl1[j] = nl2[j]
          BY <2>2, <4>1
        <4> HIDE DEF nl1
        <4>4. nl0 = [nl1 EXCEPT ![d] = nl1[d] - 1]
          BY <1>2, <4>3 DEF nl1
        <4> HIDE DEF nl0
        <4>5. nl0 = [j \in Inos |-> nl0[j]] /\ nl0[i] = 0 /\ nl0[d] = nl2[d] - 1
          BY <1>2, <2>2, <4>3, <4>4
        <4>6. \A j \in Inos : j # i /\ j # d => nl0[j] = nlink[j]
          BY <4>2, <4>3, <4>4
        <4>7. \A j \in Inos : nl0[j] = nlink[j]
          BY <1>2, <2>3, <4>1, <4>5, <4>6
        <4> QED
          BY <1>2, <4>5, <4>7
      <3>2. \A j \in Inos : k2[j] = kind[j] \/ kind[j] = "free"
        BY <2>2, <2>4
      <3> HIDE DEF nl0, k2
      <3> QED
        BY <1>1, <2>5, <3>1, <3>2, UndoneOK
    <2>6. CASE ~ Settle(k2, nl0, entry, dotdot, dc)
      <3>1. PICK a \in AddLink(d, n, i) :
              \/ ~a.ok /\ Settle(k2, nl0, a.entry, dotdot, dc)
              \/ a.ok /\ Settle(k2, nl2, a.entry, dd2, c2) /\ Result(TRUE)
        BY <2>1, <2>6
      <3>2. /\ entry[d][n] = NoInode
            /\ Settle(k2, nl2, Put(entry, d, n, i), dd2, c2) /\ Result(TRUE)
        <4>1. CASE a.ok = FALSE /\ a.entry = entry
          BY <2>6, <3>1, <4>1
        <4>2. CASE a.ok = TRUE /\ entry[d][n] = NoInode /\ a.entry = Put(entry, d, n, i)
          <5>1. Settle(k2, nl2, a.entry, dd2, c2) /\ Result(TRUE)
            BY <3>1, <4>2
          <5> QED
            BY <4>2, <5>1
        <4> QED
          BY <4>1, <4>2, AddLinkEnds
      <3>3. \A m \in Names : dc[i][m] = Unknown
        BY <2>2, InvFacts
      <3>4. Sound(k2, nl2, Put(entry, d, n, i), dd2, c2)
        BY <1>2, <2>2, <3>2, <3>3, InvFacts, NewDirectory
      <3>5. \A j \in Inos : nl2[j] <= MaxLinks
        <4>1. \A j \in Inos : nl2[j] = IF j = i THEN 2 ELSE IF j = d THEN nlink[d] + 1 ELSE nlink[j]
          BY <1>2, <2>2
        <4> HIDE DEF nl2
        <4> QED
          BY <1>1, <1>2, <4>1, InvFacts DEF ConstantsOK
      <3>6. \A j \in Inos : k2[j] = "free" => j \notin opened' /\ dd2[j] = NoInode
        BY <1>1, <2>3, <2>4, InvFacts
      <3>7. opened' \subseteq Inos /\ tmp' \subseteq opened'
        BY <1>1, InvFacts
      <3> HIDE DEF k2, nl2, dd2, c2
      <3> QED
        BY <3>2, <3>4, <3>5, <3>6, <3>7, DoneOK
    <2> QED
      BY <2>5, <2>6
  <1> QED
    BY <1>3, <1>4

LEMMA UnlinkOK ==
    ASSUME ConstantsOK, PagesWork, NameiInv, Unlink
    PROVE  StepOK
PROOF
  <1>1. PICK d \in Dirs, n \in Names :
          LET i == dc[d][n]
          IN  /\ Positive(d, n) /\ ~IsDir(i)
              /\ UNCHANGED <<opened, tmp>>
              /\ \E r \in Removals(d, n) :
                  /\ Settle(kind, IF r.ok THEN [nlink EXCEPT ![i] = @ - 1] ELSE nlink,
                            r.entry, dotdot,
                            IF r.ok THEN [dc EXCEPT ![d][n] = NoInode] ELSE dc)
                  /\ Result(r.ok)
    BY DEF Unlink
  <1>2. d \in Inos /\ kind[d] = "dir" /\ dc[d][n] \in Inos /\ kind[dc[d][n]] # "dir"
    BY <1>1 DEF Dirs, Positive, IsDir
  <1>3. dc[d][n] = entry[d][n] /\ kind[dc[d][n]] = "file"
    BY <1>2, InvFacts, Numbers
  <1>4. PICK i \in Inos : i = dc[d][n]
    BY <1>2
  <1> DEFINE nl2 == [nlink EXCEPT ![i] = @ - 1]
             c2 == [dc EXCEPT ![d][n] = NoInode]
  <1>5. PICK r \in Removals(d, n) :
          /\ Settle(kind, IF r.ok THEN nl2 ELSE nlink, r.entry, dotdot, IF r.ok THEN c2 ELSE dc)
          /\ Result(r.ok)
    BY <1>1, <1>4
  <1>6. CASE r.ok = TRUE /\ r.entry = Put(entry, d, n, NoInode)
    <2>1. Sound(kind, nl2, Put(entry, d, n, NoInode), dotdot, c2) /\ nlink[i] > 0
      <3>1. kind[i] = "file" /\ entry[d][n] = i /\ Sound(kind, nlink, entry, dotdot, dc)
        BY <1>3, <1>4, InvFacts
      <3> QED
        BY <1>2, <3>1, DropFileName
    <2>2. \A j \in Inos : nl2[j] <= MaxLinks
      <3>1. nlink \in [Inos -> Nat] /\ \A j \in Inos : nlink[j] <= MaxLinks
        BY InvFacts
      <3>2. \A j \in Inos : nl2[j] = IF j = i THEN nlink[j] - 1 ELSE nlink[j]
        BY <3>1
      <3> HIDE DEF nl2
      <3> QED
        BY <3>1, <3>2 DEF ConstantsOK
    <2>3. Settle(kind, nl2, Put(entry, d, n, NoInode), dotdot, c2) /\ Result(TRUE)
      BY <1>5, <1>6
    <2>4. \A j \in Inos : kind[j] = "free" => j \notin opened' /\ dotdot[j] = NoInode
      BY <1>1, InvFacts
    <2>5. opened' \subseteq Inos /\ tmp' \subseteq opened'
      BY <1>1, InvFacts
    <2> HIDE DEF nl2, c2
    <2> QED
      BY <2>1, <2>2, <2>3, <2>4, <2>5, DoneOK
  <1>7. CASE r.ok = FALSE /\ r.entry = entry
    <2>1. Settle(kind, nlink, entry, dotdot, dc)
      BY <1>5, <1>7
    <2> QED
      BY <1>1, <2>1, UndoneOK
  <1> QED
    BY <1>6, <1>7, RemovalEnds

LEMMA RmdirOK ==
    ASSUME ConstantsOK, PagesWork, NameiInv, Rmdir
    PROVE  StepOK
PROOF
  <1>1. PICK d \in Dirs, n \in Names :
          LET i == dc[d][n]
          IN  /\ Positive(d, n) /\ IsDir(i)
              /\ \/ Refused
                 \/ /\ kr_empty_dir(i)
                    /\ UNCHANGED <<opened, tmp>>
                    /\ \E r \in Removals(d, n) :
                        /\ Settle(IF r.ok THEN [kind EXCEPT ![i] = "dead"] ELSE kind,
                                  IF r.ok THEN [nlink EXCEPT ![i] = @ - 2, ![d] = @ - 1]
                                  ELSE nlink,
                                  r.entry, dotdot,
                                  IF r.ok THEN [dc EXCEPT ![d][n] = NoInode] ELSE dc)
                        /\ Result(r.ok)
    BY DEF Rmdir
  <1>2. d \in Inos /\ kind[d] = "dir" /\ dc[d][n] \in Inos /\ kind[dc[d][n]] = "dir"
    BY <1>1 DEF Dirs, Positive, IsDir
  <1>3. dc[d][n] = entry[d][n]
    BY <1>2, InvFacts, Numbers
  <1>4. PICK i \in Inos : i = dc[d][n]
    BY <1>2
  <1>5. CASE Refused
    BY <1>5, RefusedOK
  <1>6. CASE ~ Refused
    <2> DEFINE k2 == [kind EXCEPT ![i] = "dead"]
               nl2 == [nlink EXCEPT ![i] = @ - 2, ![d] = @ - 1]
               c2 == [dc EXCEPT ![d][n] = NoInode]
    <2>1. UNCHANGED <<opened, tmp>> /\ \A m \in Names : entry[i][m] = NoInode
      BY <1>1, <1>4, <1>6, EmptyIsEmpty
    <2>2. PICK r \in Removals(d, n) :
            /\ Settle(IF r.ok THEN k2 ELSE kind, IF r.ok THEN nl2 ELSE nlink,
                      r.entry, dotdot, IF r.ok THEN c2 ELSE dc)
            /\ Result(r.ok)
      BY <1>1, <1>4, <1>6
    <2>3. CASE r.ok = TRUE /\ r.entry = Put(entry, d, n, NoInode)
      <3>1. /\ Sound(k2, nl2, Put(entry, d, n, NoInode), dotdot, c2)
            /\ i # d /\ nlink[i] = 2 /\ nlink[d] > 2
        <4>1. kind[i] = "dir" /\ entry[d][n] = i /\ Sound(kind, nlink, entry, dotdot, dc)
          BY <1>2, <1>3, <1>4, InvFacts
        <4> QED
          BY <1>2, <2>1, <4>1, RemoveDirectory
      <3>2. \A j \in Inos : nl2[j] <= MaxLinks
        <4>1. nlink \in [Inos -> Nat] /\ \A j \in Inos : nlink[j] <= MaxLinks
          BY InvFacts
        <4>2. \A j \in Inos : nl2[j] = IF j = d THEN nlink[j] - 1
                                       ELSE IF j = i THEN nlink[j] - 2 ELSE nlink[j]
          BY <1>2, <3>1, <4>1
        <4> HIDE DEF nl2
        <4> QED
          BY <4>1, <4>2 DEF ConstantsOK
      <3>3. Settle(k2, nl2, Put(entry, d, n, NoInode), dotdot, c2) /\ Result(TRUE)
        BY <2>2, <2>3
      <3>4. \A j \in Inos : k2[j] = "free" => j \notin opened' /\ dotdot[j] = NoInode
        BY <2>1, InvFacts
      <3>5. opened' \subseteq Inos /\ tmp' \subseteq opened'
        BY <2>1, InvFacts
      <3> HIDE DEF k2, nl2, c2
      <3>6. Sound(k2, nl2, Put(entry, d, n, NoInode), dotdot, c2)
        BY <3>1
      <3> QED
        BY ONLY <3>6, <3>2, <3>3, <3>4, <3>5, ConstantsOK, DoneOK
    <2>4. CASE r.ok = FALSE /\ r.entry = entry
      <3>1. Settle(kind, nlink, entry, dotdot, dc)
        BY <2>2, <2>4
      <3> QED
        BY <2>1, <3>1, UndoneOK
    <2> QED
      BY <2>3, <2>4, RemovalEnds
  <1> QED
    BY <1>5, <1>6

\* A directory that is not above nd is outside some way up from there.
LEMMA AbovePath ==
    ASSUME NameiInv, NEW nd \in Dirs, NEW i \in Dirs, i \notin Above(nd)
    PROVE  \E path : Upward(kind, entry, path) /\ nd \in path /\ i \notin path
PROOF
  <1>1. PICK S \in SUBSET Dirs :
          /\ nd \in S
          /\ \A p \in Dirs \ S : \A n \in Names : entry[p][n] \notin S
          /\ i \notin S
    BY DEF Above
  <1>2. Upward(kind, entry, S)
    BY <1>1 DEF Upward, Dirs
  <1> QED
    BY <1>1, <1>2

\* The end of a rename, with the link counts and the ".." that it settles.
RenameSettles(i, od, on, nd, nn, k, nl, e, nl2, dd2) ==
    /\ RenameEnd(i, od, on, nd, nn, k, nl, e)
    /\ nl2 = IF IsDir(i) THEN [nl EXCEPT ![od] = @ - 1] ELSE nl
    /\ dd2 = IF IsDir(i) /\ od # nd THEN [dotdot EXCEPT ![i] = nd] ELSE dotdot
    /\ Sound(k, nl2, Put(e, od, on, NoInode), dd2,
             [dc EXCEPT ![od][on] = Unknown, ![nd][nn] = i])
    /\ \A j \in Inos : k[j] = "free" => kind[j] = "free"
    /\ \A j \in Inos : nl2[j] <= MaxLinks

LEMMA RenameEndOK ==
    ASSUME ConstantsOK, NameiInv, NEW i \in Inos, NEW od \in Inos, NEW on \in Names,
           NEW nd \in Inos, NEW nn \in Names, NEW k, NEW nl, NEW e, NEW nl2, NEW dd2,
           RenameSettles(i, od, on, nd, nn, k, nl, e, nl2, dd2), tmp' = tmp
    PROVE  StepOK
PROOF
  <1> USE DEF RenameSettles
  <1> DEFINE c2 == [dc EXCEPT ![od][on] = Unknown, ![nd][nn] = i]
             f == Put(e, od, on, NoInode)
  <1>1. opened' = opened /\ Settle(k, nl2, f, dd2, c2) /\ Result(TRUE)
    BY DEF RenameEnd, Put
  <1>2. Sound(k, nl2, f, dd2, c2)
    OBVIOUS
  <1> HIDE DEF f, c2
  <1>3. opened' \subseteq Inos /\ tmp' \subseteq opened'
    BY <1>1, InvFacts
  <1>4. \A j \in Inos : k[j] = "free" => j \notin opened' /\ dd2[j] = NoInode
    <2> SUFFICES ASSUME NEW j \in Inos, k[j] = "free"
                 PROVE  j \notin opened' /\ dd2[j] = NoInode
      OBVIOUS
    <2>1. kind[j] = "free" /\ j \notin opened /\ dotdot[j] = NoInode
          /\ dotdot \in [Inos -> Inos \cup {NoInode}]
      BY InvFacts
    <2>2. dd2[j] = NoInode
      <3>1. CASE IsDir(i) /\ od # nd
        <4>1. j # i
          BY <2>1, <3>1 DEF IsDir
        <4> QED
          BY <2>1, <3>1, <4>1
      <3>2. CASE ~ (IsDir(i) /\ od # nd)
        BY <2>1, <3>2
      <3> QED
        BY <3>1, <3>2
    <2> QED
      BY <1>1, <2>1, <2>2
  <1>5. \A j \in Inos : nl2[j] <= MaxLinks
    OBVIOUS
  <1> QED
    BY ONLY <1>1, <1>2, <1>3, <1>4, <1>5, ConstantsOK, DoneOK

\* To a new name.
LEMMA RenameToOK ==
    ASSUME ConstantsOK, PagesWork, NameiInv, NEW i \in Inos,
           NEW od \in Dirs, NEW on \in Names, entry[od][on] = i,
           NEW nd \in Dirs, NEW nn \in Names, entry[nd][nn] = NoInode,
           IsDir(i) => i \notin Above(nd),
           IsDir(i) /\ od # nd => nlink[nd] < MaxLinks,
           RenameTo(i, od, on, nd, nn), tmp' = tmp
    PROVE  StepOK
PROOF
  <1> DEFINE nl == IF IsDir(i) THEN [nlink EXCEPT ![nd] = @ + 1] ELSE nlink
             nl2 == IF IsDir(i) THEN [nl EXCEPT ![od] = @ - 1] ELSE nl
             dd2 == IF IsDir(i) /\ od # nd THEN [dotdot EXCEPT ![i] = nd] ELSE dotdot
             g == Put(entry, nd, nn, i)
             f == Put(g, od, on, NoInode)
             c2 == [dc EXCEPT ![od][on] = Unknown, ![nd][nn] = i]
  <1>1. /\ od \in Inos /\ kind[od] = "dir" /\ nd \in Inos /\ kind[nd] = "dir"
        /\ kind[i] \in {"file", "dir"}
    BY InvFacts, Numbers DEF Dirs
  <1>2. /\ nlink \in [Inos -> Nat] /\ dotdot \in [Inos -> Inos \cup {NoInode}]
        /\ Sound(kind, nlink, entry, dotdot, dc)
        /\ \A j \in Inos : nlink[j] <= MaxLinks
    BY InvFacts
  <1>3. Sound(kind, nl2, f, dd2, c2) /\ \A j \in Inos : nl2[j] <= MaxLinks
    <2>1. CASE kind[i] = "file"
      <3>1. ~ IsDir(i)
        BY <2>1 DEF IsDir
      <3>2. nl2 = nlink /\ dd2 = dotdot
        BY <3>1
      <3>3. Sound(kind, nlink, f, dotdot, c2)
        BY <1>1, <1>2, <2>1, MoveFile
      <3> HIDE DEF nl2, dd2, f, c2
      <3> QED
        BY <1>2, <3>2, <3>3
    <2>2. CASE kind[i] = "dir"
      <3>1. IsDir(i) /\ i \in Dirs
        BY <2>2 DEF IsDir, Dirs
      <3>2. PICK path : Upward(kind, entry, path) /\ nd \in path /\ i \notin path
        BY <3>1, AbovePath
      <3>3. DirectoryMoves(kind, nlink, entry, dotdot, dc, i, od, on, nd, nn)
        BY <1>1, <1>2, <2>2, <3>2, MoveDirectory
      <3>4. dotdot[i] = od
        BY <3>3 DEF DirectoryMoves
      <3>5. dd2 = [dotdot EXCEPT ![i] = nd]
        <4>1. CASE od = nd
          BY <1>2, <3>4, <4>1
        <4>2. CASE od # nd
          BY <3>1, <4>2
        <4> QED
          BY <4>1, <4>2
      <3>6. nl2 = [[nlink EXCEPT ![nd] = @ + 1] EXCEPT ![od] = @ - 1]
        BY <3>1
      <3>7. \A j \in Inos : nl2[j] <= MaxLinks
        <4> DEFINE nl1 == [nlink EXCEPT ![nd] = @ + 1]
        <4>1. /\ nl1 \in [Inos -> Nat] /\ nl1[nd] = nlink[nd] + 1
              /\ \A j \in Inos : j # nd => nl1[j] = nlink[j]
          BY <1>1, <1>2
        <4> HIDE DEF nl1
        <4>2. nl2 = [nl1 EXCEPT ![od] = @ - 1]
          BY <3>6 DEF nl1
        <4> HIDE DEF nl2
        <4>3. nl2[od] = nl1[od] - 1 /\ \A j \in Inos : j # od => nl2[j] = nl1[j]
          BY <1>1, <4>1, <4>2
        <4>4. \A j \in Inos : nlink[j] \in Nat /\ nlink[j] <= MaxLinks
          BY <1>2
        <4>5. MaxLinks \in Nat
          BY DEF ConstantsOK
        <4> QED
          BY <1>1, <3>1, <4>1, <4>3, <4>4, <4>5
      <3>8. Sound(kind, nl2, f, dd2, c2)
        <4> HIDE DEF nl2, dd2
        <4> QED
          BY <3>3, <3>5, <3>6 DEF DirectoryMoves
      <3> QED
        BY <3>7, <3>8
    <2> QED
      BY <1>1, <2>1, <2>2
  <1>4. PICK a \in AddLink(nd, nn, i) :
          \/ ~a.ok /\ opened' = opened /\ Settle(kind, nlink, a.entry, dotdot, dc)
          \/ a.ok /\ RenameEnd(i, od, on, nd, nn, kind, nl, a.entry)
    BY DEF RenameTo
  <1>5. CASE a.ok = TRUE /\ a.entry = Put(entry, nd, nn, i)
    <2>1. RenameEnd(i, od, on, nd, nn, kind, nl, g)
      BY <1>4, <1>5
    <2>2. nl2 = IF IsDir(i) THEN [nl EXCEPT ![od] = @ - 1] ELSE nl
      OBVIOUS
    <2>3. dd2 = IF IsDir(i) /\ od # nd THEN [dotdot EXCEPT ![i] = nd] ELSE dotdot
      OBVIOUS
    <2> HIDE DEF nl, nl2, dd2, g
    <2>4. RenameSettles(i, od, on, nd, nn, kind, nl, g, nl2, dd2)
      BY <1>1, <1>3, <2>1, <2>2, <2>3 DEF RenameSettles
    <2> QED
      BY <1>1, <2>4, RenameEndOK
  <1>6. CASE a.ok = FALSE /\ a.entry = entry
    <2>1. Settle(kind, nlink, entry, dotdot, dc) /\ UNCHANGED <<opened, tmp>>
      BY <1>4, <1>6
    <2> QED
      BY <2>1, UndoneOK
  <1>7. \/ a.ok = TRUE /\ entry[nd][nn] = NoInode /\ a.entry = Put(entry, nd, nn, i)
        \/ a.ok = FALSE /\ a.entry = entry
    BY <1>4, AddLinkEnds
  <1> QED
    BY <1>5, <1>6, <1>7

\* To a name that is there.
LEMMA RenameOverOK ==
    ASSUME ConstantsOK, PagesWork, NameiInv, NEW i \in Inos,
           NEW od \in Dirs, NEW on \in Names, entry[od][on] = i,
           NEW nd \in Dirs, NEW nn \in Names, NEW t \in Inos, t # i,
           dc[nd][nn] = t, entry[nd][nn] = t,
           IsDir(i) => i \notin Above(nd), IsDir(t) <=> IsDir(i),
           RenameOver(i, od, on, nd, nn), tmp' = tmp
    PROVE  StepOK
PROOF
  <1> DEFINE k2 == IF IsDir(i) THEN [kind EXCEPT ![t] = "dead"] ELSE kind
             nl == IF IsDir(i) THEN [nlink EXCEPT ![t] = @ - 1] ELSE nlink
             nl1 == [nl EXCEPT ![t] = @ - 1]
             nl2 == IF IsDir(i) THEN [nl1 EXCEPT ![od] = @ - 1] ELSE nl1
             dd2 == IF IsDir(i) /\ od # nd THEN [dotdot EXCEPT ![i] = nd] ELSE dotdot
             g == Put(entry, nd, nn, i)
             f == Put(g, od, on, NoInode)
             c2 == [dc EXCEPT ![od][on] = Unknown, ![nd][nn] = i]
  <1>1. /\ od \in Inos /\ kind[od] = "dir" /\ nd \in Inos /\ kind[nd] = "dir"
        /\ kind[i] \in {"file", "dir"} /\ kind[t] \in {"file", "dir"}
        /\ kind[i] = kind[t]
    BY InvFacts, Numbers DEF Dirs, IsDir
  <1>2. /\ kind \in [Inos -> Kinds]
        /\ nlink \in [Inos -> Nat] /\ dotdot \in [Inos -> Inos \cup {NoInode}]
        /\ Sound(kind, nlink, entry, dotdot, dc)
        /\ \A j \in Inos : nlink[j] <= MaxLinks
    BY InvFacts
  <1>3. CASE Refused
    BY <1>3, RefusedOK
  <1>4. CASE ~ Refused
    <2>1. /\ IsDir(i) => kr_empty_dir(t)
          /\ RenameEnd(i, od, on, nd, nn, k2, nl1, g)
      BY <1>4 DEF RenameOver, Put
    <2>2. /\ Sound(k2, nl2, f, dd2, c2) /\ \A j \in Inos : nl2[j] <= MaxLinks
          /\ \A j \in Inos : k2[j] = "free" => kind[j] = "free"
      <3>1. CASE kind[i] = "file"
        <4>1. ~ IsDir(i)
          BY <3>1 DEF IsDir
        <4>2. nl2 = [nlink EXCEPT ![t] = @ - 1] /\ dd2 = dotdot /\ k2 = kind
          BY <4>1
        <4>3. Sound(kind, [nlink EXCEPT ![t] = @ - 1], f, dotdot, c2)
          <5>1. kind[t] = "file" /\ Sound(kind, nlink, entry, dotdot, dc)
            BY <1>1, <1>2, <3>1
          <5> QED
            BY <1>1, <3>1, <5>1, ReplaceFile
        <4> HIDE DEF nl2, dd2, f, c2, k2
        <4>4. \A j \in Inos : nl2[j] = IF j = t THEN nlink[j] - 1 ELSE nlink[j]
          BY <1>2, <4>2
        <4>5. \A j \in Inos : nlink[j] \in Nat /\ nlink[j] <= MaxLinks
          BY <1>2
        <4>6. \A j \in Inos : nl2[j] <= MaxLinks
          BY <4>4, <4>5 DEF ConstantsOK
        <4> QED
          BY <4>2, <4>3, <4>6
      <3>2. CASE kind[i] = "dir"
        <4>1. IsDir(i) /\ i \in Dirs
          BY <3>2 DEF IsDir, Dirs
        <4>2. \A n \in Names : entry[t][n] = NoInode
          BY <2>1, <4>1, EmptyIsEmpty
        <4>3. PICK path : Upward(kind, entry, path) /\ nd \in path /\ i \notin path
          BY <4>1, AbovePath
        <4>4. DirectoryReplaces(kind, nlink, entry, dotdot, dc, i, od, on, t, nd, nn)
          BY <1>1, <1>2, <3>2, <4>2, <4>3, ReplaceDirectory
        <4>5. dotdot[i] = od /\ t # od
          BY <4>4 DEF DirectoryReplaces
        <4>6. dd2 = [dotdot EXCEPT ![i] = nd]
          <5>1. CASE od = nd
            BY <1>2, <4>5, <5>1
          <5>2. CASE od # nd
            BY <4>1, <5>2
          <5> QED
            BY <5>1, <5>2
        <4>7. nl2 = [[[nlink EXCEPT ![t] = @ - 1] EXCEPT ![t] = @ - 1] EXCEPT ![od] = @ - 1]
          BY <4>1
        <4>8. k2 = [kind EXCEPT ![t] = "dead"]
          BY <4>1
        <4> HIDE DEF nl2, dd2, k2
        <4>9. Sound(k2, nl2, f, dd2, c2)
          BY <4>4, <4>6, <4>7, <4>8 DEF DirectoryReplaces
        <4>10. \A j \in Inos : nl2[j] <= MaxLinks
          <5>1. \A j \in Inos : nl2[j] = IF j = t THEN nlink[t] - 1 - 1
                                         ELSE IF j = od THEN nlink[od] - 1 ELSE nlink[j]
            BY <1>1, <1>2, <4>5, <4>7
          <5>2. \A j \in Inos : nlink[j] \in Nat /\ nlink[j] <= MaxLinks
            BY <1>2
          <5>3. /\ nlink[t] - 1 - 1 <= MaxLinks /\ nlink[od] - 1 <= MaxLinks
            BY <1>1, <5>2 DEF ConstantsOK
          <5> QED
            BY <5>1, <5>2, <5>3
        <4>11. \A j \in Inos : k2[j] = "free" => kind[j] = "free"
          BY <1>2, <4>8
        <4> QED
          BY <4>9, <4>10, <4>11
      <3> QED
        BY <1>1, <3>1, <3>2
    <2>3. nl2 = IF IsDir(i) THEN [nl1 EXCEPT ![od] = @ - 1] ELSE nl1
      OBVIOUS
    <2>4. dd2 = IF IsDir(i) /\ od # nd THEN [dotdot EXCEPT ![i] = nd] ELSE dotdot
      OBVIOUS
    <2>5. RenameEnd(i, od, on, nd, nn, k2, nl1, g)
      BY <2>1
    <2>6. Sound(k2, nl2, Put(g, od, on, NoInode), dd2,
                [dc EXCEPT ![od][on] = Unknown, ![nd][nn] = i])
      BY <2>2
    <2>7. \A j \in Inos : k2[j] = "free" => kind[j] = "free"
      BY <2>2
    <2>8. \A j \in Inos : nl2[j] <= MaxLinks
      BY <2>2
    <2> HIDE DEF k2, nl, nl1, nl2, dd2, g, f, c2
    <2>9. RenameSettles(i, od, on, nd, nn, k2, nl1, g, nl2, dd2)
      BY <2>3, <2>4, <2>5, <2>6, <2>7, <2>8 DEF RenameSettles
    <2> QED
      BY <1>1, <2>9, RenameEndOK
  <1> QED
    BY <1>3, <1>4

LEMMA RenameOK ==
    ASSUME ConstantsOK, PagesWork, NameiInv, Rename
    PROVE  StepOK
PROOF
  <1>1. PICK od \in Dirs, nd \in Dirs, on \in Names, nn \in Names :
          LET i == dc[od][on]
              t == dc[nd][nn]
          IN  /\ Positive(od, on)
              /\ t # Unknown /\ t # i
              /\ IsDir(i) => i \notin Above(nd)
              /\ t # NoInode => (IsDir(t) <=> IsDir(i))
              /\ IsDir(i) /\ od # nd /\ t = NoInode => nlink[nd] < MaxLinks
              /\ tmp' = tmp
              /\ \/ Refused
                 \/ t # NoInode /\ RenameOver(i, od, on, nd, nn)
                 \/ t = NoInode /\ RenameTo(i, od, on, nd, nn)
    BY DEF Rename
  <1>2. /\ od \in Inos /\ kind[od] = "dir" /\ nd \in Inos /\ kind[nd] = "dir"
        /\ dc[od][on] \in Inos
    BY <1>1 DEF Dirs, Positive
  <1>3. dc[od][on] = entry[od][on] /\ dc[nd][nn] = entry[nd][nn]
    BY <1>1, <1>2, InvFacts, Numbers
  <1>4. PICK i \in Inos : i = dc[od][on]
    BY <1>2
  <1>5. CASE Refused
    BY <1>5, RefusedOK
  <1>6. CASE dc[nd][nn] # NoInode /\ RenameOver(i, od, on, nd, nn)
    <2>1. dc[nd][nn] \in Inos
      BY <1>2, <1>3, <1>6, InvFacts
    <2>2. PICK t \in Inos : t = dc[nd][nn]
      BY <2>1
    <2>3. /\ entry[od][on] = i /\ entry[nd][nn] = t /\ dc[nd][nn] = t /\ t # i
          /\ IsDir(i) => i \notin Above(nd)
          /\ IsDir(t) <=> IsDir(i)
          /\ tmp' = tmp
      BY <1>1, <1>3, <1>4, <1>6, <2>2
    <2> QED
      BY <1>6, <2>3, RenameOverOK
  <1>7. CASE dc[nd][nn] = NoInode /\ RenameTo(i, od, on, nd, nn)
    <2>1. /\ entry[od][on] = i /\ entry[nd][nn] = NoInode
          /\ IsDir(i) => i \notin Above(nd)
          /\ IsDir(i) /\ od # nd => nlink[nd] < MaxLinks
          /\ tmp' = tmp
      BY <1>1, <1>3, <1>4, <1>7
    <2> QED
      BY <1>7, <2>1, RenameToOK
  <1> QED
    BY <1>1, <1>4, <1>5, <1>6, <1>7

-----------------------------------------------------------------------------
LEMMA InitSound == ConstantsOK /\ Init => NameiInv
PROOF
  <1> SUFFICES ASSUME ConstantsOK, Init
               PROVE  NameiInv
    OBVIOUS
  <1>1. /\ Root \in Inos /\ MaxLinks \in Nat /\ MaxLinks >= 2
        /\ NoInode \notin Inos /\ Unknown \notin Inos
    BY Numbers DEF ConstantsOK
  <1>2. /\ \A i \in Inos : kind[i] = IF i = Root THEN "dir" ELSE "free"
        /\ \A i \in Inos : nlink[i] = IF i = Root THEN 2 ELSE 0
        /\ \A i \in Inos : dotdot[i] = IF i = Root THEN Root ELSE NoInode
        /\ \A i \in Inos, n \in Names : entry[i][n] = NoInode
        /\ \A i \in Inos, n \in Names : dc[i][n] = Unknown
        /\ opened = {} /\ tmp = {}
    BY DEF Init, NoNames, NoDentries
  <1>3. Typed(kind, nlink, entry, dotdot, dc)
    BY <1>1 DEF Init, Typed, Kinds, NoNames, NoDentries
  <1>4. Alive(kind, entry) /\ Cached(kind, entry, dc)
    BY <1>2 DEF Alive, Cached
  <1>5. Counted(kind, nlink, entry)
    <2> SUFFICES ASSUME NEW i \in Inos
                 PROVE  /\ kind[i] = "file" => nlink[i] = Cardinality(NamesIn(entry, i))
                        /\ kind[i] = "dir" =>
                             nlink[i] = 2 + Cardinality(SubdirsIn(kind, entry, i))
                        /\ kind[i] \in {"dead", "free"} => nlink[i] = 0
      BY DEF Counted
    <2>1. SubdirsIn(kind, entry, i) = {}
      BY <1>1, <1>2 DEF SubdirsIn
    <2> QED
      BY <2>1, <1>2, FS_EmptySet
  <1>6. OneName(kind, entry, dotdot)
    <2>1. kind[Root] = "dir" /\ dotdot[Root] = Root
      BY <1>1, <1>2
    <2>2. \A p \in Inos, n \in Names : entry[p][n] # Root
      BY <1>1, <1>2
    <2>3. \A d \in Inos : ~ (kind[d] = "dir" /\ d # Root)
      BY <1>2
    <2> QED
      BY <2>1, <2>2, <2>3 DEF OneName
  <1>7. Rooted(kind, entry)
    BY <1>2 DEF Rooted, Upward
  <1>8. Kept(kind, nlink, dotdot, dc, opened)
    BY <1>1, <1>2 DEF Kept
  <1>9. \A i \in Inos : nlink[i] <= MaxLinks
    BY <1>1, <1>2
  <1> QED
    BY <1>2, <1>3, <1>4, <1>5, <1>6, <1>7, <1>8, <1>9 DEF NameiInv, Sound

LEMMA NextOK ==
    ASSUME ConstantsOK, PagesWork, NameiInv, [Next]_vars
    PROVE  StepOK \/ (UNCHANGED vars /\ NameiInv')
PROOF
  <1>1. CASE UNCHANGED vars
    BY <1>1, Unchanged DEF vars, StepOK
  <1>2. CASE Next
    <2> SUFFICES StepOK
      OBVIOUS
    <2>1. CASE Lookup
      BY <2>1, LookupOK
    <2>2. CASE DropDentry
      BY <2>2, DropDentryOK
    <2>3. CASE Open
      BY <2>3, OpenOK
    <2>4. CASE Close
      BY <2>4, CloseOK
    <2>5. CASE Create
      BY <2>5, CreateOK
    <2>6. CASE Symlink
      BY <2>6, SymlinkOK
    <2>7. CASE Tmpfile
      BY <2>7, TmpfileOK
    <2>8. CASE Link
      BY <2>8, LinkOK
    <2>9. CASE Mkdir
      BY <2>9, MkdirOK
    <2>10. CASE Unlink
      BY <2>10, UnlinkOK
    <2>11. CASE Rmdir
      BY <2>11, RmdirOK
    <2>12. CASE Rename
      BY <2>12, RenameOK
    <2> QED
      BY <1>2, <2>1, <2>2, <2>3, <2>4, <2>5, <2>6, <2>7, <2>8, <2>9, <2>10, <2>11, <2>12
      DEF Next, Mknod
  <1> QED
    BY <1>1, <1>2

\* The invariant holds in every behaviour.
LEMMA NameiInvariant == ConstantsOK /\ PagesWork => (Spec => []NameiInv)
PROOF
  <1> SUFFICES ASSUME ConstantsOK, PagesWork
               PROVE  Spec => []NameiInv
    OBVIOUS
  <1>1. Init => NameiInv
    BY InitSound
  <1>2. NameiInv /\ [Next]_vars => NameiInv'
    BY NextOK DEF StepOK
  <1> QED
    BY <1>1, <1>2, PTL DEF Spec

\* The dentries and the names as the properties of KrNamei have them.
LEMMA InvImpliesTree == ConstantsOK /\ NameiInv => TreeShape /\ DcacheAgrees
PROOF
  <1> SUFFICES ASSUME ConstantsOK, NameiInv
               PROVE  TreeShape /\ DcacheAgrees
    OBVIOUS
  <1>1. Sound(kind, nlink, entry, dotdot, dc)
    BY InvFacts
  <1>2. DcacheAgrees
    BY <1>1 DEF Sound, Cached, DcacheAgrees, Dirs
  <1>3. NamesOf(Root) = {}
    BY <1>1 DEF Sound, OneName, NamesOf
  <1>4. ASSUME NEW d \in Dirs \ {Root}
        PROVE  /\ \E p \in Dirs, n \in Names :
                   NamesOf(d) = {<<p, n>>} /\ kr_get_parent(d) = p
               /\ Root \in Above(d)
    <2>1. d \in Inos /\ kind[d] = "dir" /\ d # Root /\ d # NoInode
      BY Numbers DEF Dirs
    <2>2. PICK n \in Names :
            /\ dotdot[d] \in Inos
            /\ entry[dotdot[d]][n] = d
            /\ \A p \in Inos, m \in Names : entry[p][m] = d => p = dotdot[d] /\ m = n
      BY <1>1, <2>1 DEF Sound, OneName
    <2>3. dotdot[d] \in Dirs
      BY <1>1, <2>1, <2>2 DEF Sound, Alive, Dirs
    <2>4. NamesOf(d) = {<<dotdot[d], n>>}
      BY <2>2 DEF NamesOf
    <2>5. Root \in Dirs
      BY <1>1 DEF Sound, OneName, Dirs, ConstantsOK
    <2>6. ASSUME NEW S \in SUBSET Dirs, d \in S,
                 \A p \in Dirs \ S : \A m \in Names : entry[p][m] \notin S
          PROVE  Root \in S
      <3>1. Upward(kind, entry, S)
        BY <2>6 DEF Upward, Dirs
      <3>2. S \in SUBSET Inos /\ S # {}
        BY <2>6 DEF Dirs
      <3> QED
        BY <1>1, <3>1, <3>2 DEF Sound, Rooted
    <2>7. Root \in Above(d)
      BY <2>5, <2>6 DEF Above
    <2> QED
      BY <2>3, <2>4, <2>7 DEF kr_get_parent
  <1>5. ASSUME NEW d \in Inos \ Dirs
        PROVE  entry[d] = NoNames /\ (kind[d] = "dead" => NamesOf(d) = {})
    <2>1. entry[d] \in [Names -> Inos \cup {NoInode}] /\ \A n \in Names : entry[d][n] = NoInode
      BY InvFacts DEF Dirs
    <2>2. entry[d] = NoNames
      BY <2>1 DEF NoNames
    <2>3. kind[d] = "dead" => \A p \in Inos, n \in Names : entry[p][n] # d
      BY InvFacts, Numbers
    <2> QED
      BY <2>2, <2>3 DEF NamesOf
  <1> QED
    BY <1>2, <1>3, <1>4, <1>5 DEF TreeShape

LEMMA InvImpliesCounts == ConstantsOK /\ NameiInv => TypeOK /\ LinkCounts
PROOF
  <1> SUFFICES ASSUME ConstantsOK, NameiInv
               PROVE  TypeOK /\ LinkCounts
    OBVIOUS
  <1>1. \A i \in Inos : nlink[i] \in 0 .. MaxLinks
    BY InvFacts DEF ConstantsOK
  <1>2. TypeOK
    <2>1. nlink \in [Inos -> 0 .. MaxLinks]
      BY <1>1, InvFacts
    <2> QED
      BY <2>1, InvFacts DEF TypeOK, Kinds
  <1>3. LinkCounts
    <2>1. \A i : NamesOf(i) = NamesIn(entry, i) /\ Subdirs(i) = SubdirsIn(kind, entry, i)
      BY DEF NamesOf, NamesIn, Subdirs, SubdirsIn, IsDir
    <2>2. Counted(kind, nlink, entry)
      BY DEF NameiInv, Sound
    <2> QED
      BY <2>1, <2>2 DEF LinkCounts, Counted
  <1> QED
    BY <1>2, <1>3

-----------------------------------------------------------------------------
\* As long as pages work, i_nlink is in every state what the names of an inode, or the
\* subdirectories of a directory, amount to, and within its limits: whatever creates,
\* links, renames and removals there are, and wherever they run out of memory.
THEOREM LinksAlwaysCounted == ConstantsOK /\ PagesWork => (Spec => []LinksCounted)
PROOF
  <1> SUFFICES ASSUME ConstantsOK, PagesWork
               PROVE  Spec => []LinksCounted
    OBVIOUS
  <1>1. NameiInv => LinksCounted
    BY InvImpliesCounts DEF LinksCounted
  <1>2. Spec => []NameiInv
    BY NameiInvariant
  <1> QED
    BY <1>1, <1>2, PTL

\* As long as pages work, no name and no ".." is of an inode that is gone: kr_lookup never
\* reports a "deleted inode".
THEOREM NamesNeverDangle == ConstantsOK /\ PagesWork => (Spec => []NoNameDangles)
PROOF
  <1> SUFFICES ASSUME ConstantsOK, PagesWork
               PROVE  Spec => []NoNameDangles
    OBVIOUS
  <1>1. NameiInv => NoNameDangles
    <2> SUFFICES ASSUME NameiInv
                 PROVE  NoNameDangles
      OBVIOUS
    <2>1. ASSUME NEW d \in Inos, NEW n \in Names, entry[d][n] # NoInode
          PROVE  kind[entry[d][n]] # "free"
      BY <2>1, InvFacts
    <2>2. ASSUME NEW d \in Dirs
          PROVE  kind[dotdot[d]] # "free"
      <3>1. d \in Inos /\ kind[d] = "dir" /\ Sound(kind, nlink, entry, dotdot, dc)
        BY InvFacts DEF Dirs
      <3>2. CASE d = Root
        BY <3>1, <3>2 DEF Sound, OneName
      <3>3. CASE d # Root
        <4>1. PICK n \in Names : dotdot[d] \in Inos /\ entry[dotdot[d]][n] = d
          BY <3>1, <3>3 DEF Sound, OneName
        <4>2. entry[dotdot[d]][n] # NoInode
          BY <3>1, <4>1, Numbers
        <4>3. kind[dotdot[d]] = "dir"
          BY <3>1, <4>1, <4>2 DEF Sound, Alive
        <4> QED
          BY <4>3
      <3> QED
        BY <3>2, <3>3
    <2> QED
      BY <2>1, <2>2 DEF NoNameDangles
  <1>2. Spec => []NameiInv
    BY NameiInvariant
  <1> QED
    BY <1>1, <1>2, PTL

\* As long as pages work, the directories are a tree whatever is renamed where, with one
\* name each and ".." the directory it is in, and no dentry says what its directory does
\* not.
THEOREM TreeStands == ConstantsOK /\ PagesWork => (Spec => []TreeAndDentries)
PROOF
  <1> SUFFICES ASSUME ConstantsOK, PagesWork
               PROVE  Spec => []TreeAndDentries
    OBVIOUS
  <1>1. NameiInv => TreeAndDentries
    BY InvImpliesTree DEF TreeAndDentries
  <1>2. Spec => []NameiInv
    BY NameiInvariant
  <1> QED
    BY <1>1, <1>2, PTL

\* As long as pages work, an operation that fails, at whatever point, leaves names, links,
\* inodes and dentries as they were: the error paths of namei.c undo what was done.
THEOREM FailuresLeaveNoTrace == ConstantsOK /\ PagesWork => (Spec => FailuresUndo)
PROOF
  <1> SUFFICES ASSUME ConstantsOK, PagesWork
               PROVE  Spec => FailuresUndo
    OBVIOUS
  <1>1. NameiInv /\ [Next]_vars => [Undone]_vars
    BY NextOK DEF StepOK
  <1>2. Spec => []NameiInv
    BY NameiInvariant
  <1> QED
    BY <1>1, <1>2, PTL DEF Spec, FailuresUndo
=============================================================================
