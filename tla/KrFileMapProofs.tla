---------------------------- MODULE KrFileMapProofs ----------------------------
(***************************************************************************)
(* The pointer tree of KrBlockMap implements the map of KrFileMap, and     *)
(* lookups answer what the map said, when no indirect block fails to be    *)
(* read.  Beside the invariant of KrBlockMapProofs the refinement needs    *)
(* MapInv: the slots in which an allocation will store are still empty,    *)
(* what a truncation has left to free lies past the size, and the size     *)
(* stands still meanwhile.  The answers need PageInv, by which a lookup    *)
(* that holds a page is about a block below the size or keeps a truncation *)
(* waiting, and LookInv: what the call has found out so far it has seen in *)
(* the map, and what it is about to splice in will be found there.         *)
(***************************************************************************)
EXTENDS KrBlockMapProofs

-----------------------------------------------------------------------------
(***************************************************************************)
(* Walks in two states of the tree.                                        *)
(***************************************************************************)

\* p and q have the same pointers where the walk along path in p reads them.
SameOnWalk(p, q, path, n) ==
    \A k \in 1 .. n : Parent(Walk(path, p), k) # 0 =>
        q[Parent(Walk(path, p), k)][path[k]] = p[Parent(Walk(path, p), k)][path[k]]

\* The two walks find the same.
SameKeys(p, q, path, n) == \A k \in 1 .. n : Walk(path, q)[k] = Walk(path, p)[k]

\* A walk goes on as before where the pointers it reads have not changed.
LEMMA SameWalk ==
    ASSUME NEW p, NEW q, NEW path, NEW n \in 1 .. 4, Len(path) = n, SameOnWalk(p, q, path, n)
    PROVE  SameKeys(p, q, path, n)
  <1> DEFINE w == Walk(path, p)
             v == Walk(path, q)
             Same(k) == k <= n => v[k] = w[k]
  <1>1. \A k \in 1 .. n : /\ k = 1 => w[k] = p[Inode][path[k]]
                          /\ k > 1 => w[k] = IF w[k - 1] = 0 THEN 0 ELSE p[w[k - 1]][path[k]]
    BY ONLY WalkAt, Len(path) = n, n \in 1 .. 4
  <1>2. \A k \in 1 .. n : /\ k = 1 => v[k] = q[Inode][path[k]]
                          /\ k > 1 => v[k] = IF v[k - 1] = 0 THEN 0 ELSE q[v[k - 1]][path[k]]
    BY ONLY WalkAt, Len(path) = n, n \in 1 .. 4
  <1>3. \A k \in 1 .. n : /\ k = 1 => q[Inode][path[k]] = p[Inode][path[k]]
                          /\ (k > 1 /\ w[k - 1] # 0) => q[w[k - 1]][path[k]] = p[w[k - 1]][path[k]]
    BY NodeFacts DEF Parent, SameOnWalk
  <1> HIDE DEF w, v
  <1>4. Same(1)
    BY <1>1, <1>2, <1>3
  <1>5. \A k \in 1 .. 3 : Same(k) => Same(k + 1)
    <2> SUFFICES ASSUME NEW k \in 1 .. 3, Same(k), k + 1 <= n PROVE v[k + 1] = w[k + 1]
      OBVIOUS
    <2>1. v[k] = w[k] /\ k + 1 \in 1 .. n /\ k + 1 > 1 /\ (k + 1) - 1 = k
      OBVIOUS
    <2>2. /\ w[k + 1] = IF w[k] = 0 THEN 0 ELSE p[w[k]][path[k + 1]]
          /\ v[k + 1] = IF v[k] = 0 THEN 0 ELSE q[v[k]][path[k + 1]]
      BY <1>1, <1>2, <2>1
    <2>3. w[k] # 0 => q[w[k]][path[k + 1]] = p[w[k]][path[k + 1]]
      BY <1>3, <2>1
    <2> QED BY <2>1, <2>2, <2>3
  <1>6. Same(1) /\ Same(2) /\ Same(3) /\ Same(4)
    BY <1>4, <1>5
  <1> QED BY <1>6 DEF w, v, SameKeys

\* q has the pointers of the tree p, and perhaps more.
Extends(p, lev, q) ==
    \A x \in Nodes : \A o \in Slots(x) : (Leads(lev, x) /\ p[x][o] # 0) => q[x][o] = p[x][o]

\* Where a walk in p finds something, a walk in q finds the same.
LEMMA WalkExtends ==
    ASSUME NEW p, NEW lev, Tree(p, lev), NEW q, Extends(p, lev, q), NEW path, IsPath(path)
    PROVE  \A k \in 1 .. Len(path) : Walk(path, p)[k] # 0 => Walk(path, q)[k] = Walk(path, p)[k]
  <1>0. PICK n \in 1 .. 4 : Len(path) = n
    BY DEF IsPath
  <1> DEFINE w == Walk(path, p)
             v == Walk(path, q)
             Same(k) == (k <= n /\ w[k] # 0) => v[k] = w[k]
  <1>1. \A k \in 1 .. n : /\ k = 1 => w[k] = p[Inode][path[k]]
                          /\ k > 1 => w[k] = IF w[k - 1] = 0 THEN 0 ELSE p[w[k - 1]][path[k]]
    BY <1>0, WalkAt
  <1>2. \A k \in 1 .. n : /\ k = 1 => v[k] = q[Inode][path[k]]
                          /\ k > 1 => v[k] = IF v[k - 1] = 0 THEN 0 ELSE q[v[k - 1]][path[k]]
    BY <1>0, WalkAt
  <1>3. \A k \in 1 .. n : w[k] # 0 =>
            /\ k = 1 => q[Inode][path[k]] = p[Inode][path[k]]
            /\ k > 1 => w[k - 1] # 0 /\ q[w[k - 1]][path[k]] = p[w[k - 1]][path[k]]
    <2> SUFFICES ASSUME NEW k \in 1 .. n, w[k] # 0
                 PROVE  /\ k = 1 => q[Inode][path[k]] = p[Inode][path[k]]
                        /\ k > 1 => w[k - 1] # 0 /\ q[w[k - 1]][path[k]] = p[w[k - 1]][path[k]]
      OBVIOUS
    <2>1. /\ Edge(p, lev, path, k, Parent(w, k)) /\ w[k] = p[Parent(w, k)][path[k]]
          /\ k > 1 => w[k - 1] # 0
      BY <1>0, WalkEdges
    <2> HIDE DEF w
    <2>2. q[Parent(w, k)][path[k]] = p[Parent(w, k)][path[k]]
      BY <2>1 DEF Edge, Extends
    <2> QED BY <2>1, <2>2 DEF Parent
  <1> HIDE DEF w, v
  <1>4. Same(1)
    BY <1>1, <1>2, <1>3
  <1>5. \A k \in 1 .. 3 : Same(k) => Same(k + 1)
    <2> SUFFICES ASSUME NEW k \in 1 .. 3, Same(k), k + 1 <= n, w[k + 1] # 0 PROVE v[k + 1] = w[k + 1]
      OBVIOUS
    <2>1. k + 1 \in 1 .. n /\ k + 1 > 1 /\ (k + 1) - 1 = k /\ k <= n
      OBVIOUS
    <2>2. /\ w[k + 1] = IF w[k] = 0 THEN 0 ELSE p[w[k]][path[k + 1]]
          /\ v[k + 1] = IF v[k] = 0 THEN 0 ELSE q[v[k]][path[k + 1]]
      BY <1>1, <1>2, <2>1
    <2>3. w[k] # 0 /\ q[w[k]][path[k + 1]] = p[w[k]][path[k + 1]]
      BY <1>3, <2>1
    <2> QED BY <2>1, <2>2, <2>3
  <1>6. Same(1) /\ Same(2) /\ Same(3) /\ Same(4)
    BY <1>4, <1>5
  <1> QED BY <1>0, <1>6 DEF w, v

-----------------------------------------------------------------------------
(***************************************************************************)
(* The map as a whole.                                                     *)
(***************************************************************************)

\* The walk to block i of the file reads slot o of x.
Passes(p, i, x, o) ==
    \E k \in 1 .. Len(Offsets(i)) : Parent(Walk(Offsets(i), p), k) = x /\ Offsets(i)[k] = o

\* Every block of the file that calls are about has a path.
LEMMA OffsetsNotEmpty ==
    ASSUME NEW i \in FileRange
    PROVE  Offsets(i) # <<>>
  <1>1. Len(Offsets(i)) \in 1 .. 4
    BY OffsetsAreFound DEF IsPath
  <1>2. PICK path : path = Offsets(i)
    OBVIOUS
  <1>3. Len(path) # 0
    BY <1>1, <1>2
  <1>4. Len(<<>>) = 0
    OBVIOUS
  <1> QED BY ONLY <1>2, <1>3, <1>4

\* The map of a tree is a partial one-to-one map.
LEMMA MapIsMap ==
    ASSUME NEW p, NEW lev, Tree(p, lev)
    PROVE  /\ MapOf(p) \in [FileRange -> 0 .. NBlocks]
           /\ \A i, j \in FileRange : (MapOf(p)[i] # 0 /\ MapOf(p)[i] = MapOf(p)[j]) => i = j
  <1>1. \A i \in FileRange : MapOf(p)[i] = Walk(Offsets(i), p)[Len(Offsets(i))]
    BY DEF MapOf
  <1>2. \A i \in FileRange : IsPath(Offsets(i)) /\ Len(Offsets(i)) \in 1 .. Len(Offsets(i))
    BY OffsetsAreFound DEF IsPath
  <1>3. \A i \in FileRange : Walk(Offsets(i), p)[Len(Offsets(i))] \in 0 .. NBlocks
    BY <1>2, WalkEdges
  <1>4. ASSUME NEW i \in FileRange, NEW j \in FileRange, MapOf(p)[i] # 0, MapOf(p)[i] = MapOf(p)[j], i < j
        PROVE  FALSE
    <2>1. Len(Offsets(i)) = Len(Offsets(j)) /\ \A l \in 1 .. Len(Offsets(i)) : Offsets(i)[l] = Offsets(j)[l]
      BY <1>1, <1>2, <1>4, WalksMeet
    <2>2. PICK n \in 1 .. 4 : Len(Offsets(i)) = n
      BY <1>2 DEF IsPath
    <2>3. Offsets(i) # <<>> /\ Offsets(j) # <<>>
      BY OffsetsNotEmpty
    <2>4. Before(Offsets(i), Offsets(j))
      BY <1>4, <2>3, PathOrder, OffsetsAreFound
    <2>5. PICK k \in 1 .. 4 : k <= n /\ Offsets(i)[k] < Offsets(j)[k]
      BY <2>1, <2>2, <2>4 DEF Before, BeforeAt
    <2>6. Offsets(i)[k] = Offsets(j)[k] /\ Offsets(i)[k] \in Nat
      BY <1>2, <2>1, <2>2, <2>5 DEF IsPath
    <2> QED BY <2>5, <2>6
  <1>5. \A i, j \in FileRange : i < j \/ j < i \/ i = j
    BY OffsetsAreFound
  <1>6. MapOf(p) \in [FileRange -> 0 .. NBlocks]
    BY <1>1, <1>3 DEF MapOf
  <1> QED BY <1>4, <1>5, <1>6

\* More pointers, more of the map.
LEMMA MapExtends ==
    ASSUME NEW p, NEW lev, Tree(p, lev), NEW q, Extends(p, lev, q)
    PROVE  \A i \in FileRange : MapOf(p)[i] # 0 => MapOf(q)[i] = MapOf(p)[i]
  <1>1. \A i \in FileRange : /\ MapOf(p)[i] = Walk(Offsets(i), p)[Len(Offsets(i))]
                             /\ MapOf(q)[i] = Walk(Offsets(i), q)[Len(Offsets(i))]
    BY DEF MapOf
  <1>2. \A i \in FileRange : IsPath(Offsets(i)) /\ Len(Offsets(i)) \in 1 .. Len(Offsets(i))
    BY OffsetsAreFound DEF IsPath
  <1> QED BY <1>1, <1>2, WalkExtends

\* The same pointers, the same map.
LEMMA MapSame ==
    ASSUME NEW p, NEW lev, Tree(p, lev), NEW q, Tree(q, lev),
           \A x \in Nodes : Leads(lev, x) => q[x] = p[x]
    PROVE  /\ MapOf(q) = MapOf(p)
           /\ \A path : IsPath(path) => \A k \in 1 .. Len(path) : Walk(path, q)[k] = Walk(path, p)[k]
  <1>1. Extends(p, lev, q) /\ Extends(q, lev, p)
    BY DEF Extends
  <1>2. ASSUME NEW path, IsPath(path), NEW k \in 1 .. Len(path)
        PROVE  Walk(path, q)[k] = Walk(path, p)[k]
    BY <1>1, <1>2, WalkExtends
  <1>3. \A i \in FileRange : IsPath(Offsets(i)) /\ Len(Offsets(i)) \in 1 .. Len(Offsets(i))
    BY OffsetsAreFound DEF IsPath
  <1>4. \A i \in FileRange : Walk(Offsets(i), q)[Len(Offsets(i))] = Walk(Offsets(i), p)[Len(Offsets(i))]
    BY <1>2, <1>3
  <1>5. MapOf(q) = MapOf(p)
    BY <1>4 DEF MapOf
  <1> QED BY <1>2, <1>5

\* A pointer that is taken away takes with it what was mapped through it, and no more.
LEMMA MapCleared ==
    ASSUME NEW p, NEW lev, Tree(p, lev), NEW x \in Nodes, NEW o \in Slots(x),
           NEW q, q = Store(p, x, o, 0), NEW i \in FileRange
    PROVE  /\ MapOf(q)[i] = MapOf(p)[i] \/ MapOf(q)[i] = 0
           /\ MapOf(q)[i] # MapOf(p)[i] => Passes(p, i, x, o)
           /\ \A y \in Nodes : \A r : Passes(q, i, y, r) => Passes(p, i, y, r)
  <1>1. Tree(q, lev) /\ \A y \in Nodes : \A r \in Slots(y) : q[y][r] = IF y = x /\ r = o THEN 0 ELSE p[y][r]
    <2>1. Tree(q, lev)
      BY Cleared
    <2>2. IsPointers(p) /\ 0 \in 0 .. NBlocks
      BY MapAssumption DEF Tree
    <2> QED BY <2>1, <2>2, Stored
  <1>2. Extends(q, lev, p)
    BY <1>1 DEF Extends
  <1>3. PICK path : path = Offsets(i) /\ IsPath(path)
    BY OffsetsAreFound
  <1>4. PICK n \in 1 .. 4 : Len(path) = n
    BY <1>3 DEF IsPath
  <1>5. MapOf(q)[i] = Walk(path, q)[n] /\ MapOf(p)[i] = Walk(path, p)[n]
    BY <1>3, <1>4 DEF MapOf
  <1>6. \A k \in 1 .. n : Walk(path, q)[k] # 0 => Walk(path, q)[k] = Walk(path, p)[k]
    BY <1>1, <1>2, <1>3, <1>4, WalkExtends
  <1>7. ASSUME ~Passes(p, i, x, o) PROVE Walk(path, q)[n] = Walk(path, p)[n]
    <2>1. ASSUME NEW k \in 1 .. n, Parent(Walk(path, p), k) # 0
          PROVE  q[Parent(Walk(path, p), k)][path[k]] = p[Parent(Walk(path, p), k)][path[k]]
      <3>1. Parent(Walk(path, p), k) # x \/ path[k] # o
        BY <1>3, <1>4, <1>7 DEF Passes
      <3>2. Parent(Walk(path, p), k) \in Nodes /\ path[k] \in Slots(Parent(Walk(path, p), k))
        <4>1. CASE k = 1
          BY <1>3, <1>4, <4>1, NodeFacts DEF Parent, IsPath
        <4>2. CASE k > 1
          <5>1. k - 1 \in 1 .. n /\ Walk(path, p)[k - 1] # 0 /\ Parent(Walk(path, p), k) = Walk(path, p)[k - 1]
            BY <2>1, <4>2 DEF Parent
          <5>2. Walk(path, p)[k - 1] \in Blocks
            BY <1>3, <1>4, <5>1, WalkEdges, NodeFacts
          <5>3. path[k] \in Digit
            BY <1>3, <1>4, <4>2 DEF IsPath
          <5> QED BY <5>1, <5>2, <5>3, NodeFacts
        <4> QED BY <4>1, <4>2
      <3> QED BY <1>1, <3>1, <3>2
    <2>2. SameOnWalk(p, q, path, n)
      BY <2>1 DEF SameOnWalk
    <2>3. SameKeys(p, q, path, n)
      BY ONLY <2>2, <1>4, n \in 1 .. 4, SameWalk
    <2> QED BY ONLY <2>3, n \in 1 .. 4 DEF SameKeys
  <1>8. ASSUME NEW y \in Nodes, NEW r, Passes(q, i, y, r) PROVE Passes(p, i, y, r)
    <2>1. PICK k \in 1 .. n : Parent(Walk(path, q), k) = y /\ path[k] = r
      BY <1>3, <1>4, <1>8 DEF Passes
    <2>2. Parent(Walk(path, p), k) = y
      <3>1. CASE k = 1
        BY <2>1, <3>1 DEF Parent
      <3>2. CASE k > 1
        <4>1. k - 1 \in 1 .. n /\ Walk(path, q)[k - 1] = y /\ y # 0
          BY <2>1, <3>2, NodeFacts DEF Parent
        <4> QED BY <1>6, <3>2, <4>1 DEF Parent
      <3> QED BY <3>1, <3>2
    <2> QED BY <1>3, <1>4, <2>1, <2>2 DEF Passes
  <1>9. n \in 1 .. n
    OBVIOUS
  <1> QED BY <1>5, <1>6, <1>7, <1>8, <1>9

-----------------------------------------------------------------------------
(***************************************************************************)
(* What the refinement needs of the state, beside Inv.                     *)
(***************************************************************************)

\* Only blocks of the file at or past size are found through slot o of x.
Past(p, x, o, size) == \A i \in FileRange : Passes(p, i, x, o) => i >= size

\* The slots an item of the work is about are past the size.
PlacedItem(p, item, size) ==
    /\ item.op = "array" => \A o \in item.p .. item.q - 1 : Past(p, item.nr, o, size)
    /\ item.op = "slot" => Past(p, Inode, item.p, size)

Placed(p, work, size) == \A n \in 1 .. Len(work) : PlacedItem(p, work[n], size)

\* The slot of the link w, and with k = 0 the ones up to m after it, hold no pointer.
Empty(p, w, k, m) ==
    /\ p[w.bh][w.off] = 0
    /\ k = 0 => \A d \in 0 .. m - 1 : p[w.bh][w.off + d] = 0

EmptyFrom(p, w, from, to) == \A d \in from .. to : p[w.bh][w.off + d] = 0

\* The slots in which an allocation will store are empty.
HoleOK(p, l, f) ==
    /\ l \in {"alloc", "setup"} =>
         Empty(p, f.chain[f.partial], Len(Offsets(f.iblock)) - f.partial, Len(f.new) + f.want)
    /\ l \in {"zero", "splice"} =>
         EmptyFrom(p, f.chain[f.partial], f.done, LastSpliced(f))

\* What a truncation has left to do is past the size.
CutOK(p, l, f) == l = "free" => Placed(p, f.work, f.size)

\* A call maps no more blocks than it was asked to.
CountOK(l, f) ==
    /\ l \in Walking \cup {"zero", "splice", "return", "written"} => f.count <= f.max
    /\ l \in {"alloc", "setup"} =>
         Len(f.new) + f.want <= (Len(Offsets(f.iblock)) - f.partial) + f.max
    /\ l \in {"return", "written"} => f.iblock + f.max - 1 <= LastBlock

Cuts == {"pages", "truncate", "shared", "free"}
Lookups == Walking \cup Mapping \cup {"return", "written"}

\* Who truncates has the inode's lock or the inode, so that the size stands still.
SizedOK(t, l, f, size, sem, del) ==
    /\ l \in Cuts => f.size = size /\ (sem = t \/ del)
    /\ l \in Lookups \cup {"pages"} => ~del
    /\ (l \in Lookups /\ f.kind = "write") => sem = t
    /\ l = "written" => f.kind = "write"

MapInv ==
    /\ i_size \in 0 .. LastBlock + 1
    /\ \A t \in Tasks :
         /\ HoleOK(ptr, pc[t], fr[t])
         /\ CutOK(ptr, pc[t], fr[t])
         /\ CountOK(pc[t], fr[t])
         /\ SizedOK(t, pc[t], fr[t], i_size, rwsem, deleted)

-----------------------------------------------------------------------------
(***************************************************************************)
(* Slots past the size.                                                    *)
(***************************************************************************)

\* No walk goes through a block that does not hang in the tree.
LEMMA LooseNotPassed ==
    ASSUME NEW p, NEW lev, Tree(p, lev), NEW b \in Blocks, Loose(p, lev, b), NEW o, NEW size
    PROVE  Past(p, b, o, size)
  <1> SUFFICES ASSUME NEW i \in FileRange, Passes(p, i, b, o) PROVE FALSE
    BY DEF Past
  <1>1. PICK path : path = Offsets(i) /\ IsPath(path)
    BY OffsetsAreFound
  <1>2. PICK n \in 1 .. 4 : Len(path) = n
    BY <1>1 DEF IsPath
  <1>3. PICK k \in 1 .. n : Parent(Walk(path, p), k) = b
    BY <1>1, <1>2 DEF Passes
  <1>4. k > 1 /\ k - 1 \in 1 .. n /\ Walk(path, p)[k - 1] = b /\ b # 0
    BY <1>3, NodeFacts DEF Parent
  <1>5. /\ Edge(p, lev, path, k - 1, Parent(Walk(path, p), k - 1))
        /\ b = p[Parent(Walk(path, p), k - 1)][path[k - 1]]
    BY <1>1, <1>2, <1>4, WalkEdges
  <1> QED BY <1>5 DEF Edge, Loose

\* What is past the size stays past it when a pointer is taken away.
LEMMA PlacedCleared ==
    ASSUME NEW p, NEW lev, Tree(p, lev), NEW x \in Nodes, NEW o \in Slots(x),
           NEW q, q = Store(p, x, o, 0), NEW size
    PROVE  /\ \A y \in Nodes : \A r : Past(p, y, r, size) => Past(q, y, r, size)
           /\ \A item \in Items : PlacedItem(p, item, size) => PlacedItem(q, item, size)
           /\ \A work \in Seq(Items) : Placed(p, work, size) => Placed(q, work, size)
  <1>1. \A y \in Nodes : \A r : Past(p, y, r, size) => Past(q, y, r, size)
    BY MapCleared DEF Past
  <1>2. ASSUME NEW item \in Items, PlacedItem(p, item, size) PROVE PlacedItem(q, item, size)
    <2>1. item.nr \in Nodes /\ Inode \in Nodes
      BY ItemFields, NodeFacts
    <2> QED BY <1>1, <1>2, <2>1 DEF PlacedItem
  <1>3. ASSUME NEW work \in Seq(Items), Placed(p, work, size) PROVE Placed(q, work, size)
    BY <1>2, <1>3 DEF Placed
  <1> QED BY <1>1, <1>2, <1>3

\* Blocks that are not the file's do not matter.
LEMMA PlacedSame ==
    ASSUME NEW p, NEW lev, Tree(p, lev), NEW q, Tree(q, lev),
           \A x \in Nodes : Leads(lev, x) => q[x] = p[x], NEW size
    PROVE  \A work : Placed(p, work, size) => Placed(q, work, size)
  <1>1. ASSUME NEW i \in FileRange, NEW x, NEW o, Passes(q, i, x, o) PROVE Passes(p, i, x, o)
    <2>1. PICK path : path = Offsets(i) /\ IsPath(path)
      BY OffsetsAreFound
    <2>2. PICK n \in 1 .. 4 : Len(path) = n
      BY <2>1 DEF IsPath
    <2>3. \A k \in 1 .. n : Walk(path, q)[k] = Walk(path, p)[k]
      BY <2>1, <2>2, MapSame
    <2>4. PICK k \in 1 .. n : Parent(Walk(path, q), k) = x /\ path[k] = o
      BY <1>1, <2>1, <2>2 DEF Passes
    <2>5. Parent(Walk(path, p), k) = x
      <3>1. k = 1 \/ k - 1 \in 1 .. n
        OBVIOUS
      <3> QED BY <2>3, <2>4, <3>1 DEF Parent
    <2> QED BY <2>1, <2>2, <2>4, <2>5 DEF Passes
  <1>2. \A x, o : Past(p, x, o, size) => Past(q, x, o, size)
    BY <1>1 DEF Past
  <1>3. \A item : PlacedItem(p, item, size) => PlacedItem(q, item, size)
    BY <1>2 DEF PlacedItem
  <1> QED BY <1>3 DEF Placed

\* The parts of a stack of work.
LEMMA PlacedParts ==
    ASSUME NEW p, NEW size, NEW a \in Seq(Items), NEW b \in Seq(Items)
    PROVE  /\ (Placed(p, a, size) /\ Placed(p, b, size)) => Placed(p, a \o b, size)
           /\ (Placed(p, a, size) /\ a # <<>>) => PlacedItem(p, Head(a), size) /\ Placed(p, Tail(a), size)
           /\ \A i \in Items : PlacedItem(p, i, size) => Placed(p, <<i>>, size)
  <1>1. ASSUME Placed(p, a, size), Placed(p, b, size) PROVE Placed(p, a \o b, size)
    <2>1. \A n \in 1 .. Len(a \o b) : (n \in 1 .. Len(a) /\ (a \o b)[n] = a[n])
                                      \/ (n - Len(a) \in 1 .. Len(b) /\ (a \o b)[n] = b[n - Len(a)])
      OBVIOUS
    <2> QED BY <1>1, <2>1 DEF Placed
  <1>2. ASSUME Placed(p, a, size), a # <<>> PROVE PlacedItem(p, Head(a), size) /\ Placed(p, Tail(a), size)
    <2>1. Head(a) = a[1] /\ 1 \in 1 .. Len(a) /\ \A n \in 1 .. Len(Tail(a)) : Tail(a)[n] = a[n + 1] /\ n + 1 \in 1 .. Len(a)
      BY <1>2
    <2> QED BY <1>2, <2>1 DEF Placed
  <1>3. ASSUME NEW i \in Items, PlacedItem(p, i, size) PROVE Placed(p, <<i>>, size)
    BY <1>3 DEF Placed
  <1> QED BY <1>1, <1>2, <1>3

\* Path a goes along b up to slot k, and then after it or as far as b goes on with zeros.
NotBefore(a, b, k, n) ==
    /\ k <= Len(a)
    /\ \A m \in 1 .. k - 1 : a[m] = b[m]
    /\ a[k] > b[k] \/ (a[k] = b[k] /\ \A m \in k + 1 .. n : b[m] = 0)

\* From slot k of the path to block s on, the paths lead to blocks at or past s.
LEMMA AfterPath ==
    ASSUME NEW i \in FileRange, NEW s \in Nat, NEW a, a = Offsets(i), NEW b, b = Offsets(s), b # <<>>,
           NEW n \in 1 .. 4, Len(b) = n, NEW k \in 1 .. n, NotBefore(a, b, k, n)
    PROVE  i >= s
  <1> SUFFICES ASSUME i < s PROVE FALSE
    BY OffsetsAreFound
  <1> USE DEF NotBefore
  <1>1. IsPath(a) /\ IsPath(b) /\ a # <<>> /\ i \in Nat
    BY OffsetsAreFound, OffsetsNotEmpty, PathsArePaths
  <1>2. PICK h \in 1 .. 4 : BeforeAt(a, b, h)
    BY <1>1, PathOrder DEF Before
  <1>3. h <= n /\ h <= Len(a) /\ a[h] < b[h] /\ \A m \in 1 .. h - 1 : a[m] = b[m]
    BY <1>2 DEF BeforeAt
  <1>4. PICK na \in 1 .. 4 : Len(a) = na
    BY <1>1 DEF IsPath
  <1>5. \A m \in 1 .. na : a[m] \in Nat
    BY <1>1, <1>4 DEF IsPath
  <1>6. \A m \in 1 .. n : b[m] \in Nat
    BY <1>1 DEF IsPath
  <1>7. CASE h < k
    <2>1. h \in 1 .. k - 1
      BY <1>7
    <2>2. a[h] = b[h] /\ b[h] \in Nat
      BY <1>3, <1>6, <2>1
    <2> QED BY <1>3, <2>2
  <1>8. CASE h = k
    <2>1. a[k] \in Nat /\ b[k] \in Nat /\ a[k] < b[k]
      BY <1>3, <1>4, <1>5, <1>6, <1>8
    <2> QED BY <2>1
  <1>9. CASE h > k
    <2>1. a[k] = b[k] /\ a[k] \in Nat
      BY <1>3, <1>6, <1>9
    <2>2. b[h] = 0 /\ a[h] \in Nat
      BY <1>3, <1>4, <1>5, <1>9, <2>1
    <2> QED BY <1>3, <2>2
  <1> QED BY <1>7, <1>8, <1>9

\* The walk to a block of the file reads i_data in its first step only.
LEMMA PassesTop ==
    ASSUME NEW p, NEW lev, Tree(p, lev), NEW i \in FileRange, NEW o, Passes(p, i, Inode, o)
    PROVE  Offsets(i)[1] = o /\ Len(Offsets(i)) >= 1
  <1>1. PICK path : path = Offsets(i) /\ IsPath(path)
    BY OffsetsAreFound
  <1>2. PICK n \in 1 .. 4 : Len(path) = n
    BY <1>1 DEF IsPath
  <1>3. PICK k \in 1 .. n : Parent(Walk(path, p), k) = Inode /\ path[k] = o
    BY <1>1, <1>2 DEF Passes
  <1>4. k = 1
    <2> SUFFICES ASSUME k > 1 PROVE FALSE
      OBVIOUS
    <2>1. k - 1 \in 1 .. n /\ Walk(path, p)[k - 1] = Inode
      BY <1>3 DEF Parent
    <2>2. Walk(path, p)[k - 1] \in 0 .. NBlocks
      BY <1>1, <1>2, <2>1, WalkEdges
    <2> QED BY <2>1, <2>2 DEF Inode
  <1> QED BY <1>1, <1>2, <1>3, <1>4

\* Slots of i_data after the one in which the path to block s starts.
LEMMA TopPast ==
    ASSUME NEW p, NEW lev, Tree(p, lev), NEW s \in Nat, NEW b, b = Offsets(s), b # <<>>,
           NEW o \in Nat, o > b[1] \/ (Len(b) = 1 /\ o = b[1])
    PROVE  Past(p, Inode, o, s)
  <1> SUFFICES ASSUME NEW i \in FileRange, Passes(p, i, Inode, o) PROVE i >= s
    BY DEF Past
  <1>1. PICK a : a = Offsets(i)
    OBVIOUS
  <1>2. a[1] = o /\ Len(a) >= 1
    BY <1>1, PassesTop
  <1>3. IsPath(b)
    BY PathsArePaths
  <1>4. PICK n \in 1 .. 4 : Len(b) = n
    BY <1>3 DEF IsPath
  <1>5. 1 \in 1 .. n /\ 1 <= Len(a) /\ \A m \in 1 .. 1 - 1 : a[m] = b[m]
    BY <1>2
  <1>6. a[1] > b[1] \/ (a[1] = b[1] /\ \A m \in 1 + 1 .. n : b[m] = 0)
    BY <1>2, <1>4
  <1>7. NotBefore(a, b, 1, n)
    BY <1>5, <1>6 DEF NotBefore
  <1> QED BY <1>1, <1>4, <1>5, <1>7, AfterPath

\* The slots do_indirects is left with.
LEMMA RemainingPlaced ==
    ASSUME NEW p, NEW lev, Tree(p, lev), NEW s \in Nat, NEW b, b = Offsets(s), b # <<>>
    PROVE  Placed(p, Remaining(b[1]), s)
  <1>1. IsPath(b) /\ b[1] \in 0 .. TIND /\ Remaining(b[1]) \in Seq(Items)
    BY PathsArePaths, RemainingFacts DEF IsPath
  <1>2. \A n \in 1 .. Len(Remaining(b[1])) : \E slot \in IND .. TIND :
            slot > b[1] /\ Remaining(b[1])[n] = WholeSlot(slot)
    <2> DEFINE all == <<WholeSlot(IND), WholeSlot(DIND), WholeSlot(TIND)>>
               f == IF b[1] < NDir THEN 1 ELSE b[1] - NDir + 2
    <2>1. f \in 1 .. 4
      BY <1>1, PtrsNat DEF TIND
    <2>2. Remaining(b[1]) = SubSeq(all, f, 3)
      BY DEF Remaining
    <2>3. all \in Seq({WholeSlot(IND), WholeSlot(DIND), WholeSlot(TIND)}) /\ Len(all) = 3
      OBVIOUS
    <2>4. /\ all[1] = WholeSlot(NDir) /\ all[2] = WholeSlot(NDir + 1) /\ all[3] = WholeSlot(NDir + 2)
      BY DEF IND, DIND, TIND
    <2> HIDE DEF all
    <2>5. \A m \in 1 .. 3 : all[m] = WholeSlot(NDir + m - 1)
      <3>1. NDir + 1 - 1 = NDir /\ NDir + 2 - 1 = NDir + 1 /\ NDir + 3 - 1 = NDir + 2
        BY PtrsNat
      <3> QED BY <2>4, <3>1
    <2>6. Len(SubSeq(all, f, 3)) = 4 - f /\ \A n \in 1 .. 4 - f : SubSeq(all, f, 3)[n] = all[f + n - 1]
      BY <2>1, <2>3
    <2> SUFFICES ASSUME NEW n \in 1 .. 4 - f
                 PROVE  \E slot \in IND .. TIND : slot > b[1] /\ SubSeq(all, f, 3)[n] = WholeSlot(slot)
      BY <2>2, <2>6
    <2>7. f + n - 1 \in 1 .. 3
      BY <2>1
    <2>8. PICK slot : slot = NDir + (f + n - 1) - 1
      OBVIOUS
    <2>81. PICK m \in 1 .. 3, b1 \in Nat : m = f + n - 1 /\ m >= f /\ b1 = b[1]
      BY <1>1, <2>1, <2>7, PtrsNat DEF TIND
    <2>82. b1 < NDir \/ (b1 >= NDir /\ m >= b1 - NDir + 2)
      BY <2>81, PtrsNat
    <2>9. slot \in IND .. TIND /\ slot > b[1]
      BY ONLY <2>8, <2>81, <2>82, PtrsNat, m \in 1 .. 3, b1 \in Nat DEF IND, TIND
    <2>10. SubSeq(all, f, 3)[n] = WholeSlot(slot)
      BY <2>5, <2>6, <2>7, <2>8
    <2> QED BY <2>9, <2>10
  <1>3. \A slot \in IND .. TIND : slot > b[1] => Past(p, Inode, slot, s)
    BY TopPast, PtrsNat DEF IND
  <1>4. \A slot \in IND .. TIND : WholeSlot(slot).op = "slot" /\ WholeSlot(slot).p = slot
    BY DEF WholeSlot, Item
  <1>5. \A slot \in IND .. TIND : slot > b[1] => PlacedItem(p, WholeSlot(slot), s)
    BY <1>3, <1>4 DEF PlacedItem
  <1> QED BY <1>2, <1>5 DEF Placed

\* Slot o is after the one that path b takes in step q, or is that one and b goes on with zeros.
AtOrAfter(o, b, q, n) == o > b[q] \/ (o = b[q] /\ \A m \in q + 1 .. n : b[m] = 0)

\* The end of a block on the branch that leads to block s.
LEMMA EndPast ==
    ASSUME NEW p, NEW lev, Tree(p, lev), NEW s \in Nat, NEW b, b = Offsets(s), b # <<>>,
           NEW n \in 1 .. 4, Len(b) = n, NEW q \in 2 .. n, NEW x, x = Walk(b, p)[q - 1], x # 0,
           NEW o \in Nat, AtOrAfter(o, b, q, n)
    PROVE  Past(p, x, o, s)
  <1> SUFFICES ASSUME NEW i \in FileRange, Passes(p, i, x, o) PROVE i >= s
    BY DEF Past
  <1>1. PICK a : a = Offsets(i) /\ IsPath(a)
    BY OffsetsAreFound
  <1>2. PICK na \in 1 .. 4 : Len(a) = na
    BY <1>1 DEF IsPath
  <1>3. IsPath(b) /\ q - 1 \in 1 .. n
    BY PathsArePaths
  <1>4. PICK k \in 1 .. na : Parent(Walk(a, p), k) = x /\ a[k] = o
    BY <1>1, <1>2 DEF Passes
  <1>5. x \in 0 .. NBlocks /\ x # Inode
    BY <1>3, WalkEdges DEF Inode
  <1>6. k > 1 /\ k - 1 \in 1 .. na /\ Walk(a, p)[k - 1] = x
    BY <1>4, <1>5 DEF Parent
  <1>7. k - 1 = q - 1 /\ \A l \in 1 .. k - 1 : a[l] = b[l]
    BY <1>1, <1>2, <1>3, <1>6, WalksMeet
  <1>8. k = q
    BY <1>7
  <1>9. NotBefore(a, b, q, n)
    BY <1>2, <1>4, <1>7, <1>8 DEF NotBefore, AtOrAfter
  <1>10. q \in 1 .. n
    OBVIOUS
  <1> QED BY <1>1, <1>9, <1>10, AfterPath

\* c holds the blocks of the walk along the path b in p.
OnWalk(p, b, c, m) ==
    \A j \in 2 .. m : c[j].bh = Walk(b, p)[j - 1] /\ c[j].bh # 0 /\ c[j].off = b[j]

\* What kr_find_shared leaves to free under the blocks that stay.
LEMMA SharedPlaced ==
    ASSUME NEW p, NEW lev, Tree(p, lev), NEW s \in Nat, NEW b, b = Offsets(s), b # <<>>,
           NEW n \in 1 .. 4, Len(b) = n, NEW c, NEW m \in 1 .. n, OnWalk(p, b, c, m),
           NEW top, NEW past \in 0 .. 1, past = 0 => \A h \in m + 1 .. n : b[h] = 0
    PROVE  Placed(p, SharedWork(n, c, m, top, past), s)
  <1>1. IsPath(b)
    BY PathsArePaths
  <1>2. \A h \in 1 .. n : b[h] \in Nat
    BY <1>1 DEF IsPath
  <1> DEFINE from(q) == c[q].off + (IF q = m THEN past ELSE 1)
             end(q) == Array(c[q].bh, from(q), Ptrs, n - q)
             ends == [j \in 1 .. m - 1 |-> end(m - j + 1)]
             first == IF top = 0 THEN <<>> ELSE <<Detached(top, n - m)>>
  <1>3. ASSUME NEW q \in 2 .. m PROVE PlacedItem(p, end(q), s)
    <2>1. PICK x, f : x = c[q].bh /\ f = from(q)
      OBVIOUS
    <2>2. x = Walk(b, p)[q - 1] /\ x # 0 /\ c[q].off = b[q] /\ q \in 2 .. n
      BY <2>1 DEF OnWalk
    <2>3. f \in Nat /\ (f > b[q] \/ (f = b[q] /\ \A h \in q + 1 .. n : b[h] = 0))
      BY <1>2, <2>1, <2>2
    <2>4. end(q).op = "array" /\ end(q).nr = x /\ end(q).p = f
      BY <2>1 DEF Array, Item
    <2> HIDE DEF end
    <2>5. ASSUME NEW o \in f .. end(q).q - 1 PROVE Past(p, x, o, s)
      <3>1. o \in Nat /\ b[q] \in Nat /\ o >= f
        BY <1>2, <2>2, <2>3
      <3>2. AtOrAfter(o, b, q, n)
        BY <2>3, <3>1 DEF AtOrAfter
      <3> QED BY <2>2, <3>1, <3>2, EndPast
    <2> QED BY <2>4, <2>5 DEF PlacedItem
  <1> HIDE DEF end
  <1>4. SharedWork(n, c, m, top, past) = first \o ends
    BY DEF SharedWork, end
  <1>5. \A j \in 1 .. m - 1 : m - j + 1 \in 2 .. m
    OBVIOUS
  <1>6. ends \in Seq({end(q) : q \in 2 .. m}) /\ Len(ends) = m - 1 /\ \A j \in 1 .. m - 1 : ends[j] = end(m - j + 1)
    <2>1. m - 1 \in Nat /\ \A j \in 1 .. m - 1 : ends[j] \in {end(q) : q \in 2 .. m}
      BY <1>5
    <2> QED BY <2>1
  <1> HIDE DEF ends
  <1>7. \A j \in 1 .. Len(ends) : PlacedItem(p, ends[j], s)
    BY <1>3, <1>5, <1>6
  <1>8. first = <<>> \/ first = <<Detached(top, n - m)>>
    OBVIOUS
  <1>9. PlacedItem(p, Detached(top, n - m), s)
    BY DEF PlacedItem, Detached, Item
  <1> HIDE DEF first
  <1>10. \A j \in 1 .. Len(first) : PlacedItem(p, first[j], s)
    BY <1>8, <1>9
  <1>11. Len(first) \in Nat /\ first \in Seq({Detached(top, n - m)})
    <2>1. ASSUME NEW d PROVE Len(<<>>) = 0 /\ Len(<<d>>) = 1 /\ <<>> \in Seq({d}) /\ <<d>> \in Seq({d})
      OBVIOUS
    <2> QED BY <1>8, <2>1
  <1>12. \A j \in 1 .. Len(first \o ends) :
            \/ j \in 1 .. Len(first) /\ (first \o ends)[j] = first[j]
            \/ j - Len(first) \in 1 .. Len(ends) /\ (first \o ends)[j] = ends[j - Len(first)]
    BY <1>6, <1>11
  <1> QED BY <1>4, <1>7, <1>10, <1>12 DEF Placed

\* The walks along a and b find the same up to step h.
SameUpTo(p, a, b, h) == \A l \in 1 .. h : Walk(a, p)[l] = Walk(b, p)[l]

\* The walk along a finds something up to step h.
FoundUpTo(p, a, h) == \A l \in 1 .. h : Walk(a, p)[l] # 0

\* Walks along paths that start alike find the same.
LEMMA PrefixWalk ==
    ASSUME NEW p, NEW a, NEW na \in 1 .. 4, Len(a) = na, NEW b, NEW nb \in 1 .. 4, Len(b) = nb,
           NEW h \in 0 .. 4, h <= na, h <= nb, \A l \in 1 .. h : a[l] = b[l]
    PROVE  SameUpTo(p, a, b, h)
  <1> DEFINE w == Walk(a, p)
             v == Walk(b, p)
             Same(l) == l <= h => w[l] = v[l]
  <1>1. \A l \in 1 .. na : /\ l = 1 => w[l] = p[Inode][a[l]]
                           /\ l > 1 => w[l] = IF w[l - 1] = 0 THEN 0 ELSE p[w[l - 1]][a[l]]
    BY ONLY WalkAt, Len(a) = na, na \in 1 .. 4
  <1>2. \A l \in 1 .. nb : /\ l = 1 => v[l] = p[Inode][b[l]]
                           /\ l > 1 => v[l] = IF v[l - 1] = 0 THEN 0 ELSE p[v[l - 1]][b[l]]
    BY ONLY WalkAt, Len(b) = nb, nb \in 1 .. 4
  <1> HIDE DEF w, v
  <1>3. Same(1)
    BY <1>1, <1>2
  <1>4. \A l \in 1 .. 3 : Same(l) => Same(l + 1)
    <2> SUFFICES ASSUME NEW l \in 1 .. 3, Same(l), l + 1 <= h PROVE w[l + 1] = v[l + 1]
      OBVIOUS
    <2>1. w[l] = v[l] /\ l + 1 \in 1 .. na /\ l + 1 \in 1 .. nb /\ l + 1 > 1 /\ (l + 1) - 1 = l /\ a[l + 1] = b[l + 1]
      OBVIOUS
    <2>2. /\ w[l + 1] = IF w[l] = 0 THEN 0 ELSE p[w[l]][a[l + 1]]
          /\ v[l + 1] = IF v[l] = 0 THEN 0 ELSE p[v[l]][b[l + 1]]
      BY <1>1, <1>2, <2>1
    <2> QED BY <2>1, <2>2
  <1>5. Same(1) /\ Same(2) /\ Same(3) /\ Same(4)
    BY <1>3, <1>4
  <1> QED BY <1>5 DEF w, v, SameUpTo

\* What is found at the end is reached through pointers.
LEMMA WalkThrough ==
    ASSUME NEW p, NEW a, NEW n \in 1 .. 4, Len(a) = n, NEW h \in 1 .. n, Walk(a, p)[h] # 0
    PROVE  FoundUpTo(p, a, h)
  <1> DEFINE w == Walk(a, p)
  <1>1. \A l \in 1 .. n : l > 1 => w[l] = IF w[l - 1] = 0 THEN 0 ELSE p[w[l - 1]][a[l]]
    BY WalkAt
  <1> HIDE DEF w
  <1>2. \A l \in 1 .. n : (l > 1 /\ w[l] # 0) => w[l - 1] # 0
    BY <1>1
  <1>3. \A l \in 1 .. 3 : (l + 1 <= n /\ w[l + 1] # 0) => w[l] # 0
    <2> SUFFICES ASSUME NEW l \in 1 .. 3, l + 1 <= n, w[l + 1] # 0 PROVE w[l] # 0
      OBVIOUS
    <2>1. l + 1 \in 1 .. n /\ l + 1 > 1 /\ (l + 1) - 1 = l
      OBVIOUS
    <2> QED BY <1>2, <2>1
  <1>4. w[h] # 0
    BY DEF w
  <1>5. \A l \in 1 .. h : w[l] # 0
    <2>1. CASE h = 1
      BY <1>4, <2>1
    <2>2. CASE h = 2
      BY <1>3, <1>4, <2>2
    <2>3. CASE h = 3
      BY <1>3, <1>4, <2>3
    <2>4. CASE h = 4
      BY <1>3, <1>4, <2>4
    <2> QED BY <2>1, <2>2, <2>3, <2>4
  <1> QED BY <1>5 DEF w, FoundUpTo

\* Two walks that read the same slot of the tree have come there the same way.
LEMMA PassesMeet ==
    ASSUME NEW p, NEW lev, Tree(p, lev), NEW a, IsPath(a), NEW b, IsPath(b),
           NEW k \in 1 .. Len(a), NEW m \in 1 .. Len(b), NEW x, x # 0,
           Parent(Walk(a, p), k) = x, Parent(Walk(b, p), m) = x
    PROVE  k = m /\ \A l \in 1 .. m - 1 : a[l] = b[l]
  <1>1. PICK na \in 1 .. 4, nb \in 1 .. 4 : Len(a) = na /\ Len(b) = nb
    BY DEF IsPath
  <1>2. \A l \in 1 .. na : Walk(a, p)[l] \in 0 .. NBlocks
    BY <1>1, WalkEdges
  <1>3. \A l \in 1 .. nb : Walk(b, p)[l] \in 0 .. NBlocks
    BY <1>1, WalkEdges
  <1>4. CASE x = Inode
    <2>1. k = 1
      <3>1. k > 1 => k - 1 \in 1 .. na /\ Walk(a, p)[k - 1] = Inode
        BY <1>1, <1>4 DEF Parent
      <3> QED BY <1>1, <1>2, <3>1 DEF Inode
    <2>2. m = 1
      <3>1. m > 1 => m - 1 \in 1 .. nb /\ Walk(b, p)[m - 1] = Inode
        BY <1>1, <1>4 DEF Parent
      <3> QED BY <1>1, <1>3, <3>1 DEF Inode
    <2> QED BY <2>1, <2>2
  <1>5. CASE x # Inode
    <2>1. /\ k > 1 /\ k - 1 \in 1 .. na /\ Walk(a, p)[k - 1] = x
          /\ m > 1 /\ m - 1 \in 1 .. nb /\ Walk(b, p)[m - 1] = x
      BY <1>1, <1>5 DEF Parent
    <2>2. k - 1 = m - 1 /\ \A l \in 1 .. k - 1 : a[l] = b[l]
      BY <1>1, <2>1, WalksMeet
    <2> QED BY <1>1, <2>1, <2>2
  <1> QED BY <1>4, <1>5

\* c is the branch along b in p, up to the pointer of step length.
Branch(p, b, c, length) ==
    \A j \in 1 .. length : c[j].bh = Parent(Walk(b, p), j) /\ c[j].bh # 0 /\ c[j].off = b[j]

\* Path b is zero after step k, and below link m of the branch c nothing lies to the left of it.
ZerosAfter(b, k, n) == \A h \in k + 1 .. n : b[h] = 0
NothingLeft(c, m, length) == \A j \in m + 1 .. length : all_zeroes(c[j])

\* The pointer kr_find_shared clears leads to no block of the file below the new size:
\* the blocks under it hold nothing to the left of the path to that size.
LEMMA CutSpares ==
    ASSUME NEW lev, Tree(ptr, lev), NEW s \in Nat, NEW b, b = Offsets(s), b # <<>>,
           NEW n \in 1 .. 4, Len(b) = n, NEW k \in 1 .. n, ZerosAfter(b, k, n),
           NEW length \in 1 .. k, length = k \/ Walk(b, ptr)[length] = 0,
           NEW c, Branch(ptr, b, c, length),
           NEW m \in 1 .. length, NothingLeft(c, m, length),
           NEW i \in FileRange, MapOf(ptr)[i] # 0, Passes(ptr, i, c[m].bh, c[m].off)
    PROVE  i >= s
  <1> USE DEF ZerosAfter, NothingLeft
  <1> SUFFICES ASSUME i < s PROVE FALSE
    BY OffsetsAreFound
  <1>1. PICK a : a = Offsets(i) /\ IsPath(a) /\ a # <<>> /\ i \in Nat
    BY OffsetsAreFound, OffsetsNotEmpty
  <1>2. PICK na \in 1 .. 4 : Len(a) = na
    BY <1>1 DEF IsPath
  <1>3. IsPath(b) /\ m \in 1 .. n /\ \A l \in 1 .. n : b[l] \in Nat
    BY PathsArePaths DEF IsPath
  <1>4. PICK x : x = c[m].bh /\ x = Parent(Walk(b, ptr), m) /\ x # 0 /\ c[m].off = b[m]
    BY DEF Branch
  <1>5. PICK kk \in 1 .. na : Parent(Walk(a, ptr), kk) = x /\ a[kk] = b[m]
    BY <1>1, <1>2, <1>4 DEF Passes
  <1>6. kk = m /\ \A l \in 1 .. m - 1 : a[l] = b[l]
    BY <1>1, <1>2, <1>3, <1>4, <1>5, PassesMeet
  <1>7. \A l \in 1 .. na : a[l] \in Nat /\ Walk(a, ptr)[l] # 0
    <2>1. Walk(a, ptr)[na] # 0
      BY <1>1, <1>2 DEF MapOf
    <2>2. \A l \in 1 .. na : a[l] \in Nat
      BY <1>1, <1>2 DEF IsPath
    <2>3. na \in 1 .. na
      OBVIOUS
    <2>4. FoundUpTo(ptr, a, na)
      BY <1>2, <2>1, <2>3, WalkThrough
    <2> QED BY <2>2, <2>4 DEF FoundUpTo
  <1>8. Before(a, b)
    BY <1>1, PathOrder
  <1>9. PICK h \in 1 .. 4 : h <= na /\ h <= n /\ a[h] < b[h] /\ \A l \in 1 .. h - 1 : a[l] = b[l]
    BY <1>2, <1>8 DEF Before, BeforeAt
  <1>10. h > m /\ h <= k
    <2>1. \A l \in 1 .. m : a[l] = b[l]
      BY <1>5, <1>6
    <2>2. a[h] \in Nat /\ b[h] \in Nat /\ a[h] < b[h]
      BY <1>3, <1>7, <1>9
    <2>3. h > m
      BY <2>1, <2>2
    <2>4. b[h] # 0
      BY <2>2
    <2> QED BY <1>9, <2>3, <2>4
  <1>11. \A l \in 1 .. h - 1 : Walk(a, ptr)[l] = Walk(b, ptr)[l]
    <2>1. h - 1 \in 0 .. 4 /\ h - 1 <= na /\ h - 1 <= n
      BY <1>9
    <2>2. SameUpTo(ptr, a, b, h - 1)
      BY <1>2, <1>9, <2>1, PrefixWalk
    <2> QED BY <2>2 DEF SameUpTo
  <1>12. CASE h <= length
    <2>1. all_zeroes(c[h]) /\ c[h].bh = Walk(b, ptr)[h - 1] /\ c[h].off = b[h] /\ h - 1 \in 1 .. na /\ h > 1
      <3>1. h \in m + 1 .. length /\ h \in 1 .. length /\ h > 1 /\ h - 1 \in 1 .. na
        BY <1>9, <1>10, <1>12
      <3>2. all_zeroes(c[h])
        BY <3>1
      <3>3. c[h].bh = Parent(Walk(b, ptr), h) /\ c[h].off = b[h]
        BY <3>1 DEF Branch
      <3>4. Parent(Walk(b, ptr), h) = Walk(b, ptr)[h - 1]
        BY <3>1 DEF Parent
      <3> QED BY <3>1, <3>2, <3>3, <3>4
    <2>2. a[h] \in 0 .. b[h] - 1
      BY <1>3, <1>7, <1>9
    <2>3. ptr[Walk(a, ptr)[h - 1]][a[h]] = 0
      BY <1>11, <2>1, <2>2 DEF all_zeroes
    <2>4. Walk(a, ptr)[h] = IF Walk(a, ptr)[h - 1] = 0 THEN 0 ELSE ptr[Walk(a, ptr)[h - 1]][a[h]]
      <3>1. h \in 1 .. na /\ h > 1
        BY <1>9, <2>1
      <3> QED BY ONLY <1>2, <3>1, WalkAt, na \in 1 .. 4
    <2> QED BY <1>7, <1>9, <2>3, <2>4
  <1>13. CASE h > length
    <2>1. Walk(b, ptr)[length] = 0 /\ length \in 1 .. h - 1 /\ length \in 1 .. na
      BY <1>9, <1>10, <1>13
    <2> QED BY <1>7, <1>11, <2>1
  <1> QED BY <1>12, <1>13

-----------------------------------------------------------------------------
(***************************************************************************)
(* The steps of KrFileMap.                                                 *)
(***************************************************************************)

\* mm has what m has and perhaps more, and is one to one.
Fills(m, mm) ==
    /\ mm \in [FileRange -> 0 .. NBlocks]
    /\ \A i \in FileRange : m[i] # 0 => mm[i] = m[i]
    /\ \A i, j \in FileRange : (mm[i] # 0 /\ mm[i] = mm[j]) => i = j

\* mm has what m has, except for holes past the size.
Drops(m, mm, size) ==
    /\ mm \in [FileRange -> 0 .. NBlocks]
    /\ \A i \in FileRange : mm[i] = m[i] \/ (i >= size /\ mm[i] = 0)

\* What a step of the tree is a step of the map by.
Refines == FileMap!Next \/ UNCHANGED <<Map, i_size>>

\* Holes that get blocks are a step of the map.
LEMMA FillRefines == ASSUME Fills(Map, MapOf(ptr')), i_size' = i_size PROVE Refines
  <1>1. PICK m, mm : m = Map /\ mm = MapOf(ptr') /\ Fills(m, mm)
    OBVIOUS
  <1>2. Map' = mm
    BY <1>1 DEF Map
  <1>3. FileMap!Fill
    BY <1>1, <1>2 DEF FileMap!Fill, Fills, FileRange
  <1> QED BY <1>3 DEF Refines, FileMap!Next

\* Mappings past the size that go are a step of the map.
LEMMA DropRefines == ASSUME Drops(Map, MapOf(ptr'), i_size), i_size' = i_size PROVE Refines
  <1>1. PICK m, mm : m = Map /\ mm = MapOf(ptr') /\ Drops(m, mm, i_size)
    OBVIOUS
  <1>2. Map' = mm
    BY <1>1 DEF Map
  <1>3. FileMap!Drop
    BY <1>1, <1>2 DEF FileMap!Drop, Drops, FileRange
  <1> QED BY <1>3 DEF Refines, FileMap!Next

\* A new size is a step of the map.
LEMMA ResizeRefines == ASSUME ptr' = ptr, i_size' \in 0 .. LastBlock + 1 PROVE Refines
  <1>1. Map' = Map
    BY DEF Map, MapOf, FileRange, Offsets, Walk
  <1>2. FileMap!Resize
    BY <1>1 DEF FileMap!Resize
  <1> QED BY <1>2 DEF Refines, FileMap!Next

\* What changes no mapping and no size is no step of the map.
LEMMA SameRefines == ASSUME MapOf(ptr') = Map, i_size' = i_size PROVE Refines
  <1>1. Map' = Map
    BY DEF Map
  <1> QED BY <1>1 DEF Refines

-----------------------------------------------------------------------------
(***************************************************************************)
(* The steps of the tasks.                                                 *)
(***************************************************************************)

\* The step leaves the other tasks where they are.
Only(t) == \A u \in Tasks \ {t} : pc'[u] = pc[u] /\ fr'[u] = fr[u]

\* A step of one task that keeps its part of MapInv keeps all of it: only the holder of the
\* mutex stores pointers, and what the others know of the tree they do not rely on.
LEMMA MapStep ==
    ASSUME Inv, MapInv, NEW t \in Tasks, Only(t), ptr' = ptr \/ mutex \in {t, None},
           HoleOK(ptr', pc'[t], fr'[t]), CutOK(ptr', pc'[t], fr'[t]), CountOK(pc'[t], fr'[t]),
           SizedOK(t, pc'[t], fr'[t], i_size', rwsem', deleted'),
           \A u \in Tasks \ {t} : SizedOK(u, pc[u], fr[u], i_size', rwsem', deleted'),
           i_size' \in 0 .. LastBlock + 1
    PROVE  MapInv'
  <1>1. ASSUME NEW u \in Tasks \ {t}
        PROVE  /\ HoleOK(ptr', pc'[u], fr'[u]) /\ CutOK(ptr', pc'[u], fr'[u]) /\ CountOK(pc'[u], fr'[u])
               /\ SizedOK(u, pc'[u], fr'[u], i_size', rwsem', deleted')
    <2>1. /\ HoleOK(ptr, pc[u], fr[u]) /\ CutOK(ptr, pc[u], fr[u]) /\ CountOK(pc[u], fr[u])
          /\ pc'[u] = pc[u] /\ fr'[u] = fr[u]
      BY <1>1 DEF MapInv, Only
    <2>2. CASE ptr' = ptr
      BY <2>1, <2>2
    <2>3. CASE mutex \in {t, None}
      <3>1. pc[u] \notin Holding
        BY <1>1, <2>3, MapAssumption DEF Inv, Exclusive
      <3>2. pc[u] \notin {"alloc", "setup", "zero", "splice", "free"}
        BY <3>1 DEF Holding, Mapping, Cutting
      <3>3. HoleOK(ptr', pc[u], fr[u]) /\ CutOK(ptr', pc[u], fr[u])
        BY ONLY <3>2 DEF HoleOK, CutOK
      <3> QED BY <2>1, <3>3
    <2> QED BY <2>2, <2>3
  <1>2. \A u \in Tasks :
            /\ HoleOK(ptr', pc'[u], fr'[u]) /\ CutOK(ptr', pc'[u], fr'[u]) /\ CountOK(pc'[u], fr'[u])
            /\ SizedOK(u, pc'[u], fr'[u], i_size', rwsem', deleted')
    BY <1>1
  <1> HIDE DEF HoleOK, CutOK, CountOK, SizedOK
  <1> QED BY <1>2 DEF MapInv

\* The size and the locks stay as they are.
Still == UNCHANGED <<i_size, rwsem, deleted>>

\* The same for a step that leaves the size and the locks alone.
LEMMA StillStep ==
    ASSUME Inv, MapInv, NEW t \in Tasks, Only(t), ptr' = ptr \/ mutex \in {t, None}, Still,
           HoleOK(ptr', pc'[t], fr'[t]), CutOK(ptr', pc'[t], fr'[t]), CountOK(pc'[t], fr'[t]),
           SizedOK(t, pc'[t], fr'[t], i_size, rwsem, deleted)
    PROVE  MapInv'
  <1>1. i_size' = i_size /\ rwsem' = rwsem /\ deleted' = deleted
    BY DEF Still
  <1>2. \A u \in Tasks \ {t} : SizedOK(u, pc[u], fr[u], i_size', rwsem', deleted')
    BY <1>1 DEF MapInv
  <1>3. i_size' \in 0 .. LastBlock + 1
    BY <1>1 DEF MapInv
  <1>4. SizedOK(t, pc'[t], fr'[t], i_size', rwsem', deleted')
    BY <1>1
  <1> QED BY <1>2, <1>3, <1>4, MapStep

\* A step of a call of kr_get_blocks that keeps what it is about.
Goes(t) ==
    /\ fr'[t].kind = fr[t].kind /\ fr'[t].iblock = fr[t].iblock /\ fr'[t].max = fr[t].max

\* The facts MapInv has of one task.
LEMMA TaskFacts ==
    ASSUME MapInv, NEW t \in Tasks
    PROVE  /\ HoleOK(ptr, pc[t], fr[t]) /\ CutOK(ptr, pc[t], fr[t]) /\ CountOK(pc[t], fr[t])
           /\ SizedOK(t, pc[t], fr[t], i_size, rwsem, deleted)
           /\ i_size \in 0 .. LastBlock + 1
  BY DEF MapInv

\* A step of the unlocked walk.
LEMMA WalkStep ==
    ASSUME Inv, MapInv, NEW t \in Tasks, Only(t), ptr' = ptr, Still, Goes(t),
           pc[t] \in Walking, pc'[t] \in Walking \cup {"return"}, fr'[t].count <= fr'[t].max
    PROVE  MapInv'
  <1>1. pc'[t] \notin {"alloc", "setup", "zero", "splice", "free", "written"} /\ pc'[t] \notin Cuts /\ pc'[t] \in Lookups
    BY DEF Walking, Cuts, Lookups
  <1>2. HoleOK(ptr', pc'[t], fr'[t]) /\ CutOK(ptr', pc'[t], fr'[t])
    BY <1>1 DEF HoleOK, CutOK
  <1>3. SizedOK(t, pc[t], fr[t], i_size, rwsem, deleted) /\ LocalOK(pc[t], fr[t]) /\ pc[t] \in Lookups
    BY TaskFacts, PathFacts DEF Lookups
  <1>4. CountOK(pc'[t], fr'[t])
    <2>1. fr[t].iblock + fr[t].max - 1 <= LastBlock
      BY <1>3 DEF LocalOK
    <2> QED BY <1>1, <2>1 DEF CountOK, Goes
  <1>5. SizedOK(t, pc'[t], fr'[t], i_size, rwsem, deleted)
    BY <1>1, <1>3 DEF SizedOK, Goes
  <1> QED BY <1>2, <1>4, <1>5, StillStep

\* The frame and the label of the task that moves.
LEMMA Moved ==
    ASSUME Inv, NEW t \in Tasks, NEW l, pc' = [pc EXCEPT ![t] = l], NEW g, fr' = [fr EXCEPT ![t] = g]
    PROVE  Only(t) /\ pc'[t] = l /\ fr'[t] = g
  BY PathFacts DEF Only

\* The unlocked walk changes neither the map nor the size.
LEMMA QuietRefines == ASSUME ptr' = ptr, i_size' = i_size PROVE Refines
  <1>1. MapOf(ptr') = Map
    BY DEF Map
  <1> QED BY <1>1, SameRefines

\* A link that is added to the chain.
LEMMA LinkMap ==
    ASSUME Inv, MapInv, NEW t \in Tasks, pc[t] \in Walking, NEW c, NEW l \in Walking,
           fr' = [fr EXCEPT ![t].chain = c], Goto(t, l), ptr' = ptr, Still
    PROVE  MapInv' /\ Refines
  <1>1. PICK f \in Frames : f = fr[t] /\ DOMAIN fr = Tasks /\ DOMAIN pc = Tasks
    BY PathFacts
  <1>2. PICK g : g = [f EXCEPT !.chain = c]
    OBVIOUS
  <1>3. g.kind = f.kind /\ g.iblock = f.iblock /\ g.max = f.max /\ g.count = f.count
    BY <1>2 DEF Frames
  <1>4. fr' = [fr EXCEPT ![t] = g] /\ pc' = [pc EXCEPT ![t] = l]
    BY <1>1, <1>2 DEF Goto
  <1>5. Only(t) /\ pc'[t] = l /\ fr'[t] = g
    BY <1>4, Moved
  <1>6. f.count <= f.max
    BY <1>1, TaskFacts DEF CountOK
  <1>7. Goes(t) /\ fr'[t].count <= fr'[t].max /\ pc'[t] \in Walking \cup {"return"}
    BY <1>1, <1>3, <1>5, <1>6 DEF Goes
  <1> QED BY <1>5, <1>7, WalkStep, QuietRefines DEF Still

\* After a link the walk goes on, or ends in one of its ways.
LEMMA AfterLinkWalks == ASSUME NEW c, NEW n PROVE AfterLink(c, n) \in Walking
  BY DEF AfterLink, Walking

\* add_chain for the slot of i_data.
LEMMA FirstLinkMap == ASSUME Inv, MapInv, NEW t \in Tasks, FirstLink(t) PROVE MapInv' /\ Refines
  <1>1. PICK c : fr' = [fr EXCEPT ![t].chain = c] /\ Goto(t, AfterLink(c, Len(Path(t))))
    BY DEF FirstLink
  <1>3. AfterLink(c, Len(Path(t))) \in Walking
    BY AfterLinkWalks
  <1>2. pc[t] \in Walking /\ ptr' = ptr /\ Still
    BY DEF FirstLink, At, Walking, Still, disk, locks
  <1> QED BY <1>1, <1>2, <1>3, LinkMap

\* add_chain for a slot of the block read.
LEMMA AddLinkMap == ASSUME Inv, MapInv, NEW t \in Tasks, AddLink(t) PROVE MapInv' /\ Refines
  <1>1. PICK c : fr' = [fr EXCEPT ![t].chain = c] /\ Goto(t, AfterLink(c, Len(Path(t))))
    BY DEF AddLink
  <1>3. AfterLink(c, Len(Path(t))) \in Walking
    BY AfterLinkWalks
  <1>2. pc[t] \in Walking /\ ptr' = ptr /\ Still
    BY DEF AddLink, At, Walking, Still, disk, locks
  <1> QED BY <1>1, <1>2, <1>3, LinkMap

\* sb_bread of the next block.
LEMMA BreadMap == ASSUME Inv, MapInv, NEW t \in Tasks, Bread(t) PROVE MapInv' /\ Refines
  <1>1. pc[t] = "bread" /\ pc[t] \in Walking /\ ptr' = ptr /\ Still
    BY DEF Bread, At, Walking, Still, disk, locks
  <1>2. PICK f \in Frames : f = fr[t] /\ DOMAIN fr = Tasks /\ DOMAIN pc = Tasks
    BY PathFacts
  <1>3. PICK l \in {"absent", "add"}, e \in Errors : Goto(t, l) /\ fr' = [fr EXCEPT ![t] = [f EXCEPT !.err = e]]
    <2>0. "EIO" \in Errors /\ "EAGAIN" \in Errors /\ f.err \in Errors
      BY DEF Errors, Frames
    <2>1. CASE fr' = [fr EXCEPT ![t].err = "EIO"] /\ Goto(t, "absent")
      BY <1>2, <2>0, <2>1
    <2>2. CASE fr' = [fr EXCEPT ![t].err = "EAGAIN"] /\ Goto(t, "absent")
      BY <1>2, <2>0, <2>2
    <2>3. CASE fr' = fr /\ Goto(t, "add")
      <3>1. f = [f EXCEPT !.err = f.err]
        BY <1>2 DEF Frames
      <3>2. fr = [fr EXCEPT ![t] = f]
        BY <1>2, PathFacts DEF Inv, Typed
      <3> QED BY <2>0, <2>3, <3>1, <3>2
    <2> QED BY <2>1, <2>2, <2>3 DEF Bread
  <1>4. PICK g : g = [f EXCEPT !.err = e]
    OBVIOUS
  <1>5. g.kind = f.kind /\ g.iblock = f.iblock /\ g.max = f.max /\ g.count = f.count
    BY <1>4 DEF Frames
  <1>6. Only(t) /\ pc'[t] = l /\ fr'[t] = g
    BY <1>3, <1>4, Moved DEF Goto
  <1>7. f.count <= f.max
    BY <1>1, <1>2, TaskFacts DEF CountOK
  <1>8. Goes(t) /\ fr'[t].count <= fr'[t].max /\ pc'[t] \in Walking \cup {"return"}
    BY <1>2, <1>5, <1>6, <1>7 DEF Goes, Walking
  <1> QED BY <1>1, <1>6, <1>8, WalkStep, QuietRefines DEF Still

\* The end of a lookup that found a hole.
LEMMA AbsentMap == ASSUME Inv, MapInv, NEW t \in Tasks, Absent(t) PROVE MapInv' /\ Refines
  <1>1. pc[t] = "absent" /\ pc[t] \in Walking /\ ptr' = ptr /\ Still /\ fr' = fr
    BY DEF Absent, At, Walking, Still, disk, locks
  <1>2. PICK l \in {"return", "lock"} : Goto(t, l)
    BY DEF Absent
  <1>3. fr = [fr EXCEPT ![t] = fr[t]]
    BY PathFacts DEF Inv, Typed
  <1>4. Only(t) /\ pc'[t] = l /\ fr'[t] = fr[t]
    BY <1>1, <1>2, <1>3, Moved DEF Goto
  <1>5. Goes(t) /\ fr'[t].count <= fr'[t].max /\ pc'[t] \in Walking \cup {"return"}
    BY <1>1, <1>4, TaskFacts DEF Goes, CountOK, Walking
  <1> QED BY <1>1, <1>4, <1>5, WalkStep, QuietRefines DEF Still

\* The count of the blocks that follow.
LEMMA MapMoreMap == ASSUME Inv, MapInv, NEW t \in Tasks, MapMore(t) PROVE MapInv' /\ Refines
  <1>1. pc[t] = "found" /\ pc[t] \in Walking /\ ptr' = ptr /\ Still
    BY DEF MapMore, At, Walking, Still, disk, locks
  <1>2. PICK f \in Frames : f = fr[t] /\ DOMAIN fr = Tasks /\ DOMAIN pc = Tasks
    BY PathFacts
  <1>3. f.count <= f.max /\ f.count \in Nat /\ f.max \in Nat \ {0}
    BY <1>1, <1>2, FrameFields, TaskFacts DEF CountOK
  <1>4. PICK l \in {"absent", "found", "return"}, n \in Nat, e \in Errors, h \in BOOLEAN :
            /\ n <= f.max /\ Goto(t, l)
            /\ fr' = [fr EXCEPT ![t].count = n, ![t].err = e, ![t].whole = h]
    <2> DEFINE last == f.chain[Len(f.chain)]
               count == IF f.count = 0 THEN 1 ELSE f.count
               more == count < f.max /\ count <= boundary(PtrBits, f.iblock)
               changed == more /\ ~verify_chain(f.chain)
               next == more /\ ~changed /\ ptr[last.bh][last.off + count] = last.key + count
               n == IF changed THEN 0 ELSE IF next THEN count + 1 ELSE count
               l == IF changed THEN "absent" ELSE IF next THEN "found" ELSE "return"
               e == IF changed THEN "EAGAIN" ELSE ""
    <2>1. Goto(t, l) /\ fr' = [fr EXCEPT ![t].count = n, ![t].err = e, ![t].whole = changed]
      BY <1>2 DEF MapMore
    <2>2. n \in Nat /\ n <= f.max /\ l \in {"absent", "found", "return"}
      <3>1. count \in Nat /\ count <= f.max
        BY <1>3
      <3>2. next => count < f.max
        OBVIOUS
      <3> HIDE DEF count, next, changed
      <3> QED BY <1>3, <3>1, <3>2
    <2>3. e \in Errors
      BY DEF Errors
    <2>4. changed \in BOOLEAN
      OBVIOUS
    <2> HIDE DEF n, l, e, changed
    <2> QED BY <2>1, <2>2, <2>3, <2>4
  <1>5. PICK g : g = [f EXCEPT !.count = n, !.err = e, !.whole = h]
    OBVIOUS
  <1>6. g.kind = f.kind /\ g.iblock = f.iblock /\ g.max = f.max /\ g.count = n
    BY <1>5 DEF Frames
  <1>7. fr' = [fr EXCEPT ![t] = g]
    BY <1>2, <1>4, <1>5
  <1>8. Only(t) /\ pc'[t] = l /\ fr'[t] = g
    BY <1>4, <1>7, Moved DEF Goto
  <1>9. Goes(t) /\ fr'[t].count <= fr'[t].max /\ pc'[t] \in Walking \cup {"return"}
    BY <1>2, <1>4, <1>6, <1>8 DEF Goes, Walking
  <1> QED BY <1>1, <1>8, <1>9, WalkStep, QuietRefines DEF Still

\* The frame g of a call that has the chain c, which is good and ends in a zero pointer.
Allocates(t, c, g) ==
    /\ Threaded(Path(t), c) /\ verify_chain(c) /\ c[Len(c)].key = 0
    /\ g.chain = c /\ g.partial = Len(c) /\ g.want = Want(t, c) /\ g.kind = fr[t].kind
    /\ g.iblock = fr[t].iblock /\ g.max = fr[t].max /\ g.new = fr[t].new

\* With the mutex and a chain that ends in a zero pointer, a call may allocate.
LEMMA LockedMap ==
    ASSUME Inv, MapInv, NEW t \in Tasks, pc[t] = "lock", mutex = None, ptr' = ptr, Still,
           NEW c \in Seq(Links), NEW g, Allocates(t, c, g),
           pc' = [pc EXCEPT ![t] = "alloc"], fr' = [fr EXCEPT ![t] = g]
    PROVE  MapInv'
  <1> USE DEF Allocates
  <1>1. Only(t) /\ pc'[t] = "alloc" /\ fr'[t] = g
    BY Moved
  <1>2. PICK lev \in Levels : Tree(ptr, lev)
    BY InvTree
  <1>3. fr[t] \in Frames /\ LocalOK("lock", fr[t]) /\ Path(t) = Offsets(g.iblock)
    BY PathFacts
  <1>40. /\ Len(c) \in 1 .. 4 /\ Len(Path(t)) - Len(c) \in 0 .. 3 /\ Want(t, c) \in Nat
         /\ Want(t, c) - (Len(Path(t)) - Len(c)) <= fr[t].max
         /\ Len(Path(t)) - Len(c) = 0 =>
              \A d \in 1 .. Want(t, c) - 1 : ptr[c[Len(c)].bh][c[Len(c)].off + d] = 0
    BY <1>2, <1>3, WantFacts
  <1>41. PICK w : w = c[Len(c)]
    OBVIOUS
  <1>4. PICK k \in 0 .. 3, m \in 1 .. 4, want \in Nat :
            /\ k = Len(Path(t)) - Len(c) /\ m = Len(c) /\ want = Want(t, c) /\ w = c[Len(c)]
            /\ want - k <= fr[t].max
            /\ k = 0 => \A d \in 1 .. want - 1 : ptr[w.bh][w.off + d] = 0
    BY ONLY <1>40, <1>41, Zenon
  <1>5. g.new = <<>> /\ Len(g.new) = 0
    <2>1. g.new = <<>>
      BY <1>3 DEF LocalOK, Walking
    <2>2. Len(<<>>) = 0
      OBVIOUS
    <2> QED BY ONLY <2>1, <2>2
  <1>6. ptr[w.bh][w.off] = 0 /\ w.off \in Nat
    <2>1. m \in 1 .. Len(c)
      BY <1>4
    <2>2. ptr[c[m].bh][c[m].off] = c[m].key /\ c[m] \in Links
      BY <2>1 DEF verify_chain
    <2> QED BY <1>4, <2>2 DEF Links
  <1>7. HoleOK(ptr, "alloc", g)
    <2>1. /\ Len(Offsets(g.iblock)) - g.partial = k /\ g.chain[g.partial] = w /\ g.want = want
      BY <1>3, <1>4
    <2>2. ASSUME k = 0, NEW d \in 0 .. Len(g.new) + g.want - 1 PROVE ptr[w.bh][w.off + d] = 0
      <3>1. d = 0 \/ d \in 1 .. want - 1
        BY <1>5, <2>1, <2>2
      <3>2. w.off + 0 = w.off
        BY <1>6
      <3> QED BY <1>4, <1>6, <2>2, <3>1, <3>2
    <2> QED BY <1>6, <2>1, <2>2 DEF HoleOK, Empty
  <1>8. CountOK("alloc", g)
    <2>1. Len(Offsets(g.iblock)) - g.partial = k /\ g.want = want /\ g.max = fr[t].max /\ fr[t].max \in Nat
      BY <1>3, <1>4, FrameFields
    <2>2. Len(g.new) + g.want <= (Len(Offsets(g.iblock)) - g.partial) + g.max
      BY <1>4, <1>5, <2>1
    <2> QED BY <2>2 DEF CountOK, Walking
  <1>9. SizedOK(t, "alloc", g, i_size, rwsem, deleted)
    <2>1. SizedOK(t, "lock", fr[t], i_size, rwsem, deleted)
      BY TaskFacts
    <2> QED BY <2>1 DEF SizedOK, Cuts, Lookups, Walking, Mapping
  <1>10. CutOK(ptr, "alloc", g)
    BY DEF CutOK
  <1> QED BY <1>1, <1>7, <1>8, <1>9, <1>10, StillStep

\* The mutex is taken: the chain that is in hand then ends in a hole, and so do the slots
\* after it that kr_blks_to_allocate counts.
LEMMA LockTreeMap == ASSUME ~IOErrors, Inv, MapInv, NEW t \in Tasks, LockTree(t) PROVE MapInv' /\ Refines
  <1>0. pc[t] = "lock" /\ mutex = None /\ ptr' = ptr /\ Still /\ i_size' = i_size
    BY DEF LockTree, At, Still, disk
  <1>1. PICK f \in Frames : f = fr[t]
    BY PathFacts
  <1>p. PICK path : path = Path(t)
    OBVIOUS
  <1>2. /\ LocalOK("lock", f) /\ path = Offsets(f.iblock) /\ IsPath(path) /\ Len(path) \in 1 .. 4 /\ DOMAIN fr = Tasks
    BY <1>0, <1>1, <1>p, PathFacts
  <1>3. f.chain \in Seq(Links) /\ Threaded(path, f.chain)
    BY <1>2, FrameFields DEF LocalOK, Walking
  <1>4. CASE /\ f.err # "EAGAIN" /\ verify_chain(f.chain)
             /\ fr' = [fr EXCEPT ![t].partial = Len(f.chain), ![t].want = Want(t, f.chain)]
             /\ Goto(t, "alloc")
    <2>1. PICK g : g = [f EXCEPT !.partial = Len(f.chain), !.want = Want(t, f.chain)]
      OBVIOUS
    <2>2. /\ g.chain = f.chain /\ g.partial = Len(f.chain) /\ g.want = Want(t, f.chain) /\ g.kind = f.kind
          /\ g.iblock = f.iblock /\ g.max = f.max /\ g.new = f.new
      BY <2>1 DEF Frames
    <2>3. f.chain[Len(f.chain)].key = 0
      BY <1>2, <1>4 DEF LocalOK, LastKey, Walking
    <2>4. fr' = [fr EXCEPT ![t] = g] /\ pc' = [pc EXCEPT ![t] = "alloc"]
      BY <1>1, <1>p, <1>2, <1>4, <2>1 DEF Goto
    <2>5. Allocates(t, f.chain, g)
      BY <1>1, <1>p, <1>3, <1>4, <2>2, <2>3 DEF Allocates
    <2> QED BY <1>0, <1>3, <2>4, <2>5, LockedMap, QuietRefines
  <1>5. ASSUME NEW length \in BranchLengths(path), NEW c, c = kr_get_branch(path, length),
               NEW g, g = [f EXCEPT !.chain = c, !.err = "", !.whole = FALSE],
               \/ /\ fr' = [fr EXCEPT ![t] = [g EXCEPT !.count = 1]]
                  /\ Goto(t, "return")
               \/ /\ ~(length = Len(path) /\ c[length].key # 0)
                  /\ fr' = [fr EXCEPT ![t] = [g EXCEPT !.partial = length, !.want = Want(t, c)]]
                  /\ Goto(t, "alloc")
        PROVE  MapInv' /\ Refines
    <2>1. PICK n \in 1 .. 4 : Len(path) = n
      BY <1>2
    <2>2. SubSeq(path, 1, n) = path
      <3>1. path \in Seq(Nat) /\ Len(path) = n
        BY <1>2, <2>1 DEF IsPath
      <3>2. SubSeq(path, 1, n) \in Seq(Nat) /\ Len(SubSeq(path, 1, n)) = n
        BY <3>1
      <3>3. \A j \in 1 .. n : SubSeq(path, 1, n)[j] = path[j]
        BY <3>1
      <3> QED BY <3>1, <3>2, <3>3, SeqEqual
    <2>3. /\ length \in 1 .. n /\ Len(c) = length /\ c \in Seq(Links) /\ Threaded(path, c) /\ verify_chain(c)
          /\ c[length].key = Walk(path, ptr)[length]
          /\ length = n \/ Walk(path, ptr)[length] = 0
      <3>1. PICK lev \in Levels : Tree(ptr, lev)
        BY InvTree
      <3>2. length \in BranchLengths(SubSeq(path, 1, n)) /\ n <= Len(path)
        <4>1. n <= Len(path)
          BY ONLY <2>1, n \in 1 .. 4
        <4>2. length \in BranchLengths(SubSeq(path, 1, n))
          BY ONLY length \in BranchLengths(path), <2>2, Zenon
        <4> QED BY <4>1, <4>2
      <3>3. /\ length \in 1 .. n /\ Len(c) = length /\ c \in Seq(Links) /\ Threaded(path, c) /\ verify_chain(c)
            /\ \A j \in 1 .. length : c[j].key = Walk(path, ptr)[j]
            /\ length = n \/ Walk(path, ptr)[length] = 0
        BY <1>2, <1>5, <3>1, <3>2, BranchFacts
      <3>4. length \in 1 .. length
        BY <3>3
      <3> QED BY <3>3, <3>4
    <2>4. /\ g.chain = c /\ g.kind = f.kind /\ g.iblock = f.iblock /\ g.max = f.max /\ g.new = f.new
          /\ \A m, w : /\ [g EXCEPT !.partial = m, !.want = w].chain = c
                       /\ [g EXCEPT !.partial = m, !.want = w].partial = m
                       /\ [g EXCEPT !.partial = m, !.want = w].want = w
                       /\ [g EXCEPT !.partial = m, !.want = w].kind = f.kind
                       /\ [g EXCEPT !.partial = m, !.want = w].iblock = f.iblock
                       /\ [g EXCEPT !.partial = m, !.want = w].max = f.max
                       /\ [g EXCEPT !.partial = m, !.want = w].new = f.new
          /\ \A m : /\ [g EXCEPT !.count = m].kind = f.kind /\ [g EXCEPT !.count = m].iblock = f.iblock
                    /\ [g EXCEPT !.count = m].max = f.max /\ [g EXCEPT !.count = m].count = m
      BY <1>5 DEF Frames
    <2>5. CASE fr' = [fr EXCEPT ![t] = [g EXCEPT !.count = 1]] /\ Goto(t, "return")
      <3>1. PICK h : h = [g EXCEPT !.count = 1]
        OBVIOUS
      <3>2. h.kind = f.kind /\ h.iblock = f.iblock /\ h.max = f.max /\ h.count = 1 /\ f.max \in Nat \ {0}
        BY <2>4, <3>1, FrameFields
      <3>3. Only(t) /\ pc'[t] = "return" /\ fr'[t] = h
        BY <2>5, <3>1, Moved DEF Goto
      <3>4. Goes(t) /\ fr'[t].count <= fr'[t].max /\ pc[t] \in Walking /\ pc'[t] \in Walking \cup {"return"}
        BY <1>0, <1>1, <1>p, <3>2, <3>3 DEF Goes, Walking
      <3> QED BY <1>0, <3>3, <3>4, WalkStep, QuietRefines
    <2>6. CASE /\ ~(length = Len(path) /\ c[length].key # 0)
               /\ fr' = [fr EXCEPT ![t] = [g EXCEPT !.partial = length, !.want = Want(t, c)]]
               /\ Goto(t, "alloc")
      <3>1. PICK h : h = [g EXCEPT !.partial = length, !.want = Want(t, c)]
        OBVIOUS
      <3>2. /\ h.chain = c /\ h.partial = Len(c) /\ h.want = Want(t, c) /\ h.kind = f.kind
            /\ h.iblock = f.iblock /\ h.max = f.max /\ h.new = f.new
        BY <2>3, <2>4, <3>1
      <3>3. c[Len(c)].key = 0
        BY <2>1, <2>3, <2>6
      <3>4. fr' = [fr EXCEPT ![t] = h] /\ pc' = [pc EXCEPT ![t] = "alloc"]
        BY <2>6, <3>1 DEF Goto
      <3>5. Allocates(t, c, h)
        BY <1>1, <1>p, <2>3, <3>2, <3>3 DEF Allocates
      <3> QED BY <1>0, <2>3, <3>4, <3>5, LockedMap, QuietRefines
    <2> QED BY <1>5, <2>5, <2>6
  <1> QED BY <1>0, <1>1, <1>p, <1>4, <1>5 DEF LockTree

\* A call that gives up has mapped nothing.
LEMMA GiveUpMap ==
    ASSUME Inv, MapInv, NEW t \in Tasks, pc[t] \in Mapping, NEW e, GiveUp(t, e), ptr' = ptr, Still
    PROVE  MapInv' /\ Refines
  <1>1. PICK f \in Frames : f = fr[t] /\ DOMAIN fr = Tasks
    BY PathFacts
  <1>2. PICK g : g = [f EXCEPT !.err = e, !.count = 0, !.new = <<>>]
    OBVIOUS
  <1>3. g.kind = f.kind /\ g.iblock = f.iblock /\ g.max = f.max /\ g.count = 0
    BY <1>2 DEF Frames
  <1>4. fr' = [fr EXCEPT ![t] = g] /\ pc' = [pc EXCEPT ![t] = "return"]
    BY <1>1, <1>2 DEF GiveUp, Goto
  <1>5. Only(t) /\ pc'[t] = "return" /\ fr'[t] = g
    BY <1>4, Moved
  <1>6. f.iblock + f.max - 1 <= LastBlock /\ f.max \in Nat
    BY <1>1, PathFacts, FrameFields DEF LocalOK
  <1>7. CountOK("return", g)
    BY <1>3, <1>6 DEF CountOK
  <1>8. SizedOK(t, "return", g, i_size, rwsem, deleted)
    <2>1. SizedOK(t, pc[t], f, i_size, rwsem, deleted) /\ pc[t] \in Lookups
      BY <1>1, TaskFacts DEF Lookups
    <2> QED BY <1>3, <2>1 DEF SizedOK, Cuts, Lookups, Walking
  <1>9. HoleOK(ptr, "return", g) /\ CutOK(ptr, "return", g)
    BY DEF HoleOK, CutOK
  <1> QED BY <1>5, <1>7, <1>8, <1>9, StillStep, QuietRefines DEF Still

\* What an allocation has and what it still wants stays the same.
LEMMA AllocBlocksMap == ASSUME Inv, MapInv, NEW t \in Tasks, AllocBlocks(t) PROVE MapInv' /\ Refines
  <1>0. pc[t] = "alloc" /\ ptr' = ptr /\ Still /\ pc[t] \in Mapping /\ i_size' = i_size
    BY DEF AllocBlocks, At, Still, Mapping
  <1>1. CASE GiveUp(t, "ENOSPC")
    BY <1>0, <1>1, GiveUpMap
  <1>2. ASSUME NEW run \in Runs(fr[t].want), NEW new, new = fr[t].new \o [k \in 1 .. run[2] |-> run[1] + k - 1],
               fr' = [fr EXCEPT ![t].new = new, ![t].want = @ - run[2]],
               Goto(t, IF Len(new) > Missing(t) THEN "setup" ELSE "alloc")
        PROVE  MapInv' /\ Refines
    <2>1. PICK f \in Frames : f = fr[t] /\ DOMAIN fr = Tasks
      BY PathFacts
    <2>2. PICK c \in Nat : c = run[2] /\ c <= f.want /\ f.want \in Nat
      <3>1. f.want \in Nat
        BY FrameFields
      <3>2. \E first \in Blocks, count \in 1 .. f.want : run = <<first, count>>
        BY <1>2, <2>1 DEF Runs
      <3> QED BY <3>1, <3>2
    <2>3. PICK N \in Seq(Blocks), L \in Nat : N = f.new /\ L = Len(N)
      BY FrameFields
    <2>4. Len(new) = L + c
      <3>1. \A S : S \in Seq(Int) => Len(N \o S) = Len(N) + Len(S)
        BY DEF Blocks
      <3>2. [k \in 1 .. c |-> run[1] + k - 1] \in Seq(Int) /\ Len([k \in 1 .. c |-> run[1] + k - 1]) = c
        <4>1. run[1] \in Int
          <5>1. \E first \in Blocks, count \in 1 .. f.want : run = <<first, count>>
            BY <1>2, <2>1 DEF Runs
          <5> QED BY <5>1, MapAssumption DEF Blocks
        <4>2. \A k \in 1 .. c : run[1] + k - 1 \in Int
          BY <4>1
        <4> QED BY <4>2
      <3> QED BY <1>2, <2>1, <2>2, <2>3, <3>1, <3>2
    <2>5. PICK g : g = [f EXCEPT !.new = new, !.want = f.want - c]
      OBVIOUS
    <2>6. /\ g.kind = f.kind /\ g.iblock = f.iblock /\ g.max = f.max /\ g.chain = f.chain
          /\ g.partial = f.partial /\ g.new = new /\ g.want = f.want - c
      BY <2>5 DEF Frames
    <2>7. PICK l \in {"setup", "alloc"} : pc' = [pc EXCEPT ![t] = l]
      BY <1>2 DEF Goto
    <2>8. fr' = [fr EXCEPT ![t] = g]
      BY <1>2, <2>1, <2>2, <2>5
    <2>9. Only(t) /\ pc'[t] = l /\ fr'[t] = g
      BY <2>7, <2>8, Moved
    <2>10. Len(g.new) + g.want = Len(f.new) + f.want
      BY <2>2, <2>3, <2>4, <2>6
    <2>11. HoleOK(ptr, "alloc", f) /\ CountOK("alloc", f) /\ SizedOK(t, "alloc", f, i_size, rwsem, deleted)
      BY <1>0, <2>1, TaskFacts
    <2>12. HoleOK(ptr, l, g) /\ CutOK(ptr, l, g)
      <3>1. Empty(ptr, f.chain[f.partial], Len(Offsets(f.iblock)) - f.partial, Len(f.new) + f.want)
        BY <2>11 DEF HoleOK
      <3>2. Empty(ptr, g.chain[g.partial], Len(Offsets(g.iblock)) - g.partial, Len(g.new) + g.want)
        BY <2>6, <2>10, <3>1
      <3>4. HoleOK(ptr, l, g)
        BY <3>2 DEF HoleOK
      <3> QED BY <3>4 DEF CutOK
    <2>13. CountOK(l, g)
      BY <2>6, <2>10, <2>11 DEF CountOK, Walking
    <2>14. SizedOK(t, l, g, i_size, rwsem, deleted)
      BY <2>6, <2>11 DEF SizedOK, Cuts, Lookups, Walking, Mapping
    <2> QED BY <1>0, <2>9, <2>12, <2>13, <2>14, StillStep, QuietRefines
  <1> QED BY <1>1, <1>2 DEF AllocBlocks

\* ~IOErrors: blocks are zeroed without an error.
LEMMA ZeroOutMap == ASSUME ~IOErrors, Inv, MapInv, NEW t \in Tasks, ZeroOut(t) PROVE MapInv' /\ Refines
  <1>0. pc[t] = "zero" /\ ptr' = ptr /\ Still /\ fr' = fr /\ pc' = [pc EXCEPT ![t] = "splice"]
    BY DEF ZeroOut, At, Still, disk, Goto
  <1>1. fr = [fr EXCEPT ![t] = fr[t]]
    BY PathFacts DEF Inv, Typed
  <1>2. Only(t) /\ pc'[t] = "splice" /\ fr'[t] = fr[t]
    BY <1>0, <1>1, Moved
  <1>3. /\ HoleOK(ptr, "zero", fr[t]) /\ CountOK("zero", fr[t])
        /\ SizedOK(t, "zero", fr[t], i_size, rwsem, deleted)
    BY <1>0, TaskFacts
  <1>4. HoleOK(ptr, "splice", fr[t]) /\ CutOK(ptr, "splice", fr[t])
    BY <1>3 DEF HoleOK, CutOK
  <1>5. CountOK("splice", fr[t]) /\ SizedOK(t, "splice", fr[t], i_size, rwsem, deleted)
    BY <1>3 DEF CountOK, Walking, SizedOK, Cuts, Lookups, Walking, Mapping
  <1> QED BY <1>0, <1>2, <1>4, <1>5, StillStep, QuietRefines DEF Still

\* Blocks that are not the file's may be written to.
LEMMA TreeSame ==
    ASSUME NEW p, NEW lev, Tree(p, lev), NEW q, IsPointers(q), \A x \in Nodes : Leads(lev, x) => q[x] = p[x]
    PROVE  Tree(q, lev) /\ MapOf(q) = MapOf(p)
  <1>1. Tree(q, lev)
    BY DEF Tree, Levelled
  <1> QED BY <1>1, MapSame

\* The new blocks are linked to each other; none is in the tree yet.
LEMMA SetUpBranchMap ==
    ASSUME Inv, MapInv, Inv', NEW t \in Tasks, SetUpBranch(t)
    PROVE  MapInv' /\ Refines
  <1>0. pc[t] = "setup" /\ pc[t] \in Holding /\ pc[t] \in Mapping /\ Still /\ i_size' = i_size
    BY DEF SetUpBranch, At, Holding, Mapping, Still
  <1>1. PICK f \in Frames : f = fr[t] /\ Path(t) = Offsets(f.iblock) /\ DOMAIN fr = Tasks
    BY PathFacts
  <1>2. PICK path : path = Path(t) /\ path = Offsets(f.iblock) /\ IsPath(path)
    BY <1>1, PathFacts
  <1>3. PICK lev \in Levels : Tree(ptr, lev) /\ NewOK(lev, f) /\ RunOK(f)
    BY <1>0, <1>1 DEF Inv, LevelInv, HandOK, Sound
  <1>5. PICK k \in 0 .. 3 : k = Missing(t) /\ k = Len(path) - f.partial
    <2>1. PICK n \in 1 .. 4 : Len(path) = n
      BY <1>2 DEF IsPath
    <2>2. f.partial \in 1 .. n
      BY <1>2, <1>3, <2>1 DEF NewOK
    <2>3. Missing(t) = n - f.partial /\ n - f.partial \in 0 .. 3
      BY <1>1, <1>2, <2>1, <2>2 DEF Missing
    <2> QED BY <2>1, <2>3
  <1>6. CASE GiveUp(t, "ENOMEM") /\ ptr' = ptr
    BY <1>0, <1>6, GiveUpMap
  <1>7. ASSUME ptr' = [b \in Nodes |-> IF b \in DOMAIN NewPointers(t) THEN NewPointers(t)[b] ELSE ptr[b]],
               fr' = [fr EXCEPT ![t].chain = [@ EXCEPT ![f.partial].key = f.new[1]] \o
                          [n \in 1 .. k |-> [bh |-> f.new[n], off |-> path[f.partial + n], key |-> f.new[n + 1]]],
                                ![t].count = Len(f.new) - k],
               Goto(t, IF Dax THEN "zero" ELSE "splice")
        PROVE  MapInv' /\ Refines
    <2>1. PICK off, q : off = [n \in 1 .. k |-> path[f.partial + n]] /\ q = ptr'
      OBVIOUS
    <2>2. NewBranch(ptr, q, f.new, k, off)
      BY <1>1, <1>2, <1>3, <1>5, <1>7, <2>1, NewPointersBranch
    <2>3. PICK N \in Seq(Blocks), L \in Nat : N = f.new /\ L = Len(N)
      BY FrameFields
    <2>4. L > k /\ \A n \in 1 .. L : lev[N[n]] = -1 /\ N[n] \in Blocks
      BY <1>2, <1>3, <1>5, <2>3 DEF NewOK, RunOK
    <2>5. \A x \in Nodes : Leads(lev, x) => q[x] = ptr[x]
      <3> SUFFICES ASSUME NEW x \in Nodes, Leads(lev, x) PROVE q[x] = ptr[x]
        OBVIOUS
      <3>1. \A n \in 1 .. k : N[n] # x
        <4> SUFFICES ASSUME NEW n \in 1 .. k, N[n] = x PROVE FALSE
          OBVIOUS
        <4>1. lev[x] = -1 /\ x \in Blocks
          BY <2>4
        <4> QED BY <4>1, NodeFacts DEF Leads
      <3> QED BY <2>2, <2>3, <3>1 DEF NewBranch
    <2>6. IsPointers(q)
      BY <2>1 DEF Inv, LevelInv, Sound, Tree
    <2>7. MapOf(q) = MapOf(ptr)
      BY <1>3, <2>5, <2>6, TreeSame
    <2>8. Refines
      BY <1>0, <2>1, <2>7, SameRefines DEF Map
    <2>9. PICK d, g, l :
              /\ d = ExtendedChain(f.chain, f.partial, k, N, off)
              /\ g = [f EXCEPT !.chain = d, !.count = L - k]
              /\ l = IF Dax THEN "zero" ELSE "splice"
      OBVIOUS
    <2>10. fr' = [fr EXCEPT ![t] = g] /\ pc' = [pc EXCEPT ![t] = l]
      <3>1. d = [f.chain EXCEPT ![f.partial].key = f.new[1]] \o
                [n \in 1 .. k |-> [bh |-> f.new[n], off |-> path[f.partial + n], key |-> f.new[n + 1]]]
        BY ONLY <2>1, <2>3, <2>9 DEF ExtendedChain
      <3>2. fr' = [fr EXCEPT ![t].chain = d, ![t].count = L - k]
        BY <1>1, <1>7, <2>3, <3>1
      <3> QED BY ONLY <1>1, <1>7, <2>9, <3>2 DEF Goto
    <2>11. PICK c \in Seq(Links), part \in 1 .. 4 : c = f.chain /\ part = f.partial /\ Len(c) = part
      <3>1. f.partial \in 1 .. Len(path) /\ Len(f.chain) = f.partial
        BY <1>2, <1>3 DEF NewOK
      <3>2. PICK n \in 1 .. 4 : Len(path) = n
        BY <1>2 DEF IsPath
      <3>3. f.partial \in 1 .. 4 /\ f.chain \in Seq(Links)
        BY <3>1, <3>2, FrameFields
      <3> QED BY ONLY <3>1, <3>3
    <2>12. LeadsToBranch(d, c, part, N)
      <3>1. \A n \in 1 .. k : off[n] \in Nat
        BY <2>2 DEF NewBranch
      <3>2. off \in [1 .. k -> Nat] /\ Len(N) > k
        BY ONLY <2>1, <2>3, <2>4, <3>1
      <3>3. d = ExtendedChain(c, part, k, N, off)
        BY ONLY <2>9, <2>11
      <3> QED BY ONLY <2>11, <3>2, <3>3, ChainExtended, N \in Seq(Blocks), k \in 0 .. 3, c \in Seq(Links), part \in 1 .. 4
    <2>13. PICK w : w = f.chain[f.partial] /\ d[f.partial].bh = w.bh /\ d[f.partial].off = w.off
      BY <2>11, <2>12 DEF LeadsToBranch
    <2>14. /\ g.chain = d /\ g.count = L - k /\ g.partial = f.partial /\ g.done = f.done
           /\ g.iblock = f.iblock /\ g.max = f.max /\ g.kind = f.kind
      BY <2>9 DEF Frames
    <2>15. /\ f.done = 0 /\ w.bh \in Nodes /\ q[w.bh] = ptr[w.bh] /\ w.off \in Nat
      <3>1. f.done = 0 /\ Spot(lev, w.bh, w.off, k)
        BY <1>2, <1>3, <1>5, <2>13 DEF NewOK
      <3>2. w.bh \in Nodes /\ Leads(lev, w.bh) /\ w.off \in Nat
        BY <3>1, PtrsNat DEF Spot, Slots, TIND
      <3> QED BY <2>5, <3>1, <3>2
    <2>16. PICK m \in Nat : m = Len(f.new) + f.want /\ m >= L
      <3>1. f.want \in Nat
        BY FrameFields
      <3> QED BY <2>3, <3>1
    <2>17. Empty(ptr, w, k, m) /\ m <= k + f.max
      <3>1. HoleOK(ptr, "setup", f) /\ CountOK("setup", f)
        BY <1>0, <1>1, TaskFacts
      <3> QED BY <1>2, <1>5, <2>13, <2>16, <3>1 DEF HoleOK, CountOK
    <2>18. EmptyFrom(q, g.chain[g.partial], g.done, LastSpliced(g))
      <3>1. LastSpliced(g) = IF k > 0 THEN 0 ELSE L - k - 1
        BY <1>2, <1>5, <2>14 DEF LastSpliced
      <3>2. ASSUME NEW e \in 0 .. LastSpliced(g) PROVE ptr[w.bh][w.off + e] = 0
        <4>1. CASE k > 0
          <5>1. e = 0 /\ w.off + e = w.off
            BY <2>15, <3>1, <4>1
          <5> QED BY <2>17, <5>1 DEF Empty
        <4>2. CASE k = 0
          <5>1. e \in 0 .. m - 1
            BY <2>16, <3>1, <4>2
          <5> QED BY <2>17, <4>2, <5>1 DEF Empty
        <4> QED BY <4>1, <4>2
      <3> QED BY <2>13, <2>14, <2>15, <3>2 DEF EmptyFrom
    <2>19. Only(t) /\ pc'[t] = l /\ fr'[t] = g /\ l \in {"zero", "splice"}
      BY <2>9, <2>10, Moved
    <2>20. HoleOK(q, l, g) /\ CutOK(q, l, g)
      BY <2>18, <2>19 DEF HoleOK, CutOK
    <2>21. CountOK(l, g)
      <3>1. L - k <= f.max
        BY <2>16, <2>17, FrameFields
      <3> QED BY <2>14, <2>19, <3>1 DEF CountOK
    <2>22. SizedOK(t, l, g, i_size, rwsem, deleted)
      <3>1. SizedOK(t, "setup", f, i_size, rwsem, deleted)
        BY <1>0, <1>1, TaskFacts
      <3> QED BY <2>14, <2>19, <3>1 DEF SizedOK, Cuts, Lookups, Walking, Mapping
    <2>23. mutex \in {t, None}
      BY <1>0, Holder
    <2>24. MapInv'
      BY <1>0, <2>1, <2>19, <2>20, <2>21, <2>22, <2>23, StillStep
    <2> QED BY <2>8, <2>24
  <1> QED BY <1>1, <1>2, <1>5, <1>6, <1>7 DEF SetUpBranch

\* A pointer stored in an empty slot adds to the map.
LEMMA StoreFills ==
    ASSUME NEW p, NEW lev, Tree(p, lev), NEW x \in Nodes, NEW o \in Slots(x), p[x][o] = 0,
           NEW v \in Blocks, NEW q, q = Store(p, x, o, v), Tree(q, lev)
    PROVE  Fills(MapOf(p), MapOf(q))
  <1>1. \A y \in Nodes : \A r \in Slots(y) : q[y][r] = IF y = x /\ r = o THEN v ELSE p[y][r]
    <2>1. IsPointers(p) /\ v \in 0 .. NBlocks
      BY MapAssumption DEF Tree, Blocks
    <2> QED BY <2>1, Stored
  <1>2. Extends(p, lev, q)
    BY <1>1 DEF Extends
  <1>3. \A i \in FileRange : MapOf(p)[i] # 0 => MapOf(q)[i] = MapOf(p)[i]
    BY <1>2, MapExtends
  <1>4. /\ MapOf(q) \in [FileRange -> 0 .. NBlocks]
        /\ \A i, j \in FileRange : (MapOf(q)[i] # 0 /\ MapOf(q)[i] = MapOf(q)[j]) => i = j
    BY MapIsMap
  <1> QED BY <1>3, <1>4 DEF Fills

\* kr_splice_branch stores one pointer, in a slot that is empty: a hole gets a block that
\* nothing of the file has.
LEMMA SpliceMap == ASSUME Inv, MapInv, NEW t \in Tasks, Splice(t) PROVE MapInv' /\ Refines
  <1>0. pc[t] = "splice" /\ pc[t] \in Holding /\ Still /\ i_size' = i_size
    BY DEF Splice, At, Holding, Mapping, Still
  <1>1. PICK f \in Frames : f = fr[t] /\ f.done \in Nat /\ f.count \in Nat /\ DOMAIN fr = Tasks
    BY PathFacts, FrameFields
  <1>3. PICK lev \in Levels : Tree(ptr, lev) /\ SpliceOK(lev, f)
    BY <1>0, <1>1 DEF Inv, LevelInv, Sound, HandOK
  <1>4. PICK w \in Links : w = f.chain[f.partial]
    <2>1. f.partial \in 1 .. Len(f.chain) /\ f.chain \in Seq(Links)
      BY <1>3, FrameFields DEF SpliceOK
    <2> QED BY <2>1
  <1>41. PICK k : k = Len(Offsets(f.iblock)) - f.partial
    OBVIOUS
  <1>42. PICK top \in Int : top = LastSpliced(f)
    BY <1>1 DEF LastSpliced
  <1>5. /\ f.done <= top
        /\ \A d \in f.done .. top :
             /\ w.key + d \in Blocks /\ lev[w.key + d] = k /\ Loose(ptr, lev, w.key + d)
             /\ Spot(lev, w.bh, w.off + d, k)
             /\ ptr[w.bh][w.off + d] = 0
    <2>1. HoleOK(ptr, "splice", f)
      BY <1>0, <1>1, TaskFacts
    <2>2. EmptyFrom(ptr, w, f.done, top)
      BY <1>4, <1>42, <2>1 DEF HoleOK
    <2>3. /\ f.done <= top
          /\ \A d \in f.done .. top :
               /\ w.key + d \in Blocks /\ lev[w.key + d] = k /\ Loose(ptr, lev, w.key + d)
               /\ Spot(lev, w.bh, w.off + d, k)
      BY <1>3, <1>4, <1>41, <1>42 DEF SpliceOK
    <2> QED BY <2>2, <2>3 DEF EmptyFrom
  <1>6. PICK q, v, o : q = ptr' /\ v = w.key + f.done /\ o = w.off + f.done
    OBVIOUS
  <1>7. q = Store(ptr, w.bh, o, v)
    BY <1>1, <1>4, <1>6 DEF Splice, Store
  <1>8. /\ v \in Blocks /\ lev[v] = k /\ Loose(ptr, lev, v) /\ Spot(lev, w.bh, o, k) /\ ptr[w.bh][o] = 0
        /\ w.bh \in Nodes /\ o \in Slots(w.bh)
    <2>1. f.done \in f.done .. top
      BY <1>1, <1>5
    <2>2. v \in Blocks /\ lev[v] = k /\ Loose(ptr, lev, v) /\ Spot(lev, w.bh, o, k) /\ ptr[w.bh][o] = 0
      BY <1>5, <1>6, <2>1
    <2> QED BY <2>2 DEF Spot
  <1>9. Tree(q, lev)
    BY <1>3, <1>7, <1>8, HookedIn
  <1>10. Refines
    <2>1. Fills(MapOf(ptr), MapOf(q))
      BY <1>3, <1>7, <1>8, <1>9, StoreFills
    <2> QED BY <1>0, <1>6, <2>1, FillRefines DEF Map
  <1>11. mutex \in {t, None}
    BY <1>0, Holder
  <1>12. CountOK("splice", f) /\ SizedOK(t, "splice", f, i_size, rwsem, deleted) /\ LocalOK("splice", f)
    BY <1>0, <1>1, TaskFacts, PathFacts
  <1>13. CASE fr' = [fr EXCEPT ![t].new = <<>>] /\ Goto(t, "return")
    <2>1. PICK g : g = [f EXCEPT !.new = <<>>]
      OBVIOUS
    <2>2. g.kind = f.kind /\ g.iblock = f.iblock /\ g.max = f.max /\ g.count = f.count
      BY <2>1 DEF Frames
    <2>3. fr' = [fr EXCEPT ![t] = g] /\ pc' = [pc EXCEPT ![t] = "return"]
      BY <1>1, <1>13, <2>1 DEF Goto
    <2>4. Only(t) /\ pc'[t] = "return" /\ fr'[t] = g
      BY <2>3, Moved
    <2>5. HoleOK(q, "return", g) /\ CutOK(q, "return", g)
      BY DEF HoleOK, CutOK
    <2>6. CountOK("return", g)
      BY <1>12, <2>2 DEF CountOK, LocalOK, Mapping
    <2>7. SizedOK(t, "return", g, i_size, rwsem, deleted)
      BY <1>12, <2>2 DEF SizedOK, Cuts, Lookups, Walking, Mapping
    <2> QED BY <1>0, <1>6, <1>10, <1>11, <2>4, <2>5, <2>6, <2>7, StillStep
  <1>14. CASE fr' = [fr EXCEPT ![t].done = @ + 1] /\ pc' = pc
    <2>1. PICK g : g = [f EXCEPT !.done = f.done + 1]
      OBVIOUS
    <2>2. /\ g.kind = f.kind /\ g.iblock = f.iblock /\ g.max = f.max /\ g.count = f.count
          /\ g.done = f.done + 1 /\ g.chain = f.chain /\ g.partial = f.partial
      BY <2>1 DEF Frames
    <2>3. fr' = [fr EXCEPT ![t] = g] /\ pc' = [pc EXCEPT ![t] = "splice"]
      BY <1>0, <1>1, <1>14, <2>1 DEF Inv, Typed
    <2>4. Only(t) /\ pc'[t] = "splice" /\ fr'[t] = g
      BY <2>3, Moved
    <2>5. LastSpliced(g) = top
      BY <1>42, <2>2 DEF LastSpliced
    <2>6. EmptyFrom(q, w, f.done + 1, top)
      <3> SUFFICES ASSUME NEW d \in f.done + 1 .. top PROVE q[w.bh][w.off + d] = 0
        BY DEF EmptyFrom
      <3>1. d \in f.done .. top /\ d # f.done
        BY <1>1
      <3>2. w.off + d # o /\ w.off + d \in Slots(w.bh) /\ ptr[w.bh][w.off + d] = 0
        <4>1. Spot(lev, w.bh, w.off + d, k) /\ ptr[w.bh][w.off + d] = 0
          BY <1>5, <3>1
        <4>2. w.off \in Nat
          BY DEF Links
        <4> QED BY <1>1, <1>6, <3>1, <4>1, <4>2 DEF Spot
      <3>3. IsPointers(ptr) /\ v \in 0 .. NBlocks
        BY <1>3, <1>8, MapAssumption DEF Tree, Blocks
      <3>4. \A y \in Nodes : \A r \in Slots(y) : q[y][r] = IF y = w.bh /\ r = o THEN v ELSE ptr[y][r]
        BY <1>7, <1>8, <3>3, Stored
      <3> QED BY <1>8, <3>2, <3>4
    <2>7. HoleOK(q, "splice", g) /\ CutOK(q, "splice", g)
      BY <1>4, <2>2, <2>5, <2>6 DEF HoleOK, CutOK
    <2>8. CountOK("splice", g)
      BY <1>12, <2>2 DEF CountOK, Walking
    <2>9. SizedOK(t, "splice", g, i_size, rwsem, deleted)
      BY <1>12, <2>2 DEF SizedOK, Cuts, Lookups, Walking, Mapping
    <2> QED BY <1>0, <1>6, <1>10, <1>11, <2>4, <2>7, <2>8, <2>9, StillStep
  <1> QED BY <1>13, <1>14 DEF Splice

-----------------------------------------------------------------------------
(***************************************************************************)
(* Calls begin and end.                                                    *)
(***************************************************************************)

\* A task outside any call has no part in MapInv.
LEMMA IdleOK ==
    ASSUME NEW p, NEW t, NEW f, NEW size, NEW sem, NEW del
    PROVE  HoleOK(p, "idle", f) /\ CutOK(p, "idle", f) /\ CountOK("idle", f) /\ SizedOK(t, "idle", f, size, sem, del)
  BY DEF HoleOK, CutOK, CountOK, SizedOK, Cuts, Lookups, Walking, Mapping

\* A task that has not the inode's lock, while nobody evicts the inode, does not care for the size.
LEMMA Unlocked ==
    ASSUME NEW u, NEW l, NEW f, NEW size, NEW sem, NEW del, SizedOK(u, l, f, size, sem, del), sem # u, ~del
    PROVE  \A size2, sem2 : SizedOK(u, l, f, size2, sem2, del)
  BY DEF SizedOK

\* Nor does it care for who has the lock.
LEMMA Released ==
    ASSUME NEW u, NEW l, NEW f, NEW size, NEW sem, NEW del, SizedOK(u, l, f, size, sem, del), sem # u
    PROVE  \A sem2 : SizedOK(u, l, f, size, sem2, del)
  BY DEF SizedOK

\* The end of kr_get_blocks.
LEMMA ReturnMap == ASSUME Inv, MapInv, NEW t \in Tasks, Return(t) PROVE MapInv' /\ Refines
  <1>0. pc[t] = "return" /\ ptr' = ptr /\ Still /\ i_size' = i_size
    BY DEF Return, At, Still, disk, locks
  <1>1. CASE fr[t].kind = "write" /\ Goto(t, "written") /\ fr' = fr
    <2>1. fr = [fr EXCEPT ![t] = fr[t]]
      BY PathFacts DEF Inv, Typed
    <2>2. Only(t) /\ pc'[t] = "written" /\ fr'[t] = fr[t]
      BY <1>1, <2>1, Moved DEF Goto
    <2>3. CountOK("return", fr[t]) /\ SizedOK(t, "return", fr[t], i_size, rwsem, deleted)
      BY <1>0, TaskFacts
    <2>4. CountOK("written", fr[t]) /\ SizedOK(t, "written", fr[t], i_size, rwsem, deleted)
      BY <1>1, <2>3 DEF CountOK, SizedOK, Cuts, Lookups
    <2>5. HoleOK(ptr, "written", fr[t]) /\ CutOK(ptr, "written", fr[t])
      BY DEF HoleOK, CutOK
    <2> QED BY <1>0, <2>2, <2>4, <2>5, StillStep, QuietRefines
  <1>2. CASE Goto(t, "idle") /\ fr' = [fr EXCEPT ![t] = NoCall]
    <2>1. Only(t) /\ pc'[t] = "idle" /\ fr'[t] = NoCall
      BY <1>2, Moved DEF Goto
    <2> QED BY <1>0, <2>1, IdleOK, StillStep, QuietRefines
  <1> QED BY <1>1, <1>2 DEF Return


\* The frames of a truncation that has not begun to free.
LEMMA CutBegins ==
    ASSUME NEW p, NEW t, NEW l \in {"pages", "truncate", "shared"}, NEW f, NEW size, NEW sem, NEW del,
           f.size = size, sem = t \/ del, l = "pages" => ~del
    PROVE  HoleOK(p, l, f) /\ CutOK(p, l, f) /\ CountOK(l, f) /\ SizedOK(t, l, f, size, sem, del)
  BY DEF HoleOK, CutOK, CountOK, SizedOK, Cuts, Lookups, Walking, Mapping

\* The end of a write: the size grows, or what was mapped past it is taken back.
LEMMA WriteEndMap == ASSUME Inv, MapInv, NEW t \in Tasks, WriteEnd(t) PROVE MapInv' /\ Refines
  <1>0. pc[t] = "written" /\ ptr' = ptr /\ deleted' = deleted
    BY DEF WriteEnd, At, disk
  <1>1. PICK f \in Frames : f = fr[t]
    BY PathFacts
  <1>2. /\ CountOK("written", f) /\ SizedOK(t, "written", f, i_size, rwsem, deleted) /\ i_size \in 0 .. LastBlock + 1
    BY <1>0, <1>1, TaskFacts
  <1>3. rwsem = t /\ ~deleted
    BY <1>2 DEF SizedOK, Lookups
  <1>4. \A u \in Tasks \ {t} : SizedOK(u, pc[u], fr[u], i_size, rwsem, deleted) /\ rwsem # u
    BY <1>3, TaskFacts
  <1>5. \A u \in Tasks \ {t} : \A size2, sem2 : SizedOK(u, pc[u], fr[u], size2, sem2, deleted)
    BY <1>3, <1>4, Unlocked
  <1>6. \A u \in Tasks \ {t} : SizedOK(u, pc[u], fr[u], i_size', rwsem', deleted')
    BY <1>0, <1>5
  <1>7. CASE /\ i_size' = Max({i_size, f.iblock + f.count}) \/ i_size' = i_size
             /\ Goto(t, "idle") /\ fr' = [fr EXCEPT ![t] = NoCall]
    <2>1. Only(t) /\ pc'[t] = "idle" /\ fr'[t] = NoCall
      BY <1>7, Moved DEF Goto
    <2>2. i_size' \in 0 .. LastBlock + 1
      <3>1. f.iblock + f.count \in 0 .. LastBlock + 1
        <4>1. f.count <= f.max /\ f.iblock + f.max - 1 <= LastBlock
          BY <1>2 DEF CountOK
        <4>2. f.iblock \in Nat /\ f.max \in Nat /\ f.count \in Nat /\ LastBlock \in Nat
          BY FrameFields, MapAssumption DEF FileRange
        <4> QED BY <4>1, <4>2
      <3>2. {i_size, f.iblock + f.count} \in SUBSET (0 .. LastBlock + 1) /\ {i_size, f.iblock + f.count} # {} /\ LastBlock + 1 \in Nat
        BY <1>2, <3>1, MapAssumption
      <3>3. Max({i_size, f.iblock + f.count}) \in {i_size, f.iblock + f.count}
        BY <3>2, MaxIsGreatest
      <3> QED BY <1>2, <1>7, <3>1, <3>3
    <2> QED BY <1>0, <1>6, <2>1, <2>2, IdleOK, MapStep, ResizeRefines
  <1>8. CASE /\ Goto(t, "truncate")
             /\ fr' = [fr EXCEPT ![t] = [NoCall EXCEPT !.kind = "failed", !.size = i_size]]
             /\ UNCHANGED <<i_size, rwsem>>
    <2>1. PICK g : g = [NoCall EXCEPT !.kind = "failed", !.size = i_size]
      OBVIOUS
    <2>2. g.size = i_size
      BY <2>1 DEF NoCall
    <2>3. Only(t) /\ pc'[t] = "truncate" /\ fr'[t] = g
      BY <1>8, <2>1, Moved DEF Goto
    <2>4. /\ HoleOK(ptr, "truncate", g) /\ CutOK(ptr, "truncate", g) /\ CountOK("truncate", g)
          /\ SizedOK(t, "truncate", g, i_size, rwsem, deleted)
      BY <1>3, <2>2, CutBegins
    <2> QED BY <1>0, <1>2, <1>6, <1>8, <2>3, <2>4, MapStep, QuietRefines
  <1> QED BY <1>1, <1>7, <1>8 DEF WriteEnd

\* kr_setsize changes the size.
LEMMA SetSizeMap == ASSUME Inv, MapInv, NEW t \in Tasks, SetSize(t) PROVE MapInv' /\ Refines
  <1>0. rwsem = None /\ rwsem' = t /\ ptr' = ptr /\ deleted' = deleted /\ ~deleted /\ Goto(t, "pages")
    BY DEF SetSize, disk, Enter
  <1>1. PICK size \in 0 .. LastBlock + 1 :
            i_size' = size /\ fr' = [fr EXCEPT ![t] = [NoCall EXCEPT !.kind = "setsize", !.size = size]]
    BY DEF SetSize
  <1>2. PICK g : g = [NoCall EXCEPT !.kind = "setsize", !.size = size]
    OBVIOUS
  <1>3. g.size = size
    BY <1>2 DEF NoCall
  <1>4. Only(t) /\ pc'[t] = "pages" /\ fr'[t] = g
    BY <1>0, <1>1, <1>2, Moved DEF Goto
  <1>5. \A u \in Tasks \ {t} : SizedOK(u, pc[u], fr[u], i_size, rwsem, deleted) /\ rwsem # u
    BY <1>0, TaskFacts, MapAssumption
  <1>6. \A u \in Tasks \ {t} : \A size2, sem2 : SizedOK(u, pc[u], fr[u], size2, sem2, deleted)
    BY <1>0, <1>5, Unlocked
  <1>7. \A u \in Tasks \ {t} : SizedOK(u, pc[u], fr[u], i_size', rwsem', deleted')
    BY <1>0, <1>6
  <1>8. /\ HoleOK(ptr, "pages", g) /\ CutOK(ptr, "pages", g) /\ CountOK("pages", g)
        /\ SizedOK(t, "pages", g, size, t, deleted)
    BY <1>0, <1>3, CutBegins
  <1>9. i_size' \in 0 .. LastBlock + 1
    BY <1>1
  <1> QED BY <1>0, <1>1, <1>4, <1>7, <1>8, <1>9, MapStep, ResizeRefines

\* truncate_pagecache.
LEMMA WaitForPagesMap == ASSUME Inv, MapInv, NEW t \in Tasks, WaitForPages(t) PROVE MapInv' /\ Refines
  <1>0. pc[t] = "pages" /\ ptr' = ptr /\ Still /\ i_size' = i_size /\ fr' = fr /\ Goto(t, "truncate")
    BY DEF WaitForPages, At, Still, disk, locks
  <1>1. fr = [fr EXCEPT ![t] = fr[t]]
    BY PathFacts DEF Inv, Typed
  <1>2. Only(t) /\ pc'[t] = "truncate" /\ fr'[t] = fr[t]
    BY <1>0, <1>1, Moved DEF Goto
  <1>3. SizedOK(t, "pages", fr[t], i_size, rwsem, deleted)
    BY <1>0, TaskFacts
  <1>4. fr[t].size = i_size /\ (rwsem = t \/ deleted)
    BY <1>3 DEF SizedOK, Cuts
  <1>5. /\ HoleOK(ptr, "truncate", fr[t]) /\ CutOK(ptr, "truncate", fr[t]) /\ CountOK("truncate", fr[t])
        /\ SizedOK(t, "truncate", fr[t], i_size, rwsem, deleted)
    BY <1>4, CutBegins
  <1> QED BY <1>0, <1>2, <1>5, StillStep, QuietRefines

\* kr_evict_inode.
LEMMA EvictMap == ASSUME Inv, MapInv, NEW t \in Tasks, Evict(t) PROVE MapInv' /\ Refines
  <1>0. /\ ptr' = ptr /\ rwsem' = rwsem /\ deleted' = TRUE /\ i_size' = 0 /\ \A u \in Tasks : pc[u] = "idle"
    BY DEF Evict, disk, locks, At
  <1>1. i_size' \in 0 .. LastBlock + 1
    BY <1>0, MapAssumption
  <1>2. \A u \in Tasks \ {t} : SizedOK(u, pc[u], fr[u], i_size', rwsem', deleted')
    BY <1>0, IdleOK
  <1>3. CASE Goto(t, "truncate") /\ fr' = [fr EXCEPT ![t] = [NoCall EXCEPT !.kind = "evict"]]
    <2>1. PICK g : g = [NoCall EXCEPT !.kind = "evict"]
      OBVIOUS
    <2>2. g.size = 0
      BY <2>1 DEF NoCall
    <2>3. Only(t) /\ pc'[t] = "truncate" /\ fr'[t] = g
      BY <1>3, <2>1, Moved DEF Goto
    <2>4. /\ HoleOK(ptr, "truncate", g) /\ CutOK(ptr, "truncate", g) /\ CountOK("truncate", g)
          /\ SizedOK(t, "truncate", g, 0, rwsem, TRUE)
      BY <2>2, CutBegins
    <2> QED BY <1>0, <1>1, <1>2, <2>3, <2>4, MapStep, ResizeRefines
  <1>4. CASE pc' = pc /\ fr' = fr
    <2>1. Only(t) /\ pc'[t] = "idle"
      BY <1>0, <1>4 DEF Only
    <2> QED BY <1>0, <1>1, <1>2, <2>1, IdleOK, MapStep, ResizeRefines
  <1> QED BY <1>3, <1>4 DEF Evict

\* The end of a truncation and of its caller.
LEMMA FinishMap ==
    ASSUME Inv, MapInv, NEW t \in Tasks, Finish(t), ptr' = ptr, i_size' = i_size, deleted' = deleted
    PROVE  MapInv' /\ Refines
  <1>1. Only(t) /\ pc'[t] = "idle" /\ fr'[t] = NoCall
    BY Moved DEF Finish, Goto
  <1>2. rwsem' = rwsem \/ rwsem = t
    BY DEF Finish
  <1>3. \A u \in Tasks \ {t} : SizedOK(u, pc[u], fr[u], i_size, rwsem, deleted)
    BY TaskFacts
  <1>4. \A u \in Tasks \ {t} : SizedOK(u, pc[u], fr[u], i_size', rwsem', deleted')
    <2>1. CASE rwsem' = rwsem
      BY <1>3, <2>1
    <2>2. CASE rwsem = t
      BY <1>3, <2>2, Released
    <2> QED BY <1>2, <2>1, <2>2
  <1>5. i_size' \in 0 .. LastBlock + 1
    BY TaskFacts
  <1> QED BY <1>1, <1>4, <1>5, IdleOK, MapStep, QuietRefines

\* The truncation has nothing left to do.
LEMMA TruncateDoneMap == ASSUME Inv, MapInv, NEW t \in Tasks, TruncateDone(t) PROVE MapInv' /\ Refines
  BY FinishMap DEF TruncateDone, disk

\* A call of kr_get_block begins.
LEMMA GetBlockMap == ASSUME Inv, MapInv, NEW t \in Tasks, GetBlock(t) PROVE MapInv' /\ Refines
  <1>1. PICK kind \in {"read", "bmap", "write", "writepage"}, i \in FileRange, n \in 1 .. MaxRun :
            /\ IF kind = "write" THEN rwsem = None /\ rwsem' = t ELSE UNCHANGED rwsem
            /\ Goto(t, "first")
            /\ fr' = [fr EXCEPT ![t] = [NoCall EXCEPT !.kind = kind, !.iblock = i, !.max = n]]
            /\ ptr' = ptr /\ i_size' = i_size /\ deleted' = deleted /\ ~deleted
    BY DEF GetBlock, Enter, disk
  <1>2. PICK g : g = [NoCall EXCEPT !.kind = kind, !.iblock = i, !.max = n]
    OBVIOUS
  <1>3. g.kind = kind /\ g.max = n /\ g.count = 0
    BY <1>2 DEF NoCall
  <1>4. Only(t) /\ pc'[t] = "first" /\ fr'[t] = g
    BY <1>1, <1>2, Moved DEF Goto
  <1>5. \A u \in Tasks \ {t} : SizedOK(u, pc[u], fr[u], i_size, rwsem, deleted)
    BY TaskFacts
  <1>6. \A u \in Tasks \ {t} : SizedOK(u, pc[u], fr[u], i_size', rwsem', deleted')
    <2>1. CASE rwsem = None
      <3>1. \A u \in Tasks \ {t} : rwsem # u
        BY <2>1, MapAssumption
      <3> QED BY <1>1, <1>5, <3>1, Released
    <2>2. CASE rwsem' = rwsem
      BY <1>1, <1>5, <2>2
    <2> QED BY <1>1, <2>1, <2>2
  <1>7. HoleOK(ptr, "first", g) /\ CutOK(ptr, "first", g)
    BY DEF HoleOK, CutOK
  <1>8. CountOK("first", g)
    BY <1>3, MapAssumption DEF CountOK
  <1>9. SizedOK(t, "first", g, i_size', rwsem', deleted')
    BY <1>1, <1>3 DEF SizedOK, Cuts
  <1>10. i_size' \in 0 .. LastBlock + 1
    BY <1>1, TaskFacts
  <1> QED BY <1>1, <1>4, <1>6, <1>7, <1>8, <1>9, <1>10, MapStep, QuietRefines

-----------------------------------------------------------------------------
(***************************************************************************)
(* The truncation.                                                         *)
(***************************************************************************)

\* A truncation that has work left past the size.
LEMMA WorkStep ==
    ASSUME Inv, MapInv, NEW t \in Tasks, pc[t] \in {"truncate", "shared", "free"}, mutex \in {t, None},
           pc' = [pc EXCEPT ![t] = "free"], NEW work, fr' = [fr EXCEPT ![t].work = work], Still,
           Placed(ptr', work, fr[t].size)
    PROVE  MapInv'
  <1>1. PICK f \in Frames : f = fr[t] /\ DOMAIN fr = Tasks
    BY PathFacts
  <1>2. PICK g : g = [f EXCEPT !.work = work]
    OBVIOUS
  <1>3. g.work = work /\ g.size = f.size /\ g.kind = f.kind
    BY <1>2 DEF Frames
  <1>4. fr' = [fr EXCEPT ![t] = g]
    BY <1>1, <1>2
  <1>5. Only(t) /\ pc'[t] = "free" /\ fr'[t] = g
    BY <1>4, Moved
  <1>6. SizedOK(t, pc[t], f, i_size, rwsem, deleted) /\ pc[t] \in Cuts
    BY <1>1, TaskFacts DEF Cuts
  <1>7. SizedOK(t, "free", g, i_size, rwsem, deleted)
    BY <1>3, <1>6 DEF SizedOK, Cuts, Lookups, Walking, Mapping
  <1>8. HoleOK(ptr', "free", g) /\ CountOK("free", g)
    BY DEF HoleOK, CountOK, Walking
  <1>9. CutOK(ptr', "free", g)
    BY <1>1, <1>3 DEF CutOK
  <1> QED BY <1>5, <1>7, <1>8, <1>9, StillStep

\* Who truncates knows the size.
LEMMA CutSize ==
    ASSUME Inv, MapInv, NEW t \in Tasks, pc[t] \in Cuts
    PROVE  fr[t].size = i_size /\ fr[t].size \in Nat
  BY TaskFacts, PathFacts, FrameFields DEF SizedOK

\* A pointer through which only blocks past the size are found may be taken away.
LEMMA ClearRefines ==
    ASSUME NEW lev, Tree(ptr, lev), NEW x \in Nodes, NEW o \in Slots(x), ptr' = Store(ptr, x, o, 0),
           i_size' = i_size,
           \A i \in FileRange : (MapOf(ptr)[i] # 0 /\ Passes(ptr, i, x, o)) => i >= i_size
    PROVE  Refines
  <1>1. PICK q : q = ptr' /\ q = Store(ptr, x, o, 0)
    OBVIOUS
  <1>2. Tree(q, lev)
    BY <1>1, Cleared
  <1>3. MapOf(q) \in [FileRange -> 0 .. NBlocks]
    BY <1>2, MapIsMap
  <1>4. ASSUME NEW i \in FileRange PROVE MapOf(q)[i] = MapOf(ptr)[i] \/ (i >= i_size /\ MapOf(q)[i] = 0)
    <2>1. /\ MapOf(q)[i] = MapOf(ptr)[i] \/ MapOf(q)[i] = 0
          /\ MapOf(q)[i] # MapOf(ptr)[i] => Passes(ptr, i, x, o)
      BY <1>1, MapCleared
    <2> QED BY <2>1
  <1>5. Drops(MapOf(ptr), MapOf(q), i_size)
    BY <1>3, <1>4 DEF Drops
  <1> QED BY <1>1, <1>5, DropRefines DEF Map

\* The start of __kr_truncate_blocks: the direct blocks and the slots of i_data that are to
\* go lie past the size.
LEMMA TruncateMap == ASSUME Inv, MapInv, NEW t \in Tasks, Truncate(t) PROVE MapInv' /\ Refines
  <1>0. pc[t] = "truncate" /\ mutex = None /\ ptr' = ptr /\ i_size' = i_size /\ deleted' = deleted /\ pc[t] \in Cuts
    BY DEF Truncate, At, disk, Cuts
  <1>1. PICK path : path = TruncatePath(t) /\ path = Offsets(fr[t].size) /\ (path = <<>> \/ IsPath(path))
    BY TruncatePathFacts
  <1>2. fr[t].size = i_size /\ fr[t].size \in Nat
    BY <1>0, CutSize
  <1>3. CASE Finish(t)
    BY <1>0, <1>3, FinishMap
  <1>4. CASE /\ Len(path) = 1 /\ Goto(t, "free") /\ UNCHANGED rwsem
             /\ fr' = [fr EXCEPT ![t].work = <<Array(Inode, path[1], NDir, 0)>> \o Remaining(path[1])]
    <2>0. path # <<>> /\ IsPath(path)
      <3>1. Len(<<>>) = 0
        OBVIOUS
      <3> QED BY <1>1, <1>4, <3>1
    <2>1. path[1] \in 0 .. TIND /\ path[1] \in Nat /\ Inode \in Nodes /\ NDir \in Nat /\ 0 \in 0 .. 3
      BY <2>0, NodeFacts, PtrsNat DEF IsPath, TIND
    <2>2. PICK a, r : a = Array(Inode, path[1], NDir, 0) /\ r = Remaining(path[1])
      OBVIOUS
    <2>3. a \in Items /\ a.op = "array" /\ a.nr = Inode /\ a.p = path[1] /\ a.q = NDir
      BY ONLY <2>1, <2>2, NewArray
    <2>4. PICK lev \in Levels : Tree(ptr, lev)
      BY InvTree
    <2>5. r \in Seq(Items)
      BY ONLY <2>1, <2>2, RemainingFacts
    <2>6. Placed(ptr, r, fr[t].size)
      BY <1>1, <1>2, <2>0, <2>2, <2>4, RemainingPlaced
    <2>7. ASSUME NEW o \in path[1] .. NDir - 1 PROVE Past(ptr, Inode, o, fr[t].size)
      <3>1. o \in Nat /\ (o > path[1] \/ (Len(path) = 1 /\ o = path[1]))
        BY <1>4, <2>1
      <3> QED BY <1>1, <1>2, <2>0, <2>4, <3>1, TopPast
    <2>8. PlacedItem(ptr, a, fr[t].size)
      BY <2>3, <2>7 DEF PlacedItem
    <2>9. <<a>> \in Seq(Items)
      BY <2>3
    <2>10. Placed(ptr, <<a>> \o r, fr[t].size)
      BY <2>3, <2>5, <2>6, <2>8, <2>9, PlacedParts
    <2>11. Still /\ pc' = [pc EXCEPT ![t] = "free"] /\ fr' = [fr EXCEPT ![t].work = <<a>> \o r]
      BY <1>0, <1>4, <2>2 DEF Still, Goto
    <2> QED BY <1>0, <2>10, <2>11, WorkStep, QuietRefines
  <1>5. CASE Goto(t, "shared") /\ UNCHANGED <<rwsem, fr>>
    <2>1. fr = [fr EXCEPT ![t] = fr[t]]
      BY PathFacts DEF Inv, Typed
    <2>2. Only(t) /\ pc'[t] = "shared" /\ fr'[t] = fr[t]
      BY <1>5, <2>1, Moved DEF Goto
    <2>3. SizedOK(t, "truncate", fr[t], i_size, rwsem, deleted)
      BY <1>0, TaskFacts
    <2>4. fr[t].size = i_size /\ (rwsem = t \/ deleted)
      BY <2>3 DEF SizedOK, Cuts
    <2>5. /\ HoleOK(ptr, "shared", fr[t]) /\ CutOK(ptr, "shared", fr[t]) /\ CountOK("shared", fr[t])
          /\ SizedOK(t, "shared", fr[t], i_size, rwsem, deleted)
      BY <2>4, CutBegins
    <2>6. Still
      BY <1>0, <1>5 DEF Still
    <2> QED BY <1>0, <2>2, <2>5, <2>6, StillStep, QuietRefines
  <1> QED BY <1>1, <1>3, <1>4, <1>5 DEF Truncate

\* The work of kr_find_shared is made of items.
LEMMA SharedItems ==
    ASSUME NEW lev, Tree(ptr, lev), NEW path, IsPath(path), NEW n, n = Len(path),
           NEW chain, Threaded(path, chain), verify_chain(chain), NEW p \in 1 .. Len(chain),
           NEW top, top = 0 \/ top = chain[p].key, NEW past \in 0 .. 1
    PROVE  SharedWork(n, chain, p, top, past) \in Seq(Items)
  <1>1. PICK m \in 1 .. 4 : m = n
    BY DEF IsPath
  <1>2. PICK l \in 1 .. m : Len(chain) = l
    BY <1>1 DEF Threaded
  <1>3. \A j \in 1 .. Len(chain) : Edge(ptr, lev, path, j, chain[j].bh)
    BY ChainEdges
  <1>4. \A j \in 1 .. p : Edge(ptr, lev, path, j, chain[j].bh) /\ chain[j].off = path[j]
    <2>1. \A j \in 1 .. p : j \in 1 .. Len(chain)
      BY <1>2
    <2> QED BY <1>3, <2>1 DEF Threaded
  <1>5. p \in 1 .. 4 /\ p <= n /\ p \in 1 .. p
    BY <1>1, <1>2
  <1>6. PICK x, o : x = chain[p].bh /\ o = path[p]
    OBVIOUS
  <1>7. x \in Nodes /\ Leads(lev, x) /\ o \in Slots(x) /\ Down(lev, x, o) = n - p /\ ptr[x][o] = chain[p].key
    BY <1>4, <1>5, <1>6 DEF Edge, verify_chain
  <1>8. PICK q : q = Store(ptr, x, o, 0)
    OBVIOUS
  <1>9. Tree(q, lev) /\ (ptr[x][o] # 0 => Loose(q, lev, ptr[x][o]))
    BY <1>7, <1>8, Cleared
  <1>10. top = 0 \/ (top \in Blocks /\ lev[top] = n - p /\ Loose(q, lev, top))
    BY <1>7, <1>9, EdgeFacts
  <1> QED BY ONLY <1>4, <1>5, <1>9, <1>10, IsPath(path), n = Len(path), past \in 0 .. 1, SharedWorkFacts

\* kr_find_shared: what it cuts off and what it leaves to free lie past the size.
LEMMA FindSharedMap == ASSUME ~IOErrors, Inv, MapInv, NEW t \in Tasks, FindShared(t) PROVE MapInv' /\ Refines
  <1>0. /\ pc[t] = "shared" /\ pc[t] \in Holding /\ pc[t] \in Cuts /\ pc' = [pc EXCEPT ![t] = "free"]
        /\ Still /\ i_size' = i_size
    BY DEF FindShared, At, Holding, Cutting, locks, Goto, Cuts, Still
  <1>1. LocalOK("shared", fr[t]) /\ fr[t].size = i_size /\ fr[t].size \in Nat /\ mutex = t
    BY <1>0, PathFacts, CutSize, Holder
  <1> DEFINE path == TruncatePath(t)
             n == Len(path)
             k == Max({1} \cup {j \in 1 .. n : path[j] # 0})
  <1>6. PICK length \in BranchLengths(SubSeq(path, 1, k)) :
            LET chain == kr_get_branch(path, length)
                p == Max({1} \cup {j \in 2 .. length : ~all_zeroes(chain[j])})
                ours == p = k /\ p > 1
                cut == chain[p]
                top == IF ours THEN 0 ELSE cut.key
            IN  /\ ptr' = IF ours THEN ptr ELSE [ptr EXCEPT ![cut.bh][cut.off] = 0]
                /\ fr' = [fr EXCEPT ![t].work =
                            SharedWork(n, chain, p, top, IF ours THEN 0 ELSE 1)
                                \o Remaining(path[1])]
    BY Zenon DEF FindShared
  <1>2. IsPath(path) /\ path # <<>> /\ path = Offsets(fr[t].size)
    <2>1. Len(TruncatePath(t)) > 1
      BY <1>1, TruncatePathFacts DEF LocalOK
    <2>2. Len(<<>>) = 0
      OBVIOUS
    <2>3. TruncatePath(t) # <<>>
      BY <2>1, <2>2
    <2> QED BY <2>3, TruncatePathFacts
  <1>3. n \in 1 .. 4 /\ n = Len(path) /\ path[1] \in 0 .. TIND
    BY <1>2 DEF IsPath
  <1>4. k = Max({1} \cup {j \in 1 .. n : path[j] # 0})
    OBVIOUS
  <1> HIDE DEF path, n, k
  <1>5. k \in 1 .. 4 /\ k <= Len(path) /\ k \in 1 .. n /\ \A h \in k + 1 .. n : path[h] = 0
    <2> DEFINE S == {1} \cup {j \in 1 .. n : path[j] # 0}
    <2>1. S \in SUBSET (0 .. n) /\ S # {} /\ \A j \in S : j \in 1 .. n
      BY <1>3
    <2>2. k = Max(S)
      BY <1>4
    <2>5. \A h \in 1 .. n : path[h] # 0 => h \in S
      OBVIOUS
    <2> HIDE DEF S
    <2>0. n \in Nat
      BY <1>3
    <2>3. k \in S /\ \A j \in S : k >= j
      BY <2>0, <2>1, <2>2, MaxIsGreatest
    <2>4. k \in 1 .. n
      BY <2>1, <2>3
    <2>6. \A h \in k + 1 .. n : h \in 1 .. n /\ h \in Nat /\ h > k
      BY <1>3, <2>4
    <2>7. \A h \in k + 1 .. n : path[h] = 0
      BY <2>3, <2>4, <2>5, <2>6
    <2> QED BY <1>3, <2>4, <2>7
  <1>7. PICK lev \in Levels : Tree(ptr, lev)
    BY InvTree
  <1>8. PICK chain : chain = kr_get_branch(path, length)
    OBVIOUS
  <1>9. /\ length \in 1 .. k /\ Len(chain) = length /\ Threaded(path, chain) /\ verify_chain(chain)
        /\ \A j \in 1 .. length : chain[j].key = Walk(path, ptr)[j]
        /\ length = k \/ Walk(path, ptr)[length] = 0
    BY <1>2, <1>5, <1>7, <1>8, BranchFacts
  <1>10. PICK p : p = Max({1} \cup {j \in 2 .. length : ~all_zeroes(chain[j])})
    OBVIOUS
  <1>11. p \in 1 .. length /\ p \in 1 .. n /\ \A j \in p + 1 .. length : all_zeroes(chain[j])
    <2> DEFINE S == {1} \cup {j \in 2 .. length : ~all_zeroes(chain[j])}
    <2>0. length \in Nat /\ length >= 1 /\ length <= n
      BY <1>3, <1>5, <1>9
    <2>1. S \in SUBSET (0 .. length) /\ S # {} /\ \A j \in S : j \in 1 .. length
      BY <2>0
    <2>2. p = Max(S)
      BY <1>10
    <2>5. \A h \in 2 .. length : ~all_zeroes(chain[h]) => h \in S
      OBVIOUS
    <2> HIDE DEF S
    <2>3. p \in S /\ \A j \in S : p >= j
      BY <2>0, <2>1, <2>2, MaxIsGreatest
    <2>4. p \in 1 .. length
      BY <2>1, <2>3
    <2>6. \A h \in p + 1 .. length : h \in 2 .. length /\ h \in Nat /\ h > p
      BY <2>0, <2>4
    <2>7. \A h \in p + 1 .. length : all_zeroes(chain[h])
      BY <2>3, <2>4, <2>5, <2>6
    <2>8. p \in 1 .. n
      BY ONLY <1>3, <2>0, <2>4
    <2> QED BY <2>4, <2>7, <2>8
  <1>12. Branch(ptr, path, chain, length)
    <2> SUFFICES ASSUME NEW j \in 1 .. length
                 PROVE  chain[j].bh = Parent(Walk(path, ptr), j) /\ chain[j].bh # 0 /\ chain[j].off = path[j]
      BY DEF Branch
    <2>1. chain[j].off = path[j]
      BY <1>9 DEF Threaded
    <2>2. CASE j = 1
      BY <1>9, <2>1, <2>2, NodeFacts DEF Threaded, Parent, Inode
    <2>3. CASE j # 1
      <3>1. j - 1 \in 1 .. length - 1 /\ j - 1 \in 1 .. length /\ (j - 1) + 1 = j
        BY <1>5, <1>9, <2>3
      <3>2. chain[j].bh = chain[j - 1].key /\ chain[j - 1].key # 0
        BY <1>9, <3>1 DEF Threaded
      <3> QED BY <1>9, <2>1, <2>3, <3>1, <3>2 DEF Parent
    <2> QED BY <2>2, <2>3
  <1>13. OnWalk(ptr, path, chain, p)
    <2>1. \A j \in 2 .. p : j \in 1 .. length /\ j # 1
      BY <1>5, <1>9, <1>11
    <2> QED BY <1>12, <2>1 DEF OnWalk, Branch, Parent
  <1>14. PICK q, top, past, work :
            /\ q = ptr'
            /\ top = IF p = k /\ p > 1 THEN 0 ELSE chain[p].key
            /\ past = IF p = k /\ p > 1 THEN 0 ELSE 1
            /\ work = SharedWork(n, chain, p, top, past) \o Remaining(path[1])
    OBVIOUS
  <1>15. /\ q = IF p = k /\ p > 1 THEN ptr ELSE [ptr EXCEPT ![chain[p].bh][chain[p].off] = 0]
         /\ fr' = [fr EXCEPT ![t].work = work]
    BY <1>6, <1>8, <1>10, <1>14
  <1>16. Placed(ptr, work, fr[t].size) /\ work \in Seq(Items)
    <2>0. past \in 0 .. 1 /\ (past = 0 => p = k) /\ (top = 0 \/ top = chain[p].key)
      BY ONLY <1>14
    <2>1. past \in 0 .. 1 /\ (past = 0 => \A h \in p + 1 .. n : path[h] = 0)
      BY <1>5, <2>0
    <2>2. PICK a, r : a = SharedWork(n, chain, p, top, past) /\ r = Remaining(path[1])
      OBVIOUS
    <2>3. Placed(ptr, a, fr[t].size)
      BY <1>1, <1>2, <1>3, <1>7, <1>11, <1>13, <2>1, <2>2, SharedPlaced
    <2>4. Placed(ptr, r, fr[t].size)
      BY <1>1, <1>2, <1>7, <2>2, RemainingPlaced
    <2>5. r \in Seq(Items)
      BY ONLY <1>3, <2>2, RemainingFacts
    <2>6. a \in Seq(Items)
      <3>1. p \in 1 .. Len(chain)
        BY <1>9, <1>11
      <3>2. Threaded(path, chain) /\ verify_chain(chain) /\ IsPath(path) /\ n = Len(path)
        BY <1>2, <1>3, <1>9
      <3>3. past \in 0 .. 1 /\ (top = 0 \/ top = chain[p].key)
        BY <2>0
      <3>4. SharedWork(n, chain, p, top, past) \in Seq(Items)
        BY ONLY <1>7, <3>1, <3>2, <3>3, SharedItems
      <3> QED BY <2>2, <3>4
    <2>7. work = a \o r
      BY <1>14, <2>2
    <2>8. a \o r \in Seq(Items)
      BY ONLY <2>5, <2>6
    <2>9. Placed(ptr, a \o r, fr[t].size)
      BY ONLY <2>3, <2>4, <2>5, <2>6, PlacedParts
    <2> QED BY ONLY <2>7, <2>8, <2>9
  <1>17. CASE p = k /\ p > 1
    <2>1. ptr' = ptr
      BY <1>14, <1>15, <1>17
    <2>2. MapInv'
      BY <1>0, <1>1, <1>15, <1>16, <2>1, WorkStep
    <2> QED BY <1>0, <2>1, <2>2, QuietRefines
  <1>18. CASE ~(p = k /\ p > 1)
    <2>1. PICK x, o : x = chain[p].bh /\ o = chain[p].off
      OBVIOUS
    <2>2. x \in Nodes /\ o \in Slots(x)
      <3>1. p \in 1 .. Len(chain) /\ o = path[p]
        BY <1>9, <1>11, <2>1 DEF Threaded
      <3>2. Edge(ptr, lev, path, p, chain[p].bh)
        BY <1>2, <1>7, <1>9, <3>1, ChainEdges
      <3> QED BY <2>1, <3>1, <3>2 DEF Edge
    <2>3. ptr' = Store(ptr, x, o, 0)
      BY <1>14, <1>15, <1>18, <2>1 DEF Store
    <2>4. Placed(ptr', work, fr[t].size)
      BY <1>7, <1>16, <2>2, <2>3, PlacedCleared
    <2>5. ASSUME NEW i \in FileRange, MapOf(ptr)[i] # 0, Passes(ptr, i, x, o) PROVE i >= i_size
      <3>1. i >= fr[t].size
        <4>1. Passes(ptr, i, chain[p].bh, chain[p].off) /\ MapOf(ptr)[i] # 0 /\ i \in FileRange
          BY <2>1, <2>5
        <4>2. Len(path) = n /\ length \in 1 .. k
          BY <1>3, <1>9
        <4>3. PICK s \in Nat : s = fr[t].size
          BY <1>1
        <4>4. path = Offsets(s)
          BY <1>2, <4>3
        <4>5. ZerosAfter(path, k, n) /\ NothingLeft(chain, p, length) /\ k \in 1 .. n
          BY <1>5, <1>11 DEF ZerosAfter, NothingLeft
        <4>6. length = k \/ Walk(path, ptr)[length] = 0
          BY <1>9
        <4> QED BY <1>2, <1>3, <1>7, <1>11, <1>12, <4>1, <4>2, <4>3, <4>4, <4>5, <4>6, CutSpares
      <3> QED BY <1>1, <3>1
    <2>6. MapInv'
      BY <1>0, <1>1, <1>15, <2>4, WorkStep
    <2> QED BY <1>0, <1>7, <2>2, <2>3, <2>5, <2>6, ClearRefines
  <1> QED BY <1>17, <1>18

\* An item in front of work that is past the size.
LEMMA PlacedPush ==
    ASSUME NEW p, NEW size, NEW i \in Items, PlacedItem(p, i, size),
           NEW work \in Seq(Items), Placed(p, work, size)
    PROVE  <<i>> \o work \in Seq(Items) /\ Placed(p, <<i>> \o work, size)
  <1>1. <<i>> \in Seq(Items) /\ <<i>> \o work \in Seq(Items)
    OBVIOUS
  <1>2. Placed(p, <<i>>, size)
    BY <1>1, PlacedParts
  <1> QED BY <1>1, <1>2, PlacedParts

\* Detached subtrees and blocks have no slots of the tree.
LEMMA NoSlotsPlaced ==
    ASSUME NEW p, NEW size, NEW nr \in Nodes, NEW depth \in 0 .. 3
    PROVE  /\ Detached(nr, depth) \in Items /\ PlacedItem(p, Detached(nr, depth), size)
           /\ FreeOne(nr) \in Items /\ PlacedItem(p, FreeOne(nr), size)
  <1>1. PICK d, o : d = Detached(nr, depth) /\ o = FreeOne(nr)
    OBVIOUS
  <1>2. d \in Items /\ o \in Items /\ d.op = "subtree" /\ o.op = "block"
    BY <1>1, NewItems DEF Detached, FreeOne
  <1> QED BY <1>1, <1>2 DEF PlacedItem

\* One step on the slots of a node.
LEMMA FreeArrayMap ==
    ASSUME Inv, MapInv, NEW t \in Tasks, pc[t] = "free", UNCHANGED pc, Still,
           NEW item \in Items, NEW rest \in Seq(Items), item.op = "array", FreeArray(t, item, rest),
           NEW lev \in Levels, Tree(ptr, lev), ItemOK(ptr, lev, item),
           PlacedItem(ptr, item, fr[t].size), Placed(ptr, rest, fr[t].size)
    PROVE  MapInv' /\ Refines
  <1>0. /\ pc[t] \in {"truncate", "shared", "free"} /\ pc' = [pc EXCEPT ![t] = "free"]
        /\ mutex \in {t, None} /\ i_size' = i_size
    BY Holder DEF Inv, Typed, Holding, Cutting, Still
  <1>1. /\ item.nr \in Nodes /\ item.p \in Nat /\ item.q \in Nat /\ item.depth \in 0 .. 3
        /\ item.start \in Nat /\ item.count \in Nat
    BY ItemFields
  <1>2. /\ Leads(lev, item.nr)
        /\ item.nr = Inode => item.depth = 0 /\ item.q <= NDir
        /\ item.nr # Inode => item.q <= Ptrs
    BY <1>1 DEF ItemOK, Leads
  <1>3. \A o \in item.p .. item.q - 1 : o \in Slots(item.nr)
    <2> SUFFICES ASSUME NEW o \in item.p .. item.q - 1 PROVE o \in Slots(item.nr)
      OBVIOUS
    <2>1. CASE item.nr = Inode
      BY <1>1, <1>2, <2>1, PtrsNat DEF Slots, TIND
    <2>2. CASE item.nr # Inode
      BY <1>1, <1>2, <2>2, PtrsNat DEF Slots
    <2> QED BY <2>1, <2>2
  <1>4. PICK size : size = fr[t].size /\ size = i_size
    BY CutSize DEF Cuts
  <1> DEFINE slots == {o \in item.p .. item.q - 1 : ptr[item.nr][o] # 0}
             o == Min(slots)
             nr == ptr[item.nr][o]
             next == [item EXCEPT !.p = o + 1]
  <1>5. CASE fr' = [fr EXCEPT ![t].work = rest] /\ ptr' = ptr
    BY <1>0, <1>5, WorkStep, QuietRefines
  <1>6. ASSUME slots # {}, ptr' = [ptr EXCEPT ![item.nr][o] = 0],
               \/ fr' = [fr EXCEPT ![t].work = <<Detached(nr, item.depth), next>> \o rest]
               \/ fr' = [fr EXCEPT ![t].work = <<[next EXCEPT !.count = @ + 1]>> \o rest]
               \/ fr' = [fr EXCEPT ![t].work = <<[next EXCEPT !.start = nr, !.count = 1]>> \o rest]
        PROVE  MapInv' /\ Refines
    <2>1. o \in item.p .. item.q - 1 /\ ptr[item.nr][o] # 0
      <3>1. slots \in SUBSET Nat
        BY <1>1
      <3>2. Min(slots) \in slots
        <4> HIDE DEF slots
        <4> QED BY <1>6, <3>1, MinIsLeast
      <3>3. o \in slots
        BY <3>2
      <3> HIDE DEF o
      <3> QED BY <3>3
    <2> HIDE DEF o
    <2>2. o \in Slots(item.nr) /\ o \in Nat /\ o + 1 \in Nat
      BY <1>1, <1>3, <2>1
    <2>3. nr \in Blocks /\ nr \in Nodes /\ nr \in Nat
      <3>1. nr \in Blocks
        BY <1>1, <1>2, <2>1, <2>2, EdgeFacts
      <3> QED BY <3>1, NodeFacts DEF Blocks
    <2>4. PICK q : q = ptr' /\ q = Store(ptr, item.nr, o, 0)
      BY <1>6 DEF Store
    <2>5. next \in Items /\ next.op = "array" /\ next.nr = item.nr /\ next.p = o + 1 /\ next.q = item.q
      BY <2>2 DEF Items
    <2>6. \A r \in item.p .. item.q - 1 : Past(ptr, item.nr, r, size)
      BY <1>4 DEF PlacedItem
    <2>7. /\ \A y \in Nodes : \A r : Past(ptr, y, r, size) => Past(q, y, r, size)
          /\ Placed(q, rest, size)
      BY <1>1, <1>4, <2>2, <2>4, PlacedCleared
    <2>8. ASSUME NEW j \in Items, j.op = "array", j.nr = item.nr, j.p = o + 1, j.q = item.q
          PROVE  PlacedItem(q, j, size)
      <3>1. \A r \in j.p .. j.q - 1 : r \in item.p .. item.q - 1
        BY <1>1, <2>1, <2>2, <2>8
      <3> QED BY <1>1, <2>6, <2>7, <2>8, <3>1 DEF PlacedItem
    <2>9. Refines
      <3>1. Past(ptr, item.nr, o, size)
        BY <2>1, <2>6
      <3>2. \A i \in FileRange : (MapOf(ptr)[i] # 0 /\ Passes(ptr, i, item.nr, o)) => i >= i_size
        BY <1>4, <3>1 DEF Past
      <3> QED BY <1>0, <1>1, <2>2, <2>4, <3>2, ClearRefines
    <2> HIDE DEF nr, next, slots
    <2>10. ASSUME NEW w, Placed(q, w, size), fr' = [fr EXCEPT ![t].work = w] PROVE MapInv'
      BY <1>0, <1>4, <2>4, <2>10, WorkStep
    <2>11. CASE fr' = [fr EXCEPT ![t].work = <<Detached(nr, item.depth), next>> \o rest]
      <3>1. PICK d : d = Detached(nr, item.depth)
        OBVIOUS
      <3>2. d \in Items /\ PlacedItem(q, d, size)
        BY <1>1, <2>3, <3>1, NoSlotsPlaced
      <3>3. PICK one : one = <<next>> \o rest
        OBVIOUS
      <3>4. one \in Seq(Items) /\ Placed(q, one, size)
        BY <2>5, <2>7, <2>8, <3>3, PlacedPush
      <3>5. <<d, next>> \o rest = <<d>> \o one
        BY <2>5, <3>2, <3>3
      <3>6. Placed(q, <<d>> \o one, size)
        BY <3>2, <3>4, PlacedPush
      <3> QED BY <2>9, <2>10, <2>11, <3>1, <3>5, <3>6
    <2>12. CASE fr' = [fr EXCEPT ![t].work = <<[next EXCEPT !.count = @ + 1]>> \o rest]
      <3>1. PICK i : i = [next EXCEPT !.count = @ + 1]
        OBVIOUS
      <3>2. i \in Items /\ i.op = "array" /\ i.nr = item.nr /\ i.p = o + 1 /\ i.q = item.q
        <4>1. next.count + 1 \in Nat
          BY <2>5, ItemFields
        <4> QED BY <2>5, <3>1, <4>1 DEF Items
      <3>3. Placed(q, <<i>> \o rest, size)
        BY <2>7, <2>8, <3>2, PlacedPush
      <3> QED BY <2>9, <2>10, <2>12, <3>1, <3>3
    <2>13. CASE fr' = [fr EXCEPT ![t].work = <<[next EXCEPT !.start = nr, !.count = 1]>> \o rest]
      <3>1. PICK i : i = [next EXCEPT !.start = nr, !.count = 1]
        OBVIOUS
      <3>2. i \in Items /\ i.op = "array" /\ i.nr = item.nr /\ i.p = o + 1 /\ i.q = item.q
        <4>1. 1 \in Nat
          OBVIOUS
        <4> QED BY <2>3, <2>5, <3>1, <4>1 DEF Items
      <3>3. Placed(q, <<i>> \o rest, size)
        BY <2>7, <2>8, <3>2, PlacedPush
      <3> QED BY <2>9, <2>10, <2>13, <3>1, <3>3
    <2> QED BY <1>6, <2>11, <2>12, <2>13 DEF nr, next
  <1> QED BY <1>5, <1>6 DEF FreeArray

\* A detached subtree: no walk goes through its top any more.
LEMMA FreeSubtreeMap ==
    ASSUME Inv, MapInv, NEW t \in Tasks, pc[t] = "free", UNCHANGED <<pc, ptr>>, Still,
           NEW item \in Items, NEW rest \in Seq(Items), item.op = "subtree", FreeSubtree(t, item, rest),
           NEW lev \in Levels, Tree(ptr, lev), ItemOK(ptr, lev, item), Placed(ptr, rest, fr[t].size)
    PROVE  MapInv' /\ Refines
  <1>0. /\ pc[t] \in {"truncate", "shared", "free"} /\ pc' = [pc EXCEPT ![t] = "free"]
        /\ mutex \in {t, None} /\ i_size' = i_size
    BY Holder DEF Inv, Typed, Holding, Cutting, Still
  <1>1. PICK size : size = fr[t].size
    OBVIOUS
  <1>2. PICK nr \in Blocks, depth \in 0 .. 3 : nr = item.nr /\ depth = item.depth /\ Loose(ptr, lev, nr)
    BY ItemFields DEF ItemOK, Owned
  <1>3. nr \in Nodes /\ 0 \in Nat /\ Ptrs \in Nat
    BY NodeFacts, PtrsNat
  <1>4. ASSUME NEW w, Placed(ptr, w, size), fr' = [fr EXCEPT ![t].work = w] PROVE MapInv' /\ Refines
    BY <1>0, <1>1, <1>4, WorkStep, QuietRefines
  <1>5. PICK one : one = FreeOne(nr)
    OBVIOUS
  <1>6. one \in Items /\ PlacedItem(ptr, one, size)
    BY <1>3, <1>5, NoSlotsPlaced
  <1>7. <<one>> \o rest \in Seq(Items) /\ Placed(ptr, <<one>> \o rest, size)
    BY <1>1, <1>6, PlacedPush
  <1>8. CASE fr' = [fr EXCEPT ![t].work = <<FreeOne(item.nr)>> \o rest]
    BY <1>2, <1>4, <1>5, <1>7, <1>8
  <1>9. CASE /\ item.depth > 0
             /\ fr' = [fr EXCEPT ![t].work = <<Array(item.nr, 0, Ptrs, item.depth - 1), FreeOne(item.nr)>> \o rest]
    <2>1. PICK d \in 0 .. 3 : d = depth - 1
      BY <1>2, <1>9
    <2>2. PICK a : a = Array(nr, 0, Ptrs, d)
      OBVIOUS
    <2>3. a \in Items /\ a.op = "array" /\ a.nr = nr
      BY ONLY <1>3, <2>2, NewArray, d \in 0 .. 3
    <2>4. PlacedItem(ptr, a, size)
      BY <1>2, <2>3, LooseNotPassed DEF PlacedItem
    <2>5. Placed(ptr, <<a>> \o (<<one>> \o rest), size)
      BY <1>7, <2>3, <2>4, PlacedPush
    <2>6. <<a>> \o (<<one>> \o rest) = <<a, one>> \o rest
      BY <1>6, <2>3
    <2>7. fr' = [fr EXCEPT ![t].work = <<a, one>> \o rest]
      BY <1>2, <1>5, <1>9, <2>1, <2>2
    <2> QED BY <1>4, <2>5, <2>6, <2>7
  <1>10. CASE fr' = [fr EXCEPT ![t].work = rest]
    BY <1>1, <1>4, <1>10
  <1> QED BY <1>8, <1>9, <1>10 DEF FreeSubtree

\* A whole slot of i_data.
LEMMA FreeSlotMap ==
    ASSUME Inv, MapInv, NEW t \in Tasks, pc[t] = "free", UNCHANGED pc, Still,
           NEW item \in Items, NEW rest \in Seq(Items), item.op = "slot", FreeSlot(t, item, rest),
           NEW lev \in Levels, Tree(ptr, lev), ItemOK(ptr, lev, item),
           PlacedItem(ptr, item, fr[t].size), Placed(ptr, rest, fr[t].size)
    PROVE  MapInv' /\ Refines
  <1>0. /\ pc[t] \in {"truncate", "shared", "free"} /\ pc' = [pc EXCEPT ![t] = "free"]
        /\ mutex \in {t, None} /\ i_size' = i_size
    BY Holder DEF Inv, Typed, Holding, Cutting, Still
  <1>1. PICK size : size = fr[t].size /\ size = i_size
    BY CutSize DEF Cuts
  <1>2. item.p \in Slots(Inode) /\ item.depth \in 0 .. 3 /\ Inode \in Nodes /\ Leads(lev, Inode)
    BY ItemFields, NodeFacts, PtrsNat DEF ItemOK, IND, TIND, Leads
  <1>3. PICK nr : nr = ptr[Inode][item.p]
    OBVIOUS
  <1>4. CASE fr' = [fr EXCEPT ![t].work = rest] /\ ptr' = ptr
    BY <1>0, <1>4, WorkStep, QuietRefines
  <1>5. CASE /\ nr # 0 /\ ptr' = [ptr EXCEPT ![Inode][item.p] = 0]
             /\ fr' = [fr EXCEPT ![t].work = <<Detached(nr, item.depth)>> \o rest]
    <2>1. PICK q : q = ptr' /\ q = Store(ptr, Inode, item.p, 0)
      BY <1>5 DEF Store
    <2>2. nr \in Nodes
      BY <1>2, <1>3, <1>5, EdgeFacts, NodeFacts
    <2>3. PICK det : det = Detached(nr, item.depth)
      OBVIOUS
    <2>4. det \in Items /\ PlacedItem(q, det, size)
      BY <1>2, <2>2, <2>3, NoSlotsPlaced
    <2>5. Placed(q, rest, size)
      BY <1>1, <1>2, <2>1, PlacedCleared
    <2>6. Placed(q, <<det>> \o rest, size)
      BY <2>4, <2>5, PlacedPush
    <2>7. \A i \in FileRange : (MapOf(ptr)[i] # 0 /\ Passes(ptr, i, Inode, item.p)) => i >= i_size
      BY <1>1 DEF PlacedItem, Past
    <2>8. Refines
      BY <1>0, <1>2, <2>1, <2>7, ClearRefines
    <2>9. fr' = [fr EXCEPT ![t].work = <<det>> \o rest] /\ Placed(ptr', <<det>> \o rest, fr[t].size)
      BY <1>1, <1>5, <2>1, <2>3, <2>6
    <2> QED BY <1>0, <2>8, <2>9, WorkStep
  <1> QED BY <1>3, <1>4, <1>5 DEF FreeSlot

\* One step of kr_free_data, kr_free_branches and do_indirects.
LEMMA FreeWorkMap == ASSUME Inv, MapInv, NEW t \in Tasks, FreeWork(t) PROVE MapInv' /\ Refines
  <1>0. pc[t] = "free" /\ fr[t].work # <<>> /\ UNCHANGED pc /\ Still /\ i_size' = i_size
    BY DEF FreeWork, At, locks, Still
  <1>1. PICK lev \in Levels : Sound(lev) /\ Tree(ptr, lev) /\ WorkOK(ptr, lev, fr[t].work)
    BY <1>0 DEF Inv, LevelInv, HandOK, Sound
  <1>2. fr[t].work \in Seq(Items)
    BY PathFacts, FrameFields
  <1>3. PICK item \in Items, rest \in Seq(Items) :
            /\ item = Head(fr[t].work) /\ rest = Tail(fr[t].work) /\ ItemOK(ptr, lev, item)
    BY <1>0, <1>1, <1>2, WorkTail
  <1>4. CutOK(ptr, pc[t], fr[t])
    BY TaskFacts
  <1>5. Placed(ptr, fr[t].work, fr[t].size)
    BY <1>0, <1>4 DEF CutOK
  <1>6. PlacedItem(ptr, item, fr[t].size) /\ Placed(ptr, rest, fr[t].size)
    BY <1>0, <1>2, <1>3, <1>5, PlacedParts
  <1>7. CASE item.op = "array" /\ FreeArray(t, item, rest)
    BY <1>0, <1>1, <1>3, <1>6, <1>7, FreeArrayMap
  <1>8. CASE item.op = "subtree" /\ FreeSubtree(t, item, rest) /\ UNCHANGED ptr
    BY <1>0, <1>1, <1>3, <1>6, <1>8, FreeSubtreeMap
  <1>9. CASE item.op = "slot" /\ FreeSlot(t, item, rest)
    BY <1>0, <1>1, <1>3, <1>6, <1>9, FreeSlotMap
  <1>10. CASE item.op = "block" /\ fr' = [fr EXCEPT ![t].work = rest] /\ UNCHANGED ptr
    <2>1. /\ pc[t] \in {"truncate", "shared", "free"} /\ pc' = [pc EXCEPT ![t] = "free"]
          /\ mutex \in {t, None}
      BY <1>0, Holder DEF Inv, Typed, Holding, Cutting
    <2> QED BY <1>0, <1>6, <1>10, <2>1, WorkStep, QuietRefines
  <1> QED BY <1>3, <1>7, <1>8, <1>9, <1>10 DEF FreeWork

-----------------------------------------------------------------------------
(***************************************************************************)
(* Other files, and the theorem.                                           *)
(***************************************************************************)

\* What an allocation will store to is in the tree, which other files leave alone.
LEMMA HoleSame ==
    ASSUME NEW lev, NEW l, NEW f \in Frames, HandOK(lev, l, f), HoleOK(ptr, l, f),
           NEW q, \A x \in Nodes : Leads(lev, x) => q[x] = ptr[x]
    PROVE  HoleOK(q, l, f)
  <1>1. PICK w : w = f.chain[f.partial]
    OBVIOUS
  <1>2. ASSUME l \in {"alloc", "setup"}
        PROVE  Empty(q, w, Len(Offsets(f.iblock)) - f.partial, Len(f.new) + f.want)
    <2>1. q[w.bh] = ptr[w.bh]
      BY <1>1, <1>2 DEF HandOK, NewOK, Spot
    <2>2. Empty(ptr, w, Len(Offsets(f.iblock)) - f.partial, Len(f.new) + f.want)
      BY <1>1, <1>2 DEF HoleOK
    <2> QED BY <2>1, <2>2 DEF Empty
  <1>3. ASSUME l \in {"zero", "splice"} PROVE EmptyFrom(q, w, f.done, LastSpliced(f))
    <2>1. SpliceOK(lev, f)
      BY <1>3 DEF HandOK
    <2>2. f.done \in f.done .. LastSpliced(f)
      <3>1. f.done \in Nat /\ f.done <= LastSpliced(f) /\ f.count \in Nat
        BY <2>1, FrameFields DEF SpliceOK
      <3>2. LastSpliced(f) \in Int
        BY <3>1 DEF LastSpliced
      <3> QED BY <3>1, <3>2
    <2>3. q[w.bh] = ptr[w.bh]
      BY <1>1, <2>1, <2>2 DEF SpliceOK, Spot
    <2>4. EmptyFrom(ptr, w, f.done, LastSpliced(f))
      BY <1>1, <1>3 DEF HoleOK
    <2> QED BY <2>3, <2>4 DEF EmptyFrom
  <1> QED BY <1>1, <1>2, <1>3 DEF HoleOK

\* Another file takes a block and writes to it: no walk of this file goes there.
LEMMA OtherTakesMap == ASSUME Inv, MapInv, OtherTakes PROVE MapInv' /\ Refines
  <1>1. PICK b \in free : ptr' = [ptr EXCEPT ![b] = [o \in 0 .. Ptrs - 1 |-> b]]
    BY DEF OtherTakes
  <1>0. UNCHANGED <<pc, fr, i_size, rwsem, deleted>>
    BY DEF OtherTakes, locks
  <1>2. PICK lev \in Levels : Sound(lev) /\ \A u \in Tasks : HandOK(lev, pc[u], fr[u])
    BY DEF Inv, LevelInv
  <1>3. b \in Blocks /\ lev[b] = -1 /\ b \in Nodes /\ b # Inode /\ Slots(b) = Digit /\ b \in 0 .. NBlocks
    BY <1>1, <1>2, NodeFacts DEF Sound, Blocks
  <1>4. Tree(ptr, lev) /\ DOMAIN ptr = Nodes
    BY <1>2 DEF Sound, Tree, IsPointers
  <1>5. PICK q : q = ptr'
    OBVIOUS
  <1>6. /\ DOMAIN q = Nodes /\ q[b] \in [Slots(b) -> 0 .. NBlocks]
        /\ \A x \in Nodes : x # b => q[x] = ptr[x]
    BY <1>1, <1>3, <1>4, <1>5 DEF Digit
  <1>7. \A x \in Nodes : Leads(lev, x) => q[x] = ptr[x]
    BY <1>3, <1>6 DEF Leads
  <1>8. IsPointers(q)
    BY <1>4, <1>6 DEF IsPointers, Tree
  <1>9. Tree(q, lev) /\ MapOf(q) = MapOf(ptr)
    BY <1>4, <1>7, <1>8, TreeSame
  <1>10. Refines
    BY <1>0, <1>5, <1>9, SameRefines DEF Map
  <1>11. ASSUME NEW u \in Tasks
         PROVE  /\ HoleOK(q, pc[u], fr[u]) /\ CutOK(q, pc[u], fr[u]) /\ CountOK(pc[u], fr[u])
                /\ SizedOK(u, pc[u], fr[u], i_size, rwsem, deleted)
    <2>1. /\ HoleOK(ptr, pc[u], fr[u]) /\ CutOK(ptr, pc[u], fr[u]) /\ CountOK(pc[u], fr[u])
          /\ SizedOK(u, pc[u], fr[u], i_size, rwsem, deleted)
      BY TaskFacts
    <2>2. fr[u] \in Frames
      BY PathFacts
    <2>3. HoleOK(q, pc[u], fr[u])
      BY <1>2, <1>7, <2>1, <2>2, HoleSame
    <2>4. CutOK(q, pc[u], fr[u])
      BY <1>4, <1>7, <1>9, <2>1, PlacedSame DEF CutOK
    <2> QED BY <2>1, <2>3, <2>4
  <1>12. i_size \in 0 .. LastBlock + 1
    BY DEF MapInv
  <1>13. MapInv'
    BY <1>0, <1>5, <1>11, <1>12 DEF MapInv
  <1> QED BY <1>10, <1>13

\* Nothing of the file changes.
LEMMA MapUnchanged ==
    ASSUME MapInv, UNCHANGED <<ptr, pc, fr, i_size, rwsem, deleted>>
    PROVE  MapInv' /\ Refines
  <1>1. MapInv'
    BY DEF MapInv
  <1> QED BY <1>1, QuietRefines

\* The file starts as a map, and with nothing to do.
LEMMA InitMap == ASSUME Init PROVE MapInv /\ FileMap!Init
  <1>1. PICK p \in Trees : ptr = p /\ i_size = InitSize[p]
    BY DEF Init
  <1>2. i_size \in 0 .. LastBlock + 1
    BY <1>1, TreesAssumption, MapAssumption
  <1>3. PICK lev \in Levels : Tree(ptr, lev)
    BY <1>1, TreesAssumption DEF Tree
  <1>4. /\ Map \in [FileRange -> 0 .. NBlocks]
        /\ \A i, j \in FileRange : (Map[i] # 0 /\ Map[i] = Map[j]) => i = j
    BY <1>3, MapIsMap DEF Map
  <1>5. FileMap!Init
    BY <1>2, <1>4 DEF FileMap!Init, FileMap!Mapped, FileRange
  <1>6. ASSUME NEW u \in Tasks
        PROVE  /\ HoleOK(ptr, pc[u], fr[u]) /\ CutOK(ptr, pc[u], fr[u]) /\ CountOK(pc[u], fr[u])
               /\ SizedOK(u, pc[u], fr[u], i_size, rwsem, deleted)
    <2>1. pc[u] = "idle"
      BY DEF Init
    <2> QED BY <2>1, IdleOK
  <1> QED BY <1>2, <1>5, <1>6 DEF MapInv

\* Every step of a task is a step of the map or none.
LEMMA StepMap ==
    ASSUME ~IOErrors, Inv, Inv', MapInv, NEW t \in Tasks, Step(t)
    PROVE  MapInv' /\ Refines
  BY FirstLinkMap, BreadMap, AddLinkMap, MapMoreMap, AbsentMap, LockTreeMap, AllocBlocksMap,
     SetUpBranchMap, ZeroOutMap, SpliceMap, ReturnMap, WriteEndMap, WaitForPagesMap, TruncateMap,
     FindSharedMap, FreeWorkMap, TruncateDoneMap, Zenon DEF Step

\* Every step of the system is a step of the map or none.
LEMMA NextMap == ASSUME ~IOErrors, Inv, Inv', MapInv, [Next]_vars PROVE MapInv' /\ Refines
  <1>1. CASE UNCHANGED vars
    <2>1. UNCHANGED <<ptr, pc, fr, i_size, rwsem, deleted>>
      BY <1>1 DEF vars, disk, locks
    <2> QED BY <2>1, MapUnchanged
  <1>2. ASSUME NEW t \in Tasks, GetBlock(t) \/ SetSize(t) \/ Evict(t) \/ Step(t)
        PROVE  MapInv' /\ Refines
    BY <1>2, GetBlockMap, SetSizeMap, EvictMap, StepMap
  <1>3. CASE OtherTakes
    BY <1>3, OtherTakesMap
  <1>4. CASE OtherReleases
    <2>1. UNCHANGED <<ptr, pc, fr, i_size, rwsem, deleted>>
      BY <1>4 DEF OtherReleases, locks
    <2> QED BY <2>1, MapUnchanged
  <1> QED BY <1>1, <1>2, <1>3, <1>4 DEF Next

\* Every step keeps the invariants and is a step of the map or none.
LEMMA NextRefines ==
    ASSUME ~IOErrors
    PROVE  Inv /\ SizeOK /\ MapInv /\ [Next]_vars =>
               (Inv /\ SizeOK /\ MapInv)' /\ [FileMap!Next]_<<Map, i_size>>
  <1> SUFFICES ASSUME Inv, SizeOK, MapInv, [Next]_vars
               PROVE  (Inv /\ SizeOK /\ MapInv)' /\ [FileMap!Next]_<<Map, i_size>>
    OBVIOUS
  <1>1. Inv' /\ SizeOK'
    BY NextInv
  <1>2. MapInv' /\ Refines
    BY <1>1, NextMap
  <1> QED BY <1>1, <1>2 DEF Refines

\* When the indirect blocks can be read and the new blocks zeroed, the pointer tree that
\* kr_get_blocks and kr_truncate_blocks keep implements the map of KrFileMap, whatever the
\* geometry and however the calls interleave: holes get blocks nothing else of the file
\* has, and a mapping goes only when it lies at or past the size.
THEOREM TreeImplementsMap == ASSUME ~IOErrors PROVE Spec => ImplementsFileMap
  <1>1. Init => Inv /\ SizeOK /\ MapInv /\ FileMap!Init
    BY InitInv, InitSizeOK, InitMap
  <1> QED BY <1>1, NextRefines, PTL DEF Spec, ImplementsFileMap, FileMap!Spec

\* Under the same condition kr_splice_branch never stores over a pointer, as the comment on
\* kr_alloc_branch says of the link it is given.
THEOREM SplicesFillHoles == ASSUME ~IOErrors PROVE Spec => []SpliceFillsHole
  <1>1. Init => Inv /\ SizeOK /\ MapInv
    BY InitInv, InitSizeOK, InitMap
  <1>2. Inv /\ MapInv => SpliceFillsHole
    <2> SUFFICES ASSUME Inv, MapInv, NEW t \in Tasks, pc[t] = "splice"
                 PROVE  LET w == fr[t].chain[fr[t].partial] IN ptr[w.bh][w.off + fr[t].done] = 0
      BY DEF SpliceFillsHole, At
    <2>1. PICK f \in Frames : f = fr[t]
      BY PathFacts
    <2>2. PICK lev \in Levels : HandOK(lev, "splice", f)
      BY <2>1 DEF Inv, LevelInv
    <2>3. f.done \in f.done .. LastSpliced(f)
      <3>1. f.done \in Nat /\ f.done <= LastSpliced(f) /\ f.count \in Nat
        BY <2>2, FrameFields DEF HandOK, SpliceOK
      <3>2. LastSpliced(f) \in Int
        BY <3>1 DEF LastSpliced
      <3> QED BY <3>1, <3>2
    <2>4. EmptyFrom(ptr, f.chain[f.partial], f.done, LastSpliced(f))
      BY <2>1, TaskFacts DEF HoleOK
    <2> QED BY <2>1, <2>3, <2>4 DEF EmptyFrom
  <1> QED BY <1>1, <1>2, NextRefines, PTL DEF Spec

\* Under the same condition a truncation, and every other step, leaves alone the blocks of
\* the file below the size it has before and after: what kr_find_shared and the frees take
\* away lies past it.
THEOREM RestIsSpared == ASSUME ~IOErrors PROVE Spec => TruncationSparesTheRest
  <1>1. Init => Inv /\ SizeOK /\ MapInv
    BY InitInv, InitSizeOK, InitMap
  <1>2. MapInv /\ [FileMap!Next]_<<Map, i_size>> =>
            \A i \in FileRange : (i < i_size /\ i < i_size' /\ Map[i] # 0) => MapOf(ptr')[i] = Map[i]
    <2> SUFFICES ASSUME MapInv, [FileMap!Next]_<<Map, i_size>>, NEW i \in FileRange,
                        i < i_size, Map[i] # 0
                 PROVE  MapOf(ptr')[i] = Map[i]
      OBVIOUS
    <2>1. Map' = MapOf(ptr')
      BY DEF Map
    <2>2. ~(i >= i_size)
      <3>1. i_size \in Int /\ i \in Int
        BY MapAssumption DEF MapInv, FileRange
      <3> QED BY <3>1
    <2> QED BY <2>1, <2>2 DEF FileMap!Next, FileMap!Fill, FileMap!Drop, FileMap!Resize, FileRange
  <1> QED BY <1>1, <1>2, NextRefines, PTL DEF Spec, TruncationSparesTheRest

-----------------------------------------------------------------------------
(***************************************************************************)
(* What lookups answer.                                                    *)
(***************************************************************************)

\* The page of a block that is read or written back keeps a truncation of it waiting.
PageOK(l, f) ==
    l \in Lookups =>
        /\ f.kind \in {"read", "bmap", "write", "writepage"}
        /\ f.kind \in {"read", "writepage"} => f.iblock < i_size \/ \E u \in Tasks : pc[u] = "pages"

PageInv == \A t \in Tasks : PageOK(pc[t], fr[t])

\* The chain is what the pointers say.
Holds(p, c) == \A j \in 1 .. Len(c) : p[c[j].bh][c[j].off] = c[j].key

\* Between verify_chain and add_chain the chain stays good.
AddOK(p, l, f) == (l = "add" /\ f.kind # "bmap") => Holds(p, f.chain)

\* The last slot of the chain is the one the walk to the block reads.
OnPath(p, f) ==
    /\ Parent(Walk(Offsets(f.iblock), p), f.partial) = f.chain[f.partial].bh
    /\ Offsets(f.iblock)[f.partial] = f.chain[f.partial].off

\* Once the link is stored the first n blocks are mapped, to the blocks from first on.
Lands(p, w, i, first, n) ==
    \A j \in 0 .. n - 1 : MapOf(Store(p, w.bh, w.off, w.key))[i + j] = first + j

\* The chain an allocation starts from stays good, and what is to be spliced in will be found;
\* it does not cross the end of its array.
LandOK(p, l, f) ==
    LET k == Len(Offsets(f.iblock)) - f.partial
        room == boundary(PtrBits, f.iblock) + 1
    IN  /\ l \in {"alloc", "setup"} =>
             /\ Threaded(Offsets(f.iblock), f.chain) /\ Holds(p, f.chain)
             /\ Len(f.new) + f.want <= k + room
        /\ l = "zero" => f.done = 0
        /\ l \in {"zero", "splice"} =>
             /\ f.count <= room /\ f.count > 0
             /\ k = 0 => Len(f.chain) = f.partial /\ OnPath(p, f)
             /\ k > 0 => Lands(p, f.chain[f.partial], f.iblock, LastKey(f), f.count)

\* The first n blocks were seen to be mapped to the blocks from first on.
SeenRun(s, first, n) == \A j \in 0 .. n - 1 : <<j, first + j>> \in s

\* What the call has found out, it has seen in the map.
SeenOK(l, f, s) ==
    /\ l \in Walking \ {"found"} => f.count = 0
    /\ l = "found" => Len(f.chain) = Len(Offsets(f.iblock)) /\ LastKey(f) # 0
    /\ f.kind # "bmap" =>
         /\ (l = "absent" /\ f.err = "") => <<0, 0>> \in s
         /\ l = "found" => SeenRun(s, LastKey(f), IF f.count = 0 THEN 1 ELSE f.count)
         /\ l = "splice" => SeenRun(s, LastKey(f), f.done)
         /\ (l = "return" /\ f.err = "") =>
              IF f.count = 0 THEN <<0, 0>> \in s ELSE SeenRun(s, LastKey(f), f.count)

LookInv ==
    \A t \in Tasks :
        /\ AddOK(ptr, pc[t], fr[t])
        /\ LandOK(ptr, pc[t], fr[t])
        /\ SeenOK(pc[t], fr[t], seen[t])

\* Path b is path a with d added to its last slot.
Shifted(a, b, d) ==
    /\ Len(b) = Len(a)
    /\ \A m \in 1 .. Len(a) - 1 : b[m] = a[m]
    /\ b[Len(a)] = a[Len(a)] + d

\* A number is written in one way with two digits.
LEMMA SameDigits ==
    ASSUME NEW n \in Nat, n >= 1, NEW a \in Nat, NEW c \in Nat,
           NEW b \in 0 .. n - 1, NEW d \in 0 .. n - 1, n * a + b = n * c + d
    PROVE  a = c /\ b = d
  <1>1. n * a + b \in Nat /\ n * c + d \in Nat /\ n * a \in Nat /\ n * c \in Nat
    BY ProductGrows, DigitsOrder
  <1>2. ~(a < c)
    <2>1. a < c => n * a + b < n * c
      BY DigitsOrder
    <2> QED BY <1>1, <2>1
  <1>3. ~(c < a)
    <2>1. c < a => n * c + d < n * a
      BY DigitsOrder
    <2> QED BY <1>1, <2>1
  <1> QED BY <1>1, <1>2, <1>3

\* The blocks up to the boundary follow each other in one array.
LEMMA NextPath ==
    ASSUME NEW i \in FileRange, NEW d \in 0 .. boundary(PtrBits, i), i + d \in FileRange
    PROVE  Shifted(Offsets(i), Offsets(i + d), d)
  <1>1. /\ i \in Nat /\ i + d \in Nat /\ d \in Nat
        /\ IsPath(Offsets(i)) /\ IsPath(Offsets(i + d)) /\ Len(Offsets(i)) \in 1 .. 4
    <2>1. /\ i \in Nat /\ i + d \in Nat /\ IsPath(Offsets(i)) /\ IsPath(Offsets(i + d)) /\ Len(Offsets(i)) \in 1 .. 4
      BY OffsetsAreFound DEF IsPath
    <2>2. boundary(PtrBits, i) \in Nat
      BY <2>1, BoundaryFacts
    <2> QED BY <2>1, <2>2
  <1>2. PICK j \in Nat : j = i + d
    BY <1>1
  <1>3. PICK p, q : p = Offsets(i) /\ q = Offsets(j)
    OBVIOUS
  <1>4. Offsets(i) # <<>> /\ Offsets(j) # <<>>
    BY <1>2, OffsetsNotEmpty
  <1>5. PICK P \in Nat : P = Ptrs /\ P >= 1 /\ NDir \in Nat /\ NDir >= 1
    BY PtrsNat
  <1>6. /\ Len(p) = 1 => p[1] + d \in 0 .. NDir - 1
        /\ Len(p) > 1 => p[Len(p)] + d \in 0 .. P - 1
    BY <1>1, <1>3, <1>5, BoundaryFacts DEF Digit
  <1>7. \/ DirectPath(j, q) /\ j < NDir
        \/ (\E a \in Digit : SinglePath(j, q, a)) /\ j >= NDir /\ j < NDir + P
        \/ (\E a, b \in Digit : DoublePath(j, q, a, b)) /\ j >= NDir + P /\ j < NDir + P + P * P
        \/ (\E a, b, c \in Digit : TriplePath(j, q, a, b, c)) /\ j >= NDir + P + P * P
    BY <1>3, <1>4, <1>5, PathRanges
  <1>8. \/ DirectPath(i, p) /\ i < NDir
        \/ (\E a \in Digit : SinglePath(i, p, a))
        \/ (\E a, b \in Digit : DoublePath(i, p, a, b)) /\ i >= NDir + P /\ i < NDir + P + P * P
        \/ (\E a, b, c \in Digit : TriplePath(i, p, a, b, c)) /\ i >= NDir + P + P * P
    BY <1>1, <1>3, <1>4, <1>5, PathRanges
  <1>9. P * P \in Nat
    BY <1>5
  <1> SUFFICES Shifted(p, q, d)
    BY <1>2, <1>3
  <1>10. CASE DirectPath(i, p) /\ i < NDir
    <2>1. p = <<i>> /\ Len(p) = 1 /\ p[1] = i
      BY <1>10 DEF DirectPath
    <2>2. j < NDir
      BY <1>1, <1>2, <1>5, <1>6, <2>1
    <2>3. q = <<j>>
      BY <1>2, <1>5, <1>7, <1>9, <2>2 DEF DirectPath
    <2> QED BY <1>1, <1>2, <2>1, <2>3 DEF Shifted
  <1>11. ASSUME NEW a \in Digit, SinglePath(i, p, a) PROVE Shifted(p, q, d)
    <2>1. p = <<IND, a>> /\ Len(p) = 2 /\ p[2] = a /\ i = NDir + a
      BY <1>11 DEF SinglePath
    <2>2. a \in Nat /\ a + d \in 0 .. P - 1 /\ j = NDir + (a + d)
      BY <1>1, <1>2, <1>5, <1>6, <2>1 DEF Digit
    <2>3. j >= NDir /\ j < NDir + P
      BY <1>2, <1>5, <2>2
    <2>4. PICK b \in Digit : SinglePath(j, q, b)
      BY <1>2, <1>5, <1>7, <1>9, <2>3
    <2>5. q = <<IND, b>> /\ b = a + d
      BY <1>5, <2>2, <2>4 DEF SinglePath, Digit
    <2> QED BY <2>1, <2>2, <2>5 DEF Shifted
  <1>12. ASSUME NEW a \in Digit, NEW b \in Digit, DoublePath(i, p, a, b) PROVE Shifted(p, q, d)
    <2>1. p = <<DIND, a, b>> /\ Len(p) = 3 /\ p[3] = b /\ i = NDir + P + (P * a + b)
      BY <1>5, <1>12 DEF DoublePath
    <2>2. a \in Nat /\ b \in Nat /\ a < P /\ P * a \in Nat /\ b + d \in 0 .. P - 1
      BY <1>1, <1>5, <1>6, <2>1 DEF Digit
    <2>3. j = NDir + P + (P * a + (b + d))
      BY <1>1, <1>2, <1>5, <2>1, <2>2
    <2>4. P * a + (b + d) < P * P
      <3>1. a < P => P * a + (b + d) < P * P
        BY <1>5, <2>2, DigitsOrder
      <3> QED BY <2>2, <3>1
    <2>5. j >= NDir + P /\ j < NDir + P + P * P
      BY <1>1, <1>5, <1>9, <2>2, <2>3, <2>4
    <2>6. PICK a2 \in Digit, b2 \in Digit : DoublePath(j, q, a2, b2)
      BY <1>2, <1>5, <1>7, <1>9, <2>5
    <2>7. q = <<DIND, a2, b2>> /\ j = NDir + P + (P * a2 + b2)
      BY <1>5, <2>6 DEF DoublePath
    <2>8. a2 \in Nat /\ b2 \in 0 .. P - 1 /\ P * a2 \in Nat
      BY <1>5 DEF Digit
    <2>9. P * a2 + b2 = P * a + (b + d)
      BY <1>5, <2>2, <2>3, <2>7, <2>8
    <2>10. a2 = a /\ b2 = b + d
      BY <1>5, <2>2, <2>8, <2>9, SameDigits
    <2> QED BY <2>1, <2>2, <2>7, <2>10 DEF Shifted
  <1>13. ASSUME NEW a \in Digit, NEW b \in Digit, NEW c \in Digit, TriplePath(i, p, a, b, c)
         PROVE  Shifted(p, q, d)
    <2>1. /\ p = <<TIND, a, b, c>> /\ Len(p) = 4 /\ p[4] = c
          /\ i = NDir + P + P * P + (P * (P * a + b) + c)
      BY <1>5, <1>13 DEF TriplePath
    <2>2. a \in Nat /\ b \in 0 .. P - 1 /\ c \in Nat /\ c + d \in 0 .. P - 1 /\ P * a \in Nat
      BY <1>1, <1>5, <1>6, <2>1 DEF Digit
    <2>3. PICK y \in Nat : y = P * a + b
      BY <2>2
    <2>4. PICK z \in Nat : z = P * y
      BY <1>5, <2>3
    <2>5. i = NDir + P + P * P + (z + c)
      BY <2>1, <2>3, <2>4
    <2>6. j = NDir + P + P * P + (z + (c + d)) /\ j >= NDir + P + P * P
      BY <1>1, <1>2, <1>5, <1>9, <2>2, <2>5
    <2>7. PICK a2 \in Digit, b2 \in Digit, c2 \in Digit : TriplePath(j, q, a2, b2, c2)
      BY <1>2, <1>5, <1>7, <1>9, <2>6
    <2>8. q = <<TIND, a2, b2, c2>> /\ j = NDir + P + P * P + (P * (P * a2 + b2) + c2)
      BY <1>5, <2>7 DEF TriplePath
    <2>9. a2 \in Nat /\ b2 \in 0 .. P - 1 /\ c2 \in 0 .. P - 1 /\ P * a2 \in Nat
      BY <1>5 DEF Digit
    <2>10. PICK y2 \in Nat : y2 = P * a2 + b2
      BY <2>9
    <2>11. P * y2 \in Nat
      BY <1>5, <2>10
    <2>12. P * y2 + c2 = P * y + (c + d)
      BY <1>5, <1>9, <2>2, <2>4, <2>6, <2>8, <2>9, <2>10, <2>11
    <2>13. y2 = y /\ c2 = c + d
      BY <1>5, <2>2, <2>9, <2>12, SameDigits
    <2>14. a2 = a /\ b2 = b
      BY <1>5, <2>2, <2>3, <2>9, <2>10, <2>13, SameDigits
    <2> QED BY <2>1, <2>2, <2>8, <2>13, <2>14 DEF Shifted
  <1> QED BY <1>8, <1>10, <1>11, <1>12, <1>13

-----------------------------------------------------------------------------
\* The chain is what the walk along path finds in p.
Follows(p, path, c) ==
    \A j \in 1 .. Len(c) : Parent(Walk(path, p), j) = c[j].bh /\ Walk(path, p)[j] = c[j].key

\* A chain that is what the pointers say is what the walk finds.
LEMMA ChainWalk ==
    ASSUME NEW p, NEW path, NEW n \in 1 .. 4, Len(path) = n, NEW c, Threaded(path, c), Holds(p, c)
    PROVE  Follows(p, path, c)
  <1> DEFINE w == Walk(path, p)
             Fits(j) == j <= Len(c) => Parent(w, j) = c[j].bh /\ w[j] = c[j].key
  <1>1. PICK m \in 1 .. 4 : Len(c) = m /\ m <= n
    <2>1. Len(c) \in 1 .. n
      BY DEF Threaded
    <2>2. \A k \in 1 .. n : k \in 1 .. 4 /\ k <= n
      OBVIOUS
    <2> QED BY ONLY <2>1, <2>2, Zenon
  <1>2. \A j \in 1 .. n : /\ j = 1 => w[j] = p[Inode][path[j]]
                          /\ j > 1 => w[j] = IF w[j - 1] = 0 THEN 0 ELSE p[w[j - 1]][path[j]]
    BY WalkAt
  <1>3. /\ \A j \in 1 .. m : p[c[j].bh][path[j]] = c[j].key
        /\ \A j \in 1 .. m - 1 : c[j + 1].bh = c[j].key /\ c[j].key # 0
        /\ c[1].bh = Inode
    BY <1>1 DEF Threaded, Holds
  <1> HIDE DEF w
  <1>4. Fits(1)
    BY <1>1, <1>2, <1>3 DEF Parent
  <1>5. ASSUME NEW j \in 1 .. 3, Fits(j) PROVE Fits(j + 1)
    <2> SUFFICES ASSUME j + 1 <= m PROVE Parent(w, j + 1) = c[j + 1].bh /\ w[j + 1] = c[j + 1].key
      BY <1>1
    <2>1. j \in 1 .. m - 1 /\ j + 1 \in 1 .. m /\ j + 1 \in 1 .. n /\ (j + 1) - 1 = j /\ j + 1 > 1 /\ j + 1 # 1
      BY <1>1
    <2>2. w[j] = c[j].key
      BY <1>1, <1>5, <2>1
    <2>3. Parent(w, j + 1) = w[j]
      BY <2>1 DEF Parent
    <2>4. c[j + 1].bh = c[j].key /\ c[j].key # 0 /\ p[c[j + 1].bh][path[j + 1]] = c[j + 1].key
      BY <1>3, <2>1
    <2>5. w[j + 1] = IF w[j] = 0 THEN 0 ELSE p[w[j]][path[j + 1]]
      BY <1>2, <2>1
    <2> QED BY <2>2, <2>3, <2>4, <2>5
  <1> HIDE DEF Fits
  <1>6. Fits(2)
    BY <1>4, <1>5
  <1>7. Fits(3)
    BY <1>5, <1>6
  <1>8. Fits(4)
    BY <1>5, <1>7
  <1>9. \A j \in 1 .. m : Fits(j)
    BY <1>1, <1>4, <1>6, <1>7, <1>8
  <1> QED BY <1>1, <1>9 DEF Fits, w, Follows

\* verify_chain is about the pointers as they are.
LEMMA VerifiedHolds == ASSUME NEW c PROVE verify_chain(c) <=> Holds(ptr, c)
  BY DEF verify_chain, Holds

\* The map has what the walk ends with.
LEMMA MapAt ==
    ASSUME NEW p, NEW i \in FileRange, NEW n, Len(Offsets(i)) = n
    PROVE  MapOf(p)[i] = Walk(Offsets(i), p)[n]
  BY DEF MapOf

\* Block d after i has its pointer in the array of the one of i.
Within(i, d) == d \in 0 .. boundary(PtrBits, i) /\ i + d \in FileRange

\* The slot of the pointer to block i, and the node it is in.
IsSlot(p, i, x, o) ==
    /\ x = Parent(Walk(Offsets(i), p), Len(Offsets(i))) /\ x # 0
    /\ o = Offsets(i)[Len(Offsets(i))]

\* The block of the file that is d after i, up to the boundary, is found in the same array.
LEMMA NextMapped ==
    ASSUME NEW p, NEW i \in FileRange, NEW d, Within(i, d), NEW x, NEW o, IsSlot(p, i, x, o)
    PROVE  MapOf(p)[i + d] = p[x][o + d]
  <1>01. d \in 0 .. boundary(PtrBits, i) /\ i + d \in FileRange
    BY DEF Within
  <1>02. PICK n \in 1 .. 4 : Len(Offsets(i)) = n
    BY OffsetsAreFound DEF IsPath
  <1>03. x = Parent(Walk(Offsets(i), p), n) /\ x # 0 /\ o = Offsets(i)[n]
    BY <1>02 DEF IsSlot
  <1>1. PICK a, b : a = Offsets(i) /\ b = Offsets(i + d)
    OBVIOUS
  <1>2. Len(a) = n /\ Len(b) = n /\ (\A m \in 1 .. n - 1 : b[m] = a[m]) /\ b[n] = a[n] + d
    BY <1>01, <1>02, <1>1, NextPath DEF Shifted
  <1>3. PICK h \in 0 .. 4 : h = n - 1
    OBVIOUS
  <1>4. SameUpTo(p, a, b, h)
    <2>1. h <= n /\ \A l \in 1 .. h : a[l] = b[l]
      BY <1>2, <1>3
    <2> QED BY <1>2, <2>1, PrefixWalk
  <1>5. Parent(Walk(b, p), n) = x
    <2>1. n > 1 => Walk(a, p)[n - 1] = Walk(b, p)[n - 1]
      BY <1>3, <1>4 DEF SameUpTo
    <2>2. x = Parent(Walk(a, p), n)
      BY <1>03, <1>1
    <2> QED BY <2>1, <2>2 DEF Parent
  <1>6. /\ n = 1 => Walk(b, p)[n] = p[Inode][b[n]]
        /\ n > 1 => Walk(b, p)[n] = IF Walk(b, p)[n - 1] = 0 THEN 0 ELSE p[Walk(b, p)[n - 1]][b[n]]
    <2>1. \A k \in 1 .. n :
              /\ k = 1 => Walk(b, p)[k] = p[Inode][b[k]]
              /\ k > 1 => Walk(b, p)[k] = IF Walk(b, p)[k - 1] = 0 THEN 0 ELSE p[Walk(b, p)[k - 1]][b[k]]
      BY <1>2, WalkAt
    <2>2. n \in 1 .. n
      OBVIOUS
    <2> QED BY ONLY <2>1, <2>2
  <1>7. Walk(b, p)[n] = p[x][b[n]]
    BY <1>03, <1>5, <1>6 DEF Parent
  <1>8. MapOf(p)[i + d] = Walk(b, p)[n]
    BY <1>01, <1>1, <1>2, MapAt
  <1> QED BY <1>03, <1>1, <1>2, <1>7, <1>8

\* The labels of a call whose answer is still to come.
Watched == Walking \cup Mapping \cup {"return"}

\* What the map says of a block after a step, the call about it has seen.
LEMMA WatchFacts ==
    ASSUME Watch, NEW t \in Tasks, pc'[t] \in Watched, NEW f, fr'[t] = f, f.kind # "bmap"
    PROVE  /\ seen[t] \subseteq seen'[t]
           /\ \A j \in 0 .. f.max - 1 : <<j, MapOf(ptr')[f.iblock + j]>> \in seen'[t]
  <1>1. PICK p, l : p = ptr' /\ l = pc'[t]
    OBVIOUS
  <1>2. l \in {"first", "bread", "add", "found", "absent", "lock", "alloc",
               "setup", "zero", "splice", "return"}
    BY <1>1 DEF Watched, Walking, Mapping
  <1>3. seen'[t] = seen[t] \cup {<<j, MapOf(p)[f.iblock + j]>> : j \in 0 .. f.max - 1}
    BY <1>1, <1>2 DEF Watch
  <1> HIDE DEF MapOf
  <1> QED BY <1>1, <1>3

\* What was seen stays seen.
LEMMA SeenKept ==
    ASSUME NEW l, NEW f, NEW s, SeenOK(l, f, s), NEW s2,
           (l \in Watched /\ f.kind # "bmap") => s \subseteq s2
    PROVE  SeenOK(l, f, s2)
  <1>1. CASE l \in Watched /\ f.kind # "bmap"
    <2>1. s \subseteq s2
      BY <1>1
    <2>2. \A first, n : SeenRun(s, first, n) => SeenRun(s2, first, n)
      BY <2>1 DEF SeenRun
    <2> QED BY <2>1, <2>2 DEF SeenOK
  <1>2. CASE ~(l \in Watched /\ f.kind # "bmap")
    <2>1. f.kind # "bmap" => l \notin {"absent", "found", "splice", "return"}
      BY <1>2 DEF Watched, Walking, Mapping
    <2> QED BY <2>1 DEF SeenOK
  <1> QED BY <1>1, <1>2

-----------------------------------------------------------------------------
(***************************************************************************)
(* Pages keep truncations waiting.                                         *)
(***************************************************************************)

\* A step that changes neither the size nor what calls are about.
LEMMA PagesQuiet ==
    ASSUME PageInv, NEW t \in Tasks, Only(t), i_size' = i_size, pc[t] # "pages",
           pc'[t] \in Lookups => pc[t] \in Lookups /\ Goes(t)
    PROVE  PageInv'
  <1>1. \A u \in Tasks : pc[u] = "pages" => pc'[u] = "pages"
    BY DEF Only
  <1>2. ASSUME NEW u \in Tasks, pc'[u] \in Lookups
        PROVE  pc[u] \in Lookups /\ fr'[u].kind = fr[u].kind /\ fr'[u].iblock = fr[u].iblock
    BY <1>2 DEF Only, Goes
  <1> QED BY <1>1, <1>2 DEF PageInv, PageOK

\* A step after which the task is in no lookup.
LEMMA PagesLeft ==
    ASSUME PageInv, NEW t \in Tasks, Only(t), i_size' = i_size, pc[t] # "pages", pc'[t] \notin Lookups
    PROVE  PageInv'
  BY PagesQuiet

\* A step of the unlocked walk, or of the allocation.
LEMMA PagesGo ==
    ASSUME PageInv, NEW t \in Tasks, Only(t), i_size' = i_size, pc[t] \in Lookups, Goes(t)
    PROVE  PageInv'
  <1>1. pc[t] # "pages"
    BY DEF Lookups, Walking, Mapping
  <1> QED BY <1>1, PagesQuiet

\* A call of kr_get_block is for a block below the size, or has a reason not to be.
LEMMA GetBlockPages == ASSUME Inv, MapInv, PageInv, NEW t \in Tasks, GetBlock(t) PROVE PageInv'
  <1>1. PICK kind \in {"read", "bmap", "write", "writepage"}, i \in FileRange, n \in 1 .. MaxRun :
            /\ kind \in {"read", "writepage"} => i < i_size
            /\ fr' = [fr EXCEPT ![t] = [NoCall EXCEPT !.kind = kind, !.iblock = i, !.max = n]]
            /\ pc' = [pc EXCEPT ![t] = "first"] /\ pc[t] = "idle" /\ i_size' = i_size
    BY DEF GetBlock, Goto, Enter, At
  <1>2. PICK g : g = [NoCall EXCEPT !.kind = kind, !.iblock = i, !.max = n]
    OBVIOUS
  <1>3. g.kind = kind /\ g.iblock = i
    BY <1>2 DEF NoCall
  <1>4. Only(t) /\ pc'[t] = "first" /\ fr'[t] = g
    BY <1>1, <1>2, Moved
  <1>5. \A u \in Tasks : pc[u] = "pages" => pc'[u] = "pages"
    BY <1>1, <1>4 DEF Only
  <1>6. ASSUME NEW u \in Tasks PROVE PageOK(pc[u], fr[u])'
    <2>1. CASE u = t
      BY <1>1, <1>3, <1>4, <2>1 DEF PageOK
    <2>2. CASE u # t
      BY <1>1, <1>4, <1>5, <2>2 DEF PageOK, PageInv, Only
    <2> QED BY <2>1, <2>2
  <1> QED BY <1>6 DEF PageInv

\* kr_setsize makes the size smaller and then waits.
LEMMA SetSizePages == ASSUME Inv, MapInv, PageInv, NEW t \in Tasks, SetSize(t) PROVE PageInv'
  <1>1. PICK g : fr' = [fr EXCEPT ![t] = g]
    BY DEF SetSize
  <1>2. Only(t) /\ pc'[t] = "pages"
    BY <1>1, Moved DEF SetSize, Goto
  <1>3. "pages" \notin Lookups
    BY DEF Lookups, Walking, Mapping
  <1>4. ASSUME NEW u \in Tasks PROVE PageOK(pc[u], fr[u])'
    <2>1. CASE u = t
      BY <1>2, <1>3, <2>1 DEF PageOK
    <2>2. CASE u # t
      BY <1>2, <2>2 DEF PageOK, PageInv, Only
    <2> QED BY <2>1, <2>2
  <1> QED BY <1>4 DEF PageInv

\* Who has waited finds no lookup past the size.
LEMMA WaitForPagesPages == ASSUME Inv, MapInv, PageInv, NEW t \in Tasks, WaitForPages(t) PROVE PageInv'
  <1>1. /\ pc[t] = "pages" /\ pc' = [pc EXCEPT ![t] = "truncate"] /\ fr' = fr /\ i_size' = i_size
        /\ \A u \in Tasks, i \in fr[t].size .. LastBlock : ~Locks(u, i)
    BY DEF WaitForPages, At, Goto
  <1>2. fr = [fr EXCEPT ![t] = fr[t]]
    BY PathFacts DEF Inv, Typed
  <1>3. Only(t) /\ pc'[t] = "truncate"
    BY <1>1, <1>2, Moved
  <1>4. fr[t].size = i_size /\ i_size \in Nat
    BY <1>1, CutSize DEF Cuts
  <1>5. "truncate" \notin Lookups
    BY DEF Lookups, Walking, Mapping
  <1>6. ASSUME NEW u \in Tasks PROVE PageOK(pc[u], fr[u])'
    <2>1. CASE u = t
      BY <1>3, <1>5, <2>1 DEF PageOK
    <2>2. CASE u # t
      <3>1. pc'[u] = pc[u] /\ fr'[u] = fr[u]
        BY <1>3, <2>2 DEF Only
      <3>2. ASSUME pc[u] \in Lookups, fr[u].kind \in {"read", "writepage"} PROVE fr[u].iblock < i_size
        <4>1. fr[u].iblock \in FileRange
          BY PathFacts, FrameFields
        <4>2. pc[u] \notin {"idle", "pages", "truncate", "shared", "free"}
          BY <3>2 DEF Lookups, Walking, Mapping
        <4>3. Locks(u, fr[u].iblock)
          BY <3>2, <4>2 DEF Locks
        <4>4. fr[u].iblock \notin i_size .. LastBlock
          BY <1>1, <1>4, <4>3
        <4> QED BY <1>4, <4>1, <4>4, MapAssumption DEF FileRange
      <3>3. PageOK(pc[u], fr[u])
        BY DEF PageInv
      <3> QED BY <1>1, <3>1, <3>2, <3>3 DEF PageOK
    <2> QED BY <2>1, <2>2
  <1> QED BY <1>6 DEF PageInv

\* A write does not make the size smaller.
LEMMA WriteEndPages == ASSUME Inv, MapInv, PageInv, NEW t \in Tasks, WriteEnd(t) PROVE PageInv'
  <1>1. PICK f \in Frames : f = fr[t]
    BY PathFacts
  <1>2. pc[t] = "written" /\ i_size \in 0 .. LastBlock + 1 /\ f.iblock \in Nat /\ f.count \in Nat
    <2>1. f.iblock \in FileRange /\ f.count \in Nat
      BY FrameFields
    <2> QED BY <1>1, <2>1, TaskFacts, MapAssumption DEF WriteEnd, At, FileRange
  <1>30. PICK l \in {"idle", "truncate"} : \E g : fr' = [fr EXCEPT ![t] = g] /\ pc' = [pc EXCEPT ![t] = l]
    BY Zenon DEF WriteEnd, Goto
  <1>3. PICK g : fr' = [fr EXCEPT ![t] = g] /\ pc' = [pc EXCEPT ![t] = l]
    BY <1>30
  <1>4. Only(t) /\ pc'[t] = l
    BY <1>3, Moved
  <1>5. i_size' \in Int /\ i_size' >= i_size
    <2>1. CASE i_size' = i_size
      BY <1>2, <2>1
    <2>2. CASE i_size' = Max({i_size, f.iblock + f.count})
      <3>1. PICK a \in Nat, b \in Nat : a = i_size /\ b = f.iblock + f.count
        BY <1>2
      <3>2. {a, b} \in SUBSET (0 .. a + b) /\ {a, b} # {} /\ a + b \in Nat
        OBVIOUS
      <3>3. Max({a, b}) \in {a, b} /\ \A m \in {a, b} : Max({a, b}) >= m
        BY <3>2, MaxIsGreatest
      <3>4. i_size' = Max({a, b})
        BY <2>2, <3>1
      <3>5. PICK c : c = Max({a, b})
        OBVIOUS
      <3>6. c \in {a, b} /\ c >= a
        BY ONLY <3>3, <3>5
      <3> QED BY <3>1, <3>4, <3>5, <3>6
    <2> QED BY <1>1, <2>1, <2>2 DEF WriteEnd
  <1>6. \A u \in Tasks : pc[u] = "pages" => pc'[u] = "pages"
    BY <1>2, <1>4 DEF Only
  <1>7. l \notin Lookups
    BY DEF Lookups, Walking, Mapping
  <1>8. ASSUME NEW u \in Tasks PROVE PageOK(pc[u], fr[u])'
    <2>1. CASE u = t
      BY <1>4, <1>7, <2>1 DEF PageOK
    <2>2. CASE u # t
      <3>1. pc'[u] = pc[u] /\ fr'[u] = fr[u]
        BY <1>4, <2>2 DEF Only
      <3>2. fr[u].iblock \in Int
        BY PathFacts, FrameFields, MapAssumption DEF FileRange
      <3>3. fr[u].iblock < i_size => fr[u].iblock < i_size'
        BY <1>2, <1>5, <3>2
      <3> QED BY <1>6, <3>1, <3>3 DEF PageOK, PageInv
    <2> QED BY <2>1, <2>2
  <1> QED BY <1>8 DEF PageInv

\* Nobody else uses an inode that is evicted.
LEMMA EvictPages == ASSUME Inv, MapInv, PageInv, NEW t \in Tasks, Evict(t) PROVE PageInv'
  <1>1. \A u \in Tasks : pc[u] = "idle"
    BY DEF Evict, At
  <1>2. \A u \in Tasks : pc'[u] \in {"idle", "truncate"}
    <2>1. DOMAIN pc = Tasks
      BY PathFacts
    <2> QED BY <1>1, <2>1 DEF Evict, Goto
  <1>3. "idle" \notin Lookups /\ "truncate" \notin Lookups
    BY DEF Lookups, Walking, Mapping
  <1>4. ASSUME NEW u \in Tasks PROVE PageOK(pc[u], fr[u])'
    BY <1>2, <1>3 DEF PageOK
  <1> QED BY <1>4 DEF PageInv

-----------------------------------------------------------------------------
(***************************************************************************)
(* What a step of one task leaves of what the others know.                 *)
(***************************************************************************)

\* The chains that other tasks are about to add to stay good.
Spares ==
    \A u \in Tasks : (pc[u] = "add" /\ fr[u].kind # "bmap" /\ Holds(ptr, fr[u].chain)) =>
        Holds(ptr', fr[u].chain)

\* A step of one task that keeps its part of LookInv keeps all of it.
LEMMA LookStep ==
    ASSUME Inv, LookInv, Watch, NEW t \in Tasks, Only(t), Spares, ptr' = ptr \/ mutex \in {t, None},
           AddOK(ptr', pc'[t], fr'[t]), LandOK(ptr', pc'[t], fr'[t]), SeenOK(pc'[t], fr'[t], seen'[t])
    PROVE  LookInv'
  <1>1. ASSUME NEW u \in Tasks \ {t}
        PROVE  /\ AddOK(ptr', pc'[u], fr'[u]) /\ LandOK(ptr', pc'[u], fr'[u])
               /\ SeenOK(pc'[u], fr'[u], seen'[u])
    <2>1. /\ AddOK(ptr, pc[u], fr[u]) /\ LandOK(ptr, pc[u], fr[u]) /\ SeenOK(pc[u], fr[u], seen[u])
          /\ pc'[u] = pc[u] /\ fr'[u] = fr[u]
      BY <1>1 DEF LookInv, Only
    <2>2. AddOK(ptr', pc[u], fr[u])
      BY <1>1, <2>1 DEF AddOK, Spares
    <2>3. LandOK(ptr', pc[u], fr[u])
      <3>1. CASE ptr' = ptr
        BY <2>1, <3>1
      <3>2. CASE mutex \in {t, None}
        <4>1. pc[u] \notin Holding
          BY <1>1, <3>2, MapAssumption DEF Inv, Exclusive
        <4>2. pc[u] \notin {"alloc", "setup", "zero", "splice"}
          BY <4>1 DEF Holding, Mapping, Cutting
        <4> QED BY ONLY <4>2 DEF LandOK
      <3> QED BY <3>1, <3>2
    <2>4. (pc[u] \in Watched /\ fr[u].kind # "bmap") => seen[u] \subseteq seen'[u]
      BY <1>1, <2>1, WatchFacts
    <2>5. SeenOK(pc[u], fr[u], seen'[u])
      BY <2>1, <2>4, SeenKept
    <2> QED BY <2>1, <2>2, <2>3, <2>5
  <1>2. \A u \in Tasks :
            /\ AddOK(ptr', pc'[u], fr'[u]) /\ LandOK(ptr', pc'[u], fr'[u])
            /\ SeenOK(pc'[u], fr'[u], seen'[u])
    BY <1>1
  <1> HIDE DEF AddOK, LandOK, SeenOK
  <1> QED BY <1>2 DEF LookInv

\* A step that stores no pointer.
LEMMA QuietLook ==
    ASSUME Inv, LookInv, Watch, NEW t \in Tasks, Only(t), ptr' = ptr,
           AddOK(ptr, pc'[t], fr'[t]), LandOK(ptr, pc'[t], fr'[t]), SeenOK(pc'[t], fr'[t], seen'[t])
    PROVE  LookInv'
  <1>1. Spares
    BY DEF Spares
  <1>2. AddOK(ptr', pc'[t], fr'[t]) /\ LandOK(ptr', pc'[t], fr'[t])
    BY ONLY ptr' = ptr, AddOK(ptr, pc'[t], fr'[t]), LandOK(ptr, pc'[t], fr'[t])
  <1> QED BY <1>1, <1>2, LookStep

\* A task that is in no lookup has no part in LookInv.
LEMMA OutsideOK ==
    ASSUME NEW l, l \notin Watched, NEW f, NEW p, NEW s
    PROVE  AddOK(p, l, f) /\ LandOK(p, l, f) /\ SeenOK(l, f, s)
  <1>1. l \notin Walking /\ l \notin {"alloc", "setup", "zero", "splice", "add", "absent", "found", "return"}
    BY DEF Watched, Walking, Mapping
  <1>2. AddOK(p, l, f)
    BY <1>1 DEF AddOK
  <1>3. LandOK(p, l, f)
    BY ONLY <1>1 DEF LandOK
  <1>4. SeenOK(l, f, s)
    BY ONLY <1>1 DEF SeenOK
  <1> QED BY <1>2, <1>3, <1>4

\* The steps after which the task is in no lookup.
LEMMA OutsideLook ==
    ASSUME Inv, LookInv, Watch, NEW t \in Tasks, Only(t), Spares, ptr' = ptr \/ mutex \in {t, None},
           pc'[t] \notin Watched
    PROVE  LookInv'
  <1>1. PICK p, l, f, s : p = ptr' /\ l = pc'[t] /\ f = fr'[t] /\ s = seen'[t]
    OBVIOUS
  <1>2. AddOK(p, l, f) /\ LandOK(p, l, f) /\ SeenOK(l, f, s)
    BY <1>1, OutsideOK
  <1> QED BY <1>1, <1>2, LookStep

\* The facts LookInv has of one task.
LEMMA LookFacts ==
    ASSUME LookInv, NEW t \in Tasks
    PROVE  AddOK(ptr, pc[t], fr[t]) /\ LandOK(ptr, pc[t], fr[t]) /\ SeenOK(pc[t], fr[t], seen[t])
  BY DEF LookInv

\* Chains that are good where the tree is: their blocks are in it.
LEMMA GoodChain ==
    ASSUME Inv, NEW lev, Tree(ptr, lev), NEW t \in Tasks, pc[t] = "add", Holds(ptr, fr[t].chain)
    PROVE  \A j \in 1 .. Len(fr[t].chain) :
              /\ fr[t].chain[j].bh \in Nodes /\ Leads(lev, fr[t].chain[j].bh)
              /\ fr[t].chain[j].off \in Slots(fr[t].chain[j].bh)
              /\ fr[t].chain[j].key # 0
              /\ Passes(ptr, fr[t].iblock, fr[t].chain[j].bh, fr[t].chain[j].off)
  <1>1. PICK path, c : path = Path(t) /\ c = fr[t].chain
    OBVIOUS
  <1>2. IsPath(path) /\ path = Offsets(fr[t].iblock) /\ LocalOK("add", fr[t])
    BY <1>1, PathFacts
  <1>3. Threaded(path, c) /\ c[Len(c)].key # 0
    BY <1>1, <1>2 DEF LocalOK, Walking, LastKey
  <1>4. \A j \in 1 .. Len(c) : Edge(ptr, lev, path, j, c[j].bh)
    BY <1>1, <1>2, <1>3, ChainEdges, VerifiedHolds
  <1>5. PICK n \in 1 .. 4 : Len(path) = n
    BY <1>2 DEF IsPath
  <1>60. Holds(ptr, c)
    BY <1>1
  <1>61. Follows(ptr, path, c)
    BY <1>3, <1>5, <1>60, ChainWalk
  <1>6. \A j \in 1 .. Len(c) : Parent(Walk(path, ptr), j) = c[j].bh
    BY <1>61 DEF Follows
  <1>7. PICK m \in 1 .. n : m = Len(c)
    BY <1>3, <1>5 DEF Threaded
  <1> SUFFICES ASSUME NEW j \in 1 .. m
               PROVE  /\ c[j].bh \in Nodes /\ Leads(lev, c[j].bh) /\ c[j].off \in Slots(c[j].bh)
                      /\ c[j].key # 0 /\ Passes(ptr, fr[t].iblock, c[j].bh, c[j].off)
    BY <1>1, <1>7
  <1>8. c[j].off = path[j] /\ c[j].key # 0
    <2>1. j = m \/ j \in 1 .. m - 1
      OBVIOUS
    <2> QED BY <1>3, <1>7, <2>1 DEF Threaded
  <1>9. Passes(ptr, fr[t].iblock, c[j].bh, c[j].off)
    BY <1>2, <1>5, <1>6, <1>7, <1>8 DEF Passes
  <1> QED BY <1>4, <1>7, <1>8, <1>9 DEF Edge

\* Pointers that are added take nothing from them.
LEMMA ExtendsSpares ==
    ASSUME Inv, NEW lev, Tree(ptr, lev), NEW q, q = ptr', Extends(ptr, lev, q)
    PROVE  Spares
  <1> SUFFICES ASSUME NEW u \in Tasks, pc[u] = "add", Holds(ptr, fr[u].chain),
                      NEW j \in 1 .. Len(fr[u].chain)
               PROVE  q[fr[u].chain[j].bh][fr[u].chain[j].off] = fr[u].chain[j].key
    BY DEF Spares, Holds
  <1>1. PICK w : w = fr[u].chain[j]
    OBVIOUS
  <1>2. w.bh \in Nodes /\ Leads(lev, w.bh) /\ w.off \in Slots(w.bh) /\ w.key # 0
    BY <1>1, GoodChain
  <1>3. ptr[w.bh][w.off] = w.key
    BY <1>1 DEF Holds
  <1> QED BY <1>1, <1>2, <1>3 DEF Extends

\* A truncation that takes a pointer away from which only blocks past the size are found
\* meets none of them: the page of each such lookup is below the size, or the truncation waits.
LEMMA ClearSpares ==
    ASSUME Inv, MapInv, PageInv, NEW lev, Tree(ptr, lev), NEW t \in Tasks, pc[t] = "free",
           NEW x \in Nodes, NEW o \in Slots(x), NEW q, q = ptr', q = Store(ptr, x, o, 0),
           Past(ptr, x, o, i_size)
    PROVE  Spares
  <1> SUFFICES ASSUME NEW u \in Tasks, pc[u] = "add", fr[u].kind # "bmap", Holds(ptr, fr[u].chain),
                      NEW j \in 1 .. Len(fr[u].chain)
               PROVE  q[fr[u].chain[j].bh][fr[u].chain[j].off] = fr[u].chain[j].key
    BY DEF Spares, Holds
  <1>1. PICK w : w = fr[u].chain[j]
    OBVIOUS
  <1>2. /\ w.bh \in Nodes /\ w.off \in Slots(w.bh) /\ ptr[w.bh][w.off] = w.key
        /\ Passes(ptr, fr[u].iblock, w.bh, w.off)
    BY <1>1, GoodChain DEF Holds
  <1>3. fr[u].iblock \in FileRange
    BY PathFacts, FrameFields
  <1>4. ~(fr[u].iblock >= i_size)
    <2>1. /\ SizedOK(t, "free", fr[t], i_size, rwsem, deleted)
          /\ SizedOK(u, "add", fr[u], i_size, rwsem, deleted) /\ i_size \in 0 .. LastBlock + 1
      BY TaskFacts
    <2>2. ~deleted /\ rwsem = t /\ u # t
      BY <2>1 DEF SizedOK, Cuts, Lookups, Walking
    <2>3. fr[u].kind # "write"
      BY <2>1, <2>2 DEF SizedOK, Lookups, Walking
    <2>4. PageOK("add", fr[u])
      BY DEF PageInv
    <2>5. ASSUME NEW v \in Tasks, pc[v] = "pages" PROVE FALSE
      <3>1. SizedOK(v, "pages", fr[v], i_size, rwsem, deleted)
        BY <2>5, TaskFacts
      <3>2. v = t
        BY <2>2, <3>1 DEF SizedOK, Cuts
      <3> QED BY <2>5, <3>2
    <2>6. fr[u].iblock < i_size
      BY <2>3, <2>4, <2>5 DEF PageOK, Lookups, Walking
    <2> QED BY <1>3, <2>1, <2>6, MapAssumption DEF FileRange
  <1>5. ~(w.bh = x /\ w.off = o)
    BY <1>2, <1>3, <1>4 DEF Past
  <1>6. \A y \in Nodes : \A r \in Slots(y) : q[y][r] = IF y = x /\ r = o THEN 0 ELSE ptr[y][r]
    <2>1. IsPointers(ptr) /\ 0 \in 0 .. NBlocks
      BY MapAssumption DEF Tree
    <2> QED BY <2>1, Stored
  <1> QED BY <1>1, <1>2, <1>5, <1>6

-----------------------------------------------------------------------------
(***************************************************************************)
(* The walk without a lock.                                                *)
(***************************************************************************)

\* What a chain that is good says of the block it leads to.
LEMMA ChainMapped ==
    ASSUME NEW p, NEW i \in FileRange, NEW c, Threaded(Offsets(i), c), Holds(p, c)
    PROVE  /\ c[Len(c)].key = 0 => MapOf(p)[i] = 0
           /\ Len(c) = Len(Offsets(i)) => MapOf(p)[i] = c[Len(c)].key
  <1>1. PICK path : path = Offsets(i)
    OBVIOUS
  <1>2. PICK n \in 1 .. 4 : Len(path) = n
    BY <1>1, OffsetsAreFound DEF IsPath
  <1>3. MapOf(p)[i] = Walk(path, p)[n]
    BY <1>1, <1>2, MapAt
  <1>4. PICK m \in 1 .. n : m = Len(c)
    BY <1>1, <1>2 DEF Threaded
  <1>5. Walk(path, p)[m] = c[m].key
    <2>1. m \in 1 .. Len(c)
      BY <1>4
    <2>0. Threaded(path, c)
      BY <1>1
    <2>2. Follows(p, path, c)
      BY <1>2, <2>0, ChainWalk
    <2> QED BY <2>1, <2>2 DEF Follows
  <1>6. Walk(path, p)[n] # 0 => Walk(path, p)[m] # 0
    <2>1. ASSUME Walk(path, p)[n] # 0 PROVE Walk(path, p)[m] # 0
      <3>1. FoundUpTo(p, path, n)
        <4>1. n \in 1 .. n
          OBVIOUS
        <4> QED BY <1>2, <2>1, <4>1, WalkThrough
      <3> QED BY <3>1 DEF FoundUpTo
    <2> QED BY <2>1
  <1> QED BY <1>1, <1>2, <1>3, <1>4, <1>5, <1>6

\* What the map says of the first block after a step, the call about it has seen.
LEMMA SeenNow ==
    ASSUME Watch, NEW t \in Tasks, pc'[t] \in Watched, NEW f, fr'[t] = f, f.kind # "bmap",
           f.iblock \in FileRange, f.max \in Nat \ {0}, NEW p, p = ptr'
    PROVE  <<0, MapOf(p)[f.iblock]>> \in seen'[t]
  <1>1. \A j \in 0 .. f.max - 1 : <<j, MapOf(p)[f.iblock + j]>> \in seen'[t]
    BY WatchFacts
  <1>2. 0 \in 0 .. f.max - 1 /\ f.iblock + 0 = f.iblock
    BY MapAssumption DEF FileRange
  <1> HIDE DEF MapOf
  <1> QED BY <1>1, <1>2

\* A link that is added to a good chain.
LEMMA LinkLook ==
    ASSUME Inv, Inv', PageInv, LookInv, Watch, NEW t \in Tasks, pc[t] \in {"first", "add"}, NEW c,
           fr[t].kind # "bmap" => Holds(ptr, c),
           fr' = [fr EXCEPT ![t].chain = c], Goto(t, AfterLink(c, Len(Path(t)))), ptr' = ptr, Still
    PROVE  PageInv' /\ LookInv'
  <1>1. PICK f \in Frames : f = fr[t] /\ DOMAIN fr = Tasks
    BY PathFacts
  <1>2. PICK g : g = [f EXCEPT !.chain = c]
    OBVIOUS
  <1>3. /\ g.kind = f.kind /\ g.iblock = f.iblock /\ g.max = f.max /\ g.count = f.count
        /\ g.chain = c /\ g.err = f.err
    BY <1>2 DEF Frames
  <1>4. f.iblock \in FileRange /\ f.max \in Nat \ {0}
    BY FrameFields
  <1>5. PICK path, n : path = Path(t) /\ n = Len(path) /\ path = Offsets(f.iblock)
    BY <1>1, PathFacts
  <1>6. PICK l : l = AfterLink(c, n)
    OBVIOUS
  <1>7. /\ l \in {"absent", "found", "bread"}
        /\ l = "absent" => c[Len(c)].key = 0
        /\ l = "found" => c[Len(c)].key # 0 /\ Len(c) = n
    BY <1>6 DEF AfterLink
  <1>8. fr' = [fr EXCEPT ![t] = g] /\ pc' = [pc EXCEPT ![t] = l]
    BY <1>1, <1>2, <1>5, <1>6 DEF Goto
  <1>9. Only(t) /\ pc'[t] = l /\ fr'[t] = g
    BY <1>8, Moved
  <1>10. Threaded(path, c)
    <2>1. LocalOK(l, g)
      BY <1>9 DEF Inv
    <2> QED BY <1>3, <1>5, <1>7, <2>1 DEF LocalOK, Walking
  <1>11. f.count = 0
    <2>1. SeenOK(pc[t], f, seen[t])
      BY <1>1, LookFacts
    <2> QED BY <2>1 DEF SeenOK, Walking
  <1>12. SeenOK(l, g, seen'[t])
    <2>1. ASSUME g.kind # "bmap", l \in {"absent", "found"} PROVE <<0, c[Len(c)].key>> \in seen'[t]
      <3>1. <<0, MapOf(ptr)[f.iblock]>> \in seen'[t]
        BY <1>3, <1>4, <1>7, <1>9, <2>1, SeenNow DEF Watched, Walking
      <3>2. MapOf(ptr)[f.iblock] = c[Len(c)].key
        BY <1>1, <1>3, <1>4, <1>5, <1>7, <1>10, <2>1, ChainMapped
      <3> HIDE DEF MapOf
      <3> QED BY <3>1, <3>2
    <2>2. l \notin {"splice", "return"}
      BY <1>7
    <2>3. ASSUME l = "found", g.kind # "bmap" PROVE SeenRun(seen'[t], LastKey(g), 1)
      <3> SUFFICES ASSUME NEW j \in 0 .. 1 - 1 PROVE <<j, c[Len(c)].key + j>> \in seen'[t]
        BY <1>3 DEF SeenRun, LastKey
      <3>1. c[Len(c)].key \in Int
        <4>1. g \in Frames
          BY <1>9 DEF Inv, Typed
        <4>2. c \in Seq(Links)
          BY <1>3, <4>1, FrameFields
        <4>3. Len(c) \in 1 .. Len(c)
          BY <1>10, <4>2 DEF Threaded
        <4>4. c[Len(c)] \in Links
          BY <4>2, <4>3
        <4> QED BY <4>4, MapAssumption DEF Links
      <3>2. j = 0 /\ c[Len(c)].key + j = c[Len(c)].key
        BY <3>1
      <3> QED BY <2>1, <2>3, <3>2
    <2>4. (l = "absent" /\ g.kind # "bmap") => <<0, 0>> \in seen'[t]
      BY <1>7, <2>1
    <2> QED BY <1>3, <1>5, <1>7, <1>11, <2>2, <2>3, <2>4 DEF SeenOK, LastKey
  <1>13. AddOK(ptr, l, g) /\ LandOK(ptr, l, g)
    <2>1. l \notin {"add", "alloc", "setup", "zero", "splice"}
      BY <1>7
    <2>2. AddOK(ptr, l, g)
      BY <2>1 DEF AddOK
    <2>3. LandOK(ptr, l, g)
      BY ONLY <2>1 DEF LandOK
    <2> QED BY <2>2, <2>3
  <1>14. LookInv'
    BY <1>9, <1>12, <1>13, QuietLook
  <1>15. PageInv'
    BY <1>1, <1>3, <1>9, PagesGo DEF Still, Goes, Lookups, Walking
  <1> QED BY <1>14, <1>15

\* add_chain for the slot of i_data.
LEMMA FirstLinkLook ==
    ASSUME Inv, Inv', PageInv, LookInv, Watch, NEW t \in Tasks, FirstLink(t)
    PROVE  PageInv' /\ LookInv'
  <1>1. PICK c : /\ c = <<Link(Inode, Path(t)[1])>>
                 /\ fr' = [fr EXCEPT ![t].chain = c] /\ Goto(t, AfterLink(c, Len(Path(t))))
    BY DEF FirstLink
  <1>2. pc[t] = "first" /\ ptr' = ptr /\ Still
    BY DEF FirstLink, At, Still, disk, locks
  <1>3. Holds(ptr, c)
    <2>1. Len(c) = 1 /\ c[1] = Link(Inode, Path(t)[1])
      BY <1>1
    <2> QED BY <2>1 DEF Holds, Link
  <1> QED BY <1>1, <1>2, <1>3, LinkLook

\* add_chain for a slot of the block read: the chain is still the one that was verified.
LEMMA AddLinkLook ==
    ASSUME Inv, Inv', PageInv, LookInv, Watch, NEW t \in Tasks, AddLink(t)
    PROVE  PageInv' /\ LookInv'
  <1>1. PICK old : old = fr[t].chain
    OBVIOUS
  <1>2. PICK new : new = Link(old[Len(old)].key, Path(t)[Len(old) + 1])
    OBVIOUS
  <1>3. PICK c : /\ c = Append(old, new)
                 /\ fr' = [fr EXCEPT ![t].chain = c] /\ Goto(t, AfterLink(c, Len(Path(t))))
    BY <1>1, <1>2 DEF AddLink
  <1>4. pc[t] = "add" /\ ptr' = ptr /\ Still
    BY DEF AddLink, At, Still, disk, locks
  <1>5. ASSUME fr[t].kind # "bmap" PROVE Holds(ptr, c)
    <2>1. Holds(ptr, old)
      BY <1>1, <1>4, <1>5, LookFacts DEF AddOK
    <2>2. old \in Seq(Links)
      BY <1>1, PathFacts, FrameFields
    <2>3. PICK m \in Nat : m = Len(old)
      BY <2>2
    <2>4. Len(c) = m + 1 /\ c[m + 1] = new /\ \A j \in 1 .. m : c[j] = old[j]
      <3>1. \A S, x : x \in S => \A s \in Seq(S) : Len(Append(s, x)) = Len(s) + 1 /\ Append(s, x)[Len(s) + 1] = x
                                  /\ \A j \in 1 .. Len(s) : Append(s, x)[j] = s[j]
        OBVIOUS
      <3>2. old \in Seq(Links \cup {new}) /\ new \in Links \cup {new}
        BY <2>2
      <3> QED BY <1>3, <2>3, <3>1, <3>2
    <2>5. ptr[new.bh][new.off] = new.key
      BY <1>2 DEF Link
    <2> SUFFICES ASSUME NEW j \in 1 .. m + 1 PROVE ptr[c[j].bh][c[j].off] = c[j].key
      BY <2>4 DEF Holds
    <2>6. j = m + 1 \/ j \in 1 .. m
      OBVIOUS
    <2> QED BY <2>1, <2>3, <2>4, <2>5, <2>6 DEF Holds
  <1> QED BY <1>3, <1>4, <1>5, LinkLook

\* sb_bread of the next block, and verify_chain.
LEMMA BreadLook ==
    ASSUME ~IOErrors, Inv, PageInv, LookInv, Watch, NEW t \in Tasks, Bread(t)
    PROVE  PageInv' /\ LookInv'
  <1>1. pc[t] = "bread" /\ ptr' = ptr /\ Still
    BY DEF Bread, At, Still, disk, locks
  <1>2. PICK f \in Frames : f = fr[t] /\ DOMAIN fr = Tasks /\ fr = [fr EXCEPT ![t] = f]
    BY PathFacts DEF Inv, Typed
  <1>3. f.count = 0 /\ f.err = ""
    <2>1. SeenOK("bread", f, seen[t]) /\ LocalOK("bread", f)
      BY <1>1, <1>2, LookFacts, PathFacts
    <2> QED BY <2>1 DEF SeenOK, LocalOK, Walking
  <1>4. CASE fr' = [fr EXCEPT ![t].err = "EAGAIN"] /\ Goto(t, "absent")
    <2>1. PICK g : g = [f EXCEPT !.err = "EAGAIN"]
      OBVIOUS
    <2>2. g.kind = f.kind /\ g.iblock = f.iblock /\ g.max = f.max /\ g.count = f.count /\ g.err = "EAGAIN"
      BY <2>1 DEF Frames
    <2>3. Only(t) /\ pc'[t] = "absent" /\ fr'[t] = g
      BY <1>2, <1>4, <2>1, Moved DEF Goto
    <2>4. AddOK(ptr, "absent", g) /\ LandOK(ptr, "absent", g) /\ SeenOK("absent", g, seen'[t])
      BY <1>3, <2>2 DEF AddOK, LandOK, SeenOK
    <2>5. PageInv'
      BY <1>1, <1>2, <2>2, <2>3, PagesGo DEF Still, Goes, Lookups, Walking
    <2> QED BY <1>1, <2>3, <2>4, <2>5, QuietLook
  <1>5. CASE verify_chain(f.chain) /\ fr' = fr /\ Goto(t, "add")
    <2>1. Only(t) /\ pc'[t] = "add" /\ fr'[t] = f
      BY <1>2, <1>5, Moved DEF Goto
    <2>2. AddOK(ptr, "add", f)
      BY <1>5, VerifiedHolds DEF AddOK
    <2>3. LandOK(ptr, "add", f) /\ SeenOK("add", f, seen'[t])
      BY <1>3 DEF LandOK, SeenOK
    <2>4. PageInv'
      BY <1>1, <1>2, <2>1, PagesGo DEF Still, Goes, Lookups, Walking
    <2> QED BY <1>1, <2>1, <2>2, <2>3, <2>4, QuietLook
  <1> QED BY <1>2, <1>4, <1>5 DEF Bread

\* The end of a lookup that found a hole.
LEMMA AbsentLook ==
    ASSUME Inv, PageInv, LookInv, Watch, NEW t \in Tasks, Absent(t)
    PROVE  PageInv' /\ LookInv'
  <1>1. pc[t] = "absent" /\ ptr' = ptr /\ Still /\ fr' = fr
    BY DEF Absent, At, Still, disk, locks
  <1>2. PICK f \in Frames : f = fr[t] /\ DOMAIN fr = Tasks /\ fr = [fr EXCEPT ![t] = f]
    BY PathFacts DEF Inv, Typed
  <1>3. PICK l \in {"return", "lock"} : pc' = [pc EXCEPT ![t] = l]
    BY DEF Absent, Goto
  <1>4. Only(t) /\ pc'[t] = l /\ fr'[t] = f
    BY <1>1, <1>2, <1>3, Moved
  <1>5. SeenOK("absent", f, seen[t])
    BY <1>1, <1>2, LookFacts
  <1>6. f.count = 0 /\ ((f.kind # "bmap" /\ f.err = "") => <<0, 0>> \in seen[t])
    BY <1>5 DEF SeenOK, Walking
  <1>7. f.kind # "bmap" => seen[t] \subseteq seen'[t]
    BY <1>4, WatchFacts DEF Watched, Walking
  <1>8. SeenOK(l, f, seen'[t])
    <2>1. (f.kind # "bmap" /\ f.err = "") => <<0, 0>> \in seen'[t]
      BY <1>6, <1>7
    <2> QED BY <1>6, <2>1 DEF SeenOK
  <1>9. AddOK(ptr, l, f) /\ LandOK(ptr, l, f)
    BY DEF AddOK, LandOK
  <1>10. PageInv'
    BY <1>1, <1>2, <1>4, PagesGo DEF Still, Goes, Lookups, Walking
  <1> QED BY <1>1, <1>4, <1>8, <1>9, <1>10, QuietLook

\* The blocks a call is about are blocks of the file.
LEMMA WithinCall ==
    ASSUME NEW f \in Frames, NEW d \in Nat, d < f.max, f.iblock + f.max - 1 <= LastBlock,
           NEW b \in Nat, b = boundary(PtrBits, f.iblock), d <= b
    PROVE  Within(f.iblock, d)
  <1>1. f.iblock \in FileRange /\ f.max \in Nat
    BY FrameFields
  <1>2. f.iblock + d \in FileRange
    BY <1>1, MapAssumption DEF FileRange
  <1> QED BY <1>2 DEF Within

\* The count of the blocks that follow: each is looked at while the chain is good.
LEMMA MapMoreLook ==
    ASSUME Inv, MapInv, PageInv, LookInv, Watch, NEW t \in Tasks, MapMore(t)
    PROVE  PageInv' /\ LookInv'
  <1>1. pc[t] = "found" /\ ptr' = ptr /\ Still
    BY DEF MapMore, At, Still, disk, locks
  <1>2. PICK f \in Frames : f = fr[t] /\ DOMAIN fr = Tasks
    BY PathFacts
  <1>3. f.count \in Nat /\ f.max \in Nat \ {0} /\ f.iblock \in FileRange /\ f.chain \in Seq(Links)
    BY FrameFields
  <1>4. SeenOK("found", f, seen[t]) /\ LocalOK("found", f)
    BY <1>1, <1>2, LookFacts, PathFacts
  <1>50. PICK path : path = Offsets(f.iblock)
    OBVIOUS
  <1>5. PICK n \in 1 .. 4 : path = Offsets(f.iblock) /\ Len(path) = n
    BY <1>2, <1>50, PathFacts
  <1>6. Len(f.chain) = n /\ LastKey(f) # 0 /\ Threaded(path, f.chain) /\ f.iblock + f.max - 1 <= LastBlock
    BY <1>4, <1>5 DEF SeenOK, LocalOK, Walking
  <1>7. PICK w \in Links : w = f.chain[n]
    <2>1. n \in 1 .. Len(f.chain)
      BY <1>6
    <2> QED BY <1>3, <2>1
  <1>8. LastKey(f) = w.key /\ w.off = path[n] /\ w.bh # 0 /\ w.off \in Nat /\ w.key \in Nat
    <2>1. n \in 1 .. Len(f.chain) /\ (n = 1 \/ (n - 1 \in 1 .. Len(f.chain) - 1 /\ (n - 1) + 1 = n))
      BY <1>6
    <2>2. w.bh # 0
      BY <1>6, <1>7, <2>1, NodeFacts DEF Threaded
    <2>3. w.off \in Nat /\ w.key \in Nat
      BY MapAssumption DEF Links
    <2> QED BY <1>6, <1>7, <2>1, <2>2, <2>3 DEF Threaded, LastKey
  <1>9. PICK m \in Nat : m = IF f.count = 0 THEN 1 ELSE f.count
    BY <1>3
  <1>10. f.kind # "bmap" => SeenRun(seen[t], w.key, m)
    BY <1>4, <1>8, <1>9 DEF SeenOK
  <1>b. PICK b \in Nat : b = boundary(PtrBits, f.iblock)
    BY <1>3, <1>5, BoundaryFacts
  <1>11. PICK x, l, e, h :
            /\ fr' = [fr EXCEPT ![t].count = x, ![t].err = e, ![t].whole = h] /\ pc' = [pc EXCEPT ![t] = l]
            /\ \/ x = 0 /\ l = "absent" /\ e = "EAGAIN"
               \/ /\ x = m + 1 /\ l = "found" /\ e = "" /\ m < f.max /\ m <= b
                  /\ Holds(ptr, f.chain) /\ ptr[w.bh][w.off + m] = w.key + m
               \/ x = m /\ l = "return" /\ e = ""
    <2> DEFINE more == m < f.max /\ m <= b
               changed == more /\ ~verify_chain(f.chain)
               next == more /\ ~changed /\ ptr[w.bh][w.off + m] = w.key + m
               x == IF changed THEN 0 ELSE IF next THEN m + 1 ELSE m
               l == IF changed THEN "absent" ELSE IF next THEN "found" ELSE "return"
               e == IF changed THEN "EAGAIN" ELSE ""
    <2>1. f.chain[Len(f.chain)] = w
      BY <1>6, <1>7
    <2>2. fr' = [fr EXCEPT ![t].count = x, ![t].err = e, ![t].whole = changed] /\ pc' = [pc EXCEPT ![t] = l]
      BY <1>b, <1>2, <1>9, <2>1 DEF MapMore, Goto
    <2>3. \/ x = 0 /\ l = "absent" /\ e = "EAGAIN"
          \/ /\ x = m + 1 /\ l = "found" /\ e = "" /\ m < f.max /\ m <= b
             /\ Holds(ptr, f.chain) /\ ptr[w.bh][w.off + m] = w.key + m
          \/ x = m /\ l = "return" /\ e = ""
      BY VerifiedHolds
    <2> HIDE DEF x, l, e, changed, next, more
    <2> QED BY <2>2, <2>3
  <1>12. PICK g : g = [f EXCEPT !.count = x, !.err = e, !.whole = h]
    OBVIOUS
  <1>120. fr' = [fr EXCEPT ![t] = g]
    BY <1>2, <1>11, <1>12
  <1>13. /\ g.kind = f.kind /\ g.iblock = f.iblock /\ g.max = f.max /\ g.count = x
         /\ g.err = e /\ g.chain = f.chain
    BY <1>12 DEF Frames
  <1>14. Only(t) /\ pc'[t] = l /\ fr'[t] = g
    BY <1>11, <1>120, Moved
  <1>15. LastKey(g) = w.key
    BY <1>8, <1>13 DEF LastKey
  <1>16. g.kind # "bmap" =>
            /\ seen[t] \subseteq seen'[t]
            /\ \A j \in 0 .. g.max - 1 : <<j, MapOf(ptr)[g.iblock + j]>> \in seen'[t]
    BY <1>1, <1>11, <1>14, WatchFacts DEF Watched, Walking
  <1>17. g.kind # "bmap" => SeenRun(seen'[t], w.key, m)
    BY <1>10, <1>13, <1>16 DEF SeenRun
  <1>18. SeenOK(l, g, seen'[t])
    <2>1. CASE x = 0 /\ l = "absent" /\ e = "EAGAIN"
      BY <1>13, <2>1 DEF SeenOK
    <2>2. CASE /\ x = m + 1 /\ l = "found" /\ e = "" /\ m < f.max /\ m <= b
               /\ Holds(ptr, f.chain) /\ ptr[w.bh][w.off + m] = w.key + m
      <3>1. ASSUME g.kind # "bmap" PROVE SeenRun(seen'[t], w.key, m + 1)
        <4>1. Follows(ptr, path, f.chain)
          BY <1>5, <1>6, <2>2, ChainWalk
        <4>2. Parent(Walk(path, ptr), n) = w.bh
          BY <1>6, <1>7, <4>1 DEF Follows
        <4>3. Within(f.iblock, m) /\ m < f.max
          BY <1>b, <1>6, <2>2, WithinCall
        <4>30. IsSlot(ptr, f.iblock, w.bh, w.off)
          BY <1>5, <1>8, <4>2 DEF IsSlot
        <4>4. MapOf(ptr)[f.iblock + m] = ptr[w.bh][w.off + m]
          BY <1>3, <4>3, <4>30, NextMapped
        <4>5. <<m, w.key + m>> \in seen'[t]
          <5>1. m \in 0 .. g.max - 1
            BY <1>3, <1>13, <4>3
          <5>2. <<m, MapOf(ptr)[g.iblock + m]>> \in seen'[t]
            BY <1>16, <3>1, <5>1
          <5> HIDE DEF MapOf
          <5> QED BY <1>13, <2>2, <4>4, <5>2
        <4> SUFFICES ASSUME NEW j \in 0 .. (m + 1) - 1 PROVE <<j, w.key + j>> \in seen'[t]
          BY DEF SeenRun
        <4>6. j = m \/ j \in 0 .. m - 1
          OBVIOUS
        <4> QED BY <1>17, <3>1, <4>5, <4>6 DEF SeenRun
      <3>2. m + 1 # 0
        BY ONLY m \in Nat
      <3> QED BY <1>5, <1>6, <1>8, <1>13, <1>15, <2>2, <3>1, <3>2 DEF SeenOK
    <2>3. CASE x = m /\ l = "return" /\ e = ""
      <3>1. m # 0
        BY <1>9
      <3> QED BY <1>13, <1>15, <1>17, <2>3, <3>1 DEF SeenOK, Walking
    <2> QED BY <1>11, <2>1, <2>2, <2>3
  <1>19. AddOK(ptr, l, g) /\ LandOK(ptr, l, g)
    <2>1. l \notin {"add", "alloc", "setup", "zero", "splice"}
      BY <1>11
    <2> QED BY ONLY <2>1 DEF AddOK, LandOK
  <1>20. PageInv'
    BY <1>1, <1>2, <1>13, <1>14, PagesGo DEF Still, Goes, Lookups, Walking
  <1> QED BY <1>1, <1>14, <1>18, <1>19, <1>20, QuietLook

-----------------------------------------------------------------------------
(***************************************************************************)
(* Mapping a block.                                                        *)
(***************************************************************************)

\* With the mutex and a good chain that ends in a zero pointer, a call may allocate.
LEMMA LockedLook ==
    ASSUME Inv, PageInv, LookInv, Watch, NEW t \in Tasks, pc[t] = "lock", ptr' = ptr, Still,
           NEW c \in Seq(Links), NEW g, Allocates(t, c, g),
           pc' = [pc EXCEPT ![t] = "alloc"], fr' = [fr EXCEPT ![t] = g]
    PROVE  PageInv' /\ LookInv'
  <1>1. Only(t) /\ pc'[t] = "alloc" /\ fr'[t] = g
    BY Moved
  <1>2. PICK lev \in Levels : Tree(ptr, lev)
    BY InvTree
  <1>3. PICK f \in Frames : f = fr[t] /\ LocalOK("lock", f) /\ Path(t) = Offsets(f.iblock) /\ IsPath(Path(t))
    BY PathFacts
  <1>4. /\ Threaded(Path(t), c) /\ verify_chain(c) /\ g.chain = c /\ g.partial = Len(c)
        /\ g.want = Want(t, c) /\ g.iblock = f.iblock /\ g.new = f.new /\ g.kind = f.kind /\ g.max = f.max
    BY <1>3 DEF Allocates
  <1>5. Len(g.new) = 0
    <2>1. g.new = <<>>
      BY <1>3, <1>4 DEF LocalOK, Walking
    <2>2. Len(<<>>) = 0
      OBVIOUS
    <2> QED BY ONLY <2>1, <2>2
  <1>6. PICK k \in Nat : k = Len(Path(t)) - Len(c)
    BY <1>3, <1>4 DEF Threaded, IsPath
  <1>70. PICK w : w = c[Len(c)]
    OBVIOUS
  <1>7. PICK b \in Nat, blks \in Nat \ {0} : b = boundary(PtrBits, f.iblock) /\ blks = f.max /\ w = c[Len(c)]
    <2>1. f.iblock \in FileRange /\ f.max \in Nat \ {0}
      BY FrameFields
    <2>2. boundary(PtrBits, f.iblock) \in Nat
      BY <1>3, <2>1, BoundaryFacts DEF IsPath
    <2> QED BY <1>70, <2>1, <2>2
  <1>8. PICK r : r = kr_blks_to_allocate(w, k, blks, b)
    OBVIOUS
  <1>9. r \in Nat /\ r <= b + 1
    BY <1>8, RoomFacts
  <1>10. Want(t, c) = k + r
    BY <1>3, <1>6, <1>7, <1>8 DEF Want
  <1>11. Len(g.new) + g.want <= k + (b + 1)
    BY <1>4, <1>5, <1>9, <1>10
  <1>12. LandOK(ptr, "alloc", g)
    <2>1. Len(Offsets(g.iblock)) - g.partial = k /\ boundary(PtrBits, g.iblock) = b
      BY <1>3, <1>4, <1>6, <1>7
    <2>2. Threaded(Offsets(g.iblock), g.chain) /\ Holds(ptr, g.chain)
      BY <1>3, <1>4, VerifiedHolds
    <2> QED BY <1>11, <2>1, <2>2 DEF LandOK
  <1>13. AddOK(ptr, "alloc", g) /\ SeenOK("alloc", g, seen'[t])
    BY DEF AddOK, SeenOK, Walking
  <1>14. PageInv'
    BY <1>1, <1>3, <1>4, PagesGo DEF Still, Goes, Lookups, Walking
  <1> QED BY <1>1, <1>12, <1>13, <1>14, QuietLook

\* The mutex is taken: the chain is good, or read again, and then may turn out to be complete.
LEMMA LockTreeLook ==
    ASSUME ~IOErrors, Inv, PageInv, LookInv, Watch, NEW t \in Tasks, LockTree(t)
    PROVE  PageInv' /\ LookInv'
  <1>0. pc[t] = "lock" /\ mutex = None /\ ptr' = ptr /\ Still /\ i_size' = i_size
    BY DEF LockTree, At, Still, disk
  <1>1. PICK f \in Frames : f = fr[t]
    BY PathFacts
  <1>p. PICK path : path = Path(t)
    OBVIOUS
  <1>2. /\ LocalOK("lock", f) /\ path = Offsets(f.iblock) /\ IsPath(path) /\ Len(path) \in 1 .. 4 /\ DOMAIN fr = Tasks
    BY <1>0, <1>1, <1>p, PathFacts
  <1>3. f.chain \in Seq(Links) /\ Threaded(path, f.chain)
    BY <1>2, FrameFields DEF LocalOK, Walking
  <1>4. CASE /\ f.err # "EAGAIN" /\ verify_chain(f.chain)
             /\ fr' = [fr EXCEPT ![t].partial = Len(f.chain), ![t].want = Want(t, f.chain)]
             /\ Goto(t, "alloc")
    <2>1. PICK g : g = [f EXCEPT !.partial = Len(f.chain), !.want = Want(t, f.chain)]
      OBVIOUS
    <2>2. /\ g.chain = f.chain /\ g.partial = Len(f.chain) /\ g.want = Want(t, f.chain) /\ g.kind = f.kind
          /\ g.iblock = f.iblock /\ g.max = f.max /\ g.new = f.new
      BY <2>1 DEF Frames
    <2>3. f.chain[Len(f.chain)].key = 0
      BY <1>2, <1>4 DEF LocalOK, LastKey, Walking
    <2>4. fr' = [fr EXCEPT ![t] = g] /\ pc' = [pc EXCEPT ![t] = "alloc"]
      BY <1>1, <1>p, <1>2, <1>4, <2>1 DEF Goto
    <2>5. Allocates(t, f.chain, g)
      BY <1>1, <1>p, <1>3, <1>4, <2>2, <2>3 DEF Allocates
    <2> QED BY <1>0, <1>3, <2>4, <2>5, LockedLook
  <1>5. ASSUME NEW length \in BranchLengths(path), NEW c, c = kr_get_branch(path, length),
               NEW g, g = [f EXCEPT !.chain = c, !.err = "", !.whole = FALSE],
               \/ /\ length = Len(path) /\ c[length].key # 0
                  /\ fr' = [fr EXCEPT ![t] = [g EXCEPT !.count = 1]]
                  /\ Goto(t, "return")
               \/ /\ ~(length = Len(path) /\ c[length].key # 0)
                  /\ fr' = [fr EXCEPT ![t] = [g EXCEPT !.partial = length, !.want = Want(t, c)]]
                  /\ Goto(t, "alloc")
        PROVE  PageInv' /\ LookInv'
    <2>1. PICK n \in 1 .. 4 : Len(path) = n
      BY <1>2
    <2>2. SubSeq(path, 1, n) = path
      <3>1. path \in Seq(Nat) /\ Len(path) = n
        BY <1>2, <2>1 DEF IsPath
      <3>2. SubSeq(path, 1, n) \in Seq(Nat) /\ Len(SubSeq(path, 1, n)) = n
        BY <3>1
      <3>3. \A j \in 1 .. n : SubSeq(path, 1, n)[j] = path[j]
        BY <3>1
      <3> QED BY <3>1, <3>2, <3>3, SeqEqual
    <2>3. /\ length \in 1 .. n /\ Len(c) = length /\ c \in Seq(Links) /\ Threaded(path, c) /\ verify_chain(c)
          /\ c[length].key = Walk(path, ptr)[length]
          /\ length = n \/ Walk(path, ptr)[length] = 0
      <3>1. PICK lev \in Levels : Tree(ptr, lev)
        BY InvTree
      <3>2. length \in BranchLengths(SubSeq(path, 1, n)) /\ n <= Len(path)
        <4>1. n <= Len(path)
          BY ONLY <2>1, n \in 1 .. 4
        <4>2. length \in BranchLengths(SubSeq(path, 1, n))
          BY ONLY length \in BranchLengths(path), <2>2, Zenon
        <4> QED BY <4>1, <4>2
      <3>3. /\ length \in 1 .. n /\ Len(c) = length /\ c \in Seq(Links) /\ Threaded(path, c) /\ verify_chain(c)
            /\ \A j \in 1 .. length : c[j].key = Walk(path, ptr)[j]
            /\ length = n \/ Walk(path, ptr)[length] = 0
        BY <1>2, <1>5, <3>1, <3>2, BranchFacts
      <3>4. length \in 1 .. length
        BY <3>3
      <3> QED BY <3>3, <3>4
    <2>4. /\ g.chain = c /\ g.kind = f.kind /\ g.iblock = f.iblock /\ g.max = f.max /\ g.new = f.new
          /\ \A m, w : /\ [g EXCEPT !.partial = m, !.want = w].chain = c
                       /\ [g EXCEPT !.partial = m, !.want = w].partial = m
                       /\ [g EXCEPT !.partial = m, !.want = w].want = w
                       /\ [g EXCEPT !.partial = m, !.want = w].kind = f.kind
                       /\ [g EXCEPT !.partial = m, !.want = w].iblock = f.iblock
                       /\ [g EXCEPT !.partial = m, !.want = w].max = f.max
                       /\ [g EXCEPT !.partial = m, !.want = w].new = f.new
          /\ \A m : /\ [g EXCEPT !.count = m].kind = f.kind /\ [g EXCEPT !.count = m].iblock = f.iblock
                    /\ [g EXCEPT !.count = m].max = f.max /\ [g EXCEPT !.count = m].count = m
                    /\ [g EXCEPT !.count = m].chain = c
      BY <1>5 DEF Frames
    <2>5. CASE /\ length = Len(path) /\ c[length].key # 0
               /\ fr' = [fr EXCEPT ![t] = [g EXCEPT !.count = 1]] /\ Goto(t, "return")
      <3>1. PICK h : h = [g EXCEPT !.count = 1]
        OBVIOUS
      <3>2. /\ h.kind = f.kind /\ h.iblock = f.iblock /\ h.max = f.max /\ h.count = 1 /\ h.chain = c
            /\ f.max \in Nat \ {0} /\ f.iblock \in FileRange
        BY <2>4, <3>1, FrameFields
      <3>3. Only(t) /\ pc'[t] = "return" /\ fr'[t] = h
        BY <2>5, <3>1, Moved DEF Goto
      <3>4. LastKey(h) = c[length].key /\ LastKey(h) \in Int
        <4>1. c[length] \in Links
          BY <2>3
        <4> QED BY <2>3, <3>2, <4>1, MapAssumption DEF LastKey, Links
      <3>5. h.kind # "bmap" => SeenRun(seen'[t], LastKey(h), 1)
        <4> SUFFICES ASSUME h.kind # "bmap", NEW j \in 0 .. 1 - 1 PROVE <<j, LastKey(h) + j>> \in seen'[t]
          BY DEF SeenRun
        <4>1. j = 0 /\ LastKey(h) + j = LastKey(h)
          BY <3>4
        <4>2. <<0, MapOf(ptr)[h.iblock]>> \in seen'[t]
          BY <1>0, <3>2, <3>3, SeenNow DEF Watched
        <4>3. MapOf(ptr)[h.iblock] = LastKey(h)
          <5>1. Threaded(Offsets(f.iblock), c) /\ Holds(ptr, c) /\ Len(c) = Len(Offsets(f.iblock))
            BY <1>2, <2>3, <2>5, VerifiedHolds
          <5> QED BY <2>3, <3>2, <3>4, <5>1, ChainMapped
        <4> HIDE DEF MapOf
        <4> QED BY <4>1, <4>2, <4>3
      <3>6. AddOK(ptr, "return", h) /\ LandOK(ptr, "return", h)
        BY DEF AddOK, LandOK
      <3>70. PICK s : s = seen'[t]
        OBVIOUS
      <3>71. h.count # 0 /\ (h.kind # "bmap" => SeenRun(s, LastKey(h), h.count))
        BY <3>2, <3>5, <3>70
      <3>72. SeenOK("return", h, s)
        BY ONLY <3>71 DEF SeenOK, Walking
      <3>7. SeenOK("return", h, seen'[t])
        BY <3>70, <3>72
      <3>8. PageInv'
        BY <1>0, <1>1, <3>2, <3>3, PagesGo DEF Goes, Lookups, Walking
      <3> QED BY <1>0, <3>3, <3>6, <3>7, <3>8, QuietLook
    <2>6. CASE /\ ~(length = Len(path) /\ c[length].key # 0)
               /\ fr' = [fr EXCEPT ![t] = [g EXCEPT !.partial = length, !.want = Want(t, c)]]
               /\ Goto(t, "alloc")
      <3>1. PICK h : h = [g EXCEPT !.partial = length, !.want = Want(t, c)]
        OBVIOUS
      <3>2. /\ h.chain = c /\ h.partial = Len(c) /\ h.want = Want(t, c) /\ h.kind = f.kind
            /\ h.iblock = f.iblock /\ h.max = f.max /\ h.new = f.new
        BY <2>3, <2>4, <3>1
      <3>3. c[Len(c)].key = 0
        BY <2>1, <2>3, <2>6
      <3>4. fr' = [fr EXCEPT ![t] = h] /\ pc' = [pc EXCEPT ![t] = "alloc"]
        BY <2>6, <3>1 DEF Goto
      <3>5. Allocates(t, c, h)
        BY <1>1, <1>p, <2>3, <3>2, <3>3 DEF Allocates
      <3> QED BY <1>0, <2>3, <3>4, <3>5, LockedLook
    <2> QED BY <1>5, <2>5, <2>6
  <1> QED BY <1>0, <1>1, <1>p, <1>4, <1>5 DEF LockTree

\* A call that gives up has no answer.
LEMMA GiveUpLook ==
    ASSUME Inv, PageInv, LookInv, Watch, NEW t \in Tasks, pc[t] \in Mapping, NEW e, e # "", GiveUp(t, e),
           ptr' = ptr, Still
    PROVE  PageInv' /\ LookInv'
  <1>1. PICK f \in Frames : f = fr[t] /\ DOMAIN fr = Tasks
    BY PathFacts
  <1>2. PICK g : g = [f EXCEPT !.err = e, !.count = 0, !.new = <<>>]
    OBVIOUS
  <1>3. g.kind = f.kind /\ g.iblock = f.iblock /\ g.max = f.max /\ g.count = 0 /\ g.err = e
    BY <1>2 DEF Frames
  <1>4. fr' = [fr EXCEPT ![t] = g] /\ pc' = [pc EXCEPT ![t] = "return"]
    BY <1>1, <1>2 DEF GiveUp, Goto
  <1>5. Only(t) /\ pc'[t] = "return" /\ fr'[t] = g
    BY <1>4, Moved
  <1>6. AddOK(ptr, "return", g) /\ LandOK(ptr, "return", g) /\ SeenOK("return", g, seen'[t])
    BY <1>3 DEF AddOK, LandOK, SeenOK, Walking
  <1>7. PageInv'
    BY <1>1, <1>3, <1>5, PagesGo DEF Still, Goes, Lookups
  <1> QED BY <1>5, <1>6, <1>7, QuietLook

\* What an allocation has and what it still wants stays the same.
LEMMA AllocBlocksLook ==
    ASSUME Inv, PageInv, LookInv, Watch, NEW t \in Tasks, AllocBlocks(t)
    PROVE  PageInv' /\ LookInv'
  <1>0. pc[t] = "alloc" /\ ptr' = ptr /\ Still /\ pc[t] \in Mapping /\ i_size' = i_size
    BY DEF AllocBlocks, At, Still, Mapping
  <1>1. CASE GiveUp(t, "ENOSPC")
    BY <1>0, <1>1, GiveUpLook
  <1>2. ASSUME NEW run \in Runs(fr[t].want), NEW new, new = fr[t].new \o [k \in 1 .. run[2] |-> run[1] + k - 1],
               fr' = [fr EXCEPT ![t].new = new, ![t].want = @ - run[2]],
               Goto(t, IF Len(new) > Missing(t) THEN "setup" ELSE "alloc")
        PROVE  PageInv' /\ LookInv'
    <2>1. PICK f \in Frames : f = fr[t] /\ DOMAIN fr = Tasks
      BY PathFacts
    <2>0. PICK first \in Blocks, count \in 1 .. f.want : run = <<first, count>>
      BY <1>2, <2>1 DEF Runs
    <2>2. PICK c \in Nat : c = run[2] /\ c <= f.want /\ f.want \in Nat
      BY <2>0, FrameFields
    <2>3. PICK N \in Seq(Blocks), L \in Nat : N = f.new /\ L = Len(N)
      BY FrameFields
    <2>4. Len(new) = L + c
      <3>1. \A S : S \in Seq(Int) => Len(N \o S) = Len(N) + Len(S)
        BY DEF Blocks
      <3>2. [k \in 1 .. c |-> run[1] + k - 1] \in Seq(Int) /\ Len([k \in 1 .. c |-> run[1] + k - 1]) = c
        <4>1. run[1] \in Int
          BY <2>0, MapAssumption DEF Blocks
        <4>2. \A k \in 1 .. c : run[1] + k - 1 \in Int
          BY <4>1
        <4> QED BY <4>2
      <3> QED BY <1>2, <2>1, <2>2, <2>3, <3>1, <3>2
    <2>5. PICK g : g = [f EXCEPT !.new = new, !.want = f.want - c]
      OBVIOUS
    <2>6. /\ g.kind = f.kind /\ g.iblock = f.iblock /\ g.max = f.max /\ g.chain = f.chain
          /\ g.partial = f.partial /\ g.new = new /\ g.want = f.want - c
      BY <2>5 DEF Frames
    <2>7. PICK l \in {"setup", "alloc"} : pc' = [pc EXCEPT ![t] = l]
      BY <1>2 DEF Goto
    <2>8. fr' = [fr EXCEPT ![t] = g]
      BY <1>2, <2>1, <2>2, <2>5
    <2>9. Only(t) /\ pc'[t] = l /\ fr'[t] = g
      BY <2>7, <2>8, Moved
    <2>10. Len(g.new) + g.want = Len(f.new) + f.want
      BY <2>2, <2>3, <2>4, <2>6
    <2>11. LandOK(ptr, "alloc", f)
      BY <1>0, <2>1, LookFacts
    <2>12. LandOK(ptr, l, g)
      BY <2>6, <2>10, <2>11 DEF LandOK
    <2>13. AddOK(ptr, l, g) /\ SeenOK(l, g, seen'[t])
      BY DEF AddOK, SeenOK, Walking
    <2>14. PageInv'
      BY <1>0, <2>1, <2>6, <2>9, PagesGo DEF Goes, Lookups
    <2> QED BY <1>0, <2>9, <2>12, <2>13, <2>14, QuietLook
  <1> QED BY <1>1, <1>2 DEF AllocBlocks

\* ~IOErrors: blocks are zeroed without an error.
LEMMA ZeroOutLook ==
    ASSUME ~IOErrors, Inv, PageInv, LookInv, Watch, NEW t \in Tasks, ZeroOut(t)
    PROVE  PageInv' /\ LookInv'
  <1>0. pc[t] = "zero" /\ ptr' = ptr /\ Still /\ fr' = fr /\ pc' = [pc EXCEPT ![t] = "splice"]
    BY DEF ZeroOut, At, Still, disk, Goto
  <1>1. PICK f : f = fr[t] /\ fr = [fr EXCEPT ![t] = f]
    BY PathFacts DEF Inv, Typed
  <1>2. Only(t) /\ pc'[t] = "splice" /\ fr'[t] = f
    BY <1>0, <1>1, Moved
  <1>3. LandOK(ptr, "zero", f)
    BY <1>0, <1>1, LookFacts
  <1>4. LandOK(ptr, "splice", f)
    BY <1>3 DEF LandOK
  <1>5. f.done = 0
    BY <1>3 DEF LandOK
  <1>6. SeenRun(seen'[t], LastKey(f), f.done)
    BY <1>5 DEF SeenRun
  <1>7. AddOK(ptr, "splice", f) /\ SeenOK("splice", f, seen'[t])
    BY <1>6 DEF AddOK, SeenOK, Walking
  <1>8. PageInv'
    BY <1>0, <1>1, <1>2, PagesGo DEF Goes, Lookups, Mapping, Still
  <1> QED BY <1>0, <1>2, <1>4, <1>7, <1>8, QuietLook

-----------------------------------------------------------------------------
(***************************************************************************)
(* Calls begin and end, and truncations.                                   *)
(***************************************************************************)

\* Pointers that stay take nothing from the others.
LEMMA SameSpares == ASSUME ptr' = ptr PROVE Spares
  BY DEF Spares

\* A step that stores no pointer, after which the task is in no lookup.
LEMMA LeavesLook ==
    ASSUME Inv, LookInv, Watch, NEW t \in Tasks, NEW l, l \notin Watched, NEW g,
           pc' = [pc EXCEPT ![t] = l], fr' = [fr EXCEPT ![t] = g], ptr' = ptr
    PROVE  LookInv' /\ Only(t) /\ pc'[t] = l
  <1>1. Only(t) /\ pc'[t] = l
    BY Moved
  <1> QED BY <1>1, SameSpares, OutsideLook

\* The labels outside the lookups.
LEMMA NotWatched ==
    \A l \in {"idle", "written", "pages", "truncate", "shared", "free"} : l \notin Watched
  BY DEF Watched, Walking, Mapping

\* The labels outside the calls of kr_get_block.
LEMMA NotLookups ==
    \A l \in {"idle", "pages", "truncate", "shared", "free"} : l \notin Lookups
  BY DEF Lookups, Walking, Mapping

\* The end of kr_get_blocks.
LEMMA ReturnLook == ASSUME Inv, PageInv, LookInv, Watch, NEW t \in Tasks, Return(t) PROVE PageInv' /\ LookInv'
  <1>0. pc[t] = "return" /\ ptr' = ptr /\ i_size' = i_size
    BY DEF Return, At, disk
  <1>1. CASE Goto(t, "written") /\ fr' = fr
    <2>1. fr = [fr EXCEPT ![t] = fr[t]]
      BY PathFacts DEF Inv, Typed
    <2>2. LookInv' /\ Only(t) /\ fr'[t] = fr[t]
      BY <1>0, <1>1, <2>1, NotWatched, LeavesLook DEF Goto
    <2> QED BY <1>0, <2>2, PagesGo DEF Goes, Lookups
  <1>2. CASE Goto(t, "idle") /\ fr' = [fr EXCEPT ![t] = NoCall]
    <2>1. LookInv' /\ Only(t) /\ pc'[t] = "idle"
      BY <1>0, <1>2, NotWatched, LeavesLook DEF Goto
    <2> QED BY <1>0, <2>1, NotLookups, PagesLeft
  <1> QED BY <1>1, <1>2 DEF Return

\* The end of a write.
LEMMA WriteEndLook ==
    ASSUME Inv, MapInv, PageInv, LookInv, Watch, NEW t \in Tasks, WriteEnd(t)
    PROVE  PageInv' /\ LookInv'
  <1>1. PICK l \in {"idle", "truncate"} : \E g : fr' = [fr EXCEPT ![t] = g] /\ pc' = [pc EXCEPT ![t] = l]
    BY Zenon DEF WriteEnd, Goto
  <1>2. PICK g : fr' = [fr EXCEPT ![t] = g] /\ pc' = [pc EXCEPT ![t] = l]
    BY <1>1
  <1>3. ptr' = ptr
    BY DEF WriteEnd, disk
  <1> QED BY <1>2, <1>3, NotWatched, LeavesLook, WriteEndPages

\* kr_setsize changes the size.
LEMMA SetSizeLook ==
    ASSUME Inv, MapInv, PageInv, LookInv, Watch, NEW t \in Tasks, SetSize(t)
    PROVE  PageInv' /\ LookInv'
  <1>1. PICK g : fr' = [fr EXCEPT ![t] = g]
    BY DEF SetSize
  <1>2. pc' = [pc EXCEPT ![t] = "pages"] /\ ptr' = ptr
    BY DEF SetSize, Goto, disk
  <1> QED BY <1>1, <1>2, NotWatched, LeavesLook, SetSizePages

\* truncate_pagecache.
LEMMA WaitForPagesLook ==
    ASSUME Inv, MapInv, PageInv, LookInv, Watch, NEW t \in Tasks, WaitForPages(t)
    PROVE  PageInv' /\ LookInv'
  <1>1. pc' = [pc EXCEPT ![t] = "truncate"] /\ ptr' = ptr /\ fr' = fr
    BY DEF WaitForPages, Goto, disk
  <1>2. fr = [fr EXCEPT ![t] = fr[t]]
    BY PathFacts DEF Inv, Typed
  <1> QED BY <1>1, <1>2, NotWatched, LeavesLook, WaitForPagesPages

\* kr_evict_inode.
LEMMA EvictLook ==
    ASSUME Inv, MapInv, PageInv, LookInv, Watch, NEW t \in Tasks, Evict(t)
    PROVE  PageInv' /\ LookInv'
  <1>1. ptr' = ptr /\ \A u \in Tasks : pc[u] = "idle"
    BY DEF Evict, disk, At
  <1>2. CASE Goto(t, "truncate") /\ fr' = [fr EXCEPT ![t] = [NoCall EXCEPT !.kind = "evict"]]
    BY <1>1, <1>2, NotWatched, LeavesLook, EvictPages DEF Goto
  <1>3. CASE pc' = pc /\ fr' = fr
    <2>1. pc = [pc EXCEPT ![t] = "idle"] /\ fr = [fr EXCEPT ![t] = fr[t]]
      BY <1>1, PathFacts DEF Inv, Typed
    <2> QED BY <1>1, <1>3, <2>1, NotWatched, LeavesLook, EvictPages
  <1> QED BY <1>2, <1>3 DEF Evict

\* The start of __kr_truncate_blocks.
LEMMA TruncateLook ==
    ASSUME Inv, PageInv, LookInv, Watch, NEW t \in Tasks, Truncate(t)
    PROVE  PageInv' /\ LookInv'
  <1>0. pc[t] = "truncate" /\ ptr' = ptr /\ i_size' = i_size
    BY DEF Truncate, At, disk
  <1>1. PICK f \in Frames : f = fr[t] /\ fr = [fr EXCEPT ![t] = f] /\ DOMAIN fr = Tasks
    BY PathFacts DEF Inv, Typed
  <1>2. PICK l \in {"idle", "free", "shared"} : \E g : pc' = [pc EXCEPT ![t] = l] /\ fr' = [fr EXCEPT ![t] = g]
    <2>1. CASE Finish(t)
      BY <2>1 DEF Finish, Goto
    <2>2. ASSUME NEW w, fr' = [fr EXCEPT ![t].work = w], Goto(t, "free")
          PROVE  \E l \in {"idle", "free", "shared"} : \E g : pc' = [pc EXCEPT ![t] = l] /\ fr' = [fr EXCEPT ![t] = g]
      <3>1. fr' = [fr EXCEPT ![t] = [f EXCEPT !.work = w]]
        BY <1>1, <2>2
      <3> QED BY <2>2, <3>1 DEF Goto
    <2>3. CASE Goto(t, "shared") /\ fr' = fr
      BY <1>1, <2>3 DEF Goto
    <2> QED BY <2>1, <2>2, <2>3 DEF Truncate
  <1>3. PICK g : pc' = [pc EXCEPT ![t] = l] /\ fr' = [fr EXCEPT ![t] = g]
    BY <1>2
  <1>4. LookInv' /\ Only(t) /\ pc'[t] = l
    BY <1>0, <1>3, NotWatched, LeavesLook
  <1>5. l \notin Lookups
    BY NotLookups
  <1> QED BY <1>0, <1>4, <1>5, PagesLeft

\* The truncation has nothing left to do.
LEMMA TruncateDoneLook ==
    ASSUME Inv, PageInv, LookInv, Watch, NEW t \in Tasks, TruncateDone(t)
    PROVE  PageInv' /\ LookInv'
  <1>0. pc[t] = "free" /\ ptr' = ptr /\ i_size' = i_size
    BY DEF TruncateDone, At, disk
  <1>1. pc' = [pc EXCEPT ![t] = "idle"] /\ fr' = [fr EXCEPT ![t] = NoCall]
    BY DEF TruncateDone, Finish, Goto
  <1>2. LookInv' /\ Only(t) /\ pc'[t] = "idle"
    BY <1>0, <1>1, NotWatched, LeavesLook
  <1> QED BY <1>0, <1>2, NotLookups, PagesLeft

\* A call of kr_get_block begins: it has found out nothing.
LEMMA GetBlockLook ==
    ASSUME Inv, MapInv, PageInv, LookInv, Watch, NEW t \in Tasks, GetBlock(t)
    PROVE  PageInv' /\ LookInv'
  <1>1. PICK kind \in {"read", "bmap", "write", "writepage"}, i \in FileRange, n \in 1 .. MaxRun :
            /\ fr' = [fr EXCEPT ![t] = [NoCall EXCEPT !.kind = kind, !.iblock = i, !.max = n]]
            /\ pc' = [pc EXCEPT ![t] = "first"] /\ ptr' = ptr
    BY DEF GetBlock, Goto, disk
  <1>2. PICK g : g = [NoCall EXCEPT !.kind = kind, !.iblock = i, !.max = n]
    OBVIOUS
  <1>3. g.count = 0
    BY <1>2 DEF NoCall
  <1>4. Only(t) /\ pc'[t] = "first" /\ fr'[t] = g
    BY <1>1, <1>2, Moved
  <1>5. AddOK(ptr, "first", g) /\ LandOK(ptr, "first", g) /\ SeenOK("first", g, seen'[t])
    BY <1>3 DEF AddOK, LandOK, SeenOK
  <1> QED BY <1>1, <1>4, <1>5, QuietLook, GetBlockPages

\* kr_find_shared waits for the tasks that are about to add to their chains.
LEMMA FindSharedLook ==
    ASSUME Inv, PageInv, LookInv, Watch, NEW t \in Tasks, FindShared(t)
    PROVE  PageInv' /\ LookInv'
  <1>0. /\ pc[t] = "shared" /\ pc[t] \in Holding /\ pc' = [pc EXCEPT ![t] = "free"] /\ i_size' = i_size
        /\ \A u \in Tasks : pc[u] # "add"
    BY DEF FindShared, At, Holding, Cutting, Goto
  <1>1. PICK f \in Frames : f = fr[t] /\ DOMAIN fr = Tasks
    BY PathFacts
  <1>2. PICK w : fr' = [fr EXCEPT ![t].work = w]
    BY Zenon DEF FindShared
  <1>3. PICK g : fr' = [fr EXCEPT ![t] = g]
    <2>1. fr' = [fr EXCEPT ![t] = [f EXCEPT !.work = w]]
      BY <1>1, <1>2
    <2> QED BY <2>1
  <1>4. Only(t) /\ pc'[t] = "free"
    BY <1>0, <1>3, Moved
  <1>5. mutex \in {t, None}
    BY <1>0, Holder
  <1>6. Spares
    BY <1>0 DEF Spares
  <1>7. LookInv'
    BY <1>4, <1>5, <1>6, NotWatched, OutsideLook
  <1>8. PageInv'
    BY <1>0, <1>4, NotLookups, PagesLeft
  <1> QED BY <1>7, <1>8

\* The pointers after a step of the work: one that was taken away lies past the size.
Clears(t) ==
    \/ ptr' = ptr
    \/ \E x \in Nodes : \E o \in Slots(x) : ptr' = Store(ptr, x, o, 0) /\ Past(ptr, x, o, i_size)

\* One step on the slots of a node.
LEMMA FreeArrayClears ==
    ASSUME Inv, MapInv, NEW t \in Tasks, pc[t] = "free",
           NEW item \in Items, NEW rest, item.op = "array", FreeArray(t, item, rest),
           NEW lev \in Levels, Tree(ptr, lev), ItemOK(ptr, lev, item), PlacedItem(ptr, item, fr[t].size)
    PROVE  Clears(t)
  <1>1. item.nr \in Nodes /\ item.p \in Nat /\ item.q \in Nat
    BY ItemFields
  <1>2. /\ item.nr = Inode => item.q <= NDir
        /\ item.nr # Inode => item.q <= Ptrs
    BY <1>1 DEF ItemOK
  <1>3. \A o \in item.p .. item.q - 1 : o \in Slots(item.nr)
    <2> SUFFICES ASSUME NEW o \in item.p .. item.q - 1 PROVE o \in Slots(item.nr)
      OBVIOUS
    <2>1. CASE item.nr = Inode
      BY <1>1, <1>2, <2>1, PtrsNat DEF Slots, TIND
    <2>2. CASE item.nr # Inode
      BY <1>1, <1>2, <2>2, PtrsNat DEF Slots
    <2> QED BY <2>1, <2>2
  <1>4. fr[t].size = i_size
    BY CutSize DEF Cuts
  <1>5. PICK slots : slots = {o \in item.p .. item.q - 1 : ptr[item.nr][o] # 0}
    OBVIOUS
  <1>6. CASE slots # {} /\ ptr' = [ptr EXCEPT ![item.nr][Min(slots)] = 0]
    <2>1. slots \in SUBSET Nat
      BY <1>1, <1>5
    <2>2. PICK o : o = Min(slots) /\ o \in slots
      BY <1>6, <2>1, MinIsLeast
    <2>3. o \in item.p .. item.q - 1
      BY <1>5, <2>2
    <2>4. Past(ptr, item.nr, o, i_size)
      BY <1>4, <2>3 DEF PlacedItem
    <2>5. ptr' = Store(ptr, item.nr, o, 0)
      BY <1>6, <2>2 DEF Store
    <2>6. o \in Slots(item.nr)
      BY <1>3, <2>3
    <2> QED BY <1>1, <2>4, <2>5, <2>6 DEF Clears
  <1>7. CASE ptr' = ptr
    BY <1>7 DEF Clears
  <1> QED BY <1>5, <1>6, <1>7 DEF FreeArray

\* A whole slot of i_data.
LEMMA FreeSlotClears ==
    ASSUME Inv, MapInv, NEW t \in Tasks, pc[t] = "free",
           NEW item \in Items, NEW rest, item.op = "slot", FreeSlot(t, item, rest),
           NEW lev \in Levels, ItemOK(ptr, lev, item), PlacedItem(ptr, item, fr[t].size)
    PROVE  Clears(t)
  <1>1. fr[t].size = i_size
    BY CutSize DEF Cuts
  <1>2. item.p \in Slots(Inode) /\ Inode \in Nodes
    BY ItemFields, NodeFacts, PtrsNat DEF ItemOK, IND, TIND
  <1>3. CASE ptr' = ptr
    BY <1>3 DEF Clears
  <1>4. CASE ptr' = [ptr EXCEPT ![Inode][item.p] = 0]
    <2>1. ptr' = Store(ptr, Inode, item.p, 0)
      BY <1>4 DEF Store
    <2>2. Past(ptr, Inode, item.p, i_size)
      BY <1>1 DEF PlacedItem
    <2> QED BY <1>2, <2>1, <2>2 DEF Clears
  <1> QED BY <1>3, <1>4 DEF FreeSlot

\* One step of kr_free_data, kr_free_branches and do_indirects, which take no lock against
\* the lookups.
LEMMA FreeWorkLook ==
    ASSUME Inv, MapInv, PageInv, LookInv, Watch, NEW t \in Tasks, FreeWork(t)
    PROVE  PageInv' /\ LookInv'
  <1>0. pc[t] = "free" /\ pc[t] \in Holding /\ fr[t].work # <<>> /\ pc' = pc /\ i_size' = i_size
    BY DEF FreeWork, At, Holding, Cutting
  <1>1. PICK lev \in Levels : Tree(ptr, lev) /\ WorkOK(ptr, lev, fr[t].work)
    BY <1>0 DEF Inv, LevelInv, HandOK, Sound
  <1>2. fr[t].work \in Seq(Items) /\ DOMAIN fr = Tasks
    BY PathFacts, FrameFields
  <1>3. PICK item \in Items, rest \in Seq(Items) :
            /\ item = Head(fr[t].work) /\ rest = Tail(fr[t].work) /\ ItemOK(ptr, lev, item)
    BY <1>0, <1>1, <1>2, WorkTail
  <1>4. CutOK(ptr, pc[t], fr[t])
    BY TaskFacts
  <1>5. Placed(ptr, fr[t].work, fr[t].size)
    BY <1>0, <1>4 DEF CutOK
  <1>6. PlacedItem(ptr, item, fr[t].size)
    BY <1>0, <1>2, <1>3, <1>5, PlacedParts
  <1>7. Clears(t)
    <2>1. CASE item.op = "array" /\ FreeArray(t, item, rest)
      BY <1>0, <1>1, <1>3, <1>6, <2>1, FreeArrayClears
    <2>2. CASE item.op = "slot" /\ FreeSlot(t, item, rest)
      BY <1>0, <1>3, <1>6, <2>2, FreeSlotClears
    <2>3. CASE ptr' = ptr
      BY <2>3 DEF Clears
    <2> QED BY <1>3, <2>1, <2>2, <2>3 DEF FreeWork
  <1>8. Spares
    <2>1. CASE ptr' = ptr
      BY <2>1, SameSpares
    <2>2. ASSUME NEW x \in Nodes, NEW o \in Slots(x), ptr' = Store(ptr, x, o, 0), Past(ptr, x, o, i_size)
          PROVE  Spares
      BY <1>0, <1>1, <2>2, ClearSpares
    <2> QED BY <1>7, <2>1, <2>2 DEF Clears
  <1>9. PICK w : fr' = [fr EXCEPT ![t].work = w]
    BY <1>3, Zenon DEF FreeWork, FreeArray, FreeSubtree, FreeSlot
  <1>10. Only(t) /\ pc'[t] = "free"
    BY <1>0, <1>2, <1>9 DEF Only
  <1>11. mutex \in {t, None}
    BY <1>0, Holder
  <1>12. LookInv'
    BY <1>8, <1>10, <1>11, NotWatched, OutsideLook
  <1>13. PageInv'
    BY <1>0, <1>10, NotLookups, PagesLeft
  <1> QED BY <1>12, <1>13

-----------------------------------------------------------------------------
(***************************************************************************)
(* A branch is made and spliced in.                                        *)
(***************************************************************************)

\* A pointer stored in an empty slot takes nothing away.
LEMMA StoreExtends ==
    ASSUME NEW p, NEW lev, Tree(p, lev), NEW x \in Nodes, NEW o \in Slots(x), p[x][o] = 0,
           NEW v \in Blocks, NEW q, q = Store(p, x, o, v)
    PROVE  Extends(p, lev, q) /\ q[x][o] = v /\ IsPointers(q)
  <1>1. IsPointers(p) /\ v \in 0 .. NBlocks
    BY MapAssumption DEF Tree, Blocks
  <1>2. \A y \in Nodes : \A r \in Slots(y) : q[y][r] = IF y = x /\ r = o THEN v ELSE p[y][r]
    BY <1>1, Stored
  <1>3. IsPointers(q)
    BY <1>1, Stored
  <1> QED BY <1>2, <1>3 DEF Extends

\* The walk that reads a slot reads it still when pointers are added.
LEMMA OnPathKept ==
    ASSUME NEW p, NEW lev, Tree(p, lev), NEW q, Extends(p, lev, q), NEW f, f.iblock \in FileRange,
           f.partial = Len(Offsets(f.iblock)), OnPath(p, f), f.chain[f.partial].bh # 0
    PROVE  OnPath(q, f)
  <1>0. PICK path : path = Offsets(f.iblock) /\ IsPath(path)
    BY OffsetsAreFound
  <1>1. PICK n \in 1 .. 4 : path = Offsets(f.iblock) /\ n = f.partial /\ Len(path) = n /\ IsPath(path)
    BY <1>0 DEF IsPath
  <1>2. Parent(Walk(path, p), n) = f.chain[n].bh /\ f.chain[n].bh # 0
    BY <1>1 DEF OnPath
  <1>3. CASE n = 1
    BY <1>1, <1>2, <1>3 DEF OnPath, Parent
  <1>4. CASE n # 1
    <2>1. n - 1 \in 1 .. n
      BY ONLY <1>4, n \in 1 .. 4
    <2>2. Walk(path, p)[n - 1] # 0
      BY <1>2, <1>4 DEF Parent
    <2>3. Walk(path, q)[n - 1] = Walk(path, p)[n - 1]
      BY <1>1, <2>1, <2>2, WalkExtends
    <2> QED BY <1>1, <1>2, <1>4, <2>3 DEF OnPath, Parent
  <1> QED BY <1>3, <1>4

\* kr_splice_branch: each store makes one more block of the call, or all of them, be found.
LEMMA SpliceLook ==
    ASSUME Inv, MapInv, PageInv, LookInv, Watch, NEW t \in Tasks, Splice(t)
    PROVE  PageInv' /\ LookInv'
  <1>0. pc[t] = "splice" /\ pc[t] \in Holding /\ Still /\ i_size' = i_size
    BY DEF Splice, At, Holding, Mapping, Still
  <1>1. PICK f \in Frames : /\ f = fr[t] /\ f.done \in Nat /\ f.count \in Nat /\ DOMAIN fr = Tasks
                            /\ f.iblock \in FileRange /\ f.max \in Nat \ {0}
    BY PathFacts, FrameFields
  <1>2. PICK path : path = Offsets(f.iblock) /\ IsPath(path) /\ path = Path(t)
    BY <1>1, PathFacts
  <1>3. PICK lev \in Levels : Tree(ptr, lev) /\ SpliceOK(lev, f)
    BY <1>0, <1>1 DEF Inv, LevelInv, Sound, HandOK
  <1>4. PICK w \in Links : w = f.chain[f.partial]
    <2>1. f.partial \in 1 .. Len(f.chain) /\ f.chain \in Seq(Links)
      BY <1>3, FrameFields DEF SpliceOK
    <2> QED BY <2>1
  <1>5. PICK k \in Int : k = Len(path) - f.partial /\ k = Missing(t)
    <2>1. Len(path) \in 1 .. 4 /\ f.partial \in 0 .. 4
      BY <1>2, FrameFields DEF IsPath
    <2> QED BY <1>1, <1>2, <2>1 DEF Missing
  <1>6. PICK top \in Int : top = (IF k > 0 THEN 0 ELSE f.count - 1) /\ top = LastSpliced(f)
    BY <1>1, <1>2, <1>5 DEF LastSpliced
  <1>7. PICK q, v, o : q = ptr' /\ v = w.key + f.done /\ o = w.off + f.done
    OBVIOUS
  <1>8. /\ f.done <= top /\ v \in Blocks /\ Spot(lev, w.bh, o, k) /\ ptr[w.bh][o] = 0
        /\ w.bh \in Nodes /\ o \in Slots(w.bh) /\ w.bh # 0
    <2>1. f.done <= top
      BY <1>3, <1>6 DEF SpliceOK
    <2>2. f.done \in f.done .. top
      BY <1>1, <2>1
    <2>3. v \in Blocks /\ Spot(lev, w.bh, o, k)
      BY <1>2, <1>3, <1>4, <1>5, <1>6, <1>7, <2>2 DEF SpliceOK
    <2>4. EmptyFrom(ptr, w, f.done, top)
      <3>1. HoleOK(ptr, "splice", f)
        BY <1>0, <1>1, TaskFacts
      <3> QED BY <1>4, <1>6, <3>1 DEF HoleOK
    <2>5. ptr[w.bh][o] = 0
      BY <1>7, <2>2, <2>4 DEF EmptyFrom
    <2> QED BY <2>1, <2>3, <2>5, NodeFacts DEF Spot
  <1>9. q = Store(ptr, w.bh, o, v)
    BY <1>1, <1>4, <1>7 DEF Splice, Store
  <1>10. Extends(ptr, lev, q) /\ q[w.bh][o] = v
    BY <1>3, <1>8, <1>9, StoreExtends
  <1>11. Spares
    BY <1>3, <1>7, <1>10, ExtendsSpares
  <1>12. mutex \in {t, None}
    BY <1>0, Holder
  <1>13. PICK b \in Nat : b = boundary(PtrBits, f.iblock)
    BY <1>1, <1>2, BoundaryFacts DEF IsPath
  <1>14. LandOK(ptr, "splice", f) /\ SeenOK("splice", f, seen[t]) /\ CountOK("splice", f) /\ LocalOK("splice", f)
    BY <1>0, <1>1, LookFacts, TaskFacts, PathFacts
  <1>15. /\ f.count <= b + 1 /\ f.count > 0 /\ f.count <= f.max /\ f.iblock + f.max - 1 <= LastBlock
         /\ k = 0 => Len(f.chain) = f.partial /\ OnPath(ptr, f)
         /\ k > 0 => Lands(ptr, w, f.iblock, LastKey(f), f.count)
         /\ f.kind # "bmap" => SeenRun(seen[t], LastKey(f), f.done)
    BY <1>2, <1>4, <1>5, <1>13, <1>14 DEF LandOK, SeenOK, CountOK, LocalOK, Mapping
  <1>16. k = 0 \/ k > 0
    <2>1. lev \in Levels /\ Down(lev, w.bh, o) = k /\ Leads(lev, w.bh) /\ w.bh \in Nodes
      BY <1>3, <1>8 DEF Spot
    <2>2. CASE w.bh = Inode
      BY <1>5, <1>8, <2>1, <2>2, SlotDepths, NodeFacts DEF Down
    <2>3. CASE w.bh # Inode
      <3>1. lev[w.bh] \in -1 .. 3 /\ lev[w.bh] >= 1
        BY <2>1, <2>3, NodeFacts DEF Leads, Levels
      <3> QED BY <1>5, <2>1, <2>3, <3>1 DEF Down
    <2> QED BY <2>2, <2>3
  <1>17. ASSUME k = 0
         PROVE  /\ OnPath(q, f) /\ MapOf(q)[f.iblock + f.done] = v /\ LastKey(f) = w.key
                /\ f.done < f.max
    <2>1. f.partial = Len(path) /\ Len(f.chain) = f.partial /\ OnPath(ptr, f)
      BY <1>2, <1>5, <1>15, <1>17, FrameFields DEF IsPath
    <2>2. OnPath(q, f)
      BY <1>1, <1>2, <1>3, <1>4, <1>8, <1>10, <2>1, OnPathKept
    <2>3. f.done <= f.count - 1
      BY <1>6, <1>8, <1>17
    <2>4. Within(f.iblock, f.done)
      BY <1>1, <1>13, <1>15, <2>3, WithinCall
    <2>5. IsSlot(q, f.iblock, w.bh, w.off)
      BY <1>2, <1>4, <1>8, <2>1, <2>2 DEF IsSlot, OnPath
    <2>6. MapOf(q)[f.iblock + f.done] = q[w.bh][w.off + f.done]
      BY <1>1, <2>4, <2>5, NextMapped
    <2>7. LastKey(f) = w.key
      BY <1>4, <2>1 DEF LastKey
    <2>8. f.done < f.max
      BY <1>1, <1>15, <2>3
    <2> QED BY <1>7, <1>10, <2>2, <2>6, <2>7, <2>8
  <1>18. CASE /\ k > 0 \/ f.done + 1 = f.count
              /\ fr' = [fr EXCEPT ![t].new = <<>>] /\ Goto(t, "return")
    <2>1. PICK g : g = [f EXCEPT !.new = <<>>]
      OBVIOUS
    <2>2. g.kind = f.kind /\ g.iblock = f.iblock /\ g.max = f.max /\ g.count = f.count /\ g.chain = f.chain
      BY <2>1 DEF Frames
    <2>3. fr' = [fr EXCEPT ![t] = g] /\ pc' = [pc EXCEPT ![t] = "return"]
      BY <1>1, <1>18, <2>1 DEF Goto
    <2>4. Only(t) /\ pc'[t] = "return" /\ fr'[t] = g
      BY <2>3, Moved
    <2>5. g.kind # "bmap" =>
              /\ seen[t] \subseteq seen'[t]
              /\ \A j \in 0 .. g.max - 1 : <<j, MapOf(q)[g.iblock + j]>> \in seen'[t]
      BY <1>7, <2>4, WatchFacts DEF Watched
    <2>6. ASSUME g.kind # "bmap" PROVE SeenRun(seen'[t], LastKey(g), g.count)
      <3>1. LastKey(g) = LastKey(f)
        BY <2>2 DEF LastKey
      <3> SUFFICES ASSUME NEW j \in 0 .. f.count - 1 PROVE <<j, LastKey(f) + j>> \in seen'[t]
        BY <2>2, <3>1 DEF SeenRun
      <3>2. j \in 0 .. g.max - 1
        BY <1>1, <1>15, <2>2
      <3>3. <<j, MapOf(q)[f.iblock + j]>> \in seen'[t]
        BY <2>2, <2>5, <2>6, <3>2
      <3>4. CASE k > 0
        <4>1. f.done = 0 /\ o = w.off /\ v = w.key
          <5>1. f.done = 0
            BY <1>1, <1>6, <1>8, <3>4
          <5>2. w.off \in Nat /\ w.key \in Nat
            BY MapAssumption DEF Links
          <5> QED BY <1>7, <5>1, <5>2
        <4>2. q = Store(ptr, w.bh, w.off, w.key)
          BY <1>9, <4>1
        <4>3. MapOf(q)[f.iblock + j] = LastKey(f) + j
          BY <1>15, <3>4, <4>2 DEF Lands
        <4> HIDE DEF MapOf
        <4> QED BY <3>3, <4>3
      <3>5. CASE k = 0
        <4>1. f.done + 1 = f.count
          BY <1>18, <3>5
        <4>2. j = f.done \/ j \in 0 .. f.done - 1
          BY <1>1, <4>1
        <4>3. CASE j = f.done
          <5>1. MapOf(q)[f.iblock + j] = LastKey(f) + j
            BY <1>7, <1>17, <3>5, <4>3
          <5> HIDE DEF MapOf
          <5> QED BY <3>3, <5>1
        <4>4. CASE j \in 0 .. f.done - 1
          BY <1>15, <2>2, <2>5, <2>6, <4>4 DEF SeenRun
        <4> QED BY <4>2, <4>3, <4>4
      <3> QED BY <1>16, <3>4, <3>5
    <2>7. g.count # 0
      BY <1>1, <1>15, <2>2
    <2>8. PICK s : s = seen'[t]
      OBVIOUS
    <2>9. SeenOK("return", g, s)
      <3>1. g.kind # "bmap" => SeenRun(s, LastKey(g), g.count)
        BY <2>6, <2>8
      <3> QED BY ONLY <2>7, <3>1 DEF SeenOK, Walking
    <2>10. AddOK(q, "return", g) /\ LandOK(q, "return", g)
      BY DEF AddOK, LandOK
    <2>11. LookInv'
      BY <1>7, <1>11, <1>12, <2>4, <2>8, <2>9, <2>10, LookStep
    <2>12. PageInv'
      BY <1>0, <1>1, <2>2, <2>4, PagesGo DEF Goes, Lookups, Mapping
    <2> QED BY <2>11, <2>12
  <1>19. CASE /\ ~(k > 0 \/ f.done + 1 = f.count)
              /\ fr' = [fr EXCEPT ![t].done = @ + 1] /\ pc' = pc
    <2>1. PICK g : g = [f EXCEPT !.done = f.done + 1]
      OBVIOUS
    <2>2. /\ g.kind = f.kind /\ g.iblock = f.iblock /\ g.max = f.max /\ g.count = f.count
          /\ g.done = f.done + 1 /\ g.chain = f.chain /\ g.partial = f.partial
      BY <2>1 DEF Frames
    <2>3. fr' = [fr EXCEPT ![t] = g] /\ pc' = [pc EXCEPT ![t] = "splice"]
      BY <1>0, <1>1, <1>19, <2>1 DEF Inv, Typed
    <2>4. Only(t) /\ pc'[t] = "splice" /\ fr'[t] = g
      BY <2>3, Moved
    <2>5. k = 0
      BY <1>16, <1>19
    <2>6. g.kind # "bmap" =>
              /\ seen[t] \subseteq seen'[t]
              /\ \A j \in 0 .. g.max - 1 : <<j, MapOf(q)[g.iblock + j]>> \in seen'[t]
      BY <1>7, <2>4, WatchFacts DEF Watched, Mapping
    <2>7. ASSUME g.kind # "bmap" PROVE SeenRun(seen'[t], LastKey(g), g.done)
      <3>1. LastKey(g) = LastKey(f)
        BY <2>2 DEF LastKey
      <3> SUFFICES ASSUME NEW j \in 0 .. (f.done + 1) - 1 PROVE <<j, LastKey(f) + j>> \in seen'[t]
        BY <2>2, <3>1 DEF SeenRun
      <3>2. j = f.done \/ j \in 0 .. f.done - 1
        BY <1>1
      <3>3. CASE j = f.done
        <4>1. MapOf(q)[f.iblock + j] = LastKey(f) + j /\ j < f.max
          BY <1>7, <1>17, <2>5, <3>3
        <4>2. j \in 0 .. g.max - 1
          BY <1>1, <2>2, <4>1
        <4>3. <<j, MapOf(q)[f.iblock + j]>> \in seen'[t]
          BY <2>2, <2>6, <2>7, <4>2
        <4> HIDE DEF MapOf
        <4> QED BY <4>1, <4>3
      <3>4. CASE j \in 0 .. f.done - 1
        BY <1>15, <2>2, <2>6, <2>7, <3>4 DEF SeenRun
      <3> QED BY <3>2, <3>3, <3>4
    <2>8. PICK s : s = seen'[t]
      OBVIOUS
    <2>9. SeenOK("splice", g, s)
      <3>1. g.kind # "bmap" => SeenRun(s, LastKey(g), g.done)
        BY <2>7, <2>8
      <3> QED BY ONLY <3>1 DEF SeenOK, Walking
    <2>10. AddOK(q, "splice", g)
      BY DEF AddOK
    <2>11. LandOK(q, "splice", g)
      <3>1. OnPath(q, g)
        BY <1>17, <2>2, <2>5 DEF OnPath
      <3>2. Len(Offsets(g.iblock)) - g.partial = 0 /\ boundary(PtrBits, g.iblock) = b
        BY <1>2, <1>5, <1>13, <2>2, <2>5
      <3> QED BY <1>15, <2>2, <2>5, <3>1, <3>2 DEF LandOK
    <2>12. LookInv'
      BY <1>7, <1>11, <1>12, <2>4, <2>8, <2>9, <2>10, <2>11, LookStep
    <2>13. PageInv'
      BY <1>0, <1>1, <2>2, <2>4, PagesGo DEF Goes, Lookups, Mapping
    <2> QED BY <2>12, <2>13
  <1> QED BY <1>1, <1>5, <1>18, <1>19 DEF Splice

\* The links of the chain of a branch that is set up: those before link part, and the new ones.
BranchLinks(d, c, part, k, N, off) ==
    /\ Len(d) = part + k
    /\ \A m \in 1 .. part - 1 : d[m] = c[m]
    /\ \A n \in 1 .. k : d[part + n].bh = N[n] /\ d[part + n].off = off[n] /\ d[part + n].key = N[n + 1]

\* They are what kr_alloc_branch puts in the chain.
LEMMA ChainLinks ==
    ASSUME NEW c \in Seq(Links), NEW part \in 1 .. 4, Len(c) = part, NEW k \in 0 .. 3,
           NEW N \in Seq(Blocks), NEW off, NEW d, d = ExtendedChain(c, part, k, N, off)
    PROVE  BranchLinks(d, c, part, k, N, off)
  <1> DEFINE Ln(n) == [bh |-> N[n], off |-> off[n], key |-> N[n + 1]]
             links == [n \in 1 .. k |-> Ln(n)]
             w == [c[part] EXCEPT !.key = N[1]]
             e == [c EXCEPT ![part] = w]
  <1>1. \A n : Ln(n).bh = N[n] /\ Ln(n).off = off[n] /\ Ln(n).key = N[n + 1]
    OBVIOUS
  <1>2. c[part] \in Links
    OBVIOUS
  <1>3. e = [c EXCEPT ![part].key = N[1]]
    BY <1>2
  <1> HIDE DEF w, Ln
  <1>4. Len(links) = k /\ (\A n \in 1 .. k : links[n] = Ln(n)) /\ links \in Seq({Ln(n) : n \in 1 .. k})
    <2>1. PICK S : S = {Ln(n) : n \in 1 .. k}
      OBVIOUS
    <2>2. links \in [1 .. k -> S]
      BY <2>1
    <2>3. \A n \in 1 .. k : links[n] = Ln(n)
      OBVIOUS
    <2> HIDE DEF links
    <2>4. links \in Seq(S) /\ Len(links) = k
      BY <2>2
    <2> QED BY <2>1, <2>3, <2>4
  <1>5. e \in Seq(Links \cup {w}) /\ Len(e) = part /\ \A m \in 1 .. part - 1 : e[m] = c[m]
    OBVIOUS
  <1> HIDE DEF e, links
  <1>6. d = e \o links
    BY <1>3 DEF ExtendedChain, links, Ln
  <1>7. Len(d) = part + k
    BY <1>4, <1>5, <1>6
  <1>8. \A m \in 1 .. part : d[m] = e[m]
    BY <1>4, <1>5, <1>6
  <1>9. \A n \in 1 .. k : d[part + n] = links[n]
    <2> SUFFICES ASSUME NEW n \in 1 .. k PROVE d[part + n] = links[n]
      OBVIOUS
    <2>1. PICK A, B : e \in Seq(A) /\ links \in Seq(B) /\ Len(e) = part /\ Len(links) = k
      BY <1>4, <1>5
    <2>2. (e \o links)[part + n] = links[n]
      BY ONLY <2>1, part \in 1 .. 4, k \in 0 .. 3, n \in 1 .. k
    <2> QED BY <1>6, <2>2
  <1>10. \A m \in 1 .. part - 1 : d[m] = c[m]
    <2> SUFFICES ASSUME NEW m \in 1 .. part - 1 PROVE d[m] = c[m]
      OBVIOUS
    <2>1. m \in 1 .. part
      OBVIOUS
    <2> QED BY <1>5, <1>8, <2>1
  <1>11. \A n \in 1 .. k : d[part + n].bh = N[n] /\ d[part + n].off = off[n] /\ d[part + n].key = N[n + 1]
    BY ONLY <1>1, <1>4, <1>9
  <1> QED BY <1>7, <1>10, <1>11 DEF BranchLinks

\* The new indirect blocks in q point to one another, and the last of them to the data.
Linked(q, N, k, off, count) ==
    /\ \A n \in 1 .. k : q[N[n]][off[n]] = N[n + 1]
    /\ \A j \in 0 .. count - 1 : off[k] + j \in Digit => q[N[k]][off[k] + j] = N[k + 1] + j

\* They are written that way.
LEMMA CellsLinked ==
    ASSUME NEW p, NEW q, NEW k \in 1 .. 3, NEW N \in Seq(Blocks), NEW L \in Nat, Len(N) = L, L > k,
           NEW off, NewCells(p, q, N, k, off)
    PROVE  Linked(q, N, k, off, L - k)
  <1>1. \A n \in 1 .. k : off[n] \in Digit /\ q[N[n]] = [o \in Digit |-> NewCell(N, k, off, n, o)]
    BY DEF NewCells
  <1>2. \A n \in 1 .. k : \A o \in Digit : q[N[n]][o] = NewCell(N, k, off, n, o)
    BY ONLY <1>1
  <1>3. ASSUME NEW n \in 1 .. k PROVE q[N[n]][off[n]] = N[n + 1]
    BY <1>1, <1>2 DEF NewCell
  <1>4. ASSUME NEW j \in 0 .. (L - k) - 1, off[k] + j \in Digit PROVE q[N[k]][off[k] + j] = N[k + 1] + j
    <2>1. k \in 1 .. k /\ k + 1 \in 1 .. L
      OBVIOUS
    <2>2. PICK a \in Nat : a = off[k]
      <3>1. off[k] \in Digit
        BY <1>1, <2>1
      <3> QED BY <3>1, PtrsNat DEF Digit
    <2>3. PICK b \in Nat : b = N[k + 1]
      <3>1. N[k + 1] \in Blocks
        BY <2>1
      <3> QED BY <3>1, MapAssumption DEF Blocks
    <2>4. q[N[k]][a + j] = NewCell(N, k, off, k, a + j)
      BY <1>2, <1>4, <2>1, <2>2
    <2>5. NewCell(N, k, off, k, a + j) =
              IF a + j = a THEN b ELSE IF a + j \in a .. a + (L - k) - 1 THEN b + (a + j) - a ELSE 0
      BY <2>2, <2>3 DEF NewCell
    <2>6. NewCell(N, k, off, k, a + j) = b + j
      BY ONLY <2>5, j \in 0 .. (L - k) - 1, a \in Nat, b \in Nat, L \in Nat, k \in 1 .. 3
    <2> QED BY <2>2, <2>3, <2>4, <2>6
  <1> QED BY <1>3, <1>4 DEF Linked

\* q has the tree of p.
SameTree(p, lev, q) == IsPointers(q) /\ \A x \in Nodes : Leads(lev, x) => q[x] = p[x]

\* The blocks are not the file's.
Unused(lev, N, k) == \A n \in 1 .. k : lev[N[n]] = -1

\* off is the end of the path, after step part.
EndOf(off, path, part, k) == \A n \in 1 .. k : off[n] = path[part + n]

\* The k new indirect blocks that complete the chain c of a path are set up in q, with the chain d.
BranchMade(lev, path, c, part, k, N, L, q, off, d) ==
    /\ Tree(ptr, lev) /\ IsPath(path) /\ Len(path) = part + k
    /\ c \in Seq(Links) /\ Len(c) = part /\ Threaded(path, c) /\ Holds(ptr, c)
    /\ N \in Seq(Blocks) /\ L \in Nat /\ Len(N) = L /\ L > k /\ Unused(lev, N, k)
    /\ SameTree(ptr, lev, q) /\ EndOf(off, path, part, k) /\ Linked(q, N, k, off, L - k)
    /\ BranchLinks(d, c, part, k, N, off) /\ LeadsToBranch(d, c, part, N)

\* The chain is what the pointers in r say, down to a block that is in q already.
BranchFound(r, q, path, d, x) == Holds(r, d) /\ Threaded(path, d) /\ r[x] = q[x]

\* Once the link is stored, the chain of the new branch is what the pointers say.
LEMMA BranchHolds ==
    ASSUME NEW part \in 1 .. 4, NEW k \in 1 .. 3, NEW lev, NEW path, NEW c, NEW N, NEW L, NEW q, NEW off, NEW d,
           BranchMade(lev, path, c, part, k, N, L, q, off, d),
           NEW r, r = Store(q, d[part].bh, d[part].off, d[part].key)
    PROVE  BranchFound(r, q, path, d, N[k])
  <1>0. /\ Tree(ptr, lev) /\ IsPath(path) /\ Len(path) = part + k
        /\ c \in Seq(Links) /\ Len(c) = part /\ Threaded(path, c) /\ Holds(ptr, c)
        /\ N \in Seq(Blocks) /\ L \in Nat /\ Len(N) = L /\ L > k /\ Unused(lev, N, k)
        /\ SameTree(ptr, lev, q) /\ EndOf(off, path, part, k) /\ Linked(q, N, k, off, L - k)
        /\ BranchLinks(d, c, part, k, N, off) /\ LeadsToBranch(d, c, part, N)
    BY DEF BranchMade
  <1>1. \A j \in 1 .. part : Edge(ptr, lev, path, j, c[j].bh) /\ ptr[c[j].bh][c[j].off] = c[j].key
                             /\ c[j].off = path[j]
    BY <1>0, ChainEdges, VerifiedHolds DEF Holds, Threaded
  <1>2. PICK x, o, v : x = c[part].bh /\ o = path[part] /\ v = N[1]
    BY <1>0
  <1>3. part \in 1 .. part
    BY <1>0
  <1>4. Edge(ptr, lev, path, part, x) /\ c[part].off = o
    BY <1>0, <1>1, <1>2, <1>3
  <1>5. x \in Nodes /\ Leads(lev, x) /\ o \in Slots(x) /\ Down(lev, x, o) = k
    BY <1>0, <1>2, <1>4 DEF Edge
  <1>6. \A n \in 1 .. k + 1 : N[n] \in Blocks /\ N[n] # 0 /\ N[n] \in Nodes /\ Slots(N[n]) = Digit
    <2>1. \A n \in 1 .. k + 1 : n \in 1 .. L
      BY <1>0
    <2>2. \A n \in 1 .. k + 1 : N[n] \in Blocks
      BY <1>0, <2>1
    <2> QED BY <1>0, <2>2, NodeFacts
  <1>7. v \in 0 .. NBlocks /\ IsPointers(q)
    <2>1. 1 \in 1 .. k + 1
      BY <1>0
    <2>2. v \in Blocks
      BY <1>0, <1>2, <1>6, <2>1
    <2> QED BY <1>0, <2>2, MapAssumption DEF Blocks, SameTree
  <1>8. d[part].bh = x /\ d[part].off = o /\ d[part].key = v
    BY <1>0, <1>2, <1>4 DEF LeadsToBranch
  <1>9. IsPointers(r) /\ \A y \in Nodes : \A s \in Slots(y) : r[y][s] = IF y = x /\ s = o THEN v ELSE q[y][s]
    <2>1. r = Store(q, x, o, v)
      BY <1>0, <1>8
    <2> QED BY <1>0, <1>5, <1>7, <2>1, Stored
  <1>10. \A n \in 1 .. k : N[n] # x
    <2> SUFFICES ASSUME NEW n \in 1 .. k, N[n] = x PROVE FALSE
      BY <1>0
    <2>1. lev[x] = -1 /\ n \in 1 .. k + 1
      BY <1>0 DEF Unused
    <2>2. x \in Blocks
      BY <1>0, <1>6, <2>1
    <2> QED BY <1>0, <1>5, <2>1, <2>2, NodeFacts DEF Leads
  <1>11. ASSUME NEW j \in 1 .. part - 1 PROVE d[j] = c[j] /\ r[d[j].bh][d[j].off] = d[j].key
    <2>1. j \in 1 .. part /\ j < part
      BY <1>0
    <2>2. PICK y, s : y = c[j].bh /\ s = c[j].off
      BY <1>0
    <2>3. Edge(ptr, lev, path, j, y) /\ s = path[j] /\ ptr[y][s] = c[j].key
      BY <1>0, <1>1, <2>1, <2>2
    <2>4. y \in Nodes /\ Leads(lev, y) /\ s \in Slots(y) /\ Down(lev, y, s) = (part + k) - j
      BY <1>0, <2>3 DEF Edge
    <2>5. ~(y = x /\ s = o)
      BY <1>0, <1>5, <2>1, <2>4
    <2>6. r[y][s] = ptr[y][s]
      BY <1>0, <1>9, <2>4, <2>5 DEF SameTree
    <2>7. d[j] = c[j]
      BY <1>0 DEF BranchLinks
    <2> QED BY <1>0, <2>2, <2>3, <2>6, <2>7
  <1>12. r[d[part].bh][d[part].off] = d[part].key
    BY <1>0, <1>5, <1>8, <1>9
  <1>13. ASSUME NEW n \in 1 .. k
         PROVE  /\ d[part + n].bh = N[n] /\ d[part + n].off = path[part + n] /\ d[part + n].key = N[n + 1]
                /\ r[d[part + n].bh][d[part + n].off] = d[part + n].key
    <2>1. d[part + n].bh = N[n] /\ d[part + n].off = off[n] /\ d[part + n].key = N[n + 1] /\ off[n] = path[part + n]
      BY <1>0 DEF BranchLinks, EndOf
    <2>2. off[n] \in Digit
      <3>1. part + n \in 2 .. part + k
        BY <1>0
      <3> QED BY <1>0, <2>1, <3>1 DEF IsPath
    <2>3. N[n] \in Nodes /\ Slots(N[n]) = Digit
      <3>1. n \in 1 .. k + 1
        BY <1>0
      <3> QED BY <1>0, <1>6, <3>1
    <2>4. r[N[n]][off[n]] = q[N[n]][off[n]]
      BY <1>0, <1>9, <1>10, <2>2, <2>3
    <2> QED BY <1>0, <2>1, <2>4 DEF Linked
  <1>14. Len(d) = part + k
    BY <1>0 DEF BranchLinks
  <1>15. ASSUME NEW j \in 1 .. part + k
         PROVE  j \in 1 .. part - 1 \/ j = part \/ \E n \in 1 .. k : j = part + n
    <2>1. j > part => j - part \in 1 .. k /\ j = part + (j - part)
      BY <1>0
    <2> QED BY <1>0, <2>1
  <1>16. Holds(r, d)
    <2> SUFFICES ASSUME NEW j \in 1 .. part + k PROVE r[d[j].bh][d[j].off] = d[j].key
      BY <1>0, <1>14 DEF Holds
    <2>1. CASE j \in 1 .. part - 1
      BY <1>0, <1>11, <2>1
    <2>2. CASE j = part
      BY <1>0, <1>12, <2>2
    <2>3. ASSUME NEW n \in 1 .. k, j = part + n PROVE r[d[j].bh][d[j].off] = d[j].key
      BY <1>0, <1>13, <2>3
    <2> QED BY <1>0, <1>15, <2>1, <2>2, <2>3
  <1>17. r[N[k]] = q[N[k]]
    <2>1. k \in 1 .. k /\ k \in 1 .. k + 1
      BY <1>0
    <2>2. N[k] \in Nodes /\ N[k] # x
      BY <1>0, <1>6, <1>10, <2>1
    <2>3. /\ r[N[k]] \in [Slots(N[k]) -> 0 .. NBlocks] /\ q[N[k]] \in [Slots(N[k]) -> 0 .. NBlocks]
          /\ \A s \in Slots(N[k]) : r[N[k]][s] = q[N[k]][s]
      BY <1>0, <1>7, <1>9, <2>2 DEF IsPointers
    <2> QED BY ONLY <2>3
  <1>18. d[1].bh = Inode
    <2>1. c[1].bh = Inode
      BY <1>0 DEF Threaded
    <2>2. CASE part = 1
      BY <1>0, <1>2, <1>8, <2>1, <2>2
    <2>3. CASE part # 1
      BY <1>0, <1>11, <2>1, <2>3
    <2> QED BY <1>0, <2>2, <2>3
  <1>19. \A j \in 1 .. part + k : d[j].off = path[j]
    <2> SUFFICES ASSUME NEW j \in 1 .. part + k PROVE d[j].off = path[j]
      BY <1>0
    <2>1. CASE j \in 1 .. part - 1
      <3>1. j \in 1 .. part
        BY <1>0, <2>1
      <3> QED BY <1>0, <1>1, <1>11, <2>1, <3>1
    <2>2. CASE j = part
      BY <1>0, <1>2, <1>8, <2>2
    <2>3. CASE \E n \in 1 .. k : j = part + n
      BY <1>0, <1>13, <2>3
    <2> QED BY <1>0, <1>15, <2>1, <2>2, <2>3
  <1>20. \A j \in 1 .. (part + k) - 1 : d[j + 1].bh = d[j].key /\ d[j].key # 0
    <2> SUFFICES ASSUME NEW j \in 1 .. (part + k) - 1 PROVE d[j + 1].bh = d[j].key /\ d[j].key # 0
      BY <1>0
    <2>0. \A h \in 1 .. part - 1 : c[h + 1].bh = c[h].key /\ c[h].key # 0
      BY <1>0 DEF Threaded
    <2>1. CASE j \in 1 .. part - 1
      <3>1. c[j + 1].bh = c[j].key /\ c[j].key # 0 /\ d[j] = c[j]
        BY <1>0, <1>11, <2>0, <2>1
      <3>2. d[j + 1].bh = c[j + 1].bh
        <4>1. j + 1 = part \/ j + 1 \in 1 .. part - 1
          BY <1>0, <2>1
        <4> QED BY <1>0, <1>2, <1>8, <1>11, <4>1
      <3> QED BY <1>0, <3>1, <3>2
    <2>2. CASE j = part
      <3>1. 1 \in 1 .. k /\ 1 \in 1 .. k + 1
        BY <1>0
      <3> QED BY <1>0, <1>2, <1>6, <1>8, <1>13, <2>2, <3>1
    <2>3. ASSUME NEW n \in 1 .. k, j = part + n PROVE d[j + 1].bh = d[j].key /\ d[j].key # 0
      <3>1. n + 1 \in 1 .. k /\ n + 1 \in 1 .. k + 1 /\ j + 1 = part + (n + 1)
        BY <1>0, <2>3
      <3> QED BY <1>0, <1>6, <1>13, <2>3, <3>1
    <2> QED BY <1>0, <1>15, <2>1, <2>2, <2>3
  <1>21. Threaded(path, d)
    BY <1>0, <1>14, <1>18, <1>19, <1>20 DEF Threaded
  <1> QED BY <1>16, <1>17, <1>21 DEF BranchFound

\* What kr_alloc_branch has made is found once kr_splice_branch has stored the link.
LEMMA BranchLands ==
    ASSUME NEW i \in FileRange, NEW path, path = Offsets(i),
           NEW part \in 1 .. 4, NEW k \in 1 .. 3, NEW lev, NEW c, NEW N, NEW L, NEW q, NEW off, NEW d,
           BranchMade(lev, path, c, part, k, N, L, q, off, d),
           NEW b \in Nat, b = boundary(PtrBits, i), L - k <= b + 1, i + (L - k) - 1 <= LastBlock
    PROVE  Lands(q, d[part], i, N[k + 1], L - k)
  <1>1. PICK r : r = Store(q, d[part].bh, d[part].off, d[part].key)
    OBVIOUS
  <1>2. /\ IsPath(path) /\ Len(path) = part + k /\ EndOf(off, path, part, k) /\ Linked(q, N, k, off, L - k)
        /\ BranchLinks(d, c, part, k, N, off) /\ N \in Seq(Blocks) /\ L \in Nat /\ Len(N) = L /\ L > k
    BY DEF BranchMade
  <1>3. Holds(r, d) /\ Threaded(path, d) /\ r[N[k]] = q[N[k]]
    BY <1>1, BranchHolds DEF BranchFound
  <1>4. PICK n \in 1 .. 4 : n = part + k /\ Len(path) = n /\ n > 1
    <2>1. Len(path) \in 1 .. 4 /\ Len(path) = part + k
      BY <1>2, Zenon DEF IsPath
    <2>2. part + k > 1
      BY ONLY part \in 1 .. 4, k \in 1 .. 3
    <2>3. \E n \in 1 .. 4 : n = part + k /\ Len(path) = n /\ n > 1
      BY <2>1, <2>2, Zenon
    <2> QED BY <2>3, Zenon
  <1>5. Follows(r, path, d)
    BY <1>3, <1>4, ChainWalk
  <1>6. k \in 1 .. k
    OBVIOUS
  <1>7. Len(d) = n /\ d[n].bh = N[k] /\ off[k] = path[n]
    BY <1>2, <1>4, <1>6 DEF BranchLinks, EndOf
  <1>8. Parent(Walk(path, r), n) = N[k]
    <2>1. n \in 1 .. Len(d)
      BY <1>7
    <2> QED BY <1>5, <1>7, <2>1 DEF Follows
  <1>9. N[k] # 0
    <2>1. k \in 1 .. L
      BY <1>2
    <2>2. N[k] \in Blocks
      BY <1>2, <2>1
    <2> QED BY <2>2, NodeFacts
  <1>10. IsSlot(r, i, N[k], off[k])
    BY <1>4, <1>7, <1>8, <1>9 DEF IsSlot
  <1> SUFFICES ASSUME NEW j \in 0 .. (L - k) - 1 PROVE MapOf(r)[i + j] = N[k + 1] + j
    BY <1>1 DEF Lands
  <1>11. j \in 0 .. b /\ i + j \in FileRange
    <2>1. LastBlock \in Nat /\ i \in 0 .. LastBlock
      BY MapAssumption DEF FileRange
    <2>2. j \in 0 .. b /\ i + j \in 0 .. LastBlock
      BY ONLY <1>2, <2>1, k \in 1 .. 3, b \in Nat, j \in 0 .. (L - k) - 1, L - k <= b + 1,
              i + (L - k) - 1 <= LastBlock
    <2> QED BY <2>2 DEF FileRange
  <1>12. MapOf(r)[i + j] = r[N[k]][off[k] + j]
    <2>1. Within(i, j)
      BY <1>11 DEF Within
    <2> QED BY <1>10, <2>1, NextMapped
  <1>13. off[k] + j \in Digit
    BY <1>4, <1>7, <1>11, BoundaryFacts
  <1>14. q[N[k]][off[k] + j] = N[k + 1] + j
    BY <1>2, <1>13 DEF Linked
  <1> QED BY <1>3, <1>12, <1>14

\* kr_alloc_branch: what is made now will be found, and nothing is yet.
LEMMA SetUpBranchLook ==
    ASSUME Inv, Inv', MapInv, PageInv, LookInv, Watch, NEW t \in Tasks, SetUpBranch(t)
    PROVE  PageInv' /\ LookInv'
  <1>0. pc[t] = "setup" /\ pc[t] \in Holding /\ pc[t] \in Mapping /\ Still /\ i_size' = i_size
    BY DEF SetUpBranch, At, Holding, Mapping, Still
  <1>1. PICK f \in Frames : f = fr[t] /\ Path(t) = Offsets(f.iblock) /\ DOMAIN fr = Tasks /\ f.iblock \in FileRange
    BY PathFacts, FrameFields
  <1>2. PICK path : path = Path(t) /\ path = Offsets(f.iblock) /\ IsPath(path)
    BY <1>1, PathFacts
  <1>3. PICK lev \in Levels : Tree(ptr, lev) /\ NewOK(lev, f) /\ RunOK(f)
    BY <1>0, <1>1 DEF Inv, LevelInv, HandOK, Sound
  <1>4. PICK n \in 1 .. 4 : Len(path) = n
    BY <1>2 DEF IsPath
  <1>5. PICK k \in 0 .. 3 : k = Missing(t) /\ k = Len(path) - f.partial
    <2>1. f.partial \in 1 .. n
      BY <1>2, <1>3, <1>4 DEF NewOK
    <2>2. Missing(t) = n - f.partial /\ n - f.partial \in 0 .. 3
      BY <1>1, <1>2, <1>4, <2>1 DEF Missing
    <2> QED BY <1>4, <2>2
  <1>6. CASE GiveUp(t, "ENOMEM") /\ ptr' = ptr
    BY <1>0, <1>6, GiveUpLook
  <1>7. ASSUME ptr' = [b \in Nodes |-> IF b \in DOMAIN NewPointers(t) THEN NewPointers(t)[b] ELSE ptr[b]],
               fr' = [fr EXCEPT ![t].chain = [@ EXCEPT ![f.partial].key = f.new[1]] \o
                          [m \in 1 .. k |-> [bh |-> f.new[m], off |-> path[f.partial + m], key |-> f.new[m + 1]]],
                                ![t].count = Len(f.new) - k],
               Goto(t, IF Dax THEN "zero" ELSE "splice")
        PROVE  PageInv' /\ LookInv'
    <2>1. PICK off, q : off = [m \in 1 .. k |-> path[f.partial + m]] /\ q = ptr'
      OBVIOUS
    <2>2. NewCells(ptr, q, f.new, k, off)
      BY <1>1, <1>2, <1>3, <1>5, <1>7, <2>1, NewPointersCells
    <2>3. PICK N \in Seq(Blocks), L \in Nat : N = f.new /\ L = Len(N)
      BY FrameFields
    <2>4. L > k /\ \A m \in 1 .. L : lev[N[m]] = -1 /\ N[m] \in Blocks
      BY <1>2, <1>3, <1>5, <2>3 DEF NewOK, RunOK
    <2>5. SameTree(ptr, lev, q)
      <3>1. IsPointers(q)
        BY <2>1 DEF Inv, LevelInv, Sound, Tree
      <3> SUFFICES ASSUME NEW x \in Nodes, Leads(lev, x) PROVE q[x] = ptr[x]
        BY <3>1 DEF SameTree
      <3>2. \A m \in 1 .. k : N[m] # x
        <4> SUFFICES ASSUME NEW m \in 1 .. k, N[m] = x PROVE FALSE
          OBVIOUS
        <4>1. lev[x] = -1 /\ x \in Blocks
          BY <2>4
        <4> QED BY <4>1, NodeFacts DEF Leads
      <3> QED BY <2>2, <2>3, <3>2 DEF NewCells
    <2>6. Tree(q, lev) /\ Spares
      <3>1. Tree(q, lev)
        BY <1>3, <2>5, TreeSame DEF SameTree
      <3>2. Extends(ptr, lev, q)
        BY <2>5 DEF Extends, SameTree
      <3> QED BY <1>3, <2>1, <3>1, <3>2, ExtendsSpares
    <2>9. PICK d, g, l :
              /\ d = ExtendedChain(f.chain, f.partial, k, N, off)
              /\ g = [f EXCEPT !.chain = d, !.count = L - k]
              /\ l = IF Dax THEN "zero" ELSE "splice"
      OBVIOUS
    <2>10. fr' = [fr EXCEPT ![t] = g] /\ pc' = [pc EXCEPT ![t] = l]
      <3>1. d = [f.chain EXCEPT ![f.partial].key = f.new[1]] \o
                [m \in 1 .. k |-> [bh |-> f.new[m], off |-> path[f.partial + m], key |-> f.new[m + 1]]]
        BY ONLY <2>1, <2>3, <2>9 DEF ExtendedChain
      <3>2. fr' = [fr EXCEPT ![t].chain = d, ![t].count = L - k]
        BY <1>1, <1>7, <2>3, <3>1
      <3> QED BY ONLY <1>1, <1>7, <2>9, <3>2 DEF Goto
    <2>11. PICK c \in Seq(Links), part \in 1 .. 4 : c = f.chain /\ part = f.partial /\ Len(c) = part
      <3>1. f.partial \in 1 .. Len(path) /\ Len(f.chain) = f.partial
        BY <1>2, <1>3 DEF NewOK
      <3>2. f.partial \in 1 .. 4 /\ f.chain \in Seq(Links)
        BY <1>4, <3>1, FrameFields
      <3> QED BY ONLY <3>1, <3>2
    <2>12. n = part + k /\ Len(path) = part + k
      BY <1>4, <1>5, <2>11
    <2>13. d = ExtendedChain(c, part, k, N, off)
      BY ONLY <2>9, <2>11
    <2>14. LeadsToBranch(d, c, part, N)
      <3>1. \A m \in 1 .. k : off[m] \in Nat
        <4>1. \A m \in 1 .. k : off[m] \in Digit
          BY <2>2 DEF NewCells
        <4>2. \A o \in Digit : o \in Nat
          BY PtrsNat DEF Digit
        <4> QED BY ONLY <4>1, <4>2
      <3>2. off \in [1 .. k -> Nat] /\ Len(N) > k
        BY ONLY <2>1, <2>3, <2>4, <3>1
      <3> QED BY ONLY <2>11, <2>13, <3>2, ChainExtended, N \in Seq(Blocks), k \in 0 .. 3, c \in Seq(Links), part \in 1 .. 4
    <2>15. BranchLinks(d, c, part, k, N, off)
      BY <2>11, <2>13, ChainLinks
    <2>16. /\ g.chain = d /\ g.count = L - k /\ g.partial = part /\ g.done = f.done
           /\ g.iblock = f.iblock /\ g.max = f.max /\ g.kind = f.kind
      BY <2>9, <2>11 DEF Frames
    <2>17. Only(t) /\ pc'[t] = l /\ fr'[t] = g /\ l \in {"zero", "splice"}
      BY <2>9, <2>10, Moved
    <2>18. PICK b \in Nat : b = boundary(PtrBits, f.iblock)
      BY <1>1, <1>2, BoundaryFacts DEF IsPath
    <2>19. Threaded(path, c) /\ Holds(ptr, c) /\ L - k <= b + 1 /\ L - k > 0
      <3>1. LandOK(ptr, "setup", f) /\ f.want \in Nat
        BY <1>0, <1>1, LookFacts, FrameFields
      <3>2. Threaded(path, c) /\ Holds(ptr, c) /\ L + f.want <= k + (b + 1)
        BY <1>2, <1>5, <2>3, <2>11, <2>18, <3>1 DEF LandOK
      <3> QED BY <2>4, <3>1, <3>2
    <2>20. f.iblock + (L - k) - 1 <= LastBlock /\ f.done = 0
      <3>1. CountOK("setup", f) /\ LocalOK("setup", f)
        BY <1>0, <1>1, TaskFacts, PathFacts
      <3>2. L + f.want <= k + f.max /\ f.iblock + f.max - 1 <= LastBlock
        BY <1>2, <1>5, <2>3, <3>1 DEF CountOK, LocalOK, Mapping
      <3>3. f.want \in Nat /\ f.max \in Nat /\ f.iblock \in Nat /\ LastBlock \in Nat
        BY <1>1, FrameFields, MapAssumption DEF FileRange
      <3>4. f.iblock + (L - k) - 1 <= LastBlock
        BY ONLY <3>2, <3>3, L \in Nat, k \in 0 .. 3
      <3> QED BY <1>3, <3>4 DEF NewOK
    <2>21. k = 0 => Len(d) = part /\ OnPath(q, g)
      <3> SUFFICES ASSUME k = 0 PROVE Len(d) = part /\ OnPath(q, g)
        OBVIOUS
      <3>1. Len(d) = part /\ n = part
        BY <2>12, <2>15 DEF BranchLinks
      <3>2. Follows(ptr, path, c)
        BY <1>4, <2>19, ChainWalk
      <3>3. part \in 1 .. Len(c)
        BY <2>11
      <3>4. Parent(Walk(path, ptr), part) = c[part].bh /\ path[part] = c[part].off
        BY <2>19, <3>2, <3>3 DEF Follows, Threaded
      <3>5. \A m \in 1 .. Len(path) : Walk(path, q)[m] = Walk(path, ptr)[m]
        BY <1>2, <1>3, <2>5, <2>6, MapSame DEF SameTree
      <3>6. Parent(Walk(path, q), part) = Parent(Walk(path, ptr), part)
        <4>1. part # 1 => part - 1 \in 1 .. Len(path)
          BY <1>4, <3>1
        <4> QED BY <3>5, <4>1 DEF Parent
      <3>7. d[part].bh = c[part].bh /\ d[part].off = c[part].off
        BY <2>14 DEF LeadsToBranch
      <3> QED BY <1>2, <2>16, <3>1, <3>4, <3>6, <3>7 DEF OnPath
    <2>22. k > 0 => Lands(q, d[part], f.iblock, N[k + 1], L - k) /\ LastKey(g) = N[k + 1]
      <3> SUFFICES ASSUME k > 0 PROVE Lands(q, d[part], f.iblock, N[k + 1], L - k) /\ LastKey(g) = N[k + 1]
        OBVIOUS
      <3>1. k \in 1 .. 3
        OBVIOUS
      <3>2. Linked(q, N, k, off, L - k)
        BY <2>2, <2>3, <2>4, <3>1, CellsLinked
      <3>3. EndOf(off, path, part, k)
        BY <2>1, <2>11 DEF EndOf
      <3>4. Unused(lev, N, k)
        BY <2>4 DEF Unused
      <3>5. Lands(q, d[part], f.iblock, N[k + 1], L - k)
        <4>1. BranchMade(lev, path, c, part, k, N, L, q, off, d)
          BY <1>2, <1>3, <2>3, <2>4, <2>5, <2>11, <2>12, <2>14, <2>15, <2>19, <3>2, <3>3, <3>4 DEF BranchMade
        <4> QED BY <1>1, <1>2, <2>18, <2>19, <2>20, <3>1, <4>1, BranchLands
      <3>6. LastKey(g) = N[k + 1]
        <4>1. k \in 1 .. k
          BY <3>1
        <4>2. Len(d) = part + k /\ d[part + k].key = N[k + 1]
          BY <2>15, <4>1 DEF BranchLinks
        <4> QED BY <2>16, <4>2 DEF LastKey
      <3> QED BY <3>5, <3>6
    <2>23. LandOK(q, l, g)
      <3>1. Len(Offsets(g.iblock)) - g.partial = k /\ boundary(PtrBits, g.iblock) = b
        BY <1>2, <1>5, <2>11, <2>16, <2>18
      <3>2. /\ g.count <= b + 1 /\ g.count > 0 /\ g.done = 0
            /\ k = 0 => Len(g.chain) = g.partial /\ OnPath(q, g)
            /\ k > 0 => Lands(q, g.chain[g.partial], g.iblock, LastKey(g), g.count)
        BY <2>16, <2>19, <2>20, <2>21, <2>22
      <3> QED BY ONLY <2>17, <3>1, <3>2 DEF LandOK
    <2>24. AddOK(q, l, g)
      BY <2>17 DEF AddOK
    <2>25. PICK s : s = seen'[t]
      OBVIOUS
    <2>26. SeenOK(l, g, s)
      <3>1. SeenRun(s, LastKey(g), g.done)
        BY <2>16, <2>20 DEF SeenRun
      <3> QED BY ONLY <2>17, <3>1 DEF SeenOK, Walking
    <2>27. mutex \in {t, None}
      BY <1>0, Holder
    <2>28. LookInv'
      BY <2>1, <2>6, <2>17, <2>23, <2>24, <2>25, <2>26, <2>27, LookStep
    <2>29. PageInv'
      BY <1>0, <1>1, <2>16, <2>17, PagesGo DEF Goes, Lookups, Mapping
    <2> QED BY <2>28, <2>29
  <1> QED BY <1>1, <1>2, <1>5, <1>6, <1>7 DEF SetUpBranch

-----------------------------------------------------------------------------
(***************************************************************************)
(* Other files, and the system as a whole.                                 *)
(***************************************************************************)

\* The tree that the link w completes is the same one in p and in q.
LEMMA LandsSame ==
    ASSUME NEW p, NEW lev, Tree(p, lev), NEW q, SameTree(p, lev, q), NEW w \in Links, NEW k,
           Spot(lev, w.bh, w.off, k), w.key \in Blocks, lev[w.key] = k, Loose(p, lev, w.key),
           NEW i, NEW first, NEW n, Lands(p, w, i, first, n)
    PROVE  Lands(q, w, i, first, n)
  <1>1. PICK r, s : r = Store(p, w.bh, w.off, w.key) /\ s = Store(q, w.bh, w.off, w.key)
    OBVIOUS
  <1>2. Tree(r, lev)
    BY <1>1, HookedIn
  <1>3. w.bh \in Nodes /\ w.off \in Slots(w.bh) /\ w.key \in 0 .. NBlocks /\ IsPointers(p) /\ IsPointers(q)
    BY MapAssumption DEF Spot, Blocks, Tree, SameTree
  <1>4. /\ IsPointers(r)
        /\ \A y \in Nodes : \A o \in Slots(y) : r[y][o] = IF y = w.bh /\ o = w.off THEN w.key ELSE p[y][o]
    BY <1>1, <1>3, Stored
  <1>5. /\ IsPointers(s)
        /\ \A y \in Nodes : \A o \in Slots(y) : s[y][o] = IF y = w.bh /\ o = w.off THEN w.key ELSE q[y][o]
    BY <1>1, <1>3, Stored
  <1>6. ASSUME NEW x \in Nodes, Leads(lev, x) PROVE s[x] = r[x]
    <2>1. q[x] = p[x]
      BY <1>6 DEF SameTree
    <2>2. r[x] \in [Slots(x) -> 0 .. NBlocks] /\ s[x] \in [Slots(x) -> 0 .. NBlocks]
      BY <1>4, <1>5 DEF IsPointers
    <2>3. \A o \in Slots(x) : s[x][o] = r[x][o]
      BY <1>4, <1>5, <2>1
    <2> QED BY ONLY <2>2, <2>3
  <1>7. MapOf(s) = MapOf(r)
    BY <1>2, <1>5, <1>6, TreeSame
  <1> HIDE DEF MapOf
  <1> QED BY <1>1, <1>7 DEF Lands

\* What is to be spliced in is not touched when blocks that are not the file's are written to.
LEMMA LandSame ==
    ASSUME Inv, NEW lev \in Levels, Tree(ptr, lev), NEW q, SameTree(ptr, lev, q), NEW u \in Tasks,
           HandOK(lev, pc[u], fr[u]), LandOK(ptr, pc[u], fr[u])
    PROVE  LandOK(q, pc[u], fr[u])
  <1>1. PICK f \in Frames : f = fr[u] /\ f.done \in Nat /\ f.iblock \in FileRange /\ f.chain \in Seq(Links)
    BY PathFacts, FrameFields
  <1>2. PICK l : l = pc[u]
    OBVIOUS
  <1>3. PICK path : path = Offsets(f.iblock) /\ IsPath(path)
    BY <1>1, PathFacts
  <1>4. PICK n \in 1 .. 4 : Len(path) = n
    BY <1>3 DEF IsPath
  <1>5. PICK k \in Int : k = Len(path) - f.partial
    <2>1. f.partial \in 0 .. 4
      BY FrameFields
    <2> QED BY <1>4, <2>1
  <1>6. Len(Offsets(f.iblock)) - f.partial = k
    BY <1>3, <1>5
  <1>7. HandOK(lev, l, f) /\ LandOK(ptr, l, f)
    BY <1>1, <1>2
  <1>8. ASSUME l \in {"alloc", "setup"} PROVE Holds(q, f.chain)
    <2>1. Threaded(path, f.chain) /\ Holds(ptr, f.chain)
      BY <1>3, <1>7, <1>8 DEF LandOK
    <2>2. \A j \in 1 .. Len(f.chain) : Edge(ptr, lev, path, j, f.chain[j].bh)
      BY <1>3, <2>1, ChainEdges, VerifiedHolds
    <2>3. \A j \in 1 .. Len(f.chain) : q[f.chain[j].bh] = ptr[f.chain[j].bh]
      BY <2>2 DEF Edge, SameTree
    <2> QED BY ONLY <2>1, <2>3 DEF Holds
  <1>9. ASSUME l \in {"zero", "splice"}, k = 0 PROVE OnPath(q, f)
    <2>1. OnPath(ptr, f) /\ f.partial = n
      <3>1. f.partial \in 0 .. 4
        BY FrameFields
      <3>2. OnPath(ptr, f)
        BY <1>6, <1>7, <1>9 DEF LandOK
      <3> QED BY <1>4, <1>5, <1>9, <3>1, <3>2
    <2>2. Tree(q, lev)
      BY TreeSame DEF SameTree
    <2>3. \A m \in 1 .. Len(path) : Walk(path, q)[m] = Walk(path, ptr)[m]
      BY <1>3, <2>2, MapSame DEF SameTree
    <2>4. Parent(Walk(path, q), n) = Parent(Walk(path, ptr), n)
      <3>1. n # 1 => n - 1 \in 1 .. Len(path)
        BY <1>4
      <3> QED BY <2>3, <3>1 DEF Parent
    <2> QED BY <1>3, <2>1, <2>4 DEF OnPath
  <1>10. ASSUME l \in {"zero", "splice"}, k > 0
         PROVE  Lands(q, f.chain[f.partial], f.iblock, LastKey(f), f.count)
    <2>1. Lands(ptr, f.chain[f.partial], f.iblock, LastKey(f), f.count)
      BY <1>6, <1>7, <1>10 DEF LandOK
    <2>2. SpliceOK(lev, f)
      BY <1>7, <1>10 DEF HandOK
    <2>3. f.done = 0 /\ 0 \in f.done .. LastSpliced(f) /\ f.partial \in 1 .. Len(f.chain)
      <3>1. LastSpliced(f) = 0 /\ f.done <= LastSpliced(f) /\ f.partial \in 1 .. Len(f.chain)
        BY <1>6, <1>10, <2>2 DEF LastSpliced, SpliceOK
      <3> QED BY <1>1, <3>1
    <2>4. PICK w : w = f.chain[f.partial]
      OBVIOUS
    <2>5. w \in Links
      BY <1>1, <2>3, <2>4
    <2>6. /\ w.key + 0 \in Blocks /\ lev[w.key + 0] = k /\ Loose(ptr, lev, w.key + 0)
          /\ Spot(lev, w.bh, w.off + 0, k)
      BY <1>6, <2>2, <2>3, <2>4 DEF SpliceOK
    <2>7. w.key + 0 = w.key /\ w.off + 0 = w.off
      BY <2>5, MapAssumption DEF Links
    <2>8. w.key \in Blocks /\ lev[w.key] = k /\ Loose(ptr, lev, w.key) /\ Spot(lev, w.bh, w.off, k)
      BY <2>6, <2>7
    <2>9. Lands(ptr, w, f.iblock, LastKey(f), f.count)
      BY <2>1, <2>4
    <2>10. Lands(q, w, f.iblock, LastKey(f), f.count)
      BY <2>5, <2>8, <2>9, LandsSame
    <2> QED BY <2>4, <2>10
  <1>11. LandOK(q, l, f)
    BY ONLY <1>6, <1>7, <1>8, <1>9, <1>10 DEF LandOK
  <1> QED BY <1>1, <1>2, <1>11

\* Another file takes a block and writes to it.
LEMMA OtherTakesLook == ASSUME Inv, PageInv, LookInv, Watch, OtherTakes PROVE PageInv' /\ LookInv'
  <1>1. PICK b \in free : ptr' = [ptr EXCEPT ![b] = [o \in 0 .. Ptrs - 1 |-> b]]
    BY DEF OtherTakes
  <1>2. UNCHANGED <<pc, fr, i_size>>
    BY DEF OtherTakes
  <1>3. PICK lev \in Levels : Sound(lev) /\ \A u \in Tasks : HandOK(lev, pc[u], fr[u])
    BY DEF Inv, LevelInv
  <1>4. b \in Blocks /\ lev[b] = -1 /\ b \in Nodes /\ b # Inode /\ Slots(b) = Digit /\ b \in 0 .. NBlocks
    BY <1>1, <1>3, NodeFacts DEF Sound, Blocks
  <1>5. Tree(ptr, lev) /\ DOMAIN ptr = Nodes
    BY <1>3 DEF Sound, Tree, IsPointers
  <1>6. PICK q : q = ptr'
    OBVIOUS
  <1>7. /\ DOMAIN q = Nodes /\ q[b] \in [Slots(b) -> 0 .. NBlocks]
        /\ \A x \in Nodes : x # b => q[x] = ptr[x]
    BY <1>1, <1>4, <1>5, <1>6 DEF Digit
  <1>8. SameTree(ptr, lev, q)
    <2>1. \A x \in Nodes : Leads(lev, x) => q[x] = ptr[x]
      BY <1>4, <1>7 DEF Leads
    <2>2. IsPointers(q)
      BY <1>5, <1>7 DEF IsPointers, Tree
    <2> QED BY <2>1, <2>2 DEF SameTree
  <1>9. Spares
    <2>1. Extends(ptr, lev, q)
      BY <1>8 DEF Extends, SameTree
    <2> QED BY <1>5, <1>6, <2>1, ExtendsSpares
  <1>10. ASSUME NEW u \in Tasks
         PROVE  AddOK(q, pc[u], fr[u]) /\ LandOK(q, pc[u], fr[u]) /\ SeenOK(pc[u], fr[u], seen'[u])
    <2>1. AddOK(ptr, pc[u], fr[u]) /\ LandOK(ptr, pc[u], fr[u]) /\ SeenOK(pc[u], fr[u], seen[u])
      BY LookFacts
    <2>2. AddOK(q, pc[u], fr[u])
      BY <1>6, <1>9, <2>1 DEF AddOK, Spares
    <2>3. LandOK(q, pc[u], fr[u])
      BY <1>3, <1>5, <1>8, <2>1, LandSame
    <2>4. (pc[u] \in Watched /\ fr[u].kind # "bmap") => seen[u] \subseteq seen'[u]
      BY <1>2, WatchFacts
    <2>5. SeenOK(pc[u], fr[u], seen'[u])
      BY <2>1, <2>4, SeenKept
    <2> QED BY <2>2, <2>3, <2>5
  <1>11. LookInv'
    BY <1>2, <1>6, <1>10 DEF LookInv
  <1>12. PageInv'
    BY <1>2 DEF PageInv, PageOK
  <1> QED BY <1>11, <1>12

\* Another file gives a block back: nothing of this one changes.
LEMMA OtherReleasesLook == ASSUME Inv, PageInv, LookInv, Watch, OtherReleases PROVE PageInv' /\ LookInv'
  <1>1. UNCHANGED <<ptr, pc, fr, i_size>>
    BY DEF OtherReleases
  <1>2. ASSUME NEW u \in Tasks
        PROVE  AddOK(ptr, pc[u], fr[u]) /\ LandOK(ptr, pc[u], fr[u]) /\ SeenOK(pc[u], fr[u], seen'[u])
    <2>1. AddOK(ptr, pc[u], fr[u]) /\ LandOK(ptr, pc[u], fr[u]) /\ SeenOK(pc[u], fr[u], seen[u])
      BY LookFacts
    <2>2. (pc[u] \in Watched /\ fr[u].kind # "bmap") => seen[u] \subseteq seen'[u]
      BY <1>1, WatchFacts
    <2>3. SeenOK(pc[u], fr[u], seen'[u])
      BY <2>1, <2>2, SeenKept
    <2> QED BY <2>1, <2>3
  <1>3. LookInv'
    BY <1>1, <1>2 DEF LookInv
  <1>4. PageInv'
    BY <1>1 DEF PageInv, PageOK
  <1> QED BY <1>3, <1>4

\* At the start nobody is in a call.
LEMMA InitLook == ASSUME Init PROVE PageInv /\ LookInv
  <1>1. ASSUME NEW u \in Tasks PROVE pc[u] = "idle"
    BY DEF Init
  <1>2. "idle" \notin Watched /\ "idle" \notin Lookups
    BY DEF Watched, Lookups, Walking, Mapping
  <1>3. ASSUME NEW u \in Tasks
        PROVE  AddOK(ptr, pc[u], fr[u]) /\ LandOK(ptr, pc[u], fr[u]) /\ SeenOK(pc[u], fr[u], seen[u])
    BY <1>1, <1>2, OutsideOK
  <1>4. LookInv
    BY <1>3 DEF LookInv
  <1>5. PageInv
    BY <1>1, <1>2 DEF PageInv, PageOK
  <1> QED BY <1>4, <1>5

\* Every step of a task.
LEMMA StepLook ==
    ASSUME ~IOErrors, Inv, Inv', MapInv, PageInv, LookInv, Watch, NEW t \in Tasks, Step(t)
    PROVE  PageInv' /\ LookInv'
  BY FirstLinkLook, BreadLook, AddLinkLook, MapMoreLook, AbsentLook, LockTreeLook, AllocBlocksLook,
     SetUpBranchLook, ZeroOutLook, SpliceLook, ReturnLook, WriteEndLook, WaitForPagesLook, TruncateLook,
     FindSharedLook, FreeWorkLook, TruncateDoneLook, Zenon DEF Step

\* Every step of the system.
LEMMA NextLook ==
    ASSUME ~IOErrors, Inv, Inv', MapInv, PageInv, LookInv, [Next]_vars
    PROVE  PageInv' /\ LookInv'
  <1>1. CASE UNCHANGED vars
    <2>1. UNCHANGED <<ptr, pc, fr, i_size, seen>>
      BY <1>1 DEF vars, disk
    <2>2. LookInv'
      BY <2>1 DEF LookInv
    <2>3. PageInv'
      BY <2>1 DEF PageInv, PageOK
    <2> QED BY <2>2, <2>3
  <1>2. ASSUME NEW t \in Tasks, GetBlock(t) \/ SetSize(t) \/ Evict(t) \/ Step(t), Watch
        PROVE  PageInv' /\ LookInv'
    BY <1>2, GetBlockLook, SetSizeLook, EvictLook, StepLook
  <1>3. CASE OtherTakes /\ Watch
    BY <1>3, OtherTakesLook
  <1>4. CASE OtherReleases /\ Watch
    BY <1>4, OtherReleasesLook
  <1> QED BY <1>1, <1>2, <1>3, <1>4 DEF Next

\* When the indirect blocks can be read and the new blocks zeroed, kr_get_blocks answers
\* right though it walks the tree without a lock, whatever the geometry and however the
\* calls interleave: the blocks that a read, a write or a writeback is given, and the hole
\* that a read is told of, are what the map said of each of them at some time during the
\* call.  The page that the call holds keeps truncations waiting; verify_chain, the read
\* of the chain again under truncate_mutex and the order of the stores of
\* kr_alloc_branch and kr_splice_branch do the rest.
THEOREM LookupsAnswerRight == ASSUME ~IOErrors PROVE Spec => []LookupsLinearize
  <1>1. Init => Inv /\ SizeOK /\ MapInv /\ PageInv /\ LookInv
    BY InitInv, InitSizeOK, InitMap, InitLook
  <1>2. Inv /\ SizeOK /\ MapInv /\ PageInv /\ LookInv /\ [Next]_vars =>
            (Inv /\ SizeOK /\ MapInv /\ PageInv /\ LookInv)'
    BY NextRefines, NextLook
  <1>3. LookInv => LookupsLinearize
    BY DEF LookInv, LookupsLinearize, SeenOK, SeenRun, LastKey, At
  <1> QED BY <1>1, <1>2, <1>3, PTL DEF Spec
=============================================================================
