------------------------------ MODULE KrDirProofs ------------------------------
(***************************************************************************)
(* Proofs about the records of a directory (KrDir).                        *)
(*                                                                         *)
(* Everything rests on one set: the offsets at which records begin.        *)
(* Tiling(m, size, R) says that the records at R, with the lengths they    *)
(* have in m, cover a directory of that size without gap or overlap and    *)
(* that no record crosses the edge of a chunk.  A walk of kr_next_entry    *)
(* from a record of such a set meets the records of R up to the end of the *)
(* page and nothing else (WalkIs), whatever stale bytes lie between them,  *)
(* so that Records is R.  Each change of the directory leads from a tiling *)
(* to a tiling: a new chunk and the split of a record add an offset, and a *)
(* merge takes one away.                                                   *)
(***************************************************************************)
EXTENDS KrDir, FiniteSetTheorems, WellFoundedInduction, TLAPS

-----------------------------------------------------------------------------
(* Arithmetic.                                                             *)

\* A product grows with its factor.
LEMMA ProductGrows ==
    ASSUME NEW n \in Nat, NEW a \in Nat, NEW c \in Nat, a < c
    PROVE  n * a \in Nat /\ n * c \in Nat /\ n * a + n <= n * c
  <1>1. PICK d \in Nat : c = a + 1 + d
    <2>1. c - a - 1 \in Nat /\ c = a + 1 + (c - a - 1)
      OBVIOUS
    <2> QED BY <2>1
  <1>2. n * c = n * a + n + n * d
    BY <1>1
  <1>3. n * a \in Nat /\ n * c \in Nat /\ n * d \in Nat
    BY <1>1
  <1> QED BY <1>2, <1>3

\* Numbers with two digits are in the order of their digits.
LEMMA DigitsOrder ==
    ASSUME NEW n \in Nat, n >= 1, NEW a \in Nat, NEW c \in Nat,
           NEW b \in 0 .. n - 1, NEW d \in 0 .. n - 1
    PROVE  /\ n * a + b \in Nat /\ n * c + d \in Nat
           /\ n * a + b < n * c + d => a < c \/ (a = c /\ b < d)
           /\ a < c => n * a + b < n * c
           /\ n * a + b < n * c => a < c
  <1>1. n * a \in Nat /\ n * c \in Nat
    OBVIOUS
  <1>2. a < c => n * a + n <= n * c
    BY ProductGrows
  <1>3. c < a => n * c + n <= n * a
    BY ProductGrows
  <1>4. a = c => n * a = n * c
    OBVIOUS
  <1>5. a < c \/ a = c \/ c < a
    OBVIOUS
  <1> DEFINE x == n * a
             y == n * c
  <1> HIDE DEF x, y
  <1>6. /\ x \in Nat /\ y \in Nat
        /\ a < c => x + n <= y
        /\ c < a => y + n <= x
        /\ a = c => x = y
    BY <1>1, <1>2, <1>3, <1>4 DEF x, y
  <1>7. /\ x + b \in Nat /\ y + d \in Nat
        /\ x + b < y + d => a < c \/ (a = c /\ b < d)
        /\ a < c => x + b < y
        /\ x + b < y => a < c
    BY <1>5, <1>6
  <1> QED BY <1>7 DEF x, y

\* The digits of a number.
LEMMA Digits ==
    ASSUME NEW n \in Nat, n >= 1, NEW x \in Nat
    PROVE  x \div n \in Nat /\ x % n \in 0 .. n - 1 /\ x = n * (x \div n) + (x % n)
  <1>1. x \div n \in Int /\ x % n \in 0 .. n - 1 /\ x = n * (x \div n) + (x % n)
    OBVIOUS
  <1> DEFINE q == x \div n
  <1> HIDE DEF q
  <1>2. q \in Int /\ n * q + n > x
    BY <1>1 DEF q
  <1>3. ~(q < 0)
    <2> SUFFICES ASSUME q < 0 PROVE FALSE
      OBVIOUS
    <2>1. PICK d \in Nat : q = 0 - 1 - d
      <3>1. 0 - q - 1 \in Nat /\ q = 0 - 1 - (0 - q - 1)
        BY <1>2
      <3> QED BY <3>1
    <2>2. n * q + n = 0 - n * d
      BY <2>1
    <2>3. n * d \in Nat
      BY <2>1
    <2> QED BY <1>2, <2>2, <2>3
  <1>4. q \in Nat
    BY <1>2, <1>3
  <1> QED BY ONLY <1>1, <1>4, Zenon DEF q

\* A quotient is the only number that may be one.
LEMMA Quotient ==
    ASSUME NEW n \in Nat, n >= 1, NEW q \in Nat, NEW r \in 0 .. n - 1
    PROVE  (n * q + r) \div n = q
  <1> DEFINE x == n * q + r
  <1>1. x \in Nat
    OBVIOUS
  <1> HIDE DEF x
  <1> DEFINE p == x \div n
             s == x % n
  <1>2. p \in Nat /\ s \in 0 .. n - 1 /\ x = n * p + s
    BY <1>1, Digits
  <1> HIDE DEF p, s
  <1>3. n * p + s = n * q + r
    BY <1>2 DEF x
  <1>4. (p < q => n * p + s < n * q) /\ (q < p => n * q + r < n * p)
    BY <1>2, DigitsOrder
  <1>5. n * p \in Nat /\ n * q \in Nat
    BY <1>2
  <1>6. ~(p < q)
    BY <1>3, <1>4, <1>5, <1>2
  <1>7. ~(q < p)
    BY <1>3, <1>4, <1>5, <1>2
  <1>8. p = q
    BY <1>2, <1>6, <1>7
  <1> QED BY <1>8 DEF p, x

\* The least element of a set of numbers.
LEMMA MinIsLeast ==
    ASSUME NEW S \in SUBSET Nat, S # {}
    PROVE  Min(S) \in S /\ \A m \in S : Min(S) <= m
  <1>1. PICK x \in S : \A y \in S : <<y, x>> \notin OpToRel(<, Nat)
    BY WFMin, NatLessThanWellFounded
  <1>2. \A y \in S : x <= y
    <2>1. \A y \in S : ~(y < x)
      BY <1>1 DEF OpToRel
    <2> QED BY <2>1
  <1> QED BY <1>2 DEF Min

\* The greatest element of a set of numbers with a bound.
LEMMA MaxIsGreatest ==
    ASSUME NEW n \in Nat, NEW S \in SUBSET (0 .. n), S # {}
    PROVE  Max(S) \in S /\ \A m \in S : Max(S) >= m
  <1> DEFINE T == {n - x : x \in S}
  <1>1. T \in SUBSET Nat /\ T # {}
    <2>1. \A x \in S : x \in Int /\ n - x \in Nat
      OBVIOUS
    <2>2. \A y \in T : y \in Nat
      BY <2>1
    <2>3. \E y : y \in T
      OBVIOUS
    <2> HIDE DEF T
    <2> QED BY <2>2, <2>3
  <1>2. Min(T) \in T /\ \A m \in T : Min(T) <= m
    BY <1>1, MinIsLeast
  <1>3. PICK x \in S : Min(T) = n - x
    BY <1>2
  <1>4. \A y \in S : x >= y
    <2> SUFFICES ASSUME NEW y \in S PROVE x >= y
      OBVIOUS
    <2>1. n - y \in T
      OBVIOUS
    <2>2. n - x <= n - y
      BY <1>2, <1>3, <2>1
    <2> QED BY <2>2
  <1> QED BY <1>4 DEF Max

\* The sizes of chunks and pages.
LEMMA Sizes ==
    /\ Chunk \in Nat /\ Chunk >= 1 /\ Chunk >= MinRec + MinRec
    /\ MinRec \in Nat /\ MinRec >= 1
    /\ ChunksPerPage \in Nat /\ ChunksPerPage >= 1
    /\ MaxChunks \in Nat /\ MaxChunks >= 1
    /\ PageSize \in Nat /\ PageSize >= Chunk
    /\ MaxChunks * Chunk \in Nat
  <1>1. /\ Chunk \in Nat /\ Chunk >= 1 /\ Chunk >= MinRec + MinRec
        /\ MinRec \in Nat /\ MinRec >= 1
        /\ ChunksPerPage \in Nat /\ ChunksPerPage >= 1
        /\ MaxChunks \in Nat /\ MaxChunks >= 1
    BY DirAssumption
  <1>2. Chunk * 0 + Chunk <= Chunk * ChunksPerPage /\ Chunk * ChunksPerPage \in Nat
    BY <1>1, ProductGrows
  <1>3. Chunk * ChunksPerPage >= Chunk /\ Chunk * 0 = 0
    BY <1>1, <1>2
  <1>4. MaxChunks * Chunk \in Nat
    BY <1>1
  <1> QED BY <1>1, <1>2, <1>3, <1>4 DEF PageSize

\* An offset at which a chunk begins or ends.
Edge(x) == \E k \in Nat : x = Chunk * k

LEMMA EdgeNat ==
    ASSUME NEW x, Edge(x)
    PROVE  x \in Nat /\ Edge(x + Chunk)
  <1>1. PICK k \in Nat : x = Chunk * k
    BY DEF Edge
  <1>2. x \in Nat /\ x + Chunk = Chunk * (k + 1) /\ k + 1 \in Nat
    BY <1>1, Sizes
  <1> QED BY <1>2 DEF Edge

LEMMA EdgeZero == Edge(0)
  <1>1. 0 = Chunk * 0
    BY Sizes
  <1> QED BY <1>1 DEF Edge

\* Two edges are a chunk apart.
LEMMA EdgesApart ==
    ASSUME NEW x, NEW y, Edge(x), Edge(y), x < y
    PROVE  x + Chunk <= y
  <1>1. PICK k \in Nat : x = Chunk * k
    BY DEF Edge
  <1>2. PICK j \in Nat : y = Chunk * j
    BY DEF Edge
  <1>3. k < j
    <2>1. j < k => Chunk * j + Chunk <= Chunk * k
      BY ProductGrows, Sizes
    <2>2. k < j \/ k = j \/ j < k
      OBVIOUS
    <2>3. x \in Nat /\ y \in Nat
      BY EdgeNat
    <2>4. CASE j < k
      BY <2>1, <2>3, <2>4, <1>1, <1>2, Sizes
    <2>5. CASE j = k
      BY <2>3, <2>5, <1>1, <1>2
    <2> QED BY <2>2, <2>4, <2>5
  <1> QED BY <1>1, <1>2, <1>3, ProductGrows, Sizes

\* A page begins at an edge.
LEMMA PageEdge ==
    ASSUME NEW p \in Nat
    PROVE  Edge(p * PageSize) /\ (p + 1) * PageSize = p * PageSize + PageSize
  <1>1. p * (Chunk * ChunksPerPage) = Chunk * (p * ChunksPerPage) /\ p * ChunksPerPage \in Nat
    BY Sizes
  <1>2. Edge(p * PageSize)
    BY <1>1 DEF Edge, PageSize
  <1>3. PageSize \in Nat
    BY Sizes
  <1>4. (p + 1) * PageSize = p * PageSize + PageSize
    BY <1>3
  <1> QED BY <1>2, <1>4

\* The chunk of an offset.
LEMMA ChunkOf ==
    ASSUME NEW x \in Nat
    PROVE  /\ Edge((x \div Chunk) * Chunk)
           /\ x \div Chunk \in Nat
           /\ (x \div Chunk) * Chunk \in Nat
           /\ (x \div Chunk) * Chunk <= x /\ x < (x \div Chunk) * Chunk + Chunk
  <1> DEFINE q == x \div Chunk
             r == x % Chunk
  <1>1. q \in Nat /\ r \in 0 .. Chunk - 1 /\ x = Chunk * q + r
    BY Digits, Sizes
  <1> HIDE DEF q, r
  <1>2. q * Chunk = Chunk * q /\ Chunk * q \in Nat
    BY <1>1, Sizes
  <1>3. Edge(q * Chunk)
    BY <1>1, <1>2 DEF Edge
  <1>4. q * Chunk <= x /\ x < q * Chunk + Chunk
    BY <1>1, <1>2, Sizes
  <1> QED BY <1>1, <1>2, <1>3, <1>4 DEF q

\* The page of an offset.
LEMMA PageOf ==
    ASSUME NEW x \in Nat
    PROVE  /\ x \div PageSize \in Nat
           /\ (x \div PageSize) * PageSize \in Nat
           /\ (x \div PageSize) * PageSize <= x
           /\ x < (x \div PageSize) * PageSize + PageSize
           /\ (x \div PageSize + 1) * PageSize = (x \div PageSize) * PageSize + PageSize
           /\ x % PageSize \in 0 .. PageSize - 1
           /\ x = (x \div PageSize) * PageSize + (x % PageSize)
  <1>0. PageSize \in Nat /\ PageSize >= 1
    BY Sizes
  <1>1. PICK q : q = x \div PageSize
    OBVIOUS
  <1>2. PICK r : r = x % PageSize
    OBVIOUS
  <1>3. q \in Nat /\ r \in 0 .. PageSize - 1 /\ x = PageSize * q + r
    BY <1>0, <1>1, <1>2, Digits
  <1>4. q * PageSize = PageSize * q /\ q * PageSize \in Nat /\ (q + 1) * PageSize = q * PageSize + PageSize
    BY <1>0, <1>3
  <1>5. q * PageSize <= x /\ x < q * PageSize + PageSize /\ x = q * PageSize + r
    BY <1>0, <1>3, <1>4
  <1>6. /\ q \in Nat /\ q * PageSize \in Nat
        /\ q * PageSize <= x /\ x < q * PageSize + PageSize
        /\ (q + 1) * PageSize = q * PageSize + PageSize
        /\ r \in 0 .. PageSize - 1 /\ x = q * PageSize + r
    BY <1>0, <1>3, <1>4, <1>5
  <1> QED BY <1>1, <1>2, <1>6, Zenon

\* Two offsets of which one begins a page are in order as their pages are.
LEMMA PageOrder ==
    ASSUME NEW x \in Nat, NEW p \in Nat
    PROVE  /\ p * PageSize \in Nat
           /\ p * PageSize <= x <=> p <= x \div PageSize
           /\ (p * PageSize <= x /\ x < p * PageSize + PageSize) <=> p = x \div PageSize
           /\ (p * PageSize) \div PageSize = p
  <1> DEFINE q == x \div PageSize
  <1>0. PageSize \in Nat /\ PageSize >= 1
    BY Sizes
  <1>1. /\ q \in Nat /\ q * PageSize \in Nat /\ q * PageSize <= x
        /\ x < q * PageSize + PageSize
    BY PageOf
  <1> HIDE DEF q
  <1>2. p < q => PageSize * p + PageSize <= PageSize * q
    BY <1>0, <1>1, ProductGrows
  <1>3. q < p => PageSize * q + PageSize <= PageSize * p
    BY <1>0, <1>1, ProductGrows
  <1>4. PageSize * p = p * PageSize /\ PageSize * q = q * PageSize /\ p * PageSize \in Nat
    BY <1>0, <1>1
  <1> DEFINE a == p * PageSize
             b == q * PageSize
  <1>5. a \in Nat /\ b \in Nat /\ (p < q => a + PageSize <= b) /\ (q < p => b + PageSize <= a)
        /\ (p = q => a = b) /\ b <= x /\ x < b + PageSize
    BY <1>1, <1>2, <1>3, <1>4
  <1>6. (PageSize * p + 0) \div PageSize = p
    BY <1>0, Quotient
  <1>7. a \div PageSize = p
    <2>1. PageSize * p + 0 = a
      BY <1>4
    <2> QED BY <1>6, <2>1
  <1> HIDE DEF a, b
  <1>8. a <= x <=> p <= q
    BY <1>0, <1>1, <1>5
  <1>9. (a <= x /\ x < a + PageSize) <=> p = q
    BY <1>0, <1>1, <1>5
  <1> QED BY <1>5, <1>7, <1>8, <1>9 DEF a, q

\* The last byte of a chunk is in it, and so is what comes before.
LEMMA SameChunk ==
    ASSUME NEW x \in Nat, NEW y \in Nat, NEW e, Edge(e), e <= x, x < e + Chunk, e <= y, y < e + Chunk
    PROVE  x \div Chunk = y \div Chunk /\ (x \div Chunk) * Chunk = e
  <1>1. PICK k \in Nat : e = Chunk * k
    BY DEF Edge
  <1>2. e \in Nat
    BY EdgeNat
  <1>3. x - e \in 0 .. Chunk - 1 /\ x = Chunk * k + (x - e)
    BY <1>1, <1>2, Sizes
  <1>4. y - e \in 0 .. Chunk - 1 /\ y = Chunk * k + (y - e)
    BY <1>1, <1>2, Sizes
  <1>5. x \div Chunk = k
    BY <1>3, Quotient, Sizes
  <1>6. y \div Chunk = k
    BY <1>4, Quotient, Sizes
  <1>7. k * Chunk = Chunk * k
    BY Sizes
  <1> QED BY <1>1, <1>5, <1>6, <1>7

\* Offsets in different chunks have an edge between them.
LEMMA OtherChunk ==
    ASSUME NEW x \in Nat, NEW y \in Nat, x < y, x \div Chunk # y \div Chunk
    PROVE  \E e \in Nat : Edge(e) /\ x < e /\ e <= y
  <1> DEFINE e == (y \div Chunk) * Chunk
  <1>1. Edge(e) /\ e \in Nat /\ e <= y /\ y < e + Chunk
    BY ChunkOf
  <1> HIDE DEF e
  <1>2. CASE e <= x
    <2>1. x < e + Chunk
      BY <1>1, Sizes
    <2> QED BY <1>1, <1>2, <2>1, SameChunk
  <1> QED BY <1>1, <1>2

-----------------------------------------------------------------------------
(* Tilings and walks.                                                      *)

\* The records at R cover a directory of that size, each in its chunk and long enough for
\* its name.
Tiling(m, size, R) ==
    /\ R \subseteq 0 .. size - 1
    /\ \A e \in 0 .. size - 1 : Edge(e) => e \in R
    /\ \A o \in R : /\ m[o].len \in Nat
                    /\ m[o].name \in DOMAIN RecLen
                    /\ m[o].len >= RecLen[m[o].name]
                    /\ o + m[o].len \in R \cup {size}
    /\ \A o, x \in R : x <= o \/ o + m[o].len <= x

\* A name takes room.
LEMMA RecLens ==
    /\ RecLen \in [Names \cup {".", ".."} -> Nat]
    /\ \A n \in DOMAIN RecLen : RecLen[n] \in Nat /\ RecLen[n] >= MinRec /\ RecLen[n] <= Chunk
    /\ \A n \in Names : n \in DOMAIN RecLen
    /\ DOMAIN RecLen = Names \cup {".", ".."}
  <1>1. RecLen \in [Names \cup {".", ".."} -> Nat]
    BY DirAssumption
  <1>2. DOMAIN RecLen = Names \cup {".", ".."}
    BY <1>1
  <1>3. \A n \in DOMAIN RecLen : RecLen[n] \in Nat /\ RecLen[n] >= MinRec
    BY <1>1, <1>2, DirAssumption
  <1>4. \A n \in DOMAIN RecLen : RecLen[n] <= Chunk
    <2>1. RecLen["."] <= Chunk /\ RecLen[".."] <= Chunk
      BY DirAssumption, Sizes
    <2> QED BY <1>2, <2>1, DirAssumption
  <1> QED BY <1>1, <1>2, <1>3, <1>4

\* A record of a tiling.
LEMMA RecordOf ==
    ASSUME NEW m, NEW size \in Nat, NEW R, Tiling(m, size, R), NEW o \in R
    PROVE  /\ o \in Nat /\ o < size
           /\ m[o].len \in Nat /\ m[o].len >= MinRec
           /\ o + m[o].len \in R \cup {size} /\ o + m[o].len <= size
           /\ m[o].name \in DOMAIN RecLen /\ m[o].len >= RecLen[m[o].name]
           /\ \A x \in R : x <= o \/ o + m[o].len <= x
  <1>1. o \in Nat /\ o < size /\ m[o].len \in Nat /\ m[o].len >= RecLen[m[o].name]
        /\ m[o].name \in DOMAIN RecLen /\ o + m[o].len \in R \cup {size}
    BY DEF Tiling
  <1>2. m[o].len >= MinRec
    BY <1>1, RecLens, Sizes
  <1>3. o + m[o].len <= size
    <2>1. \A x \in R : x \in Nat /\ x < size
      BY DEF Tiling
    <2> QED BY <1>1, <2>1
  <1>4. \A x \in R : x <= o \/ o + m[o].len <= x
    BY DEF Tiling
  <1> QED BY <1>1, <1>2, <1>3, <1>4

\* A record ends before the next edge.
LEMMA RecordInChunk ==
    ASSUME NEW m, NEW size \in Nat, NEW R, Tiling(m, size, R), NEW o \in R,
           NEW e \in Nat, Edge(e), o < e
    PROVE  o + m[o].len <= e
  <1>1. /\ o \in Nat /\ m[o].len \in Nat /\ o + m[o].len <= size
        /\ \A x \in R : x <= o \/ o + m[o].len <= x
    BY RecordOf
  <1>2. CASE e < size
    <2>1. e \in R
      BY <1>2 DEF Tiling
    <2> QED BY <1>1, <2>1
  <1> QED BY <1>1, <1>2

\* A record from y on ends at x.
EndsAt(m, R, y, x) == \E o \in R : y <= o /\ o < x /\ o + m[o].len = x

\* Every record but the first follows another, and so does the end.
LEMMA RecordBefore ==
    ASSUME NEW m, NEW size \in Nat, NEW R, Tiling(m, size, R),
           NEW x \in R \cup {size}, NEW y \in R, y < x
    PROVE  EndsAt(m, R, y, x)
  <1> DEFINE S == {o \in R : o < x}
             o == Max(S)
  <1>0. \A s \in R : s \in Nat /\ s < size
    BY DEF Tiling
  <1>1. S \in SUBSET (0 .. size) /\ y \in S /\ x \in Nat /\ x <= size
    BY <1>0
  <1>2. o \in S /\ \A s \in S : o >= s
    BY <1>1, MaxIsGreatest
  <1> HIDE DEF o
  <1>3. o \in R /\ o < x /\ o \in Nat
    BY <1>0, <1>2
  <1>4. /\ m[o].len \in Nat /\ m[o].len >= MinRec
        /\ o + m[o].len \in R \cup {size} /\ o + m[o].len <= size
        /\ \A s \in R : s <= o \/ o + m[o].len <= s
    BY <1>3, RecordOf
  <1>5. o + m[o].len <= x
    <2>1. CASE x \in R
      BY <2>1, <1>1, <1>3, <1>4
    <2> QED BY <2>1, <1>4
  <1>6. o + m[o].len = x
    <2> SUFFICES ASSUME o + m[o].len < x PROVE FALSE
      BY <1>1, <1>3, <1>4, <1>5
    <2>1. o + m[o].len \in S
      BY <1>1, <1>3, <1>4
    <2>2. o + m[o].len > o
      BY <1>3, <1>4, Sizes
    <2> QED BY <1>2, <1>3, <1>4, <2>1, <2>2
  <1>7. y <= o
    BY <1>1, <1>2, <1>0, <1>3
  <1> QED BY <1>3, <1>6, <1>7 DEF EndsAt

-----------------------------------------------------------------------------
\* The recursion of a walk that is at most n steps long.
StepFrom(m, o, end) == IF o >= end THEN o ELSE o + m[o].len
WalkOf(g, m, from, end, n) ==
    g = [k \in 0 .. n |-> IF k = 0 THEN from ELSE StepFrom(m, g[k - 1], end)]

\* There is such a walk of each length.
LEMMA WalkExists ==
    ASSUME NEW m, NEW from, NEW end, NEW n \in Nat
    PROVE  \E g : WalkOf(g, m, from, end, n)
  <1> DEFINE Bad == {j \in Nat : ~\E g : WalkOf(g, m, from, end, j)}
  <1> SUFFICES ASSUME Bad # {} PROVE FALSE
    OBVIOUS
  <1> DEFINE j == Min(Bad)
  <1>1. j \in Bad /\ \A i \in Bad : j <= i
    BY MinIsLeast
  <1>2. j \in Nat /\ ~\E g : WalkOf(g, m, from, end, j)
    BY <1>1
  <1> HIDE DEF j
  <1>3. CASE j = 0
    <2> DEFINE g == [k \in 0 .. 0 |-> from]
    <2>1. g = [k \in 0 .. 0 |-> IF k = 0 THEN from ELSE StepFrom(m, g[k - 1], end)]
      OBVIOUS
    <2> HIDE DEF g
    <2>2. WalkOf(g, m, from, end, 0)
      BY <2>1 DEF WalkOf
    <2> QED BY <1>2, <1>3, <2>2
  <1>4. CASE j > 0
    <2>1. j - 1 \in Nat /\ j - 1 \notin Bad
      BY <1>1, <1>2, <1>4
    <2>2. PICK h : WalkOf(h, m, from, end, j - 1)
      BY <2>1
    <2> DEFINE g == [k \in 0 .. j |-> IF k = j THEN StepFrom(m, h[j - 1], end) ELSE h[k]]
               E(f, k) == IF k = 0 THEN from ELSE StepFrom(m, f[k - 1], end)
    <2>3. \A k \in 0 .. j - 1 : h[k] = E(h, k)
      <3> HIDE DEF E
      <3>1. h = [k \in 0 .. j - 1 |-> E(h, k)]
        BY <2>2 DEF WalkOf, E
      <3> QED BY <3>1
    <2>4. \A k \in 0 .. j : g[k] = IF k = j THEN StepFrom(m, h[j - 1], end) ELSE h[k]
      OBVIOUS
    <2>5. g = [k \in 0 .. j |-> g[k]]
      OBVIOUS
    <2> HIDE DEF g
    <2>6. \A k \in 0 .. j : g[k] = E(g, k)
      <3> SUFFICES ASSUME NEW k \in 0 .. j PROVE g[k] = E(g, k)
        OBVIOUS
      <3>1. CASE k = j
        <4>1. g[j] = StepFrom(m, h[j - 1], end) /\ g[j - 1] = h[j - 1]
          BY <1>2, <1>4, <2>4
        <4> QED BY <3>1, <4>1, <1>2, <1>4
      <3>2. CASE k # j
        <4>1. k \in 0 .. j - 1 /\ g[k] = h[k]
          BY <3>2, <2>4, <1>2
        <4>2. k > 0 => k - 1 \in 0 .. j /\ k - 1 # j /\ g[k - 1] = h[k - 1]
          BY <4>1, <2>4, <1>2
        <4>3. h[k] = E(h, k)
          BY <2>3, <4>1
        <4>4. k = 0 \/ k > 0
          BY <4>1
        <4> QED BY <4>1, <4>2, <4>3, <4>4
      <3> QED BY <3>1, <3>2
    <2>7. g = [k \in 0 .. j |-> E(g, k)]
      <3> HIDE DEF E
      <3> QED BY <2>5, <2>6
    <2>8. WalkOf(g, m, from, end, j)
      BY <2>7 DEF WalkOf, E
    <2> QED BY <1>2, <2>8
  <1> QED BY <1>2, <1>3, <1>4

\* What a walk does in each of its steps.
LEMMA WalkSteps ==
    ASSUME NEW g, NEW m, NEW from, NEW end, NEW n \in Nat, WalkOf(g, m, from, end, n)
    PROVE  /\ g[0] = from
           /\ \A k \in 0 .. n : k > 0 => k - 1 \in 0 .. n /\ g[k] = StepFrom(m, g[k - 1], end)
  <1> DEFINE E(k) == IF k = 0 THEN from ELSE StepFrom(m, g[k - 1], end)
  <1>1. \A k \in 0 .. n : g[k] = E(k)
    <2> HIDE DEF E
    <2>1. g = [k \in 0 .. n |-> E(k)]
      BY DEF WalkOf, E
    <2> QED BY <2>1
  <1>2. 0 \in 0 .. n
    OBVIOUS
  <1>3. \A k \in 0 .. n : k > 0 => k - 1 \in 0 .. n /\ k # 0
    OBVIOUS
  <1> QED BY <1>1, <1>2, <1>3

\* A walk stays on the records of the tiling up to end, and makes way.
Stays(g, R, from, end, n) ==
    \A k \in 0 .. n : g[k] = end \/ (g[k] \in R /\ g[k] < end /\ from + k * MinRec <= g[k])

LongEnough(from, end, n) == \A d \in Nat : from + d * MinRec <= end => d <= n

LEMMA WalkStays ==
    ASSUME NEW m, NEW size \in Nat, NEW R, Tiling(m, size, R),
           NEW from \in R \cup {size}, NEW end \in R \cup {size}, from <= end,
           NEW n \in Nat, NEW g, WalkOf(g, m, from, end, n)
    PROVE  Stays(g, R, from, end, n)
  <1> DEFINE Ok(k) == \/ g[k] = end
                      \/ g[k] \in R /\ g[k] < end /\ from + k * MinRec <= g[k]
             Bad == {k \in 0 .. n : ~Ok(k)}
  <1> SUFFICES ASSUME Bad # {} PROVE FALSE
    BY DEF Stays
  <1> DEFINE j == Min(Bad)
  <1>0. Bad \in SUBSET Nat
    OBVIOUS
  <1>1. j \in Bad /\ \A i \in Bad : j <= i
    BY <1>0, MinIsLeast
  <1>2. j \in 0 .. n /\ ~Ok(j) /\ \A k \in 0 .. n : k < j => Ok(k)
    BY <1>1
  <1> HIDE DEF j, Bad
  <1>3. from \in Nat /\ end \in Nat /\ end <= size /\ MinRec \in Nat
    <2>1. \A s \in R : s \in Nat /\ s < size
      BY DEF Tiling
    <2> QED BY <2>1, Sizes
  <1>4. CASE j = 0
    <2>1. g[j] = from
      BY <1>4, WalkSteps
    <2>2. from + 0 * MinRec = from
      BY <1>3
    <2>3. from = end \/ from < end
      BY <1>3
    <2>4. from < end => from \in R
      BY <1>3
    <2> QED BY <1>2, <1>3, <1>4, <2>1, <2>2, <2>3, <2>4
  <1>5. CASE j > 0
    <2>1. j - 1 \in 0 .. n /\ g[j] = StepFrom(m, g[j - 1], end)
      BY <1>2, <1>5, WalkSteps
    <2>2. Ok(j - 1)
      BY <1>2, <1>5, <2>1
    <2>3. PICK o : o = g[j - 1]
      OBVIOUS
    <2>4. CASE o = end
      <3>1. g[j] = end
        BY <1>3, <2>1, <2>3, <2>4 DEF StepFrom
      <3> QED BY <3>1, <1>2
    <2>5. CASE o \in R /\ o < end /\ from + (j - 1) * MinRec <= o
      <3>1. /\ o \in Nat /\ m[o].len \in Nat /\ m[o].len >= MinRec
            /\ o + m[o].len \in R \cup {size} /\ o + m[o].len <= size
        BY <2>5, RecordOf
      <3>2. g[j] = o + m[o].len
        BY <1>3, <2>1, <2>3, <2>5, <3>1 DEF StepFrom
      <3>3. o + m[o].len <= end
        <4>1. CASE end \in R
          BY <4>1, <2>5, <3>1, <1>3, RecordOf
        <4> QED BY <4>1, <3>1
      <3>4. from + j * MinRec <= g[j]
        <4>1. j * MinRec = (j - 1) * MinRec + MinRec /\ (j - 1) * MinRec \in Nat
          BY <1>2, <1>3, <1>5
        <4>2. PICK a \in Nat : a = (j - 1) * MinRec
          BY <4>1
        <4>3. from + a <= o
          BY <4>2, <2>5
        <4>4. from + (a + MinRec) <= o + m[o].len
          BY <4>3, <3>1, <1>3
        <4> QED BY <4>1, <4>2, <4>4, <3>2
      <3>5. g[j] = end \/ g[j] < end
        BY <1>3, <3>1, <3>2, <3>3
      <3>6. g[j] < end => g[j] \in R
        BY <1>3, <3>1, <3>2
      <3> QED BY <1>2, <3>4, <3>5, <3>6
    <2> QED BY <2>2, <2>3, <2>4, <2>5
  <1>6. j = 0 \/ j > 0
    BY <1>2
  <1> QED BY <1>4, <1>5, <1>6

\* A walk that is long enough meets every record up to end.
LEMMA WalkReaches ==
    ASSUME NEW m, NEW size \in Nat, NEW R, Tiling(m, size, R),
           NEW from \in R \cup {size}, NEW end \in R \cup {size}, from <= end,
           NEW n \in Nat, LongEnough(from, end, n),
           NEW g, WalkOf(g, m, from, end, n),
           NEW y \in R, from <= y, y < end
    PROVE  y \in {g[k] : k \in 0 .. n}
  <1> DEFINE Bad == {x \in R : from <= x /\ x < end /\ ~\E k \in 0 .. n : g[k] = x}
  <1> SUFFICES ASSUME Bad # {} PROVE FALSE
    OBVIOUS
  <1> DEFINE x == Min(Bad)
  <1>0. \A s \in R : s \in Nat /\ s < size
    BY DEF Tiling
  <1>1. Bad \in SUBSET Nat
    BY <1>0
  <1>2. x \in Bad /\ \A i \in Bad : x <= i
    BY <1>1, MinIsLeast
  <1>3. x \in R /\ from <= x /\ x < end /\ ~\E k \in 0 .. n : g[k] = x
    BY <1>2
  <1>4. from \in Nat /\ end \in Nat /\ MinRec \in Nat /\ MinRec >= 1 /\ x \in Nat
    BY <1>0, <1>3, Sizes
  <1>5. \A o \in R : from <= o /\ o < x => \E k \in 0 .. n : g[k] = o
    <2> SUFFICES ASSUME NEW o \in R, from <= o, o < x, ~\E k \in 0 .. n : g[k] = o PROVE FALSE
      OBVIOUS
    <2>1. o \in Nat /\ o < end
      BY <1>0, <1>3, <1>4
    <2>2. o \in Bad
      BY <2>1
    <2> QED BY <1>2, <1>4, <2>1, <2>2
  <1> HIDE DEF x, Bad
  <1>6. g[0] = from /\ 0 \in 0 .. n
    BY WalkSteps
  <1>7. from # x
    BY <1>3, <1>6
  <1>8. from \in R /\ from < x
    <2>1. from < x
      BY <1>3, <1>4, <1>7
    <2> QED BY <1>0, <1>3, <1>4, <2>1
  <1>9. PICK o \in R : from <= o /\ o < x /\ o + m[o].len = x
    BY <1>3, <1>8, RecordBefore DEF EndsAt
  <1>10. PICK k \in 0 .. n : g[k] = o
    BY <1>5, <1>9
  <1>11. o \in Nat /\ m[o].len \in Nat /\ m[o].len >= MinRec
    BY <1>9, RecordOf
  <1>12. from + k * MinRec <= o
    <2>1. \/ g[k] = end
          \/ g[k] \in R /\ g[k] < end /\ from + k * MinRec <= g[k]
      <3>1. Stays(g, R, from, end, n)
        BY WalkStays
      <3> QED BY <1>10, <3>1 DEF Stays
    <2>2. g[k] # end
      BY <1>3, <1>4, <1>9, <1>10, <1>11
    <2> QED BY <2>1, <2>2, <1>10
  <1>13. k + 1 \in 0 .. n /\ k + 1 > 0
    <2>1. (k + 1) * MinRec = k * MinRec + MinRec /\ k * MinRec \in Nat
      BY <1>4, <1>10
    <2>2. PICK a \in Nat : a = k * MinRec
      BY <2>1
    <2>3. from + (a + MinRec) <= end
      BY <1>3, <1>4, <1>9, <1>11, <1>12, <2>2
    <2>4. from + (k + 1) * MinRec <= end
      BY <2>1, <2>2, <2>3
    <2>5. k + 1 <= n
      BY <2>4, <1>10 DEF LongEnough
    <2> QED BY <2>5, <1>10
  <1>14. g[k + 1] = x
    <2>1. g[k + 1] = StepFrom(m, g[(k + 1) - 1], end)
      BY <1>13, WalkSteps
    <2>2. (k + 1) - 1 = k
      BY <1>10
    <2>3. o < end
      BY <1>3, <1>4, <1>9, <1>11
    <2> QED BY <2>1, <2>2, <2>3, <1>4, <1>9, <1>10, <1>11 DEF StepFrom
  <1> QED BY <1>3, <1>13, <1>14

\* The lesser of two numbers.
LEMMA MinOfTwo ==
    ASSUME NEW a \in Nat, NEW b \in Nat
    PROVE  Min({a, b}) = IF a <= b THEN a ELSE b
  <1>1. Min({a, b}) \in {a, b} /\ Min({a, b}) <= a /\ Min({a, b}) <= b
    BY MinIsLeast
  <1> QED BY <1>1

\* The records from an offset up to the end of its page.
UpTo(R, from) == {x \in R : from <= x /\ x < (from \div PageSize) * PageSize + PageSize}

\* A walk of kr_next_entry from a record meets the records from there to the end of its
\* page, and nothing else.
LEMMA WalkIs ==
    ASSUME NEW m, NEW size \in Nat, Edge(size), NEW R, Tiling(m, size, R), NEW from \in R \cup {size}
    PROVE  WalkFrom(m, from, size) = UpTo(R, from)
  <1>0. \A s \in R : s \in Nat /\ s < size
    BY DEF Tiling
  <1>1. from \in Nat /\ from <= size
    BY <1>0
  <1> DEFINE last == (from \div PageSize) * PageSize + PageSize
             end == Min({size, (from \div PageSize + 1) * PageSize})
             n == (end - from) \div MinRec
  <1>2. last \in Nat /\ from < last /\ (from \div PageSize + 1) * PageSize = last /\ Edge(last)
    <2>1. PICK q \in Nat : q = from \div PageSize
      BY <1>1, PageOf
    <2>2. Edge((from \div PageSize + 1) * PageSize)
      <3>1. q + 1 \in Nat
        BY <2>1
      <3> QED BY <2>1, <3>1, PageEdge
    <2>3. (from \div PageSize + 1) * PageSize = last
      BY <1>1, PageOf
    <2>4. from < last
      BY <1>1, PageOf
    <2> HIDE DEF last
    <2> QED BY <2>2, <2>3, <2>4, EdgeNat
  <1> HIDE DEF last
  <1>3. end = IF size <= last THEN size ELSE last
    BY <1>2, MinOfTwo
  <1> HIDE DEF end
  <1>4. end \in Nat /\ from <= end /\ end \in R \cup {size}
    <2>1. CASE size <= last
      BY <2>1, <1>1, <1>3
    <2>2. CASE ~(size <= last)
      <3>1. last \in R
        BY <2>2, <1>2 DEF Tiling
      <3> QED BY <2>2, <1>1, <1>2, <1>3, <3>1
    <2> QED BY <2>1, <2>2
  <1>5. n \in Nat /\ LongEnough(from, end, n)
    <2>1. PICK z \in Nat : z = end - from
      BY <1>1, <1>4
    <2>2. PICK q : q = z \div MinRec
      OBVIOUS
    <2>3. PICK r : r = z % MinRec
      OBVIOUS
    <2>4. q \in Nat /\ r \in 0 .. MinRec - 1 /\ z = MinRec * q + r
      BY <2>2, <2>3, Digits, Sizes
    <2>5. ASSUME NEW d \in Nat, from + d * MinRec <= end PROVE d <= q
      <3> SUFFICES ASSUME q < d PROVE FALSE
        BY <2>4
      <3>1. MinRec * q + MinRec <= MinRec * d
        BY <2>4, ProductGrows, Sizes
      <3>2. d * MinRec = MinRec * d /\ MinRec * d \in Nat /\ MinRec * q \in Nat
        BY <2>4, Sizes
      <3>3. PICK a \in Nat : a = MinRec * d
        BY <3>2
      <3>4. PICK b \in Nat : b = MinRec * q
        BY <3>2
      <3>5. a <= z
        BY <2>1, <2>5, <3>2, <3>3, <1>1, <1>4
      <3> QED BY <2>4, <3>1, <3>3, <3>4, <3>5, Sizes
    <2>6. n = q
      BY <2>1, <2>2
    <2> HIDE DEF n
    <2> QED BY <2>4, <2>5, <2>6 DEF LongEnough
  <1> HIDE DEF n
  <1> DEFINE w == CHOOSE g : WalkOf(g, m, from, end, n)
  <1>6. WalkOf(w, m, from, end, n)
    BY <1>5, WalkExists
  <1>7. WalkFrom(m, from, size) = {o \in {w[k] : k \in 0 .. n} : o < end}
    BY DEF WalkFrom, WalkOf, StepFrom, end, n
  <1> HIDE DEF w
  <1>8. ASSUME NEW k \in 0 .. n, w[k] < end PROVE w[k] \in R /\ from <= w[k]
    <2>1. w[k] = end \/ (w[k] \in R /\ w[k] < end /\ from + k * MinRec <= w[k])
      <3>1. Stays(w, R, from, end, n)
        BY <1>4, <1>5, <1>6, WalkStays
      <3> QED BY <3>1 DEF Stays
    <2>2. k * MinRec \in Nat
      BY <1>5, Sizes
    <2>3. w[k] # end
      BY <1>4, <1>8
    <2>4. PICK a \in Nat : a = k * MinRec
      BY <2>2
    <2>5. w[k] \in R /\ from + a <= w[k]
      BY <2>1, <2>3, <2>4
    <2>6. w[k] \in Nat /\ a \in Nat
      BY <1>0, <2>4, <2>5
    <2> QED BY ONLY <2>5, <2>6, <1>1
  <1>9. ASSUME NEW y \in R, from <= y, y < end PROVE y \in {w[k] : k \in 0 .. n}
    BY <1>4, <1>5, <1>6, <1>9, WalkReaches
  <1>10. \A x \in R : x < end <=> x < last
    BY <1>0, <1>1, <1>2, <1>3
  <1> QED BY <1>7, <1>8, <1>9, <1>10, <1>0 DEF UpTo, last

-----------------------------------------------------------------------------
(* The records of a directory.                                             *)

\* A size of the directory: whole chunks, one at least.
SizeOK(size) == size \in Nat /\ Edge(size) /\ Chunk <= size /\ size <= MaxChunks * Chunk

\* The records that are in use under a name.
MatchesOf(m, R, n) == {o \in R : m[o].ino # 0 /\ m[o].name = n}

\* A record in use has one of the names, or is one of the two that kr_make_empty made.
Named(m, R) ==
    \A o \in R : m[o].ino # 0 =>
        \/ m[o].name \in Names /\ m[o].ino \in Inos
        \/ m[o].name = "." /\ m[o].ino = Self
        \/ m[o].name = ".."

Unique(m, R) == \A n \in Names : \A o, x \in MatchesOf(m, R, n) : o = x

\* What the directory is, its records being at R.
DirOK(m, size, R) ==
    /\ Tiling(m, size, R)
    /\ Named(m, R)
    /\ ~IOErrors => Unique(m, R)

\* Where a scan is: after a call at a record, at a page or at the end; the names it has still
\* to give are ahead of it, and those that it gave are behind it.
ScanOK(m, size, R, p, mv, d, g, tw) ==
    /\ ~mv => p \in R \/ p % PageSize = 0 \/ p >= size
    /\ \A n \in d : \E o \in MatchesOf(m, R, n) : p <= o
    /\ ~IOErrors => /\ \A n \in g : MatchesOf(m, R, n) # {}
                    /\ \A n \in g : \A o \in MatchesOf(m, R, n) : o < p
                    /\ ~tw

\* The scans have the types they should have.
ScanTypes ==
    /\ pos \in [Readers -> Nat]
    /\ moved \in [Readers -> BOOLEAN]
    /\ due \in [Readers -> SUBSET Names]
    /\ got \in [Readers -> SUBSET Names]
    /\ twice \in [Readers -> BOOLEAN]

DirInv == TypeOK /\ DirOK(mem, i_size, Records)

ScanInv ==
    /\ ScanTypes
    /\ \A r \in Readers : ScanOK(mem, i_size, Records, pos[r], moved[r], due[r], got[r], twice[r])

\* The pages of a directory are those that begin before its end.
LEMMA PagesAre ==
    ASSUME NEW size \in Nat, size >= 1
    PROVE  /\ NPages(size) \in Nat
           /\ \A p \in Nat : p \in 0 .. NPages(size) - 1 <=> p * PageSize < size
           /\ \A x \in 0 .. size - 1 : x \div PageSize \in 0 .. NPages(size) - 1
  <1>0. PageSize \in Nat /\ PageSize >= 1
    BY Sizes
  <1>1. PICK y \in Nat : y = size + PageSize - 1
    BY <1>0
  <1>2. PICK q : q = NPages(size)
    OBVIOUS
  <1>3. q = y \div PageSize /\ q \in Nat
    BY <1>1, <1>2, PageOf DEF NPages
  <1>4. ASSUME NEW p \in Nat PROVE p \in 0 .. q - 1 <=> p * PageSize < size
    <2>1. p + 1 \in Nat
      OBVIOUS
    <2>2. (p + 1) * PageSize <= y <=> p + 1 <= q
      BY <2>1, <1>3, PageOrder
    <2>3. (p + 1) * PageSize = p * PageSize + PageSize
      BY PageEdge
    <2>4. PICK a \in Nat : a = p * PageSize
      BY <1>0
    <2>5. a + PageSize <= y <=> p + 1 <= q
      BY <2>2, <2>3, <2>4
    <2>6. a < size <=> p + 1 <= q
      BY <2>5, <1>0, <1>1
    <2> QED BY <2>4, <2>6, <1>3
  <1>5. ASSUME NEW x \in 0 .. size - 1 PROVE x \div PageSize \in 0 .. q - 1
    <2>1. x \in Nat /\ x < size
      OBVIOUS
    <2>2. x \div PageSize \in Nat /\ (x \div PageSize) * PageSize \in Nat /\ (x \div PageSize) * PageSize <= x
      BY <2>1, PageOf
    <2>3. (x \div PageSize) * PageSize < size
      BY <2>1, <2>2
    <2> QED BY <1>4, <2>2, <2>3
  <1> QED BY <1>2, <1>3, <1>4, <1>5

RecordsOf(m, size) == UNION {WalkFrom(m, p * PageSize, size) : p \in 0 .. NPages(size) - 1}

\* The records of a page are those of the tiling that lie in it.
LEMMA PageRecords ==
    ASSUME NEW m, NEW size, SizeOK(size), NEW R, Tiling(m, size, R),
           NEW p \in 0 .. NPages(size) - 1
    PROVE  WalkFrom(m, p * PageSize, size) = {x \in R : x \div PageSize = p}
  <1>1. size \in Nat /\ size >= 1 /\ Edge(size)
    BY Sizes DEF SizeOK
  <1>2. p \in Nat /\ p * PageSize < size
    BY <1>1, PagesAre
  <1>3. p * PageSize \in R
    <2>1. Edge(p * PageSize)
      BY <1>2, PageEdge
    <2>2. p * PageSize \in Nat
      BY <2>1, EdgeNat
    <2> QED BY <1>1, <1>2, <2>1, <2>2 DEF Tiling
  <1>4. WalkFrom(m, p * PageSize, size) = UpTo(R, p * PageSize)
    BY <1>1, <1>3, WalkIs
  <1>5. (p * PageSize) \div PageSize = p
    BY <1>2, PageOrder
  <1>6. \A x \in R : (p * PageSize <= x /\ x < p * PageSize + PageSize) <=> x \div PageSize = p
    <2>1. \A x \in R : x \in Nat
      BY DEF Tiling
    <2> QED BY <1>2, <2>1, PageOrder
  <1> QED BY <1>4, <1>5, <1>6 DEF UpTo

\* A directory that is tiled has the records of the tiling.
LEMMA AllRecords ==
    ASSUME NEW m, NEW size, SizeOK(size), NEW R, Tiling(m, size, R)
    PROVE  RecordsOf(m, size) = R
  <1>1. size \in Nat /\ size >= 1
    BY Sizes DEF SizeOK
  <1>2. \A p \in 0 .. NPages(size) - 1 : WalkFrom(m, p * PageSize, size) = {x \in R : x \div PageSize = p}
    BY PageRecords
  <1>3. \A x \in R : x \div PageSize \in 0 .. NPages(size) - 1
    <2>1. \A x \in R : x \in 0 .. size - 1
      BY DEF Tiling
    <2> QED BY <1>1, <2>1, PagesAre
  <1> DEFINE P == 0 .. NPages(size) - 1
  <1> HIDE DEF P
  <1>4. UNION {WalkFrom(m, p * PageSize, size) : p \in P} = R
    <2>1. \A p \in P : WalkFrom(m, p * PageSize, size) = {x \in R : x \div PageSize = p}
      BY <1>2 DEF P
    <2>2. \A x \in R : x \div PageSize \in P
      BY <1>3 DEF P
    <2> QED BY <2>1, <2>2
  <1> QED BY <1>4 DEF RecordsOf, P

\* The size that TypeOK allows.
LEMMA SizeIs ==
    ASSUME NEW size
    PROVE  size \in {k * Chunk : k \in 1 .. MaxChunks} <=> SizeOK(size)
  <1>1. ASSUME NEW k \in 1 .. MaxChunks, size = k * Chunk PROVE SizeOK(size)
    <2>1. k \in Nat /\ k >= 1 /\ k <= MaxChunks
      BY Sizes
    <2>2. k * Chunk = Chunk * k /\ MaxChunks * Chunk = Chunk * MaxChunks /\ Chunk * k \in Nat
      BY <2>1, Sizes
    <2>3. Chunk * 0 + Chunk <= Chunk * k /\ Chunk * 0 = 0
      BY <2>1, Sizes, ProductGrows
    <2>4. k < MaxChunks => Chunk * k + Chunk <= Chunk * MaxChunks
      BY <2>1, Sizes, ProductGrows
    <2>5. Chunk * k <= Chunk * MaxChunks
      <3>1. CASE k < MaxChunks
        BY <3>1, <2>2, <2>4, Sizes
      <3>2. CASE k = MaxChunks
        BY <3>2, <2>2
      <3> QED BY <2>1, <3>1, <3>2, Sizes
    <2>6. Edge(size)
      BY <1>1, <2>1, <2>2 DEF Edge
    <2>7. PICK a \in Nat : a = Chunk * k
      BY <2>2
    <2>8. Chunk <= a
      BY <2>3, <2>7, Sizes
    <2> QED BY <1>1, <2>2, <2>5, <2>6, <2>7, <2>8 DEF SizeOK
  <1>2. ASSUME SizeOK(size) PROVE size \in {k * Chunk : k \in 1 .. MaxChunks}
    <2>1. PICK k \in Nat : size = Chunk * k
      BY <1>2 DEF SizeOK, Edge
    <2>2. size \in Nat /\ Chunk <= size /\ size <= MaxChunks * Chunk
      BY <1>2 DEF SizeOK
    <2>3. k # 0
      <3>1. Chunk * 0 = 0
        BY Sizes
      <3> QED BY <2>1, <2>2, <3>1, Sizes
    <2>4. ~(MaxChunks < k)
      <3> SUFFICES ASSUME MaxChunks < k PROVE FALSE
        OBVIOUS
      <3>1. Chunk * MaxChunks + Chunk <= Chunk * k
        BY Sizes, ProductGrows
      <3>2. MaxChunks * Chunk = Chunk * MaxChunks /\ Chunk * MaxChunks \in Nat
        BY Sizes
      <3> QED BY <2>1, <2>2, <3>1, <3>2, Sizes
    <2>5. k \in 1 .. MaxChunks
      BY <2>3, <2>4, Sizes
    <2>6. k * Chunk = Chunk * k
      BY Sizes
    <2> QED BY <2>1, <2>5, <2>6
  <1> QED BY <1>1, <1>2

\* The records of the state, by page and altogether.
LEMMA RecordsAre ==
    ASSUME SizeOK(i_size), NEW R, Tiling(mem, i_size, R)
    PROVE  /\ Records = R
           /\ \A p \in Pages : RecordsIn(p) = {x \in R : x \div PageSize = p}
  <1>1. Records = RecordsOf(mem, i_size)
    BY DEF Records, RecordsOf, RecordsIn, Pages
  <1>2. \A p \in Pages : RecordsIn(p) = {x \in R : x \div PageSize = p}
    BY PageRecords DEF RecordsIn, Pages
  <1> QED BY <1>1, <1>2, AllRecords

LEMMA RecordsNext ==
    ASSUME SizeOK(i_size'), NEW R, Tiling(mem', i_size', R)
    PROVE  Records' = R
  <1>1. Records' = RecordsOf(mem', i_size')
    BY DEF Records, RecordsOf, RecordsIn, Pages
  <1> QED BY <1>1, AllRecords

-----------------------------------------------------------------------------
(* What a directory with its records at a tiling answers.                  *)

LEMMA EdgeMod ==
    ASSUME NEW e, Edge(e)
    PROVE  e % Chunk = 0
  <1>1. PICK k \in Nat : e = Chunk * k
    BY DEF Edge
  <1>2. e \in Nat
    BY EdgeNat
  <1>3. (Chunk * k + 0) \div Chunk = k
    BY Quotient, Sizes
  <1>4. Chunk * k + 0 = e
    BY <1>1, <1>2
  <1>5. e \div Chunk = k
    BY <1>3, <1>4
  <1>6. e % Chunk \in 0 .. Chunk - 1 /\ e = Chunk * (e \div Chunk) + (e % Chunk)
    BY <1>2, Digits, Sizes
  <1>7. e = e + (e % Chunk)
    BY <1>1, <1>5, <1>6
  <1>8. PICK r \in Int : r = e % Chunk
    BY <1>6
  <1> QED BY <1>2, <1>7, <1>8

\* A page that is read passes kr_check_page.
LEMMA PagePasses ==
    ASSUME TypeOK, DirOK(mem, i_size, Records), NEW p \in Pages
    PROVE  kr_check_page(p)
  <1>1. SizeOK(i_size) /\ Tiling(mem, i_size, Records)
    BY SizeIs DEF TypeOK, DirOK
  <1>2. PICK R : R = Records
    OBVIOUS
  <1>3. Tiling(mem, i_size, R) /\ RecordsIn(p) = {x \in R : x \div PageSize = p}
    BY <1>1, <1>2, RecordsAre
  <1>4. i_size \in Nat /\ Edge(i_size) /\ i_size >= 1
    BY <1>1, Sizes DEF SizeOK
  <1>5. p \in Nat /\ p * PageSize < i_size
    BY <1>4, PagesAre DEF Pages
  <1>6. PICK first : first = p * PageSize
    OBVIOUS
  <1>7. Edge(first) /\ first \in Nat /\ first \in R /\ first < i_size
    <2>1. Edge(first) /\ first \in Nat /\ first < i_size
      BY <1>5, <1>6, PageEdge, EdgeNat
    <2> QED BY <1>3, <1>4, <2>1 DEF Tiling
  <1>8. Edge(first + PageSize)
    <2>1. p + 1 \in Nat /\ (p + 1) * PageSize = first + PageSize
      BY <1>5, <1>6, PageEdge
    <2>2. Edge((p + 1) * PageSize)
      BY <2>1, PageEdge
    <2> QED BY <2>1, <2>2
  <1>9. PICK limit : limit = Min({i_size, first + PageSize})
    OBVIOUS
  <1>10. limit = IF i_size <= first + PageSize THEN i_size ELSE first + PageSize
    BY <1>4, <1>7, <1>9, Sizes, MinOfTwo
  <1>11. Edge(limit) /\ limit \in Nat /\ first < limit /\ limit <= first + PageSize /\ limit \in R \cup {i_size}
    <2>1. CASE i_size <= first + PageSize
      BY <2>1, <1>4, <1>7, <1>10
    <2>2. CASE ~(i_size <= first + PageSize)
      <3>1. first + PageSize \in Nat /\ first < first + PageSize
        BY <1>7, Sizes
      <3>2. first + PageSize \in R
        BY <2>2, <3>1, <1>3, <1>4, <1>8 DEF Tiling
      <3> QED BY <2>2, <1>8, <1>10, <3>1, <3>2
    <2> QED BY <2>1, <2>2
  <1>12. limit % Chunk = 0
    BY <1>11, EdgeMod
  <1>13. ASSUME NEW o \in RecordsIn(p)
         PROVE  /\ mem[o].len >= MinRec
                /\ mem[o].len >= RecLen[mem[o].name]
                /\ (o + mem[o].len - 1) \div Chunk = o \div Chunk
    <2>1. o \in R
      BY <1>3, <1>13
    <2>2. /\ o \in Nat /\ mem[o].len \in Nat /\ mem[o].len >= MinRec
          /\ mem[o].len >= RecLen[mem[o].name]
      BY <1>3, <1>4, <2>1, RecordOf
    <2>3. PICK e : e = (o \div Chunk) * Chunk
      OBVIOUS
    <2>4. Edge(e) /\ e \in Nat /\ e <= o /\ o < e + Chunk
      BY <2>2, <2>3, ChunkOf
    <2>5. e + Chunk \in Nat /\ Edge(e + Chunk)
      BY <2>4, EdgeNat, Sizes
    <2>6. o + mem[o].len <= e + Chunk
      BY <1>3, <1>4, <2>1, <2>4, <2>5, RecordInChunk
    <2>7. PICK y \in Nat : y = o + mem[o].len - 1 /\ e <= y /\ y < e + Chunk
      <3>1. o + mem[o].len - 1 \in Nat /\ e <= o + mem[o].len - 1 /\ o + mem[o].len - 1 < e + Chunk
        BY <2>2, <2>4, <2>6, Sizes
      <3> QED BY <3>1
    <2>8. y \div Chunk = o \div Chunk
      BY <2>2, <2>4, <2>7, SameChunk
    <2> QED BY <2>2, <2>7, <2>8
  <1>14. \E o \in RecordsIn(p) : o + mem[o].len = limit
    <2>1. PICK o \in R : first <= o /\ o < limit /\ o + mem[o].len = limit
      <3>1. EndsAt(mem, R, first, limit)
        BY <1>3, <1>4, <1>7, <1>11, RecordBefore
      <3> QED BY <3>1 DEF EndsAt
    <2>2. o \in Nat
      BY <1>3, <2>1 DEF Tiling
    <2>3. first <= o /\ o < first + PageSize
      BY <1>7, <1>11, <2>1, <2>2, Sizes
    <2>4. o \div PageSize = p
      BY <1>5, <1>6, <2>2, <2>3, PageOrder
    <2> QED BY <1>3, <2>1, <2>4
  <1> QED BY <1>6, <1>9, <1>12, <1>13, <1>14 DEF kr_check_page

\* A name fits the chunk that would be added.
LEMMA EndFits ==
    ASSUME SizeOK(i_size), NEW n \in Names
    PROVE  (i_size % PageSize) <= PageSize - RecLen[n]
  <1>1. i_size \in Nat /\ Edge(i_size)
    BY DEF SizeOK
  <1>2. PICK q : q = i_size \div PageSize
    OBVIOUS
  <1>3. PICK r : r = i_size % PageSize
    OBVIOUS
  <1>4. /\ q \in Nat /\ q * PageSize \in Nat /\ r \in 0 .. PageSize - 1
        /\ i_size = q * PageSize + r
        /\ (q + 1) * PageSize = q * PageSize + PageSize
    BY <1>1, <1>2, <1>3, PageOf
  <1>5. Edge(q * PageSize + PageSize)
    <2>1. q + 1 \in Nat
      BY <1>4
    <2> QED BY <1>4, <2>1, PageEdge
  <1>6. PICK a \in Nat : a = q * PageSize
    BY <1>4
  <1>7. i_size < a + PageSize
    BY <1>4, <1>6, Sizes
  <1>8. i_size + Chunk <= a + PageSize
    BY <1>1, <1>5, <1>6, <1>7, EdgesApart
  <1>9. RecLen[n] \in Nat /\ RecLen[n] <= Chunk
    BY RecLens
  <1> QED BY <1>3, <1>4, <1>6, <1>8, <1>9, Sizes

LEMMA EndStops ==
    ASSUME SizeOK(i_size), NEW n \in Names
    PROVE  i_size \in Stops(n)
  BY EndFits DEF Stops

LEMMA MatchesAre ==
    ASSUME NEW n
    PROVE  Matches(n) = MatchesOf(mem, Records, n)
  BY DEF Matches, MatchesOf, kr_match

\* rmdir is right, and a name is there once.
LEMMA NamesRight ==
    ASSUME DirOK(mem, i_size, Records), ~IOErrors
    PROVE  NamesUnique /\ EmptyDirIsRight
  <1>1. Unique(mem, Records) /\ Named(mem, Records)
    BY DEF DirOK
  <1>2. NamesUnique
    <2> SUFFICES ASSUME NEW n \in Names PROVE Cardinality(Matches(n)) <= 1
      BY DEF NamesUnique
    <2>1. \A o, x \in Matches(n) : o = x
      BY <1>1, MatchesAre DEF Unique
    <2>2. CASE Matches(n) = {}
      BY <2>2, FS_EmptySet
    <2>3. CASE Matches(n) # {}
      <3>1. PICK o : o \in Matches(n)
        BY <2>3
      <3>2. Matches(n) = {o}
        BY <2>1, <3>1
      <3>3. Cardinality({o}) = 1
        BY FS_Singleton
      <3> QED BY <3>2, <3>3
    <2> QED BY <2>2, <2>3
  <1>3. EmptyDirIsRight
    <2>1. BadPages = {{}}
      BY DEF BadPages
    <2>2. kr_empty_dir({}) <=> Bound = {}
      <3>1. ASSUME kr_empty_dir({}), NEW n \in Bound PROVE FALSE
        <4>1. PICK o \in Records : mem[o].ino # 0 /\ mem[o].name = n
          BY <3>1 DEF Bound, Matches, kr_match
        <4>2. n \in Names
          BY <3>1 DEF Bound
        <4>3. mem[o].name = "." \/ mem[o].name = ".."
          BY <3>1, <4>1 DEF kr_empty_dir
        <4> QED BY <4>1, <4>2, <4>3, DirAssumption
      <3>2. ASSUME Bound = {} PROVE kr_empty_dir({})
        <4> SUFFICES ASSUME NEW o \in Records, mem[o].ino # 0
                     PROVE  (mem[o].name = "." /\ mem[o].ino = Self) \/ mem[o].name = ".."
          BY DEF kr_empty_dir
        <4>1. mem[o].name \notin Names
          <5> SUFFICES ASSUME mem[o].name \in Names PROVE FALSE
            OBVIOUS
          <5>1. mem[o].name \in Bound
            BY DEF Bound, Matches, kr_match
          <5> QED BY <3>2, <5>1
        <4> QED BY <1>1, <4>1 DEF Named
      <3> QED BY <3>1, <3>2
    <2> QED BY <2>1, <2>2 DEF EmptyDirIsRight
  <1> QED BY <1>2, <1>3

\* The records of DirInv answer as DirectoryIsSound says.
LEMMA DirInvSound == DirInv => DirectoryIsSound
  <1> SUFFICES ASSUME DirInv PROVE DirectoryIsSound
    OBVIOUS
  <1>1. TypeOK /\ DirOK(mem, i_size, Records) /\ SizeOK(i_size)
    BY SizeIs DEF DirInv, TypeOK
  <1>2. PagesPassCheck
    BY <1>1, PagePasses DEF PagesPassCheck
  <1>3. AddLinkFinds
    BY <1>1, EndStops DEF AddLinkFinds
  <1>4. ~IOErrors => NamesUnique /\ EmptyDirIsRight
    BY <1>1, NamesRight
  <1> QED BY <1>1, <1>2, <1>3, <1>4 DEF DirectoryIsSound

-----------------------------------------------------------------------------
(* From a tiling to a tiling.                                              *)

\* The record at o is as long in m2 as in m, and long enough for its name.
SameLength(m, m2, o) ==
    /\ m2[o].len = m[o].len
    /\ m2[o].name \in DOMAIN RecLen
    /\ m2[o].len >= RecLen[m2[o].name]

\* Records that keep their lengths.
LEMMA TileKeep ==
    ASSUME NEW m, NEW m2, NEW size, NEW R, Tiling(m, size, R),
           \A o \in R : SameLength(m, m2, o)
    PROVE  Tiling(m2, size, R)
  BY DEF Tiling, SameLength

\* A chunk more, with one record.
LEMMA TileGrow ==
    ASSUME NEW m, NEW m2, NEW size \in Nat, Edge(size), NEW R, Tiling(m, size, R),
           \A o \in R : SameLength(m, m2, o),
           m2[size].len = Chunk, m2[size].name \in DOMAIN RecLen
    PROVE  Tiling(m2, size + Chunk, R \cup {size})
  <1> DEFINE S == R \cup {size}
             end == size + Chunk
  <1>1. end \in Nat /\ size < end /\ Chunk \in Nat /\ Chunk >= 1
    BY Sizes
  <1>2. \A o \in R : o \in Nat /\ o < size
    BY DEF Tiling
  <1>3. S \subseteq 0 .. end - 1
    BY <1>1, <1>2
  <1>4. \A e \in 0 .. end - 1 : Edge(e) => e \in S
    <2> SUFFICES ASSUME NEW e \in 0 .. end - 1, Edge(e) PROVE e \in S
      OBVIOUS
    <2>1. CASE e < size
      BY <2>1 DEF Tiling
    <2>2. CASE size < e
      <3>1. size + Chunk <= e
        BY <2>2, EdgesApart
      <3> QED BY <3>1, <1>1
    <2> QED BY <2>1, <2>2
  <1>5. \A o \in R : m[o].len \in Nat /\ o + m[o].len \in R \cup {size} /\ o + m[o].len <= size
    BY RecordOf
  <1>6. \A o \in R : m2[o].len = m[o].len /\ m2[o].name \in DOMAIN RecLen /\ m2[o].len >= RecLen[m2[o].name]
    BY DEF SameLength
  <1>7. m2[size].len >= RecLen[m2[size].name]
    BY RecLens, Sizes
  <1>8. \A o \in S : /\ m2[o].len \in Nat
                     /\ m2[o].name \in DOMAIN RecLen
                     /\ m2[o].len >= RecLen[m2[o].name]
                     /\ o + m2[o].len \in S \cup {end}
    <2>1. ASSUME NEW o \in R
          PROVE  m2[o].len \in Nat /\ o + m2[o].len \in S
      BY <1>5, <1>6
    <2> QED BY <1>1, <1>6, <1>7, <2>1
  <1>9. \A o, x \in S : x <= o \/ o + m2[o].len <= x
    <2> SUFFICES ASSUME NEW o \in S, NEW x \in S PROVE x <= o \/ o + m2[o].len <= x
      OBVIOUS
    <2>1. CASE o = size
      BY <2>1, <1>2
    <2>2. CASE o \in R /\ x = size
      BY <2>2, <1>5, <1>6
    <2>3. CASE o \in R /\ x \in R
      BY <2>3, <1>6 DEF Tiling
    <2> QED BY <2>1, <2>2, <2>3
  <1> QED BY <1>3, <1>4, <1>8, <1>9 DEF Tiling

\* A record that is split in two.
LEMMA TileSplit ==
    ASSUME NEW m, NEW m2, NEW size \in Nat, NEW R, Tiling(m, size, R),
           NEW o \in R, NEW u \in Nat, u >= 1, u < m[o].len,
           \A x \in R \ {o} : SameLength(m, m2, x),
           m2[o].len = u, m2[o].name \in DOMAIN RecLen, u >= RecLen[m2[o].name],
           m2[o + u].len = m[o].len - u, m2[o + u].name \in DOMAIN RecLen,
           m2[o + u].len >= RecLen[m2[o + u].name]
    PROVE  Tiling(m2, size, R \cup {o + u})
  <1>1. PICK a : a = o + u
    OBVIOUS
  <1>2. PICK l : l = m[o].len
    OBVIOUS
  <1> DEFINE S == R \cup {a}
  <1>3. /\ o \in Nat /\ l \in Nat /\ o + l \in R \cup {size} /\ o + l <= size
        /\ \A x \in R : x <= o \/ o + l <= x
    BY <1>2, RecordOf
  <1>4. a \in Nat /\ o < a /\ a < o + l /\ a < size /\ u < l
    BY <1>1, <1>2, <1>3
  <1>5. \A x \in R : x \in Nat /\ x < size
    BY DEF Tiling
  <1>6. S \subseteq 0 .. size - 1
    BY <1>4, <1>5
  <1>7. \A e \in 0 .. size - 1 : Edge(e) => e \in S
    BY DEF Tiling
  <1>8. \A x \in R \ {o} : /\ m2[x].len = m[x].len /\ m[x].len \in Nat
                           /\ m2[x].name \in DOMAIN RecLen /\ m2[x].len >= RecLen[m2[x].name]
                           /\ x + m[x].len \in R \cup {size}
    BY RecordOf DEF SameLength
  <1>9. m2[a].len = l - u /\ a + (l - u) = o + l /\ l - u \in Nat /\ m2[o].len = u
    BY <1>1, <1>2, <1>3, <1>4
  <1>10. \A x \in S : /\ m2[x].len \in Nat
                      /\ m2[x].name \in DOMAIN RecLen
                      /\ m2[x].len >= RecLen[m2[x].name]
                      /\ x + m2[x].len \in S \cup {size}
    <2> SUFFICES ASSUME NEW x \in S
                 PROVE  /\ m2[x].len \in Nat
                        /\ m2[x].name \in DOMAIN RecLen
                        /\ m2[x].len >= RecLen[m2[x].name]
                        /\ x + m2[x].len \in S \cup {size}
      OBVIOUS
    <2>1. CASE x = a
      BY <2>1, <1>1, <1>3, <1>9
    <2>2. CASE x = o
      BY <2>2, <1>1, <1>9
    <2>3. CASE x \in R \ {o}
      BY <2>3, <1>8
    <2> QED BY <2>1, <2>2, <2>3
  <1>11. \A x, y \in S : y <= x \/ x + m2[x].len <= y
    <2> SUFFICES ASSUME NEW x \in S, NEW y \in S PROVE y <= x \/ x + m2[x].len <= y
      OBVIOUS
    <2>1. CASE x = a
      <3>1. CASE y = a
        BY <2>1, <3>1, <1>4
      <3>2. CASE y \in R
        BY <2>1, <3>2, <1>3, <1>4, <1>5, <1>9
      <3> QED BY <3>1, <3>2
    <2>2. CASE x = o
      <3>1. CASE y = a
        BY <2>2, <3>1, <1>1, <1>3, <1>4, <1>9
      <3>2. CASE y \in R
        BY <2>2, <3>2, <1>1, <1>3, <1>4, <1>5, <1>9
      <3> QED BY <3>1, <3>2
    <2>3. CASE x \in R \ {o}
      <3>1. x \in Nat /\ m2[x].len = m[x].len /\ m[x].len \in Nat
        BY <2>3, <1>5, <1>8
      <3>2. \A z \in R : z <= x \/ x + m[x].len <= z
        BY <2>3, RecordOf
      <3>3. CASE y \in R
        BY <3>1, <3>2, <3>3
      <3>4. CASE y = a
        <4>1. x <= o \/ o + l <= x
          BY <2>3, <1>3
        <4>2. CASE o + l <= x
          BY <3>1, <3>4, <4>2, <1>3, <1>4
        <4>3. CASE x <= o
          <5>1. x + m[x].len <= o
            BY <2>3, <3>1, <3>2, <4>3, <1>3
          <5> QED BY <3>1, <3>4, <5>1, <1>3, <1>4
        <4> QED BY <4>1, <4>2, <4>3
      <3> QED BY <3>3, <3>4
    <2> QED BY <2>1, <2>2, <2>3
  <1> QED BY <1>1, <1>6, <1>7, <1>10, <1>11 DEF Tiling

\* A record that goes to the one before it, with which it shares a chunk.
LEMMA TileMerge ==
    ASSUME NEW m, NEW m2, NEW size \in Nat, NEW R, Tiling(m, size, R),
           NEW o \in R, NEW b \in R, b < o, b + m[b].len = o, ~Edge(o),
           \A x \in R \ {o, b} : SameLength(m, m2, x),
           m2[b].len = m[b].len + m[o].len, m2[b].name = m[b].name
    PROVE  Tiling(m2, size, R \ {o})
  <1> DEFINE S == R \ {o}
  <1>1. PICK l : l = m[o].len
    OBVIOUS
  <1>2. PICK k : k = m[b].len
    OBVIOUS
  <1>3. /\ o \in Nat /\ l \in Nat /\ l >= 1 /\ o + l \in R \cup {size} /\ o + l <= size
        /\ \A x \in R : x <= o \/ o + l <= x
    BY <1>1, RecordOf, Sizes
  <1>4. /\ b \in Nat /\ k \in Nat /\ b + k = o
        /\ \A x \in R : x <= b \/ b + k <= x
        /\ m[b].name \in DOMAIN RecLen /\ k >= RecLen[m[b].name]
    BY <1>2, RecordOf
  <1>5. \A x \in R : x \in Nat /\ x < size
    BY DEF Tiling
  <1>6. S \subseteq 0 .. size - 1
    BY <1>5
  <1>7. \A e \in 0 .. size - 1 : Edge(e) => e \in S
    BY DEF Tiling
  <1>8. \A x \in R \ {o, b} : /\ m2[x].len = m[x].len /\ m[x].len \in Nat
                              /\ m2[x].name \in DOMAIN RecLen /\ m2[x].len >= RecLen[m2[x].name]
                              /\ x + m[x].len \in R \cup {size}
                              /\ \A z \in R : z <= x \/ x + m[x].len <= z
    BY RecordOf DEF SameLength
  <1>9. m2[b].len = k + l /\ b + (k + l) = o + l /\ k + l \in Nat
    BY <1>1, <1>2, <1>3, <1>4
  <1>10. \A x \in R \ {o, b} : x + m[x].len # o
    <2> SUFFICES ASSUME NEW x \in R \ {o, b}, x + m[x].len = o PROVE FALSE
      OBVIOUS
    <2>1. x \in Nat /\ m[x].len \in Nat /\ m[x].len >= 1 /\ (b <= x \/ x + m[x].len <= b)
      BY RecordOf, Sizes
    <2>2. x <= b \/ b + k <= x
      BY <1>4
    <2> QED BY <2>1, <2>2, <1>3, <1>4
  <1>11. \A x \in S : /\ m2[x].len \in Nat
                      /\ m2[x].name \in DOMAIN RecLen
                      /\ m2[x].len >= RecLen[m2[x].name]
                      /\ x + m2[x].len \in S \cup {size}
    <2> SUFFICES ASSUME NEW x \in S
                 PROVE  /\ m2[x].len \in Nat
                        /\ m2[x].name \in DOMAIN RecLen
                        /\ m2[x].len >= RecLen[m2[x].name]
                        /\ x + m2[x].len \in S \cup {size}
      OBVIOUS
    <2>1. CASE x = b
      <3>1. o + l # o
        BY <1>3
      <3>2. k + l >= RecLen[m[b].name]
        BY <1>3, <1>4, RecLens
      <3> QED BY <2>1, <3>1, <3>2, <1>3, <1>4, <1>9
    <2>2. CASE x # b
      BY <2>2, <1>8, <1>10
    <2> QED BY <2>1, <2>2
  <1>12. \A x, y \in S : y <= x \/ x + m2[x].len <= y
    <2> SUFFICES ASSUME NEW x \in S, NEW y \in S PROVE y <= x \/ x + m2[x].len <= y
      OBVIOUS
    <2>1. CASE x = b
      <3>1. y \in Nat /\ y # o /\ (y <= b \/ b + k <= y) /\ (y <= o \/ o + l <= y)
        BY <1>3, <1>4, <1>5
      <3> QED BY <2>1, <3>1, <1>3, <1>4, <1>9
    <2>2. CASE x # b
      BY <2>2, <1>8
    <2> QED BY <2>1, <2>2
  <1> QED BY <1>6, <1>7, <1>11, <1>12 DEF Tiling

-----------------------------------------------------------------------------
(* What kr_add_link, kr_delete_entry and kr_set_link do to the records.    *)

Entries == [len : 0 .. Chunk, name : DOMAIN RecLen, ino : Inos \cup {0, Self, Parent}]

\* The records of other names stay as they are.
Spares(m, R, m2, R2, name) ==
    \A k \in DOMAIN RecLen \ {name} :
        /\ MatchesOf(m2, R2, k) = MatchesOf(m, R, k)
        /\ \A o \in MatchesOf(m, R, k) : m2[o].ino = m[o].ino

\* The records of the name belong to inodes that names are given to.
Given(m, R, name) == \A o \in MatchesOf(m, R, name) : m[o].ino \in Inos

LEMMA InosNat == \A i \in Inos : i # 0 /\ i # Self /\ i # Parent
  BY DirAssumption

\* Whatever is done to a name, the records in use have the names they should have.
LEMMA StillNamed ==
    ASSUME NEW m, NEW R, NEW m2, NEW R2, NEW size, Tiling(m2, size, R2), Named(m, R),
           NEW name \in Names, Spares(m, R, m2, R2, name), Given(m2, R2, name)
    PROVE  Named(m2, R2)
  <1> SUFFICES ASSUME NEW o \in R2, m2[o].ino # 0
               PROVE  \/ m2[o].name \in Names /\ m2[o].ino \in Inos
                      \/ m2[o].name = "." /\ m2[o].ino = Self
                      \/ m2[o].name = ".."
    BY DEF Named
  <1>1. PICK k : k = m2[o].name
    OBVIOUS
  <1>2. k \in DOMAIN RecLen /\ o \in MatchesOf(m2, R2, k)
    BY <1>1 DEF Tiling, MatchesOf
  <1>3. CASE k = name
    BY <1>1, <1>2, <1>3 DEF Given
  <1>4. CASE k # name
    <2>1. o \in MatchesOf(m, R, k) /\ m2[o].ino = m[o].ino
      BY <1>2, <1>4 DEF Spares
    <2>2. o \in R /\ m[o].ino # 0 /\ m[o].name = k
      BY <2>1 DEF MatchesOf
    <2> QED BY <1>1, <2>1, <2>2 DEF Named
  <1> QED BY <1>3, <1>4

\* A name that is there once at most leaves the names unique.
LEMMA StillUnique ==
    ASSUME NEW m, NEW R, NEW m2, NEW R2, Unique(m, R),
           NEW name \in Names, Spares(m, R, m2, R2, name),
           \A o, x \in MatchesOf(m2, R2, name) : o = x
    PROVE  Unique(m2, R2)
  <1> SUFFICES ASSUME NEW n \in Names, NEW o \in MatchesOf(m2, R2, n), NEW x \in MatchesOf(m2, R2, n)
               PROVE  o = x
    BY DEF Unique
  <1>1. CASE n = name
    BY <1>1
  <1>2. CASE n # name
    <2>1. MatchesOf(m2, R2, n) = MatchesOf(m, R, n)
      BY <1>2, RecLens DEF Spares
    <2> QED BY <2>1 DEF Unique
  <1> QED BY <1>1, <1>2

\* w is m with the record rec at a.
WrittenTo(w, m, a, rec) ==
    /\ w \in [Bytes -> Entries]
    /\ w[a] = rec
    /\ \A x \in Bytes : x < a \/ a + RecLen[rec.name] <= x => w[x] = m[x]

\* What Write changes.
LEMMA Written ==
    ASSUME NEW m \in [Bytes -> Entries], NEW a \in Bytes, NEW rec \in Entries
    PROVE  WrittenTo(Write(m, a, rec), m, a, rec)
  <1>1. Blank \in Entries
    BY RecLens, Sizes DEF Blank, Rec, Entries
  <1>2. a \in Nat /\ RecLen[rec.name] \in Nat /\ RecLen[rec.name] >= 1
    BY RecLens, Sizes DEF Bytes, Entries
  <1> DEFINE l == RecLen[rec.name]
             E(x) == IF x = a THEN rec ELSE IF x \in a + 1 .. a + l - 1 THEN Blank ELSE m[x]
  <1>3. Write(m, a, rec) = [x \in Bytes |-> E(x)]
    BY DEF Write
  <1>4. \A x \in Bytes : E(x) \in Entries
    BY <1>1
  <1>5. \A x \in Bytes : x < a \/ a + l <= x => E(x) = m[x]
    <2> SUFFICES ASSUME NEW x \in Bytes, x < a \/ a + l <= x PROVE E(x) = m[x]
      OBVIOUS
    <2>1. x \in Nat
      BY Sizes DEF Bytes
    <2>2. x # a /\ x \notin a + 1 .. a + l - 1
      BY <1>2, <2>1
    <2> QED BY <2>2
  <1>6. E(a) = rec
    OBVIOUS
  <1> HIDE DEF E
  <1> QED BY <1>3, <1>4, <1>5, <1>6 DEF WrittenTo

\* A record, from its parts.
LEMMA RecIs ==
    ASSUME NEW l, NEW n, NEW i
    PROVE  Rec(l, n, i).len = l /\ Rec(l, n, i).name = n /\ Rec(l, n, i).ino = i
  BY DEF Rec

\* The records are bytes of the directory.
LEMMA RecordBytes ==
    ASSUME NEW m, NEW size, SizeOK(size), NEW R, Tiling(m, size, R)
    PROVE  R \subseteq Bytes
  <1>1. size \in Nat /\ size <= MaxChunks * Chunk /\ MaxChunks * Chunk \in Nat
    BY Sizes DEF SizeOK
  <1>2. \A x \in R : x \in Nat /\ x < size
    BY <1>1 DEF Tiling
  <1> QED BY <1>1, <1>2 DEF Bytes

\* The outcome of an addition: the name has one record more.
OneMore(m, R, m2, R2, name) ==
    /\ Spares(m, R, m2, R2, name)
    /\ \E a : MatchesOf(m2, R2, name) = MatchesOf(m, R, name) \cup {a}
    /\ Given(m, R, name) => Given(m2, R2, name)

Added(m, R, m2, size2, R2, name) ==
    /\ m2 \in [Bytes -> Entries]
    /\ SizeOK(size2)
    /\ Tiling(m2, size2, R2)
    /\ OneMore(m, R, m2, R2, name)

\* The records but the one at a keep their names and inodes.
KeepsUse(m, m2, R, a) == \A x \in R \ {a} : m2[x].ino = m[x].ino /\ m2[x].name = m[x].name

\* Where the new record is and what the others keep says what the matches are.
LEMMA AddedWhen ==
    ASSUME NEW m, NEW R, NEW m2, NEW R2, NEW name, NEW a \in R2,
           R2 \subseteq R \cup {a}, R \subseteq R2,
           m2[a].ino \in Inos, m2[a].name = name, a \in R => m[a].ino = 0,
           KeepsUse(m, m2, R, a)
    PROVE  OneMore(m, R, m2, R2, name)
  <1>0. m2[a].ino # 0
    BY InosNat
  <1>1. \A k \in DOMAIN RecLen \ {name} : MatchesOf(m2, R2, k) = MatchesOf(m, R, k)
    BY DEF MatchesOf, KeepsUse
  <1>2. \A k \in DOMAIN RecLen \ {name} : \A o \in MatchesOf(m, R, k) : m2[o].ino = m[o].ino
    BY DEF MatchesOf, KeepsUse
  <1>3. MatchesOf(m2, R2, name) = MatchesOf(m, R, name) \cup {a}
    BY <1>0 DEF MatchesOf, KeepsUse
  <1>4. Given(m, R, name) => Given(m2, R2, name)
    BY <1>3 DEF Given, MatchesOf, KeepsUse
  <1> QED BY <1>1, <1>2, <1>3, <1>4 DEF Spares, OneMore

\* An entry of the memory has its parts.
LEMMA EntryParts ==
    ASSUME NEW m \in [Bytes -> Entries], NEW x \in Bytes
    PROVE  /\ m[x] \in Entries
           /\ m[x].len \in 0 .. Chunk /\ m[x].name \in DOMAIN RecLen
           /\ m[x].ino \in Inos \cup {0, Self, Parent}
  <1>1. m[x] \in Entries
    OBVIOUS
  <1> QED BY <1>1 DEF Entries

LEMMA RecEntry ==
    ASSUME NEW l \in 0 .. Chunk, NEW n \in DOMAIN RecLen, NEW i \in Inos \cup {0, Self, Parent}
    PROVE  Rec(l, n, i) \in Entries
  BY DEF Rec, Entries

\* kr_add_link at the end of the directory: a chunk more.
LEMMA PlaceNew ==
    ASSUME NEW m \in [Bytes -> Entries], NEW size, SizeOK(size), size < MaxChunks * Chunk,
           NEW R, Tiling(m, size, R), NEW name \in Names, NEW ino \in Inos
    PROVE  Added(m, R, Write(m, size, Rec(Chunk, name, ino)), size + Chunk, R \cup {size}, name)
  <1>1. size \in Nat /\ Edge(size) /\ Chunk <= size
    BY DEF SizeOK
  <1>2. size + Chunk \in Nat /\ Edge(size + Chunk)
    BY <1>1, EdgeNat, Sizes
  <1>3. Edge(MaxChunks * Chunk)
    <2>1. MaxChunks * Chunk = Chunk * MaxChunks /\ MaxChunks \in Nat
      BY Sizes
    <2> QED BY <2>1 DEF Edge
  <1>4. size + Chunk <= MaxChunks * Chunk
    BY <1>1, <1>3, EdgesApart
  <1>5. SizeOK(size + Chunk)
    BY <1>1, <1>2, <1>4, Sizes DEF SizeOK
  <1>6. size \in Bytes /\ R \subseteq Bytes
    <2>1. size \in 0 .. MaxChunks * Chunk - 1
      BY <1>1, Sizes
    <2> QED BY <2>1, RecordBytes DEF Bytes
  <1>7. PICK rec : rec = Rec(Chunk, name, ino)
    OBVIOUS
  <1>8. rec \in Entries /\ rec.len = Chunk /\ rec.name = name /\ rec.ino = ino
    <2>1. Chunk \in 0 .. Chunk
      BY Sizes
    <2> QED BY <1>7, <2>1, RecIs, RecEntry, RecLens
  <1>9. PICK m2 : m2 = Write(m, size, rec)
    OBVIOUS
  <1>10. /\ m2 \in [Bytes -> Entries] /\ m2[size] = rec
         /\ \A x \in Bytes : x < size \/ size + RecLen[rec.name] <= x => m2[x] = m[x]
    <2>1. WrittenTo(m2, m, size, rec)
      BY <1>6, <1>8, <1>9, Written
    <2> QED BY <2>1 DEF WrittenTo
  <1>11. \A x \in R : m2[x] = m[x] /\ x # size
    <2>1. \A x \in R : x \in Nat /\ x < size
      BY <1>1 DEF Tiling
    <2> QED BY <1>1, <1>6, <1>10, <2>1
  <1>12. Tiling(m2, size + Chunk, R \cup {size})
    <2>1. \A x \in R : SameLength(m, m2, x)
      BY <1>11 DEF SameLength, Tiling
    <2>2. m2[size].len = Chunk /\ m2[size].name \in DOMAIN RecLen
      BY <1>8, <1>10, RecLens
    <2> QED BY <1>1, <2>1, <2>2, TileGrow
  <1>13. OneMore(m, R, m2, R \cup {size}, name)
    <2>1. PICK R2 : R2 = R \cup {size}
      OBVIOUS
    <2>2. size \in R2 /\ R2 \subseteq R \cup {size} /\ R \subseteq R2
      BY <2>1
    <2>3. m2[size].ino \in Inos /\ m2[size].name = name
      BY <1>8, <1>10
    <2>4. size \in R => m[size].ino = 0
      BY <1>11
    <2>5. KeepsUse(m, m2, R, size)
      BY <1>11 DEF KeepsUse
    <2>6. OneMore(m, R, m2, R2, name)
      BY <2>2, <2>3, <2>4, <2>5, AddedWhen
    <2> QED BY <2>1, <2>6
  <1> QED BY <1>5, <1>7, <1>9, <1>10, <1>12, <1>13 DEF Added

\* kr_add_link in a record that is not in use.
LEMMA PlaceUnused ==
    ASSUME NEW m \in [Bytes -> Entries], NEW size, SizeOK(size),
           NEW R, Tiling(m, size, R), NEW name \in Names, NEW ino \in Inos,
           NEW o \in R, m[o].ino = 0, m[o].len >= RecLen[name]
    PROVE  Added(m, R, Write(m, o, Rec(m[o].len, name, ino)), size, R, name)
  <1>1. size \in Nat
    BY DEF SizeOK
  <1>2. R \subseteq Bytes /\ o \in Bytes
    BY RecordBytes
  <1>3. /\ o \in Nat /\ m[o].len \in Nat
        /\ \A x \in R : x <= o \/ o + m[o].len <= x
    BY <1>1, RecordOf
  <1>4. m[o].len \in 0 .. Chunk
    BY <1>2, EntryParts
  <1>5. PICK rec : rec = Rec(m[o].len, name, ino)
    OBVIOUS
  <1>6. rec \in Entries /\ rec.len = m[o].len /\ rec.name = name /\ rec.ino = ino
    BY <1>4, <1>5, RecIs, RecEntry, RecLens
  <1>7. PICK m2 : m2 = Write(m, o, rec)
    OBVIOUS
  <1>8. /\ m2 \in [Bytes -> Entries] /\ m2[o] = rec
        /\ \A x \in Bytes : x < o \/ o + RecLen[rec.name] <= x => m2[x] = m[x]
    <2>1. WrittenTo(m2, m, o, rec)
      BY <1>2, <1>6, <1>7, Written
    <2> QED BY <2>1 DEF WrittenTo
  <1>9. \A x \in R \ {o} : m2[x] = m[x]
    <2> SUFFICES ASSUME NEW x \in R \ {o} PROVE m2[x] = m[x]
      OBVIOUS
    <2>1. x \in Nat /\ (x <= o \/ o + m[o].len <= x)
      BY <1>1, <1>3 DEF Tiling
    <2>2. RecLen[name] \in Nat
      BY RecLens
    <2>3. x < o \/ o + RecLen[name] <= x
      BY <1>3, <2>1, <2>2
    <2> QED BY <1>2, <1>6, <1>8, <2>3
  <1>10. Tiling(m2, size, R)
    <2>1. \A x \in R \ {o} : SameLength(m, m2, x)
      BY <1>9 DEF SameLength, Tiling
    <2>2. SameLength(m, m2, o)
      BY <1>6, <1>8, RecLens DEF SameLength
    <2>3. \A x \in R : SameLength(m, m2, x)
      BY <2>1, <2>2
    <2> QED BY <2>3, TileKeep
  <1>11. OneMore(m, R, m2, R, name)
    <2>1. m2[o].ino \in Inos /\ m2[o].name = name /\ R \subseteq R \cup {o}
      BY <1>6, <1>8
    <2>2. KeepsUse(m, m2, R, o)
      BY <1>9 DEF KeepsUse
    <2> QED BY <2>1, <2>2, AddedWhen
  <1> QED BY <1>5, <1>7, <1>8, <1>10, <1>11 DEF Added

\* kr_add_link in the tail of a record that is longer than its name needs.
LEMMA PlaceSplit ==
    ASSUME NEW m \in [Bytes -> Entries], NEW size, SizeOK(size),
           NEW R, Tiling(m, size, R), NEW name \in Names, NEW ino \in Inos,
           NEW o \in R, NEW u, u = RecLen[m[o].name], m[o].len >= u + RecLen[name]
    PROVE  Added(m, R, Write([m EXCEPT ![o].len = u], o + u, Rec(m[o].len - u, name, ino)),
                 size, R \cup {o + u}, name)
  <1>1. size \in Nat /\ size <= MaxChunks * Chunk
    BY DEF SizeOK
  <1>2. R \subseteq Bytes /\ o \in Bytes
    BY RecordBytes
  <1>3. /\ o \in Nat /\ m[o].len \in Nat /\ o + m[o].len <= size
        /\ m[o].name \in DOMAIN RecLen
        /\ \A x \in R : x <= o \/ o + m[o].len <= x
    BY <1>1, RecordOf
  <1>4. PICK l : l = m[o].len
    OBVIOUS
  <1>5. /\ u \in Nat /\ u >= 1 /\ RecLen[name] \in Nat /\ RecLen[name] >= 1
        /\ l \in Nat /\ l \in 0 .. Chunk /\ u < l /\ l - u \in 0 .. Chunk /\ u \in 0 .. Chunk
    <2>1. l \in 0 .. Chunk
      BY <1>2, <1>4, EntryParts
    <2>2. u \in Nat /\ u >= 1 /\ RecLen[name] \in Nat /\ RecLen[name] >= 1
      BY <1>3, RecLens, Sizes
    <2> QED BY <1>3, <1>4, <2>1, <2>2, Sizes
  <1>6. PICK a : a = o + u
    OBVIOUS
  <1>7. a \in Nat /\ a \in Bytes /\ o < a /\ a < o + l /\ a \notin R /\ a + RecLen[name] <= o + l
    <2>1. a \in Nat /\ o < a /\ a < o + l /\ a + RecLen[name] <= o + l
      BY <1>3, <1>4, <1>5, <1>6
    <2>2. a \in Bytes
      BY <1>1, <1>3, <1>4, <1>5, <2>1, Sizes DEF Bytes
    <2>3. a \notin R
      BY <1>3, <1>4, <1>5, <2>1
    <2> QED BY <2>1, <2>2, <2>3
  <1>8. PICK rec : rec = Rec(l - u, name, ino)
    OBVIOUS
  <1>9. rec \in Entries /\ rec.len = l - u /\ rec.name = name /\ rec.ino = ino
    BY <1>5, <1>8, RecIs, RecEntry, RecLens
  <1>10. PICK c : c = [m[o] EXCEPT !.len = u]
    OBVIOUS
  <1>11. c \in Entries /\ c.len = u /\ c.name = m[o].name /\ c.ino = m[o].ino
    <2>1. m[o] \in Entries
      BY <1>2, EntryParts
    <2> QED BY <1>5, <1>10, <2>1 DEF Entries
  <1>12. PICK m1 : m1 = [m EXCEPT ![o].len = u]
    OBVIOUS
  <1>13. m1 \in [Bytes -> Entries] /\ m1[o] = c /\ \A x \in Bytes \ {o} : m1[x] = m[x]
    <2>1. m1 = [m EXCEPT ![o] = c]
      BY <1>10, <1>12
    <2> QED BY <1>2, <1>11, <2>1
  <1>14. PICK m2 : m2 = Write(m1, a, rec)
    OBVIOUS
  <1>15. /\ m2 \in [Bytes -> Entries] /\ m2[a] = rec
         /\ \A x \in Bytes : x < a \/ a + RecLen[rec.name] <= x => m2[x] = m1[x]
    <2>1. WrittenTo(m2, m1, a, rec)
      BY <1>7, <1>9, <1>13, <1>14, Written
    <2> QED BY <2>1 DEF WrittenTo
  <1>16. m2[o] = c
    BY <1>2, <1>7, <1>13, <1>15
  <1>17. \A x \in R \ {o} : m2[x] = m[x]
    <2> SUFFICES ASSUME NEW x \in R \ {o} PROVE m2[x] = m[x]
      OBVIOUS
    <2>1. x \in Nat /\ (x <= o \/ o + l <= x)
      <3>1. x \in R
        OBVIOUS
      <3>2. x \in Nat
        BY <1>1, <3>1, RecordOf
      <3> QED BY <1>3, <1>4, <3>1, <3>2
    <2>2. x < a \/ a + RecLen[name] <= x
      BY <1>3, <1>5, <1>7, <2>1
    <2> QED BY <1>2, <1>9, <1>13, <1>15, <2>2
  <1>18. Tiling(m2, size, R \cup {a})
    <2>1. \A x \in R \ {o} : SameLength(m, m2, x)
      BY <1>17 DEF SameLength, Tiling
    <2>2. m2[o].len = u /\ m2[o].name \in DOMAIN RecLen /\ u >= RecLen[m2[o].name]
      BY <1>3, <1>5, <1>11, <1>16
    <2>3. m2[o + u].len = m[o].len - u /\ m2[o + u].name \in DOMAIN RecLen
      BY <1>4, <1>6, <1>9, <1>15, RecLens
    <2>4. m2[o + u].len >= RecLen[m2[o + u].name]
      <3>1. l - u >= RecLen[name]
        BY <1>4, <1>5
      <3> QED BY <3>1, <1>6, <1>9, <1>15
    <2>5. u < m[o].len
      BY <1>4, <1>5
    <2> QED BY <1>1, <1>5, <1>6, <2>1, <2>2, <2>3, <2>4, <2>5, TileSplit
  <1>19. OneMore(m, R, m2, R \cup {a}, name)
    <2>1. PICK R2 : R2 = R \cup {a}
      OBVIOUS
    <2>2. a \in R2 /\ R2 \subseteq R \cup {a} /\ R \subseteq R2
      BY <2>1
    <2>3. m2[a].ino \in Inos /\ m2[a].name = name
      BY <1>9, <1>15
    <2>4. a \in R => m[a].ino = 0
      BY <1>7
    <2>5. KeepsUse(m, m2, R, a)
      BY <1>11, <1>16, <1>17 DEF KeepsUse
    <2>6. OneMore(m, R, m2, R2, name)
      BY <2>2, <2>3, <2>4, <2>5, AddedWhen
    <2> QED BY <2>1, <2>6
  <1> QED BY <1>4, <1>6, <1>8, <1>12, <1>14, <1>15, <1>18, <1>19 DEF Added

\* The invariant, taken apart.
LEMMA DirInvParts ==
    ASSUME DirInv
    PROVE  /\ mem \in [Bytes -> Entries] /\ SizeOK(i_size)
           /\ Tiling(mem, i_size, Records) /\ Named(mem, Records)
           /\ ~IOErrors => Unique(mem, Records)
           /\ start \in Nat
  <1>1. mem \in [Bytes -> Entries]
    BY DEF DirInv, TypeOK, Entries
  <1>2. SizeOK(i_size)
    BY SizeIs DEF DirInv, TypeOK
  <1>3. start \in Nat
    BY Sizes DEF DirInv, TypeOK
  <1> QED BY <1>1, <1>2, <1>3 DEF DirInv, DirOK

\* kr_find_entry gives a record of the name, and one if the pages can be read and there is one.
LEMMA FindEntry ==
    ASSUME DirInv, NEW name, NEW bad
    PROVE  /\ kr_find_entry(name, bad) \subseteq Matches(name)
           /\ (bad = {} /\ kr_find_entry(name, bad) = {}) => Matches(name) = {}
  <1>1. kr_find_entry(name, bad) \subseteq Matches(name)
    BY DEF kr_find_entry
  <1>2. ASSUME bad = {}, Matches(name) # {} PROVE kr_find_entry(name, bad) # {}
    <2> DEFINE d(o) == Distance(o \div PageSize)
               found == Matches(name)
               near == {o \in found : \A x \in found : d(o) <= d(x)}
    <2>1. kr_find_entry(name, bad) = {o \in near : \A x \in near : o <= x}
      BY <1>2 DEF kr_find_entry
    <2>2. SizeOK(i_size) /\ Tiling(mem, i_size, Records) /\ start \in Nat
      BY DirInvParts
    <2>3. i_size \in Nat /\ i_size >= 1
      BY <2>2, Sizes DEF SizeOK
    <2>4. \A o \in found : o \in Nat
      BY <2>2, <2>3 DEF Matches, Tiling
    <2>5. \A o \in found : d(o) \in Nat
      <3> SUFFICES ASSUME NEW o \in found PROVE d(o) \in Nat
        OBVIOUS
      <3>1. PICK p : p = o \div PageSize
        OBVIOUS
      <3>2. p \in Nat
        BY <2>4, <3>1, PageOf
      <3>3. PICK np : np = NPages(i_size)
        OBVIOUS
      <3>4. np \in Nat /\ np >= 1
        <4>1. 0 * PageSize = 0
          BY Sizes
        <4>2. 0 \in Nat /\ 0 * PageSize < i_size
          BY <4>1, <2>3
        <4>3. 0 \in 0 .. NPages(i_size) - 1 /\ NPages(i_size) \in Nat
          BY <2>3, <4>2, PagesAre
        <4> QED BY <3>3, <4>3
      <3>5. PICK from \in Int : from = IF start >= np THEN 0 ELSE start
        BY <2>2
      <3>6. (p - from) % np \in 0 .. np - 1
        BY <3>2, <3>4, <3>5
      <3>7. Distance(p) = (p - from) % np
        BY <3>3, <3>5 DEF Distance
      <3> QED BY <3>1, <3>4, <3>6, <3>7
    <2> HIDE DEF found, d
    <2>6. near # {}
      <3> DEFINE T == {d(o) : o \in found}
      <3>1. T \in SUBSET Nat /\ T # {}
        BY <1>2, <2>5 DEF found
      <3>2. Min(T) \in T /\ \A t \in T : Min(T) <= t
        BY <3>1, MinIsLeast
      <3>3. PICK o \in found : Min(T) = d(o)
        BY <3>2
      <3> QED BY <3>2, <3>3
    <2>7. near \in SUBSET Nat
      BY <2>4
    <2> HIDE DEF near
    <2>8. Min(near) \in near /\ \A x \in near : Min(near) <= x
      BY <2>6, <2>7, MinIsLeast
    <2> QED BY <2>1, <2>8
  <1> QED BY <1>1, <1>2

\* What an addition does.
AddDone(name) ==
    /\ \E R2 : Added(mem, Records, mem', i_size', R2, name)
    /\ ~IOErrors => Matches(name) = {}
    /\ moved' = [r \in Readers |-> TRUE]
    /\ UNCHANGED <<start, pos, due, got, twice>>

LEMMA AddLinkDoes ==
    ASSUME DirInv, AddLink
    PROVE  \E name \in Names : AddDone(name)
  <1>1. PICK name \in Names, ino \in Inos, bad \in BadPages, bad2 \in BadPages :
            LET o == Min(Stops(name))
            IN  /\ kr_find_entry(name, bad) = {}
                /\ \A p \in bad2 : p > o \div PageSize
                /\ o \in Records => ~kr_match(o, name)
                /\ o = i_size => i_size < MaxChunks * Chunk
                /\ Commit(Place(o, name, ino), IF o = i_size THEN i_size + Chunk ELSE i_size)
                /\ UNCHANGED <<start, pos, due, got, twice>>
    BY DEF AddLink
  <1>2. PICK o : o = Min(Stops(name))
    OBVIOUS
  <1>3. /\ kr_find_entry(name, bad) = {}
        /\ o \in Records => ~kr_match(o, name)
        /\ o = i_size => i_size < MaxChunks * Chunk
        /\ mem' = Place(o, name, ino)
        /\ i_size' = IF o = i_size THEN i_size + Chunk ELSE i_size
        /\ moved' = [r \in Readers |-> TRUE]
        /\ UNCHANGED <<start, pos, due, got, twice>>
    BY <1>1, <1>2 DEF Commit
  <1>4. /\ mem \in [Bytes -> Entries] /\ SizeOK(i_size)
        /\ Tiling(mem, i_size, Records)
    BY DirInvParts
  <1>5. ~IOErrors => Matches(name) = {}
    <2>1. ~IOErrors => bad = {}
      BY <1>1 DEF BadPages
    <2> QED BY <1>3, <2>1, FindEntry
  <1>6. i_size \in Nat
    BY <1>4 DEF SizeOK
  <1>7. \A x \in Records : x \in Nat /\ x < i_size
    BY <1>4, <1>6 DEF Tiling
  <1>8. Stops(name) \subseteq Records \cup {i_size} /\ i_size \in Stops(name)
    <2>1. i_size \in Stops(name)
      BY <1>4, EndStops
    <2> QED BY <2>1 DEF Stops
  <1>9. o \in Stops(name)
    <2>1. Stops(name) \in SUBSET Nat /\ Stops(name) # {}
      BY <1>6, <1>7, <1>8
    <2> QED BY <1>2, <2>1, MinIsLeast
  <1>10. PICK R : R = Records
    OBVIOUS
  <1>11. CASE o = i_size
    <2>1. mem' = Write(mem, i_size, Rec(Chunk, name, ino)) /\ i_size' = i_size + Chunk
      BY <1>3, <1>11 DEF Place
    <2>2. Added(mem, R, Write(mem, i_size, Rec(Chunk, name, ino)), i_size + Chunk, R \cup {i_size}, name)
      BY <1>3, <1>4, <1>10, <1>11, PlaceNew
    <2> QED BY <1>3, <1>5, <1>10, <2>1, <2>2 DEF AddDone
  <1>12. CASE o # i_size
    <2>1. o \in R /\ i_size' = i_size
      BY <1>3, <1>8, <1>9, <1>10, <1>12
    <2>2. \/ mem[o].ino = 0 /\ mem[o].len >= RecLen[name]
          \/ mem[o].len >= RecLen[mem[o].name] + RecLen[name]
      BY <1>3, <1>9, <1>10, <1>12, <2>1 DEF Stops
    <2>3. CASE mem[o].ino = 0
      <3>1. mem[o].len >= RecLen[name]
        <4>1. mem[o].len \in Nat /\ mem[o].name \in DOMAIN RecLen
          BY <1>4, <1>6, <1>10, <2>1, RecordOf
        <4>2. RecLen[mem[o].name] \in Nat /\ RecLen[name] \in Nat
          BY <4>1, RecLens
        <4> QED BY <2>2, <4>1, <4>2
      <3>2. mem' = Write(mem, o, Rec(mem[o].len, name, ino))
        BY <1>3, <1>12, <2>3 DEF Place
      <3>3. Added(mem, R, Write(mem, o, Rec(mem[o].len, name, ino)), i_size, R, name)
        BY <1>4, <1>10, <2>1, <2>3, <3>1, PlaceUnused
      <3> QED BY <1>3, <1>5, <1>10, <2>1, <3>2, <3>3 DEF AddDone
    <2>4. CASE mem[o].ino # 0
      <3>1. PICK u : u = RecLen[mem[o].name]
        OBVIOUS
      <3>2. mem[o].len >= u + RecLen[name]
        BY <2>2, <2>4, <3>1
      <3>3. mem' = Write([mem EXCEPT ![o].len = u], o + u, Rec(mem[o].len - u, name, ino))
        BY <1>3, <1>12, <2>4, <3>1 DEF Place
      <3>4. Added(mem, R, Write([mem EXCEPT ![o].len = u], o + u, Rec(mem[o].len - u, name, ino)),
                  i_size, R \cup {o + u}, name)
        BY <1>4, <1>10, <2>1, <3>1, <3>2, PlaceSplit
      <3> QED BY <1>3, <1>5, <1>10, <2>1, <3>3, <3>4 DEF AddDone
    <2> QED BY <2>3, <2>4
  <1> QED BY <1>11, <1>12

\* The page of a record is a page that the directory may have.
LEMMA StartOK ==
    ASSUME NEW o \in Bytes
    PROVE  o \div PageSize \in 0 .. MaxChunks
  <1>1. o \in Nat /\ o < MaxChunks * Chunk
    BY Sizes DEF Bytes
  <1>2. PICK p : p = o \div PageSize
    OBVIOUS
  <1>3. p \in Nat /\ p * PageSize \in Nat /\ p * PageSize <= o
    BY <1>1, <1>2, PageOf
  <1>4. MaxChunks * Chunk <= MaxChunks * PageSize /\ MaxChunks * PageSize \in Nat
    <2>1. Chunk < PageSize => MaxChunks * Chunk + MaxChunks <= MaxChunks * PageSize
      BY ProductGrows, Sizes
    <2>2. MaxChunks * PageSize \in Nat /\ MaxChunks * Chunk \in Nat
      BY Sizes
    <2>3. CASE Chunk < PageSize
      BY <2>1, <2>2, <2>3, Sizes
    <2>4. CASE Chunk = PageSize
      BY <2>2, <2>4
    <2> QED BY <2>3, <2>4, Sizes
  <1>5. ~(MaxChunks < p)
    <2> SUFFICES ASSUME MaxChunks < p PROVE FALSE
      OBVIOUS
    <2>1. PageSize * MaxChunks + PageSize <= PageSize * p
      BY <1>3, ProductGrows, Sizes
    <2>2. PageSize * MaxChunks = MaxChunks * PageSize /\ PageSize * p = p * PageSize
      BY <1>3, Sizes
    <2>3. PICK a \in Nat : a = MaxChunks * PageSize
      BY <1>4
    <2>4. PICK b \in Nat : b = p * PageSize
      BY <1>3
    <2>5. PICK c \in Nat : c = MaxChunks * Chunk
      BY Sizes
    <2>6. a + PageSize <= b /\ b <= o /\ o < c /\ c <= a
      BY <1>1, <1>3, <1>4, <2>1, <2>2, <2>3, <2>4, <2>5
    <2> QED BY <1>1, <2>6, Sizes
  <1> QED BY <1>2, <1>3, <1>5, Sizes

\* The outcome of a removal or a renaming: the name has no record that it did not have.
NoneMore(m, R, m2, size, R2, name) ==
    /\ m2 \in [Bytes -> Entries]
    /\ Tiling(m2, size, R2)
    /\ Spares(m, R, m2, R2, name)
    /\ MatchesOf(m2, R2, name) \subseteq MatchesOf(m, R, name)
    /\ Given(m, R, name) => Given(m2, R2, name)

\* An entry with another inode.
LEMMA InodeChanged ==
    ASSUME NEW m \in [Bytes -> Entries], NEW o \in Bytes, NEW ino \in Inos \cup {0, Self, Parent}
    PROVE  /\ [m EXCEPT ![o].ino = ino] \in [Bytes -> Entries]
           /\ [m EXCEPT ![o].ino = ino][o].ino = ino
           /\ [m EXCEPT ![o].ino = ino][o].len = m[o].len
           /\ [m EXCEPT ![o].ino = ino][o].name = m[o].name
           /\ \A x \in Bytes \ {o} : [m EXCEPT ![o].ino = ino][x] = m[x]
  <1>1. PICK c : c = [m[o] EXCEPT !.ino = ino]
    OBVIOUS
  <1>2. c \in Entries /\ c.ino = ino /\ c.len = m[o].len /\ c.name = m[o].name
    <2>1. m[o] \in Entries
      BY EntryParts
    <2> QED BY <1>1, <2>1 DEF Entries
  <1>3. [m EXCEPT ![o].ino = ino] = [m EXCEPT ![o] = c]
    BY <1>1
  <1> QED BY <1>2, <1>3

\* A record that is given to another inode, or to none.
LEMMA GiveRecord ==
    ASSUME NEW m \in [Bytes -> Entries], NEW size, SizeOK(size), NEW R, Tiling(m, size, R),
           NEW name, NEW o \in MatchesOf(m, R, name), NEW ino \in Inos \cup {0}
    PROVE  NoneMore(m, R, [m EXCEPT ![o].ino = ino], size, R, name)
  <1>1. R \subseteq Bytes /\ o \in R /\ m[o].ino # 0 /\ m[o].name = name
    BY RecordBytes DEF MatchesOf
  <1>2. PICK m2 : m2 = [m EXCEPT ![o].ino = ino]
    OBVIOUS
  <1>3. /\ m2 \in [Bytes -> Entries]
        /\ m2[o].ino = ino /\ m2[o].len = m[o].len /\ m2[o].name = m[o].name
        /\ \A x \in Bytes \ {o} : m2[x] = m[x]
    BY <1>1, <1>2, InodeChanged
  <1>4. Tiling(m2, size, R)
    <2>1. \A x \in R : SameLength(m, m2, x)
      BY <1>1, <1>3 DEF SameLength, Tiling
    <2> QED BY <2>1, TileKeep
  <1>5. \A x \in R : m2[x].name = m[x].name /\ (x # o => m2[x].ino = m[x].ino)
    BY <1>1, <1>3
  <1>6. Spares(m, R, m2, R, name)
    BY <1>1, <1>5 DEF Spares, MatchesOf
  <1>7. MatchesOf(m2, R, name) \subseteq MatchesOf(m, R, name)
    BY <1>1, <1>5 DEF MatchesOf
  <1>8. Given(m, R, name) => Given(m2, R, name)
    BY <1>1, <1>3, <1>5 DEF Given, MatchesOf
  <1> QED BY <1>2, <1>3, <1>4, <1>6, <1>7, <1>8 DEF NoneMore

\* A record that goes to the one before it.
LEMMA MergeRecord ==
    ASSUME NEW m \in [Bytes -> Entries], NEW size, SizeOK(size), NEW R, Tiling(m, size, R),
           NEW name, NEW o \in MatchesOf(m, R, name),
           NEW b, b = Max({x \in R : x < o /\ x \div Chunk = o \div Chunk}),
           {x \in R : x < o /\ x \div Chunk = o \div Chunk} # {}
    PROVE  NoneMore(m, R, [m EXCEPT ![b].len = o + m[o].len - b, ![o].ino = 0], size, R \ {o}, name)
  <1> DEFINE before == {x \in R : x < o /\ x \div Chunk = o \div Chunk}
  <1>1. R \subseteq Bytes /\ o \in R /\ m[o].ino # 0 /\ m[o].name = name
    BY RecordBytes DEF MatchesOf
  <1>2. size \in Nat /\ \A x \in R : x \in Nat /\ x < size
    BY DEF SizeOK, Tiling
  <1>3. b \in before /\ \A x \in before : b >= x
    <2>1. before \in SUBSET (0 .. size)
      BY <1>2
    <2> QED BY <1>2, <2>1, MaxIsGreatest
  <1>4. b \in R /\ b < o /\ b \div Chunk = o \div Chunk /\ b \in Nat /\ o \in Nat
    BY <1>1, <1>2, <1>3
  <1>5. PICK e : e = (o \div Chunk) * Chunk
    OBVIOUS
  <1>6. Edge(e) /\ e \in Nat /\ e <= o /\ o < e + Chunk /\ e <= b
    <2>1. Edge(e) /\ e \in Nat /\ e <= o /\ o < e + Chunk
      BY <1>4, <1>5, ChunkOf
    <2>2. (b \div Chunk) * Chunk <= b
      BY <1>4, ChunkOf
    <2> QED BY <1>4, <1>5, <2>1, <2>2
  <1>7. ~Edge(o)
    <2> SUFFICES ASSUME Edge(o) PROVE FALSE
      OBVIOUS
    <2>1. e < o
      BY <1>4, <1>6
    <2>2. e + Chunk <= o
      BY <1>6, <2>1, EdgesApart
    <2> QED BY <1>4, <1>6, <2>2, Sizes
  <1>8. b + m[b].len = o
    <2>1. EndsAt(m, R, b, o)
      BY <1>1, <1>2, <1>4, RecordBefore
    <2>2. PICK c \in R : b <= c /\ c < o /\ c + m[c].len = o
      BY <2>1 DEF EndsAt
    <2>3. c \in Nat /\ e <= c /\ c < e + Chunk
      BY <1>2, <1>4, <1>6, <2>2, Sizes
    <2>4. c \div Chunk = o \div Chunk
      BY <1>4, <1>6, <2>3, SameChunk
    <2>5. c \in before
      BY <2>2, <2>4
    <2>6. c = b
      BY <1>3, <1>4, <2>2, <2>3, <2>5
    <2> QED BY <2>2, <2>6
  <1> HIDE DEF before
  <1>9. /\ m[o].len \in Nat /\ m[b].len \in Nat
        /\ m[b].name \in DOMAIN RecLen
    BY <1>1, <1>2, <1>4, RecordOf
  <1>10. PICK l : l = o + m[o].len - b
    OBVIOUS
  <1>11. l = m[b].len + m[o].len /\ l \in 0 .. Chunk
    <2>1. l = m[b].len + m[o].len
      BY <1>4, <1>8, <1>9, <1>10
    <2>2. e + Chunk \in Nat /\ Edge(e + Chunk)
      BY <1>6, EdgeNat, Sizes
    <2>3. o + m[o].len <= e + Chunk
      BY <1>1, <1>2, <1>6, <2>2, RecordInChunk
    <2> QED BY <1>4, <1>6, <1>9, <1>10, <2>1, <2>3, Sizes
  <1>12. PICK c : c = [m[b] EXCEPT !.len = l]
    OBVIOUS
  <1>13. c \in Entries /\ c.len = l /\ c.name = m[b].name /\ c.ino = m[b].ino
    <2>1. m[b] \in Entries
      BY <1>1, <1>4, EntryParts
    <2> QED BY <1>11, <1>12, <2>1 DEF Entries
  <1>14. PICK m1 : m1 = [m EXCEPT ![b] = c]
    OBVIOUS
  <1>15. m1 \in [Bytes -> Entries] /\ m1[b] = c /\ \A x \in Bytes \ {b} : m1[x] = m[x]
    BY <1>1, <1>4, <1>13, <1>14
  <1>16. PICK m2 : m2 = [m1 EXCEPT ![o].ino = 0]
    OBVIOUS
  <1>17. m2 = [m EXCEPT ![b].len = o + m[o].len - b, ![o].ino = 0]
    BY <1>10, <1>12, <1>14, <1>16
  <1>18. m2 \in [Bytes -> Entries] /\ \A x \in Bytes \ {o} : m2[x] = m1[x]
    <2>1. 0 \in Inos \cup {0, Self, Parent}
      OBVIOUS
    <2> QED BY <1>1, <1>15, <1>16, <2>1, InodeChanged
  <1>19. m2[b] = c /\ \A x \in R \ {o, b} : m2[x] = m[x]
    BY <1>1, <1>4, <1>15, <1>18
  <1>20. Tiling(m2, size, R \ {o})
    <2>1. \A x \in R \ {o, b} : SameLength(m, m2, x)
      BY <1>19 DEF SameLength, Tiling
    <2>2. m2[b].len = m[b].len + m[o].len /\ m2[b].name = m[b].name
      BY <1>11, <1>13, <1>19
    <2> QED BY <1>1, <1>2, <1>4, <1>7, <1>8, <2>1, <2>2, TileMerge
  <1>21. \A x \in R \ {o} : m2[x].name = m[x].name /\ m2[x].ino = m[x].ino
    BY <1>13, <1>19
  <1>22. Spares(m, R, m2, R \ {o}, name)
    BY <1>1, <1>21 DEF Spares, MatchesOf
  <1>23. MatchesOf(m2, R \ {o}, name) \subseteq MatchesOf(m, R, name)
    BY <1>21 DEF MatchesOf
  <1>24. Given(m, R, name) => Given(m2, R \ {o}, name)
    BY <1>21 DEF Given, MatchesOf
  <1> QED BY <1>17, <1>18, <1>20, <1>22, <1>23, <1>24 DEF NoneMore

\* What a removal and a renaming do.
DelDone(name) ==
    /\ \E R2 : NoneMore(mem, Records, mem', i_size, R2, name)
    /\ i_size' = i_size
    /\ start' \in 0 .. MaxChunks
    /\ moved' = [r \in Readers |-> TRUE]
    /\ Forget(name)
    /\ UNCHANGED <<pos, twice>>

SetDone(name) ==
    /\ NoneMore(mem, Records, mem', i_size, Records, name)
    /\ MatchesOf(mem', Records, name) = MatchesOf(mem, Records, name)
    /\ i_size' = i_size
    /\ start' \in 0 .. MaxChunks
    /\ moved' = [r \in Readers |-> TRUE]
    /\ UNCHANGED <<pos, due, got, twice>>

LEMMA DeleteEntryDoes ==
    ASSUME DirInv, DeleteEntry
    PROVE  \E name \in Names : DelDone(name)
  <1>1. PICK name \in Names, bad \in BadPages : \E o \in kr_find_entry(name, bad) :
            /\ Commit(Merged(o), i_size)
            /\ start' = o \div PageSize
            /\ Forget(name)
            /\ UNCHANGED <<pos, twice>>
    BY DEF DeleteEntry
  <1>2. PICK o \in kr_find_entry(name, bad) :
            /\ Commit(Merged(o), i_size)
            /\ start' = o \div PageSize
            /\ Forget(name)
            /\ UNCHANGED <<pos, twice>>
    BY <1>1
  <1>3. /\ mem \in [Bytes -> Entries] /\ SizeOK(i_size)
        /\ Tiling(mem, i_size, Records)
    BY DirInvParts
  <1>4. PICK R : R = Records
    OBVIOUS
  <1>5. o \in MatchesOf(mem, R, name)
    BY <1>2, <1>4, FindEntry, MatchesAre
  <1>6. start' \in 0 .. MaxChunks
    <2>1. o \in Bytes
      BY <1>3, <1>4, <1>5, RecordBytes DEF MatchesOf
    <2> QED BY <1>2, <2>1, StartOK
  <1>7. \E R2 : NoneMore(mem, R, mem', i_size, R2, name)
    <2> DEFINE before == {x \in R : x < o /\ x \div Chunk = o \div Chunk}
    <2>1. mem' = Merged(o)
      BY <1>2 DEF Commit
    <2>2. CASE before = {}
      <3>1. mem' = [mem EXCEPT ![o].ino = 0]
        BY <1>4, <2>1, <2>2 DEF Merged
      <3>2. 0 \in Inos \cup {0}
        OBVIOUS
      <3>3. NoneMore(mem, R, [mem EXCEPT ![o].ino = 0], i_size, R, name)
        BY <1>3, <1>4, <1>5, <3>2, GiveRecord
      <3> QED BY <3>1, <3>3
    <2>3. CASE before # {}
      <3>1. PICK b : b = Max(before)
        OBVIOUS
      <3>2. mem' = [mem EXCEPT ![b].len = o + mem[o].len - b, ![o].ino = 0]
        BY <1>4, <2>1, <2>3, <3>1 DEF Merged
      <3>3. NoneMore(mem, R, [mem EXCEPT ![b].len = o + mem[o].len - b, ![o].ino = 0], i_size, R \ {o}, name)
        BY <1>3, <1>4, <1>5, <2>3, <3>1, MergeRecord
      <3> QED BY <3>2, <3>3
    <2> QED BY <2>2, <2>3
  <1> QED BY <1>2, <1>4, <1>6, <1>7 DEF DelDone, Commit

LEMMA SetLinkDoes ==
    ASSUME DirInv, SetLink
    PROVE  \E name \in Names : SetDone(name)
  <1>1. PICK name \in Names, ino \in Inos, bad \in BadPages : \E o \in kr_find_entry(name, bad) :
            /\ Commit([mem EXCEPT ![o].ino = ino], i_size)
            /\ start' = o \div PageSize
            /\ UNCHANGED <<pos, due, got, twice>>
    BY DEF SetLink
  <1>2. PICK o \in kr_find_entry(name, bad) :
            /\ Commit([mem EXCEPT ![o].ino = ino], i_size)
            /\ start' = o \div PageSize
            /\ UNCHANGED <<pos, due, got, twice>>
    BY <1>1
  <1>3. /\ mem \in [Bytes -> Entries] /\ SizeOK(i_size)
        /\ Tiling(mem, i_size, Records)
    BY DirInvParts
  <1>4. PICK R : R = Records
    OBVIOUS
  <1>5. o \in MatchesOf(mem, R, name)
    BY <1>2, <1>4, FindEntry, MatchesAre
  <1>6. o \in Bytes /\ R \subseteq Bytes
    BY <1>3, <1>4, <1>5, RecordBytes DEF MatchesOf
  <1>7. start' \in 0 .. MaxChunks
    BY <1>2, <1>6, StartOK
  <1>8. mem' = [mem EXCEPT ![o].ino = ino]
    BY <1>2 DEF Commit
  <1>9. NoneMore(mem, R, [mem EXCEPT ![o].ino = ino], i_size, R, name)
    BY <1>3, <1>4, <1>5, GiveRecord
  <1>10. MatchesOf([mem EXCEPT ![o].ino = ino], R, name) = MatchesOf(mem, R, name)
    <2>1. PICK m2 : m2 = [mem EXCEPT ![o].ino = ino]
      OBVIOUS
    <2>2. /\ m2[o].ino = ino /\ m2[o].name = mem[o].name
          /\ \A x \in Bytes \ {o} : m2[x] = mem[x]
      BY <1>3, <1>6, <2>1, InodeChanged
    <2>3. ino # 0 /\ mem[o].ino # 0 /\ o \in R
      BY <1>5, InosNat DEF MatchesOf
    <2>4. MatchesOf(m2, R, name) = MatchesOf(mem, R, name)
      BY <1>6, <2>2, <2>3 DEF MatchesOf
    <2> QED BY <2>1, <2>4
  <1> QED BY <1>2, <1>4, <1>7, <1>8, <1>9, <1>10 DEF SetDone, Commit

-----------------------------------------------------------------------------
(* The invariant: changes of the directory.                                *)

\* What holds of a directory after a change to one name.
LEMMA DirAfter ==
    ASSUME DirInv, NEW name \in Names, NEW R2, mem' \in [Bytes -> Entries], SizeOK(i_size'),
           Tiling(mem', i_size', R2), Spares(mem, Records, mem', R2, name),
           Given(mem, Records, name) => Given(mem', R2, name),
           ~IOErrors => \A o, x \in MatchesOf(mem', R2, name) : o = x,
           start' \in 0 .. MaxChunks, pos' = pos
    PROVE  DirInv' /\ Records' = R2
  <1>1. Records' = R2
    BY RecordsNext
  <1>2. PICK R : R = Records
    OBVIOUS
  <1>3. PICK m2 : m2 = mem'
    OBVIOUS
  <1>4. Named(mem, R) /\ (~IOErrors => Unique(mem, R))
    BY <1>2, DirInvParts
  <1>5. Given(mem, R, name)
    <2> SUFFICES ASSUME NEW o \in MatchesOf(mem, R, name) PROVE mem[o].ino \in Inos
      BY DEF Given
    <2>1. o \in R /\ mem[o].ino # 0 /\ mem[o].name = name /\ name \notin {".", ".."}
      BY DirAssumption DEF MatchesOf
    <2> QED BY <1>4, <2>1 DEF Named
  <1>6. Named(m2, R2)
    BY <1>2, <1>3, <1>4, <1>5, StillNamed
  <1>7. ~IOErrors => Unique(m2, R2)
    BY <1>2, <1>3, <1>4, StillUnique
  <1>8. DirOK(mem', i_size', Records')
    BY <1>1, <1>3, <1>6, <1>7 DEF DirOK
  <1>9. i_size' \in {k * Chunk : k \in 1 .. MaxChunks}
    BY SizeIs
  <1>10. TypeOK'
    BY <1>9 DEF TypeOK, DirInv, Entries
  <1> QED BY <1>1, <1>8, <1>10 DEF DirInv

LEMMA AddKeepsDir ==
    ASSUME DirInv, NEW name \in Names, NEW R2, Added(mem, Records, mem', i_size', R2, name), AddDone(name)
    PROVE  DirInv' /\ Records' = R2
  <1>1. PICK a : MatchesOf(mem', R2, name) = MatchesOf(mem, Records, name) \cup {a}
    BY DEF Added, OneMore
  <1>2. ~IOErrors => \A o, x \in MatchesOf(mem', R2, name) : o = x
    BY <1>1, MatchesAre DEF AddDone
  <1>3. start' \in 0 .. MaxChunks /\ pos' = pos
    BY DEF AddDone, DirInv, TypeOK
  <1> QED BY <1>2, <1>3, DirAfter DEF Added, OneMore

LEMMA DelKeepsDir ==
    ASSUME DirInv, NEW name \in Names, NEW R2, NoneMore(mem, Records, mem', i_size, R2, name),
           i_size' = i_size, start' \in 0 .. MaxChunks, pos' = pos
    PROVE  DirInv' /\ Records' = R2
  <1>1. ~IOErrors => \A o, x \in MatchesOf(mem', R2, name) : o = x
    BY DirInvParts DEF NoneMore, Unique
  <1>2. SizeOK(i_size')
    BY DirInvParts
  <1> QED BY <1>1, <1>2, DirAfter DEF NoneMore

\* A reader keeps its place through a change that leaves what it is owed and what it has.
LEMMA ScanAfter ==
    ASSUME NEW m, NEW m2, NEW size, NEW size2, NEW R, NEW R2, NEW p \in Nat, NEW mv, NEW d, NEW d2,
           NEW g, NEW g2, NEW tw, ScanOK(m, size, R, p, mv, d, g, tw),
           d2 \subseteq d, g2 \subseteq g,
           \A n \in d2 : MatchesOf(m, R, n) \subseteq MatchesOf(m2, R2, n),
           ~IOErrors => \A n \in g2 : MatchesOf(m2, R2, n) = MatchesOf(m, R, n)
    PROVE  ScanOK(m2, size2, R2, p, TRUE, d2, g2, tw)
  <1>1. \A n \in d2 : \E o \in MatchesOf(m2, R2, n) : p <= o
    BY DEF ScanOK
  <1>2. ~IOErrors => /\ \A n \in g2 : MatchesOf(m2, R2, n) # {}
                     /\ \A n \in g2 : \A o \in MatchesOf(m2, R2, n) : o < p
                     /\ ~tw
    BY DEF ScanOK
  <1> QED BY <1>1, <1>2 DEF ScanOK

LEMMA SparedNames ==
    ASSUME NEW m, NEW R, NEW m2, NEW R2, NEW name, Spares(m, R, m2, R2, name)
    PROVE  \A n \in Names : n # name => MatchesOf(m2, R2, n) = MatchesOf(m, R, n)
  BY RecLens DEF Spares

LEMMA AddKeeps ==
    ASSUME DirInv, ScanInv, AddLink
    PROVE  DirInv' /\ ScanInv'
  <1>1. PICK name \in Names : AddDone(name)
    BY AddLinkDoes
  <1>2. PICK R2 : Added(mem, Records, mem', i_size', R2, name)
    BY <1>1 DEF AddDone
  <1>3. DirInv' /\ Records' = R2
    BY <1>1, <1>2, AddKeepsDir
  <1>4. /\ \A n \in Names : n # name => MatchesOf(mem', R2, n) = MatchesOf(mem, Records, n)
        /\ MatchesOf(mem, Records, name) \subseteq MatchesOf(mem', R2, name)
        /\ ~IOErrors => MatchesOf(mem, Records, name) = {}
    BY <1>1, <1>2, SparedNames, MatchesAre DEF Added, OneMore, AddDone
  <1>5. moved' = [r \in Readers |-> TRUE] /\ UNCHANGED <<pos, due, got, twice>>
    BY <1>1 DEF AddDone
  <1>6. ScanTypes'
    BY <1>5 DEF ScanInv, ScanTypes
  <1>7. ASSUME NEW r \in Readers
        PROVE  ScanOK(mem', i_size', R2, pos[r], TRUE, due[r], got[r], twice[r])
    <2>1. /\ ScanOK(mem, i_size, Records, pos[r], moved[r], due[r], got[r], twice[r])
          /\ pos[r] \in Nat /\ due[r] \subseteq Names /\ got[r] \subseteq Names
      BY DEF ScanInv, ScanTypes
    <2>2. \A n \in due[r] : MatchesOf(mem, Records, n) \subseteq MatchesOf(mem', R2, n)
      BY <1>4, <2>1
    <2>3. ~IOErrors => \A n \in got[r] : MatchesOf(mem', R2, n) = MatchesOf(mem, Records, n)
      BY <1>4, <2>1 DEF ScanOK
    <2> QED BY <2>1, <2>2, <2>3, ScanAfter
  <1>8. \A r \in Readers : ScanOK(mem', i_size', Records', pos'[r], moved'[r], due'[r], got'[r], twice'[r])
    BY <1>3, <1>5, <1>7
  <1> QED BY <1>3, <1>6, <1>8 DEF ScanInv

LEMMA DelKeeps ==
    ASSUME DirInv, ScanInv, DeleteEntry
    PROVE  DirInv' /\ ScanInv'
  <1>1. PICK name \in Names : DelDone(name)
    BY DeleteEntryDoes
  <1>2. PICK R2 : NoneMore(mem, Records, mem', i_size, R2, name)
    BY <1>1 DEF DelDone
  <1>3. DirInv' /\ Records' = R2
    BY <1>1, <1>2, DelKeepsDir DEF DelDone
  <1>4. \A n \in Names : n # name => MatchesOf(mem', R2, n) = MatchesOf(mem, Records, n)
    BY <1>2, SparedNames DEF NoneMore
  <1>5. /\ moved' = [r \in Readers |-> TRUE] /\ UNCHANGED <<pos, twice>>
        /\ due' = [r \in Readers |-> due[r] \ {name}]
        /\ got' = [r \in Readers |-> got[r] \ {name}]
    BY <1>1 DEF DelDone, Forget
  <1>6. ScanTypes'
    BY <1>5 DEF ScanInv, ScanTypes
  <1>7. ASSUME NEW r \in Readers
        PROVE  ScanOK(mem', i_size', R2, pos[r], TRUE, due[r] \ {name}, got[r] \ {name}, twice[r])
    <2>1. /\ ScanOK(mem, i_size, Records, pos[r], moved[r], due[r], got[r], twice[r])
          /\ pos[r] \in Nat /\ due[r] \subseteq Names /\ got[r] \subseteq Names
      BY DEF ScanInv, ScanTypes
    <2>2. PICK d2 : d2 = due[r] \ {name}
      OBVIOUS
    <2>3. PICK g2 : g2 = got[r] \ {name}
      OBVIOUS
    <2>4. \A n \in d2 : MatchesOf(mem, Records, n) \subseteq MatchesOf(mem', R2, n)
      BY <1>4, <2>1, <2>2
    <2>5. ~IOErrors => \A n \in g2 : MatchesOf(mem', R2, n) = MatchesOf(mem, Records, n)
      BY <1>4, <2>1, <2>3
    <2>6. d2 \subseteq due[r] /\ g2 \subseteq got[r]
      BY <2>2, <2>3
    <2>7. ScanOK(mem', i_size', R2, pos[r], TRUE, d2, g2, twice[r])
      BY <2>1, <2>4, <2>5, <2>6, ScanAfter
    <2> QED BY <2>2, <2>3, <2>7
  <1>8. \A r \in Readers : ScanOK(mem', i_size', Records', pos'[r], moved'[r], due'[r], got'[r], twice'[r])
    BY <1>3, <1>5, <1>7
  <1> QED BY <1>3, <1>6, <1>8 DEF ScanInv

LEMMA SetKeeps ==
    ASSUME DirInv, ScanInv, SetLink
    PROVE  DirInv' /\ ScanInv'
  <1>1. PICK name \in Names : SetDone(name)
    BY SetLinkDoes
  <1>2. PICK R2 : R2 = Records /\ NoneMore(mem, Records, mem', i_size, R2, name)
    BY <1>1 DEF SetDone
  <1>3. DirInv' /\ Records' = R2
    BY <1>1, <1>2, DelKeepsDir DEF SetDone
  <1>4. \A n \in Names : MatchesOf(mem', R2, n) = MatchesOf(mem, Records, n)
    <2>1. \A n \in Names : n # name => MatchesOf(mem', R2, n) = MatchesOf(mem, Records, n)
      BY <1>2, SparedNames DEF NoneMore
    <2> QED BY <1>1, <1>2, <2>1 DEF SetDone
  <1>5. moved' = [r \in Readers |-> TRUE] /\ UNCHANGED <<pos, due, got, twice>>
    BY <1>1 DEF SetDone
  <1>6. ScanTypes'
    BY <1>5 DEF ScanInv, ScanTypes
  <1>7. ASSUME NEW r \in Readers
        PROVE  ScanOK(mem', i_size', R2, pos[r], TRUE, due[r], got[r], twice[r])
    <2>1. /\ ScanOK(mem, i_size, Records, pos[r], moved[r], due[r], got[r], twice[r])
          /\ pos[r] \in Nat /\ due[r] \subseteq Names /\ got[r] \subseteq Names
      BY DEF ScanInv, ScanTypes
    <2>2. \A n \in due[r] : MatchesOf(mem, Records, n) \subseteq MatchesOf(mem', R2, n)
      BY <1>4, <2>1
    <2>3. ~IOErrors => \A n \in got[r] : MatchesOf(mem', R2, n) = MatchesOf(mem, Records, n)
      BY <1>4, <2>1
    <2> QED BY <2>1, <2>2, <2>3, ScanAfter
  <1>8. \A r \in Readers : ScanOK(mem', i_size', Records', pos'[r], moved'[r], due'[r], got'[r], twice'[r])
    BY <1>3, <1>5, <1>7
  <1> QED BY <1>3, <1>6, <1>8 DEF ScanInv

-----------------------------------------------------------------------------
(* The invariant: scans.                                                   *)

\* A place at the beginning of a page is an edge.
LEMMA PagePlace ==
    ASSUME NEW p \in Nat
    PROVE  p % PageSize = 0 <=> \E k \in Nat : p = k * PageSize
  <1>1. PICK q : q = p \div PageSize
    OBVIOUS
  <1>2. PICK s : s = p % PageSize
    OBVIOUS
  <1>3. q \in Nat /\ q * PageSize \in Nat /\ s \in 0 .. PageSize - 1 /\ p = q * PageSize + s
    BY <1>1, <1>2, PageOf
  <1>4. ASSUME s = 0 PROVE \E k \in Nat : p = k * PageSize
    BY <1>3, <1>4
  <1>5. ASSUME NEW k \in Nat, p = k * PageSize PROVE s = 0
    <2>1. (k * PageSize) \div PageSize = k
      BY PageOrder
    <2>2. q = k
      BY <1>1, <1>5, <2>1
    <2>3. p = p + s
      BY <1>3, <1>5, <2>2
    <2> QED BY <1>3, <2>3, Sizes
  <1> QED BY <1>2, <1>4, <1>5

\* kr_readdir goes on at the first record at or after the place of the reader.
LEMMA Validated ==
    ASSUME DirInv, ScanInv, NEW r \in Readers, pos[r] <= i_size - MinRec
    PROVE  /\ kr_validate_entry(r) \in Records \cup {i_size}
           /\ pos[r] <= kr_validate_entry(r)
           /\ \A x \in Records : pos[r] <= x => kr_validate_entry(r) <= x
  <1>1. PICK R : R = Records
    OBVIOUS
  <1>2. PICK p : p = pos[r]
    OBVIOUS
  <1>3. SizeOK(i_size) /\ Tiling(mem, i_size, R)
    BY <1>1, DirInvParts
  <1>4. i_size \in Nat /\ Edge(i_size) /\ p \in Nat /\ p < i_size
    BY <1>2, <1>3, Sizes DEF SizeOK, ScanInv, ScanTypes
  <1>5. \A x \in R : x \in Nat /\ x < i_size
    BY <1>3, <1>4 DEF Tiling
  <1>6. CASE ~(moved[r] /\ p % PageSize # 0)
    <2>1. kr_validate_entry(r) = p
      BY <1>2, <1>6 DEF kr_validate_entry
    <2>2. p \in R
      <3>1. CASE p % PageSize = 0
        <4>1. PICK k \in Nat : p = k * PageSize
          BY <1>4, <3>1, PagePlace
        <4>2. Edge(p)
          BY <4>1, PageEdge
        <4> QED BY <1>3, <1>4, <4>2 DEF Tiling
      <3>2. CASE p % PageSize # 0
        <4>1. ~moved[r]
          BY <1>6, <3>2
        <4>2. p \in R \/ p % PageSize = 0 \/ p >= i_size
          BY <1>1, <1>2, <4>1 DEF ScanInv, ScanOK
        <4> QED BY <1>4, <3>2, <4>2
      <3> QED BY <3>1, <3>2
    <2> QED BY <1>1, <1>2, <1>4, <2>1, <2>2
  <1>7. CASE moved[r] /\ p % PageSize # 0
    <2>1. PICK c : c = (p \div Chunk) * Chunk
      OBVIOUS
    <2>2. Edge(c) /\ c \in Nat /\ c <= p /\ p < c + Chunk
      BY <1>4, <2>1, ChunkOf
    <2>3. c \in R
      BY <1>3, <1>4, <2>2 DEF Tiling
    <2>4. PICK k : k = p \div PageSize
      OBVIOUS
    <2>5. PICK s : s = k * PageSize
      OBVIOUS
    <2>6. /\ k \in Nat /\ s \in Nat /\ s <= p /\ p < s + PageSize /\ Edge(s) /\ Edge(s + PageSize)
          /\ (k + 1) * PageSize = s + PageSize
      <3>1. /\ k \in Nat /\ s \in Nat /\ s <= p /\ p < s + PageSize
            /\ (k + 1) * PageSize = s + PageSize
        BY <1>4, <2>4, <2>5, PageOf
      <3>2. Edge(s)
        BY <2>5, <3>1, PageEdge
      <3>3. k + 1 \in Nat
        BY <3>1
      <3>4. Edge((k + 1) * PageSize)
        BY <3>3, PageEdge
      <3> QED BY <3>1, <3>2, <3>4
    <2>7. s <= c
      <3> SUFFICES ASSUME c < s PROVE FALSE
        BY <2>2, <2>6
      <3>1. c + Chunk <= s
        BY <2>2, <2>6, EdgesApart
      <3> QED BY <1>4, <2>2, <2>6, <3>1, Sizes
    <2>8. c \div PageSize = k
      <3>1. k * PageSize <= c /\ c < k * PageSize + PageSize
        BY <1>4, <2>2, <2>5, <2>6, <2>7, Sizes
      <3> QED BY <2>2, <2>6, <3>1, PageOrder
    <2>9. WalkFrom(mem, c, i_size) = {x \in R : c <= x /\ x < s + PageSize}
      <3>1. WalkFrom(mem, c, i_size) = UpTo(R, c)
        BY <1>3, <1>4, <2>3, WalkIs
      <3> QED BY <2>5, <2>8, <3>1 DEF UpTo
    <2>10. PICK end : end = Min({i_size, (p \div PageSize + 1) * PageSize})
      OBVIOUS
    <2>11. end = IF i_size <= s + PageSize THEN i_size ELSE s + PageSize
      <3>1. end = Min({i_size, s + PageSize})
        BY <2>4, <2>6, <2>10
      <3> QED BY <1>4, <2>6, <3>1, Sizes, MinOfTwo
    <2>12. end \in Nat /\ p < end /\ end <= s + PageSize /\ end \in R \cup {i_size}
      <3>1. CASE i_size <= s + PageSize
        BY <1>4, <2>11, <3>1
      <3>2. CASE ~(i_size <= s + PageSize)
        <4>1. s + PageSize \in Nat /\ s + PageSize < i_size
          BY <1>4, <2>6, <3>2, Sizes
        <4>2. s + PageSize \in R
          BY <1>3, <1>4, <2>6, <4>1 DEF Tiling
        <4> QED BY <2>6, <2>11, <3>2, <4>1, <4>2
      <3> QED BY <3>1, <3>2
    <2> DEFINE S == {x \in {y \in R : c <= y /\ y < s + PageSize} : x >= p} \cup {end}
    <2>13. kr_validate_entry(r) = Min(S)
      <3>1. kr_validate_entry(r) = Min({x \in WalkFrom(mem, c, i_size) : x >= p} \cup {end})
        BY <1>2, <1>7, <2>1, <2>10 DEF kr_validate_entry
      <3> QED BY <2>9, <3>1
    <2>14. S \in SUBSET Nat /\ S # {}
      BY <1>5, <2>12
    <2>15. Min(S) \in S /\ \A x \in S : Min(S) <= x
      BY <2>14, MinIsLeast
    <2>16. PICK o : o = Min(S)
      OBVIOUS
    <2>17. o \in S /\ \A x \in S : o <= x
      BY <2>15, <2>16
    <2>18. o \in R \cup {i_size} /\ p <= o /\ o \in Nat
      BY <1>4, <1>5, <2>12, <2>14, <2>17
    <2>19. ASSUME NEW x \in R, p <= x PROVE o <= x
      <3>1. x \in Nat
        BY <1>5
      <3>2. CASE x < s + PageSize
        <4>1. c <= x
          BY <1>4, <2>2, <2>19, <3>1
        <4>2. x \in S
          BY <2>19, <3>1, <3>2, <4>1, <1>4
        <4> QED BY <2>17, <4>2
      <3>3. CASE ~(x < s + PageSize)
        <4>1. o <= end
          BY <2>17
        <4> QED BY <2>6, <2>12, <2>18, <3>1, <3>3, <4>1, Sizes
      <3> QED BY <3>2, <3>3
    <2> HIDE DEF S
    <2> QED BY <1>1, <1>2, <2>13, <2>16, <2>18, <2>19
  <1> QED BY <1>6, <1>7

\* The records that kr_readdir meets from o on.
LEMMA FromIs ==
    ASSUME DirInv, NEW o \in Records \cup {i_size}
    PROVE  From(o) = {x \in Records : o <= x}
  <1>1. PICK R : R = Records
    OBVIOUS
  <1>2. SizeOK(i_size) /\ Tiling(mem, i_size, R)
    BY <1>1, DirInvParts
  <1>3. i_size \in Nat /\ i_size >= 1 /\ Edge(i_size)
    BY <1>2, Sizes DEF SizeOK
  <1>4. \A x \in R : x \in Nat /\ x \in 0 .. i_size - 1
    BY <1>2, <1>3 DEF Tiling
  <1>5. o \in Nat
    BY <1>1, <1>3, <1>4
  <1>6. PICK k : k = o \div PageSize
    OBVIOUS
  <1>7. WalkFrom(mem, o, i_size) = {x \in R : o <= x /\ x < k * PageSize + PageSize}
    BY <1>1, <1>2, <1>3, <1>6, WalkIs DEF UpTo
  <1>8. \A q \in Pages : RecordsIn(q) = {x \in R : x \div PageSize = q}
    BY <1>2, RecordsAre
  <1>9. \A x \in R : x \div PageSize \in Pages
    BY <1>3, <1>4, PagesAre DEF Pages
  <1>10. ASSUME NEW x \in R
         PROVE  o <= x <=> (o <= x /\ x < k * PageSize + PageSize) \/ x \div PageSize > k
    <2>1. PICK j : j = x \div PageSize
      OBVIOUS
    <2>2. /\ j \in Nat /\ k \in Nat /\ j * PageSize \in Nat /\ k * PageSize \in Nat
          /\ j * PageSize <= x /\ k * PageSize <= o
      BY <1>4, <1>5, <1>6, <2>1, PageOf
    <2>3. j * PageSize <= o <=> j <= k
      BY <1>5, <1>6, <2>2, PageOrder
    <2>4. k * PageSize <= x <=> k <= j
      BY <1>4, <2>1, <2>2, PageOrder
    <2>5. (k * PageSize <= x /\ x < k * PageSize + PageSize) <=> k = j
      BY <1>4, <2>1, <2>2, PageOrder
    <2>6. PICK a \in Nat : a = j * PageSize
      BY <2>2
    <2>7. PICK b \in Nat : b = k * PageSize
      BY <2>2
    <2>8. a <= x /\ b <= o /\ (a <= o <=> j <= k) /\ (b <= x <=> k <= j)
          /\ ((b <= x /\ x < b + PageSize) <=> k = j)
      BY <2>2, <2>3, <2>4, <2>5, <2>6, <2>7
    <2>9. x \in Nat
      BY <1>4
    <2>10. o <= x <=> (o <= x /\ x < b + PageSize) \/ j > k
      <3>1. CASE j > k
        BY <1>5, <2>2, <2>8, <2>9, <3>1
      <3>2. CASE ~(j > k)
        BY <1>5, <2>2, <2>8, <2>9, <3>2
      <3> QED BY <3>1, <3>2
    <2> QED BY <2>1, <2>7, <2>10
  <1>11. UNION {RecordsIn(q) : q \in {j \in Pages : j > k}} = {x \in R : x \div PageSize > k}
    BY <1>8, <1>9
  <1> QED BY <1>1, <1>6, <1>7, <1>10, <1>11 DEF From

\* The number of records up to x.
Rank(used, x) == Cardinality({y \in used : y <= x})

LEMMA RankGrows ==
    ASSUME NEW N \in Nat, NEW used \in SUBSET (0 .. N), NEW x \in Nat, NEW z \in Nat
    PROVE  Rank(used, x) \in Nat /\ (x <= z => Rank(used, x) <= Rank(used, z))
  <1>1. IsFiniteSet(0 .. N)
    BY FS_Interval
  <1> DEFINE A == {y \in used : y <= x}
             B == {y \in used : y <= z}
  <1>2. A \subseteq 0 .. N /\ B \subseteq 0 .. N
    OBVIOUS
  <1>3. IsFiniteSet(A) /\ IsFiniteSet(B)
    BY <1>1, <1>2, FS_Subset
  <1>4. Cardinality(A) \in Nat
    BY <1>3, FS_CardinalityType
  <1>5. ASSUME x <= z PROVE Cardinality(A) <= Cardinality(B)
    <2>1. A \subseteq B
      <3>1. ASSUME NEW y \in used, y <= x PROVE y <= z
        BY <1>5, <3>1
      <3> QED BY <3>1
    <2> QED BY <1>3, <2>1, FS_Subset
  <1> QED BY <1>4, <1>5 DEF Rank

\* What one call of kr_readdir does for its reader: o is the record it begins at, stop where the
\* pages are that cannot be read, used the records in use that it meets, n the room in the buffer.
ReadStep(R, p, mv, d, g, tw, o, stop, used, n, p2, mv2, d2, g2, tw2) ==
    LET given == {mem[x].name : x \in {y \in used : Rank(used, y) <= n}} \cap Names
        rest == {x \in used : Rank(used, x) > n}
    IN  /\ used = {x \in R : o <= x /\ mem[x].ino # 0 /\ \A s \in stop : x < s}
        /\ \/ /\ rest # {}
              /\ p2 = Min(rest)
           \/ /\ rest = {} /\ stop = {}
              /\ p2 = i_size
           \/ /\ rest = {} /\ stop # {}
              /\ p2 = (Min(stop) \div PageSize + 1) * PageSize
        /\ d2 = IF rest = {} /\ stop # {} THEN {} ELSE d \ given
        /\ tw2 = (tw \/ g \cap given # {})
        /\ g2 = g \cup given

\* The pages that cannot be read begin in the directory.
StopsOK(stop) ==
    /\ \A s \in stop : s \in Nat /\ s < i_size /\ \E k \in Nat : s = k * PageSize
    /\ ~IOErrors => stop = {}

LEMMA ReadKeepsScan ==
    ASSUME DirInv, NEW R, R = Records, NEW p \in Nat, NEW mv, NEW d, NEW g, NEW tw, NEW o, NEW stop,
           NEW used, NEW n \in Nat, NEW p2, NEW mv2, NEW d2, NEW g2, NEW tw2,
           ScanOK(mem, i_size, R, p, mv, d, g, tw), d \subseteq Names, g \subseteq Names,
           tw \in BOOLEAN,
           o \in R \cup {i_size}, p <= o, \A x \in R : p <= x => o <= x,
           StopsOK(stop),
           ReadStep(R, p, mv, d, g, tw, o, stop, used, n, p2, mv2, d2, g2, tw2)
    PROVE  /\ ScanOK(mem, i_size, R, p2, mv2, d2, g2, tw2)
           /\ p2 \in 0 .. MaxChunks * Chunk + PageSize
           /\ d2 \subseteq Names /\ g2 \subseteq Names /\ tw2 \in BOOLEAN
  <1> DEFINE given == {mem[x].name : x \in {y \in used : Rank(used, y) <= n}} \cap Names
             rest == {x \in used : Rank(used, x) > n}
  <1>1. SizeOK(i_size) /\ Tiling(mem, i_size, R) /\ (~IOErrors => Unique(mem, R))
    BY DirInvParts
  <1>2. i_size \in Nat /\ i_size <= MaxChunks * Chunk
    BY <1>1 DEF SizeOK
  <1>3. \A x \in R : x \in Nat /\ x < i_size
    BY <1>1, <1>2 DEF Tiling
  <1>4. used = {x \in R : o <= x /\ mem[x].ino # 0 /\ \A s \in stop : x < s}
    BY DEF ReadStep
  <1>5. o \in Nat
    BY <1>2, <1>3
  <1>6. used \in SUBSET (0 .. i_size)
    BY <1>2, <1>3, <1>4
  <1>7. \A x \in used : x \in R /\ x \in Nat /\ x < i_size /\ Rank(used, x) \in Nat
    BY <1>2, <1>3, <1>4, <1>6, RankGrows
  <1>8. \A x \in used : Rank(used, x) <= n <=> x \notin rest
    BY <1>7
  <1>9. d2 = (IF rest = {} /\ stop # {} THEN {} ELSE d \ given) /\ g2 = g \cup given
        /\ tw2 = (tw \/ g \cap given # {})
    BY DEF ReadStep
  <1>10. \/ rest # {} /\ p2 = Min(rest)
         \/ rest = {} /\ stop = {} /\ p2 = i_size
         \/ rest = {} /\ stop # {} /\ p2 = (Min(stop) \div PageSize + 1) * PageSize
    BY DEF ReadStep
  <1>11. d2 \subseteq Names /\ g2 \subseteq Names /\ tw2 \in BOOLEAN
    BY <1>9
  <1>12. \A k \in given : \E x \in used : mem[x].name = k /\ x \notin rest /\ x \in MatchesOf(mem, R, k)
    <2> SUFFICES ASSUME NEW k \in given
                 PROVE  \E x \in used : mem[x].name = k /\ x \notin rest /\ x \in MatchesOf(mem, R, k)
      OBVIOUS
    <2>1. PICK x \in used : Rank(used, x) <= n /\ mem[x].name = k
      OBVIOUS
    <2>2. x \notin rest
      BY <1>8, <2>1
    <2>3. x \in MatchesOf(mem, R, k)
      BY <1>4, <2>1 DEF MatchesOf
    <2> QED BY <2>1, <2>2, <2>3
  <1>13. \A x \in used : x \notin rest /\ mem[x].name \in Names => mem[x].name \in given
    BY <1>8
  <1> HIDE DEF given
  <1>14. ~IOErrors => g \cap given = {}
    <2> SUFFICES ASSUME ~IOErrors, NEW k \in g \cap given PROVE FALSE
      OBVIOUS
    <2>1. PICK x \in used : x \in MatchesOf(mem, R, k)
      BY <1>12
    <2>2. x < p
      BY <2>1 DEF ScanOK
    <2>3. o <= x /\ x \in Nat
      BY <1>4, <1>7, <2>1
    <2> QED BY <1>5, <2>2, <2>3
  <1>15. ~IOErrors => ~tw2
    BY <1>9, <1>14 DEF ScanOK
  <1>16. ~IOErrors => \A k \in g2 : MatchesOf(mem, R, k) # {}
    BY <1>9, <1>12 DEF ScanOK
  <1>17. \A k \in d : \E x \in MatchesOf(mem, R, k) : x \in R /\ o <= x /\ mem[x].ino # 0 /\ mem[x].name = k
    <2> SUFFICES ASSUME NEW k \in d
                 PROVE  \E x \in MatchesOf(mem, R, k) : x \in R /\ o <= x /\ mem[x].ino # 0 /\ mem[x].name = k
      OBVIOUS
    <2>1. PICK x \in MatchesOf(mem, R, k) : p <= x
      BY DEF ScanOK
    <2>2. x \in R /\ mem[x].ino # 0 /\ mem[x].name = k
      BY <2>1 DEF MatchesOf
    <2> QED BY <2>1, <2>2
  <1>18. \A k \in given : ~IOErrors => \A x \in MatchesOf(mem, R, k) : x \in used /\ x \notin rest
    <2> SUFFICES ASSUME NEW k \in given, ~IOErrors, NEW x \in MatchesOf(mem, R, k)
                 PROVE  x \in used /\ x \notin rest
      OBVIOUS
    <2>1. PICK y \in used : y \notin rest /\ y \in MatchesOf(mem, R, k)
      BY <1>12
    <2>2. k \in Names
      BY DEF given
    <2>3. x = y
      BY <1>1, <2>1, <2>2 DEF Unique
    <2> QED BY <2>1, <2>3
  <1>19. CASE rest # {} /\ p2 = Min(rest)
    <2>1. rest \in SUBSET Nat
      BY <1>7
    <2>2. p2 \in rest /\ \A x \in rest : p2 <= x
      BY <1>19, <2>1, MinIsLeast
    <2>3. p2 \in used /\ p2 \in R /\ p2 \in Nat /\ p2 < i_size /\ o <= p2 /\ \A s \in stop : p2 < s
      BY <1>4, <1>7, <2>2
    <2>4. \A x \in used : x \notin rest => x < p2
      <3> SUFFICES ASSUME NEW x \in used, x \notin rest, p2 <= x PROVE FALSE
        BY <1>7, <2>3
      <3>1. Rank(used, p2) <= Rank(used, x)
        BY <1>2, <1>6, <1>7, <2>3, RankGrows
      <3>2. Rank(used, p2) > n /\ Rank(used, p2) \in Nat /\ Rank(used, x) \in Nat
        BY <1>7, <2>2, <2>3
      <3> QED BY <1>8, <3>1, <3>2
    <2>5. \A k \in d2 : \E x \in MatchesOf(mem, R, k) : p2 <= x
      <3> SUFFICES ASSUME NEW k \in d2 PROVE \E x \in MatchesOf(mem, R, k) : p2 <= x
        OBVIOUS
      <3>1. k \in d /\ k \notin given /\ k \in Names
        BY <1>9, <1>19
      <3>2. PICK x \in MatchesOf(mem, R, k) : x \in R /\ o <= x /\ mem[x].ino # 0 /\ mem[x].name = k
        BY <1>17, <3>1
      <3>3. CASE x \in used
        <4>1. x \in rest
          BY <1>13, <3>1, <3>2, <3>3
        <4> QED BY <2>2, <3>2, <4>1
      <3>4. CASE x \notin used
        <4>1. PICK s \in stop : ~(x < s)
          BY <1>4, <3>2, <3>4
        <4>2. p2 < s /\ s \in Nat /\ x \in Nat
          BY <1>3, <2>3, <3>2, <4>1 DEF StopsOK
        <4>3. p2 <= x
          BY <2>3, <4>1, <4>2
        <4> QED BY <3>2, <4>3
      <3> QED BY <3>3, <3>4
    <2>6. ~IOErrors => \A k \in g2 : \A x \in MatchesOf(mem, R, k) : x < p2
      <3> SUFFICES ASSUME ~IOErrors, NEW k \in g2, NEW x \in MatchesOf(mem, R, k) PROVE x < p2
        OBVIOUS
      <3>1. CASE k \in g
        <4>1. x < p /\ x \in Nat
          BY <1>3, <3>1 DEF ScanOK, MatchesOf
        <4> QED BY <1>5, <2>3, <4>1
      <3>2. CASE k \in given
        BY <1>18, <2>4, <3>2
      <3> QED BY <1>9, <3>1, <3>2
    <2>7. p2 \in 0 .. MaxChunks * Chunk + PageSize
      BY <1>2, <2>3, Sizes
    <2>8. ScanOK(mem, i_size, R, p2, mv2, d2, g2, tw2)
      BY <1>15, <1>16, <2>3, <2>5, <2>6 DEF ScanOK
    <2> QED BY <1>11, <2>7, <2>8
  <1>20. CASE rest = {} /\ stop = {} /\ p2 = i_size
    <2>1. d2 = {}
      <3> SUFFICES ASSUME NEW k \in d2 PROVE FALSE
        OBVIOUS
      <3>1. k \in d /\ k \notin given /\ k \in Names
        BY <1>9, <1>20
      <3>2. PICK x \in MatchesOf(mem, R, k) : x \in R /\ o <= x /\ mem[x].ino # 0 /\ mem[x].name = k
        BY <1>17, <3>1
      <3>3. x \in used
        BY <1>4, <1>20, <3>2
      <3>4. x \notin rest
        BY <1>20
      <3> QED BY <1>13, <3>1, <3>2, <3>3, <3>4
    <2>2. \A k : \A x \in MatchesOf(mem, R, k) : x < p2
      BY <1>3, <1>20 DEF MatchesOf
    <2>3. p2 \in 0 .. MaxChunks * Chunk + PageSize /\ p2 >= i_size
      BY <1>2, <1>20, Sizes
    <2>4. ScanOK(mem, i_size, R, p2, mv2, d2, g2, tw2)
      BY <1>15, <1>16, <2>1, <2>2, <2>3 DEF ScanOK
    <2> QED BY <1>11, <2>3, <2>4
  <1>21. CASE rest = {} /\ stop # {} /\ p2 = (Min(stop) \div PageSize + 1) * PageSize
    <2>1. stop \in SUBSET Nat
      BY DEF StopsOK
    <2>2. PICK s : s = Min(stop)
      OBVIOUS
    <2>3. s \in stop
      BY <1>21, <2>1, <2>2, MinIsLeast
    <2>4. PICK k \in Nat : s = k * PageSize
      BY <2>3 DEF StopsOK
    <2>5. s \in Nat /\ s < i_size
      BY <2>3 DEF StopsOK
    <2>6. s \div PageSize = k
      BY <2>4, PageOrder
    <2>7. p2 = (k + 1) * PageSize /\ p2 = s + PageSize
      BY <1>21, <2>2, <2>4, <2>6, PageEdge
    <2>8. p2 \in Nat /\ p2 \in 0 .. MaxChunks * Chunk + PageSize
      BY <1>2, <2>5, <2>7, Sizes
    <2>9. p2 % PageSize = 0
      <3>1. k + 1 \in Nat
        OBVIOUS
      <3> QED BY <2>7, <2>8, <3>1, PagePlace
    <2>10. d2 = {} /\ IOErrors
      BY <1>9, <1>21, DirAssumption DEF StopsOK
    <2>11. ScanOK(mem, i_size, R, p2, mv2, d2, g2, tw2)
      BY <2>9, <2>10 DEF ScanOK
    <2> QED BY <1>11, <2>8, <2>11
  <1> QED BY <1>10, <1>19, <1>20, <1>21

\* A call of kr_readdir keeps the invariant.
LEMMA ReadKeeps ==
    ASSUME DirInv, ScanInv, NEW r \in Readers, Readdir(r)
    PROVE  DirInv' /\ ScanInv'
  <1>1. pos[r] <= i_size - MinRec /\ UNCHANGED <<mem, i_size, start>>
    BY DEF Readdir
  <1>2. PICK n \in 1 .. Batch, bad \in BadPages :
        LET o == kr_validate_entry(r)
            stop == {p * PageSize : p \in {q \in bad : q >= pos[r] \div PageSize}}
            used == {x \in From(o) : mem[x].ino # 0 /\ \A s \in stop : x < s}
            given == {mem[x].name : x \in {y \in used : Rank(used, y) <= n}} \cap Names
            rest == {x \in used : Rank(used, x) > n}
        IN  /\ \/ /\ rest # {}
                  /\ pos' = [pos EXCEPT ![r] = Min(rest)]
               \/ /\ rest = {} /\ stop = {}
                  /\ pos' = [pos EXCEPT ![r] = i_size]
               \/ /\ rest = {} /\ stop # {}
                  /\ pos' = [pos EXCEPT ![r] = (Min(stop) \div PageSize + 1) * PageSize]
            /\ due' = [due EXCEPT ![r] = IF rest = {} /\ stop # {} THEN {} ELSE @ \ given]
            /\ twice' = [twice EXCEPT ![r] = @ \/ got[r] \cap given # {}]
            /\ got' = [got EXCEPT ![r] = @ \cup given]
            /\ moved' = [moved EXCEPT ![r] = @ /\ pos[r] \div PageSize \in bad]
    BY DEF Readdir, Rank
  <1>3. PICK R : R = Records
    OBVIOUS
  <1>4. PICK o : o = kr_validate_entry(r)
    OBVIOUS
  <1>5. o \in R \cup {i_size} /\ pos[r] <= o /\ \A x \in R : pos[r] <= x => o <= x
    BY <1>1, <1>3, <1>4, Validated
  <1>6. PICK stop : stop = {p * PageSize : p \in {q \in bad : q >= pos[r] \div PageSize}}
    OBVIOUS
  <1>7. StopsOK(stop)
    <2>1. SizeOK(i_size)
      BY DirInvParts
    <2>2. i_size \in Nat /\ i_size >= 1
      BY <2>1, Sizes DEF SizeOK
    <2>3. \A q \in bad : q \in Nat /\ q * PageSize \in Nat /\ q * PageSize < i_size
      <3> SUFFICES ASSUME NEW q \in bad PROVE q \in Nat /\ q * PageSize \in Nat /\ q * PageSize < i_size
        OBVIOUS
      <3>1. q \in 0 .. NPages(i_size) - 1
        BY DEF BadPages, Pages
      <3>2. q \in Nat
        BY <2>2, <3>1, PagesAre
      <3>3. q * PageSize < i_size
        BY <2>2, <3>1, <3>2, PagesAre
      <3> QED BY <3>2, <3>3, PageEdge, EdgeNat
    <2>4. ~IOErrors => bad = {}
      BY DEF BadPages
    <2> QED BY <1>6, <2>3, <2>4 DEF StopsOK
  <1>8. PICK used : used = {x \in R : o <= x /\ mem[x].ino # 0 /\ \A s \in stop : x < s}
    OBVIOUS
  <1>9. used = {x \in From(o) : mem[x].ino # 0 /\ \A s \in stop : x < s}
    <2>1. From(o) = {x \in R : o <= x}
      BY <1>3, <1>5, FromIs
    <2> QED BY <1>8, <2>1
  <1>10. PICK given : given = {mem[x].name : x \in {y \in used : Rank(used, y) <= n}} \cap Names
    OBVIOUS
  <1>11. PICK rest : rest = {x \in used : Rank(used, x) > n}
    OBVIOUS
  <1>12. /\ \/ rest # {} /\ pos' = [pos EXCEPT ![r] = Min(rest)]
            \/ rest = {} /\ stop = {} /\ pos' = [pos EXCEPT ![r] = i_size]
            \/ rest = {} /\ stop # {} /\ pos' = [pos EXCEPT ![r] = (Min(stop) \div PageSize + 1) * PageSize]
         /\ due' = [due EXCEPT ![r] = IF rest = {} /\ stop # {} THEN {} ELSE @ \ given]
         /\ twice' = [twice EXCEPT ![r] = @ \/ got[r] \cap given # {}]
         /\ got' = [got EXCEPT ![r] = @ \cup given]
         /\ moved' = [moved EXCEPT ![r] = @ /\ pos[r] \div PageSize \in bad]
    BY <1>2, <1>4, <1>6, <1>9, <1>10, <1>11
  <1>13. ScanTypes /\ n \in Nat
    BY DirAssumption DEF ScanInv
  <1>14. PICK p2 : /\ pos' = [pos EXCEPT ![r] = p2]
                   /\ \/ rest # {} /\ p2 = Min(rest)
                      \/ rest = {} /\ stop = {} /\ p2 = i_size
                      \/ rest = {} /\ stop # {} /\ p2 = (Min(stop) \div PageSize + 1) * PageSize
    BY <1>12
  <1>15. PICK d2 : d2 = (IF rest = {} /\ stop # {} THEN {} ELSE due[r] \ given)
    OBVIOUS
  <1>16. PICK tw2 : tw2 = (twice[r] \/ got[r] \cap given # {})
    OBVIOUS
  <1>17. PICK g2 : g2 = got[r] \cup given
    OBVIOUS
  <1>18. PICK mv2 : mv2 = (moved[r] /\ pos[r] \div PageSize \in bad)
    OBVIOUS
  <1>19. /\ due' = [due EXCEPT ![r] = d2] /\ twice' = [twice EXCEPT ![r] = tw2]
         /\ got' = [got EXCEPT ![r] = g2] /\ moved' = [moved EXCEPT ![r] = mv2]
    BY <1>12, <1>13, <1>15, <1>16, <1>17, <1>18 DEF ScanTypes
  <1>20. ReadStep(R, pos[r], moved[r], due[r], got[r], twice[r], o, stop, used, n, p2, mv2, d2, g2, tw2)
    BY <1>8, <1>10, <1>11, <1>14, <1>15, <1>16, <1>17 DEF ReadStep
  <1>21. /\ pos[r] \in Nat /\ due[r] \subseteq Names /\ got[r] \subseteq Names /\ twice[r] \in BOOLEAN
         /\ ScanOK(mem, i_size, R, pos[r], moved[r], due[r], got[r], twice[r])
    BY <1>3, <1>13 DEF ScanInv, ScanTypes
  <1>22. /\ ScanOK(mem, i_size, R, p2, mv2, d2, g2, tw2)
         /\ p2 \in 0 .. MaxChunks * Chunk + PageSize
         /\ d2 \subseteq Names /\ g2 \subseteq Names /\ tw2 \in BOOLEAN
    BY <1>3, <1>5, <1>7, <1>13, <1>20, <1>21, ReadKeepsScan
  <1>23. p2 \in Nat /\ mv2 \in BOOLEAN
    BY <1>18, <1>22, Sizes
  <1>24. ScanTypes'
    BY <1>13, <1>14, <1>19, <1>22, <1>23 DEF ScanTypes
  <1>25. Records' = R
    BY <1>1, <1>3 DEF Records, RecordsIn, Pages
  <1>26. ASSUME NEW t \in Readers
         PROVE  /\ ScanOK(mem', i_size', Records', pos'[t], moved'[t], due'[t], got'[t], twice'[t])
                /\ pos'[t] \in 0 .. MaxChunks * Chunk + PageSize
    <2>1. CASE t = r
      <3>1. pos'[t] = p2 /\ moved'[t] = mv2 /\ due'[t] = d2 /\ got'[t] = g2 /\ twice'[t] = tw2
        BY <1>13, <1>14, <1>19, <2>1 DEF ScanTypes
      <3> QED BY <1>1, <1>22, <1>25, <3>1
    <2>2. CASE t # r
      <3>1. /\ pos'[t] = pos[t] /\ moved'[t] = moved[t] /\ due'[t] = due[t] /\ got'[t] = got[t]
            /\ twice'[t] = twice[t]
        BY <1>13, <1>14, <1>19, <2>2 DEF ScanTypes
      <3>2. ScanOK(mem, i_size, R, pos[t], moved[t], due[t], got[t], twice[t])
        BY <1>3 DEF ScanInv
      <3>3. pos[t] \in 0 .. MaxChunks * Chunk + PageSize
        BY DEF DirInv, TypeOK
      <3> QED BY <1>1, <1>25, <3>1, <3>2, <3>3
    <2> QED BY <2>1, <2>2
  <1>27. TypeOK'
    BY <1>1, <1>26 DEF TypeOK, DirInv
  <1>28. DirOK(mem', i_size', Records')
    BY <1>1, <1>3, <1>25 DEF DirInv
  <1> QED BY <1>24, <1>26, <1>27, <1>28 DEF DirInv, ScanInv

LEMMA RewindKeeps ==
    ASSUME DirInv, ScanInv, NEW r \in Readers, Rewind(r)
    PROVE  DirInv' /\ ScanInv'
  <1>1. PICK R : R = Records
    OBVIOUS
  <1>2. UNCHANGED <<mem, i_size, start, twice>> /\ Records' = R
    BY <1>1 DEF Rewind, Records, RecordsIn, Pages
  <1>3. PICK d2 : d2 = Bound
    OBVIOUS
  <1>4. /\ pos' = [pos EXCEPT ![r] = 0] /\ moved' = [moved EXCEPT ![r] = TRUE]
        /\ due' = [due EXCEPT ![r] = d2] /\ got' = [got EXCEPT ![r] = {}]
    BY <1>3 DEF Rewind
  <1>5. d2 \subseteq Names /\ \A n \in d2 : MatchesOf(mem, R, n) # {}
    BY <1>1, <1>3, MatchesAre DEF Bound
  <1>6. ScanTypes
    BY DEF ScanInv
  <1>7. ScanTypes'
    BY <1>2, <1>4, <1>5, <1>6 DEF ScanTypes
  <1>8. \A x \in R : x \in Nat
    <2>1. Tiling(mem, i_size, R) /\ SizeOK(i_size)
      BY <1>1, DirInvParts
    <2> QED BY <2>1 DEF Tiling, SizeOK
  <1>9. ASSUME NEW t \in Readers
        PROVE  /\ ScanOK(mem', i_size', Records', pos'[t], moved'[t], due'[t], got'[t], twice'[t])
               /\ pos'[t] \in 0 .. MaxChunks * Chunk + PageSize
    <2>1. /\ ScanOK(mem, i_size, R, pos[t], moved[t], due[t], got[t], twice[t])
          /\ pos[t] \in 0 .. MaxChunks * Chunk + PageSize
      BY <1>1 DEF ScanInv, DirInv, TypeOK
    <2>2. CASE t = r
      <3>1. pos'[t] = 0 /\ moved'[t] = TRUE /\ due'[t] = d2 /\ got'[t] = {} /\ twice'[t] = twice[t]
        BY <1>2, <1>4, <1>6, <2>2 DEF ScanTypes
      <3>2. \A n \in d2 : \E o \in MatchesOf(mem, R, n) : 0 <= o
        BY <1>5, <1>8 DEF MatchesOf
      <3>3. ScanOK(mem, i_size, R, 0, TRUE, d2, {}, twice[t])
        BY <2>1, <3>2 DEF ScanOK
      <3>4. 0 \in 0 .. MaxChunks * Chunk + PageSize
        BY Sizes
      <3> QED BY <1>2, <3>1, <3>3, <3>4
    <2>3. CASE t # r
      <3>1. /\ pos'[t] = pos[t] /\ moved'[t] = moved[t] /\ due'[t] = due[t] /\ got'[t] = got[t]
            /\ twice'[t] = twice[t]
        BY <1>2, <1>4, <1>6, <2>3 DEF ScanTypes
      <3> QED BY <1>2, <2>1, <3>1
    <2> QED BY <2>2, <2>3
  <1>10. TypeOK'
    BY <1>2, <1>9 DEF TypeOK, DirInv
  <1>11. DirOK(mem', i_size', Records')
    BY <1>1, <1>2 DEF DirInv
  <1> QED BY <1>7, <1>9, <1>10, <1>11 DEF DirInv, ScanInv

-----------------------------------------------------------------------------
(* The theorems.                                                           *)

\* kr_make_empty makes a tiling of two records.
LEMMA InitDir ==
    ASSUME Init
    PROVE  DirInv /\ Records = {0, MinRec} /\ \A n \in Names : MatchesOf(mem, Records, n) = {}
  <1> DEFINE R == {0, MinRec}
             E(o) == IF o = 0 THEN Rec(MinRec, ".", Self)
                     ELSE IF o = MinRec THEN Rec(Chunk - MinRec, "..", Parent)
                     ELSE Blank
  <1>1. mem = [o \in Bytes |-> E(o)] /\ i_size = Chunk
    BY DEF Init
  <1>2. SizeOK(Chunk) /\ Chunk \in {k * Chunk : k \in 1 .. MaxChunks}
    <2>1. 1 \in 1 .. MaxChunks /\ 1 * Chunk = Chunk
      BY Sizes
    <2>2. Chunk \in {k * Chunk : k \in 1 .. MaxChunks}
      BY <2>1
    <2> QED BY <2>2, SizeIs
  <1>3. Chunk <= MaxChunks * Chunk /\ 0 < MinRec /\ MinRec < Chunk
    BY <1>2, Sizes DEF SizeOK
  <1>4. 0 \in Bytes /\ MinRec \in Bytes
    BY <1>3, Sizes DEF Bytes
  <1>5. mem[0] = Rec(MinRec, ".", Self) /\ mem[MinRec] = Rec(Chunk - MinRec, "..", Parent)
    BY <1>1, <1>3, <1>4
  <1>6. /\ mem[0].len = MinRec /\ mem[0].name = "." /\ mem[0].ino = Self
        /\ mem[MinRec].len = Chunk - MinRec /\ mem[MinRec].name = ".." /\ mem[MinRec].ino = Parent
    BY <1>5, RecIs
  <1>7. mem \in [Bytes -> Entries]
    <2>1. Rec(MinRec, ".", Self) \in Entries
      <3>1. MinRec \in 0 .. Chunk /\ "." \in DOMAIN RecLen
        BY <1>3, Sizes, RecLens
      <3> QED BY <3>1, RecEntry
    <2>2. Rec(Chunk - MinRec, "..", Parent) \in Entries
      <3>1. Chunk - MinRec \in 0 .. Chunk /\ ".." \in DOMAIN RecLen
        BY <1>3, Sizes, RecLens
      <3> QED BY <3>1, RecEntry
    <2>3. Blank \in Entries
      <3>1. 0 \in 0 .. Chunk /\ "." \in DOMAIN RecLen
        BY Sizes, RecLens
      <3> QED BY <3>1, RecEntry DEF Blank
    <2> QED BY <1>1, <2>1, <2>2, <2>3
  <1>8. Tiling(mem, Chunk, R)
    <2>1. R \subseteq 0 .. Chunk - 1
      BY <1>3, Sizes
    <2>2. \A e \in 0 .. Chunk - 1 : Edge(e) => e \in R
      <3> SUFFICES ASSUME NEW e \in 0 .. Chunk - 1, Edge(e), e # 0 PROVE FALSE
        OBVIOUS
      <3>1. 0 < e
        BY Sizes
      <3>2. 0 + Chunk <= e
        BY <3>1, EdgeZero, EdgesApart
      <3> QED BY <3>2, Sizes
    <2>3. RecLen["."] = MinRec /\ RecLen[".."] = MinRec /\ "." \in DOMAIN RecLen /\ ".." \in DOMAIN RecLen
      BY DirAssumption, RecLens
    <2>4. \A o \in R : /\ mem[o].len \in Nat
                       /\ mem[o].name \in DOMAIN RecLen
                       /\ mem[o].len >= RecLen[mem[o].name]
                       /\ o + mem[o].len \in R \cup {Chunk}
      <3>1. Chunk - MinRec \in Nat /\ Chunk - MinRec >= MinRec /\ MinRec + (Chunk - MinRec) = Chunk
        BY Sizes
      <3>2. 0 + MinRec = MinRec /\ MinRec \in Nat
        BY Sizes
      <3> QED BY <1>6, <2>3, <3>1, <3>2
    <2>5. \A o, x \in R : x <= o \/ o + mem[o].len <= x
      BY <1>3, <1>6, Sizes
    <2> QED BY <2>1, <2>2, <2>4, <2>5 DEF Tiling
  <1>9. Records = R
    BY <1>1, <1>2, <1>8, RecordsAre
  <1>10. \A n \in Names : MatchesOf(mem, R, n) = {}
    <2>1. "." \notin Names /\ ".." \notin Names
      BY DirAssumption
    <2> QED BY <1>6, <2>1 DEF MatchesOf
  <1>11. Named(mem, R)
    BY <1>6 DEF Named
  <1>12. Unique(mem, R)
    BY <1>10 DEF Unique
  <1>13. TypeOK
    <2>1. start \in 0 .. MaxChunks /\ \A r \in Readers : pos[r] \in 0 .. MaxChunks * Chunk + PageSize
      <3>1. 0 \in 0 .. MaxChunks /\ 0 \in 0 .. MaxChunks * Chunk + PageSize
        BY Sizes
      <3> QED BY <3>1 DEF Init
    <2> QED BY <1>1, <1>2, <1>7, <2>1 DEF TypeOK, Entries
  <1> QED BY <1>1, <1>8, <1>9, <1>10, <1>11, <1>12, <1>13 DEF DirInv, DirOK

LEMMA InitScan == Init => ScanInv
  <1> SUFFICES ASSUME Init PROVE ScanInv
    OBVIOUS
  <1>1. /\ pos = [r \in Readers |-> 0] /\ moved = [r \in Readers |-> TRUE]
        /\ due = [r \in Readers |-> {}] /\ got = [r \in Readers |-> {}]
        /\ twice = [r \in Readers |-> FALSE]
    BY DEF Init
  <1>2. ScanTypes
    BY <1>1 DEF ScanTypes
  <1>3. ScanOK(mem, i_size, Records, 0, TRUE, {}, {}, FALSE)
    BY DEF ScanOK
  <1> QED BY <1>1, <1>2, <1>3 DEF ScanInv

LEMMA SameKeeps ==
    ASSUME DirInv, ScanInv, UNCHANGED vars
    PROVE  DirInv' /\ ScanInv'
  <1>1. UNCHANGED <<mem, i_size, start, pos, moved, due, got, twice>>
    BY DEF vars, scan
  <1>2. Records' = Records
    BY <1>1 DEF Records, RecordsIn, Pages
  <1> QED BY <1>1, <1>2 DEF DirInv, ScanInv, TypeOK, ScanTypes

LEMMA NextDir == DirInv /\ ScanInv /\ [Next]_vars => DirInv' /\ ScanInv'
  BY AddKeeps, DelKeeps, SetKeeps, ReadKeeps, RewindKeeps, SameKeeps DEF Next

\* However records are added, split, merged and reused, every page passes kr_check_page when it is
\* read again and kr_add_link does not reach its BUG(); and as long as the pages can be read no
\* name is in the directory twice and kr_empty_dir is right.
THEOREM DirectoryAlwaysSound == Spec => []DirectoryIsSound
  <1>1. Init => DirInv /\ ScanInv
    BY InitDir, InitScan
  <1> QED BY <1>1, NextDir, DirInvSound, PTL DEF Spec

\* A scan of kr_readdir that reaches the end without an error has given every name that was there
\* from its beginning on, whatever was added and removed between its calls; and as long as the pages can
\* be read it gives no name twice.
THEOREM ScansAlwaysRight == Spec => []ScansAreRight
  <1>1. Init => DirInv /\ ScanInv
    BY InitDir, InitScan
  <1>2. DirInv /\ ScanInv => ScansAreRight
    <2> SUFFICES ASSUME DirInv, ScanInv PROVE ScansAreRight
      OBVIOUS
    <2>1. ScanComplete
      <3> SUFFICES ASSUME NEW r \in Readers, pos[r] > i_size - MinRec, NEW n \in due[r] PROVE FALSE
        BY DEF ScanComplete
      <3>1. PICK o \in MatchesOf(mem, Records, n) : pos[r] <= o
        BY DEF ScanInv, ScanOK
      <3>2. SizeOK(i_size) /\ Tiling(mem, i_size, Records) /\ o \in Records
        BY <3>1, DirInvParts DEF MatchesOf
      <3>3. i_size \in Nat /\ pos[r] \in Nat
        BY <3>2 DEF SizeOK, ScanInv, ScanTypes
      <3>4. o \in Nat /\ mem[o].len \in Nat /\ mem[o].len >= MinRec /\ o + mem[o].len <= i_size
        BY <3>2, <3>3, RecordOf
      <3> QED BY <3>1, <3>3, <3>4, Sizes
    <2>2. ~IOErrors => ScanOnce
      BY DEF ScanOnce, ScanInv, ScanOK
    <2> QED BY <2>1, <2>2 DEF ScansAreRight
  <1> QED BY <1>1, <1>2, NextDir, PTL DEF Spec

-----------------------------------------------------------------------------
\* The inode that a name has.
InoIn(m, R, n) == IF MatchesOf(m, R, n) = {} THEN 0 ELSE m[Min(MatchesOf(m, R, n))].ino

LEMMA InoOfIs == InoOf = [n \in Names |-> InoIn(mem, Records, n)]
  BY DEF InoOf, InoIn, MatchesOf, kr_match

LEMMA InoOfNext == InoOf' = [n \in Names |-> InoIn(mem', Records', n)]
  BY DEF InoOf, InoIn, MatchesOf, kr_match

\* A change to one name is one of the map.
LEMMA OneName ==
    ASSUME DirInv, DirInv', NEW name \in Names, Spares(mem, Records, mem', Records', name)
    PROVE  Dir!Next
  <1>1. PICK R : R = Records
    OBVIOUS
  <1>2. PICK R2 : R2 = Records'
    OBVIOUS
  <1>3. PICK m2 : m2 = mem'
    OBVIOUS
  <1>4. \A x \in R : x \in Nat
    <2>1. Tiling(mem, i_size, R) /\ SizeOK(i_size)
      BY <1>1, DirInvParts
    <2> QED BY <2>1 DEF Tiling, SizeOK
  <1>5. Named(m2, R2) /\ \A x \in R2 : x \in Nat
    <2>1. Named(m2, R2) /\ Tiling(m2, i_size', R2)
      BY <1>2, <1>3 DEF DirInv, DirOK
    <2>2. i_size' \in {k * Chunk : k \in 1 .. MaxChunks}
      BY DEF DirInv, TypeOK
    <2>3. PICK size : size = i_size'
      OBVIOUS
    <2>4. size \in {k * Chunk : k \in 1 .. MaxChunks}
      BY <2>2, <2>3
    <2>5. SizeOK(size)
      BY <2>4, SizeIs
    <2>6. Tiling(m2, size, R2)
      BY <2>1, <2>3
    <2> QED BY <2>1, <2>5, <2>6 DEF Tiling, SizeOK
  <1>6. ASSUME NEW n \in Names, n # name PROVE InoIn(m2, R2, n) = InoIn(mem, R, n)
    <2>1. /\ MatchesOf(m2, R2, n) = MatchesOf(mem, R, n)
          /\ \A o \in MatchesOf(mem, R, n) : m2[o].ino = mem[o].ino
      BY <1>1, <1>2, <1>3, <1>6, RecLens DEF Spares
    <2>2. MatchesOf(mem, R, n) \in SUBSET Nat
      BY <1>4 DEF MatchesOf
    <2>3. MatchesOf(mem, R, n) # {} => Min(MatchesOf(mem, R, n)) \in MatchesOf(mem, R, n)
      BY <2>2, MinIsLeast
    <2> QED BY <2>1, <2>3 DEF InoIn
  <1>7. InoIn(m2, R2, name) \in Inos \cup {0}
    <2>1. MatchesOf(m2, R2, name) \in SUBSET Nat
      BY <1>5 DEF MatchesOf
    <2>2. CASE MatchesOf(m2, R2, name) = {}
      BY <2>2 DEF InoIn
    <2>3. CASE MatchesOf(m2, R2, name) # {}
      <3>1. PICK o : o = Min(MatchesOf(m2, R2, name))
        OBVIOUS
      <3>2. o \in MatchesOf(m2, R2, name)
        BY <2>1, <2>3, <3>1, MinIsLeast
      <3>3. o \in R2 /\ m2[o].ino # 0 /\ m2[o].name = name /\ name # "." /\ name # ".."
        BY <3>2, DirAssumption DEF MatchesOf
      <3>4. m2[o].ino \in Inos
        BY <1>5, <3>3 DEF Named
      <3> QED BY <2>3, <3>1, <3>4 DEF InoIn
    <2> QED BY <2>2, <2>3
  <1>8. PICK old : old = InoOf
    OBVIOUS
  <1>9. PICK new : new = InoOf'
    OBVIOUS
  <1>10. old = [n \in Names |-> InoIn(mem, R, n)]
    BY <1>1, <1>8, InoOfIs
  <1>11. new = [n \in Names |-> InoIn(m2, R2, n)]
    BY <1>2, <1>3, <1>9, InoOfNext
  <1>12. new[name] \in Inos \cup {0}
    BY <1>7, <1>11
  <1>13. new = [old EXCEPT ![name] = new[name]]
    BY <1>6, <1>10, <1>11
  <1> QED BY <1>8, <1>9, <1>12, <1>13 DEF Dir!Next

LEMMA NextNames == DirInv /\ ScanInv /\ [Next]_vars => DirInv' /\ ScanInv' /\ [Dir!Next]_InoOf
  <1> SUFFICES ASSUME DirInv, ScanInv, [Next]_vars PROVE [Dir!Next]_InoOf
    BY NextDir
  <1>0. DirInv'
    BY NextDir
  <1>1. CASE AddLink
    <2>1. PICK name \in Names : AddDone(name)
      BY <1>1, AddLinkDoes
    <2>2. PICK R2 : Added(mem, Records, mem', i_size', R2, name)
      BY <2>1 DEF AddDone
    <2>3. Records' = R2
      BY <2>1, <2>2, AddKeepsDir
    <2>4. Spares(mem, Records, mem', Records', name)
      BY <2>2, <2>3 DEF Added, OneMore
    <2> QED BY <1>0, <2>4, OneName
  <1>2. CASE DeleteEntry
    <2>1. PICK name \in Names : DelDone(name)
      BY <1>2, DeleteEntryDoes
    <2>2. PICK R2 : NoneMore(mem, Records, mem', i_size, R2, name)
      BY <2>1 DEF DelDone
    <2>3. Records' = R2
      BY <2>1, <2>2, DelKeepsDir DEF DelDone
    <2>4. Spares(mem, Records, mem', Records', name)
      BY <2>2, <2>3 DEF NoneMore
    <2> QED BY <1>0, <2>4, OneName
  <1>3. CASE SetLink
    <2>1. PICK name \in Names : SetDone(name)
      BY <1>3, SetLinkDoes
    <2>2. PICK R2 : R2 = Records /\ NoneMore(mem, Records, mem', i_size, R2, name)
      BY <2>1 DEF SetDone
    <2>3. Records' = R2
      BY <2>1, <2>2, DelKeepsDir DEF SetDone
    <2>4. Spares(mem, Records, mem', Records', name)
      BY <2>2, <2>3 DEF NoneMore
    <2> QED BY <1>0, <2>4, OneName
  <1>4. CASE UNCHANGED <<mem, i_size>>
    <2>1. Records' = Records
      BY <1>4 DEF Records, RecordsIn, Pages
    <2>2. InoOf' = InoOf
      BY <1>4, <2>1 DEF InoOf, kr_match
    <2> QED BY <2>2
  <1>5. ASSUME NEW r \in Readers, Readdir(r) \/ Rewind(r) PROVE UNCHANGED <<mem, i_size>>
    BY <1>5 DEF Readdir, Rewind
  <1> QED BY <1>1, <1>2, <1>3, <1>4, <1>5 DEF Next, vars

\* The records of a directory implement the map from names to inodes that KrNames describes,
\* though pages may be unreadable: one step changes one name, to an inode or to none.
THEOREM RecordsImplementMap == Spec => ImplementsNames
  <1>1. Init => DirInv /\ ScanInv /\ Dir!Init
    <2> SUFFICES ASSUME Init PROVE DirInv /\ ScanInv /\ Dir!Init
      OBVIOUS
    <2>1. DirInv /\ ScanInv /\ \A n \in Names : MatchesOf(mem, Records, n) = {}
      BY InitDir, InitScan
    <2>2. \A n \in Names : InoIn(mem, Records, n) = 0
      BY <2>1 DEF InoIn
    <2> QED BY <2>1, <2>2, InoOfIs DEF Dir!Init
  <1> QED BY <1>1, NextNames, PTL DEF Spec, ImplementsNames, Dir!Spec

=============================================================================
