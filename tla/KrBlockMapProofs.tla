--------------------------- MODULE KrBlockMapProofs ---------------------------
(***************************************************************************)
(* Proof that the pointers of a kr inode always make a tree, for every     *)
(* number of tasks, pointers to a block and blocks, and whatever fails.    *)
(*                                                                         *)
(* The invariant says that the blocks have levels, their heights over the  *)
(* data, with -1 for the blocks that are nobody's or another file's, such  *)
(* that a pointer leads one level down and no two lead to the same block.  *)
(* What a call under truncate_mutex has allocated and not yet hooked in,   *)
(* or detached and not yet freed, has a level but hangs from nothing, so   *)
(* each store of kr_splice_branch hooks in a block that hung nowhere, and  *)
(* each free is of a block that nothing leads to.  Soundness follows: the  *)
(* walk of a path determines the path, from the bottom up.                 *)
(***************************************************************************)
EXTENDS KrBlockMap, SequenceTheorems, WellFoundedInduction, TLAPS

\* A block holds pointers, and i_data has direct slots.
LEMMA PtrsNat == Ptrs \in Nat /\ Ptrs >= 1 /\ NDir \in Nat /\ NDir >= 1
  BY MapAssumption, NDirAssumption


\* A product grows with its factor.
LEMMA ProductGrows ==
    ASSUME NEW n \in Nat, NEW a \in Nat, NEW c \in Nat, a < c
    PROVE  n * a \in Nat /\ n * c \in Nat /\ n * a + n <= n * c
  <1>1. PICK d \in Nat : c = a + 1 + d
    <2>1. c - a - 1 \in Nat /\ c = a + 1 + (c - a - 1)
      OBVIOUS
    <2> QED BY <2>1
  <1>2. n * c = n * a + n + n * d
    BY <1>1
  <1>3. n * a \in Nat /\ n * c \in Nat /\ n * d \in Nat
    BY <1>1
  <1> QED BY <1>2, <1>3

\* Numbers with two digits are in the order of their digits.
LEMMA DigitsOrder ==
    ASSUME NEW n \in Nat, n >= 1, NEW a \in Nat, NEW c \in Nat,
           NEW b \in 0 .. n - 1, NEW d \in 0 .. n - 1
    PROVE  /\ n * a + b \in Nat /\ n * c + d \in Nat
           /\ n * a + b < n * c + d => a < c \/ (a = c /\ b < d)
           /\ a < c => n * a + b < n * c
           /\ n * a + b < n * c => a < c
  <1>1. n * a \in Nat /\ n * c \in Nat
    OBVIOUS
  <1>2. a < c => n * a + n <= n * c
    BY ProductGrows
  <1>3. c < a => n * c + n <= n * a
    BY ProductGrows
  <1>4. a = c => n * a = n * c
    OBVIOUS
  <1>5. a < c \/ a = c \/ c < a
    OBVIOUS
  <1> DEFINE x == n * a
             y == n * c
  <1> HIDE DEF x, y
  <1>6. /\ x \in Nat /\ y \in Nat
        /\ a < c => x + n <= y
        /\ c < a => y + n <= x
        /\ a = c => x = y
    BY <1>1, <1>2, <1>3, <1>4 DEF x, y
  <1>7. /\ x + b \in Nat /\ y + d \in Nat
        /\ x + b < y + d => a < c \/ (a = c /\ b < d)
        /\ a < c => x + b < y
        /\ x + b < y => a < c
    BY <1>5, <1>6
  <1> QED BY <1>7 DEF x, y

\* The digits of a number.
LEMMA Digits ==
    ASSUME NEW n \in Nat, n >= 1, NEW x \in Nat
    PROVE  x \div n \in Nat /\ x % n \in 0 .. n - 1 /\ x = n * (x \div n) + (x % n)
  <1>1. x \div n \in Int /\ x % n \in 0 .. n - 1 /\ x = n * (x \div n) + (x % n)
    OBVIOUS
  <1> DEFINE q == x \div n
  <1> HIDE DEF q
  <1>2. q \in Int /\ n * q + n > x
    BY <1>1 DEF q
  <1>3. ~(q < 0)
    <2> SUFFICES ASSUME q < 0 PROVE FALSE
      OBVIOUS
    <2>1. PICK d \in Nat : q = 0 - 1 - d
      <3>1. 0 - q - 1 \in Nat /\ q = 0 - 1 - (0 - q - 1)
        BY <1>2
      <3> QED BY <3>1
    <2>2. n * q + n = 0 - n * d
      BY <2>1
    <2>3. n * d \in Nat
      BY <2>1
    <2> QED BY <1>2, <2>2, <2>3
  <1>4. q \in Nat
    BY <1>2, <1>3
  <1> QED BY ONLY <1>1, <1>4, Zenon DEF q

\* A quotient is the only number that may be one.
LEMMA Quotient ==
    ASSUME NEW n \in Nat, n >= 1, NEW q \in Nat, NEW r \in 0 .. n - 1
    PROVE  (n * q + r) \div n = q
  <1> DEFINE x == n * q + r
  <1>1. x \in Nat
    OBVIOUS
  <1> HIDE DEF x
  <1> DEFINE p == x \div n
             s == x % n
  <1>2. p \in Nat /\ s \in 0 .. n - 1 /\ x = n * p + s
    BY <1>1, Digits
  <1> HIDE DEF p, s
  <1>3. n * p + s = n * q + r
    BY <1>2 DEF x
  <1>4. (p < q => n * p + s < n * q) /\ (q < p => n * q + r < n * p)
    BY <1>2, DigitsOrder
  <1>5. n * p \in Nat /\ n * q \in Nat
    BY <1>2
  <1>6. ~(p < q)
    BY <1>3, <1>4, <1>5, <1>2
  <1>7. ~(q < p)
    BY <1>3, <1>4, <1>5, <1>2
  <1>8. p = q
    BY <1>2, <1>6, <1>7
  <1> QED BY <1>8 DEF p, x

-----------------------------------------------------------------------------
(* The paths of blocks.                                                    *)

Digit == 0 .. Ptrs - 1

\* The block numbers and the paths of the four kinds.
DirectPath(i, path) == i < NDir /\ path = <<i>>
SinglePath(i, path, a) == i = NDir + a /\ path = <<IND, a>>
DoublePath(i, path, a, b) == i = NDir + Ptrs + (Ptrs * a + b) /\ path = <<DIND, a, b>>
TriplePath(i, path, a, b, c) ==
    /\ i = NDir + Ptrs + Ptrs * Ptrs + (Ptrs * (Ptrs * a + b) + c)
    /\ path = <<TIND, a, b, c>>

\* kr_block_to_path finds the digits of a block number, and none only beyond the last.
LEMMA PathCases ==
    ASSUME NEW i \in Nat
    PROVE  \/ DirectPath(i, Offsets(i))
           \/ \E a \in Digit : SinglePath(i, Offsets(i), a)
           \/ \E a, b \in Digit : DoublePath(i, Offsets(i), a, b)
           \/ \E a, b, c \in Digit : TriplePath(i, Offsets(i), a, b, c)
           \/ Offsets(i) = <<>> /\ i >= FileBlocks(PtrBits)
  <1> DEFINE P == Ptrs
             S == P * P
             i1 == i - NDir
             i2 == i1 - P
             i3 == i2 - S
  <1>1. P \in Nat /\ P >= 1 /\ NDir \in Nat /\ NDir >= 1
    BY PtrsNat
  <1> HIDE DEF P
  <1>2. S \in Nat /\ S >= 1
    <2>1. S = P * (P - 1) + P /\ P - 1 \in Nat
      BY <1>1
    <2>2. P * (P - 1) \in Nat
      BY <1>1
    <2> QED BY <1>1, <2>1, <2>2
  <1>3. S * P \in Nat
    BY <1>1, <1>2
  <1> HIDE DEF S
  <1>4. Offsets(i) = IF i < 0 THEN <<>>
                     ELSE IF i < NDir THEN <<i>>
                     ELSE IF i1 < P THEN <<IND, i1>>
                     ELSE IF i2 < S THEN <<DIND, i2 \div P, i2 % P>>
                     ELSE IF i3 \div S < P
                     THEN <<TIND, i3 \div S, (i3 \div P) % P, i3 % P>>
                     ELSE <<>>
    BY DEF Offsets, kr_block_to_path, P, S, Ptrs
  <1>5. FileBlocks(PtrBits) = NDir + P + S + S * P
    BY DEF FileBlocks, P, S, Ptrs
  <1>6. CASE i < NDir
    BY <1>4, <1>6 DEF DirectPath
  <1>7. CASE i >= NDir /\ i1 < P
    <2>1. i1 \in Digit /\ i = NDir + i1
      BY <1>1, <1>7 DEF Digit, P
    <2>2. Offsets(i) = <<IND, i1>>
      BY <1>1, <1>4, <1>7
    <2> QED BY <2>1, <2>2 DEF SinglePath
  <1>8. CASE i >= NDir /\ ~(i1 < P) /\ i2 < S
    <2> DEFINE a == i2 \div P
               b == i2 % P
    <2>1. i2 \in Nat /\ i = NDir + P + i2
      BY <1>1, <1>8
    <2>2. a \in Nat /\ b \in 0 .. P - 1 /\ i2 = P * a + b
      BY <1>1, <2>1, Digits
    <2>3. Offsets(i) = <<DIND, a, b>>
      BY <1>1, <1>4, <1>8
    <2> HIDE DEF a, b
    <2>4. P * a + b < P * P
      BY <1>8, <2>2 DEF S
    <2>5. a < P
      BY <1>1, <2>2, <2>4, DigitsOrder
    <2> HIDE DEF i2
    <2>6. a \in Digit /\ b \in Digit /\ DoublePath(i, Offsets(i), a, b)
      BY <1>1, <2>1, <2>2, <2>3, <2>5 DEF Digit, DoublePath, P
    <2> QED BY <2>6
  <1>9. CASE i >= NDir /\ ~(i1 < P) /\ ~(i2 < S)
    <2> DEFINE y == i3 \div P
               c == i3 % P
               a == y \div P
               b == y % P
    <2>1. i3 \in Nat /\ i = NDir + P + S + i3
      BY <1>1, <1>2, <1>9
    <2> HIDE DEF i3
    <2>2. y \in Nat /\ c \in 0 .. P - 1 /\ i3 = P * y + c
      BY <1>1, <2>1, Digits
    <2> HIDE DEF y, c
    <2>3. a \in Nat /\ b \in 0 .. P - 1 /\ y = P * a + b
      BY <1>1, <2>2, Digits
    <2> HIDE DEF a, b
    <2>4. P * b + c \in 0 .. S - 1
      <3>1. P * b + c \in Nat
        BY <1>1, <2>2, <2>3
      <3>2. P * b + c < P * P
        BY <1>1, <2>2, <2>3, DigitsOrder
      <3> QED BY <1>2, <3>1, <3>2 DEF S
    <2>5. i3 = S * a + (P * b + c)
      BY <1>1, <2>2, <2>3 DEF S
    <2>6. i3 \div S = a
      BY <1>2, <2>3, <2>4, <2>5, Quotient
    <2>7. Offsets(i) = IF a < P THEN <<TIND, a, b, c>> ELSE <<>>
      BY <1>1, <1>4, <1>9, <2>6 DEF y, b, c
    <2>8. CASE a < P
      <3>1. a \in Digit /\ b \in Digit /\ c \in Digit
        BY <1>1, <2>2, <2>3, <2>8 DEF Digit, P
      <3>2. i = NDir + P + P * P + (P * (P * a + b) + c)
        BY <1>1, <2>1, <2>2, <2>3 DEF S
      <3>3. TriplePath(i, Offsets(i), a, b, c)
        BY <2>7, <2>8, <3>2 DEF TriplePath, P
      <3> QED BY <3>1, <3>3
    <2>9. CASE ~(a < P)
      <3>1. ~(i3 < S * P)
        BY <1>1, <1>2, <2>3, <2>4, <2>5, <2>9, DigitsOrder
      <3>2. i >= FileBlocks(PtrBits)
        BY <1>1, <1>2, <1>3, <1>5, <2>1, <3>1
      <3> QED BY <2>7, <2>9, <3>2
    <2> QED BY <2>8, <2>9
  <1> QED BY <1>1, <1>6, <1>7, <1>8, <1>9

\* What every path is: its first slot tells its length, the others are slots of blocks.
IsPath(path) ==
    /\ Len(path) \in 1 .. 4
    /\ path[1] \in 0 .. TIND
    /\ Len(path) = SlotDepth(path[1]) + 1
    /\ \A k \in 2 .. Len(path) : path[k] \in Digit
    /\ path \in Seq(Nat)

\* kr_block_to_path gives a path of the tree, or nothing for a block that no file has.
LEMMA PathsArePaths ==
    ASSUME NEW i \in Nat, Offsets(i) # <<>>
    PROVE  IsPath(Offsets(i))
  <1> DEFINE path == Offsets(i)
  <1> SUFFICES IsPath(path)
    OBVIOUS
  <1>0. Ptrs \in Nat /\ NDir \in Nat /\ NDir >= 1
    BY PtrsNat
  <1>1. CASE DirectPath(i, path)
    <2>1. path[1] = i /\ Len(path) = 1 /\ i < NDir /\ path \in Seq(Nat)
      BY <1>1, <1>0 DEF DirectPath
    <2> HIDE DEF path
    <2>2. i \in 0 .. NDir + 2 /\ \A k \in 2 .. Len(path) : FALSE
      BY <1>0, <2>1
    <2> QED BY <1>0, <2>1, <2>2 DEF IsPath, SlotDepth, TIND
  <1>2. ASSUME NEW a \in Digit, SinglePath(i, path, a) PROVE IsPath(path)
    <2>0. path = <<NDir, a>> /\ a \in Nat
      BY <1>2, <1>0 DEF SinglePath, IND, Digit
    <2> HIDE DEF path
    <2>1. path[1] = NDir /\ path[2] = a /\ Len(path) = 2 /\ path \in Seq(Nat)
      BY <1>0, <2>0
    <2> HIDE DEF path
    <2>2. \A k \in 2 .. Len(path) : k = 2
      BY <2>1
    <2> QED BY <1>0, <2>1, <2>2 DEF IsPath, SlotDepth, TIND
  <1>3. ASSUME NEW a \in Digit, NEW b \in Digit, DoublePath(i, path, a, b)
        PROVE  IsPath(path)
    <2>0. path = <<NDir + 1, a, b>> /\ a \in Nat /\ b \in Nat
      BY <1>3, <1>0 DEF DoublePath, DIND, Digit
    <2> HIDE DEF path
    <2>1. path[1] = NDir + 1 /\ path[2] = a /\ path[3] = b /\ Len(path) = 3 /\ path \in Seq(Nat)
      BY <1>0, <2>0
    <2> HIDE DEF path
    <2>2. \A k \in 2 .. Len(path) : k = 2 \/ k = 3
      BY <2>1
    <2> QED BY <1>0, <2>1, <2>2 DEF IsPath, SlotDepth, TIND
  <1>4. ASSUME NEW a \in Digit, NEW b \in Digit, NEW c \in Digit, TriplePath(i, path, a, b, c)
        PROVE  IsPath(path)
    <2>0. path = <<NDir + 2, a, b, c>> /\ a \in Nat /\ b \in Nat /\ c \in Nat
      BY <1>4, <1>0 DEF TriplePath, TIND, Digit
    <2> HIDE DEF path
    <2>1. /\ path[1] = NDir + 2 /\ path[2] = a /\ path[3] = b /\ path[4] = c
          /\ Len(path) = 4 /\ path \in Seq(Nat)
      BY <1>0, <2>0
    <2> HIDE DEF path
    <2>2. \A k \in 2 .. Len(path) : k = 2 \/ k = 3 \/ k = 4
      BY <2>1
    <2> QED BY <1>0, <2>1, <2>2 DEF IsPath, SlotDepth, TIND
  <1> QED BY <1>1, <1>2, <1>3, <1>4, PathCases

\* Paths are in the order of the blocks they lead to.
BeforeAt(p, q, k) ==
    /\ k <= Len(p) /\ k <= Len(q)
    /\ \A m \in 1 .. k - 1 : p[m] = q[m]
    /\ p[k] < q[k]

Before(p, q) == \E k \in 1 .. 4 : BeforeAt(p, q, k)

\* The range of block numbers that a path with a given first slot leads to.
LEMMA PathRanges ==
    ASSUME NEW i \in Nat, Offsets(i) # <<>>
    PROVE  \/ /\ DirectPath(i, Offsets(i)) /\ i < NDir
           \/ /\ \E a \in Digit : SinglePath(i, Offsets(i), a)
              /\ i >= NDir /\ i < NDir + Ptrs
           \/ /\ \E a, b \in Digit : DoublePath(i, Offsets(i), a, b)
              /\ i >= NDir + Ptrs /\ i < NDir + Ptrs + Ptrs * Ptrs
           \/ /\ \E a, b, c \in Digit : TriplePath(i, Offsets(i), a, b, c)
              /\ i >= NDir + Ptrs + Ptrs * Ptrs
  <1>0. Ptrs \in Nat /\ Ptrs >= 1 /\ NDir \in Nat /\ Ptrs * Ptrs \in Nat
    BY PtrsNat
  <1>1. CASE DirectPath(i, Offsets(i))
    BY <1>1 DEF DirectPath
  <1>2. ASSUME NEW a \in Digit, SinglePath(i, Offsets(i), a)
        PROVE  i >= NDir /\ i < NDir + Ptrs
    BY <1>0, <1>2 DEF SinglePath, Digit
  <1>3. ASSUME NEW a \in Digit, NEW b \in Digit, DoublePath(i, Offsets(i), a, b)
        PROVE  i >= NDir + Ptrs /\ i < NDir + Ptrs + Ptrs * Ptrs
    <2>1. Ptrs * a + b \in Nat /\ Ptrs * a + b < Ptrs * Ptrs
      BY <1>0, DigitsOrder DEF Digit
    <2> QED BY <1>0, <1>3, <2>1 DEF DoublePath
  <1>4. ASSUME NEW a \in Digit, NEW b \in Digit, NEW c \in Digit, TriplePath(i, Offsets(i), a, b, c)
        PROVE  i >= NDir + Ptrs + Ptrs * Ptrs
    <2>1. Ptrs * a + b \in Nat
      BY <1>0 DEF Digit
    <2>2. Ptrs * (Ptrs * a + b) + c \in Nat
      BY <1>0, <2>1, DigitsOrder DEF Digit
    <2> QED BY <1>0, <1>4, <2>2 DEF TriplePath
  <1> QED BY <1>1, <1>2, <1>3, <1>4, PathCases

\* Paths are in the order of the blocks they lead to, the slot of i_data first.
LEMMA PathOrder ==
    ASSUME NEW i \in Nat, NEW j \in Nat, i < j, Offsets(i) # <<>>, Offsets(j) # <<>>
    PROVE  Before(Offsets(i), Offsets(j))
  <1> DEFINE p == Offsets(i)
             q == Offsets(j)
             S == Ptrs * Ptrs
             InD(x, path) == DirectPath(x, path) /\ x < NDir
             In1(x, path) == (\E a \in Digit : SinglePath(x, path, a))
                                /\ x >= NDir /\ x < NDir + Ptrs
             In2(x, path) == (\E a, b \in Digit : DoublePath(x, path, a, b))
                                /\ x >= NDir + Ptrs /\ x < NDir + Ptrs + S
             In3(x, path) == (\E a, b, c \in Digit : TriplePath(x, path, a, b, c))
                                /\ x >= NDir + Ptrs + S
  <1>0. Ptrs \in Nat /\ Ptrs >= 1 /\ NDir \in Nat /\ NDir >= 1 /\ S \in Nat
    BY PtrsNat
  <1>1. InD(i, p) \/ In1(i, p) \/ In2(i, p) \/ In3(i, p)
    BY PathRanges
  <1>2. InD(j, q) \/ In1(j, q) \/ In2(j, q) \/ In3(j, q)
    BY PathRanges
  <1> SUFFICES Before(p, q)
    OBVIOUS
  <1> HIDE DEF p, q
  <1>3. \A x, path : InD(x, path) => path[1] = x /\ Len(path) = 1 /\ x < NDir
    BY DEF DirectPath
  <1>4. \A x, path : In1(x, path) => path[1] = NDir /\ Len(path) = 2
    <2> HIDE DEF S
    <2> QED BY DEF SinglePath, IND
  <1>5. \A x, path : In2(x, path) => path[1] = NDir + 1 /\ Len(path) = 3
    <2> HIDE DEF S
    <2> QED BY DEF DoublePath, DIND
  <1>6. \A x, path : In3(x, path) => path[1] = NDir + 2 /\ Len(path) = 4
    <2> HIDE DEF S
    <2> QED BY DEF TriplePath, TIND
  <1>7. ASSUME p[1] < q[1], Len(p) \in 1 .. 4, Len(q) \in 1 .. 4
        PROVE  Before(p, q)
    <2>1. BeforeAt(p, q, 1)
      BY <1>7 DEF BeforeAt
    <2> QED BY <2>1 DEF Before
  <1>10. CASE In1(i, p) /\ In1(j, q)
    <2>1. PICK a \in Digit : SinglePath(i, p, a)
      BY <1>10
    <2>2. PICK b \in Digit : SinglePath(j, q, b)
      BY <1>10
    <2>3. p[1] = q[1] /\ p[2] = a /\ q[2] = b /\ Len(p) = 2 /\ Len(q) = 2
      BY <2>1, <2>2 DEF SinglePath
    <2>4. a < b
      BY <1>0, <2>1, <2>2 DEF SinglePath, Digit
    <2>5. \A k \in 1 .. 2 - 1 : p[k] = q[k]
      BY <2>3
    <2> HIDE DEF In1, In2, In3, InD
    <2>6. BeforeAt(p, q, 2)
      BY <2>3, <2>4, <2>5 DEF BeforeAt
    <2> QED BY <2>6 DEF Before
  <1>11. CASE In2(i, p) /\ In2(j, q)
    <2>1. PICK a \in Digit, b \in Digit : DoublePath(i, p, a, b)
      BY <1>11
    <2>2. PICK c \in Digit, d \in Digit : DoublePath(j, q, c, d)
      BY <1>11
    <2>3. Ptrs * a + b \in Nat /\ Ptrs * c + d \in Nat
      BY <1>0, DigitsOrder DEF Digit
    <2>4. Ptrs * a + b < Ptrs * c + d
      BY <1>0, <2>1, <2>2, <2>3 DEF DoublePath
    <2>5. a < c \/ (a = c /\ b < d)
      BY <1>0, <2>4, DigitsOrder DEF Digit
    <2>6. p[1] = q[1] /\ p[2] = a /\ p[3] = b /\ q[2] = c /\ q[3] = d /\ Len(p) = 3 /\ Len(q) = 3
      BY <2>1, <2>2 DEF DoublePath
    <2> HIDE DEF In1, In2, In3, InD
    <2>7. CASE a < c
      <3>1. \A k \in 1 .. 2 - 1 : p[k] = q[k]
        BY <2>6
      <3>2. BeforeAt(p, q, 2)
        BY <2>6, <2>7, <3>1 DEF BeforeAt
      <3> QED BY <3>2 DEF Before
    <2>8. CASE a = c /\ b < d
      <3>1. \A k \in 1 .. 3 - 1 : p[k] = q[k]
        <4>1. \A k \in 1 .. 3 - 1 : k = 1 \/ k = 2
          OBVIOUS
        <4> QED BY <2>6, <2>8, <4>1
      <3>2. BeforeAt(p, q, 3)
        BY <2>6, <2>8, <3>1 DEF BeforeAt
      <3> QED BY <3>2 DEF Before
    <2> QED BY <2>5, <2>7, <2>8
  <1>12. CASE In3(i, p) /\ In3(j, q)
    <2>1. PICK a \in Digit, b \in Digit, c \in Digit : TriplePath(i, p, a, b, c)
      BY <1>12
    <2>2. PICK d \in Digit, e \in Digit, f \in Digit : TriplePath(j, q, d, e, f)
      BY <1>12
    <2> DEFINE x == Ptrs * a + b
               y == Ptrs * d + e
    <2>3. x \in Nat /\ y \in Nat
      BY <1>0, DigitsOrder DEF Digit
    <2>0. /\ i = NDir + Ptrs + S + (Ptrs * x + c)
          /\ j = NDir + Ptrs + S + (Ptrs * y + f)
      BY <2>1, <2>2 DEF TriplePath, S
    <2>9. x < y => a < d \/ (a = d /\ b < e)
      BY <1>0, DigitsOrder DEF Digit
    <2>10. x = y => a = d /\ b = e
      <3>1. a = d \/ a < d \/ d < a
        BY <1>0 DEF Digit
      <3>2. a < d => x < Ptrs * d
        BY <1>0, DigitsOrder DEF Digit
      <3>3. d < a => y < Ptrs * a
        BY <1>0, DigitsOrder DEF Digit
      <3>4. Ptrs * d \in Nat /\ Ptrs * a \in Nat
        BY <1>0 DEF Digit
      <3>5. x = y => ~(a < d) /\ ~(d < a)
        BY <1>0, <2>3, <3>2, <3>3, <3>4 DEF Digit
      <3> QED BY <1>0, <3>1, <3>4, <3>5 DEF Digit
    <2> HIDE DEF x, y, S
    <2>4. Ptrs * x + c \in Nat /\ Ptrs * y + f \in Nat
      BY <1>0, <2>3, DigitsOrder DEF Digit
    <2>5. Ptrs * x + c < Ptrs * y + f
      BY <1>0, <2>0, <2>4
    <2>6. x < y \/ (x = y /\ c < f)
      BY <1>0, <2>3, <2>5, DigitsOrder DEF Digit
    <2>7. /\ p[1] = q[1] /\ p[2] = a /\ p[3] = b /\ p[4] = c
          /\ q[2] = d /\ q[3] = e /\ q[4] = f /\ Len(p) = 4 /\ Len(q) = 4
      BY <2>1, <2>2 DEF TriplePath
    <2>8. a < d \/ (a = d /\ b < e) \/ (a = d /\ b = e /\ c < f)
      BY <2>6, <2>9, <2>10
    <2> HIDE DEF In1, In2, In3, InD
    <2>11. CASE a < d
      <3>1. \A k \in 1 .. 2 - 1 : p[k] = q[k]
        BY <2>7
      <3>2. BeforeAt(p, q, 2)
        BY <2>7, <2>11, <3>1 DEF BeforeAt
      <3> QED BY <3>2 DEF Before
    <2>12. CASE a = d /\ b < e
      <3>1. \A k \in 1 .. 3 - 1 : p[k] = q[k]
        <4>1. \A k \in 1 .. 3 - 1 : k = 1 \/ k = 2
          OBVIOUS
        <4> QED BY <2>7, <2>12, <4>1
      <3>2. BeforeAt(p, q, 3)
        BY <2>7, <2>12, <3>1 DEF BeforeAt
      <3> QED BY <3>2 DEF Before
    <2>13. CASE a = d /\ b = e /\ c < f
      <3>1. \A k \in 1 .. 4 - 1 : p[k] = q[k]
        <4>1. \A k \in 1 .. 4 - 1 : k = 1 \/ k = 2 \/ k = 3
          OBVIOUS
        <4> QED BY <2>7, <2>13, <4>1
      <3>2. BeforeAt(p, q, 4)
        BY <2>7, <2>13, <3>1 DEF BeforeAt
      <3> QED BY <3>2 DEF Before
    <2> QED BY <2>8, <2>11, <2>12, <2>13
  <1>15. ~(In1(i, p) /\ InD(j, q)) /\ ~(In2(i, p) /\ InD(j, q)) /\ ~(In3(i, p) /\ InD(j, q))
    <2> HIDE DEF S
    <2> QED BY <1>0
  <1>16. ~(In2(i, p) /\ In1(j, q)) /\ ~(In3(i, p) /\ In1(j, q)) /\ ~(In3(i, p) /\ In2(j, q))
    <2> HIDE DEF S
    <2> QED BY <1>0
  <1> HIDE DEF InD, In1, In2, In3
  <1>3a. /\ InD(i, p) => p[1] = i /\ Len(p) = 1 /\ i < NDir
         /\ InD(j, q) => q[1] = j /\ Len(q) = 1
         /\ In1(i, p) => p[1] = NDir /\ Len(p) = 2
         /\ In1(j, q) => q[1] = NDir /\ Len(q) = 2
         /\ In2(i, p) => p[1] = NDir + 1 /\ Len(p) = 3
         /\ In2(j, q) => q[1] = NDir + 1 /\ Len(q) = 3
         /\ In3(i, p) => p[1] = NDir + 2 /\ Len(p) = 4
         /\ In3(j, q) => q[1] = NDir + 2 /\ Len(q) = 4
    BY <1>3, <1>4, <1>5, <1>6, Zenon
  <1>b. Len(p) \in 1 .. 4 /\ Len(q) \in 1 .. 4
    BY ONLY <1>1, <1>2, <1>3a
  <1>8. CASE InD(i, p) /\ InD(j, q)
    <2>1. p[1] < q[1]
      BY <1>3a, <1>8
    <2> QED BY ONLY <2>1, <1>b, <1>7
  <1>9. CASE InD(i, p) /\ ~InD(j, q)
    <2>1. p[1] < q[1]
      BY ONLY <1>0, <1>2, <1>3a, <1>9, i \in Nat
    <2> QED BY ONLY <2>1, <1>b, <1>7
  <1>13. CASE In1(i, p) /\ (In2(j, q) \/ In3(j, q))
    <2>1. p[1] < q[1]
      BY ONLY <1>0, <1>3a, <1>13
    <2> QED BY ONLY <2>1, <1>b, <1>7
  <1>14. CASE In2(i, p) /\ In3(j, q)
    <2>1. p[1] < q[1]
      BY ONLY <1>0, <1>3a, <1>14
    <2> QED BY ONLY <2>1, <1>b, <1>7
  <1> QED
    BY ONLY <1>1, <1>2, <1>8, <1>9, <1>10, <1>11, <1>12, <1>13, <1>14, <1>15, <1>16, Zenon

\* A walk reads one pointer at a time and stays at 0 where there is none.
LEMMA WalkUnfolds ==
    ASSUME NEW path, NEW p, Len(path) \in 1 .. 4
    PROVE  LET w == Walk(path, p)
           IN  w = [k \in 1 .. Len(path) |->
                       LET up == IF k = 1 THEN Inode ELSE w[k - 1]
                       IN  IF up = 0 THEN 0 ELSE p[up][path[k]]]
  <1> DEFINE Eq(f) == f = [k \in 1 .. Len(path) |->
                       LET up == IF k = 1 THEN Inode ELSE f[k - 1]
                       IN  IF up = 0 THEN 0 ELSE p[up][path[k]]]
             Down(up, k) == IF up = 0 THEN 0 ELSE p[up][path[k]]
             k1 == Down(Inode, 1)
             k2 == Down(k1, 2)
             k3 == Down(k2, 3)
             k4 == Down(k3, 4)
             f == [k \in 1 .. Len(path) |-> IF k = 1 THEN k1 ELSE IF k = 2 THEN k2
                                            ELSE IF k = 3 THEN k3 ELSE k4]
  <1>1. Eq(f)
    <2> HIDE DEF k1, k2, k3, k4
    <2> DEFINE G(k) == LET up == IF k = 1 THEN Inode ELSE f[k - 1]
                       IN  IF up = 0 THEN 0 ELSE p[up][path[k]]
    <2>0. ASSUME NEW k \in 1 .. Len(path) PROVE k \in {1, 2, 3, 4}
      <3>1. ASSUME NEW n \in 1 .. 4, NEW j \in 1 .. n PROVE j \in {1, 2, 3, 4}
        OBVIOUS
      <3> HIDE DEF f, G, Eq
      <3> QED BY ONLY <3>1, Len(path) \in 1 .. 4, k \in 1 .. Len(path)
    <2>1. ASSUME 1 \in 1 .. Len(path) PROVE f[1] = G(1)
      BY <2>1 DEF k1
    <2>2. ASSUME 2 \in 1 .. Len(path) PROVE f[2] = G(2)
      <3>1. 1 \in 1 .. Len(path) BY <2>2
      <3> QED BY <2>2, <3>1 DEF k2
    <2>3. ASSUME 3 \in 1 .. Len(path) PROVE f[3] = G(3)
      <3>1. 2 \in 1 .. Len(path) BY <2>3
      <3> QED BY <2>3, <3>1 DEF k3
    <2>4. ASSUME 4 \in 1 .. Len(path) PROVE f[4] = G(4)
      <3>1. 3 \in 1 .. Len(path) BY <2>4
      <3> QED BY <2>4, <3>1 DEF k4
    <2>5. ASSUME NEW k \in 1 .. Len(path) PROVE f[k] = G(k)
      <3> HIDE DEF f, G, Eq
      <3> QED BY <2>0, <2>1, <2>2, <2>3, <2>4
    <2>6. f = [k \in 1 .. Len(path) |-> G(k)]
      <3> HIDE DEF G
      <3> QED BY <2>5
    <2> QED BY <2>6
  <1>2. Walk(path, p) = CHOOSE g : Eq(g)
    BY DEF Walk
  <1>3. Eq(CHOOSE g : Eq(g))
    <2> HIDE DEF Eq, f
    <2> QED BY <1>1
  <1> QED BY <1>2, <1>3

\* What the map finds under each link of a path.
LEMMA WalkAt ==
    ASSUME NEW path, NEW p, NEW n \in 1 .. 4, Len(path) = n, NEW k \in 1 .. n
    PROVE  /\ k = 1 => Walk(path, p)[k] = p[Inode][path[k]]
           /\ k > 1 => Walk(path, p)[k] = IF Walk(path, p)[k - 1] = 0 THEN 0
                                          ELSE p[Walk(path, p)[k - 1]][path[k]]
  <1> DEFINE w == Walk(path, p)
             F(f, j) == LET up == IF j = 1 THEN Inode ELSE f[j - 1]
                        IN  IF up = 0 THEN 0 ELSE p[up][path[j]]
  <1>1. w = [j \in 1 .. n |-> F(w, j)]
    BY WalkUnfolds
  <1> HIDE DEF w
  <1>2. w[k] = F(w, k)
    BY <1>1
  <1>3. Inode # 0
    BY DEF Inode
  <1> QED BY <1>2, <1>3 DEF w

-----------------------------------------------------------------------------
(***************************************************************************)
(* Levels.                                                                 *)
(***************************************************************************)

Down(lev, x, o) == IF x = Inode THEN SlotDepth(o) ELSE lev[x] - 1

\* No pointer of the inode or of a block above the data leads to b.
Loose(p, lev, b) == \A x \in Nodes : \A o \in Slots(x) : Leads(lev, x) => p[x][o] # b

Tree(p, lev) == lev \in Levels /\ IsPointers(p) /\ Levelled(p, lev)

\* The inode, the blocks and their slots.
LEMMA NodeFacts ==
    /\ Inode \in Nodes /\ Inode \notin Blocks /\ Inode # 0 /\ 0 \notin Nodes
    /\ \A x \in Nodes : x = Inode \/ x \in Blocks
    /\ Blocks \subseteq Nodes
    /\ \A x \in Blocks : Slots(x) = Digit /\ x # Inode /\ x # 0
    /\ Slots(Inode) = 0 .. TIND
    /\ \A b \in 0 .. NBlocks : b = 0 \/ b \in Blocks
  BY MapAssumption DEF Inode, Nodes, Blocks, Slots, Digit

\* A pointer of the tree leads to a block, one level down.
LEMMA EdgeFacts ==
    ASSUME NEW p, NEW lev, Tree(p, lev), NEW x \in Nodes, Leads(lev, x), NEW o \in Slots(x)
    PROVE  /\ p[x][o] \in 0 .. NBlocks
           /\ p[x][o] # 0 => /\ p[x][o] \in Blocks
                             /\ lev[p[x][o]] = Down(lev, x, o)
           /\ \A y \in Nodes : \A q \in Slots(y) :
                (Leads(lev, y) /\ p[x][o] # 0 /\ p[x][o] = p[y][q]) => x = y /\ o = q
  <1>1. p[x][o] \in 0 .. NBlocks
    BY DEF Tree, IsPointers
  <1>2. p[x][o] # 0 => p[x][o] \in Blocks
    BY <1>1, NodeFacts
  <1>3. p[x][o] # 0 => lev[p[x][o]] = Down(lev, x, o)
    BY DEF Tree, Levelled, Down
  <1>4. \A y \in Nodes : \A q \in Slots(y) :
                (Leads(lev, y) /\ p[x][o] # 0 /\ p[x][o] = p[y][q]) => x = y /\ o = q
    BY Zenon DEF Tree, Levelled
  <1> QED BY <1>1, <1>2, <1>3, <1>4

\* The link at position k of a walk.
Edge(p, lev, path, k, x) ==
    /\ x \in Nodes /\ Leads(lev, x) /\ path[k] \in Slots(x)
    /\ (x = Inode) = (k = 1)
    /\ Down(lev, x, path[k]) = Len(path) - k

\* Below a pointer that is set the walk goes on in a block of the tree.
LEMMA EdgeDown ==
    ASSUME NEW p, NEW lev, Tree(p, lev), NEW path, IsPath(path),
           NEW k \in 1 .. 4, k < Len(path), NEW x, Edge(p, lev, path, k, x),
           p[x][path[k]] # 0
    PROVE  Edge(p, lev, path, k + 1, p[x][path[k]])
  <1> DEFINE y == p[x][path[k]]
  <1>1. y \in Blocks /\ lev[y] = Down(lev, x, path[k])
    BY EdgeFacts DEF Edge
  <1> HIDE DEF y
  <1>2. lev[y] = Len(path) - k
    BY <1>1 DEF Edge
  <1>3. PICK n \in 1 .. 4 : Len(path) = n
    BY DEF IsPath
  <1>4. lev[y] >= 1 /\ k + 1 \in 2 .. Len(path) /\ k + 1 # 1
    BY <1>2, <1>3
  <1>5. path[k + 1] \in Slots(y) /\ y \in Nodes /\ y # Inode
    BY <1>1, <1>4, NodeFacts DEF IsPath
  <1>6. Down(lev, y, path[k + 1]) = Len(path) - (k + 1)
    BY <1>2, <1>3, <1>5 DEF Down
  <1>7. Edge(p, lev, path, k + 1, y)
    BY <1>4, <1>5, <1>6 DEF Edge, Leads
  <1> QED BY <1>7 DEF y

\* The first pointer of a walk is one of i_data.
LEMMA EdgeTop ==
    ASSUME NEW p, NEW lev, NEW path, IsPath(path)
    PROVE  Edge(p, lev, path, 1, Inode)
  <1>1. PICK n \in 1 .. 4 : Len(path) = n
    BY DEF IsPath
  <1>2. path[1] \in Slots(Inode) /\ Inode \in Nodes
    BY NodeFacts DEF IsPath
  <1>3. SlotDepth(path[1]) = Len(path) - 1
    BY <1>1, PtrsNat DEF IsPath, SlotDepth, TIND
  <1> QED BY <1>2, <1>3 DEF Edge, Leads, Down

\* A walk goes down the levels.
Parent(w, k) == IF k = 1 THEN Inode ELSE w[k - 1]

\* Every pointer that a walk reads is one of the tree.
LEMMA WalkEdges ==
    ASSUME NEW p, NEW lev, Tree(p, lev), NEW path, IsPath(path)
    PROVE  \A k \in 1 .. Len(path) :
              /\ Walk(path, p)[k] \in 0 .. NBlocks
              /\ Walk(path, p)[k] # 0 =>
                   /\ Edge(p, lev, path, k, Parent(Walk(path, p), k))
                   /\ Walk(path, p)[k] = p[Parent(Walk(path, p), k)][path[k]]
                   /\ lev[Walk(path, p)[k]] = Len(path) - k
                   /\ k > 1 => Walk(path, p)[k - 1] # 0
  <1> DEFINE w == Walk(path, p)
             P(k) == /\ w[k] \in 0 .. NBlocks
                     /\ w[k] # 0 =>
                          /\ Edge(p, lev, path, k, Parent(w, k))
                          /\ w[k] = p[Parent(w, k)][path[k]]
                          /\ lev[w[k]] = Len(path) - k
                          /\ k > 1 => w[k - 1] # 0
  <1>0. PICK n \in 1 .. 4 : Len(path) = n
    BY DEF IsPath
  <1>1. \A k \in 1 .. n : /\ k = 1 => w[k] = p[Inode][path[k]]
                          /\ k > 1 => w[k] = IF w[k - 1] = 0 THEN 0 ELSE p[w[k - 1]][path[k]]
    BY <1>0, WalkAt
  <1> HIDE DEF w
  <1>2. ASSUME NEW k \in 1 .. n, NEW x, Edge(p, lev, path, k, x), x = Parent(w, k),
               w[k] = p[x][path[k]], k > 1 => w[k - 1] # 0
        PROVE  P(k)
    <2>1. p[x][path[k]] \in 0 .. NBlocks /\
          (p[x][path[k]] # 0 => lev[p[x][path[k]]] = Down(lev, x, path[k]))
      BY <1>2, EdgeFacts DEF Edge
    <2>2. Down(lev, x, path[k]) = Len(path) - k
      BY <1>2 DEF Edge
    <2> QED BY <1>2, <2>1, <2>2
  <1>3. P(1)
    <2>1. Edge(p, lev, path, 1, Inode)
      BY EdgeTop
    <2>2. w[1] = p[Inode][path[1]] /\ 1 \in 1 .. n
      BY <1>1
    <2> QED BY <1>2, <2>1, <2>2 DEF Parent
  <1>4. ASSUME NEW k \in 1 .. 3, k + 1 <= n, P(k)
        PROVE  P(k + 1)
    <2>1. k + 1 \in 1 .. n /\ k \in 1 .. 4 /\ (k + 1) - 1 = k /\ k + 1 > 1 /\ k < n
      BY <1>4
    <2>2. w[k + 1] = IF w[k] = 0 THEN 0 ELSE p[w[k]][path[k + 1]]
      BY <1>1, <2>1
    <2>3. CASE w[k] = 0
      BY <2>2, <2>3, MapAssumption
    <2>4. CASE w[k] # 0
      <3> DEFINE x == p[Parent(w, k)][path[k]]
      <3>1. Edge(p, lev, path, k, Parent(w, k)) /\ w[k] = x
        BY <1>4, <2>4
      <3>2. Edge(p, lev, path, k + 1, x)
        BY <3>1, <2>1, <2>4, <1>0, EdgeDown
      <3>3. Edge(p, lev, path, k + 1, w[k])
        BY <3>1, <3>2
      <3>4. w[k] = Parent(w, k + 1)
        BY <2>1 DEF Parent
      <3>5. w[k + 1] = p[w[k]][path[k + 1]]
        BY <2>2, <2>4
      <3> HIDE DEF P
      <3> QED BY <1>2, <2>1, <2>4, <3>3, <3>4, <3>5
    <2> QED BY <2>3, <2>4
  <1>5. (n >= 2 => P(2)) /\ (n >= 3 => P(3)) /\ (n >= 4 => P(4))
    <2> HIDE DEF P
    <2>1. n >= 2 => P(2)
      BY <1>3, <1>4
    <2>2. n >= 3 => P(3)
      BY <2>1, <1>4
    <2>3. n >= 4 => P(4)
      BY <2>2, <1>4
    <2> QED BY <2>1, <2>2, <2>3
  <1>6. \A k \in 1 .. n : P(k)
    <2> HIDE DEF P
    <2> QED BY <1>3, <1>5
  <1> QED BY <1>0, <1>6 DEF w

\* Walks that meet came the same way.
LEMMA WalksMeet ==
    ASSUME NEW p, NEW lev, Tree(p, lev), NEW pa, IsPath(pa), NEW pb, IsPath(pb),
           NEW k \in 1 .. Len(pa), NEW m \in 1 .. Len(pb),
           Walk(pa, p)[k] # 0, Walk(pa, p)[k] = Walk(pb, p)[m]
    PROVE  k = m /\ \A l \in 1 .. k : pa[l] = pb[l]
  <1> DEFINE wa == Walk(pa, p)
             wb == Walk(pb, p)
             Q(i) == \A j \in 1 .. Len(pb) :
                        (i <= Len(pa) /\ wa[i] # 0 /\ wa[i] = wb[j]) =>
                            i = j /\ \A l \in 1 .. i : pa[l] = pb[l]
  <1>0. PICK na \in 1 .. 4, nb \in 1 .. 4 : Len(pa) = na /\ Len(pb) = nb
    BY DEF IsPath
  <1>1. \A i \in 1 .. na : wa[i] # 0 =>
            /\ Edge(p, lev, pa, i, Parent(wa, i))
            /\ wa[i] = p[Parent(wa, i)][pa[i]]
            /\ i > 1 => wa[i - 1] # 0
    BY <1>0, WalkEdges
  <1>2. \A j \in 1 .. nb : wb[j] # 0 =>
            /\ Edge(p, lev, pb, j, Parent(wb, j))
            /\ wb[j] = p[Parent(wb, j)][pb[j]]
            /\ j > 1 => wb[j - 1] # 0
    BY ONLY <1>0, WalkEdges, Tree(p, lev), IsPath(pb)
  <1> HIDE DEF wa, wb
  <1>3. ASSUME NEW i \in 1 .. na, NEW j \in 1 .. nb, wa[i] # 0, wa[i] = wb[j]
        PROVE  Parent(wa, i) = Parent(wb, j) /\ pa[i] = pb[j] /\ (i = 1) = (j = 1)
    <2> DEFINE x == Parent(wa, i)
               y == Parent(wb, j)
    <2>1. /\ Edge(p, lev, pa, i, x) /\ wa[i] = p[x][pa[i]]
          /\ Edge(p, lev, pb, j, y) /\ wb[j] = p[y][pb[j]]
      BY <1>1, <1>2, <1>3
    <2> HIDE DEF x, y
    <2>2. /\ x \in Nodes /\ Leads(lev, x) /\ pa[i] \in Slots(x) /\ (x = Inode) = (i = 1)
          /\ y \in Nodes /\ Leads(lev, y) /\ pb[j] \in Slots(y) /\ (y = Inode) = (j = 1)
      BY <2>1 DEF Edge
    <2>3. \A z \in Nodes : \A q \in Slots(z) :
                (Leads(lev, z) /\ p[x][pa[i]] # 0 /\ p[x][pa[i]] = p[z][q]) => x = z /\ pa[i] = q
      BY ONLY <2>2, EdgeFacts, Tree(p, lev)
    <2>4. p[x][pa[i]] # 0 /\ p[x][pa[i]] = p[y][pb[j]]
      BY <1>3, <2>1
    <2>5. x = y /\ pa[i] = pb[j]
      BY ONLY <2>2, <2>3, <2>4
    <2> QED BY <2>2, <2>5 DEF x, y
  <1>4. Q(1)
    <2> SUFFICES ASSUME NEW j \in 1 .. nb, wa[1] # 0, wa[1] = wb[j]
                 PROVE  1 = j /\ \A l \in 1 .. 1 : pa[l] = pb[l]
      BY <1>0
    <2>1. j = 1 /\ pa[1] = pb[j]
      BY <1>3
    <2> QED BY <2>1
  <1>5. ASSUME NEW i \in 1 .. 3, Q(i) PROVE Q(i + 1)
    <2> SUFFICES ASSUME NEW j \in 1 .. nb, i + 1 <= na, wa[i + 1] # 0, wa[i + 1] = wb[j]
                 PROVE  i + 1 = j /\ \A l \in 1 .. i + 1 : pa[l] = pb[l]
      BY <1>0
    <2>1. i + 1 \in 1 .. na /\ i <= na /\ i + 1 # 1 /\ i + 1 > 1 /\ (i + 1) - 1 = i
      OBVIOUS
    <2>2. Parent(wa, i + 1) = Parent(wb, j) /\ pa[i + 1] = pb[j] /\ j # 1
      BY <1>3, <2>1
    <2>3. wa[i] = wb[j - 1] /\ wa[i] # 0 /\ j - 1 \in 1 .. nb
      BY <1>1, <2>1, <2>2 DEF Parent
    <2>4. i = j - 1 /\ \A l \in 1 .. i : pa[l] = pb[l]
      BY <1>0, <1>5, <2>1, <2>3
    <2>5. \A l \in 1 .. i + 1 : l \in 1 .. i \/ l = i + 1
      OBVIOUS
    <2> QED BY <2>2, <2>4, <2>5
  <1>6. Q(1) /\ Q(2) /\ Q(3) /\ Q(4)
    <2> HIDE DEF Q
    <2>1. Q(2)
      BY <1>4, <1>5
    <2>2. Q(3)
      BY <1>5, <2>1
    <2>3. Q(4)
      BY <1>5, <2>2
    <2> QED BY <1>4, <2>1, <2>2, <2>3
  <1>7. \A i \in 1 .. na : Q(i)
    <2> HIDE DEF Q
    <2> QED BY <1>6
  <1>8. k \in 1 .. na /\ k <= Len(pa)
    BY <1>0
  <1> QED BY <1>7, <1>8 DEF wa, wb

Below(S) == (UNION {{ptr[b][o] : o \in 0 .. Ptrs - 1} : b \in S}) \ {0}

\* What the blocks of a set lead to.
LEMMA BelowMembers ==
    ASSUME NEW S, NEW c
    PROVE  c \in Below(S) <=> (c # 0 /\ \E b \in S : \E o \in Digit : c = ptr[b][o])
  <1> DEFINE Row(b) == {ptr[b][o] : o \in Digit}
             U == UNION {Row(b) : b \in S}
  <1>1. Below(S) = U \ {0}
    BY DEF Below, Digit
  <1>2. \A b : c \in Row(b) <=> \E o \in Digit : c = ptr[b][o]
    OBVIOUS
  <1> HIDE DEF Row
  <1>3. c \in U <=> \E b \in S : c \in Row(b)
    OBVIOUS
  <1> HIDE DEF U
  <1>4. c \in Below(S) <=> (c # 0 /\ \E b \in S : c \in Row(b))
    BY <1>1, <1>3
  <1> QED BY <1>2, <1>4, Zenon

\* The sets of blocks that make up a subtree, from the top down.
LevelSets(nr, depth) ==
    LET level[d \in 0 .. depth] ==
            IF d = 0 THEN {nr} \ {0}
            ELSE (UNION {{ptr[b][o] : o \in 0 .. Ptrs - 1} : b \in level[d - 1]}) \ {0}
    IN  level

\* The levels of a subtree, one after the other.
LEMMA LevelSetsUnfold ==
    ASSUME NEW nr, NEW depth \in 0 .. 3
    PROVE  LevelSets(nr, depth) =
               [d \in 0 .. depth |->
                   IF d = 0 THEN {nr} \ {0}
                   ELSE Below(LevelSets(nr, depth)[d - 1])]
  <1> DEFINE G(g, d) == IF d = 0 THEN {nr} \ {0} ELSE Below(g[d - 1])
             Eq(g) == g = [d \in 0 .. depth |-> G(g, d)]
             l0 == {nr} \ {0}
             l1 == Below(l0)
             l2 == Below(l1)
             l3 == Below(l2)
             f == [d \in 0 .. depth |-> IF d = 0 THEN l0 ELSE IF d = 1 THEN l1
                                        ELSE IF d = 2 THEN l2 ELSE l3]
  <1>1. Eq(f)
    <2>1. 0 \in 0 .. depth => f[0] = G(f, 0)
      OBVIOUS
    <2>2. 1 \in 0 .. depth => f[1] = G(f, 1)
      OBVIOUS
    <2>3. 2 \in 0 .. depth => f[2] = G(f, 2)
      OBVIOUS
    <2>4. 3 \in 0 .. depth => f[3] = G(f, 3)
      OBVIOUS
    <2>5. \A d \in 0 .. depth : d \in {0, 1, 2, 3}
      OBVIOUS
    <2>6. \A d \in 0 .. depth : f[d] = G(f, d)
      <3> HIDE DEF f, G
      <3> QED BY <2>1, <2>2, <2>3, <2>4, <2>5
    <2>7. f = [d \in 0 .. depth |-> f[d]]
      <3> DEFINE h(d) == IF d = 0 THEN l0 ELSE IF d = 1 THEN l1 ELSE IF d = 2 THEN l2 ELSE l3
      <3> HIDE DEF h
      <3>1. f = [d \in 0 .. depth |-> h(d)]
        BY DEF h
      <3> HIDE DEF f
      <3> QED BY <3>1
    <2>8. f = [d \in 0 .. depth |-> G(f, d)]
      <3> HIDE DEF f, G
      <3> QED BY <2>6, <2>7
    <2> QED BY <2>8
  <1>2. LevelSets(nr, depth) = CHOOSE g : Eq(g)
    BY DEF LevelSets, Below
  <1>3. Eq(CHOOSE g : Eq(g))
    <2> HIDE DEF Eq, f
    <2> QED BY <1>1
  <1> QED BY <1>2, <1>3

\* A block of a subtree is as high above the data as its place says, and what it leads to
\* is in the subtree.
LEMMA SubtreeLevels ==
    ASSUME NEW lev, Tree(ptr, lev), NEW depth \in 0 .. 3,
           NEW nr, nr = 0 \/ (nr \in Blocks /\ lev[nr] = depth)
    PROVE  \A b \in Subtree(nr, depth) :
              /\ b \in Blocks /\ lev[b] \in 0 .. depth
              /\ \A o \in Digit : (lev[b] >= 1 /\ ptr[b][o] # 0) => ptr[b][o] \in Subtree(nr, depth)
  <1> DEFINE L == LevelSets(nr, depth)
             P(d) == \A b \in L[d] : b \in Blocks /\ lev[b] = depth - d
  <1>1. \A d \in 0 .. depth : /\ d = 0 => L[d] = {nr} \ {0}
                              /\ d > 0 => L[d] = Below(L[d - 1])
    <2> DEFINE F(d) == IF d = 0 THEN {nr} \ {0} ELSE Below(L[d - 1])
    <2>1. L = [d \in 0 .. depth |-> F(d)]
      BY LevelSetsUnfold
    <2> HIDE DEF L, F
    <2>2. \A d \in 0 .. depth : L[d] = F(d)
      BY <2>1
    <2> QED BY <2>2 DEF F
  <1>2. Subtree(nr, depth) = UNION {L[d] : d \in 0 .. depth}
    BY DEF Subtree, LevelSets
  <1> HIDE DEF L
  <1>3. P(0)
    BY <1>1
  <1>4. ASSUME NEW d \in 0 .. 2, d + 1 <= depth, P(d) PROVE P(d + 1)
    <2>1. d + 1 \in 0 .. depth /\ d + 1 > 0 /\ (d + 1) - 1 = d
      BY <1>4
    <2>2. L[d + 1] = Below(L[d])
      BY <1>1, <2>1
    <2> SUFFICES ASSUME NEW c \in L[d + 1] PROVE c \in Blocks /\ lev[c] = depth - (d + 1)
      OBVIOUS
    <2>3. PICK b \in L[d], o \in Digit : c = ptr[b][o] /\ c # 0
      BY <2>2, BelowMembers
    <2>4. b \in Blocks /\ lev[b] = depth - d
      BY <1>4
    <2>5. b \in Nodes /\ b # Inode /\ o \in Slots(b) /\ Leads(lev, b)
      BY <1>4, <2>4, NodeFacts DEF Leads
    <2>6. c \in Blocks /\ lev[c] = Down(lev, b, o)
      BY <2>3, <2>5, EdgeFacts
    <2> QED BY <2>4, <2>5, <2>6 DEF Down
  <1>5. \A d \in 0 .. depth : P(d)
    <2> HIDE DEF P
    <2>1. 1 <= depth => P(1)
      BY <1>3, <1>4
    <2>2. 2 <= depth => P(2)
      BY <1>4, <2>1
    <2>3. 3 <= depth => P(3)
      BY <1>4, <2>2
    <2> QED BY <1>3, <2>1, <2>2, <2>3
  <1> SUFFICES ASSUME NEW b \in Subtree(nr, depth)
               PROVE  /\ b \in Blocks /\ lev[b] \in 0 .. depth
                      /\ \A o \in Digit : (lev[b] >= 1 /\ ptr[b][o] # 0) =>
                             ptr[b][o] \in Subtree(nr, depth)
    OBVIOUS
  <1>6. PICK d \in 0 .. depth : b \in L[d]
    BY <1>2
  <1>7. b \in Blocks /\ lev[b] = depth - d
    BY <1>5, <1>6
  <1>8. ASSUME NEW o \in Digit, lev[b] >= 1, ptr[b][o] # 0
        PROVE  ptr[b][o] \in Subtree(nr, depth)
    <2>1. d + 1 \in 0 .. depth /\ d + 1 > 0 /\ (d + 1) - 1 = d
      BY <1>7, <1>8
    <2>2. L[d + 1] = Below(L[d])
      BY <1>1, <2>1
    <2>3. ptr[b][o] \in L[d + 1]
      BY <1>6, <1>8, <2>2, BelowMembers
    <2> QED BY <1>2, <2>1, <2>3
  <1> QED BY <1>7, <1>8

\* The data is at most three blocks below a slot of i_data.
LEMMA SlotDepths ==
    ASSUME NEW s \in 0 .. TIND
    PROVE  SlotDepth(s) \in 0 .. 3 /\ s \in Slots(Inode) /\ (s < NDir => SlotDepth(s) = 0)
  BY PtrsNat, NodeFacts DEF SlotDepth, TIND

\* The inode leads to blocks that have a level, and with a block to all it leads to.
LEMMA ReachableLevels ==
    ASSUME NEW lev, Tree(ptr, lev)
    PROVE  /\ \A b \in Reachable :
                 /\ b \in Blocks /\ lev[b] \in 0 .. 3
                 /\ \A o \in Digit : (lev[b] >= 1 /\ ptr[b][o] # 0) => ptr[b][o] \in Reachable
           /\ \A s \in 0 .. TIND : ptr[Inode][s] # 0 => ptr[Inode][s] \in Reachable
  <1> DEFINE T(s) == Subtree(ptr[Inode][s], SlotDepth(s))
  <1>0. \A b : b \in Reachable <=> \E s \in 0 .. TIND : b \in T(s)
    <2> HIDE DEF T
    <2>1. Reachable = UNION {T(s) : s \in 0 .. TIND}
      BY DEF Reachable, T
    <2> QED BY <2>1
  <1>1. ASSUME NEW s \in 0 .. TIND
        PROVE  /\ \A b \in T(s) :
                    /\ b \in Blocks /\ lev[b] \in 0 .. 3
                    /\ \A o \in Digit : (lev[b] >= 1 /\ ptr[b][o] # 0) => ptr[b][o] \in T(s)
               /\ ptr[Inode][s] # 0 => ptr[Inode][s] \in T(s)
    <2> DEFINE nr == ptr[Inode][s]
               depth == SlotDepth(s)
    <2>1. depth \in 0 .. 3 /\ s \in Slots(Inode)
      BY SlotDepths
    <2>2. nr = 0 \/ (nr \in Blocks /\ lev[nr] = depth)
      <3>1. Inode \in Nodes /\ Leads(lev, Inode) /\ Down(lev, Inode, s) = depth
        BY NodeFacts DEF Leads, Down
      <3> HIDE DEF depth
      <3>2. nr # 0 => nr \in Blocks /\ lev[nr] = Down(lev, Inode, s)
        BY <2>1, <3>1, EdgeFacts
      <3> QED BY <3>1, <3>2
    <2> HIDE DEF nr, depth
    <2>3. \A b \in Subtree(nr, depth) :
              /\ b \in Blocks /\ lev[b] \in 0 .. depth
              /\ \A o \in Digit : (lev[b] >= 1 /\ ptr[b][o] # 0) => ptr[b][o] \in Subtree(nr, depth)
      BY <2>1, <2>2, SubtreeLevels
    <2>4. \A n \in 0 .. depth : n \in 0 .. 3
      BY <2>1
    <2>5. nr # 0 => nr \in Subtree(nr, depth)
      <3>1. 0 \in 0 .. depth
        BY <2>1
      <3> DEFINE L == LevelSets(nr, depth)
                 F(d) == IF d = 0 THEN {nr} \ {0} ELSE Below(L[d - 1])
      <3>2. L = [d \in 0 .. depth |-> F(d)]
        BY <2>1, LevelSetsUnfold
      <3>3. Subtree(nr, depth) = UNION {L[d] : d \in 0 .. depth}
        BY DEF Subtree, LevelSets
      <3> HIDE DEF L, F
      <3>4. L[0] = {nr} \ {0}
        BY <3>1, <3>2 DEF F
      <3> QED BY <3>1, <3>3, <3>4
    <2> QED BY <2>3, <2>4, <2>5 DEF nr, depth
  <1> HIDE DEF T
  <1> QED BY <1>0, <1>1

\* Every block the file may have has a path.
LEMMA OffsetsAreFound ==
    ASSUME NEW i \in FileRange
    PROVE  i \in Nat /\ IsPath(Offsets(i))
  <1>1. i \in Nat /\ i < FileBlocks(PtrBits)
    BY MapAssumption, PtrsNat DEF FileRange, FileBlocks, Ptrs
  <1>2. FileBlocks(PtrBits) \in Nat
    BY PtrsNat DEF FileBlocks, Ptrs
  <1>3. Offsets(i) # <<>>
    <2>1. SUFFICES ASSUME Offsets(i) = <<>> PROVE FALSE
      OBVIOUS
    <2>2. ~(i >= FileBlocks(PtrBits))
      BY <1>1, <1>2
    <2>3. Len(Offsets(i)) = 0
      BY <2>1
    <2> QED BY <1>1, <2>2, <2>3, PathCases DEF DirectPath, SinglePath, DoublePath, TriplePath
  <1> QED BY <1>1, <1>3, PathsArePaths

\* A tree with levels is sound when what is free or another file's has none.
LEMMA LevelsMakeSound ==
    ASSUME NEW lev, Tree(ptr, lev), \A b \in free \cup foreign : lev[b] = -1
    PROVE  TreeIsSound
  <1>1. Reachable \cap (free \cup foreign) = {}
    <2>1. \A b \in Reachable : lev[b] \in 0 .. 3
      BY ReachableLevels
    <2> QED BY <2>1
  <1>2. ASSUME NEW x \in Pointers, NEW y \in Pointers, x[2] = y[2] PROVE x = y
    <2> DEFINE Of(i) == LET path == Offsets(i)
                            keys == Walk(path, ptr)
                        IN  {<<SubSeq(path, 1, k), keys[k]>> : k \in {n \in 1 .. Len(path) : keys[n] # 0}}
               V(i, k) == <<SubSeq(Offsets(i), 1, k), Walk(Offsets(i), ptr)[k]>>
    <2>1. Pointers = UNION {Of(i) : i \in FileRange}
      BY DEF Pointers
    <2>2. \A i, z : z \in Of(i) => \E k \in 1 .. Len(Offsets(i)) :
                Walk(Offsets(i), ptr)[k] # 0 /\ z = V(i, k)
      OBVIOUS
    <2> HIDE DEF Of
    <2>3. PICK i \in FileRange, j \in FileRange : x \in Of(i) /\ y \in Of(j)
      BY <1>2, <2>1
    <2>4. PICK k \in 1 .. Len(Offsets(i)) : Walk(Offsets(i), ptr)[k] # 0 /\ x = V(i, k)
      BY <2>2, <2>3
    <2>5. PICK m \in 1 .. Len(Offsets(j)) : Walk(Offsets(j), ptr)[m] # 0 /\ y = V(j, m)
      BY <2>2, <2>3
    <2>6. IsPath(Offsets(i)) /\ IsPath(Offsets(j))
      BY OffsetsAreFound
    <2>7. Walk(Offsets(i), ptr)[k] = Walk(Offsets(j), ptr)[m]
      BY <1>2, <2>4, <2>5
    <2>8. k = m /\ \A l \in 1 .. k : Offsets(i)[l] = Offsets(j)[l]
      BY <2>4, <2>5, <2>6, <2>7, WalksMeet
    <2>9. SubSeq(Offsets(i), 1, k) = SubSeq(Offsets(j), 1, m)
      <3>1. k \in Int
        BY <2>6 DEF IsPath
      <3> DEFINE a == Offsets(i)
                 b == Offsets(j)
      <3>2. k = m /\ \A l \in 1 .. k : a[l] = b[l]
        BY <2>8
      <3>0. a \in Seq(Nat) /\ b \in Seq(Nat) /\ k \in 1 .. Len(a) /\ k \in 1 .. Len(b)
        BY <2>6, <2>8 DEF IsPath
      <3> HIDE DEF a, b
      <3>3. SubSeq(a, 1, k) \in Seq(Nat) /\ SubSeq(b, 1, k) \in Seq(Nat)
        BY <3>0, <3>1
      <3>5. /\ Len(SubSeq(a, 1, k)) = k /\ Len(SubSeq(b, 1, k)) = k
            /\ \A l \in 1 .. k : SubSeq(a, 1, k)[l] = a[l] /\ SubSeq(b, 1, k)[l] = b[l]
        BY <3>0, <3>1
      <3>6. \A l \in 1 .. Len(SubSeq(a, 1, k)) : SubSeq(a, 1, k)[l] = SubSeq(b, 1, k)[l]
        BY <3>2, <3>5
      <3>4. SubSeq(a, 1, k) = SubSeq(b, 1, m)
        BY <3>2, <3>3, <3>5, <3>6, SeqEqual
      <3> QED BY <3>4 DEF a, b
    <2> QED BY <2>4, <2>5, <2>7, <2>9
  <1> QED BY <1>1, <1>2 DEF TreeIsSound
-----------------------------------------------------------------------------
(***************************************************************************)
(* The inductive invariant: the types of the locals, the shape of the      *)
(* chain a task has read, and what the holder of truncate_mutex has in     *)
(* hand.  The last is about levels: some assignment of a level to each     *)
(* block makes the pointers a tree, and all blocks in hand hang from       *)
(* nothing.                                                                *)
(***************************************************************************)

Links == [bh : Nodes, off : Nat, key : 0 .. NBlocks]

Items == [op : {"array", "subtree", "block", "slot"}, nr : Nodes, p : Nat, q : Nat,
          depth : 0 .. 3, start : Nat, count : Nat]

CallKinds == {"", "read", "bmap", "write", "writepage", "setsize", "evict", "failed"}

Errors == {"", "EIO", "EAGAIN", "ENOSPC", "ENOMEM"}

Frames == [kind : CallKinds, iblock : FileRange, max : Nat \ {0}, chain : Seq(Links),
           whole : BOOLEAN, count : Nat, err : Errors, partial : 0 .. 4, new : Seq(Blocks),
           want : Nat, done : Nat, size : Nat, work : Seq(Items)]

Walking == {"first", "bread", "add", "found", "absent", "lock"}
Mapping == {"alloc", "setup", "zero", "splice"}
Cutting == {"shared", "free"}
Labels == Walking \cup Mapping \cup Cutting
              \cup {"idle", "return", "written", "pages", "truncate"}
Holding == Mapping \cup Cutting

Typed == fr \in [Tasks -> Frames] /\ pc \in [Tasks -> Labels]

\* The links of a chain hang together along the path.
Threaded(path, c) ==
    /\ Len(c) \in 1 .. Len(path)
    /\ c[1].bh = Inode
    /\ \A j \in 1 .. Len(c) : c[j].off = path[j]
    /\ \A j \in 1 .. Len(c) - 1 : c[j + 1].bh = c[j].key /\ c[j].key # 0

LastKey(f) == f.chain[Len(f.chain)].key

\* What is so of the call in frame f that stands at l, whatever the tree is.
LocalOK(l, f) ==
    LET path == Offsets(f.iblock)
    IN  /\ l \in Walking \cup Mapping => f.iblock + f.max - 1 <= LastBlock
        /\ l \in Walking => f.new = <<>> /\ f.done = 0
        /\ l \in Walking \ {"first"} => Threaded(path, f.chain)
        /\ l \in {"bread", "add"} => LastKey(f) # 0 /\ Len(f.chain) < Len(path)
        /\ l \in {"first", "bread", "add", "found"} => f.err = ""
        /\ (l \in {"absent", "lock"} /\ f.err = "") => LastKey(f) = 0
        /\ l = "absent" => f.err \in {"", "EIO", "EAGAIN"}
        /\ l = "lock" => f.err \in {"", "EAGAIN"}
        /\ l = "shared" => Len(Offsets(f.size)) > 1

Exclusive == \A t \in Tasks : pc[t] \in Holding => mutex = t

\* A slot of the tree, k levels above the data.
Spot(lev, x, o, k) == x \in Nodes /\ Leads(lev, x) /\ o \in Slots(x) /\ Down(lev, x, o) = k

\* alloc and setup: the place, and the blocks, which have no level yet.
NewOK(lev, f) ==
    LET k == Len(Offsets(f.iblock)) - f.partial
        w == f.chain[f.partial]
    IN  /\ f.partial \in 1 .. Len(Offsets(f.iblock)) /\ Len(f.chain) = f.partial
        /\ w.off = Offsets(f.iblock)[f.partial]
        /\ Spot(lev, w.bh, w.off, k)
        /\ k = 0 => \A d \in 0 .. Len(f.new) + f.want - 1 : Spot(lev, w.bh, w.off + d, k)
        /\ f.done = 0
        /\ \A n \in 1 .. Len(f.new) : lev[f.new[n]] = -1 /\ f.new[n] \notin free \cup foreign
        /\ \A n, m \in 1 .. Len(f.new) : f.new[n] = f.new[m] => n = m

\* setup: one run for the data.
RunOK(f) ==
    LET k == Len(Offsets(f.iblock)) - f.partial
    IN  /\ Len(f.new) > k
        /\ \A d \in 0 .. Len(f.new) - k - 1 : f.new[k + 1 + d] = f.new[k + 1] + d

LastSpliced(f) == IF Len(Offsets(f.iblock)) - f.partial > 0 THEN 0 ELSE f.count - 1

\* zero and splice: the stores to come.
SpliceOK(lev, f) ==
    LET k == Len(Offsets(f.iblock)) - f.partial
        w == f.chain[f.partial]
    IN  /\ f.partial \in 1 .. Len(f.chain)
        /\ f.done <= LastSpliced(f)
        /\ \A d \in f.done .. LastSpliced(f) :
             /\ w.key + d \in Blocks /\ lev[w.key + d] = k /\ Loose(ptr, lev, w.key + d)
             /\ Spot(lev, w.bh, w.off + d, k)

\* The blocks a truncation has detached, and where it goes on.
Owned(item) ==
    IF item.op \in {"subtree", "block"} THEN {item.nr}
    ELSE IF item.op = "array" THEN Run(item) ELSE {}

ItemOK(p, lev, item) ==
    /\ item.op \in {"subtree", "block"} => item.nr # Inode
    /\ item.op = "subtree" => lev[item.nr] = item.depth
    /\ item.op = "block" => lev[item.nr] >= 0
    /\ item.op = "slot" =>
         item.nr = Inode /\ item.p \in IND .. TIND /\ item.depth = SlotDepth(item.p)
    /\ item.op = "array" =>
         /\ item.nr = Inode => item.depth = 0 /\ item.q <= NDir
         /\ item.nr # Inode => lev[item.nr] = item.depth + 1 /\ item.q <= Ptrs
         /\ \A b \in Run(item) : lev[b] = 0
    /\ \A b \in Owned(item) : b \in Blocks /\ Loose(p, lev, b)

Apart(lev, i, j) ==
    /\ Owned(i) \cap Owned(j) = {}
    /\ j.op = "array" => i.nr # Inode /\ j.nr # Inode /\ lev[i.nr] < lev[j.nr]

WorkOK(p, lev, work) ==
    /\ \A i \in 1 .. Len(work) : ItemOK(p, lev, work[i])
    /\ \A i, j \in 1 .. Len(work) : i < j => Apart(lev, work[i], work[j])

HandOK(lev, l, f) ==
    /\ l \in {"alloc", "setup"} => NewOK(lev, f)
    /\ l = "alloc" => Len(f.new) <= Len(Offsets(f.iblock)) - f.partial
    /\ l = "setup" => RunOK(f)
    /\ l \in {"zero", "splice"} => SpliceOK(lev, f)
    /\ l = "free" => WorkOK(ptr, lev, f.work)

Sound(lev) ==
    /\ Tree(ptr, lev)
    /\ free \subseteq Blocks /\ foreign \subseteq Blocks /\ free \cap foreign = {}
    /\ \A b \in free \cup foreign : lev[b] = -1

LevelInv == \E lev \in Levels : Sound(lev) /\ \A t \in Tasks : HandOK(lev, pc[t], fr[t])

Inv == /\ Typed /\ Exclusive
       /\ \A t \in Tasks : LocalOK(pc[t], fr[t])
       /\ LevelInv

\* The size is a number of blocks.
SizeOK == i_size \in Nat

\* The invariant implies what the runs check.
LEMMA InvSound == Inv => TreeIsSound
  <1> SUFFICES ASSUME Inv PROVE TreeIsSound
    OBVIOUS
  <1>1. PICK lev \in Levels : Sound(lev)
    BY DEF Inv, LevelInv
  <1> QED BY <1>1, LevelsMakeSound DEF Sound

-----------------------------------------------------------------------------
(***************************************************************************)
(* The start.                                                              *)
(***************************************************************************)

\* The locals of no call have their types.
LEMMA NoCallTyped == NoCall \in Frames
  <1>1. <<>> \in Seq(Links) /\ <<>> \in Seq(Blocks) /\ <<>> \in Seq(Items)
    OBVIOUS
  <1>2. 0 \in FileRange /\ 0 \in 0 .. 4 /\ 0 \in Nat /\ 1 \in Nat \ {0}
    BY MapAssumption DEF FileRange
  <1>3. "" \in CallKinds /\ "" \in Errors /\ FALSE \in BOOLEAN
    BY DEF CallKinds, Errors
  <1> QED BY ONLY <1>1, <1>2, <1>3 DEF NoCall, Frames

\* A file that starts sound satisfies the invariant.
LEMMA InitInv == Init => Inv
  <1> SUFFICES ASSUME Init PROVE Inv
    OBVIOUS
  <1>1. Typed
    BY NoCallTyped DEF Init, Typed, Labels
  <1>2. Exclusive /\ \A t \in Tasks : pc[t] = "idle"
    BY DEF Init, Exclusive, Holding, Mapping, Cutting
  <1>3. \A t \in Tasks : LocalOK(pc[t], fr[t])
    BY <1>2 DEF LocalOK, Walking, Mapping
  <1>4. PICK old \in Levels : Levelled(ptr, old) /\ IsPointers(ptr)
    BY TreesAssumption DEF Init
  <1>5. Tree(ptr, old)
    BY <1>4 DEF Tree
  <1> DEFINE lev == [b \in Blocks |-> IF b \in Reachable THEN old[b] ELSE -1]
  <1>6. lev \in Levels /\ \A b \in Blocks : lev[b] = IF b \in Reachable THEN old[b] ELSE -1
    BY <1>4 DEF Levels
  <1> HIDE DEF lev
  <1>7. \A x \in Nodes : Leads(lev, x) => Leads(old, x) /\ (x = Inode \/ (x \in Reachable /\ lev[x] = old[x]))
    BY <1>6, NodeFacts DEF Leads
  <1>8. ASSUME NEW x \in Nodes, NEW o \in Slots(x), Leads(lev, x), ptr[x][o] # 0
        PROVE  ptr[x][o] \in Blocks /\ ptr[x][o] \in Reachable /\ lev[ptr[x][o]] = old[ptr[x][o]]
    <2>1. ptr[x][o] \in Blocks
      BY <1>5, <1>7, <1>8, EdgeFacts
    <2>2. CASE x = Inode
      <3>1. o \in 0 .. TIND
        BY <2>2, NodeFacts
      <3>2. ptr[x][o] \in Reachable
        BY <1>5, <1>8, <2>2, <3>1, ReachableLevels
      <3> QED BY <1>6, <2>1, <3>2
    <2>3. CASE x # Inode
      <3>1. x \in Reachable /\ old[x] >= 1 /\ x \in Blocks
        BY <1>7, <1>8, <2>3, NodeFacts DEF Leads
      <3>2. o \in Digit
        BY <3>1, NodeFacts
      <3>3. ptr[x][o] \in Reachable
        BY <1>5, <1>8, <3>1, <3>2, ReachableLevels
      <3> QED BY <1>6, <2>1, <3>3
    <2> QED BY <2>2, <2>3
  <1>9. Levelled(ptr, lev)
    <2>1. ASSUME NEW x \in Nodes, NEW o \in Slots(x), Leads(lev, x), ptr[x][o] # 0
          PROVE  lev[ptr[x][o]] = IF x = Inode THEN SlotDepth(o) ELSE lev[x] - 1
      <3>1. old[ptr[x][o]] = Down(old, x, o)
        BY <1>5, <1>7, <2>1, EdgeFacts
      <3> QED BY <1>7, <1>8, <2>1, <3>1 DEF Down
    <2>2. ASSUME NEW x \in Nodes, NEW y \in Nodes, NEW o \in Slots(x), NEW q \in Slots(y),
                 Leads(lev, x), Leads(lev, y), ptr[x][o] # 0, ptr[x][o] = ptr[y][q]
          PROVE  x = y /\ o = q
      <3>1. Leads(old, x) /\ Leads(old, y)
        BY <1>7, <2>2
      <3> QED BY <1>4, <2>2, <3>1, Zenon DEF Levelled
    <2> QED BY <2>1, <2>2 DEF Levelled
  <1>10. Sound(lev)
    <2>1. free \subseteq Blocks /\ foreign = {} /\ \A b \in free : b \in Blocks /\ b \notin Reachable
      BY DEF Init
    <2>2. \A b \in free \cup foreign : lev[b] = -1
      BY <1>6, <2>1
    <2> QED BY <1>4, <1>6, <1>9, <2>1, <2>2 DEF Sound, Tree
  <1>11. \A t \in Tasks : HandOK(lev, pc[t], fr[t])
    BY <1>2 DEF HandOK
  <1> QED BY <1>1, <1>2, <1>3, <1>6, <1>10, <1>11 DEF Inv, LevelInv
-----------------------------------------------------------------------------
(***************************************************************************)
(* Steps of a task.                                                        *)
(***************************************************************************)

Moves(t, l, f) == pc' = [pc EXCEPT ![t] = l] /\ fr' = [fr EXCEPT ![t] = f]

\* A step of one call changes its own label and locals only.
LEMMA MovesFacts ==
    ASSUME Typed, NEW t \in Tasks, NEW l \in Labels, NEW f \in Frames, Moves(t, l, f)
    PROVE  /\ Typed'
           /\ pc'[t] = l /\ fr'[t] = f
           /\ \A u \in Tasks \ {t} : pc'[u] = pc[u] /\ fr'[u] = fr[u]
  BY DEF Typed, Moves

\* Outside the mutex a call has nothing in hand.
LEMMA NothingInHand ==
    ASSUME NEW lev, NEW l, NEW f, l \notin Holding
    PROVE  HandOK(lev, l, f)
  BY DEF HandOK, Holding, Mapping, Cutting

\* Whoever has or takes the mutex may change the tree.
LEMMA HolderStep ==
    ASSUME Inv, NEW t \in Tasks, NEW l \in Labels, NEW f \in Frames, Moves(t, l, f),
           LocalOK(l, f), mutex \in {t, None}, l \in Holding => mutex' = t,
           NEW lev \in Levels, Sound(lev)', HandOK(lev, l, f)'
    PROVE  Inv'
  <1>1. /\ Typed' /\ pc'[t] = l /\ fr'[t] = f
        /\ \A u \in Tasks \ {t} : pc'[u] = pc[u] /\ fr'[u] = fr[u]
    BY MovesFacts DEF Inv
  <1>2. \A u \in Tasks \ {t} : pc[u] \notin Holding
    BY MapAssumption DEF Inv, Exclusive
  <1>3. Exclusive'
    BY <1>1, <1>2 DEF Exclusive
  <1>4. (\A u \in Tasks : LocalOK(pc[u], fr[u]))'
    BY <1>1 DEF Inv
  <1>5. ASSUME NEW u \in Tasks PROVE HandOK(lev, pc[u], fr[u])'
    <2>1. CASE u = t
      BY <1>1, <2>1
    <2>2. CASE u # t
      <3>1. pc'[u] \notin Holding
        BY <1>1, <1>2, <2>2
      <3> QED BY <3>1 DEF HandOK, Holding, Mapping, Cutting
    <2> QED BY <2>1, <2>2
  <1>6. LevelInv'
    BY <1>5 DEF LevelInv
  <1> QED BY <1>1, <1>3, <1>4, <1>6 DEF Inv

\* A step that leaves the disk alone and ends without the mutex.
LEMMA QuietStep ==
    ASSUME Inv, NEW t \in Tasks, NEW l \in Labels, NEW f \in Frames, Moves(t, l, f),
           LocalOK(l, f), UNCHANGED disk, l \notin Holding,
           mutex' = mutex \/ mutex \in {t, None}
    PROVE  Inv'
  <1>1. /\ Typed' /\ pc'[t] = l /\ fr'[t] = f
        /\ \A u \in Tasks \ {t} : pc'[u] = pc[u] /\ fr'[u] = fr[u]
    BY MovesFacts DEF Inv
  <1>2. \A u \in Tasks \ {t} : pc[u] \in Holding => mutex' = u
    BY MapAssumption DEF Inv, Exclusive
  <1>3. Exclusive'
    BY <1>1, <1>2 DEF Exclusive
  <1>4. (\A u \in Tasks : LocalOK(pc[u], fr[u]))'
    BY <1>1 DEF Inv
  <1>5. PICK lev \in Levels : Sound(lev) /\ \A u \in Tasks : HandOK(lev, pc[u], fr[u])
    BY DEF Inv, LevelInv
  <1>6. ptr' = ptr /\ free' = free /\ foreign' = foreign
    BY DEF disk
  <1>7. Sound(lev)'
    BY <1>5, <1>6 DEF Sound
  <1>8. ASSUME NEW u \in Tasks PROVE HandOK(lev, pc[u], fr[u])'
    <2>1. CASE u = t
      <3>1. pc'[u] \notin Holding
        BY <1>1, <2>1
      <3> QED BY <3>1 DEF HandOK, Holding, Mapping, Cutting
    <2>2. CASE u # t
      <3>1. pc'[u] = pc[u] /\ fr'[u] = fr[u] /\ HandOK(lev, pc[u], fr[u])
        BY <1>1, <1>5, <2>2
      <3> QED BY <1>6, <3>1 DEF HandOK, NewOK, RunOK, SpliceOK, LastSpliced
    <2> QED BY <2>1, <2>2
  <1>9. LevelInv'
    BY <1>7, <1>8 DEF LevelInv
  <1> QED BY <1>1, <1>3, <1>4, <1>9 DEF Inv

\* The types of the locals, one by one.
LEMMA FrameFields ==
    ASSUME NEW f \in Frames
    PROVE  /\ f.kind \in CallKinds /\ f.iblock \in FileRange /\ f.max \in Nat \ {0}
           /\ f.chain \in Seq(Links) /\ f.whole \in BOOLEAN /\ f.count \in Nat /\ f.err \in Errors
           /\ f.partial \in 0 .. 4 /\ f.new \in Seq(Blocks) /\ f.want \in Nat /\ f.done \in Nat
           /\ f.size \in Nat /\ f.work \in Seq(Items)
  BY DEF Frames

\* A call of kr_get_block begins.
LEMMA GetBlockInv == ASSUME Inv, NEW t \in Tasks, GetBlock(t) PROVE Inv'
  <1>1. PICK kind \in {"read", "bmap", "write", "writepage"}, i \in FileRange, n \in 1 .. MaxRun :
            /\ i + n - 1 <= LastBlock
            /\ Goto(t, "first")
            /\ fr' = [fr EXCEPT ![t] = [NoCall EXCEPT !.kind = kind, !.iblock = i, !.max = n]]
            /\ UNCHANGED <<disk, mutex>>
    BY DEF GetBlock
  <1> DEFINE f == [NoCall EXCEPT !.kind = kind, !.iblock = i, !.max = n]
  <1>2. f \in Frames
    <2>1. kind \in CallKinds
      BY DEF CallKinds
    <2>2. n \in Nat \ {0}
      BY MapAssumption
    <2> QED BY <2>1, <2>2, NoCallTyped DEF Frames
  <1>3. f.iblock = i /\ f.max = n /\ f.new = <<>> /\ f.done = 0 /\ f.err = ""
    BY DEF NoCall
  <1>4. Moves(t, "first", f)
    BY <1>1 DEF Moves, Goto
  <1> HIDE DEF f
  <1>5. LocalOK("first", f)
    BY <1>1, <1>3 DEF LocalOK, Walking, Mapping
  <1>6. "first" \in Labels /\ "first" \notin Holding
    BY DEF Labels, Walking, Holding, Mapping, Cutting
  <1> QED BY <1>1, <1>2, <1>4, <1>5, <1>6, QuietStep

\* Facts about where a walking task stands.
LEMMA PathFacts ==
    ASSUME Inv, NEW t \in Tasks
    PROVE  /\ fr[t] \in Frames /\ pc[t] \in Labels /\ LocalOK(pc[t], fr[t])
           /\ IsPath(Path(t)) /\ Len(Path(t)) \in 1 .. 4 /\ Path(t) = Offsets(fr[t].iblock)
           /\ DOMAIN fr = Tasks /\ DOMAIN pc = Tasks
  <1>1. fr[t] \in Frames /\ pc[t] \in Labels /\ LocalOK(pc[t], fr[t]) /\ DOMAIN fr = Tasks /\ DOMAIN pc = Tasks
    BY DEF Inv, Typed
  <1>2. fr[t].iblock \in FileRange
    BY <1>1, FrameFields
  <1>3. IsPath(Path(t))
    BY <1>2, OffsetsAreFound DEF Path
  <1> QED BY <1>1, <1>3 DEF Path, IsPath

\* A link read from a slot of a node is a link.
LEMMA LinkTyped ==
    ASSUME NEW lev, Tree(ptr, lev), NEW x \in Nodes, NEW o \in Slots(x)
    PROVE  Link(x, o) \in Links /\ Link(x, o).bh = x /\ Link(x, o).off = o /\ Link(x, o).key = ptr[x][o]
  <1>1. ptr[x][o] \in 0 .. NBlocks
    BY DEF Tree, IsPointers
  <1>2. o \in Nat
    BY PtrsNat DEF Slots, TIND
  <1> QED BY <1>1, <1>2 DEF Link, Links

\* The invariant has levels for the tree.
LEMMA InvTree == ASSUME Inv PROVE \E lev \in Levels : Tree(ptr, lev)
  BY DEF Inv, LevelInv, Sound

\* A link is added, and the walk goes on or ends.
LEMMA LinkAdded ==
    ASSUME Inv, NEW t \in Tasks, NEW c \in Seq(Links), pc[t] \in {"first", "add"},
           Threaded(Path(t), c),
           fr' = [fr EXCEPT ![t].chain = c],
           Goto(t, AfterLink(c, Len(Path(t)))),
           UNCHANGED <<disk, mutex>>
    PROVE  Inv'
  <1> DEFINE f == [fr[t] EXCEPT !.chain = c]
             l == AfterLink(c, Len(Path(t)))
  <1>1. fr[t] \in Frames /\ LocalOK(pc[t], fr[t]) /\ DOMAIN fr = Tasks /\ Path(t) = Offsets(fr[t].iblock)
    BY PathFacts
  <1>2. f \in Frames
    BY <1>1 DEF Frames
  <1>3. /\ f.chain = c /\ f.iblock = fr[t].iblock /\ f.max = fr[t].max /\ f.new = fr[t].new
        /\ f.done = fr[t].done /\ f.err = fr[t].err
    BY <1>1 DEF Frames
  <1>4. Moves(t, l, f)
    BY <1>1 DEF Moves, Goto
  <1> HIDE DEF f
  <1>5. fr[t].new = <<>> /\ fr[t].done = 0 /\ fr[t].err = "" /\ fr[t].iblock + fr[t].max - 1 <= LastBlock
    BY <1>1 DEF LocalOK, Walking
  <1>6. PICK n \in 1 .. 4 : Len(Path(t)) = n
    BY PathFacts
  <1>7. \/ l = "absent" /\ LastKey(f) = 0
        \/ l = "found"
        \/ l = "bread" /\ LastKey(f) # 0 /\ Len(c) < Len(Path(t))
    BY <1>3, <1>6 DEF AfterLink, LastKey, Threaded
  <1> HIDE DEF l
  <1>8. LocalOK(l, f)
    BY <1>1, <1>3, <1>5, <1>7 DEF LocalOK, Walking, Mapping
  <1>9. l \in Labels /\ l \notin Holding
    BY <1>7 DEF Labels, Walking, Holding, Mapping, Cutting
  <1> QED BY <1>2, <1>4, <1>8, <1>9, QuietStep

\* add_chain of the slot of i_data.
LEMMA FirstLinkInv == ASSUME Inv, NEW t \in Tasks, FirstLink(t) PROVE Inv'
  <1> DEFINE c == <<Link(Inode, Path(t)[1])>>
  <1>1. PICK lev \in Levels : Tree(ptr, lev)
    BY InvTree
  <1>2. Inode \in Nodes /\ Path(t)[1] \in Slots(Inode) /\ Len(Path(t)) \in 1 .. 4
    BY PathFacts, NodeFacts DEF IsPath
  <1>3. /\ Link(Inode, Path(t)[1]) \in Links /\ Link(Inode, Path(t)[1]).bh = Inode
        /\ Link(Inode, Path(t)[1]).off = Path(t)[1]
    BY <1>1, <1>2, LinkTyped
  <1>4. c \in Seq(Links) /\ Len(c) = 1 /\ c[1] = Link(Inode, Path(t)[1])
    BY <1>3
  <1>5. /\ pc[t] = "first" /\ fr' = [fr EXCEPT ![t].chain = c]
        /\ Goto(t, AfterLink(c, Len(Path(t)))) /\ UNCHANGED <<disk, mutex>>
    BY DEF FirstLink, At, locks
  <1> HIDE DEF c
  <1>6. Threaded(Path(t), c)
    BY <1>2, <1>3, <1>4 DEF Threaded
  <1> QED BY <1>4, <1>5, <1>6, LinkAdded

\* add_chain of a slot of a block that was read.
LEMMA AddLinkInv == ASSUME Inv, NEW t \in Tasks, AddLink(t) PROVE Inv'
  <1> DEFINE old == fr[t].chain
             path == Path(t)
             new == Link(old[Len(old)].key, path[Len(old) + 1])
             c == Append(old, new)
  <1>0. /\ pc[t] = "add" /\ fr' = [fr EXCEPT ![t].chain = c]
        /\ Goto(t, AfterLink(c, Len(path))) /\ UNCHANGED <<disk, mutex>>
    BY DEF AddLink, At, locks
  <1>1. PICK lev \in Levels : Tree(ptr, lev)
    BY InvTree
  <1>2. /\ fr[t] \in Frames /\ LocalOK("add", fr[t]) /\ path = Offsets(fr[t].iblock)
        /\ IsPath(path) /\ Len(path) \in 1 .. 4
    BY <1>0, PathFacts
  <1> HIDE DEF path
  <1>3. Threaded(path, old) /\ old[Len(old)].key # 0 /\ Len(old) < Len(path) /\ old \in Seq(Links)
    BY <1>2, FrameFields DEF LocalOK, Walking, LastKey
  <1>4. PICK n \in 1 .. 4 : Len(path) = n
    BY <1>2
  <1> DEFINE m == Len(old)
             x == old[m].key
  <1> HIDE DEF old
  <1>5. m \in 1 .. n /\ m + 1 \in 2 .. n
    BY <1>3, <1>4 DEF Threaded
  <1>6. x \in Blocks /\ path[m + 1] \in Digit
    <2>1. old[m] \in Links
      BY <1>3, <1>5
    <2>2. x \in 0 .. NBlocks /\ x # 0
      BY <1>3, <2>1 DEF Links
    <2> QED BY <1>2, <1>4, <1>5, <2>2, NodeFacts DEF IsPath
  <1>7. x \in Nodes /\ path[m + 1] \in Slots(x)
    BY <1>6, NodeFacts
  <1>8. new \in Links /\ new.bh = x /\ new.off = path[m + 1]
    BY <1>1, <1>7, LinkTyped
  <1> HIDE DEF new
  <1>9. c \in Seq(Links) /\ Len(c) = m + 1 /\ c[m + 1] = new /\ \A j \in 1 .. m : c[j] = old[j]
    BY <1>3, <1>8
  <1> HIDE DEF c, m
  <1>10. Threaded(path, c)
    <2>1. Len(c) \in 1 .. Len(path)
      BY <1>4, <1>5, <1>9
    <2>2. c[1].bh = Inode
      BY <1>3, <1>5, <1>9 DEF Threaded
    <2>3. ASSUME NEW j \in 1 .. Len(c) PROVE c[j].off = path[j]
      <3>1. CASE j = m + 1
        BY <1>8, <1>9, <3>1
      <3>2. CASE j \in 1 .. m
        BY <1>3, <1>9, <3>2 DEF Threaded, m
      <3> QED BY <1>5, <1>9, <3>1, <3>2
    <2>4. ASSUME NEW j \in 1 .. Len(c) - 1 PROVE c[j + 1].bh = c[j].key /\ c[j].key # 0
      <3>1. CASE j = m
        BY <1>3, <1>5, <1>8, <1>9, <3>1 DEF m
      <3>2. CASE j \in 1 .. m - 1
        <4>1. j + 1 \in 1 .. m /\ j \in 1 .. m
          BY <1>5, <3>2
        <4> QED BY <1>3, <1>9, <3>2, <4>1 DEF Threaded, m
      <3> QED BY <1>5, <1>9, <3>1, <3>2
    <2> QED BY <2>1, <2>2, <2>3, <2>4 DEF Threaded
  <1> QED BY <1>0, <1>9, <1>10, LinkAdded DEF path

\* The steps of a call that leave the disk alone, with the record of the call unchanged.
LEMMA SameFrame ==
    ASSUME Inv, NEW t \in Tasks, NEW l \in Labels, UNCHANGED fr, Goto(t, l)
    PROVE  Moves(t, l, fr[t]) /\ fr[t] \in Frames
  <1>1. fr \in [Tasks -> Frames]
    BY DEF Inv, Typed
  <1>2. fr = [fr EXCEPT ![t] = fr[t]]
    BY <1>1
  <1> QED BY <1>1, <1>2 DEF Moves, Goto

\* The read of an indirect block, and the check of the chain after it.
LEMMA BreadInv == ASSUME Inv, NEW t \in Tasks, Bread(t) PROVE Inv'
  <1>0. pc[t] = "bread" /\ UNCHANGED <<disk, mutex>>
    BY DEF Bread, At, locks
  <1>1. fr[t] \in Frames /\ LocalOK("bread", fr[t]) /\ DOMAIN fr = Tasks
    BY <1>0, PathFacts
  <1>2. {"absent", "add"} \subseteq Labels /\ {"absent", "add"} \cap Holding = {}
    BY DEF Labels, Walking, Holding, Mapping, Cutting
  <1>3. ASSUME NEW err \in {"EIO", "EAGAIN"}, fr' = [fr EXCEPT ![t].err = err], Goto(t, "absent")
        PROVE  Inv'
    <2> DEFINE f == [fr[t] EXCEPT !.err = err]
    <2>1. f \in Frames
      <3>1. err \in Errors
        BY DEF Errors
      <3> QED BY <1>1, <3>1 DEF Frames
    <2>2. /\ f.chain = fr[t].chain /\ f.iblock = fr[t].iblock /\ f.max = fr[t].max
          /\ f.new = fr[t].new /\ f.done = fr[t].done /\ f.err = err
      BY <1>1 DEF Frames
    <2>3. Moves(t, "absent", f)
      BY <1>1, <1>3 DEF Moves, Goto
    <2> HIDE DEF f
    <2>4. LocalOK("absent", f)
      BY <1>1, <2>2 DEF LocalOK, Walking, Mapping, LastKey
    <2> QED BY <1>0, <1>2, <2>1, <2>3, <2>4, QuietStep
  <1>4. CASE UNCHANGED fr /\ Goto(t, "add")
    <2>1. Moves(t, "add", fr[t])
      BY <1>2, <1>4, SameFrame
    <2>2. LocalOK("add", fr[t])
      BY <1>1 DEF LocalOK, Walking, Mapping
    <2> QED BY <1>0, <1>1, <1>2, <2>1, <2>2, QuietStep
  <1> QED BY <1>3, <1>4 DEF Bread

\* A turn of the loop that counts the blocks that follow on disk.
LEMMA MapMoreInv == ASSUME Inv, NEW t \in Tasks, MapMore(t) PROVE Inv'
  <1>0. pc[t] = "found" /\ UNCHANGED <<disk, mutex>>
    BY DEF MapMore, At, locks
  <1>1. fr[t] \in Frames /\ LocalOK("found", fr[t]) /\ DOMAIN fr = Tasks /\ fr[t].count \in Nat
    BY <1>0, PathFacts, FrameFields
  <1>2. PICK n \in Nat, err \in {"EAGAIN", ""}, whole \in BOOLEAN, l \in {"absent", "found", "return"} :
            /\ fr' = [fr EXCEPT ![t].count = n, ![t].err = err, ![t].whole = whole]
            /\ Goto(t, l)
            /\ l = "absent" => err = "EAGAIN"
            /\ l = "found" => err = ""
    <2> DEFINE f == fr[t]
               last == f.chain[Len(f.chain)]
               count == IF f.count = 0 THEN 1 ELSE f.count
               more == count < f.max /\ count <= boundary(PtrBits, f.iblock)
               changed == more /\ ~verify_chain(f.chain)
               next == more /\ ~changed /\ ptr[last.bh][last.off + count] = last.key + count
               n == IF changed THEN 0 ELSE IF next THEN count + 1 ELSE count
               err == IF changed THEN "EAGAIN" ELSE ""
               l == IF changed THEN "absent" ELSE IF next THEN "found" ELSE "return"
    <2>1. /\ fr' = [fr EXCEPT ![t].count = n, ![t].err = err, ![t].whole = changed]
          /\ Goto(t, l)
      BY DEF MapMore
    <2>2. count \in Nat
      BY <1>1
    <2>3. changed \in BOOLEAN
      OBVIOUS
    <2> HIDE DEF count, changed, next
    <2>4. n \in Nat
      BY <2>2
    <2>5. err \in {"EAGAIN", ""} /\ l \in {"absent", "found", "return"}
          /\ (l = "absent" => err = "EAGAIN") /\ (l = "found" => err = "")
      OBVIOUS
    <2> HIDE DEF n, err, l
    <2> QED BY <2>1, <2>3, <2>4, <2>5
  <1> DEFINE f == [fr[t] EXCEPT !.count = n, !.err = err, !.whole = whole]
  <1>3. f \in Frames
    <2>1. err \in Errors
      BY DEF Errors
    <2> QED BY <1>1, <2>1 DEF Frames
  <1>4. /\ f.chain = fr[t].chain /\ f.iblock = fr[t].iblock /\ f.max = fr[t].max
        /\ f.new = fr[t].new /\ f.done = fr[t].done /\ f.err = err
    BY <1>1 DEF Frames
  <1>5. Moves(t, l, f)
    BY <1>1, <1>2 DEF Moves, Goto
  <1> HIDE DEF f
  <1>6. LocalOK(l, f)
    BY <1>1, <1>2, <1>4 DEF LocalOK, Walking, Mapping, LastKey
  <1>7. l \in Labels /\ l \notin Holding
    BY DEF Labels, Walking, Holding, Mapping, Cutting
  <1> QED BY <1>0, <1>3, <1>5, <1>6, <1>7, QuietStep

\* The end of a plain lookup, or the way to the mutex.
LEMMA AbsentInv == ASSUME Inv, NEW t \in Tasks, Absent(t) PROVE Inv'
  <1> DEFINE l == IF ~Creates(t) \/ fr[t].err = "EIO" THEN "return" ELSE "lock"
  <1>0. pc[t] = "absent" /\ UNCHANGED <<disk, mutex>> /\ UNCHANGED fr /\ Goto(t, l)
    BY DEF Absent, At, locks
  <1>1. fr[t] \in Frames /\ LocalOK("absent", fr[t]) /\ fr[t].err \in Errors
    BY <1>0, PathFacts, FrameFields
  <1>2. l \in Labels /\ l \notin Holding
    BY DEF Labels, Walking, Holding, Mapping, Cutting
  <1>3. Moves(t, l, fr[t])
    BY <1>0, <1>2, SameFrame
  <1>4. l = "return" \/ (l = "lock" /\ fr[t].err # "EIO")
    OBVIOUS
  <1> HIDE DEF l
  <1>5. LocalOK(l, fr[t])
    <2>1. CASE l = "return"
      BY <2>1 DEF LocalOK, Walking, Mapping
    <2>2. CASE l = "lock" /\ fr[t].err # "EIO"
      <3>1. fr[t].err \in {"", "EAGAIN"}
        BY <1>1, <2>2 DEF LocalOK
      <3> QED BY <1>1, <2>2, <3>1 DEF LocalOK, Walking, Mapping
    <2> QED BY <1>4, <2>1, <2>2
  <1> QED BY <1>0, <1>1, <1>2, <1>3, <1>5, QuietStep

\* The end of a call, and its other steps outside of the walk.
LEMMA PlainStep ==
    ASSUME Inv, NEW t \in Tasks, NEW l \in {"idle", "return", "written", "pages", "truncate"},
           NEW f \in Frames, Moves(t, l, f), UNCHANGED disk,
           mutex' = mutex \/ mutex \in {t, None}
    PROVE  Inv'
  <1>1. l \in Labels /\ l \notin Holding
    BY DEF Labels, Walking, Holding, Mapping, Cutting
  <1>2. LocalOK(l, f)
    BY DEF LocalOK, Walking, Mapping
  <1> QED BY <1>1, <1>2, QuietStep

\* The locals with which a truncation starts have their types.
LEMMA CallFrame ==
    ASSUME NEW kind \in CallKinds, NEW size \in Nat
    PROVE  /\ [NoCall EXCEPT !.kind = kind] \in Frames
           /\ [NoCall EXCEPT !.kind = kind, !.size = size] \in Frames
  <1>1. [NoCall EXCEPT !.kind = kind] \in Frames
    BY NoCallTyped DEF Frames
  <1> QED BY <1>1, NoCallTyped DEF Frames

\* The return of kr_get_blocks.
LEMMA ReturnInv == ASSUME Inv, NEW t \in Tasks, Return(t) PROVE Inv'
  <1>0. UNCHANGED <<disk, mutex>>
    BY DEF Return, locks
  <1>1. CASE Goto(t, "written") /\ UNCHANGED fr
    <2>1. "written" \in Labels
      BY DEF Labels
    <2>2. Moves(t, "written", fr[t]) /\ fr[t] \in Frames
      BY <1>1, <2>1, SameFrame
    <2> QED BY <1>0, <2>2, PlainStep
  <1>2. CASE Goto(t, "idle") /\ fr' = [fr EXCEPT ![t] = NoCall]
    <2>1. Moves(t, "idle", NoCall)
      BY <1>2 DEF Moves, Goto
    <2> QED BY <1>0, <2>1, PlainStep, NoCallTyped
  <1> QED BY <1>1, <1>2 DEF Return

\* The end of a write, and the start of the truncation when it failed.
LEMMA WriteEndInv ==
    ASSUME Inv, NEW t \in Tasks, SizeOK, WriteEnd(t)
    PROVE  Inv'
  <1>0. UNCHANGED <<disk, mutex>>
    BY DEF WriteEnd
  <1>1. CASE Goto(t, "idle") /\ fr' = [fr EXCEPT ![t] = NoCall]
    <2>1. Moves(t, "idle", NoCall)
      BY <1>1 DEF Moves, Goto
    <2> QED BY <1>0, <2>1, PlainStep, NoCallTyped
  <1>2. CASE /\ Goto(t, "truncate")
             /\ fr' = [fr EXCEPT ![t] = [NoCall EXCEPT !.kind = "failed", !.size = i_size]]
    <2> DEFINE f == [NoCall EXCEPT !.kind = "failed", !.size = i_size]
    <2>1. "failed" \in CallKinds
      BY DEF CallKinds
    <2>2. f \in Frames
      BY <2>1, CallFrame DEF SizeOK
    <2>3. Moves(t, "truncate", f)
      BY <1>2 DEF Moves, Goto
    <2> HIDE DEF f
    <2> QED BY <1>0, <2>2, <2>3, PlainStep
  <1> QED BY <1>1, <1>2 DEF WriteEnd

\* The start of kr_setsize.
LEMMA SetSizeInv == ASSUME Inv, NEW t \in Tasks, SetSize(t) PROVE Inv'
  <1>0. UNCHANGED <<disk, mutex>> /\ Goto(t, "pages")
    BY DEF SetSize
  <1>5. PICK size \in 0 .. LastBlock + 1 :
            fr' = [fr EXCEPT ![t] = [NoCall EXCEPT !.kind = "setsize", !.size = size]]
    BY DEF SetSize
  <1>1. size \in Nat /\ fr' = [fr EXCEPT ![t] = [NoCall EXCEPT !.kind = "setsize", !.size = size]]
    BY <1>5, MapAssumption
  <1> DEFINE f == [NoCall EXCEPT !.kind = "setsize", !.size = size]
  <1>2. "setsize" \in CallKinds
    BY DEF CallKinds
  <1>3. f \in Frames
    BY <1>1, <1>2, CallFrame
  <1>4. Moves(t, "pages", f)
    BY <1>0, <1>1 DEF Moves, Goto
  <1> HIDE DEF f
  <1> QED BY <1>0, <1>3, <1>4, PlainStep

\* The end of the wait for the pages past the size.
LEMMA WaitForPagesInv == ASSUME Inv, NEW t \in Tasks, WaitForPages(t) PROVE Inv'
  <1>0. UNCHANGED <<disk, mutex>> /\ Goto(t, "truncate") /\ UNCHANGED fr
    BY DEF WaitForPages, locks
  <1>1. "truncate" \in Labels
    BY DEF Labels
  <1>2. Moves(t, "truncate", fr[t]) /\ fr[t] \in Frames
    BY <1>0, <1>1, SameFrame
  <1> QED BY <1>0, <1>2, PlainStep

\* The eviction of an inode without a name.
LEMMA EvictInv == ASSUME Inv, NEW t \in Tasks, Evict(t) PROVE Inv'
  <1>0. UNCHANGED <<disk, mutex>> /\ pc[t] = "idle"
    BY DEF Evict, locks, Enter, At
  <1>1. CASE Goto(t, "truncate") /\ fr' = [fr EXCEPT ![t] = [NoCall EXCEPT !.kind = "evict"]]
    <2> DEFINE f == [NoCall EXCEPT !.kind = "evict"]
    <2>1. "evict" \in CallKinds /\ 0 \in Nat
      BY DEF CallKinds
    <2>2. f \in Frames
      BY <2>1, CallFrame
    <2>3. Moves(t, "truncate", f)
      BY <1>1 DEF Moves, Goto
    <2> HIDE DEF f
    <2> QED BY <1>0, <2>2, <2>3, PlainStep
  <1>2. CASE UNCHANGED <<pc, fr>>
    <2>1. pc = [pc EXCEPT ![t] = "idle"] /\ "idle" \in Labels
      BY <1>0 DEF Inv, Typed, Labels
    <2>2. Goto(t, "idle")
      BY <1>2, <2>1 DEF Goto
    <2>3. Moves(t, "idle", fr[t]) /\ fr[t] \in Frames
      BY <1>2, <2>1, <2>2, SameFrame
    <2> QED BY <1>0, <2>3, PlainStep
  <1> QED BY <1>1, <1>2 DEF Evict

\* Who is in the part of a call that truncate_mutex protects has it.
LEMMA Holder ==
    ASSUME Inv, NEW t \in Tasks, pc[t] \in Holding
    PROVE  mutex = t
  BY DEF Inv, Exclusive

\* The end of __kr_truncate_blocks.
LEMMA TruncateDoneInv == ASSUME Inv, NEW t \in Tasks, TruncateDone(t) PROVE Inv'
  <1>1. mutex = t
    BY Holder DEF TruncateDone, At, Holding, Cutting
  <1>2. Moves(t, "idle", NoCall) /\ UNCHANGED disk
    BY DEF TruncateDone, Finish, Moves, Goto
  <1> QED BY <1>1, <1>2, PlainStep, NoCallTyped

\* Other files take and release blocks that have no level.
LEMMA OtherHands ==
    ASSUME NEW lev \in Levels, Sound(lev), NEW l, NEW f \in Frames, HandOK(lev, l, f),
           \A x \in Nodes : Leads(lev, x) => ptr'[x] = ptr[x],
           free' \cup foreign' = free \cup foreign
    PROVE  HandOK(lev, l, f)'
  <1>1. \A b : Loose(ptr, lev, b) => Loose(ptr', lev, b)
    BY DEF Loose
  <1>2. l \in {"alloc", "setup"} => NewOK(lev, f)'
    BY DEF HandOK, NewOK
  <1>3. l = "setup" => RunOK(f)'
    BY DEF HandOK, RunOK
  <1>4. l \in {"zero", "splice"} => SpliceOK(lev, f)'
    BY <1>1 DEF HandOK, SpliceOK, LastSpliced
  <1>5. l = "free" => WorkOK(ptr', lev, f.work)
    <2> SUFFICES ASSUME l = "free" PROVE WorkOK(ptr', lev, f.work)
      OBVIOUS
    <2>1. WorkOK(ptr, lev, f.work)
      BY DEF HandOK
    <2>2. \A item : ItemOK(ptr, lev, item) => ItemOK(ptr', lev, item)
      BY <1>1 DEF ItemOK
    <2> QED BY <2>1, <2>2 DEF WorkOK
  <1> QED BY <1>2, <1>3, <1>4, <1>5 DEF HandOK

\* Another file takes a free block and writes to it.
LEMMA OtherTakesInv == ASSUME Inv, OtherTakes PROVE Inv'
  <1>1. PICK b \in free : /\ free' = free \ {b} /\ foreign' = foreign \cup {b}
                          /\ ptr' = [ptr EXCEPT ![b] = [o \in 0 .. Ptrs - 1 |-> b]]
                          /\ UNCHANGED <<mutex, pc, fr>>
    BY DEF OtherTakes, locks
  <1>2. PICK lev \in Levels : Sound(lev) /\ \A u \in Tasks : HandOK(lev, pc[u], fr[u])
    BY DEF Inv, LevelInv
  <1>3. b \in Blocks /\ lev[b] = -1 /\ b \in Nodes /\ b # Inode /\ Slots(b) = Digit /\ b \in 0 .. NBlocks
    BY <1>1, <1>2, NodeFacts DEF Sound, Blocks
  <1>4. Tree(ptr, lev) /\ DOMAIN ptr = Nodes
    BY <1>2 DEF Sound, Tree, IsPointers
  <1>5. /\ DOMAIN ptr' = Nodes /\ ptr'[b] \in [Slots(b) -> 0 .. NBlocks]
        /\ \A x \in Nodes : x # b => ptr'[x] = ptr[x]
    BY <1>1, <1>3, <1>4 DEF Digit
  <1>6. \A x \in Nodes : Leads(lev, x) => ptr'[x] = ptr[x]
    BY <1>3, <1>5 DEF Leads
  <1>7. IsPointers(ptr')
    BY <1>4, <1>5 DEF IsPointers, Tree
  <1>8. Levelled(ptr', lev)
    BY <1>4, <1>6 DEF Levelled, Tree
  <1>9. Sound(lev)'
    BY <1>1, <1>2, <1>3, <1>7, <1>8 DEF Sound, Tree
  <1>10. ASSUME NEW u \in Tasks PROVE HandOK(lev, pc[u], fr[u])'
    <2>1. fr[u] \in Frames /\ HandOK(lev, pc[u], fr[u]) /\ pc'[u] = pc[u] /\ fr'[u] = fr[u]
      BY <1>1, <1>2 DEF Inv, Typed
    <2>2. free' \cup foreign' = free \cup foreign
      BY <1>1
    <2> QED BY <1>2, <1>6, <2>1, <2>2, OtherHands
  <1>11. LevelInv'
    BY <1>9, <1>10 DEF LevelInv
  <1>12. Typed' /\ Exclusive' /\ (\A u \in Tasks : LocalOK(pc[u], fr[u]))'
    BY <1>1 DEF Inv, Typed, Exclusive
  <1> QED BY <1>11, <1>12 DEF Inv

\* Another file frees a block.
LEMMA OtherReleasesInv == ASSUME Inv, OtherReleases PROVE Inv'
  <1>1. PICK b \in foreign : /\ free' = free \cup {b} /\ foreign' = foreign \ {b}
                             /\ UNCHANGED <<ptr, mutex, pc, fr>>
    BY DEF OtherReleases, locks
  <1>2. PICK lev \in Levels : Sound(lev) /\ \A u \in Tasks : HandOK(lev, pc[u], fr[u])
    BY DEF Inv, LevelInv
  <1>3. Sound(lev)'
    BY <1>1, <1>2 DEF Sound
  <1>4. ASSUME NEW u \in Tasks PROVE HandOK(lev, pc[u], fr[u])'
    <2>1. fr[u] \in Frames /\ HandOK(lev, pc[u], fr[u]) /\ pc'[u] = pc[u] /\ fr'[u] = fr[u]
      BY <1>1, <1>2 DEF Inv, Typed
    <2>2. free' \cup foreign' = free \cup foreign
      BY <1>1
    <2> QED BY <1>1, <1>2, <2>1, <2>2, OtherHands
  <1>5. LevelInv'
    BY <1>3, <1>4 DEF LevelInv
  <1>6. Typed' /\ Exclusive' /\ (\A u \in Tasks : LocalOK(pc[u], fr[u]))'
    BY <1>1 DEF Inv, Typed, Exclusive
  <1> QED BY <1>5, <1>6 DEF Inv

-----------------------------------------------------------------------------
(***************************************************************************)
(* Mapping a block.                                                        *)
(***************************************************************************)

\* A chain that is threaded and current is the branch of the tree.
LEMMA ChainEdges ==
    ASSUME NEW lev, Tree(ptr, lev), NEW path, IsPath(path), NEW c, Threaded(path, c), verify_chain(c)
    PROVE  \A j \in 1 .. Len(c) : Edge(ptr, lev, path, j, c[j].bh)
  <1> DEFINE P(j) == Edge(ptr, lev, path, j, c[j].bh)
  <1>0. PICK n \in 1 .. 4 : Len(path) = n
    BY DEF IsPath
  <1>1. PICK m \in 1 .. n : Len(c) = m
    BY <1>0 DEF Threaded
  <1>2. P(1)
    BY EdgeTop DEF Threaded
  <1>3. ASSUME NEW j \in 1 .. 3, j + 1 <= m, P(j) PROVE P(j + 1)
    <2>1. j \in 1 .. m /\ j \in 1 .. m - 1 /\ j < Len(path) /\ j \in 1 .. 4
      BY <1>0, <1>1, <1>3
    <2>2. ptr[c[j].bh][path[j]] = c[j].key
      BY <1>1, <2>1 DEF Threaded, verify_chain
    <2>3. c[j + 1].bh = c[j].key /\ c[j].key # 0
      BY <1>1, <2>1 DEF Threaded
    <2>4. Edge(ptr, lev, path, j + 1, ptr[c[j].bh][path[j]])
      BY <1>3, <2>1, <2>2, <2>3, EdgeDown
    <2> QED BY <2>2, <2>3, <2>4
  <1>4. \A j \in 1 .. m : P(j)
    <2> HIDE DEF P
    <2>1. 2 <= m => P(2)
      BY <1>2, <1>3
    <2>2. 3 <= m => P(3)
      BY <1>3, <2>1
    <2>3. 4 <= m => P(4)
      BY <1>3, <2>2
    <2> QED BY <1>2, <2>1, <2>2, <2>3
  <1> QED BY <1>1, <1>4

\* The least element of a set of numbers.
LEMMA MinIsLeast ==
    ASSUME NEW S \in SUBSET Nat, S # {}
    PROVE  Min(S) \in S /\ \A m \in S : Min(S) <= m
  <1>1. PICK x \in S : \A y \in S : <<y, x>> \notin OpToRel(<, Nat)
    BY WFMin, NatLessThanWellFounded
  <1>2. \A y \in S : x <= y
    <2>1. \A y \in S : ~(y < x)
      BY <1>1 DEF OpToRel
    <2> QED BY <2>1
  <1> QED BY <1>2 DEF Min

\* The greatest element of a set of numbers with a bound.
LEMMA MaxIsGreatest ==
    ASSUME NEW n \in Nat, NEW S \in SUBSET (0 .. n), S # {}
    PROVE  Max(S) \in S /\ \A m \in S : Max(S) >= m
  <1> DEFINE T == {n - x : x \in S}
  <1>1. T \in SUBSET Nat /\ T # {}
    <2>1. \A x \in S : x \in Int /\ n - x \in Nat
      OBVIOUS
    <2>2. \A y \in T : y \in Nat
      BY <2>1
    <2>3. \E y : y \in T
      OBVIOUS
    <2> HIDE DEF T
    <2> QED BY <2>2, <2>3
  <1>2. Min(T) \in T /\ \A m \in T : Min(T) <= m
    BY <1>1, MinIsLeast
  <1>3. PICK x \in S : Min(T) = n - x
    BY <1>2
  <1>4. \A y \in S : x >= y
    <2> SUFFICES ASSUME NEW y \in S PROVE x >= y
      OBVIOUS
    <2>1. n - y \in T
      OBVIOUS
    <2>2. n - x <= n - y
      BY <1>2, <1>3, <2>1
    <2> QED BY <2>2
  <1> QED BY <1>4 DEF Max

\* kr_get_branch reads a branch that is threaded and current, as far as it is told.
LEMMA BranchFacts ==
    ASSUME NEW lev, Tree(ptr, lev), NEW path, IsPath(path),
           NEW k \in 1 .. 4, k <= Len(path), NEW length \in BranchLengths(SubSeq(path, 1, k))
    PROVE  /\ length \in 1 .. k
           /\ Len(kr_get_branch(path, length)) = length
           /\ kr_get_branch(path, length) \in Seq(Links)
           /\ Threaded(path, kr_get_branch(path, length))
           /\ verify_chain(kr_get_branch(path, length))
           /\ \A j \in 1 .. length : kr_get_branch(path, length)[j].key = Walk(path, ptr)[j]
           /\ ~IOErrors => length = k \/ Walk(path, ptr)[length] = 0
  <1> DEFINE w == Walk(path, ptr)
             short == SubSeq(path, 1, k)
             v == Walk(short, ptr)
             S == {j \in 1 .. k : v[j] = 0 \/ j = k}
             c == kr_get_branch(path, length)
  <1>0. PICK n \in 1 .. 4 : Len(path) = n
    BY DEF IsPath
  <1>1. Len(short) = k /\ \A j \in 1 .. k : short[j] = path[j]
    BY <1>0 DEF IsPath
  <1>2. \A j \in 1 .. k : v[j] = w[j]
    <2>1. \A j \in 1 .. k : /\ j = 1 => v[j] = ptr[Inode][path[j]]
                            /\ j > 1 => v[j] = IF v[j - 1] = 0 THEN 0 ELSE ptr[v[j - 1]][path[j]]
      <3> SUFFICES ASSUME NEW j \in 1 .. k
                   PROVE  /\ j = 1 => v[j] = ptr[Inode][path[j]]
                          /\ j > 1 => v[j] = IF v[j - 1] = 0 THEN 0 ELSE ptr[v[j - 1]][path[j]]
        OBVIOUS
      <3> HIDE DEF short
      <3>1. /\ j = 1 => v[j] = ptr[Inode][short[j]]
            /\ j > 1 => v[j] = IF v[j - 1] = 0 THEN 0 ELSE ptr[v[j - 1]][short[j]]
        <4>1. Len(short) = k
          BY <1>1
        <4> QED BY <4>1, WalkAt, Zenon
      <3> HIDE DEF v
      <3> QED BY <1>1, <3>1
    <2>2. \A j \in 1 .. k : /\ j = 1 => w[j] = ptr[Inode][path[j]]
                            /\ j > 1 => w[j] = IF w[j - 1] = 0 THEN 0 ELSE ptr[w[j - 1]][path[j]]
      <3> SUFFICES ASSUME NEW j \in 1 .. k
                   PROVE  /\ j = 1 => w[j] = ptr[Inode][path[j]]
                          /\ j > 1 => w[j] = IF w[j - 1] = 0 THEN 0 ELSE ptr[w[j - 1]][path[j]]
        OBVIOUS
      <3>1. j \in 1 .. n
        BY <1>0
      <3> QED BY <1>0, <3>1, WalkAt
    <2> HIDE DEF v, w
    <2>3. v[1] = w[1]
      BY <2>1, <2>2
    <2>4. k >= 2 => v[2] = w[2]
      BY <2>1, <2>2, <2>3
    <2>5. k >= 3 => v[3] = w[3]
      BY <2>1, <2>2, <2>4
    <2>6. k >= 4 => v[4] = w[4]
      BY <2>1, <2>2, <2>5
    <2> QED BY <2>3, <2>4, <2>5, <2>6
  <1>3. Min(S) \in S /\ \A j \in S : Min(S) <= j
    <2>1. k \in S /\ S \in SUBSET Nat
      OBVIOUS
    <2> HIDE DEF S
    <2> QED BY <2>1, MinIsLeast
  <1>4. BranchLengths(short) = IF IOErrors THEN 1 .. Min(S) ELSE {Min(S)}
    BY <1>1 DEF BranchLengths
  <1> HIDE DEF v, short
  <1>5. length \in 1 .. k /\ length <= Min(S) /\ (~IOErrors => length = Min(S))
    BY <1>3, <1>4 DEF short
  <1>6. \A j \in 1 .. length - 1 : w[j] # 0
    BY <1>2, <1>3, <1>5
  <1>7. ~IOErrors => length = k \/ w[length] = 0
    BY <1>2, <1>3, <1>5
  <1> HIDE DEF S
  <1>8. c = [j \in 1 .. length |-> Link(Parent(w, j), path[j])]
    BY DEF kr_get_branch, Parent
  <1>9. \A j \in 1 .. n : /\ j = 1 => w[j] = ptr[Inode][path[j]]
                          /\ j > 1 => w[j] = IF w[j - 1] = 0 THEN 0 ELSE ptr[w[j - 1]][path[j]]
    BY <1>0, WalkAt
  <1>10. \A j \in 1 .. length : Parent(w, j) \in Nodes /\ path[j] \in Slots(Parent(w, j))
                                /\ ptr[Parent(w, j)][path[j]] = w[j]
    <2> SUFFICES ASSUME NEW j \in 1 .. length
                 PROVE  Parent(w, j) \in Nodes /\ path[j] \in Slots(Parent(w, j))
                        /\ ptr[Parent(w, j)][path[j]] = w[j]
      OBVIOUS
    <2>1. CASE j = 1
      <3>1. path[1] \in Slots(Inode) /\ Inode \in Nodes
        BY NodeFacts DEF IsPath
      <3> HIDE DEF w
      <3> QED BY <1>9, <2>1, <3>1 DEF Parent
    <2>2. CASE j > 1
      <3>1. j - 1 \in 1 .. Len(path) /\ w[j - 1] # 0 /\ j \in 2 .. Len(path) /\ j \in 1 .. n
        BY <1>0, <1>5, <1>6, <2>2
      <3>2. w[j - 1] \in 0 .. NBlocks
        BY <3>1, WalkEdges
      <3> HIDE DEF w
      <3>3. w[j - 1] \in Blocks /\ path[j] \in Digit
        BY <3>1, <3>2, NodeFacts DEF IsPath
      <3> QED BY <1>9, <2>2, <3>1, <3>3, NodeFacts DEF Parent
    <2> QED BY <2>1, <2>2
  <1> HIDE DEF w
  <1>11. \A j \in 1 .. length : /\ c[j] \in Links /\ c[j].bh = Parent(w, j)
                                /\ c[j].off = path[j] /\ c[j].key = w[j]
    <2> SUFFICES ASSUME NEW j \in 1 .. length
                 PROVE  c[j] \in Links /\ c[j].bh = Parent(w, j) /\ c[j].off = path[j] /\ c[j].key = w[j]
      OBVIOUS
    <2>1. c[j] = Link(Parent(w, j), path[j])
      BY <1>8
    <2> HIDE DEF c
    <2> QED BY <1>10, <2>1, LinkTyped
  <1>12. Len(c) = length /\ c \in Seq(Links)
    <2>1. c \in [1 .. length -> Links] /\ length \in Nat
      <3>1. c = [j \in 1 .. length |-> c[j]]
        BY <1>8
      <3> HIDE DEF c
      <3> QED BY <1>5, <1>11, <3>1
    <2> HIDE DEF c
    <2> QED BY <2>1
  <1> HIDE DEF c
  <1>13. Threaded(path, c)
    <2>1. \A j \in 1 .. length - 1 : j \in 1 .. length /\ j + 1 \in 1 .. length /\ (j + 1) - 1 = j /\ j + 1 # 1
      BY <1>5
    <2>2. \A j \in 1 .. length - 1 : c[j + 1].bh = c[j].key /\ c[j].key # 0
      BY <1>6, <1>11, <2>1 DEF Parent
    <2>3. 1 \in 1 .. length /\ length \in 1 .. Len(path)
      BY <1>0, <1>5
    <2> QED BY <1>11, <1>12, <2>2, <2>3 DEF Threaded, Parent
  <1>14. verify_chain(c)
    BY <1>10, <1>11, <1>12 DEF verify_chain
  <1> QED BY <1>5, <1>7, <1>11, <1>12, <1>13, <1>14 DEF c, w

\* A number below n is its own remainder.
LEMMA SmallRemainder ==
    ASSUME NEW n \in Nat, n >= 1, NEW x \in 0 .. n - 1
    PROVE  x % n = x
  <1> DEFINE q == x \div n
             r == x % n
  <1>0. x \in Nat
    OBVIOUS
  <1>1. q \in Nat /\ r \in 0 .. n - 1 /\ x = n * q + r
    BY <1>0, Digits
  <1> HIDE DEF q, r
  <1>2. q = 0
    <2> SUFFICES ASSUME q # 0 PROVE FALSE
      OBVIOUS
    <2>1. 0 < q /\ 0 \in Nat
      BY <1>1
    <2>2. n * 0 + n <= n * q
      BY <1>1, <2>1, ProductGrows
    <2>3. n * 0 = 0 /\ n * q \in Nat
      BY <1>1
    <2> QED BY <1>1, <2>2, <2>3
  <1>3. n * q = 0
    BY <1>2
  <1>4. r = x
    BY <1>1, <1>3
  <1> QED BY <1>4 DEF r

\* The slots up to the boundary are slots of the same array, for data as well.
LEMMA BoundaryFacts ==
    ASSUME NEW i \in FileRange, Len(Offsets(i)) \in 1 .. 4
    PROVE  /\ boundary(PtrBits, i) \in Nat
           /\ Len(Offsets(i)) = 1 =>
                \A d \in 0 .. boundary(PtrBits, i) : Offsets(i)[1] + d \in 0 .. NDir - 1
           /\ Len(Offsets(i)) > 1 =>
                \A d \in 0 .. boundary(PtrBits, i) : Offsets(i)[Len(Offsets(i))] + d \in Digit
  <1> DEFINE path == Offsets(i)
             last == path[Len(path)]
             final == IF Len(path) = 1 THEN NDir ELSE Ptrs
  <1>0. IsPath(path)
    BY OffsetsAreFound
  <1>1. boundary(PtrBits, i) = final - 1 - (last % Ptrs)
    BY DEF boundary, Offsets, Ptrs
  <1>2. Ptrs \in Nat /\ Ptrs >= 1 /\ NDir \in Nat /\ NDir >= 1 /\ NDir <= Ptrs
    BY PtrsNat, MapAssumption
  <1> HIDE DEF path
  <1>3. PICK n \in 1 .. 4 : Len(path) = n
    BY <1>0 DEF IsPath
  <1>4. CASE n = 1
    <2>1. path[1] \in 0 .. NDir - 1
      BY <1>0, <1>2, <1>3, <1>4 DEF IsPath, SlotDepth, TIND
    <2>2. last = path[1] /\ last \in 0 .. Ptrs - 1
      BY <1>2, <1>3, <1>4, <2>1
    <2> HIDE DEF last
    <2>3. last % Ptrs = last
      BY <1>2, <2>2, SmallRemainder
    <2>4. boundary(PtrBits, i) = NDir - 1 - last
      BY <1>1, <1>3, <1>4, <2>3
    <2> QED BY <1>2, <1>3, <1>4, <2>1, <2>2, <2>4 DEF path
  <1>5. CASE n > 1
    <2>1. n \in 2 .. Len(path)
      BY <1>3, <1>5
    <2>2. last \in Digit /\ last = path[n]
      BY <1>0, <1>3, <2>1 DEF IsPath
    <2> HIDE DEF last
    <2>3. last % Ptrs = last
      BY <1>2, <2>2, SmallRemainder DEF Digit
    <2>4. boundary(PtrBits, i) = Ptrs - 1 - last
      BY <1>1, <1>3, <1>5, <2>3
    <2> QED BY <1>2, <1>3, <1>5, <2>2, <2>4 DEF path, Digit
  <1> QED BY <1>4, <1>5

\* What kr_blks_to_allocate finds room for.
LEMMA RoomFacts ==
    ASSUME NEW link, NEW k \in Nat, NEW blks \in Nat \ {0}, NEW bound \in Nat
    PROVE  LET n == kr_blks_to_allocate(link, k, blks, bound)
           IN  /\ n \in Nat \ {0} /\ n <= blks /\ n <= bound + 1
               /\ k = 0 => \A j \in 1 .. n - 1 : ptr[link.bh][link.off + j] = 0
  <1> DEFINE P == {blks, bound + 1}
             most == Min(P)
             C == {c \in 1 .. most : \A j \in 1 .. c - 1 : ptr[link.bh][link.off + j] = 0}
  <1>1. most \in P /\ \A m \in P : most <= m
    <2>1. P \in SUBSET Nat /\ P # {}
      OBVIOUS
    <2> HIDE DEF P
    <2> QED BY <2>1, MinIsLeast
  <1>2. most \in Nat \ {0} /\ most <= blks /\ most <= bound + 1
    BY <1>1
  <1>3. kr_blks_to_allocate(link, k, blks, bound) = IF k > 0 THEN most ELSE Max(C)
    BY DEF kr_blks_to_allocate
  <1> HIDE DEF most
  <1>4. 1 \in C /\ C \in SUBSET (0 .. most)
    BY <1>2
  <1>5. Max(C) \in C
    <2> HIDE DEF C
    <2> QED BY <1>2, <1>4, MaxIsGreatest
  <1>6. Max(C) \in 1 .. most /\ \A j \in 1 .. Max(C) - 1 : ptr[link.bh][link.off + j] = 0
    <2> DEFINE m == Max(C)
    <2>1. m \in C
      BY <1>5
    <2> HIDE DEF m
    <2>2. m \in 1 .. most /\ \A j \in 1 .. m - 1 : ptr[link.bh][link.off + j] = 0
      BY <2>1
    <2> QED BY <2>2 DEF m
  <1> DEFINE m == Max(C)
  <1> HIDE DEF m
  <1>7. /\ m \in 1 .. most /\ \A j \in 1 .. m - 1 : ptr[link.bh][link.off + j] = 0
        /\ kr_blks_to_allocate(link, k, blks, bound) = IF k > 0 THEN most ELSE m
    BY <1>3, <1>6 DEF m
  <1> QED BY <1>2, <1>7

\* What kr_blks_to_allocate asks for fits in the array of the last link.
LEMMA WantFacts ==
    ASSUME NEW lev, Tree(ptr, lev), NEW t \in Tasks, fr[t] \in Frames, NEW c \in Seq(Links),
           Threaded(Path(t), c), verify_chain(c)
    PROVE  LET k == Len(Path(t)) - Len(c)
               w == c[Len(c)]
           IN  /\ Len(c) \in 1 .. 4 /\ Len(c) <= Len(Path(t)) /\ k \in 0 .. 3
               /\ Want(t, c) \in Nat /\ Want(t, c) > k /\ Want(t, c) - k <= fr[t].max
               /\ w.off = Path(t)[Len(c)]
               /\ Spot(lev, w.bh, w.off, k)
               /\ k = 0 => \A d \in 0 .. Want(t, c) - 1 : Spot(lev, w.bh, w.off + d, k)
               /\ k = 0 => \A d \in 1 .. Want(t, c) - 1 : ptr[w.bh][w.off + d] = 0
  <1> DEFINE path == Path(t)
             i == fr[t].iblock
             m == Len(c)
             w == c[m]
             k == Len(path) - m
             B == boundary(PtrBits, i)
             room == kr_blks_to_allocate(w, k, fr[t].max, B)
  <1>0. i \in FileRange /\ fr[t].max \in Nat \ {0} /\ path = Offsets(i)
    BY FrameFields DEF Path
  <1>1. IsPath(path)
    BY <1>0, OffsetsAreFound
  <1>2. PICK n \in 1 .. 4 : Len(path) = n
    BY <1>1 DEF IsPath
  <1>3. m \in 1 .. n /\ k \in 0 .. 3
    BY <1>2 DEF Threaded
  <1>4. B \in Nat
    BY <1>0, <1>2, BoundaryFacts
  <1>5. /\ room \in Nat \ {0} /\ room <= fr[t].max /\ room <= B + 1
        /\ k = 0 => \A j \in 1 .. room - 1 : ptr[w.bh][w.off + j] = 0
    <2>1. k \in Nat /\ fr[t].max \in Nat \ {0}
      BY <1>0, <1>3
    <2> HIDE DEF k, w, B
    <2> QED BY <1>4, <2>1, RoomFacts
  <1>6. Want(t, c) = k + room
    BY DEF Want
  <1> HIDE DEF room
  <1>7. Edge(ptr, lev, path, m, w.bh) /\ w.off = path[m]
    BY <1>1, <1>2, <1>3, ChainEdges DEF Threaded
  <1>8. Spot(lev, w.bh, w.off, k)
    BY <1>2, <1>3, <1>7 DEF Edge, Spot
  <1>9. ASSUME k = 0, NEW d \in 0 .. room - 1 PROVE Spot(lev, w.bh, w.off + d, k)
    <2>1. d \in 0 .. B /\ m = n
      BY <1>2, <1>3, <1>4, <1>5, <1>9
    <2>2. CASE n = 1
      <3>1. w.off + d \in 0 .. NDir - 1
        BY <1>0, <1>2, <1>7, <2>1, <2>2, BoundaryFacts
      <3>2. w.bh = Inode
        BY <1>7, <2>1, <2>2 DEF Edge
      <3>3. w.off + d \in Slots(Inode) /\ Down(lev, Inode, w.off + d) = 0
        BY <3>1, PtrsNat, NodeFacts DEF Down, SlotDepth, TIND
      <3> QED BY <1>9, <3>2, <3>3, NodeFacts DEF Spot, Leads
    <2>3. CASE n > 1
      <3>1. w.off + d \in Digit
        BY <1>0, <1>2, <1>7, <2>1, <2>3, BoundaryFacts
      <3>2. w.bh \in Blocks /\ Leads(lev, w.bh) /\ Down(lev, w.bh, w.off) = k
        BY <1>7, <1>8, <2>1, <2>3, NodeFacts DEF Edge, Spot
      <3>3. w.bh # Inode /\ w.bh \in Nodes /\ Slots(w.bh) = Digit
        BY <3>2, NodeFacts
      <3> QED BY <3>1, <3>2, <3>3 DEF Spot, Down
    <2> QED BY <2>2, <2>3
  <1>10. /\ Len(c) \in 1 .. 4 /\ Len(c) <= Len(path) /\ k \in 0 .. 3
         /\ Want(t, c) \in Nat /\ Want(t, c) > k /\ Want(t, c) - k <= fr[t].max
    <2>1. Len(c) \in 1 .. 4 /\ Len(c) <= Len(path)
      <3>1. m = Len(c) /\ m \in 1 .. n /\ Len(path) = n /\ n \in 1 .. 4
        BY <1>2, <1>3
      <3> HIDE DEF m, path
      <3>2. m \in 1 .. 4 /\ m <= n
        BY ONLY <3>1
      <3> QED BY ONLY <3>1, <3>2
    <2> DEFINE mx == fr[t].max
    <2>2. room \in Nat /\ room # 0 /\ room <= mx /\ mx \in Nat
      BY <1>0, <1>5
    <2> HIDE DEF k, mx
    <2>3. k + room \in Nat /\ k + room > k /\ (k + room) - k <= mx
      BY ONLY <1>3, <2>2
    <2>4. /\ k \in 0 .. 3
          /\ Want(t, c) \in Nat /\ Want(t, c) > k /\ Want(t, c) - k <= mx
      BY ONLY <1>3, <1>6, <2>2, <2>3
    <2> QED BY ONLY <2>1, <2>4 DEF mx
  <1>11. k = 0 => Want(t, c) = room
    BY <1>5, <1>6
  <1> QED BY <1>5, <1>7, <1>8, <1>9, <1>10, <1>11

\* The mutex is taken with a chain that is current.
LEMMA LockedInv ==
    ASSUME Inv, NEW t \in Tasks, pc[t] = "lock", mutex = None, mutex' = t, UNCHANGED disk,
           NEW c \in Seq(Links), Threaded(Path(t), c), verify_chain(c),
           NEW g \in Frames, g.chain = c, g.partial = Len(c), g.want = Want(t, c),
           g.iblock = fr[t].iblock, g.max = fr[t].max, g.new = fr[t].new, g.done = fr[t].done,
           Moves(t, "alloc", g)
    PROVE  Inv'
  <1>1. fr[t] \in Frames /\ LocalOK("lock", fr[t]) /\ Path(t) = Offsets(fr[t].iblock)
    BY PathFacts
  <1>2. g.new = <<>> /\ g.done = 0 /\ g.iblock + g.max - 1 <= LastBlock
    BY <1>1 DEF LocalOK, Walking
  <1>3. PICK lev \in Levels : Sound(lev)
    BY DEF Inv, LevelInv
  <1> DEFINE k == Len(Path(t)) - Len(c)
             w == c[Len(c)]
  <1>4. /\ Len(c) \in 1 .. 4 /\ Len(c) <= Len(Path(t)) /\ k \in 0 .. 3
        /\ Want(t, c) \in Nat /\ Want(t, c) > k
        /\ w.off = Path(t)[Len(c)]
        /\ Spot(lev, w.bh, w.off, k)
        /\ k = 0 => \A d \in 0 .. Want(t, c) - 1 : Spot(lev, w.bh, w.off + d, k)
    BY <1>1, <1>3, WantFacts DEF Sound
  <1>5. ptr' = ptr /\ free' = free /\ foreign' = foreign
    BY DEF disk
  <1>6. Sound(lev)'
    BY <1>3, <1>5 DEF Sound
  <1>7. NewOK(lev, g)'
    <2>1. Len(g.new) = 0 /\ Len(g.new) + g.want - 1 = Want(t, c) - 1
      BY <1>2, <1>4
    <2>2. PICK n \in 1 .. 4 : Len(Path(t)) = n
      BY PathFacts
    <2>3. g.partial \in 1 .. Len(Offsets(g.iblock)) /\ Len(Offsets(g.iblock)) - g.partial = k
      <3>1. Offsets(g.iblock) = Path(t) /\ g.partial = Len(c) /\ k = Len(Path(t)) - Len(c)
        BY <1>1
      <3>2. Len(c) \in 1 .. Len(Path(t))
        <4>1. Len(c) \in 1 .. 4 /\ Len(c) <= n
          BY <1>4, <2>2
        <4>2. \A m \in 1 .. 4 : m <= n => m \in 1 .. n
          OBVIOUS
        <4>3. Len(c) \in 1 .. n
          BY <4>1, <4>2, Zenon
        <4> QED BY <2>2, <4>3, Zenon
      <3> HIDE DEF k
      <3> QED BY ONLY <3>1, <3>2
    <2>4. g.chain[g.partial] = w /\ Offsets(g.iblock) = Path(t)
      BY <1>1
    <2> HIDE DEF k, w
    <2>5. k = 0 => \A d \in 0 .. Len(g.new) + g.want - 1 : Spot(lev, w.bh, w.off + d, k)
      BY <1>4, <2>1
    <2>6. \A n1 \in 1 .. Len(g.new) : FALSE
      BY <2>1
    <2> QED BY <1>2, <1>4, <2>3, <2>4, <2>5, <2>6 DEF NewOK
  <1>8. HandOK(lev, "alloc", g)'
    <2>1. PICK n \in 1 .. 4 : Len(Path(t)) = n
      BY PathFacts
    <2>2. Len(g.new) <= Len(Offsets(g.iblock)) - g.partial
      BY <1>1, <1>2, <1>4, <2>1
    <2> QED BY <1>7, <2>2 DEF HandOK
  <1>9. LocalOK("alloc", g)
    BY <1>2 DEF LocalOK, Walking, Mapping
  <1>10. "alloc" \in Labels
    BY DEF Labels, Mapping
  <1> QED BY <1>6, <1>8, <1>9, <1>10, HolderStep

\* truncate_mutex is taken, and a chain that changed is read again.
LEMMA LockTreeInv == ASSUME Inv, NEW t \in Tasks, LockTree(t) PROVE Inv'
  <1> DEFINE f == fr[t]
             path == Path(t)
  <1>0. pc[t] = "lock" /\ mutex = None /\ UNCHANGED disk
    BY DEF LockTree, At
  <1>1. /\ f \in Frames /\ LocalOK("lock", f) /\ path = Offsets(f.iblock) /\ IsPath(path)
        /\ Len(path) \in 1 .. 4 /\ DOMAIN fr = Tasks
    BY <1>0, PathFacts
  <1>2. PICK lev \in Levels : Sound(lev)
    BY DEF Inv, LevelInv
  <1>3. f.chain \in Seq(Links) /\ Threaded(path, f.chain)
    BY <1>1, FrameFields DEF LocalOK, Walking
  <1>4. CASE /\ f.err # "EAGAIN" /\ verify_chain(f.chain)
             /\ mutex' = t
             /\ fr' = [fr EXCEPT ![t].partial = Len(f.chain), ![t].want = Want(t, f.chain)]
             /\ Goto(t, "alloc")
    <2> DEFINE g == [fr[t] EXCEPT !.partial = Len(f.chain), !.want = Want(t, f.chain)]
    <2>1. Len(f.chain) \in 0 .. 4 /\ Want(t, f.chain) \in Nat
      BY <1>1, <1>2, <1>3, <1>4, WantFacts DEF Sound
    <2>2. g \in Frames
      BY <1>1, <2>1 DEF Frames
    <2>3. /\ g.chain = f.chain /\ g.partial = Len(f.chain) /\ g.want = Want(t, f.chain)
          /\ g.iblock = f.iblock /\ g.max = f.max /\ g.new = f.new /\ g.done = f.done
      BY <1>1 DEF Frames
    <2>4. Moves(t, "alloc", g)
      BY <1>1, <1>4 DEF Moves, Goto
    <2> HIDE DEF g
    <2> QED BY <1>0, <1>3, <1>4, <2>2, <2>3, <2>4, LockedInv
  <1>5. ASSUME NEW length \in BranchLengths(path),
               LET chain == kr_get_branch(path, length)
                   complete == length = Len(path) /\ chain[length].key # 0
                   g == [f EXCEPT !.chain = chain, !.err = "", !.whole = FALSE]
               IN  \/ /\ complete
                      /\ UNCHANGED mutex
                      /\ fr' = [fr EXCEPT ![t] = [g EXCEPT !.count = 1]]
                      /\ Goto(t, "return")
                   \/ /\ ~complete
                      /\ mutex' = t
                      /\ fr' = [fr EXCEPT ![t] =
                                    [g EXCEPT !.partial = length, !.want = Want(t, chain)]]
                      /\ Goto(t, "alloc")
        PROVE  Inv'
    <2> DEFINE c == kr_get_branch(path, length)
               g == [f EXCEPT !.chain = c, !.err = "", !.whole = FALSE]
    <2>1. PICK n \in 1 .. 4 : Len(path) = n
      BY <1>1
    <2>2. SubSeq(path, 1, n) = path
      <3>1. path \in Seq(Nat) /\ Len(path) = n
        BY <1>1, <2>1 DEF IsPath
      <3> HIDE DEF path
      <3>2. SubSeq(path, 1, n) \in Seq(Nat) /\ Len(SubSeq(path, 1, n)) = n
        BY <3>1
      <3>3. \A j \in 1 .. n : SubSeq(path, 1, n)[j] = path[j]
        BY <3>1
      <3> QED BY <3>1, <3>2, <3>3, SeqEqual
    <2>3. length \in 1 .. n /\ Len(c) = length /\ c \in Seq(Links) /\ Threaded(path, c) /\ verify_chain(c)
      <3>1. length \in BranchLengths(SubSeq(path, 1, n)) /\ n <= Len(path) /\ Tree(ptr, lev)
        <4>1. Tree(ptr, lev)
          BY <1>2 DEF Sound
        <4> HIDE DEF path
        <4>2. n <= Len(path)
          BY ONLY <2>1, n \in 1 .. 4
        <4> QED BY ONLY length \in BranchLengths(path), <2>2, <4>1, <4>2
      <3> HIDE DEF path
      <3> QED BY <1>1, <3>1, BranchFacts
    <2>4. g \in Frames /\ g.chain = c /\ g.iblock = f.iblock /\ g.max = f.max /\ g.new = f.new /\ g.done = f.done
      <3> HIDE DEF c
      <3>1. "" \in Errors /\ FALSE \in BOOLEAN
        BY DEF Errors
      <3> QED BY <1>1, <2>3, <3>1 DEF Frames
    <2>5. CASE UNCHANGED mutex /\ fr' = [fr EXCEPT ![t] = [g EXCEPT !.count = 1]] /\ Goto(t, "return")
      <3> DEFINE h == [g EXCEPT !.count = 1]
      <3> HIDE DEF g
      <3>1. h \in Frames
        BY <2>4 DEF Frames
      <3>2. Moves(t, "return", h)
        BY <2>5 DEF Moves, Goto
      <3> HIDE DEF h
      <3> QED BY <1>0, <2>5, <3>1, <3>2, PlainStep
    <2>6. CASE /\ mutex' = t /\ Goto(t, "alloc")
               /\ fr' = [fr EXCEPT ![t] = [g EXCEPT !.partial = length, !.want = Want(t, c)]]
      <3> DEFINE h == [g EXCEPT !.partial = length, !.want = Want(t, c)]
      <3>1. Want(t, c) \in Nat
        <4> HIDE DEF c
        <4> QED BY <1>1, <1>2, <2>3, WantFacts DEF Sound
      <3> HIDE DEF g, c
      <3>2. h \in Frames
        <4>1. length \in 0 .. 4
          BY <2>3
        <4> QED BY ONLY <2>4, <3>1, <4>1 DEF Frames
      <3>3. /\ h.chain = c /\ h.partial = Len(c) /\ h.want = Want(t, c) /\ h.iblock = f.iblock
            /\ h.max = f.max /\ h.new = f.new /\ h.done = f.done
        BY <2>3, <2>4 DEF Frames
      <3>4. Moves(t, "alloc", h)
        BY <2>6 DEF Moves, Goto
      <3> HIDE DEF h
      <3> QED BY <1>0, <2>3, <2>6, <3>2, <3>3, <3>4, LockedInv
    <2> QED BY <1>5, <2>5, <2>6
  <1> QED BY <1>4, <1>5 DEF LockTree

\* A call that gives up leaves a disk that is sound.
LEMMA GiveUpInv ==
    ASSUME Inv, NEW t \in Tasks, pc[t] \in Holding, NEW err \in Errors, GiveUp(t, err),
           NEW lev \in Levels, Sound(lev)'
    PROVE  Inv'
  <1>0. PICK f : f = [fr[t] EXCEPT !.err = err, !.count = 0, !.new = <<>>]
    OBVIOUS
  <1>1. fr[t] \in Frames /\ DOMAIN fr = Tasks
    BY PathFacts
  <1>2. f \in Frames
    <2>1. <<>> \in Seq(Blocks) /\ 0 \in Nat
      OBVIOUS
    <2> QED BY <1>0, <1>1, <2>1 DEF Frames
  <1>3. Moves(t, "return", f)
    BY <1>0, <1>1 DEF GiveUp, Moves, Goto
  <1>4. "return" \in Labels /\ "return" \notin Holding
    BY DEF Labels, Holding, Mapping, Cutting
  <1>5. LocalOK("return", f) /\ HandOK(lev, "return", f)'
    BY DEF LocalOK, Walking, Mapping, HandOK
  <1>6. mutex \in {t, None} /\ ("return" \in Holding => mutex' = t)
    BY <1>4, Holder
  <1> QED BY <1>2, <1>3, <1>4, <1>5, <1>6, HolderStep

\* The new blocks go back to where they came from.
LEMMA NewBlocksFreed ==
    ASSUME NEW lev \in Levels, Sound(lev), NEW f \in Frames, NewOK(lev, f),
           free' = free \cup Range(f.new), UNCHANGED <<ptr, foreign>>
    PROVE  Sound(lev)'
  <1>1. f.new \in Seq(Blocks)
    BY FrameFields
  <1>2. \A b \in Range(f.new) : b \in Blocks /\ lev[b] = -1 /\ b \notin foreign
    <2> SUFFICES ASSUME NEW b \in Range(f.new) PROVE b \in Blocks /\ lev[b] = -1 /\ b \notin foreign
      OBVIOUS
    <2>1. PICK n \in 1 .. Len(f.new) : b = f.new[n]
      BY <1>1 DEF Range
    <2> QED BY <1>1, <2>1 DEF NewOK
  <1> HIDE DEF NewOK
  <1> QED BY <1>2 DEF Sound

\* One turn of the loop of kr_alloc_blocks.
LEMMA AllocBlocksInv == ASSUME Inv, NEW t \in Tasks, AllocBlocks(t) PROVE Inv'
  <1> DEFINE f == fr[t]
             k == Missing(t)
  <1>0. pc[t] = "alloc" /\ UNCHANGED <<ptr, foreign>> /\ pc[t] \in Holding
    BY DEF AllocBlocks, At, Holding, Mapping
  <1>1. f \in Frames /\ LocalOK("alloc", f) /\ DOMAIN fr = Tasks /\ Path(t) = Offsets(f.iblock)
    BY <1>0, PathFacts
  <1>2. PICK lev \in Levels : Sound(lev) /\ HandOK(lev, "alloc", f)
    BY <1>0 DEF Inv, LevelInv
  <1>3. NewOK(lev, f) /\ Len(f.new) <= k /\ k = Len(Offsets(f.iblock)) - f.partial
    BY <1>1, <1>2 DEF HandOK, Missing
  <1>4. CASE free' = free \cup Range(f.new) /\ GiveUp(t, "ENOSPC")
    <2>1. Sound(lev)'
      BY <1>0, <1>1, <1>2, <1>3, <1>4, NewBlocksFreed
    <2>2. "ENOSPC" \in Errors
      BY DEF Errors
    <2> QED BY <1>0, <1>4, <2>1, <2>2, GiveUpInv
  <1>5. ASSUME NEW run \in Runs(f.want),
               LET new == f.new \o [j \in 1 .. run[2] |-> run[1] + j - 1]
               IN  /\ free' = free \ Range(new)
                   /\ fr' = [fr EXCEPT ![t].new = new, ![t].want = @ - run[2]]
                   /\ Goto(t, IF Len(new) > Missing(t) THEN "setup" ELSE "alloc")
                   /\ UNCHANGED mutex
        PROVE  Inv'
    <2> DEFINE a == run[1]
               n == run[2]
               more == [j \in 1 .. n |-> a + j - 1]
               new == f.new \o more
    <2>0. PICK g, l : /\ g = [f EXCEPT !.new = new, !.want = f.want - n]
                      /\ l = IF Len(new) > k THEN "setup" ELSE "alloc"
      OBVIOUS
    <2>1. f.new \in Seq(Blocks) /\ f.want \in Nat
      BY <1>1, FrameFields
    <2>2. a \in Blocks /\ n \in 1 .. f.want /\ a .. a + n - 1 \subseteq free
      BY <1>5 DEF Runs
    <2>3. free \subseteq Blocks /\ free \cap foreign = {} /\ \A b \in free \cup foreign : lev[b] = -1
      BY <1>2 DEF Sound
    <2>4. n \in Nat /\ a \in Nat /\ f.want - n \in Nat
      BY <2>1, <2>2 DEF Blocks
    <2> HIDE DEF a, n
    <2>5. \A j \in 1 .. n : more[j] = a + j - 1 /\ more[j] \in free
      <3> SUFFICES ASSUME NEW j \in 1 .. n PROVE more[j] = a + j - 1 /\ more[j] \in free
        OBVIOUS
      <3>1. more[j] = a + j - 1
        OBVIOUS
      <3>2. a + j - 1 \in a .. a + n - 1
        BY <2>4
      <3> QED BY <2>2, <3>1, <3>2
    <2>6. more \in Seq(Blocks) /\ Len(more) = n
      <3>1. more \in [1 .. n -> Blocks]
        <4>1. more = [j \in 1 .. n |-> more[j]]
          OBVIOUS
        <4> HIDE DEF more
        <4> QED BY <2>3, <2>5, <4>1
      <3> HIDE DEF more
      <3> QED BY <2>4, <3>1
    <2> HIDE DEF more
    <2> DEFINE m == Len(f.new)
    <2>7. /\ new \in Seq(Blocks) /\ Len(new) = m + n /\ m \in Nat
          /\ \A j \in 1 .. m : new[j] = f.new[j]
          /\ \A j \in m + 1 .. m + n : new[j] = more[j - m]
      BY <2>1, <2>4, <2>6
    <2> HIDE DEF new, m
    <2>8. \A j \in m + 1 .. m + n : new[j] = a + (j - m) - 1 /\ new[j] \in free
      <3> SUFFICES ASSUME NEW j \in m + 1 .. m + n PROVE new[j] = a + (j - m) - 1 /\ new[j] \in free
        OBVIOUS
      <3>1. j - m \in 1 .. n /\ new[j] = more[j - m]
        BY <2>4, <2>7
      <3> QED BY <2>5, <3>1
    <2>9. \A j \in 1 .. m : new[j] \notin free \cup foreign /\ lev[new[j]] = -1
      BY <1>3, <2>7 DEF NewOK, m
    <2>10. \A j \in 1 .. m + n : j \in 1 .. m \/ j \in m + 1 .. m + n
      BY <2>4, <2>7
    <2>11. \A j \in 1 .. m + n : new[j] \notin foreign /\ lev[new[j]] = -1
      BY <2>3, <2>8, <2>9, <2>10
    <2>12. \A i, j \in 1 .. m + n : new[i] = new[j] => i = j
      <3> SUFFICES ASSUME NEW i \in 1 .. m + n, NEW j \in 1 .. m + n, new[i] = new[j] PROVE i = j
        OBVIOUS
      <3>1. CASE i \in 1 .. m /\ j \in 1 .. m
        BY <1>3, <2>7, <3>1 DEF NewOK, m
      <3>2. CASE i \in m + 1 .. m + n /\ j \in m + 1 .. m + n
        <4>1. a + (i - m) - 1 = a + (j - m) - 1
          BY <2>8, <3>2
        <4> QED BY <2>4, <2>7, <3>2, <4>1
      <3>3. CASE i \in 1 .. m /\ j \in m + 1 .. m + n
        BY <2>8, <2>9, <3>3
      <3>4. CASE j \in 1 .. m /\ i \in m + 1 .. m + n
        BY <2>8, <2>9, <3>4
      <3> QED BY <2>10, <3>1, <3>2, <3>3, <3>4
    <2>13. /\ free' = free \ Range(new)
           /\ fr' = [fr EXCEPT ![t].new = new, ![t].want = @ - n]
           /\ Goto(t, l) /\ UNCHANGED mutex
      BY <1>5, <2>0 DEF new, more, a, n
    <2>14. Range(new) = {new[j] : j \in 1 .. m + n}
      BY <2>7 DEF Range
    <2>15. Sound(lev)'
      BY <1>0, <1>2, <2>13 DEF Sound
    <2>16. g \in Frames /\ g.new = new /\ g.want = f.want - n /\ g.partial = f.partial
           /\ g.iblock = f.iblock /\ g.max = f.max /\ g.chain = f.chain /\ g.done = f.done
      BY <1>1, <2>0, <2>4, <2>7 DEF Frames
    <2>17. Moves(t, l, g)
      BY <1>1, <2>0, <2>13 DEF Moves, Goto
    <2>18. Len(g.new) + g.want = Len(f.new) + f.want
      <3> DEFINE want == f.want
      <3>1. Len(g.new) = m + n /\ g.want = want - n /\ m = Len(f.new) /\ want \in Nat
        BY <2>1, <2>7, <2>16 DEF m
      <3> HIDE DEF want
      <3>2. (m + n) + (want - n) = m + want
        BY <2>4, <2>7, <3>1
      <3> QED BY <3>1, <3>2 DEF want
    <2>19. \A j \in 1 .. Len(g.new) : lev[g.new[j]] = -1 /\ g.new[j] \notin free' \cup foreign'
      BY <1>0, <2>7, <2>11, <2>13, <2>14, <2>16
    <2>20. NewOK(lev, g)'
      <3>1. \A i, j \in 1 .. Len(g.new) : g.new[i] = g.new[j] => i = j
        BY <2>7, <2>12, <2>16
      <3> DEFINE path == Offsets(f.iblock)
                 w == f.chain[f.partial]
      <3>2. /\ f.partial \in 1 .. Len(path) /\ Len(f.chain) = f.partial
            /\ w.off = path[f.partial]
            /\ Spot(lev, w.bh, w.off, k)
            /\ k = 0 => \A d \in 0 .. Len(f.new) + f.want - 1 : Spot(lev, w.bh, w.off + d, k)
            /\ f.done = 0
        BY <1>3 DEF NewOK
      <3>3. Len(g.new) + g.want - 1 = Len(f.new) + f.want - 1
        <4> DEFINE gw == g.want  fw == f.want  gl == Len(g.new)  fl == Len(f.new)
        <4>1. gl + gw = fl + fw /\ gw \in Nat /\ fw \in Nat /\ gl \in Nat /\ fl \in Nat
          BY <2>1, <2>4, <2>7, <2>16, <2>18
        <4> HIDE DEF gw, fw, gl, fl
        <4>2. gl + gw - 1 = fl + fw - 1
          BY <4>1
        <4> QED BY <4>2 DEF gw, fw, gl, fl
      <3> HIDE DEF k
      <3>4. /\ Offsets(g.iblock) = path /\ g.chain[g.partial] = w /\ g.partial = f.partial
            /\ g.chain = f.chain /\ g.done = f.done /\ Len(path) - f.partial = k
        BY <1>3, <2>16
      <3> HIDE DEF path, w
      <3>5. k = 0 => \A d \in 0 .. Len(g.new) + g.want - 1 : Spot(lev, w.bh, w.off + d, k)
        BY <3>2, <3>3
      <3> QED BY <2>19, <3>1, <3>2, <3>4, <3>5 DEF NewOK
    <2>21. LocalOK(l, g)
      BY <1>1, <2>0, <2>16 DEF LocalOK, Walking, Mapping
    <2>22. l = "alloc" => Len(g.new) <= Len(Offsets(g.iblock)) - g.partial
      <3>1. k \in Int
        BY <1>1, <1>3, PathFacts, FrameFields
      <3> QED BY <1>3, <2>0, <2>4, <2>7, <2>16, <3>1
    <2>23. l = "setup" => RunOK(g)
      <3> SUFFICES ASSUME Len(new) > k PROVE RunOK(g)
        BY <2>0
      <3>1. k \in Int /\ m <= k
        BY <1>1, <1>3, PathFacts, FrameFields DEF m
      <3>2. Len(g.new) > k /\ Len(Offsets(g.iblock)) - g.partial = k /\ Len(g.new) = m + n
        BY <1>3, <2>7, <2>16
      <3> HIDE DEF k
      <3>3. ASSUME NEW d \in 0 .. Len(g.new) - k - 1 PROVE g.new[k + 1 + d] = g.new[k + 1] + d
        <4> DEFINE i == k + 1
                   j == k + 1 + d
        <4>1. d \in 0 .. ((m + n) - k) - 1
          BY <3>2
        <4>2. i \in m + 1 .. m + n /\ j \in m + 1 .. m + n /\ j = i + d /\ d \in Int
          BY <2>4, <2>7, <3>1, <4>1
        <4> HIDE DEF i, j
        <4>3. new[j] = a + (j - m) - 1 /\ new[i] = a + (i - m) - 1
          BY <2>8, <4>2
        <4>4. new[j] = new[i] + d
          BY <2>4, <2>7, <4>2, <4>3
        <4> QED BY <2>16, <4>4 DEF i, j
      <3> QED BY <3>2, <3>3 DEF RunOK
    <2>26. l \in {"alloc", "setup"}
      BY <2>0
    <2>24. HandOK(lev, l, g)'
      <3>1. (l = "setup" => RunOK(g))' /\ (l = "alloc" => Len(g.new) <= Len(Offsets(g.iblock)) - g.partial)'
        BY <2>22, <2>23 DEF RunOK
      <3> QED BY <2>20, <2>26, <3>1 DEF HandOK
    <2>25. l \in Labels /\ mutex \in {t, None} /\ (l \in Holding => mutex' = t)
      BY <1>0, <2>13, <2>26, Holder DEF Labels, Mapping
    <2> QED BY <2>15, <2>16, <2>17, <2>21, <2>24, <2>25, HolderStep
  <1> QED BY <1>4, <1>5 DEF AllocBlocks

\* The indirect blocks of a new branch: each leads to the next, the last to the data.
NewBranch(p, q, N, k, off) ==
    /\ DOMAIN q = Nodes
    /\ \A x \in Nodes : (\A n \in 1 .. k : N[n] # x) => q[x] = p[x]
    /\ \A n \in 1 .. k :
         /\ off[n] \in Nat
         /\ q[N[n]] \in [Digit -> 0 .. NBlocks]
         /\ \A o \in Digit : q[N[n]][o] # 0 =>
              /\ (n + 1) + (o - off[n]) \in n + 1 .. Len(N)
              /\ q[N[n]][o] = N[(n + 1) + (o - off[n])]
              /\ n < k => o = off[n]

\* Levels lv for the pointers q with the blocks of N set up: the old ones elsewhere, and in
\* N the heights over the data, of which the k first lead to the next.
Grafted(q, lev, N, k, lv) ==
    /\ Tree(q, lv)
    /\ \A b \in Blocks : (\A n \in 1 .. Len(N) : N[n] # b) => lv[b] = lev[b]
    /\ \A n \in 1 .. Len(N) : lv[N[n]] = IF n <= k THEN (k - n) + 1 ELSE 0
    /\ Loose(q, lv, N[1])
    /\ k = 0 => \A n \in 1 .. Len(N) : Loose(q, lv, N[n])

\* A branch of blocks that had no level can be given levels; nothing leads to its top.
LEMMA BranchGrafted ==
    ASSUME NEW p, NEW lev, Tree(p, lev), NEW k \in 0 .. 3, NEW N \in Seq(Blocks), Len(N) > k,
           \A n \in 1 .. Len(N) : lev[N[n]] = -1,
           \A n, m \in 1 .. Len(N) : N[n] = N[m] => n = m,
           NEW q, NEW off, NewBranch(p, q, N, k, off)
    PROVE  \E lv \in Levels : Grafted(q, lev, N, k, lv)
  <1>0. PICK L \in Nat : Len(N) = L
    OBVIOUS
  <1> DEFINE Ix(b) == CHOOSE n \in 1 .. L : N[n] = b
             In(b) == \E n \in 1 .. L : N[n] = b
             H(n) == IF n <= k THEN (k - n) + 1 ELSE 0
             lv == [b \in Blocks |-> IF In(b) THEN H(Ix(b)) ELSE lev[b]]
  <1>1. \A n \in 1 .. L : N[n] \in Blocks /\ lev[N[n]] = -1 /\ In(N[n]) /\ Ix(N[n]) = n
    <2> SUFFICES ASSUME NEW n \in 1 .. L PROVE N[n] \in Blocks /\ lev[N[n]] = -1 /\ In(N[n]) /\ Ix(N[n]) = n
      OBVIOUS
    <2>1. N[n] \in Blocks /\ lev[N[n]] = -1 /\ In(N[n])
      BY <1>0
    <2>2. Ix(N[n]) \in 1 .. L /\ N[Ix(N[n])] = N[n]
      BY <2>1
    <2> QED BY <1>0, <2>1, <2>2
  <1>2. \A n \in 1 .. L : H(n) \in 0 .. 3 /\ (n <= k => H(n) = (k - n) + 1) /\ (n > k => H(n) = 0)
    BY <1>0
  <1>3. lev \in [Blocks -> -1 .. 3]
    BY DEF Tree, Levels
  <1>4. lv \in Levels
    <2> SUFFICES ASSUME NEW b \in Blocks PROVE (IF In(b) THEN H(Ix(b)) ELSE lev[b]) \in -1 .. 3
      BY DEF Levels
    <2>1. CASE In(b)
      <3>1. PICK n \in 1 .. L : N[n] = b
        BY <2>1
      <3>2. Ix(b) = n
        BY <1>1, <3>1
      <3> HIDE DEF H, Ix, In
      <3>3. H(n) \in 0 .. 3
        BY <1>2
      <3> QED BY <2>1, <3>2, <3>3
    <2>2. CASE ~In(b)
      BY <1>3, <2>2
    <2> QED BY <2>1, <2>2
  <1>5. \A b \in Blocks : ~In(b) => lv[b] = lev[b]
    OBVIOUS
  <1>6. \A n \in 1 .. L : lv[N[n]] = H(n)
    <2> HIDE DEF H, Ix, In
    <2> QED BY <1>1
  <1> HIDE DEF lv, Ix, H
  <1>7. ASSUME NEW x \in Nodes, Leads(lv, x), \A n \in 1 .. k : N[n] # x
        PROVE  /\ Leads(lev, x) /\ q[x] = p[x]
               /\ \A o \in Slots(x) : /\ Down(lv, x, o) = Down(lev, x, o)
                                      /\ p[x][o] # 0 => /\ p[x][o] \in Blocks /\ ~In(p[x][o])
                                                        /\ lv[p[x][o]] = Down(lev, x, o)
    <2>1. q[x] = p[x]
      BY <1>7 DEF NewBranch
    <2>2. x = Inode \/ (x \in Blocks /\ ~In(x) /\ lv[x] = lev[x] /\ lev[x] >= 1)
      <3> SUFFICES ASSUME x # Inode PROVE x \in Blocks /\ ~In(x) /\ lv[x] = lev[x] /\ lev[x] >= 1
        OBVIOUS
      <3>1. x \in Blocks /\ lv[x] >= 1
        BY <1>7, NodeFacts DEF Leads
      <3>2. ASSUME In(x) PROVE FALSE
        <4>1. PICK n \in 1 .. L : N[n] = x
          BY <3>2
        <4>2. ~(n \in 1 .. k)
          BY <1>7, <4>1
        <4>3. n > k
          BY <1>0, <4>2
        <4> QED BY <1>2, <1>6, <3>1, <4>1, <4>3
      <3> QED BY <1>5, <3>1, <3>2
    <2>3. Leads(lev, x)
      BY <2>2 DEF Leads
    <2>4. ASSUME NEW o \in Slots(x)
          PROVE  /\ Down(lv, x, o) = Down(lev, x, o)
                 /\ p[x][o] # 0 => /\ p[x][o] \in Blocks /\ ~In(p[x][o])
                                   /\ lv[p[x][o]] = Down(lev, x, o)
      <3>1. Down(lv, x, o) = Down(lev, x, o)
        BY <2>2 DEF Down
      <3>2. p[x][o] # 0 => p[x][o] \in Blocks /\ lev[p[x][o]] = Down(lev, x, o)
        BY <2>3, EdgeFacts
      <3>3. Down(lev, x, o) >= 0
        <4>1. CASE x = Inode
          BY <4>1, NodeFacts, PtrsNat DEF Down, SlotDepth, TIND
        <4>2. CASE x # Inode
          BY <1>3, <2>2, <4>2 DEF Down
        <4> QED BY <4>1, <4>2
      <3>4. p[x][o] # 0 => ~In(p[x][o])
        BY <1>1, <3>2, <3>3
      <3> QED BY <1>5, <3>1, <3>2, <3>4
    <2> QED BY <2>1, <2>3, <2>4
  <1>8. ASSUME NEW n \in 1 .. k
        PROVE  /\ n \in 1 .. L /\ N[n] \in Blocks /\ N[n] # Inode /\ Slots(N[n]) = Digit /\ lv[N[n]] = (k - n) + 1
               /\ off[n] \in Nat /\ q[N[n]] \in [Digit -> 0 .. NBlocks]
               /\ \A o \in Digit : q[N[n]][o] # 0 =>
                    LET m == (n + 1) + (o - off[n])
                    IN  /\ m \in n + 1 .. L /\ q[N[n]][o] = N[m] /\ (n < k => o = off[n])
                        /\ lv[N[m]] = lv[N[n]] - 1
    <2>1. n \in 1 .. L /\ n <= k
      BY <1>0
    <2>2. N[n] \in Blocks /\ N[n] # Inode /\ Slots(N[n]) = Digit /\ lv[N[n]] = (k - n) + 1
      BY <1>1, <1>2, <1>6, <2>1, NodeFacts
    <2>3. off[n] \in Nat /\ q[N[n]] \in [Digit -> 0 .. NBlocks]
      BY DEF NewBranch
    <2>4. ASSUME NEW o \in Digit, q[N[n]][o] # 0
          PROVE  LET m == (n + 1) + (o - off[n])
                 IN  /\ m \in n + 1 .. L /\ q[N[n]][o] = N[m] /\ (n < k => o = off[n])
                     /\ lv[N[m]] = lv[N[n]] - 1
      <3> DEFINE m == (n + 1) + (o - off[n])
      <3>1. m \in n + 1 .. L /\ q[N[n]][o] = N[m] /\ (n < k => o = off[n])
        BY <1>0, <2>4 DEF NewBranch
      <3>2. n < k => m = n + 1
        BY <2>3, <3>1 DEF Digit
      <3> HIDE DEF m
      <3>3. m \in 1 .. L /\ lv[N[m]] = H(m)
        BY <1>6, <3>1
      <3>4. H(m) = k - n
        <4>1. CASE n < k
          <5>1. m = n + 1 /\ m <= k /\ m \in 1 .. L
            BY <3>2, <3>3, <4>1
          <5>2. H(m) = (k - m) + 1
            BY <1>2, <5>1
          <5> QED BY ONLY <5>1, <5>2, k \in 0 .. 3, n \in 1 .. k
        <4>2. CASE n = k
          BY <1>2, <3>1, <3>3, <4>2
        <4> QED BY <2>1, <4>1, <4>2
      <3>5. lv[N[m]] = lv[N[n]] - 1
        BY <2>2, <3>3, <3>4
      <3> QED BY <3>1, <3>5 DEF m
    <2> QED BY <2>1, <2>2, <2>3, <2>4
  <1>9. IsPointers(q)
    <2>1. \A x \in Nodes : q[x] \in [Slots(x) -> 0 .. NBlocks]
      <3> SUFFICES ASSUME NEW x \in Nodes PROVE q[x] \in [Slots(x) -> 0 .. NBlocks]
        OBVIOUS
      <3>1. CASE \E n \in 1 .. k : N[n] = x
        BY <1>8, <3>1
      <3>2. CASE \A n \in 1 .. k : N[n] # x
        BY <3>2 DEF NewBranch, Tree, IsPointers
      <3> QED BY <3>1, <3>2
    <2> QED BY <2>1 DEF IsPointers, NewBranch
  <1> DEFINE Old(x) == \A n \in 1 .. k : N[n] # x
  <1>10. ASSUME NEW x \in Nodes, NEW o \in Slots(x), Leads(lv, x), q[x][o] # 0
         PROVE  /\ q[x][o] \in Blocks /\ lv[q[x][o]] = Down(lv, x, o)
                /\ Old(x) => Leads(lev, x) /\ q[x] = p[x] /\ ~In(q[x][o])
                /\ ~Old(x) => In(q[x][o]) /\ q[x][o] # N[1]
    <2>1. CASE Old(x)
      BY <1>7, <1>10, <2>1
    <2>2. CASE ~Old(x)
      <3>1. PICK n \in 1 .. k : N[n] = x
        BY <2>2
      <3>2. o \in Digit
        BY <1>8, <3>1
      <3> DEFINE m == (n + 1) + (o - off[n])
      <3>3. /\ m \in n + 1 .. L /\ q[x][o] = N[m] /\ lv[N[m]] = lv[N[n]] - 1
            /\ x # Inode
        BY <1>8, <1>10, <3>1, <3>2
      <3> HIDE DEF m
      <3>4. m \in 1 .. L /\ m # 1 /\ 1 \in 1 .. L
        BY <1>0, <3>3
      <3>5. N[m] # N[1]
        BY <1>0, <3>4
      <3> QED BY <1>1, <2>2, <3>1, <3>3, <3>4, <3>5 DEF Down
    <2> QED BY <2>1, <2>2
  <1>11. ASSUME NEW x \in Nodes, NEW y \in Nodes, NEW o \in Slots(x), NEW r \in Slots(y),
                Leads(lv, x), Leads(lv, y), q[x][o] # 0, q[x][o] = q[y][r]
         PROVE  x = y /\ o = r
    <2>1. CASE Old(x) /\ Old(y)
      <3>1. Leads(lev, x) /\ Leads(lev, y) /\ q[x] = p[x] /\ q[y] = p[y]
        BY <1>7, <1>11, <2>1
      <3>2. p[x][o] # 0 /\ p[x][o] = p[y][r]
        BY <1>11, <3>1
      <3> QED BY <3>1, <3>2, EdgeFacts
    <2>2. CASE Old(x) # Old(y)
      BY <1>10, <1>11, <2>2
    <2>3. CASE ~Old(x) /\ ~Old(y)
      <3>1. PICK n \in 1 .. k : N[n] = x
        BY <2>3
      <3>2. PICK s \in 1 .. k : N[s] = y
        BY <2>3
      <3>3. o \in Digit /\ r \in Digit
        BY <1>8, <3>1, <3>2
      <3> DEFINE a == (n + 1) + (o - off[n])
                 b == (s + 1) + (r - off[s])
      <3>4. a \in n + 1 .. L /\ q[x][o] = N[a] /\ (n < k => o = off[n]) /\ off[n] \in Nat
        BY <1>8, <1>11, <3>1, <3>3
      <3>5. b \in s + 1 .. L /\ q[y][r] = N[b] /\ (s < k => r = off[s]) /\ off[s] \in Nat
        BY <1>8, <1>11, <3>2, <3>3
      <3>6. (n < k => a = n + 1) /\ (s < k => b = s + 1)
        BY <3>3, <3>4, <3>5 DEF Digit
      <3>7. a = b
        <4> HIDE DEF a, b
        <4>1. a \in 1 .. L /\ b \in 1 .. L
          BY <1>0, <3>4, <3>5
        <4>2. N[a] = N[b]
          BY <1>11, <3>4, <3>5, Zenon
        <4> QED BY <1>0, <4>1, <4>2
      <3>8. n = s
        <4> HIDE DEF a, b
        <4> QED BY <3>4, <3>5, <3>6, <3>7
      <3>9. o = r
        BY <3>3, <3>4, <3>7, <3>8 DEF Digit
      <3> QED BY <3>1, <3>2, <3>8, <3>9
    <2> QED BY <2>1, <2>2, <2>3
  <1>12. Levelled(q, lv)
    <2> HIDE DEF Old
    <2>1. \A x \in Nodes : \A o \in Slots(x) :
            (Leads(lv, x) /\ q[x][o] # 0) => lv[q[x][o]] = IF x = Inode THEN SlotDepth(o) ELSE lv[x] - 1
      BY <1>10 DEF Down
    <2> QED BY <1>11, <2>1 DEF Levelled
  <1>13. Loose(q, lv, N[1])
    <2> SUFFICES ASSUME NEW x \in Nodes, NEW o \in Slots(x), Leads(lv, x), q[x][o] = N[1] PROVE FALSE
      BY DEF Loose
    <2>1. 1 \in 1 .. L /\ N[1] # 0 /\ In(N[1])
      BY <1>0, <1>1, NodeFacts
    <2> QED BY <1>10, <2>1
  <1>14. k = 0 => \A n \in 1 .. L : Loose(q, lv, N[n])
    <2> SUFFICES ASSUME k = 0, NEW n \in 1 .. L, NEW x \in Nodes, NEW o \in Slots(x), Leads(lv, x), q[x][o] = N[n]
                 PROVE  FALSE
      BY DEF Loose
    <2>1. N[n] # 0 /\ In(N[n]) /\ Old(x)
      BY <1>1, NodeFacts
    <2> QED BY <1>10, <2>1
  <1>15. Tree(q, lv)
    BY <1>4, <1>9, <1>12 DEF Tree
  <1>16. \A n \in 1 .. Len(N) : lv[N[n]] = IF n <= k THEN (k - n) + 1 ELSE 0
    BY <1>0, <1>6 DEF H
  <1>17. \A b \in Blocks : (\A n \in 1 .. Len(N) : N[n] # b) => lv[b] = lev[b]
    BY <1>0, <1>5
  <1>18. Grafted(q, lev, N, k, lv)
    BY <1>0, <1>13, <1>14, <1>15, <1>16, <1>17 DEF Grafted
  <1> QED BY <1>4, <1>18

\* What slot o of the new indirect block number n of k holds.
NewCell(N, k, off, n, o) ==
    IF o = off[n] THEN N[n + 1]
    ELSE IF n = k /\ o \in off[n] .. off[n] + (Len(N) - k) - 1 THEN N[k + 1] + o - off[n]
    ELSE 0

\* q has the new blocks with these contents, and the other nodes as in p.
NewCells(p, q, N, k, off) ==
    /\ \A x \in Nodes : (\A n \in 1 .. k : N[n] # x) => q[x] = p[x]
    /\ \A n \in 1 .. k : off[n] \in Digit /\ q[N[n]] = [o \in Digit |-> NewCell(N, k, off, n, o)]

\* What kr_alloc_branch writes, and where.
LEMMA NewPointersCells ==
    ASSUME NEW t \in Tasks, NEW f \in Frames, fr[t] = f, NEW lev, Tree(ptr, lev), NewOK(lev, f), RunOK(f),
           NEW path, path = Path(t), NEW k \in 0 .. 3, k = Len(path) - f.partial, IsPath(path),
           NEW q, q = [b \in Nodes |-> IF b \in DOMAIN NewPointers(t) THEN NewPointers(t)[b] ELSE ptr[b]],
           NEW off, off = [n \in 1 .. k |-> path[f.partial + n]]
    PROVE  NewCells(ptr, q, f.new, k, off)
  <1> DEFINE N == f.new
             K == Range(SubSeq(N, 1, k))
             new == NewPointers(t)
             Ix(b) == CHOOSE m \in 1 .. k : N[m] = b
             Cell(n, o) == IF o = path[f.partial + n] THEN N[n + 1]
                           ELSE IF n = k /\ o \in path[f.partial + n] .. path[f.partial + n] + (Len(N) - k) - 1
                           THEN N[k + 1] + o - path[f.partial + n]
                           ELSE 0
  <1>0. path = Offsets(f.iblock)
    BY DEF Path
  <1>1. N \in Seq(Blocks) /\ f.partial \in 1 .. Len(path)
    BY <1>0, FrameFields DEF NewOK
  <1>2. PICK L \in Nat : Len(N) = L
    BY <1>1
  <1>3. /\ L > k /\ \A d \in 0 .. L - k - 1 : N[k + 1 + d] = N[k + 1] + d
        /\ \A n, m \in 1 .. L : N[n] = N[m] => n = m
    <2>1. k = Len(Offsets(f.iblock)) - f.partial
      BY <1>0
    <2>2. Len(N) > k /\ \A d \in 0 .. Len(N) - k - 1 : N[k + 1 + d] = N[k + 1] + d
      BY ONLY <2>1, RunOK(f), Zenon DEF RunOK
    <2>3. \A n, m \in 1 .. Len(N) : N[n] = N[m] => n = m
      BY DEF NewOK
    <2> QED BY ONLY <1>2, <2>2, <2>3
  <1>4. \A n \in 1 .. L : N[n] \in Blocks
    BY <1>1, <1>2
  <1>5. K = {N[j] : j \in 1 .. k}
    <2> DEFINE T == SubSeq(N, 1, k)
    <2>1. Len(T) = k /\ DOMAIN T = 1 .. k /\ \A j \in 1 .. k : T[j] = N[j]
      BY <1>1, <1>2, <1>3
    <2> HIDE DEF T
    <2>2. Range(T) = {N[j] : j \in 1 .. k}
      BY <2>1 DEF Range
    <2> QED BY <2>2 DEF T
  <1>6. new = [b \in K |-> [o \in 0 .. Ptrs - 1 |-> Cell(Ix(b), o)]]
    BY DEF NewPointers, Missing
  <1>7. ASSUME NEW n \in 1 .. k
        PROVE  N[n] \in K /\ N[n] \in Nodes /\ Ix(N[n]) = n /\ n \in 1 .. L
    <2>0. n \in 1 .. L
      BY ONLY <1>3, L \in Nat, k \in 0 .. 3, n \in 1 .. k
    <2>1. n \in 1 .. L /\ N[n] \in K
      BY ONLY <1>5, <2>0, n \in 1 .. k
    <2>2. Ix(N[n]) \in 1 .. k /\ N[Ix(N[n])] = N[n]
      OBVIOUS
    <2>3. Ix(N[n]) \in 1 .. L
      BY <1>2, <1>3, <2>2
    <2> QED BY <1>3, <1>4, <2>1, <2>2, <2>3, NodeFacts
  <1> HIDE DEF K, new, Ix, Cell
  <1>8. ASSUME NEW x \in Nodes, \A n \in 1 .. k : N[n] # x PROVE q[x] = ptr[x]
    <2>1. x \notin K
      BY <1>5, <1>8
    <2>2. x \notin DOMAIN new
      BY <1>6, <2>1
    <2> QED BY <2>2 DEF new
  <1>9. ASSUME NEW n \in 1 .. k PROVE q[N[n]] = [o \in Digit |-> Cell(n, o)]
    <2>1. N[n] \in DOMAIN new /\ new[N[n]] = [o \in 0 .. Ptrs - 1 |-> Cell(n, o)]
      BY <1>6, <1>7
    <2> QED BY <1>7, <2>1 DEF new, Digit
  <1>10. ASSUME NEW n \in 1 .. k PROVE off[n] \in Digit /\ off[n] = path[f.partial + n]
    <2>1. PICK len \in 1 .. 4 : Len(path) = len
      BY DEF IsPath
    <2> DEFINE part == f.partial
    <2>2. part \in 1 .. len /\ part + n \in 2 .. len
      <3>1. part \in 1 .. len /\ k = len - part
        BY <1>1, <2>1
      <3> HIDE DEF part
      <3> QED BY ONLY <3>1, n \in 1 .. k, len \in 1 .. 4, k \in 0 .. 3
    <2> QED BY <2>1, <2>2 DEF IsPath
  <1>11. ASSUME NEW n \in 1 .. k PROVE \A o \in Digit : Cell(n, o) = NewCell(N, k, off, n, o)
    BY <1>10 DEF Cell, NewCell
  <1>12. \A n \in 1 .. k : q[N[n]] = [o \in Digit |-> NewCell(N, k, off, n, o)]
    <2> SUFFICES ASSUME NEW n \in 1 .. k PROVE q[N[n]] = [o \in Digit |-> NewCell(N, k, off, n, o)]
      OBVIOUS
    <2>1. \A o \in Digit : Cell(n, o) = NewCell(N, k, off, n, o)
      BY <1>11
    <2>2. q[N[n]] = [o \in Digit |-> Cell(n, o)]
      BY <1>9
    <2> QED BY ONLY <2>1, <2>2, Zenon
  <1>13. \A n \in 1 .. k : off[n] \in Digit
    BY <1>10
  <1>14. \A x \in Nodes : (\A n \in 1 .. k : N[n] # x) => q[x] = ptr[x]
    BY <1>8
  <1> QED BY ONLY <1>12, <1>13, <1>14, Zenon DEF NewCells

\* What kr_alloc_branch writes in the new indirect blocks is such a branch.
LEMMA NewPointersBranch ==
    ASSUME NEW t \in Tasks, NEW f \in Frames, fr[t] = f, NEW lev, Tree(ptr, lev), NewOK(lev, f), RunOK(f),
           NEW path, path = Path(t), NEW k \in 0 .. 3, k = Len(path) - f.partial, IsPath(path),
           NEW q, q = [b \in Nodes |-> IF b \in DOMAIN NewPointers(t) THEN NewPointers(t)[b] ELSE ptr[b]],
           NEW off, off = [n \in 1 .. k |-> path[f.partial + n]]
    PROVE  NewBranch(ptr, q, f.new, k, off)
  <1> DEFINE N == f.new
             data == Len(N) - k
             Cell(n, o) == NewCell(N, k, off, n, o)
  <1>0. path = Offsets(f.iblock)
    BY DEF Path
  <1>1. N \in Seq(Blocks)
    BY FrameFields
  <1>2. PICK L \in Nat : Len(N) = L
    BY <1>1
  <1>3. /\ L > k /\ \A d \in 0 .. L - k - 1 : N[k + 1 + d] = N[k + 1] + d
        /\ \A n, m \in 1 .. L : N[n] = N[m] => n = m
    <2>1. k = Len(Offsets(f.iblock)) - f.partial
      BY <1>0
    <2>2. Len(N) > k /\ \A d \in 0 .. Len(N) - k - 1 : N[k + 1 + d] = N[k + 1] + d
      BY ONLY <2>1, RunOK(f), Zenon DEF RunOK
    <2>3. \A n, m \in 1 .. Len(N) : N[n] = N[m] => n = m
      BY DEF NewOK
    <2> QED BY ONLY <1>2, <2>2, <2>3
  <1>4. \A n \in 1 .. L : N[n] \in Blocks
    BY <1>1, <1>2
  <1>8. NewCells(ptr, q, N, k, off)
    BY NewPointersCells
  <1>9. \A n \in 1 .. k : q[N[n]] = [o \in Digit |-> Cell(n, o)]
    BY <1>8 DEF NewCells
  <1>10. \A n \in 1 .. k : off[n] \in Digit
    BY <1>8 DEF NewCells
  <1> HIDE DEF Cell
  <1>11. ASSUME NEW n \in 1 .. k, NEW o \in Digit
         PROVE  /\ Cell(n, o) \in 0 .. NBlocks
                /\ Cell(n, o) # 0 =>
                     /\ (n + 1) + (o - off[n]) \in n + 1 .. Len(N)
                     /\ Cell(n, o) = N[(n + 1) + (o - off[n])]
                     /\ n < k => o = off[n]
    <2> DEFINE a == off[n]
    <2>1. a \in Digit
      BY <1>10
    <2> HIDE DEF a
    <2>3. a \in Int /\ o \in Int /\ n \in Int /\ data = L - k
      BY <1>2, <2>1, PtrsNat DEF Digit
    <2>2. Cell(n, o) = IF o = a THEN N[n + 1]
                       ELSE IF n = k /\ o \in a .. a + data - 1 THEN N[k + 1] + (o - a) ELSE 0
      BY <2>3 DEF Cell, NewCell, a
    <2> HIDE DEF data
    <2>4. CASE o = a
      <3>1. Cell(n, o) = N[n + 1] /\ n + 1 \in 1 .. L
        BY <1>3, <2>2, <2>4
      <3>2. (n + 1) + (o - a) = n + 1
        BY <2>3, <2>4
      <3>3. N[n + 1] \in 0 .. NBlocks
        BY <1>4, <3>1 DEF Blocks
      <3>4. n + 1 \in n + 1 .. Len(N)
        BY <1>2, <3>1
      <3> QED BY <2>4, <3>1, <3>2, <3>3, <3>4 DEF a
    <2>5. CASE o # a /\ n = k /\ o \in a .. a + data - 1
      <3> DEFINE d == o - a
      <3>1. d \in 0 .. L - k - 1 /\ (n + 1) + d = k + 1 + d
        BY <1>2, <2>3, <2>5
      <3>2. Cell(n, o) = N[k + 1] + d
        BY <2>2, <2>5
      <3> HIDE DEF d
      <3>3. Cell(n, o) = N[k + 1 + d] /\ k + 1 + d \in 1 .. L /\ k + 1 + d \in n + 1 .. L
        <4>1. k + 1 + d \in 1 .. L /\ k + 1 + d \in n + 1 .. L
          BY ONLY <1>3, <2>5, <3>1, L \in Nat, k \in 0 .. 3, n \in 1 .. k
        <4>2. Cell(n, o) = N[k + 1 + d]
          BY <1>3, <3>1, <3>2, Zenon
        <4> QED BY <4>1, <4>2
      <3>4. Cell(n, o) \in 0 .. NBlocks
        BY <1>4, <3>3 DEF Blocks
      <3>5. (n + 1) + d \in n + 1 .. Len(N) /\ Cell(n, o) = N[(n + 1) + d]
        BY <1>2, <3>1, <3>3
      <3> QED BY <2>5, <3>4, <3>5 DEF a, d
    <2>6. CASE o # a /\ ~(n = k /\ o \in a .. a + data - 1)
      <3>1. Cell(n, o) = 0
        BY <2>2, <2>6
      <3> QED BY <3>1, MapAssumption
    <2> QED BY <2>4, <2>5, <2>6
  <1>12. ASSUME NEW n \in 1 .. k
         PROVE  /\ off[n] \in Nat /\ q[N[n]] \in [Digit -> 0 .. NBlocks]
                /\ \A o \in Digit : q[N[n]][o] # 0 =>
                     /\ (n + 1) + (o - off[n]) \in n + 1 .. Len(N)
                     /\ q[N[n]][o] = N[(n + 1) + (o - off[n])]
                     /\ n < k => o = off[n]
    <2>1. off[n] \in Nat
      BY ONLY <1>10, PtrsNat, n \in 1 .. k DEF Digit
    <2>2. q[N[n]] \in [Digit -> 0 .. NBlocks] /\ \A o \in Digit : q[N[n]][o] = Cell(n, o)
      BY ONLY <1>9, <1>11, n \in 1 .. k
    <2>3. \A o \in Digit : Cell(n, o) # 0 =>
                     /\ (n + 1) + (o - off[n]) \in n + 1 .. Len(N)
                     /\ Cell(n, o) = N[(n + 1) + (o - off[n])]
                     /\ n < k => o = off[n]
      BY ONLY <1>11, n \in 1 .. k
    <2> QED BY ONLY <2>1, <2>2, <2>3, Zenon
  <1> QED BY <1>8, <1>12 DEF NewBranch, NewCells

\* The chain of a branch that is set up.
ExtendedChain(c, partial, k, N, off) ==
    [c EXCEPT ![partial].key = N[1]] \o
        [n \in 1 .. k |-> [bh |-> N[n], off |-> off[n], key |-> N[n + 1]]]

\* It is a chain, and its link number partial leads to the branch.
LeadsToBranch(d, c, partial, N) ==
    /\ d \in Seq(Links) /\ partial \in 1 .. Len(d)
    /\ d[partial].key = N[1] /\ d[partial].bh = c[partial].bh /\ d[partial].off = c[partial].off

\* The chain of a branch that is set up is one.
LEMMA ChainExtended ==
    ASSUME NEW c \in Seq(Links), NEW partial \in 1 .. 4, Len(c) = partial, NEW k \in 0 .. 3,
           NEW N \in Seq(Blocks), Len(N) > k, NEW off \in [1 .. k -> Nat],
           NEW d, d = ExtendedChain(c, partial, k, N, off)
    PROVE  LeadsToBranch(d, c, partial, N)
  <1>0. PICK L \in Nat : Len(N) = L
    OBVIOUS
  <1> DEFINE links == [n \in 1 .. k |-> [bh |-> N[n], off |-> off[n], key |-> N[n + 1]]]
  <1>1. \A n \in 1 .. L : N[n] \in Blocks /\ N[n] \in Nodes /\ N[n] \in 0 .. NBlocks
    BY <1>0, NodeFacts, MapAssumption DEF Blocks
  <1>2. links \in Seq(Links) /\ Len(links) = k
    <2>1. \A n \in 1 .. k : n \in 1 .. L /\ n + 1 \in 1 .. L
      BY <1>0
    <2>2. \A n \in 1 .. k : [bh |-> N[n], off |-> off[n], key |-> N[n + 1]] \in Links
      BY <1>1, <2>1 DEF Links
    <2>3. links \in [1 .. k -> Links]
      BY <2>2
    <2> QED BY <2>3
  <1>3. c[partial] \in Links /\ N[1] \in 0 .. NBlocks
    BY <1>0, <1>1
  <1> DEFINE w == [c[partial] EXCEPT !.key = N[1]]
             e == [c EXCEPT ![partial] = w]
  <1>4. w \in Links /\ w.key = N[1] /\ w.bh = c[partial].bh /\ w.off = c[partial].off
    BY <1>3 DEF Links
  <1>5. e = [c EXCEPT ![partial].key = N[1]]
    BY <1>3
  <1> HIDE DEF w
  <1>6. e \in Seq(Links) /\ Len(e) = partial /\ e[partial] = w
    BY <1>4
  <1> HIDE DEF e
  <1>7. d = e \o links
    BY <1>5 DEF ExtendedChain
  <1> HIDE DEF links
  <1>8. d \in Seq(Links) /\ Len(d) = partial + k /\ d[partial] = w
    BY ONLY <1>2, <1>6, <1>7, partial \in 1 .. 4, k \in 0 .. 3
  <1> QED BY <1>4, <1>8 DEF LeadsToBranch

\* The rest of kr_alloc_branch: the new blocks point to one another.
LEMMA SetUpBranchInv == ASSUME Inv, NEW t \in Tasks, SetUpBranch(t) PROVE Inv'
  <1>0. pc[t] = "setup" /\ foreign' = foreign /\ pc[t] \in Holding
    BY DEF SetUpBranch, At, Holding, Mapping
  <1>8. PICK f \in Frames : f = fr[t] /\ Path(t) = Offsets(f.iblock)
    BY PathFacts
  <1>9. PICK path : path = Path(t)
    OBVIOUS
  <1>1. f = fr[t] /\ path = Path(t) /\ path = Offsets(f.iblock)
    BY <1>8, <1>9
  <1>2. LocalOK("setup", f) /\ DOMAIN fr = Tasks /\ IsPath(path)
    BY <1>0, <1>1, PathFacts
  <1>3. PICK lev \in Levels : Sound(lev) /\ HandOK(lev, "setup", f)
    BY <1>0, <1>1 DEF Inv, LevelInv
  <1>4. NewOK(lev, f) /\ RunOK(f) /\ Tree(ptr, lev)
    BY <1>3 DEF HandOK, Sound
  <1>5. PICK k \in 0 .. 3 : k = Missing(t) /\ k = Len(path) - f.partial
    <2>1. PICK n \in 1 .. 4 : Len(path) = n
      BY <1>2 DEF IsPath
    <2>2. f.partial \in 1 .. n
      BY <1>1, <1>4, <2>1 DEF NewOK
    <2>3. Missing(t) = n - f.partial /\ n - f.partial \in 0 .. 3
      BY <1>1, <2>1, <2>2 DEF Missing
    <2> QED BY <2>1, <2>3
  <1>6. CASE free' = free \cup Range(f.new) /\ GiveUp(t, "ENOMEM") /\ ptr' = ptr
    <2>1. Sound(lev)'
      BY <1>0, <1>3, <1>4, <1>6, NewBlocksFreed
    <2>2. "ENOMEM" \in Errors
      BY DEF Errors
    <2> QED BY <1>0, <1>6, <2>1, <2>2, GiveUpInv
  <1>7. ASSUME ptr' = [b \in Nodes |-> IF b \in DOMAIN NewPointers(t) THEN NewPointers(t)[b] ELSE ptr[b]],
               fr' = [fr EXCEPT ![t].chain = [@ EXCEPT ![f.partial].key = f.new[1]] \o
                          [n \in 1 .. k |-> [bh |-> f.new[n], off |-> path[f.partial + n], key |-> f.new[n + 1]]],
                                ![t].count = Len(f.new) - k],
               Goto(t, IF Dax THEN "zero" ELSE "splice"), UNCHANGED <<free, mutex>>
        PROVE  Inv'
    <2>1. PICK off, q : off = [n \in 1 .. k |-> path[f.partial + n]] /\ q = ptr'
      OBVIOUS
    <2>2. NewBranch(ptr, q, f.new, k, off)
      BY <1>1, <1>2, <1>4, <1>5, <1>7, <2>1, NewPointersBranch
    <2>3. PICK N \in Seq(Blocks), L \in Nat : N = f.new /\ L = Len(N)
      BY FrameFields
    <2>4. /\ L > k
          /\ \A d \in 0 .. L - k - 1 : N[k + 1 + d] = N[k + 1] + d
          /\ \A n \in 1 .. L : lev[N[n]] = -1 /\ N[n] \notin free \cup foreign
          /\ \A n, m \in 1 .. L : N[n] = N[m] => n = m
      <3>1. Len(Offsets(f.iblock)) - f.partial = k
        BY <1>1, <1>5
      <3>2. Len(N) > k /\ \A d \in 0 .. Len(N) - k - 1 : N[k + 1 + d] = N[k + 1] + d
        BY ONLY <1>4, <2>3, <3>1, Zenon DEF RunOK
      <3>3. /\ \A n \in 1 .. Len(N) : lev[N[n]] = -1 /\ N[n] \notin free \cup foreign
            /\ \A n, m \in 1 .. Len(N) : N[n] = N[m] => n = m
        BY ONLY <1>4, <2>3, Zenon DEF NewOK
      <3> QED BY ONLY <2>3, <3>2, <3>3
    <2>51. PICK lv \in Levels : Grafted(q, lev, N, k, lv)
      <3>1. /\ Len(N) > k /\ \A n \in 1 .. Len(N) : lev[N[n]] = -1
            /\ \A n, m \in 1 .. Len(N) : N[n] = N[m] => n = m
            /\ NewBranch(ptr, q, N, k, off)
        BY <2>2, <2>3, <2>4
      <3>2. Tree(ptr, lev)
        BY <1>4
      <3> QED BY ONLY <3>1, <3>2, BranchGrafted, k \in 0 .. 3, N \in Seq(Blocks)
    <2>5. /\ Tree(q, lv)
          /\ \A b \in Blocks : (\A n \in 1 .. Len(N) : N[n] # b) => lv[b] = lev[b]
          /\ \A n \in 1 .. Len(N) : lv[N[n]] = IF n <= k THEN (k - n) + 1 ELSE 0
          /\ Loose(q, lv, N[1])
          /\ k = 0 => \A n \in 1 .. Len(N) : Loose(q, lv, N[n])
      BY <2>51, Zenon DEF Grafted
    <2>6. Sound(lv)'
      <3>1. free' = free /\ foreign' = foreign /\ ptr' = q
        BY <1>0, <1>7, <2>1
      <3>2. free \subseteq Blocks /\ foreign \subseteq Blocks /\ free \cap foreign = {}
            /\ \A b \in free \cup foreign : lev[b] = -1
        BY <1>3 DEF Sound
      <3>3. \A b \in free \cup foreign : lv[b] = -1
        <4> SUFFICES ASSUME NEW b \in free \cup foreign PROVE lv[b] = -1
          OBVIOUS
        <4>1. b \in Blocks /\ lev[b] = -1
          BY <3>2
        <4>2. \A n \in 1 .. Len(N) : N[n] # b
          BY <2>3, <2>4
        <4> QED BY <2>5, <4>1, <4>2
      <3> QED BY ONLY <2>5, <3>1, <3>2, <3>3 DEF Sound
    <2>7. PICK d, g, l :
              /\ d = ExtendedChain(f.chain, f.partial, k, N, off)
              /\ g = [f EXCEPT !.chain = d, !.count = L - k]
              /\ l = IF Dax THEN "zero" ELSE "splice"
      OBVIOUS
    <2>8. Moves(t, l, g)
      <3>1. d = [f.chain EXCEPT ![f.partial].key = f.new[1]] \o
                [n \in 1 .. k |-> [bh |-> f.new[n], off |-> path[f.partial + n], key |-> f.new[n + 1]]]
        BY ONLY <2>1, <2>3, <2>7 DEF ExtendedChain
      <3>2. fr' = [fr EXCEPT ![t].chain = d, ![t].count = L - k]
        BY <1>1, <1>2, <1>7, <2>3, <2>7, <3>1
      <3> QED BY ONLY <1>1, <1>2, <1>7, <2>7, <3>2 DEF Moves, Goto
    <2>9. f.chain \in Seq(Links) /\ f.partial \in 1 .. 4 /\ Len(f.chain) = f.partial /\ off \in [1 .. k -> Nat]
      <3>1. off \in [1 .. k -> Nat]
        <4>1. \A n \in 1 .. k : off[n] \in Nat
          BY <2>2 DEF NewBranch
        <4> QED BY ONLY <2>1, <4>1
      <3>2. f.partial \in 1 .. Len(path) /\ Len(f.chain) = f.partial
        BY <1>1, <1>4 DEF NewOK
      <3> QED BY <1>2, <3>1, <3>2, FrameFields DEF IsPath
    <2>10. /\ d \in Seq(Links) /\ f.partial \in 1 .. Len(d)
           /\ d[f.partial].key = N[1] /\ d[f.partial].bh = f.chain[f.partial].bh
           /\ d[f.partial].off = f.chain[f.partial].off
      <3>1. Len(N) > k
        BY <2>3, <2>4
      <3>2. PICK c \in Seq(Links), part \in 1 .. 4 : c = f.chain /\ part = f.partial
        BY <2>9
      <3>3. /\ Len(c) = part /\ off \in [1 .. k -> Nat]
            /\ d = ExtendedChain(c, part, k, N, off)
        BY ONLY <2>7, <2>9, <3>2
      <3>4. LeadsToBranch(d, c, part, N)
        BY ONLY <3>1, <3>3, ChainExtended, N \in Seq(Blocks), k \in 0 .. 3, c \in Seq(Links), part \in 1 .. 4
      <3> QED BY ONLY <3>2, <3>4 DEF LeadsToBranch
    <2>11. /\ g \in Frames /\ g.chain = d /\ g.count = L - k /\ g.partial = f.partial /\ g.done = f.done
           /\ g.iblock = f.iblock /\ g.max = f.max
      <3>1. L - k \in Nat
        BY <2>4
      <3> QED BY <2>7, <2>10, <3>1 DEF Frames
    <2>12. SpliceOK(lv, g)'
      <3> DEFINE w == d[f.partial]
                 last == IF k > 0 THEN 0 ELSE L - k - 1
      <3>1. /\ Spot(lev, w.bh, w.off, k) /\ f.done = 0
            /\ k = 0 => \A e \in 0 .. L + f.want - 1 : Spot(lev, w.bh, w.off + e, k)
        <4>1. Len(Offsets(f.iblock)) - f.partial = k
          BY <1>1, <1>5
        <4> QED BY ONLY <1>4, <2>3, <2>10, <4>1 DEF NewOK
      <3>2. Len(Offsets(g.iblock)) - g.partial = k /\ g.chain[g.partial] = w /\ LastSpliced(g) = last
        BY <1>1, <1>5, <2>11 DEF LastSpliced
      <3>3. ASSUME NEW e \in 0 .. last
            PROVE  /\ w.key + e \in Blocks /\ lv[w.key + e] = k /\ Loose(q, lv, w.key + e)
                   /\ Spot(lv, w.bh, w.off + e, k)
        <4>1. /\ e + 1 \in 1 .. L /\ w.key + e = N[e + 1] /\ (k > 0 => e = 0)
              /\ (k = 0 => e \in 0 .. L + f.want - 1)
          <5>1. CASE k > 0
            <6>1. e = 0 /\ 1 \in 1 .. L
              BY <2>4, <5>1
            <6>2. N[1] \in Blocks
              BY <2>3, <6>1
            <6>3. N[1] + 0 = N[1]
              BY <6>2 DEF Blocks
            <6> QED BY <2>10, <5>1, <6>1, <6>3
          <5>2. CASE k = 0
            <6>1. e \in 0 .. L - k - 1 /\ f.want \in Nat
              BY <5>2, FrameFields
            <6>2. N[k + 1 + e] = N[k + 1] + e /\ k + 1 + e = e + 1 /\ k + 1 = 1
              BY <2>4, <5>2, <6>1
            <6>3. e + 1 \in 1 .. L /\ e \in 0 .. L + f.want - 1
              BY <5>2, <6>1
            <6> QED BY <2>10, <5>2, <6>2, <6>3
          <5> QED BY <5>1, <5>2
        <4>2. N[e + 1] \in Blocks /\ lv[N[e + 1]] = k /\ Loose(q, lv, N[e + 1])
          <5>1. N[e + 1] \in Blocks
            BY <2>3, <4>1
          <5>2. lv[N[e + 1]] = IF e + 1 <= k THEN (k - (e + 1)) + 1 ELSE 0
            BY <2>3, <2>5, <4>1
          <5>3. CASE k > 0
            <6>1. e = 0
              BY <4>1, <5>3
            <6> QED BY <2>5, <5>1, <5>2, <5>3, <6>1
          <5>4. CASE k = 0
            BY <2>3, <2>5, <4>1, <5>1, <5>2, <5>4
          <5> QED BY <5>3, <5>4
        <4>3. Spot(lev, w.bh, w.off + e, k)
          <5>1. CASE k > 0
            <6>1. w.off + e = w.off
              <7>0. f.partial \in 1 .. Len(d) /\ d \in Seq(Links)
                BY <2>10
              <7>1. w.off \in Nat
                <8>1. w \in Links
                  BY ONLY <7>0
                <8> QED BY <8>1 DEF Links
              <7> QED BY <4>1, <5>1, <7>1
            <6> QED BY <3>1, <6>1
          <5>2. CASE k = 0
            BY <3>1, <4>1, <5>2
          <5> QED BY <5>1, <5>2
        <4>4. Spot(lv, w.bh, w.off + e, k)
          <5>1. w.bh \in Nodes /\ Leads(lev, w.bh)
            BY <3>1 DEF Spot
          <5>2. w.bh = Inode \/ lv[w.bh] = lev[w.bh]
            <6> SUFFICES ASSUME w.bh # Inode PROVE lv[w.bh] = lev[w.bh]
              OBVIOUS
            <6>1. w.bh \in Blocks /\ lev[w.bh] >= 1
              BY <5>1, NodeFacts DEF Leads
            <6>2. \A n \in 1 .. Len(N) : N[n] # w.bh
              BY <2>3, <2>4, <6>1
            <6> QED BY <2>5, <6>1, <6>2
          <5> HIDE DEF w
          <5> QED BY ONLY <4>3, <5>2 DEF Spot, Leads, Down
        <4> HIDE DEF w
        <4> QED BY <4>1, <4>2, <4>4
      <3>4. f.partial \in 1 .. Len(g.chain) /\ g.done = 0 /\ 0 <= last
        BY <2>4, <2>10, <2>11, <3>1
      <3> HIDE DEF w, last
      <3>5. ptr' = q
        BY <2>1
      <3> QED BY ONLY <2>11, <3>2, <3>3, <3>4, <3>5 DEF SpliceOK, LastSpliced
    <2>13. l \in {"zero", "splice"}
      BY <2>7
    <2>14. LocalOK(l, g)
      BY <1>2, <2>11, <2>13 DEF LocalOK, Walking, Mapping
    <2>15. HandOK(lv, l, g)'
      BY <2>12, <2>13 DEF HandOK
    <2>16. l \in Labels /\ mutex \in {t, None} /\ (l \in Holding => mutex' = t)
      BY <1>0, <1>7, <2>13, Holder DEF Labels, Mapping
    <2> QED BY <2>6, <2>8, <2>11, <2>14, <2>15, <2>16, HolderStep
  <1> QED BY <1>1, <1>5, <1>6, <1>7 DEF SetUpBranch

\* A store in one slot changes that slot.
Store(p, x, o, v) == [p EXCEPT ![x][o] = v]

\* What one store changes.
LEMMA Stored ==
    ASSUME NEW p, IsPointers(p), NEW x \in Nodes, NEW o \in Slots(x), NEW v \in 0 .. NBlocks,
           NEW q, q = Store(p, x, o, v)
    PROVE  /\ IsPointers(q)
           /\ \A y \in Nodes : \A r \in Slots(y) : q[y][r] = IF y = x /\ r = o THEN v ELSE p[y][r]
  <1>1. DOMAIN p = Nodes /\ \A y \in Nodes : p[y] \in [Slots(y) -> 0 .. NBlocks]
    BY DEF IsPointers
  <1> DEFINE h == [p[x] EXCEPT ![o] = v]
  <1>2. h \in [Slots(x) -> 0 .. NBlocks] /\ \A r \in Slots(x) : h[r] = IF r = o THEN v ELSE p[x][r]
    BY <1>1
  <1>3. q = [p EXCEPT ![x] = h]
    BY <1>1 DEF Store
  <1> HIDE DEF h
  <1>4. DOMAIN q = Nodes /\ \A y \in Nodes : q[y] = IF y = x THEN h ELSE p[y]
    BY ONLY <1>1, <1>3, x \in Nodes
  <1>5. IsPointers(q)
    BY ONLY <1>1, <1>2, <1>4 DEF IsPointers
  <1> QED BY ONLY <1>2, <1>4, <1>5, x \in Nodes

\* A block that nothing leads to is hooked in at its level.
LEMMA HookedIn ==
    ASSUME NEW p, NEW lev, Tree(p, lev), NEW k, NEW x, NEW o, Spot(lev, x, o, k),
           NEW v \in Blocks, lev[v] = k, Loose(p, lev, v), NEW q, q = Store(p, x, o, v)
    PROVE  Tree(q, lev) /\ \A b : (b # v /\ Loose(p, lev, b)) => Loose(q, lev, b)
  <1>0. x \in Nodes /\ o \in Slots(x) /\ Leads(lev, x) /\ Down(lev, x, o) = k
    BY DEF Spot
  <1>1. /\ IsPointers(q)
        /\ \A y \in Nodes : \A r \in Slots(y) : q[y][r] = IF y = x /\ r = o THEN v ELSE p[y][r]
    <2>1. v \in 0 .. NBlocks /\ IsPointers(p)
      BY DEF Blocks, Tree
    <2> QED BY <1>0, <2>1, Stored
  <1>2. \A b : (b # v /\ Loose(p, lev, b)) => Loose(q, lev, b)
    BY <1>1 DEF Loose
  <1>3. \A y \in Nodes : \A r \in Slots(y) :
          (Leads(lev, y) /\ q[y][r] # 0) => lev[q[y][r]] = IF y = Inode THEN SlotDepth(r) ELSE lev[y] - 1
    <2> SUFFICES ASSUME NEW y \in Nodes, NEW r \in Slots(y), Leads(lev, y), q[y][r] # 0
                 PROVE  lev[q[y][r]] = Down(lev, y, r)
      BY DEF Down
    <2>1. CASE y = x /\ r = o
      BY <1>0, <1>1, <2>1
    <2>2. CASE ~(y = x /\ r = o)
      <3>1. q[y][r] = p[y][r]
        BY <1>1, <2>2
      <3> QED BY <3>1, EdgeFacts
    <2> QED BY <2>1, <2>2
  <1>4. \A y, z \in Nodes : \A r \in Slots(y), s \in Slots(z) :
          (Leads(lev, y) /\ Leads(lev, z) /\ q[y][r] # 0 /\ q[y][r] = q[z][s]) => y = z /\ r = s
    <2> SUFFICES ASSUME NEW y \in Nodes, NEW z \in Nodes, NEW r \in Slots(y), NEW s \in Slots(z),
                        Leads(lev, y), Leads(lev, z), q[y][r] # 0, q[y][r] = q[z][s]
                 PROVE  y = z /\ r = s
      OBVIOUS
    <2>1. p[y][r] # v /\ p[z][s] # v
      BY DEF Loose
    <2>2. q[y][r] = IF y = x /\ r = o THEN v ELSE p[y][r]
      BY <1>1
    <2>3. q[z][s] = IF z = x /\ s = o THEN v ELSE p[z][s]
      BY <1>1
    <2>4. CASE (y = x /\ r = o) \/ (z = x /\ s = o)
      BY <2>1, <2>2, <2>3, <2>4
    <2>5. CASE ~(y = x /\ r = o) /\ ~(z = x /\ s = o)
      <3>1. p[y][r] # 0 /\ p[y][r] = p[z][s]
        BY <2>2, <2>3, <2>5
      <3> QED BY <3>1, EdgeFacts
    <2> QED BY <2>4, <2>5
  <1> QED BY <1>1, <1>2, <1>3, <1>4 DEF Tree, Levelled

\* A pointer is cleared: what it led to hangs from nothing.
LEMMA Cleared ==
    ASSUME NEW p, NEW lev, Tree(p, lev), NEW x \in Nodes, NEW o \in Slots(x),
           NEW q, q = Store(p, x, o, 0)
    PROVE  /\ Tree(q, lev)
           /\ \A b \in Blocks : Loose(p, lev, b) => Loose(q, lev, b)
           /\ (Leads(lev, x) /\ p[x][o] # 0) => Loose(q, lev, p[x][o])
  <1>1. /\ IsPointers(q)
        /\ \A y \in Nodes : \A r \in Slots(y) : q[y][r] = IF y = x /\ r = o THEN 0 ELSE p[y][r]
    <2>1. 0 \in 0 .. NBlocks /\ IsPointers(p)
      BY MapAssumption DEF Tree
    <2> QED BY <2>1, Stored
  <1>2. \A b \in Blocks : Loose(p, lev, b) => Loose(q, lev, b)
    BY <1>1, NodeFacts DEF Loose
  <1>3. Levelled(q, lev)
    <2>1. \A y \in Nodes : \A r \in Slots(y) : q[y][r] # 0 => q[y][r] = p[y][r]
      BY <1>1
    <2>2. \A y \in Nodes : \A r \in Slots(y) :
            (Leads(lev, y) /\ q[y][r] # 0) => lev[q[y][r]] = IF y = Inode THEN SlotDepth(r) ELSE lev[y] - 1
      BY <2>1, EdgeFacts DEF Down
    <2>3. \A y, z \in Nodes : \A r \in Slots(y), s \in Slots(z) :
            (Leads(lev, y) /\ Leads(lev, z) /\ q[y][r] # 0 /\ q[y][r] = q[z][s]) => y = z /\ r = s
      <3> SUFFICES ASSUME NEW y \in Nodes, NEW z \in Nodes, NEW r \in Slots(y), NEW s \in Slots(z),
                          Leads(lev, y), Leads(lev, z), q[y][r] # 0, q[y][r] = q[z][s]
                   PROVE  y = z /\ r = s
        OBVIOUS
      <3>1. p[y][r] # 0 /\ p[y][r] = p[z][s]
        BY <2>1
      <3> QED BY <3>1, EdgeFacts
    <2> QED BY <2>2, <2>3 DEF Levelled
  <1>4. ASSUME Leads(lev, x), p[x][o] # 0 PROVE Loose(q, lev, p[x][o])
    <2> SUFFICES ASSUME NEW y \in Nodes, NEW r \in Slots(y), Leads(lev, y), q[y][r] = p[x][o] PROVE FALSE
      BY DEF Loose
    <2>1. ~(y = x /\ r = o) /\ p[y][r] = p[x][o]
      BY <1>1, <1>4
    <2> QED BY <1>4, <2>1, EdgeFacts
  <1> QED BY <1>1, <1>2, <1>3, <1>4 DEF Tree

\* sb_issue_zeroout: where it fails the branch is left to nobody.
LEMMA ZeroOutInv == ASSUME Inv, NEW t \in Tasks, ZeroOut(t) PROVE Inv'
  <1>0. pc[t] = "zero" /\ UNCHANGED disk /\ pc[t] \in Holding
    BY DEF ZeroOut, At, Holding, Mapping
  <1>1. PICK f \in Frames : f = fr[t]
    BY PathFacts
  <1>2. LocalOK("zero", f)
    BY <1>0, <1>1, PathFacts
  <1>3. PICK lev \in Levels : Sound(lev) /\ HandOK(lev, "zero", f)
    BY <1>0, <1>1 DEF Inv, LevelInv
  <1>4. ptr' = ptr /\ free' = free /\ foreign' = foreign
    BY <1>0 DEF disk
  <1>5. Sound(lev)'
    BY <1>3, <1>4 DEF Sound
  <1>6. CASE GiveUp(t, "EIO")
    <2>1. "EIO" \in Errors
      BY DEF Errors
    <2> QED BY <1>0, <1>5, <1>6, <2>1, GiveUpInv
  <1>7. CASE Goto(t, "splice") /\ UNCHANGED <<mutex, fr>>
    <2>1. "splice" \in Labels /\ "splice" \in Holding
      BY DEF Labels, Holding, Mapping
    <2>2. Moves(t, "splice", f)
      BY <1>1, <1>7, <2>1, SameFrame
    <2>3. LocalOK("splice", f)
      BY <1>2 DEF LocalOK, Walking, Mapping
    <2>4. HandOK(lev, "splice", f)'
      BY <1>3, <1>4 DEF HandOK, SpliceOK, LastSpliced
    <2>5. mutex \in {t, None} /\ mutex' = t
      BY <1>0, <1>7, Holder
    <2> QED BY <1>5, <2>1, <2>2, <2>3, <2>4, <2>5, HolderStep
  <1> QED BY <1>6, <1>7 DEF ZeroOut

\* One store of kr_splice_branch.
LEMMA SpliceInv == ASSUME Inv, NEW t \in Tasks, Splice(t) PROVE Inv'
  <1>0. pc[t] = "splice" /\ pc[t] \in Holding /\ free' = free /\ foreign' = foreign
    BY DEF Splice, At, Holding, Mapping
  <1>1. PICK f \in Frames : f = fr[t] /\ f.done \in Nat /\ f.count \in Nat
    BY PathFacts, FrameFields
  <1>2. LocalOK("splice", f) /\ DOMAIN fr = Tasks /\ DOMAIN pc = Tasks
    BY <1>0, <1>1, PathFacts
  <1>3. PICK lev \in Levels : Sound(lev) /\ HandOK(lev, "splice", f)
    BY <1>0, <1>1 DEF Inv, LevelInv
  <1>4. PICK k \in -1 .. 3, w \in Links : k = Missing(t) /\ k = Len(Offsets(f.iblock)) - f.partial /\ w = f.chain[f.partial]
    <2>1. f.partial \in 1 .. Len(f.chain) /\ f.chain \in Seq(Links)
      BY <1>3, FrameFields DEF HandOK, SpliceOK
    <2>2. f.chain[f.partial] \in Links
      BY <2>1
    <2>3. Missing(t) = Len(Offsets(f.iblock)) - f.partial
      BY <1>1 DEF Missing, Path
    <2>4. Len(Offsets(f.iblock)) - f.partial \in -1 .. 3
      <3>1. /\ f.done \in f.done .. LastSpliced(f)
            /\ f.chain[f.partial].key + f.done \in Blocks
            /\ lev[f.chain[f.partial].key + f.done] = Len(Offsets(f.iblock)) - f.partial
        BY <1>1, <1>3 DEF HandOK, SpliceOK, LastSpliced
      <3> QED BY <3>1 DEF Levels
    <2> QED BY <2>2, <2>3, <2>4
  <1> DEFINE top == LastSpliced(f)
  <1>5. /\ f.done <= top /\ top = IF k > 0 THEN 0 ELSE f.count - 1
        /\ \A d \in f.done .. top :
             /\ w.key + d \in Blocks /\ lev[w.key + d] = k /\ Loose(ptr, lev, w.key + d)
             /\ Spot(lev, w.bh, w.off + d, k)
        /\ f.partial \in 1 .. Len(f.chain)
    BY <1>3, <1>4 DEF HandOK, SpliceOK, LastSpliced
  <1> HIDE DEF top
  <1>6. PICK q, v, o : v \in Blocks /\ q = ptr' /\ v = w.key + f.done /\ o = w.off + f.done
    <2>1. top \in Int
      BY <1>1, <1>4, <1>5
    <2>2. w.key + f.done \in Blocks
      BY <1>1, <1>5, <2>1
    <2> QED BY <2>2
  <1>7. q = Store(ptr, w.bh, o, v)
    BY <1>1, <1>4, <1>6 DEF Splice, Store
  <1>8. Tree(q, lev) /\ \A b : (b # v /\ Loose(ptr, lev, b)) => Loose(q, lev, b)
    <2>1. f.done \in f.done .. top
      BY <1>1, <1>4, <1>5
    <2>2. lev[v] = k /\ Loose(ptr, lev, v) /\ Spot(lev, w.bh, o, k)
      BY <1>5, <1>6, <2>1
    <2>3. Tree(ptr, lev)
      BY <1>3 DEF Sound
    <2> QED BY <1>6, <1>7, <2>2, <2>3, HookedIn
  <1>9. Sound(lev)'
    BY <1>0, <1>3, <1>6, <1>8 DEF Sound
  <1>10. mutex = t
    BY <1>0, Holder
  <1>11. CASE mutex' = None /\ fr' = [fr EXCEPT ![t].new = <<>>] /\ Goto(t, "return")
    <2>1. PICK g : g = [f EXCEPT !.new = <<>>]
      OBVIOUS
    <2>2. g \in Frames
      <3>1. <<>> \in Seq(Blocks)
        OBVIOUS
      <3> QED BY <2>1, <3>1 DEF Frames
    <2>3. Moves(t, "return", g)
      BY <1>1, <1>2, <1>11, <2>1 DEF Moves, Goto
    <2>4. "return" \in Labels /\ "return" \notin Holding
      BY DEF Labels, Holding, Mapping, Cutting
    <2>5. LocalOK("return", g) /\ HandOK(lev, "return", g)'
      BY DEF LocalOK, Walking, Mapping, HandOK
    <2>6. mutex \in {t, None} /\ ("return" \in Holding => mutex' = t)
      BY <1>10, <2>4
    <2> QED BY <1>9, <2>2, <2>3, <2>4, <2>5, <2>6, HolderStep
  <1>12. CASE /\ ~(Missing(t) > 0 \/ f.done + 1 = f.count)
              /\ fr' = [fr EXCEPT ![t].done = @ + 1] /\ UNCHANGED <<mutex, pc>>
    <2>1. PICK g : g = [f EXCEPT !.done = f.done + 1]
      OBVIOUS
    <2>2. /\ g \in Frames /\ g.done = f.done + 1 /\ g.chain = f.chain /\ g.partial = f.partial
          /\ g.iblock = f.iblock /\ g.count = f.count /\ g.max = f.max
      <3>1. f.done + 1 \in Nat
        BY <1>1
      <3> QED BY <2>1, <3>1 DEF Frames
    <2>3. Moves(t, "splice", g)
      <3>1. pc' = [pc EXCEPT ![t] = "splice"]
        BY <1>0, <1>12 DEF Inv, Typed
      <3>2. fr' = [fr EXCEPT ![t] = g]
        BY <1>1, <1>2, <1>12, <2>1
      <3> QED BY <3>1, <3>2 DEF Moves
    <2>4. "splice" \in Labels
      BY DEF Labels, Mapping
    <2>5. LocalOK("splice", g)
      BY <1>2, <2>2 DEF LocalOK, Walking, Mapping
    <2>6. k <= 0 /\ g.done <= top /\ g.done \in Nat /\ top \in Int /\ \A d \in g.done .. top : d \in f.done .. top /\ d > f.done
      <3>1. k <= 0 /\ f.done + 1 # f.count
        BY <1>4, <1>12
      <3>2. top = f.count - 1 /\ f.done <= top
        BY <1>5, <3>1
      <3> QED BY <1>1, <2>2, <3>1, <3>2
    <2>7. SpliceOK(lev, g)'
      <3>1. LastSpliced(g) = top /\ g.chain[g.partial] = w /\ Len(Offsets(g.iblock)) - g.partial = k
        BY <1>4, <2>2 DEF LastSpliced, top
      <3>2. ASSUME NEW d \in g.done .. top
            PROVE  /\ w.key + d \in Blocks /\ lev[w.key + d] = k /\ Loose(q, lev, w.key + d)
                   /\ Spot(lev, w.bh, w.off + d, k)
        <4>1. d \in f.done .. top /\ d > f.done /\ w.key \in Nat /\ d \in Nat
          BY <2>6 DEF Links
        <4>2. w.key + d # v
          BY <1>1, <1>6, <4>1
        <4> QED BY <1>5, <1>8, <4>1, <4>2
      <3>3. g.partial \in 1 .. Len(g.chain)
        BY <1>5, <2>2
      <3> QED BY ONLY <1>6, <2>6, <3>1, <3>2, <3>3 DEF SpliceOK, LastSpliced
    <2>8. HandOK(lev, "splice", g)'
      BY <2>7 DEF HandOK
    <2>9. mutex \in {t, None} /\ mutex' = t
      BY <1>10, <1>12
    <2> QED BY <1>9, <2>2, <2>3, <2>4, <2>5, <2>8, <2>9, HolderStep
  <1> QED BY <1>1, <1>11, <1>12 DEF Splice
-----------------------------------------------------------------------------
(***************************************************************************)
(* Truncation: the stack of work.                                          *)
(***************************************************************************)

\* An item may come before all of the work that is left.
Ahead(lev, item, work) == \A j \in 1 .. Len(work) : Apart(lev, item, work[j])

\* The first item of the work, and what is left of it.
LEMMA WorkTail ==
    ASSUME NEW p, NEW lev, NEW work \in Seq(Items), work # <<>>, WorkOK(p, lev, work)
    PROVE  /\ Head(work) \in Items /\ Tail(work) \in Seq(Items)
           /\ ItemOK(p, lev, Head(work)) /\ WorkOK(p, lev, Tail(work))
           /\ Ahead(lev, Head(work), Tail(work))
  <1>1. PICK n \in Nat : Len(work) = n /\ n >= 1
    OBVIOUS
  <1> DEFINE item == Head(work)
             rest == Tail(work)
  <1>2. /\ item \in Items /\ rest \in Seq(Items) /\ item = work[1] /\ Len(rest) = n - 1
        /\ \A j \in 1 .. n - 1 : rest[j] = work[j + 1]
    BY <1>1
  <1> HIDE DEF item, rest
  <1>3. \A j \in 1 .. n - 1 : j + 1 \in 1 .. n /\ 1 \in 1 .. n /\ 1 < j + 1
    BY <1>1
  <1>4. ItemOK(p, lev, item)
    BY <1>1, <1>2 DEF WorkOK
  <1>5. Ahead(lev, item, rest)
    BY <1>1, <1>2, <1>3 DEF Ahead, WorkOK
  <1>6. \A j \in 1 .. Len(rest) : ItemOK(p, lev, rest[j])
    BY <1>1, <1>2, <1>3 DEF WorkOK
  <1>7. \A i, j \in 1 .. Len(rest) : i < j => Apart(lev, rest[i], rest[j])
    <2> SUFFICES ASSUME NEW i \in 1 .. Len(rest), NEW j \in 1 .. Len(rest), i < j
                 PROVE  Apart(lev, rest[i], rest[j])
      OBVIOUS
    <2>1. i + 1 \in 1 .. n /\ j + 1 \in 1 .. n /\ i + 1 < j + 1 /\ rest[i] = work[i + 1] /\ rest[j] = work[j + 1]
      BY <1>1, <1>2
    <2>2. Apart(lev, work[i + 1], work[j + 1])
      BY ONLY <1>1, <2>1, WorkOK(p, lev, work) DEF WorkOK
    <2> QED BY <2>1, <2>2
  <1>8. WorkOK(p, lev, rest)
    BY <1>6, <1>7 DEF WorkOK
  <1> QED BY <1>2, <1>4, <1>5, <1>8 DEF item, rest

\* Work that comes before other work.
LEMMA WorkJoin ==
    ASSUME NEW p, NEW lev, NEW a \in Seq(Items), NEW b \in Seq(Items),
           WorkOK(p, lev, a), WorkOK(p, lev, b), \A i \in 1 .. Len(a) : Ahead(lev, a[i], b)
    PROVE  a \o b \in Seq(Items) /\ WorkOK(p, lev, a \o b)
  <1>1. PICK n \in Nat, m \in Nat : Len(a) = n /\ Len(b) = m
    OBVIOUS
  <1> DEFINE c == a \o b
  <1>2. /\ c \in Seq(Items) /\ Len(c) = n + m
        /\ \A i \in 1 .. n : c[i] = a[i]
        /\ \A i \in n + 1 .. n + m : c[i] = b[i - n]
    BY <1>1
  <1> HIDE DEF c
  <1>3. \A i \in 1 .. n + m : i \in 1 .. n \/ i \in n + 1 .. n + m
    OBVIOUS
  <1>4. \A i \in n + 1 .. n + m : i - n \in 1 .. m
    OBVIOUS
  <1>5. \A i \in 1 .. n + m : ItemOK(p, lev, c[i])
    <2>1. \A i \in 1 .. n : ItemOK(p, lev, c[i])
      BY <1>1, <1>2 DEF WorkOK
    <2>2. \A i \in n + 1 .. n + m : ItemOK(p, lev, c[i])
      BY <1>1, <1>2, <1>4 DEF WorkOK
    <2> QED BY <1>3, <2>1, <2>2
  <1>6. ASSUME NEW i \in 1 .. n + m, NEW j \in 1 .. n + m, i < j PROVE Apart(lev, c[i], c[j])
    <2>1. CASE i \in 1 .. n /\ j \in 1 .. n
      BY <1>1, <1>2, <1>6, <2>1 DEF WorkOK
    <2>2. CASE i \in n + 1 .. n + m /\ j \in n + 1 .. n + m
      <3>1. i - n \in 1 .. m /\ j - n \in 1 .. m /\ i - n < j - n /\ c[i] = b[i - n] /\ c[j] = b[j - n]
        BY <1>2, <1>6, <2>2
      <3>2. Apart(lev, b[i - n], b[j - n])
        BY ONLY <1>1, <3>1, WorkOK(p, lev, b) DEF WorkOK
      <3> QED BY <3>1, <3>2
    <2>3. CASE i \in 1 .. n /\ j \in n + 1 .. n + m
      <3>1. j - n \in 1 .. m /\ c[i] = a[i] /\ c[j] = b[j - n]
        BY <1>2, <2>3
      <3> QED BY <1>1, <2>3, <3>1 DEF Ahead
    <2>4. ~(i \in n + 1 .. n + m /\ j \in 1 .. n)
      BY <1>6
    <2> QED BY <1>3, <2>1, <2>2, <2>3, <2>4
  <1>7. WorkOK(p, lev, c)
    BY <1>2, <1>5, <1>6 DEF WorkOK
  <1> QED BY <1>2, <1>7 DEF c

\* An item is pushed.
LEMMA WorkPush ==
    ASSUME NEW p, NEW lev, NEW item \in Items, NEW work \in Seq(Items),
           ItemOK(p, lev, item), WorkOK(p, lev, work), Ahead(lev, item, work)
    PROVE  /\ <<item>> \o work \in Seq(Items) /\ WorkOK(p, lev, <<item>> \o work)
           /\ \A i : (Ahead(lev, i, work) /\ Apart(lev, i, item)) => Ahead(lev, i, <<item>> \o work)
  <1> DEFINE a == <<item>>
  <1>1. a \in Seq(Items) /\ Len(a) = 1 /\ \A i \in 1 .. Len(a) : a[i] = item
    OBVIOUS
  <1>2. PICK m \in Nat : Len(work) = m
    OBVIOUS
  <1>3. /\ Len(a \o work) = m + 1 /\ (a \o work)[1] = item
        /\ \A j \in 2 .. m + 1 : (a \o work)[j] = work[j - 1]
    BY <1>2
  <1> HIDE DEF a
  <1>4. WorkOK(p, lev, a)
    BY <1>1 DEF WorkOK
  <1>5. a \o work \in Seq(Items) /\ WorkOK(p, lev, a \o work)
    BY <1>1, <1>4, WorkJoin
  <1>6. ASSUME NEW i, Ahead(lev, i, work), Apart(lev, i, item) PROVE Ahead(lev, i, a \o work)
    <2> SUFFICES ASSUME NEW j \in 1 .. m + 1 PROVE Apart(lev, i, (a \o work)[j])
      BY <1>3 DEF Ahead
    <2>1. CASE j = 1
      BY <1>3, <1>6, <2>1
    <2>2. CASE j \in 2 .. m + 1
      <3>1. j - 1 \in 1 .. m
        BY <2>2
      <3> QED BY <1>2, <1>3, <1>6, <2>2, <3>1 DEF Ahead
    <2>3. j = 1 \/ j \in 2 .. m + 1
      OBVIOUS
    <2> QED BY <2>1, <2>2, <2>3, Zenon
  <1> QED BY <1>5, <1>6 DEF a

\* A step of the tree after which nothing in hand has acquired a parent.
LEMMA WorkKept ==
    ASSUME NEW p, NEW q, NEW lev, NEW work, WorkOK(p, lev, work),
           \A b \in Blocks : Loose(p, lev, b) => Loose(q, lev, b)
    PROVE  WorkOK(q, lev, work) /\ \A item : ItemOK(p, lev, item) => ItemOK(q, lev, item)
  <1>1. \A item : ItemOK(p, lev, item) => ItemOK(q, lev, item)
    BY DEF ItemOK
  <1> QED BY <1>1 DEF WorkOK

\* Blocks in hand are freed: they lose their level.
LEMMA WorkFreed ==
    ASSUME NEW p, NEW lev, Tree(p, lev), NEW S \in SUBSET Blocks,
           \A b \in S : Loose(p, lev, b),
           NEW work \in Seq(Items), WorkOK(p, lev, work),
           \A i \in 1 .. Len(work) :
              Owned(work[i]) \cap S = {} /\ (work[i].op = "array" => work[i].nr \notin S)
    PROVE  \E lv \in Levels : /\ Tree(p, lv) /\ WorkOK(p, lv, work)
                              /\ \A b \in Blocks : lv[b] = IF b \in S THEN -1 ELSE lev[b]
  <1> DEFINE lv == [b \in Blocks |-> IF b \in S THEN -1 ELSE lev[b]]
  <1>1. lev \in [Blocks -> -1 .. 3]
    BY DEF Tree, Levels
  <1>2. lv \in Levels /\ \A b \in Blocks : lv[b] = IF b \in S THEN -1 ELSE lev[b]
    BY <1>1 DEF Levels
  <1> HIDE DEF lv
  <1>3. \A x \in Nodes : Leads(lv, x) => Leads(lev, x) /\ (x = Inode \/ lv[x] = lev[x])
    BY <1>2, NodeFacts DEF Leads
  <1>4. \A b : Loose(p, lev, b) => Loose(p, lv, b)
    BY <1>3 DEF Loose
  <1>5. \A x \in Nodes : \A o \in Slots(x) :
          (Leads(lv, x) /\ p[x][o] # 0) => lv[p[x][o]] = IF x = Inode THEN SlotDepth(o) ELSE lv[x] - 1
    <2> SUFFICES ASSUME NEW x \in Nodes, NEW o \in Slots(x), Leads(lv, x), p[x][o] # 0
                 PROVE  lv[p[x][o]] = IF x = Inode THEN SlotDepth(o) ELSE lv[x] - 1
      OBVIOUS
    <2>1. Leads(lev, x) /\ (x = Inode \/ lv[x] = lev[x])
      BY <1>3
    <2>2. p[x][o] \in Blocks /\ lev[p[x][o]] = Down(lev, x, o)
      BY <2>1, EdgeFacts
    <2>3. p[x][o] \notin S
      BY <2>1 DEF Loose
    <2> QED BY <1>2, <2>1, <2>2, <2>3 DEF Down
  <1>6. \A x, y \in Nodes : \A o \in Slots(x), q \in Slots(y) :
          (Leads(lv, x) /\ Leads(lv, y) /\ p[x][o] # 0 /\ p[x][o] = p[y][q]) => x = y /\ o = q
    BY <1>3, EdgeFacts
  <1>7. Tree(p, lv)
    BY <1>2, <1>5, <1>6 DEF Tree, Levelled
  <1>8. ASSUME NEW i \in 1 .. Len(work)
        PROVE  /\ work[i] \in Items /\ ItemOK(p, lev, work[i])
               /\ \A b \in Owned(work[i]) : b \in Blocks /\ lv[b] = lev[b] /\ Loose(p, lv, b)
               /\ work[i].op \in {"subtree", "block"} => lv[work[i].nr] = lev[work[i].nr]
               /\ work[i].op = "array" => work[i].nr = Inode \/ lv[work[i].nr] = lev[work[i].nr]
    <2>1. work[i] \in Items /\ ItemOK(p, lev, work[i])
      BY DEF WorkOK
    <2>2. \A b \in Owned(work[i]) : b \in Blocks /\ lv[b] = lev[b] /\ Loose(p, lv, b)
      BY <1>2, <1>4, <2>1 DEF ItemOK
    <2>3. work[i].op \in {"subtree", "block"} => work[i].nr \in Owned(work[i])
      BY DEF Owned
    <2>4. work[i].nr = Inode \/ work[i].nr \in Blocks
      BY <2>1, NodeFacts DEF Items
    <2> QED BY <1>2, <2>1, <2>2, <2>3, <2>4
  <1>9. \A i \in 1 .. Len(work) : ItemOK(p, lv, work[i])
    <2> SUFFICES ASSUME NEW i \in 1 .. Len(work) PROVE ItemOK(p, lv, work[i])
      OBVIOUS
    <2> DEFINE item == work[i]
    <2>1. /\ ItemOK(p, lev, item)
          /\ \A b \in Owned(item) : b \in Blocks /\ lv[b] = lev[b] /\ Loose(p, lv, b)
          /\ item.op \in {"subtree", "block"} => lv[item.nr] = lev[item.nr]
          /\ item.op = "array" => item.nr = Inode \/ lv[item.nr] = lev[item.nr]
      BY <1>8
    <2> HIDE DEF item
    <2>2. item.op = "array" => \A b \in Run(item) : lv[b] = lev[b]
      BY <2>1 DEF Owned
    <2>3. ItemOK(p, lv, item)
      BY ONLY <2>1, <2>2 DEF ItemOK
    <2> QED BY <2>3 DEF item
  <1>10. \A i, j \in 1 .. Len(work) : i < j => Apart(lv, work[i], work[j])
    <2> SUFFICES ASSUME NEW i \in 1 .. Len(work), NEW j \in 1 .. Len(work), i < j
                 PROVE  Apart(lv, work[i], work[j])
      OBVIOUS
    <2>1. Apart(lev, work[i], work[j])
      BY DEF WorkOK
    <2>2. ASSUME work[j].op = "array" PROVE lv[work[i].nr] < lv[work[j].nr]
      <3>1. work[i].nr # Inode /\ work[j].nr # Inode /\ lev[work[i].nr] < lev[work[j].nr]
        BY <2>1, <2>2 DEF Apart
      <3>2. lv[work[j].nr] = lev[work[j].nr] /\ work[i].nr \in Blocks /\ work[j].nr \in Blocks
        BY <1>8, <2>2, <3>1, NodeFacts DEF Items
      <3>3. lv[work[i].nr] <= lev[work[i].nr] /\ lv[work[i].nr] \in Int
        BY <1>1, <1>2, <3>2
      <3> QED BY <1>1, <3>1, <3>2, <3>3
    <2> QED BY <2>1, <2>2 DEF Apart
  <1> QED BY <1>2, <1>7, <1>9, <1>10 DEF WorkOK

\* The holder of the mutex is truncating, and goes on with the work it has left.
LEMMA FreeStep ==
    ASSUME Inv, NEW t \in Tasks, pc[t] \in {"shared", "free"}, pc' = [pc EXCEPT ![t] = "free"],
           NEW work \in Seq(Items), fr' = [fr EXCEPT ![t].work = work], mutex' = mutex,
           NEW lev \in Levels, Sound(lev)', WorkOK(ptr', lev, work)
    PROVE  Inv'
  <1>1. PICK g : g = [fr[t] EXCEPT !.work = work]
    OBVIOUS
  <1>2. fr[t] \in Frames /\ DOMAIN fr = Tasks
    BY PathFacts
  <1>3. g \in Frames /\ g.work = work
    BY <1>1, <1>2 DEF Frames
  <1>4. Moves(t, "free", g)
    BY <1>1, <1>2 DEF Moves
  <1>5. "free" \in Labels /\ "free" \in Holding /\ pc[t] \in Holding
    BY DEF Labels, Cutting, Holding
  <1>6. LocalOK("free", g)
    BY DEF LocalOK, Walking, Mapping
  <1>7. HandOK(lev, "free", g)'
    BY <1>3 DEF HandOK
  <1>8. mutex \in {t, None} /\ mutex' = t
    BY <1>5, Holder
  <1> QED BY <1>3, <1>4, <1>5, <1>6, <1>7, <1>8, HolderStep

\* The items of the work.
LEMMA ItemFields ==
    ASSUME NEW item \in Items
    PROVE  /\ item.op \in {"array", "subtree", "block", "slot"} /\ item.nr \in Nodes
           /\ item.p \in Nat /\ item.q \in Nat /\ item.depth \in 0 .. 3
           /\ item.start \in Nat /\ item.count \in Nat
  BY DEF Items

\* A new item of work has the fields it is given, and no run yet.
LEMMA NewItems ==
    ASSUME NEW nr \in Nodes, NEW p \in Nat, NEW q \in Nat, NEW depth \in 0 .. 3, NEW op \in {"array", "subtree", "block", "slot"}
    PROVE  /\ Item(op, nr, p, q, depth) \in Items
           /\ Item(op, nr, p, q, depth).op = op /\ Item(op, nr, p, q, depth).nr = nr
           /\ Item(op, nr, p, q, depth).p = p /\ Item(op, nr, p, q, depth).q = q
           /\ Item(op, nr, p, q, depth).depth = depth
           /\ op = "array" => Run(Item(op, nr, p, q, depth)) = {} /\ Owned(Item(op, nr, p, q, depth)) = {}
           /\ op \in {"subtree", "block"} => Owned(Item(op, nr, p, q, depth)) = {nr}
           /\ op = "slot" => Owned(Item(op, nr, p, q, depth)) = {}
  <1> DEFINE item == Item(op, nr, p, q, depth)
  <1>1. /\ item.op = op /\ item.nr = nr /\ item.p = p /\ item.q = q /\ item.depth = depth
        /\ item.start = 0 /\ item.count = 0 /\ item \in Items
    BY DEF Item, Items
  <1> HIDE DEF item
  <1>2. Run(item) = {}
    <2>1. Run(item) = 0 .. 0 + 0 - 1
      BY <1>1 DEF Run
    <2> QED BY <2>1
  <1>3. /\ op = "array" => Owned(item) = {}
        /\ op \in {"subtree", "block"} => Owned(item) = {nr}
        /\ op = "slot" => Owned(item) = {}
    BY <1>1, <1>2 DEF Owned
  <1> QED BY <1>1, <1>2, <1>3 DEF item

\* The item for the slots of a node owns nothing yet.
LEMMA NewArray ==
    ASSUME NEW nr \in Nodes, NEW p \in Nat, NEW q \in Nat, NEW depth \in 0 .. 3, NEW a, a = Array(nr, p, q, depth)
    PROVE  /\ a \in Items /\ a.op = "array" /\ a.nr = nr /\ a.p = p /\ a.q = q /\ a.depth = depth
           /\ Run(a) = {} /\ Owned(a) = {}
  <1>1. /\ a.op = "array" /\ a.nr = nr /\ a.p = p /\ a.q = q /\ a.depth = depth
        /\ a.start = 0 /\ a.count = 0 /\ a \in Items
    BY DEF Array, Item, Items
  <1>2. Run(a) = {}
    <2>1. Run(a) = 0 .. 0 + 0 - 1
      BY ONLY <1>1 DEF Run
    <2> QED BY ONLY <2>1
  <1> QED BY ONLY <1>1, <1>2 DEF Owned

\* Nothing is ahead of an array in the wrong order, and whole slots may come after anything.
LEMMA SlotsLast ==
    ASSUME NEW lev, NEW i, NEW j, j.op = "slot"
    PROVE  Apart(lev, i, j)
  BY DEF Apart, Owned

\* A subtree that has just been detached.
LEMMA DetachedFirst ==
    ASSUME NEW p, NEW lev, NEW nr \in Blocks, NEW depth \in 0 .. 3, lev[nr] = depth, Loose(p, lev, nr)
    PROVE  Detached(nr, depth) \in Items /\ ItemOK(p, lev, Detached(nr, depth))
           /\ Owned(Detached(nr, depth)) = {nr} /\ Detached(nr, depth).nr = nr
  <1> DEFINE item == Detached(nr, depth)
  <1>0. nr \in Nodes /\ nr # Inode
    BY NodeFacts
  <1>1. item \in Items /\ item.op = "subtree" /\ item.nr = nr /\ item.depth = depth /\ Owned(item) = {nr}
    BY <1>0, NewItems DEF Detached
  <1> HIDE DEF item
  <1>2. ItemOK(p, lev, item)
    BY <1>0, <1>1 DEF ItemOK
  <1> QED BY <1>1, <1>2 DEF item

\* One step on the slots of a node: none is left, or one is cleared.
LEMMA FreeArrayInv ==
    ASSUME Inv, NEW t \in Tasks, pc[t] = "free", UNCHANGED <<pc, mutex, foreign>>,
           NEW item \in Items, NEW rest \in Seq(Items), item.op = "array", FreeArray(t, item, rest),
           NEW lev \in Levels, Sound(lev), ItemOK(ptr, lev, item), WorkOK(ptr, lev, rest), Ahead(lev, item, rest)
    PROVE  Inv'
  <1>0. Tree(ptr, lev) /\ pc[t] \in {"shared", "free"} /\ pc' = [pc EXCEPT ![t] = "free"]
    BY DEF Sound, Inv, Typed
  <1>1. /\ item.nr \in Nodes /\ item.p \in Nat /\ item.q \in Nat /\ item.depth \in 0 .. 3
        /\ item.start \in Nat /\ item.count \in Nat
    BY ItemFields
  <1>2. /\ Leads(lev, item.nr)
        /\ item.nr = Inode => item.depth = 0 /\ item.q <= NDir
        /\ item.nr # Inode => lev[item.nr] = item.depth + 1 /\ item.q <= Ptrs
        /\ \A b \in Run(item) : b \in Blocks /\ lev[b] = 0 /\ Loose(ptr, lev, b)
        /\ Owned(item) = Run(item)
    BY <1>1 DEF ItemOK, Owned, Leads
  <1>3. item.nr \notin Run(item)
    BY <1>1, <1>2, NodeFacts
  <1>4. \A o \in item.p .. item.q - 1 : o \in Slots(item.nr) /\ Down(lev, item.nr, o) = item.depth
    <2> SUFFICES ASSUME NEW o \in item.p .. item.q - 1
                 PROVE  o \in Slots(item.nr) /\ Down(lev, item.nr, o) = item.depth
      OBVIOUS
    <2>1. CASE item.nr = Inode
      BY <1>1, <1>2, <2>1, PtrsNat DEF Slots, Down, SlotDepth, TIND
    <2>2. CASE item.nr # Inode
      BY <1>1, <1>2, <2>2, PtrsNat DEF Slots, Down
    <2> QED BY <2>1, <2>2
  <1>5. \A j \in 1 .. Len(rest) : Owned(rest[j]) \cap Run(item) = {} /\ (rest[j].op = "array" => rest[j].nr \notin Run(item))
    <2> SUFFICES ASSUME NEW j \in 1 .. Len(rest)
                 PROVE  Owned(rest[j]) \cap Run(item) = {} /\ (rest[j].op = "array" => rest[j].nr \notin Run(item))
      OBVIOUS
    <2>1. Apart(lev, item, rest[j]) /\ ItemOK(ptr, lev, rest[j]) /\ rest[j] \in Items
      BY DEF Ahead, WorkOK
    <2>2. rest[j].op = "array" => rest[j].nr # Inode /\ lev[rest[j].nr] = rest[j].depth + 1 /\ rest[j].depth \in 0 .. 3
      BY <2>1, ItemFields DEF Apart, ItemOK
    <2> QED BY <1>2, <2>1, <2>2 DEF Apart
  <1>6. Run(item) \in SUBSET Blocks /\ Run(item) \cap foreign = {}
    BY <1>2 DEF Sound
  <1> DEFINE slots == {o \in item.p .. item.q - 1 : ptr[item.nr][o] # 0}
             o == Min(slots)
             nr == ptr[item.nr][o]
             next == [item EXCEPT !.p = o + 1]
  <1>7. CASE free' = free \cup Run(item) /\ fr' = [fr EXCEPT ![t].work = rest] /\ ptr' = ptr
    <2>1. PICK lv \in Levels : /\ Tree(ptr, lv) /\ WorkOK(ptr, lv, rest)
                               /\ \A b \in Blocks : lv[b] = IF b \in Run(item) THEN -1 ELSE lev[b]
      <3>1. \A b \in Run(item) : Loose(ptr, lev, b)
        BY <1>2
      <3>2. PICK S \in SUBSET Blocks : S = Run(item)
        BY <1>6
      <3>3. /\ \A b \in S : Loose(ptr, lev, b)
            /\ \A j \in 1 .. Len(rest) : Owned(rest[j]) \cap S = {} /\ (rest[j].op = "array" => rest[j].nr \notin S)
        BY ONLY <1>5, <3>1, <3>2
      <3>4. \E lv \in Levels : /\ Tree(ptr, lv) /\ WorkOK(ptr, lv, rest)
                                /\ \A b \in Blocks : lv[b] = IF b \in S THEN -1 ELSE lev[b]
        BY ONLY <1>0, <3>3, WorkFreed, WorkOK(ptr, lev, rest), rest \in Seq(Items), S \in SUBSET Blocks
      <3> QED BY ONLY <3>2, <3>4
    <2>2. Sound(lv)'
      BY <1>6, <1>7, <2>1 DEF Sound
    <2>3. WorkOK(ptr', lv, rest)
      BY <1>7, <2>1
    <2> QED BY <1>0, <1>7, <2>2, <2>3, FreeStep
  <1>8. ASSUME slots # {}, ptr' = [ptr EXCEPT ![item.nr][o] = 0],
               \/ /\ item.depth > 0
                  /\ fr' = [fr EXCEPT ![t].work = <<Detached(nr, item.depth), next>> \o rest]
                  /\ UNCHANGED free
               \/ /\ item.depth = 0 /\ item.count > 0 /\ nr = item.start + item.count
                  /\ fr' = [fr EXCEPT ![t].work = <<[next EXCEPT !.count = @ + 1]>> \o rest]
                  /\ UNCHANGED free
               \/ /\ item.depth = 0
                  /\ free' = free \cup Run(item)
                  /\ fr' = [fr EXCEPT ![t].work = <<[next EXCEPT !.start = nr, !.count = 1]>> \o rest]
        PROVE  Inv'
    <2>1. o \in item.p .. item.q - 1 /\ ptr[item.nr][o] # 0
      <3>1. slots \in SUBSET Nat
        BY <1>1
      <3>2. Min(slots) \in slots
        <4> HIDE DEF slots
        <4> QED BY <1>8, <3>1, MinIsLeast
      <3>3. o \in slots
        BY <3>2
      <3> HIDE DEF o
      <3> QED BY <3>3
    <2> HIDE DEF o
    <2>2. o \in Slots(item.nr) /\ Down(lev, item.nr, o) = item.depth /\ o \in Nat
      BY <1>1, <1>4, <2>1
    <2>3. nr \in Blocks /\ lev[nr] = item.depth /\ ~Loose(ptr, lev, nr)
      <3>1. nr \in Blocks /\ lev[nr] = item.depth
        BY <1>0, <1>1, <1>2, <2>1, <2>2, EdgeFacts
      <3> QED BY <1>1, <1>2, <2>2, <3>1 DEF Loose
    <2> DEFINE q == ptr'
    <2>4. q = Store(ptr, item.nr, o, 0)
      BY <1>8 DEF Store
    <2>5. Tree(q, lev) /\ Loose(q, lev, nr) /\ \A b \in Blocks : Loose(ptr, lev, b) => Loose(q, lev, b)
      <3>1. PICK qq : qq = q
        OBVIOUS
      <3>2. Tree(qq, lev) /\ Loose(qq, lev, nr) /\ \A b \in Blocks : Loose(ptr, lev, b) => Loose(qq, lev, b)
        BY <1>0, <1>1, <1>2, <2>1, <2>2, <2>4, <3>1, Cleared
      <3> QED BY <3>1, <3>2
    <2> HIDE DEF q
    <2>6. WorkOK(q, lev, rest) /\ ItemOK(q, lev, item)
      BY <2>5, WorkKept
    <2>7. nr \notin Run(item) /\ \A j \in 1 .. Len(rest) : nr \notin Owned(rest[j])
      <3>1. \A j \in 1 .. Len(rest) : ItemOK(ptr, lev, rest[j])
        BY DEF WorkOK
      <3> QED BY <1>2, <2>3, <3>1 DEF ItemOK
    <2>8. /\ next \in Items /\ next.op = "array" /\ next.nr = item.nr /\ next.p = o + 1 /\ next.q = item.q
          /\ next.depth = item.depth /\ next.start = item.start /\ next.count = item.count
      <3>1. o + 1 \in Nat
        BY <2>2
      <3> QED BY <3>1 DEF Items
    <2> HIDE DEF nr, next, slots
    <2>9. CASE item.depth > 0 /\ fr' = [fr EXCEPT ![t].work = <<Detached(nr, item.depth), next>> \o rest] /\ UNCHANGED free
      <3>1. Owned(next) = Owned(item) /\ Run(next) = Run(item)
        BY <2>8 DEF Owned, Run
      <3>2. ItemOK(q, lev, next) /\ Ahead(lev, next, rest)
        BY <2>6, <2>8, <3>1 DEF ItemOK, Ahead, Apart
      <3> DEFINE one == <<next>> \o rest
                 det == Detached(nr, item.depth)
      <3>3. /\ one \in Seq(Items) /\ WorkOK(q, lev, one)
            /\ \A i : (Ahead(lev, i, rest) /\ Apart(lev, i, next)) => Ahead(lev, i, one)
        BY <2>6, <2>8, <3>2, WorkPush
      <3>4. det \in Items /\ ItemOK(q, lev, det) /\ Owned(det) = {nr} /\ det.nr = nr
        BY <1>1, <2>3, <2>5, DetachedFirst
      <3>5. <<det, next>> \o rest = <<det>> \o one
        BY <2>8, <3>4
      <3> HIDE DEF one, det
      <3>6. item.nr # Inode /\ lev[item.nr] = item.depth + 1 /\ nr # Inode /\ lev[nr] < lev[item.nr]
        BY <1>1, <1>2, <2>3, <2>9, NodeFacts
      <3>7. Apart(lev, det, next)
        BY <1>2, <2>7, <2>8, <3>1, <3>4, <3>6 DEF Apart
      <3>8. Ahead(lev, det, rest)
        <4> SUFFICES ASSUME NEW j \in 1 .. Len(rest) PROVE Apart(lev, det, rest[j])
          BY DEF Ahead
        <4>1. Apart(lev, item, rest[j]) /\ rest[j] \in Items
          BY DEF Ahead
        <4>2. rest[j].op = "array" => rest[j].nr \in Blocks /\ lev[item.nr] < lev[rest[j].nr] /\ rest[j].nr # Inode
          BY <4>1, ItemFields, NodeFacts DEF Apart
        <4>3. rest[j].op = "array" => lev[nr] < lev[rest[j].nr]
          BY <1>1, <2>3, <3>6, <4>2 DEF Levels
        <4> QED BY <2>7, <3>4, <3>6, <4>2, <4>3 DEF Apart
      <3>9. <<det>> \o one \in Seq(Items) /\ WorkOK(q, lev, <<det>> \o one)
        BY <3>3, <3>4, <3>7, <3>8, WorkPush
      <3> DEFINE work == <<det>> \o one
      <3>10. fr' = [fr EXCEPT ![t].work = work]
        BY <2>9, <3>5 DEF det
      <3> HIDE DEF work
      <3>11. Sound(lev)'
        BY <2>5, <2>9 DEF Sound, q
      <3>12. PICK w \in Seq(Items) : w = work
        BY <3>9 DEF work
      <3>13. WorkOK(ptr', lev, w) /\ fr' = [fr EXCEPT ![t].work = w]
        BY <3>9, <3>10, <3>12 DEF work, q
      <3> QED BY <1>0, <3>11, <3>13, FreeStep
    <2>10. CASE /\ item.depth = 0 /\ item.count > 0 /\ nr = item.start + item.count
                /\ fr' = [fr EXCEPT ![t].work = <<[next EXCEPT !.count = @ + 1]>> \o rest]
                /\ UNCHANGED free
      <3>1. PICK i : i = [next EXCEPT !.count = item.count + 1]
        OBVIOUS
      <3>2. /\ i \in Items /\ i.op = "array" /\ i.nr = item.nr /\ i.q = item.q /\ i.depth = item.depth
            /\ i.start = item.start /\ i.count = item.count + 1
        <4>1. item.count + 1 \in Nat
          BY <1>1
        <4> QED BY <2>8, <3>1, <4>1 DEF Items
      <3>3. Run(i) = Run(item) \cup {nr} /\ Owned(i) = Run(item) \cup {nr}
        <4> DEFINE a == item.start
                   c == item.count
        <4>1. a \in Nat /\ c \in Nat
          BY <1>1
        <4>2. Run(i) = a .. a + (c + 1) - 1 /\ Run(item) = a .. a + c - 1 /\ nr = a + c
          BY <2>10, <3>2 DEF Run
        <4> HIDE DEF a, c
        <4>3. Run(i) = Run(item) \cup {nr}
          BY <4>1, <4>2
        <4> QED BY <3>2, <4>3 DEF Owned
      <3>4. ItemOK(q, lev, i)
        <4>1. \A b \in Run(item) \cup {nr} : b \in Blocks /\ lev[b] = 0 /\ Loose(q, lev, b)
          BY <1>2, <2>3, <2>5, <2>10
        <4> QED BY <1>2, <2>10, <3>2, <3>3, <4>1 DEF ItemOK
      <3>5. Ahead(lev, i, rest)
        <4> SUFFICES ASSUME NEW j \in 1 .. Len(rest) PROVE Apart(lev, i, rest[j])
          BY DEF Ahead
        <4>1. Apart(lev, item, rest[j])
          BY DEF Ahead
        <4> QED BY <1>2, <2>7, <3>2, <3>3, <4>1 DEF Apart
      <3>6. PICK w : w = <<i>> \o rest
        OBVIOUS
      <3>7. w \in Seq(Items) /\ WorkOK(q, lev, w)
        BY <2>6, <3>2, <3>4, <3>5, <3>6, WorkPush
      <3>8. fr' = [fr EXCEPT ![t].work = w]
        BY <2>8, <2>10, <3>1, <3>6
      <3>9. Sound(lev)' /\ WorkOK(ptr', lev, w)
        BY <2>5, <2>10, <3>7 DEF Sound, q
      <3> QED BY <1>0, <3>7, <3>8, <3>9, FreeStep
    <2>11. CASE /\ item.depth = 0
                /\ free' = free \cup Run(item)
                /\ fr' = [fr EXCEPT ![t].work = <<[next EXCEPT !.start = nr, !.count = 1]>> \o rest]
      <3>1. PICK i : i = [next EXCEPT !.start = nr, !.count = 1]
        OBVIOUS
      <3>2. /\ i \in Items /\ i.op = "array" /\ i.nr = item.nr /\ i.q = item.q /\ i.depth = item.depth
            /\ i.start = nr /\ i.count = 1
        <4>1. nr \in Nat /\ 1 \in Nat
          BY <2>3 DEF Blocks
        <4> QED BY <2>8, <3>1, <4>1 DEF Items
      <3>3. Run(i) = {nr} /\ Owned(i) = {nr}
        <4>1. Run(i) = nr .. nr + 1 - 1 /\ nr \in Nat
          BY <2>3, <3>2 DEF Run, Blocks
        <4>2. Run(i) = {nr}
          BY <4>1
        <4> QED BY <3>2, <4>2 DEF Owned
      <3>4. ItemOK(q, lev, i)
        BY <1>2, <2>3, <2>5, <2>11, <3>2, <3>3 DEF ItemOK
      <3>5. Ahead(lev, i, rest)
        <4> SUFFICES ASSUME NEW j \in 1 .. Len(rest) PROVE Apart(lev, i, rest[j])
          BY DEF Ahead
        <4>1. Apart(lev, item, rest[j])
          BY DEF Ahead
        <4> QED BY <2>7, <3>2, <3>3, <4>1 DEF Apart
      <3>6. PICK w : w = <<i>> \o rest
        OBVIOUS
      <3>7. w \in Seq(Items) /\ WorkOK(q, lev, w)
        BY <2>6, <3>2, <3>4, <3>5, <3>6, WorkPush
      <3>8. fr' = [fr EXCEPT ![t].work = w]
        BY <2>11, <3>1, <3>6
      <3>9. \A j \in 1 .. Len(w) : Owned(w[j]) \cap Run(item) = {} /\ (w[j].op = "array" => w[j].nr \notin Run(item))
        <4> SUFFICES ASSUME NEW j \in 1 .. Len(w)
                     PROVE  Owned(w[j]) \cap Run(item) = {} /\ (w[j].op = "array" => w[j].nr \notin Run(item))
          OBVIOUS
        <4>1. w[j] = i \/ \E m \in 1 .. Len(rest) : w[j] = rest[m]
          <5>1. PICK m \in Nat : Len(rest) = m
            OBVIOUS
          <5>2. Len(w) = m + 1 /\ w[1] = i /\ \A n \in 2 .. m + 1 : w[n] = rest[n - 1]
            BY <3>2, <3>6, <5>1
          <5>3. j = 1 \/ (j \in 2 .. m + 1 /\ j - 1 \in 1 .. m)
            BY <5>2
          <5> QED BY <5>1, <5>2, <5>3
        <4>2. CASE w[j] = i
          BY <1>3, <2>7, <3>2, <3>3, <4>2
        <4>3. CASE \E m \in 1 .. Len(rest) : w[j] = rest[m]
          BY <1>5, <4>3
        <4> QED BY <4>1, <4>2, <4>3
      <3>10. PICK lv \in Levels : /\ Tree(q, lv) /\ WorkOK(q, lv, w)
                                  /\ \A b \in Blocks : lv[b] = IF b \in Run(item) THEN -1 ELSE lev[b]
        <4>1. \A b \in Run(item) : Loose(q, lev, b)
          BY <1>2, <2>5
        <4> QED BY <1>6, <2>5, <3>7, <3>9, <4>1, WorkFreed
      <3>11. Sound(lv)' /\ WorkOK(ptr', lv, w)
        BY <1>6, <2>11, <3>10 DEF Sound, q
      <3> QED BY <1>0, <3>7, <3>8, <3>11, FreeStep
    <2> QED BY <1>8, <2>9, <2>10, <2>11 DEF nr, next
  <1> QED BY <1>7, <1>8 DEF FreeArray

\* A block with no more pointers is freed.
LEMMA FreeBlockInv ==
    ASSUME Inv, NEW t \in Tasks, pc[t] = "free", UNCHANGED <<pc, mutex, foreign, ptr>>,
           NEW item \in Items, NEW rest \in Seq(Items), item.op = "block",
           free' = free \cup {item.nr}, fr' = [fr EXCEPT ![t].work = rest],
           NEW lev \in Levels, Sound(lev), ItemOK(ptr, lev, item), WorkOK(ptr, lev, rest), Ahead(lev, item, rest)
    PROVE  Inv'
  <1>0. Tree(ptr, lev) /\ pc[t] \in {"shared", "free"} /\ pc' = [pc EXCEPT ![t] = "free"]
    BY DEF Sound, Inv, Typed
  <1>1. PICK S : S = {item.nr}
    OBVIOUS
  <1>2. Owned(item) = S /\ S \in SUBSET Blocks /\ item.nr \in Blocks /\ lev[item.nr] >= 0 /\ Loose(ptr, lev, item.nr)
    BY <1>1 DEF ItemOK, Owned
  <1>3. \A b \in S : Loose(ptr, lev, b)
    BY <1>1, <1>2
  <1>4. \A j \in 1 .. Len(rest) : Owned(rest[j]) \cap S = {} /\ (rest[j].op = "array" => rest[j].nr \notin S)
    <2> SUFFICES ASSUME NEW j \in 1 .. Len(rest)
                 PROVE  Owned(rest[j]) \cap S = {} /\ (rest[j].op = "array" => rest[j].nr \notin S)
      OBVIOUS
    <2>1. Apart(lev, item, rest[j])
      BY DEF Ahead
    <2>2. rest[j].op = "array" => lev[item.nr] < lev[rest[j].nr]
      BY <2>1 DEF Apart
    <2>3. lev[item.nr] \in Int
      BY <1>2 DEF Levels
    <2> QED BY <1>1, <1>2, <2>1, <2>2, <2>3 DEF Apart
  <1>5. PICK lv \in Levels : /\ Tree(ptr, lv) /\ WorkOK(ptr, lv, rest)
                             /\ \A b \in Blocks : lv[b] = IF b \in S THEN -1 ELSE lev[b]
    <2>1. PICK T \in SUBSET Blocks : T = S
      BY <1>2
    <2>2. /\ \A b \in T : Loose(ptr, lev, b)
          /\ \A j \in 1 .. Len(rest) : Owned(rest[j]) \cap T = {} /\ (rest[j].op = "array" => rest[j].nr \notin T)
      BY ONLY <1>3, <1>4, <2>1
    <2>3. \E lv \in Levels : /\ Tree(ptr, lv) /\ WorkOK(ptr, lv, rest)
                              /\ \A b \in Blocks : lv[b] = IF b \in T THEN -1 ELSE lev[b]
      BY ONLY <1>0, <2>2, WorkFreed, WorkOK(ptr, lev, rest), rest \in Seq(Items), T \in SUBSET Blocks
    <2> QED BY ONLY <2>1, <2>3
  <1>6. item.nr \notin foreign
    BY <1>2 DEF Sound
  <1>7. Sound(lv)' /\ WorkOK(ptr', lv, rest)
    BY <1>1, <1>2, <1>5, <1>6 DEF Sound
  <1> QED BY <1>0, <1>7, FreeStep

\* A detached subtree: its top is read and its slots come first, or it is data.
LEMMA FreeSubtreeInv ==
    ASSUME Inv, NEW t \in Tasks, pc[t] = "free", UNCHANGED <<pc, mutex, foreign, ptr, free>>,
           NEW item \in Items, NEW rest \in Seq(Items), item.op = "subtree", FreeSubtree(t, item, rest),
           NEW lev \in Levels, Sound(lev), ItemOK(ptr, lev, item), WorkOK(ptr, lev, rest), Ahead(lev, item, rest)
    PROVE  Inv'
  <1>0. pc[t] \in {"shared", "free"} /\ pc' = [pc EXCEPT ![t] = "free"] /\ Sound(lev)'
    BY DEF Sound, Inv, Typed
  <1>1. PICK nr \in Blocks, depth \in 0 .. 3 :
            nr = item.nr /\ depth = item.depth /\ lev[nr] = depth /\ Loose(ptr, lev, nr) /\ Owned(item) = {nr}
    BY ItemFields DEF ItemOK, Owned
  <1>2. nr \in Nodes /\ nr # Inode /\ 0 \in Nat /\ Ptrs \in Nat
    BY NodeFacts, PtrsNat
  <1>3. PICK one : one = FreeOne(nr)
    OBVIOUS
  <1>4. one \in Items /\ one.op = "block" /\ one.nr = nr /\ Owned(one) = {nr}
    BY <1>2, <1>3, NewItems DEF FreeOne
  <1>5. ItemOK(ptr, lev, one) /\ Ahead(lev, one, rest)
    <2>1. ItemOK(ptr, lev, one)
      BY <1>1, <1>2, <1>4 DEF ItemOK
    <2>2. Ahead(lev, one, rest)
      BY <1>1, <1>4 DEF Ahead, Apart
    <2> QED BY <2>1, <2>2
  <1>6. PICK w : w = <<one>> \o rest
    OBVIOUS
  <1>7. /\ w \in Seq(Items) /\ WorkOK(ptr, lev, w)
        /\ \A i : (Ahead(lev, i, rest) /\ Apart(lev, i, one)) => Ahead(lev, i, w)
    BY <1>4, <1>5, <1>6, WorkPush
  <1>8. CASE fr' = [fr EXCEPT ![t].work = <<FreeOne(item.nr)>> \o rest]
    <2>1. fr' = [fr EXCEPT ![t].work = w] /\ WorkOK(ptr', lev, w)
      BY <1>1, <1>3, <1>6, <1>7, <1>8
    <2> QED BY <1>0, <1>7, <2>1, FreeStep
  <1>9. CASE /\ item.depth > 0
             /\ fr' = [fr EXCEPT ![t].work = <<Array(item.nr, 0, Ptrs, item.depth - 1), FreeOne(item.nr)>> \o rest]
    <2>1. PICK d \in 0 .. 3 : d = depth - 1
      BY <1>1, <1>9
    <2>2. PICK a : a = Array(nr, 0, Ptrs, d)
      OBVIOUS
    <2>3. /\ a \in Items /\ a.op = "array" /\ a.nr = nr /\ a.q = Ptrs /\ a.depth = d
          /\ Run(a) = {} /\ Owned(a) = {}
      BY ONLY <1>2, <2>2, NewArray, d \in 0 .. 3
    <2>4. ItemOK(ptr, lev, a)
      BY <1>1, <1>2, <2>1, <2>3 DEF ItemOK
    <2>5. Apart(lev, a, one)
      BY <1>4, <2>3 DEF Apart
    <2>6. Ahead(lev, a, rest)
      <3> SUFFICES ASSUME NEW j \in 1 .. Len(rest) PROVE Apart(lev, a, rest[j])
        BY DEF Ahead
      <3>1. Apart(lev, item, rest[j])
        BY DEF Ahead
      <3> QED BY <1>1, <2>3, <3>1 DEF Apart
    <2>7. PICK v : v = <<a>> \o w
      OBVIOUS
    <2>8. v \in Seq(Items) /\ WorkOK(ptr, lev, v)
      BY <1>7, <2>3, <2>4, <2>5, <2>6, <2>7, WorkPush
    <2>9. v = <<a, one>> \o rest
      BY <1>4, <1>6, <2>3, <2>7
    <2>10. fr' = [fr EXCEPT ![t].work = v] /\ WorkOK(ptr', lev, v)
      BY <1>1, <1>3, <1>9, <2>1, <2>2, <2>8, <2>9
    <2> QED BY <1>0, <2>8, <2>10, FreeStep
  <1>10. CASE fr' = [fr EXCEPT ![t].work = rest]
    <2>1. WorkOK(ptr', lev, rest)
      OBVIOUS
    <2> QED BY <1>0, <1>10, <2>1, FreeStep
  <1> QED BY <1>8, <1>9, <1>10 DEF FreeSubtree

\* A whole slot of i_data.
LEMMA FreeSlotInv ==
    ASSUME Inv, NEW t \in Tasks, pc[t] = "free", UNCHANGED <<pc, mutex, foreign, free>>,
           NEW item \in Items, NEW rest \in Seq(Items), item.op = "slot", FreeSlot(t, item, rest),
           NEW lev \in Levels, Sound(lev), ItemOK(ptr, lev, item), WorkOK(ptr, lev, rest), Ahead(lev, item, rest)
    PROVE  Inv'
  <1>0. pc[t] \in {"shared", "free"} /\ pc' = [pc EXCEPT ![t] = "free"] /\ Tree(ptr, lev)
    BY DEF Sound, Inv, Typed
  <1>1. /\ item.nr = Inode /\ item.p \in Slots(Inode) /\ item.depth \in 0 .. 3 /\ item.depth = SlotDepth(item.p)
        /\ Leads(lev, Inode) /\ Inode \in Nodes
    BY ItemFields, NodeFacts, PtrsNat DEF ItemOK, IND, TIND, Leads
  <1>2. PICK nr, q : nr = ptr[Inode][item.p] /\ q = ptr'
    OBVIOUS
  <1>3. CASE fr' = [fr EXCEPT ![t].work = rest] /\ ptr' = ptr
    <2>1. Sound(lev)' /\ WorkOK(ptr', lev, rest)
      BY <1>3 DEF Sound
    <2> QED BY <1>0, <1>3, <2>1, FreeStep
  <1>4. CASE /\ nr # 0 /\ ptr' = [ptr EXCEPT ![Inode][item.p] = 0]
             /\ fr' = [fr EXCEPT ![t].work = <<Detached(nr, item.depth)>> \o rest]
    <2>1. q = Store(ptr, Inode, item.p, 0)
      BY <1>2, <1>4 DEF Store
    <2>2. Tree(q, lev) /\ Loose(q, lev, nr) /\ \A b \in Blocks : Loose(ptr, lev, b) => Loose(q, lev, b)
      BY <1>0, <1>1, <1>2, <1>4, <2>1, Cleared
    <2>3. nr \in Blocks /\ lev[nr] = item.depth /\ ~Loose(ptr, lev, nr)
      <3>1. nr \in Blocks /\ lev[nr] = Down(lev, Inode, item.p)
        BY <1>0, <1>1, <1>2, <1>4, EdgeFacts
      <3> QED BY <1>1, <1>2, <3>1 DEF Down, Loose
    <2>4. WorkOK(q, lev, rest)
      BY <2>2, WorkKept
    <2>5. PICK det : det = Detached(nr, item.depth)
      OBVIOUS
    <2>6. det \in Items /\ ItemOK(q, lev, det) /\ Owned(det) = {nr}
      BY <1>1, <2>2, <2>3, <2>5, DetachedFirst
    <2>7. Ahead(lev, det, rest)
      <3> SUFFICES ASSUME NEW j \in 1 .. Len(rest) PROVE Apart(lev, det, rest[j])
        BY DEF Ahead
      <3>1. Apart(lev, item, rest[j]) /\ ItemOK(ptr, lev, rest[j])
        BY DEF Ahead, WorkOK
      <3>2. rest[j].op # "array" /\ nr \notin Owned(rest[j])
        BY <1>1, <2>3, <3>1 DEF Apart, ItemOK
      <3> QED BY <2>6, <3>2 DEF Apart
    <2>8. PICK w : w = <<det>> \o rest
      OBVIOUS
    <2>9. w \in Seq(Items) /\ WorkOK(q, lev, w)
      BY <2>4, <2>6, <2>7, <2>8, WorkPush
    <2>10. fr' = [fr EXCEPT ![t].work = w] /\ WorkOK(ptr', lev, w) /\ Sound(lev)'
      BY <1>2, <1>4, <2>2, <2>5, <2>8, <2>9 DEF Sound
    <2> QED BY <1>0, <2>9, <2>10, FreeStep
  <1> QED BY <1>2, <1>3, <1>4 DEF FreeSlot

\* One step of kr_free_data, kr_free_branches and do_indirects.
LEMMA FreeWorkInv == ASSUME Inv, NEW t \in Tasks, FreeWork(t) PROVE Inv'
  <1>0. pc[t] = "free" /\ fr[t].work # <<>> /\ UNCHANGED <<pc, mutex, foreign>>
    BY DEF FreeWork, At, locks
  <1>1. PICK lev \in Levels : Sound(lev) /\ WorkOK(ptr, lev, fr[t].work)
    BY <1>0 DEF Inv, LevelInv, HandOK
  <1>2. fr[t].work \in Seq(Items)
    BY PathFacts, FrameFields
  <1>3. PICK item \in Items, rest \in Seq(Items) :
            /\ item = Head(fr[t].work) /\ rest = Tail(fr[t].work)
            /\ ItemOK(ptr, lev, item) /\ WorkOK(ptr, lev, rest) /\ Ahead(lev, item, rest)
    BY <1>0, <1>1, <1>2, WorkTail
  <1>4. CASE item.op = "array" /\ FreeArray(t, item, rest)
    BY <1>0, <1>1, <1>3, <1>4, FreeArrayInv
  <1>5. CASE item.op = "subtree" /\ FreeSubtree(t, item, rest) /\ UNCHANGED <<ptr, free>>
    BY <1>0, <1>1, <1>3, <1>5, FreeSubtreeInv
  <1>6. CASE item.op = "slot" /\ FreeSlot(t, item, rest) /\ UNCHANGED free
    BY <1>0, <1>1, <1>3, <1>6, FreeSlotInv
  <1>7. CASE item.op = "block" /\ free' = free \cup {item.nr} /\ fr' = [fr EXCEPT ![t].work = rest] /\ UNCHANGED ptr
    BY <1>0, <1>1, <1>3, <1>7, FreeBlockInv
  <1> QED BY <1>3, <1>4, <1>5, <1>6, <1>7 DEF FreeWork

\* The slots of i_data that are left for the end.
LEMMA RemainingFacts ==
    ASSUME NEW p, NEW lev, NEW slot \in 0 .. TIND
    PROVE  /\ Remaining(slot) \in Seq(Items) /\ WorkOK(p, lev, Remaining(slot))
           /\ \A i : Ahead(lev, i, Remaining(slot))
  <1> DEFINE all == <<WholeSlot(IND), WholeSlot(DIND), WholeSlot(TIND)>>
             r == Remaining(slot)
  <1>0. Inode \in Nodes /\ NDir \in Nat /\ NDir >= 1 /\ 0 \in Nat
    BY NodeFacts, PtrsNat
  <1>1. ASSUME NEW s \in {IND, DIND, TIND}
        PROVE  WholeSlot(s) \in Items /\ WholeSlot(s).op = "slot" /\ ItemOK(p, lev, WholeSlot(s))
    <2> DEFINE w == WholeSlot(s)
    <2>1. s \in IND .. TIND /\ s - NDir + 1 \in 0 .. 3 /\ s \in Nat /\ SlotDepth(s) = s - NDir + 1
      BY <1>0 DEF IND, DIND, TIND, SlotDepth
    <2>2. /\ w.op = "slot" /\ w.nr = Inode /\ w.p = s /\ w.depth = s - NDir + 1 /\ w.q = 0
          /\ w.start = 0 /\ w.count = 0 /\ w \in Items
      BY <1>0, <2>1 DEF WholeSlot, Item, Items
    <2> HIDE DEF w
    <2>3. Owned(w) = {}
      BY <2>2 DEF Owned
    <2>4. ItemOK(p, lev, w)
      BY <2>1, <2>2, <2>3 DEF ItemOK
    <2> QED BY <2>2, <2>4 DEF w
  <1>2. all \in Seq(Items) /\ Len(all) = 3 /\ \A j \in 1 .. 3 : all[j].op = "slot" /\ ItemOK(p, lev, all[j])
    <2> DEFINE a == WholeSlot(IND)  b == WholeSlot(DIND)  c == WholeSlot(TIND)
    <2>1. /\ a \in Items /\ b \in Items /\ c \in Items
          /\ a.op = "slot" /\ b.op = "slot" /\ c.op = "slot"
          /\ ItemOK(p, lev, a) /\ ItemOK(p, lev, b) /\ ItemOK(p, lev, c)
      BY <1>1
    <2> HIDE DEF a, b, c
    <2>2. <<a, b, c>> \in Seq(Items) /\ Len(<<a, b, c>>) = 3
          /\ \A j \in 1 .. 3 : <<a, b, c>>[j].op = "slot" /\ ItemOK(p, lev, <<a, b, c>>[j])
      BY <2>1
    <2> QED BY <2>2 DEF a, b, c
  <1>3. PICK m \in 1 .. 4 : r = SubSeq(all, m, 3)
    <2> DEFINE m == IF slot < NDir THEN 1 ELSE slot - NDir + 2
    <2>1. m \in 1 .. 4
      BY <1>0 DEF TIND
    <2>2. r = SubSeq(all, m, 3)
      BY DEF Remaining
    <2> HIDE DEF m
    <2> QED BY <2>1, <2>2
  <1> HIDE DEF all, r
  <1>4. r \in Seq(Items) /\ \A j \in 1 .. Len(r) : r[j].op = "slot" /\ ItemOK(p, lev, r[j])
    <2>1. r \in Seq(Items) /\ Len(r) = 4 - m
      <3>4. all \in Seq(Items) /\ Len(all) = 3
        BY <1>2
      <3>0. \A i \in 1 .. 3 : all[i] \in Items
        BY ONLY <3>4
      <3>1. m \in Int /\ 3 \in Int /\ \A i \in m .. 3 : all[i] \in Items
        BY ONLY <3>0, m \in 1 .. 4
      <3>2. /\ SubSeq(all, m, 3) \in Seq(Items)
            /\ Len(SubSeq(all, m, 3)) = IF m <= 3 THEN 3 - m + 1 ELSE 0
        BY ONLY <3>1, SubSeqProperties
      <3> QED BY <1>3, <3>2
    <2>2. ASSUME NEW j \in 1 .. Len(r) PROVE r[j].op = "slot" /\ ItemOK(p, lev, r[j])
      <3>1. m + j - 1 \in 1 .. 3 /\ r[j] = all[m + j - 1]
        BY ONLY <1>2, <1>3, <2>1, m \in 1 .. 4, j \in 1 .. Len(r)
      <3> QED BY ONLY <1>2, <3>1
    <2> QED BY <2>1, <2>2
  <1>5. \A i : Ahead(lev, i, r)
    BY <1>4, SlotsLast DEF Ahead
  <1>6. WorkOK(p, lev, r)
    BY <1>4, SlotsLast DEF WorkOK
  <1> QED BY <1>4, <1>5, <1>6 DEF r

\* The path of the first block to go.
LEMMA TruncatePathFacts ==
    ASSUME Inv, NEW t \in Tasks
    PROVE  /\ TruncatePath(t) = Offsets(fr[t].size) /\ fr[t].size \in Nat
           /\ TruncatePath(t) = <<>> \/ IsPath(TruncatePath(t))
  <1>1. fr[t].size \in Nat
    BY PathFacts, FrameFields
  <1> QED BY <1>1, PathsArePaths DEF TruncatePath

\* The start of __kr_truncate_blocks.
LEMMA TruncateInv == ASSUME Inv, NEW t \in Tasks, Truncate(t) PROVE Inv'
  <1>0. pc[t] = "truncate" /\ mutex = None /\ UNCHANGED disk
    BY DEF Truncate, At
  <1>1. PICK path : path = TruncatePath(t) /\ path = Offsets(fr[t].size) /\ (path = <<>> \/ IsPath(path))
    BY TruncatePathFacts
  <1>2. fr[t] \in Frames /\ DOMAIN fr = Tasks
    BY PathFacts
  <1>3. PICK lev \in Levels : Sound(lev)
    BY DEF Inv, LevelInv
  <1>4. ptr' = ptr /\ free' = free /\ foreign' = foreign /\ Sound(lev)'
    BY <1>0, <1>3 DEF disk, Sound
  <1>5. CASE Finish(t)
    <2>1. Moves(t, "idle", NoCall)
      BY <1>5 DEF Finish, Moves, Goto
    <2> QED BY <1>0, <2>1, PlainStep, NoCallTyped
  <1>6. CASE /\ Len(path) = 1 /\ mutex' = t /\ Goto(t, "free")
             /\ fr' = [fr EXCEPT ![t].work = <<Array(Inode, path[1], NDir, 0)>> \o Remaining(path[1])]
    <2>1. path[1] \in 0 .. TIND /\ path[1] \in Nat /\ Inode \in Nodes /\ NDir \in Nat /\ 0 \in 0 .. 3
      BY <1>1, <1>6, NodeFacts, PtrsNat DEF IsPath, TIND
    <2>2. PICK a, r : a = Array(Inode, path[1], NDir, 0) /\ r = Remaining(path[1])
      OBVIOUS
    <2>3. a \in Items /\ a.op = "array" /\ a.nr = Inode /\ a.q = NDir /\ a.depth = 0 /\ Run(a) = {} /\ Owned(a) = {}
      BY ONLY <2>1, <2>2, NewArray
    <2>4. ItemOK(ptr, lev, a)
      BY <2>1, <2>3 DEF ItemOK
    <2>5. r \in Seq(Items) /\ WorkOK(ptr, lev, r) /\ Ahead(lev, a, r)
      BY ONLY <2>1, <2>2, RemainingFacts
    <2>6. PICK w : w = <<a>> \o r
      OBVIOUS
    <2>7. w \in Seq(Items) /\ WorkOK(ptr, lev, w)
      BY <2>3, <2>4, <2>5, <2>6, WorkPush
    <2>8. PICK g : g = [fr[t] EXCEPT !.work = w]
      OBVIOUS
    <2>9. g \in Frames /\ g.work = w
      BY <1>2, <2>7, <2>8 DEF Frames
    <2>10. Moves(t, "free", g)
      BY <1>2, <1>6, <2>2, <2>6, <2>8 DEF Moves, Goto
    <2>11. "free" \in Labels /\ LocalOK("free", g)
      BY DEF Labels, Cutting, LocalOK, Walking, Mapping
    <2>12. HandOK(lev, "free", g)'
      BY <1>4, <2>7, <2>9 DEF HandOK
    <2>13. mutex \in {t, None} /\ mutex' = t
      BY <1>0, <1>6
    <2> QED BY <1>4, <2>9, <2>10, <2>11, <2>12, <2>13, HolderStep
  <1>7. CASE Len(path) > 1 /\ mutex' = t /\ Goto(t, "shared") /\ UNCHANGED fr
    <2>1. PICK f \in Frames : f = fr[t]
      BY <1>2
    <2>2. "shared" \in Labels
      BY DEF Labels, Cutting
    <2>3. Moves(t, "shared", f)
      BY <1>7, <2>1, <2>2, SameFrame
    <2>4. LocalOK("shared", f)
      BY <1>1, <1>7, <2>1 DEF LocalOK, Walking, Mapping
    <2>5. HandOK(lev, "shared", f)'
      BY DEF HandOK
    <2>6. mutex \in {t, None} /\ mutex' = t
      BY <1>0, <1>7
    <2> QED BY <1>4, <2>2, <2>3, <2>4, <2>5, <2>6, HolderStep
  <1> QED BY <1>1, <1>5, <1>6, <1>7 DEF Truncate

\* What kr_find_shared leaves to be freed.
LEMMA SharedWorkFacts ==
    ASSUME NEW q, NEW lev, Tree(q, lev), NEW path, IsPath(path), NEW n, n = Len(path),
           NEW chain, NEW p \in 1 .. 4, p <= n,
           \A j \in 1 .. p : Edge(ptr, lev, path, j, chain[j].bh) /\ chain[j].off = path[j],
           NEW top, top = 0 \/ (top \in Blocks /\ lev[top] = n - p /\ Loose(q, lev, top)),
           NEW past \in 0 .. 1
    PROVE  SharedWork(n, chain, p, top, past) \in Seq(Items) /\ WorkOK(q, lev, SharedWork(n, chain, p, top, past))
  <1>0. n \in 1 .. 4 /\ Ptrs \in Nat
    BY PtrsNat DEF IsPath
  <1> DEFINE E(j) == LET s == p - j + 1
                     IN  Array(chain[s].bh, chain[s].off + (IF s = p THEN past ELSE 1), Ptrs, n - s)
             ends == [j \in 1 .. p - 1 |-> E(j)]
             first == IF top = 0 THEN <<>> ELSE <<Detached(top, n - p)>>
  <1>1. SharedWork(n, chain, p, top, past) = first \o ends
    BY DEF SharedWork
  <1>2. ASSUME NEW j \in 1 .. p - 1
        PROVE  /\ E(j) \in Items /\ E(j).op = "array" /\ Run(E(j)) = {} /\ Owned(E(j)) = {}
               /\ E(j).nr \in Blocks /\ E(j).nr # Inode /\ lev[E(j).nr] = (n - p) + j
               /\ E(j).depth = ((n - p) + j) - 1 /\ E(j).q = Ptrs
    <2>1. PICK s \in 2 .. 4 : s = p - j + 1 /\ s \in 1 .. p
      BY <1>0
    <2>2. PICK x, o : x = chain[s].bh /\ o = chain[s].off + (IF s = p THEN past ELSE 1)
      OBVIOUS
    <2>3. Edge(ptr, lev, path, s, x) /\ chain[s].off = path[s]
      BY <2>1, <2>2
    <2>4. x \in Nodes /\ x # Inode /\ Down(lev, x, path[s]) = n - s
      BY <2>1, <2>3 DEF Edge
    <2>5. lev[x] = (n - s) + 1 /\ x \in Blocks
      <3>1. x \in Blocks /\ lev[x] - 1 = n - s
        BY <2>4, NodeFacts DEF Down
      <3>2. lev[x] \in Int
        BY <3>1 DEF Tree, Levels
      <3> QED BY <1>0, <3>1, <3>2
    <2>6. path[s] \in Digit
      <3>1. s \in 2 .. Len(path)
        BY <1>0, <2>1
      <3> QED BY <3>1 DEF IsPath
    <2>7. o \in Nat
      BY <2>2, <2>3, <2>6, PtrsNat DEF Digit
    <2>8. PICK d \in 0 .. 3 : d = n - s
      <3>1. n - s \in 0 .. 3
        BY ONLY <1>0, <2>1, p \in 1 .. 4, p <= n, s \in 2 .. 4
      <3> QED BY <3>1
    <2>9. PICK a : a = Array(x, o, Ptrs, d)
      OBVIOUS
    <2>10. /\ a \in Items /\ a.op = "array" /\ a.nr = x /\ a.q = Ptrs /\ a.depth = d
           /\ Run(a) = {} /\ Owned(a) = {}
      BY ONLY <1>0, <2>4, <2>7, <2>9, NewArray, d \in 0 .. 3
    <2>11. E(j) = a
      BY <2>1, <2>2, <2>8, <2>9
    <2>12. n - s = ((n - p) + j) - 1 /\ (n - s) + 1 = (n - p) + j
      BY <1>0, <2>1
    <2> HIDE DEF E
    <2> QED BY <2>4, <2>5, <2>8, <2>10, <2>11, <2>12
  <1> HIDE DEF E
  <1>3. ends \in Seq(Items) /\ Len(ends) = p - 1 /\ \A j \in 1 .. p - 1 : ends[j] = E(j)
    <2>1. p - 1 \in Nat
      OBVIOUS
    <2>2. ends \in [1 .. p - 1 -> Items]
      BY <1>2
    <2>3. \A j \in 1 .. p - 1 : ends[j] = E(j)
      OBVIOUS
    <2> HIDE DEF ends
    <2> QED BY <2>1, <2>2, <2>3
  <1> HIDE DEF ends
  <1>4. WorkOK(q, lev, ends)
    <2>1. \A j \in 1 .. Len(ends) : ItemOK(q, lev, ends[j])
      <3> SUFFICES ASSUME NEW j \in 1 .. p - 1 PROVE ItemOK(q, lev, E(j))
        BY <1>3
      <3>1. ((n - p) + j) - 1 + 1 = (n - p) + j
        BY <1>0
      <3> QED BY <1>0, <1>2, <3>1 DEF ItemOK
    <2>2. \A i, j \in 1 .. Len(ends) : i < j => Apart(lev, ends[i], ends[j])
      <3> SUFFICES ASSUME NEW i \in 1 .. p - 1, NEW j \in 1 .. p - 1, i < j PROVE Apart(lev, E(i), E(j))
        BY <1>3
      <3>1. (n - p) + i < (n - p) + j
        BY <1>0
      <3> QED BY <1>2, <3>1 DEF Apart
    <2> QED BY <2>1, <2>2 DEF WorkOK
  <1>5. CASE top = 0
    <2>1. first \o ends = ends
      BY <1>3, <1>5
    <2> QED BY <1>1, <1>3, <1>4, <2>1
  <1>6. CASE top # 0
    <2>1. PICK d \in 0 .. 3 : d = n - p
      BY <1>0
    <2>5. PICK det : det = Detached(top, d)
      OBVIOUS
    <2>2. det \in Items /\ ItemOK(q, lev, det) /\ Owned(det) = {top} /\ det.nr = top /\ top \in Blocks /\ top # Inode
      BY <1>6, <2>1, <2>5, DetachedFirst, NodeFacts
    <2>3. Ahead(lev, det, ends)
      <3> SUFFICES ASSUME NEW j \in 1 .. p - 1 PROVE Apart(lev, det, E(j))
        BY <1>3 DEF Ahead
      <3>1. lev[top] < (n - p) + j
        BY <1>0, <1>6
      <3> QED BY <1>2, <2>2, <3>1 DEF Apart
    <2>4. <<det>> \o ends \in Seq(Items) /\ WorkOK(q, lev, <<det>> \o ends)
      BY <1>3, <1>4, <2>2, <2>3, WorkPush
    <2> QED BY <1>1, <1>6, <2>1, <2>4, <2>5
  <1> QED BY <1>5, <1>6

\* kr_find_shared: the branch is cut where nothing to its left is kept.
LEMMA FindSharedInv == ASSUME Inv, NEW t \in Tasks, FindShared(t) PROVE Inv'
  <1>0. pc[t] = "shared" /\ pc[t] \in Holding /\ UNCHANGED <<free, foreign, mutex>> /\ pc' = [pc EXCEPT ![t] = "free"]
    BY DEF FindShared, At, Holding, Cutting, locks, Goto
  <1>1. fr[t] \in Frames /\ DOMAIN fr = Tasks /\ LocalOK("shared", fr[t])
    BY <1>0, PathFacts
  <1> DEFINE path == TruncatePath(t)
             n == Len(path)
             k == Max({1} \cup {j \in 1 .. n : path[j] # 0})
  <1>6. PICK length \in BranchLengths(SubSeq(path, 1, k)) :
            LET chain == kr_get_branch(path, length)
                p == Max({1} \cup {j \in 2 .. length : ~all_zeroes(chain[j])})
                ours == p = k /\ p > 1
                cut == chain[p]
                top == IF ours THEN 0 ELSE cut.key
            IN  /\ ptr' = IF ours THEN ptr ELSE [ptr EXCEPT ![cut.bh][cut.off] = 0]
                /\ fr' = [fr EXCEPT ![t].work =
                            SharedWork(n, chain, p, top, IF ours THEN 0 ELSE 1)
                                \o Remaining(path[1])]
    BY Zenon DEF FindShared
  <1>2. IsPath(path) /\ Len(path) > 1
    <2>1. Len(TruncatePath(t)) > 1
      BY <1>1, TruncatePathFacts DEF LocalOK
    <2>2. Len(<<>>) = 0
      OBVIOUS
    <2>3. TruncatePath(t) # <<>>
      BY <2>1, <2>2
    <2> QED BY <2>1, <2>3, TruncatePathFacts
  <1>3. n \in 1 .. 4 /\ n = Len(path)
    BY <1>2 DEF IsPath
  <1>4. k = Max({1} \cup {j \in 1 .. n : path[j] # 0})
    OBVIOUS
  <1> HIDE DEF path, n, k
  <1>5. k \in 1 .. 4 /\ k <= Len(path)
    <2> DEFINE S == {1} \cup {j \in 1 .. n : path[j] # 0}
    <2>1. S \in SUBSET (0 .. n) /\ S # {} /\ \A j \in S : j \in 1 .. n
      BY <1>3
    <2>2. k = Max(S)
      BY <1>4
    <2> HIDE DEF S
    <2>0. n \in Nat
      BY <1>3
    <2>3. k \in S
      BY <2>0, <2>1, <2>2, MaxIsGreatest
    <2>4. k \in 1 .. n
      BY <2>1, <2>3
    <2> QED BY <1>3, <2>4
  <1>7. PICK lev \in Levels : Sound(lev) /\ Tree(ptr, lev)
    BY DEF Inv, LevelInv, Sound
  <1>8. PICK chain : chain = kr_get_branch(path, length)
    OBVIOUS
  <1>9. length \in 1 .. k /\ Len(chain) = length /\ Threaded(path, chain) /\ verify_chain(chain)
    BY <1>2, <1>5, <1>7, <1>8, BranchFacts
  <1>10. PICK p : p = Max({1} \cup {j \in 2 .. length : ~all_zeroes(chain[j])})
    OBVIOUS
  <1>11. p \in 1 .. length /\ p \in 1 .. 4 /\ p <= n
    <2> DEFINE S == {1} \cup {j \in 2 .. length : ~all_zeroes(chain[j])}
    <2>0. length \in Nat /\ length >= 1 /\ length <= n
      BY <1>3, <1>5, <1>9
    <2>1. S \in SUBSET (0 .. length) /\ S # {} /\ \A j \in S : j \in 1 .. length
      BY <2>0
    <2>2. p = Max(S)
      BY <1>10
    <2> HIDE DEF S
    <2>3. p \in S
      BY <2>0, <2>1, <2>2, MaxIsGreatest
    <2>4. p \in 1 .. length
      BY <2>1, <2>3
    <2> QED BY ONLY <1>3, <2>0, <2>4
  <1>12. \A j \in 1 .. p : Edge(ptr, lev, path, j, chain[j].bh) /\ chain[j].off = path[j] /\ ptr[chain[j].bh][path[j]] = chain[j].key
    <2>1. \A j \in 1 .. Len(chain) : Edge(ptr, lev, path, j, chain[j].bh)
      BY <1>2, <1>7, <1>9, ChainEdges
    <2>2. \A j \in 1 .. p : j \in 1 .. Len(chain)
      BY ONLY <1>5, <1>9, <1>11
    <2> QED BY <1>9, <2>1, <2>2 DEF Threaded, verify_chain
  <1>13. PICK ours, q, top, past, work :
            /\ ours = (p = k /\ p > 1)
            /\ q = ptr'
            /\ top = IF ours THEN 0 ELSE chain[p].key
            /\ past = IF ours THEN 0 ELSE 1
            /\ work = SharedWork(n, chain, p, top, past)
    OBVIOUS
  <1>14. /\ q = IF ours THEN ptr ELSE [ptr EXCEPT ![chain[p].bh][chain[p].off] = 0]
         /\ fr' = [fr EXCEPT ![t].work = work \o Remaining(path[1])]
    BY <1>6, <1>8, <1>10, <1>13
  <1>15. Tree(q, lev) /\ (top = 0 \/ (top \in Blocks /\ lev[top] = n - p /\ Loose(q, lev, top)))
    <2>1. CASE ours
      BY <1>7, <1>13, <1>14, <2>1
    <2>2. CASE ~ours
      <3>1. PICK x, o : x = chain[p].bh /\ o = chain[p].off
        OBVIOUS
      <3>2. x \in Nodes /\ Leads(lev, x) /\ o \in Slots(x) /\ Down(lev, x, o) = n - p /\ ptr[x][o] = chain[p].key
        <4>1. p \in 1 .. p
          BY <1>11
        <4> QED BY <1>3, <1>12, <3>1, <4>1 DEF Edge
      <3>3. q = Store(ptr, x, o, 0) /\ top = ptr[x][o]
        BY <1>13, <1>14, <2>2, <3>1, <3>2 DEF Store
      <3>4. Tree(q, lev) /\ (top # 0 => Loose(q, lev, top))
        BY <1>7, <3>2, <3>3, Cleared
      <3>5. top # 0 => top \in Blocks /\ lev[top] = n - p
        BY <1>7, <3>2, <3>3, EdgeFacts
      <3> QED BY <3>4, <3>5
    <2> QED BY <2>1, <2>2
  <1>16. work \in Seq(Items) /\ WorkOK(q, lev, work)
    <2>1. past \in 0 .. 1
      BY <1>13
    <2>2. \A j \in 1 .. p : Edge(ptr, lev, path, j, chain[j].bh) /\ chain[j].off = path[j]
      BY <1>12
    <2> QED BY ONLY <1>2, <1>3, <1>11, <1>13, <1>15, <2>1, <2>2, SharedWorkFacts
  <1>17. path[1] \in 0 .. TIND
    BY <1>2 DEF IsPath
  <1>18. PICK rem : rem = Remaining(path[1])
    OBVIOUS
  <1>19. rem \in Seq(Items) /\ WorkOK(q, lev, rem) /\ \A i : Ahead(lev, i, rem)
    BY ONLY <1>17, <1>18, RemainingFacts
  <1>20. PICK w : w = work \o rem
    OBVIOUS
  <1>21. w \in Seq(Items) /\ WorkOK(q, lev, w)
    BY ONLY <1>16, <1>19, <1>20, WorkJoin
  <1>22. fr' = [fr EXCEPT ![t].work = w] /\ WorkOK(ptr', lev, w)
    BY <1>13, <1>14, <1>18, <1>20, <1>21
  <1>23. Sound(lev)'
    BY <1>0, <1>7, <1>13, <1>15 DEF Sound
  <1>24. pc[t] \in {"shared", "free"}
    BY <1>0
  <1> QED BY <1>0, <1>21, <1>22, <1>23, <1>24, FreeStep
-----------------------------------------------------------------------------
(***************************************************************************)
(* The theorem.                                                            *)
(***************************************************************************)

\* The file starts with a size.
LEMMA InitSizeOK == Init => SizeOK
  BY TreesAssumption, MapAssumption DEF Init, SizeOK

\* What the code does keeps the invariant.
LEMMA StepInv ==
    ASSUME Inv, SizeOK, NEW t \in Tasks, Step(t)
    PROVE  Inv'
  BY FirstLinkInv, BreadInv, AddLinkInv, MapMoreInv, AbsentInv, LockTreeInv, AllocBlocksInv,
     SetUpBranchInv, ZeroOutInv, SpliceInv, ReturnInv, WriteEndInv, WaitForPagesInv, TruncateInv,
     FindSharedInv, FreeWorkInv, TruncateDoneInv, Zenon DEF Step, SizeOK

\* The size that the end of a write sets is a number of blocks: kr_write_end moves it to the
\* end of what was mapped, or leaves it.
LEMMA WriteEndSize == ASSUME Inv, SizeOK, NEW t \in Tasks, WriteEnd(t) PROVE SizeOK'
  <1>1. fr[t].iblock \in Nat /\ fr[t].count \in Nat
    BY PathFacts, FrameFields, MapAssumption DEF FileRange
  <1>2. PICK e : e = fr[t].iblock + fr[t].count
    OBVIOUS
  <1>3. e \in Nat /\ i_size \in Nat
    BY <1>1, <1>2 DEF SizeOK
  <1>4. i_size' = i_size \/ i_size' = Max({i_size, e})
    BY <1>2 DEF WriteEnd
  <1>5. Max({i_size, e}) \in Nat
    <2>1. \E m \in {i_size, e} : \A n \in {i_size, e} : n <= m
      <3>1. CASE i_size <= e
        BY <1>3, <3>1
      <3>2. CASE e <= i_size
        BY <1>3, <3>2
      <3> QED BY <1>3, <3>1, <3>2
    <2>2. Max({i_size, e}) \in {i_size, e}
      BY <2>1, Zenon DEF Max
    <2> QED BY <1>3, <2>2
  <1> QED BY <1>3, <1>4, <1>5 DEF SizeOK

\* No step takes the size away.
LEMMA StepSize == ASSUME Inv, SizeOK, NEW t \in Tasks, Step(t) PROVE SizeOK'
  <1>1. CASE WriteEnd(t)
    BY <1>1, WriteEndSize
  <1>2. CASE ~WriteEnd(t)
    <2>1. UNCHANGED i_size
      BY <1>2 DEF Step, FirstLink, Bread, AddLink, MapMore, Absent, LockTree, AllocBlocks,
           SetUpBranch, ZeroOut, Splice, Return, WaitForPages, Truncate, FindShared, FreeWork,
           TruncateDone
    <2> QED BY <2>1 DEF SizeOK
  <1> QED BY <1>1, <1>2

\* Every step of the system, of the file's tasks and of other files, keeps the invariant.
LEMMA NextInv == Inv /\ SizeOK /\ [Next]_vars => (Inv /\ SizeOK)'
  <1> SUFFICES ASSUME Inv, SizeOK, [Next]_vars PROVE (Inv /\ SizeOK)'
    OBVIOUS
  <1>1. CASE UNCHANGED vars
    <2>1. UNCHANGED <<ptr, free, foreign, mutex, i_size, pc, fr>>
      BY <1>1 DEF vars, disk, locks
    <2>2. Typed' /\ Exclusive' /\ SizeOK'
      BY <2>1 DEF Inv, Typed, Exclusive, SizeOK
    <2>3. \A t \in Tasks : LocalOK(pc[t], fr[t])'
      BY <2>1 DEF Inv
    <2>4. LevelInv'
      BY <2>1 DEF Inv, LevelInv, Sound, HandOK, NewOK, SpliceOK
    <2> QED BY <2>2, <2>3, <2>4 DEF Inv
  <1>2. ASSUME NEW t \in Tasks, GetBlock(t) PROVE (Inv /\ SizeOK)'
    <2>1. UNCHANGED i_size
      BY <1>2 DEF GetBlock
    <2> QED BY <1>2, <2>1, GetBlockInv DEF SizeOK
  <1>3. ASSUME NEW t \in Tasks, SetSize(t) PROVE (Inv /\ SizeOK)'
    <2>1. i_size' \in Nat
      BY <1>3, MapAssumption DEF SetSize
    <2> QED BY <1>3, <2>1, SetSizeInv DEF SizeOK
  <1>4. ASSUME NEW t \in Tasks, Evict(t) PROVE (Inv /\ SizeOK)'
    <2>1. i_size' \in Nat
      BY <1>4 DEF Evict
    <2> QED BY <1>4, <2>1, EvictInv DEF SizeOK
  <1>5. ASSUME NEW t \in Tasks, Step(t) PROVE (Inv /\ SizeOK)'
    BY <1>5, StepInv, StepSize
  <1>6. CASE OtherTakes
    <2>1. UNCHANGED i_size
      BY <1>6 DEF OtherTakes
    <2> QED BY <1>6, <2>1, OtherTakesInv DEF SizeOK
  <1>7. CASE OtherReleases
    <2>1. UNCHANGED i_size
      BY <1>7 DEF OtherReleases
    <2> QED BY <1>7, <2>1, OtherReleasesInv DEF SizeOK
  <1> QED BY <1>1, <1>2, <1>3, <1>4, <1>5, <1>6, <1>7 DEF Next

\* However lookups, writes, truncations, the eviction and the other files of the filesystem
\* interleave, and whatever reads and allocations fail, the pointers of kr_get_blocks and
\* kr_truncate_blocks make a tree: no block hangs from two places, and none that hangs from
\* the inode is free or has another owner.
THEOREM TreeIsSoundAlways == Spec => []TreeIsSound
  <1>1. Init => Inv /\ SizeOK
    BY InitInv, InitSizeOK
  <1>2. Inv /\ SizeOK /\ [Next]_vars => (Inv /\ SizeOK)'
    BY NextInv
  <1>3. Inv /\ SizeOK => TreeIsSound
    BY InvSound
  <1> QED BY <1>1, <1>2, <1>3, PTL DEF Spec
=============================================================================
