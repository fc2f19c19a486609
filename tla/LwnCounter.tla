----------------------------- MODULE LwnCounter -----------------------------
(***************************************************************************)
(* The counter files of Exercises 16 and 17 (lfs.c).  A read at offset     *)
(* zero tells the counter and increments it; a later read of the same file *)
(* goes on in the text of the number told, which it works out again from   *)
(* the counter.  A write sets the counter.  Each of the atomic operations  *)
(* on a counter is a step; the offset belongs to the open file.  The       *)
(* counters are static: mounting another device sets them to zero.         *)
(***************************************************************************)
EXTENDS Integers, Sequences, FiniteSets

CONSTANTS
  Tasks,      \* tasks, each with at most one open file
  Counters,   \* the counters behind the files: counter and subcounter
  Counts,     \* the count a task may pass to read
  Written,    \* the numbers a task may write
  MaxValue,   \* bound: no read begins at offset zero above this value
  Serial      \* TRUE: a task opens a file when no other has the counter open, and
              \* a device is mounted when no file is open

\* What the constants may be.
ConstantsOK ==
  /\ Counts \subseteq Nat \ {0}
  /\ MaxValue \in 0 .. 90
  /\ Written \subseteq -9 .. MaxValue
  /\ Serial \in BOOLEAN

VARIABLES
  value,    \* the atomic_t of each counter
  file,     \* the counter whose file the task has open, or None
  offset,   \* f_pos of the open file
  v,        \* the local variable v of lfs_read_file; 0 when out of use
  count,    \* the count of the read under way; 0: none is
  got,      \* the characters read through the open file
  first,    \* history: the value told when the offset was zero
  base,     \* history: the number each counter was last set to
  told      \* history: the values told at offset zero since then

vars == <<value, file, offset, v, count, got, first, base, told>>

None == "none"

\* snprintf(tmp, TMPSIZE, "%d\n", n), for the numbers that occur here: characters
\* are told apart by number and place, and only how many there are matters.
Width(n) == IF n \in 0 .. 9 THEN 2 ELSE 3
Text(n) == [i \in 1 .. Width(n) |-> <<n, i>>]

TypeOK ==
  /\ value \in [Counters -> -9 .. 99]
  /\ file \in [Tasks -> Counters \cup {None}]
  /\ offset \in [Tasks -> 0 .. 4]
  /\ v \in [Tasks -> -10 .. 99]
  /\ count \in [Tasks -> Counts \cup {0}]
  /\ got \in [Tasks -> Seq((-10 .. 99) \X (1 .. 3))]
  /\ first \in [Tasks -> -9 .. 99]
  /\ base \in [Counters -> Written \cup {0}]
  /\ told \in [Counters -> Seq(-9 .. 99)]

\* lfs_create_files sets both counters to zero.
Init ==
  /\ value = [c \in Counters |-> 0]
  /\ file = [t \in Tasks |-> None]
  /\ offset = [t \in Tasks |-> 0]
  /\ v = [t \in Tasks |-> 0]
  /\ count = [t \in Tasks |-> 0]
  /\ got = [t \in Tasks |-> << >>]
  /\ first = [t \in Tasks |-> 0]
  /\ base = [c \in Counters |-> 0]
  /\ told = [c \in Counters |-> << >>]

-----------------------------------------------------------------------------
\* Another device is mounted: lfs_create_files sets the counters again.
lfs_create_files ==
  /\ Serial => \A t \in Tasks : file[t] = None
  /\ value' = [c \in Counters |-> 0]
  /\ base' = [c \in Counters |-> 0]
  /\ told' = [c \in Counters |-> << >>]
  /\ UNCHANGED <<file, offset, v, count, got, first>>

lfs_open(t, c) ==
  /\ file[t] = None
  /\ Serial => \A u \in Tasks : file[u] # c
  /\ file' = [file EXCEPT ![t] = c]
  /\ UNCHANGED <<value, offset, v, count, got, first, base, told>>

\* The open file goes with its offset.
Close(t) ==
  /\ file[t] # None /\ count[t] = 0
  /\ file' = [file EXCEPT ![t] = None]
  /\ offset' = [offset EXCEPT ![t] = 0]
  /\ got' = [got EXCEPT ![t] = << >>]
  /\ first' = [first EXCEPT ![t] = 0]
  /\ UNCHANGED <<value, v, count, base, told>>

\* The end of lfs_read_file: the part of the text of n, from the offset on,
\* that fits in count characters.  copy_to_user may fail: then the offset
\* stays, while the counter has been incremented.
Part(n, from, c) ==
  LET left == Len(Text(n)) - from
  IN  SubSeq(Text(n), from + 1, from + (IF c < left THEN c ELSE left))

Deliver(t, n, c, fault) ==
  /\ got' = [got EXCEPT ![t] = IF fault THEN @ ELSE @ \o Part(n, offset[t], c)]
  /\ offset' = [offset EXCEPT ![t] = IF fault THEN @ ELSE @ + Len(Part(n, @, c))]

\* atomic_read at offset zero; the increment is still to come.
ReadFirst(t, n) ==
  /\ file[t] # None /\ count[t] = 0 /\ offset[t] = 0
  /\ value[file[t]] < MaxValue
  /\ v' = [v EXCEPT ![t] = value[file[t]]]
  /\ count' = [count EXCEPT ![t] = n]
  /\ UNCHANGED <<value, file, offset, got, first, base, told>>

\* What atomic_inc makes of the counter that task t read.
Incremented(t) == value[file[t]] + 1

Bump(t, fault) ==
  /\ count[t] > 0
  /\ value' = [value EXCEPT ![file[t]] = Incremented(t)]
  /\ Deliver(t, v[t], count[t], fault)
  /\ count' = [count EXCEPT ![t] = 0]
  /\ first' = [first EXCEPT ![t] = v[t]]
  /\ told' = [told EXCEPT ![file[t]] = Append(@, v[t])]
  /\ v' = [v EXCEPT ![t] = 0]
  /\ UNCHANGED <<file, base>>

\* Mutant: goes on with the counter as it is.
GoOnCurrent(t) == value[file[t]]

\* The number that a read at an offset that is not zero goes on with.
GoOn(t) == value[file[t]] - 1

ReadOn(t, n, fault) ==
  /\ file[t] # None /\ count[t] = 0 /\ offset[t] > 0
  /\ Deliver(t, GoOn(t), n, fault)
  /\ UNCHANGED <<value, file, v, count, first, base, told>>

\* Only at the beginning of the file; the offset stays where it is.
lfs_write_file(t, x) ==
  /\ file[t] # None /\ count[t] = 0 /\ offset[t] = 0
  /\ value' = [value EXCEPT ![file[t]] = x]
  /\ base' = [base EXCEPT ![file[t]] = x]
  /\ told' = [told EXCEPT ![file[t]] = << >>]
  /\ UNCHANGED <<file, offset, v, count, got, first>>

Next ==
  \/ lfs_create_files
  \/ \E t \in Tasks :
       \/ \E c \in Counters : lfs_open(t, c)
       \/ \E n \in Counts : ReadFirst(t, n)
       \/ \E fault \in BOOLEAN : Bump(t, fault)
       \/ \E n \in Counts, fault \in BOOLEAN : ReadOn(t, n, fault)
       \/ \E x \in Written : lfs_write_file(t, x)
       \/ Close(t)

Spec == Init /\ [][Next]_vars

-----------------------------------------------------------------------------
\* The characters a task has read are the beginning of the text of the value
\* it was told when the offset was zero: later reads go on in that number.
SameNumber ==
  \A t \in Tasks :
    file[t] # None => got[t] = Part(first[t], 0, offset[t])

\* Whenever no read is under way, the values told since the counter was last set are
\* the one it was set to and its successors, each of them once, and the counter is the
\* next.
CountsByOne ==
  \A c \in Counters :
    (\A t \in Tasks : file[t] = c => count[t] = 0) =>
      /\ told[c] = [i \in 1 .. Len(told[c]) |-> base[c] + i - 1]
      /\ value[c] = base[c] + Len(told[c])

\* No increment is lost: the counter has moved on from the number it was last set to
\* by one for each value told since.
NoLostCount ==
  \A c \in Counters : value[c] = base[c] + Len(told[c])
=============================================================================
