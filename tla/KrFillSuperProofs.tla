--------------------------- MODULE KrFillSuperProofs ---------------------------
(***************************************************************************)
(* Proof that kr_fill_super and kr_put_super give back what was taken, for *)
(* every number of descriptor blocks: at each step the invariant names     *)
(* what is held, and which pointers are not set yet.                       *)
(***************************************************************************)
EXTENDS KrFillSuper, TLAPS

Plain == {"sbi", "bgl", "bh", "array", "debts", "counters", "root"}

-----------------------------------------------------------------------------
\* The names of what is held at each step.
Names ==
    [sbi |-> {}, bgl |-> {"sbi"}, bh |-> {"sbi", "bgl"},
     check |-> {"sbi", "bgl", "bh"}, reread |-> {"sbi", "bgl", "bh"},
     reread2 |-> {"sbi", "bgl"}, geometry |-> {"sbi", "bgl", "bh"},
     array |-> {"sbi", "bgl", "bh"}, debts |-> {"sbi", "bgl", "bh", "array"},
     descs |-> {"sbi", "bgl", "bh", "array", "debts"},
     valid |-> {"sbi", "bgl", "bh", "array", "debts"},
     counters |-> {"sbi", "bgl", "bh", "array", "debts"},
     root |-> {"sbi", "bgl", "bh", "array", "debts", "counters"},
     mounted |-> Plain]

\* Under way or mounted.
Active == pc \in {"sbi", "bgl", "bh", "check", "reread", "reread2", "geometry", "array",
                  "debts", "descs", "valid", "counters", "root", "mounted"}

\* What each pointer is: of the superblock's buffer between the two reads it is stale.
PlainPtr(t) ==
    IF t \in Names[pc] THEN "live" ELSE IF pc = "reread2" /\ t = "bh" THEN "stale" ELSE "null"

\* Of the descriptor blocks: not set from the allocation of the array on, until read.
DescPtr(n) ==
    IF n >= db_count \/ pc \notin {"debts", "descs", "valid", "counters", "root", "mounted"}
    THEN "null" ELSE IF n < i THEN "live" ELSE "wild"

Exactly ==
    /\ s_fs_info <=> pc \notin {"sbi", "bgl"}
    /\ \A t \in Plain : ptr[Thing(t)] = PlainPtr(t)
    /\ \A n \in 0 .. MaxDescBlocks - 1 : ptr[Desc(n)] = DescPtr(n)

FillInv ==
    /\ pc \in {"none", "failed"} \/ Active
    /\ s_fs_info \in BOOLEAN
    /\ ptr \in [Things -> {"null", "live", "stale", "wild"}]
    /\ db_count \in 1 .. MaxDescBlocks /\ i \in 0 .. db_count
    /\ pc \in {"none", "failed"} => ~s_fs_info /\ \A t \in Things : ptr[t] # "live"
    /\ Active => Exactly
    /\ pc \in {"sbi", "bgl", "bh", "check", "reread", "reread2", "geometry", "array", "debts"}
         => i = 0
    /\ pc \in {"valid", "counters", "root", "mounted"} => i = db_count
    /\ twice = FALSE

-----------------------------------------------------------------------------
\* What is acquired has a name or a number, never both.
LEMMA WhatThereIs ==
    /\ \A t \in Plain : Thing(t) \in Things
    /\ \A n \in 0 .. MaxDescBlocks - 1 : Desc(n) \in Things
    /\ \A x \in Things : \/ \E t \in Plain : x = Thing(t)
                         \/ \E n \in 0 .. MaxDescBlocks - 1 : x = Desc(n)
    /\ \A t, u \in Plain : Thing(t) = Thing(u) => t = u
    /\ \A m, n \in Int : Desc(m) = Desc(n) => m = n
    /\ \A t \in Plain, n \in Int : Thing(t) # Desc(n)
PROOF
  BY DEF Plain, Things, Thing, Desc, Descs

\* The descriptor blocks below a number.
LEMMA DescsBelow ==
    ASSUME NEW n \in Int
    PROVE  /\ \A m \in Int : Desc(m) \in Descs(n) <=> m \in 0 .. n - 1
           /\ \A t \in Plain : Thing(t) \notin Descs(n)
PROOF
  BY WhatThereIs DEF Descs

\* Giving back everything that is live and nothing that is stale or not set.
LEMMA GiveBack ==
    ASSUME FillInv, NEW given, Release(given),
           \A t \in Plain : /\ ptr[Thing(t)] = "live" => Thing(t) \in given
                            /\ Thing(t) \in given => ptr[Thing(t)] \in {"null", "live"},
           \A n \in 0 .. MaxDescBlocks - 1 :
               /\ ptr[Desc(n)] = "live" => Desc(n) \in given
               /\ Desc(n) \in given => ptr[Desc(n)] \in {"null", "live"},
           given \subseteq Things
    PROVE  /\ ptr' \in [Things -> {"null", "live", "stale", "wild"}]
           /\ \A t \in Things : ptr'[t] # "live"
           /\ twice' = FALSE
PROOF
  <1>1. \A t \in given : ptr[t] \in {"null", "live"}
    BY WhatThereIs
  <1>2. \A t \in Things : ptr[t] = "live" => t \in given
    BY WhatThereIs
  <1>3. QED
    BY <1>1, <1>2 DEF Release, FillInv

\* What each label gives back.
LEMMA LabelsGiveBack ==
    ASSUME ConstantsOK, FillInv
    PROVE  /\ \A label \in {"failed_sbi", "failed_mount", "failed_mount_group_desc",
                            "failed_mount2", "failed_mount3"} : ReleasedAt(label) \subseteq Things
           /\ \A t \in Plain :
                /\ Thing(t) \in ReleasedAt("failed_sbi") <=> t \in {"sbi", "bgl"}
                /\ Thing(t) \in ReleasedAt("failed_mount") <=> t \in {"sbi", "bgl", "bh"}
                /\ Thing(t) \in ReleasedAt("failed_mount_group_desc")
                     <=> t \in {"sbi", "bgl", "bh", "array", "debts"}
                /\ Thing(t) \in ReleasedAt("failed_mount2")
                     <=> t \in {"sbi", "bgl", "bh", "array", "debts"}
                /\ Thing(t) \in ReleasedAt("failed_mount3") <=> t # "root"
           /\ \A n \in 0 .. MaxDescBlocks - 1 :
                /\ Desc(n) \notin ReleasedAt("failed_sbi")
                /\ Desc(n) \notin ReleasedAt("failed_mount")
                /\ Desc(n) \notin ReleasedAt("failed_mount_group_desc")
                /\ Desc(n) \in ReleasedAt("failed_mount2") <=> n < db_count
                /\ Desc(n) \in ReleasedAt("failed_mount3") <=> n < db_count
PROOF
  <1>1. db_count \in Int /\ db_count <= MaxDescBlocks /\ MaxDescBlocks \in Int
    BY DEF FillInv, ConstantsOK
  <1>2. Descs(db_count) \subseteq Things
    BY <1>1, WhatThereIs DEF Descs
  <1>3. /\ \A m \in Int : Desc(m) \in Descs(db_count) <=> m \in 0 .. db_count - 1
        /\ \A t \in Plain : Thing(t) \notin Descs(db_count)
    BY <1>1, DescsBelow
  <1>4. QED
    BY <1>1, <1>2, <1>3, WhatThereIs DEF ReleasedAt, Plain

\* A label that gives back exactly what is held at a step leaves nothing held.
LEMMA FailStep ==
    ASSUME ConstantsOK, FillInv, Active, NEW label, Fail(label),
           ReleasedAt(label) \subseteq Things,
           \A t \in Plain : /\ PlainPtr(t) = "live" => Thing(t) \in ReleasedAt(label)
                            /\ Thing(t) \in ReleasedAt(label) => PlainPtr(t) # "stale",
           \A n \in 0 .. MaxDescBlocks - 1 :
               /\ DescPtr(n) = "live" => Desc(n) \in ReleasedAt(label)
               /\ Desc(n) \in ReleasedAt(label) => DescPtr(n) # "wild"
    PROVE  FillInv'
PROOF
  <1>1. /\ \A t \in Plain : ptr[Thing(t)] = PlainPtr(t) /\ PlainPtr(t) # "wild"
        /\ \A n \in 0 .. MaxDescBlocks - 1 : ptr[Desc(n)] = DescPtr(n) /\ DescPtr(n) # "stale"
    BY DEF FillInv, Exactly, PlainPtr, DescPtr
  <1>2. /\ \A t \in Plain : ptr[Thing(t)] \in {"null", "live", "stale", "wild"}
        /\ \A n \in 0 .. MaxDescBlocks - 1 : ptr[Desc(n)] \in {"null", "live", "stale", "wild"}
    BY WhatThereIs DEF FillInv
  <1>3. /\ ptr' \in [Things -> {"null", "live", "stale", "wild"}]
        /\ \A t \in Things : ptr'[t] # "live"
        /\ twice' = FALSE
    BY <1>1, <1>2, GiveBack DEF Fail
  <1>4. QED
    BY <1>3 DEF Fail, FillInv, Active

\* A step that gets one thing with a name.
LEMMA AcquireStep ==
    ASSUME FillInv, NEW t \in Plain, Acquire(Thing(t))
    PROVE  /\ ptr' \in [Things -> {"null", "live", "stale", "wild"}]
           /\ ptr'[Thing(t)] = "live"
           /\ \A u \in Plain \ {t} : ptr'[Thing(u)] = ptr[Thing(u)]
           /\ \A n \in 0 .. MaxDescBlocks - 1 : ptr'[Desc(n)] = ptr[Desc(n)]
           /\ twice' = FALSE
PROOF
  BY WhatThereIs DEF FillInv, Acquire

\* Start zeroes every pointer.
LEMMA StartStep ==
    ASSUME ConstantsOK, FillInv, Start
    PROVE  FillInv'
PROOF
  <1>1. /\ ptr' \in [Things -> {"null", "live", "stale", "wild"}]
        /\ \A t \in Plain : ptr'[Thing(t)] = "null"
        /\ \A n \in 0 .. MaxDescBlocks - 1 : ptr'[Desc(n)] = "null"
    BY WhatThereIs DEF Start
  <1>2. Exactly'
    BY <1>1 DEF Start, FillInv, Exactly, PlainPtr, DescPtr, Names
  <1>3. QED
    BY <1>1, <1>2 DEF ConstantsOK, Start, FillInv, Active

\* sbi itself: when there is no memory, nothing is held.
LEMMA AllocSbiStep ==
    ASSUME ConstantsOK, FillInv, AllocSbi
    PROVE  FillInv'
PROOF
  <1>1. CASE Step("sbi", "bgl") /\ Acquire(Thing("sbi"))
    BY <1>1, AcquireStep DEF FillInv, Active, Exactly, PlainPtr, DescPtr, Names, Plain, Step
  <1>2. CASE Step("sbi", "failed") /\ UNCHANGED <<ptr, twice>>
    <2>1. \A t \in Things : ptr[t] # "live"
      BY <1>2, WhatThereIs DEF FillInv, Active, Exactly, PlainPtr, DescPtr, Names, Plain, Step
    <2>2. QED
      BY <1>2, <2>1 DEF FillInv, Active, Exactly, Step
  <1>3. QED
    BY <1>1, <1>2 DEF AllocSbi

\* The blockgroup lock: without it sbi is given back, and s_fs_info is not set.
LEMMA AllocBlockgroupLockStep ==
    ASSUME ConstantsOK, FillInv, AllocBlockgroupLock
    PROVE  FillInv'
PROOF
  <1>1. CASE /\ pc = "bgl" /\ pc' = "bh"
             /\ Acquire(Thing("bgl"))
             /\ s_fs_info' = TRUE
             /\ UNCHANGED <<db_count, i>>
    BY <1>1, AcquireStep DEF FillInv, Active, Exactly, PlainPtr, DescPtr, Names, Plain
  <1>2. CASE Step("bgl", "failed") /\ Release({Thing("sbi")})
    <2>1. /\ \A t \in Plain : ptr[Thing(t)] = IF t = "sbi" THEN "live" ELSE "null"
          /\ \A n \in 0 .. MaxDescBlocks - 1 : ptr[Desc(n)] = "null"
          /\ ~s_fs_info
      BY <1>2 DEF FillInv, Active, Exactly, PlainPtr, DescPtr, Names, Plain, Step
    <2>2. {Thing("sbi")} \subseteq Things
      BY WhatThereIs DEF Plain
    <2>3. /\ ptr' \in [Things -> {"null", "live", "stale", "wild"}]
          /\ \A t \in Things : ptr'[t] # "live"
          /\ twice' = FALSE
      BY <1>2, <2>1, <2>2, GiveBack, WhatThereIs DEF Plain
    <2>4. QED
      BY <1>2, <2>1, <2>3 DEF FillInv, Active, Step
  <1>3. QED
    BY <1>1, <1>2 DEF AllocBlockgroupLock

\* The buffer of the superblock.
LEMMA ReadSuperStep ==
    ASSUME ConstantsOK, FillInv, ReadSuper
    PROVE  FillInv'
PROOF
  <1>1. CASE Step("bh", "check") /\ Acquire(Thing("bh"))
    BY <1>1, AcquireStep DEF FillInv, Active, Exactly, PlainPtr, DescPtr, Names, Plain, Step
  <1>2. CASE pc = "bh" /\ Fail("failed_sbi")
    BY <1>2, FailStep, LabelsGiveBack DEF FillInv, Active, PlainPtr, DescPtr, Names, Plain
  <1>3. QED
    BY <1>1, <1>2 DEF ReadSuper

\* The checks of the superblock take nothing.
LEMMA CheckSuperStep ==
    ASSUME ConstantsOK, FillInv, CheckSuper
    PROVE  FillInv'
PROOF
  <1>1. ASSUME NEW to \in {"reread", "geometry"}, Step("check", to), UNCHANGED <<ptr, twice>>
        PROVE  FillInv'
    BY <1>1 DEF FillInv, Active, Exactly, PlainPtr, DescPtr, Names, Plain, Step
  <1>2. CASE pc = "check" /\ Fail("failed_mount")
    BY <1>2, FailStep, LabelsGiveBack DEF FillInv, Active, PlainPtr, DescPtr, Names, Plain
  <1>3. QED
    BY <1>1, <1>2 DEF CheckSuper

\* The superblock is read again: between the two reads its buffer is not held, and the
\* label that is used there does not give it back.
LEMMA RereadStep ==
    ASSUME ConstantsOK, FillInv, Reread
    PROVE  FillInv'
PROOF
  <1>1. CASE Step("reread", "reread2") /\ Release({Thing("bh")})
    <2>1. ptr[Thing("bh")] = "live"
      BY <1>1 DEF FillInv, Active, Exactly, PlainPtr, DescPtr, Names, Plain, Step
    <2>2. /\ ptr' \in [Things -> {"null", "live", "stale", "wild"}]
          /\ ptr'[Thing("bh")] = "stale"
          /\ \A u \in Plain \ {"bh"} : ptr'[Thing(u)] = ptr[Thing(u)]
          /\ \A n \in 0 .. MaxDescBlocks - 1 : ptr'[Desc(n)] = ptr[Desc(n)]
          /\ twice' = FALSE
      <3>1. ptr' = [t \in Things |-> IF t \in {Thing("bh")} /\ ptr[t] # "null"
                                     THEN "stale" ELSE ptr[t]]
        BY <1>1 DEF Release
      <3>2. twice' = FALSE
        BY <1>1, <2>1 DEF FillInv, Release
      <3>3. QED
        BY <2>1, <3>1, <3>2, WhatThereIs DEF FillInv, Plain
    <2>3. QED
      BY <1>1, <2>2 DEF FillInv, Active, Exactly, PlainPtr, DescPtr, Names, Plain, Step
  <1>2. CASE pc = "reread2" /\ Fail("failed_sbi")
    BY <1>2, FailStep, LabelsGiveBack DEF FillInv, Active, PlainPtr, DescPtr, Names, Plain
  <1>3. CASE Step("reread2", "geometry") /\ Acquire(Thing("bh"))
    BY <1>3, AcquireStep DEF FillInv, Active, Exactly, PlainPtr, DescPtr, Names, Plain, Step
  <1>4. QED
    BY <1>1, <1>2, <1>3 DEF Reread

\* The checks of the geometry take nothing.
LEMMA CheckGeometryStep ==
    ASSUME ConstantsOK, FillInv, CheckGeometry
    PROVE  FillInv'
PROOF
  <1>1. CASE Step("geometry", "array") /\ UNCHANGED <<ptr, twice>>
    BY <1>1 DEF FillInv, Active, Exactly, PlainPtr, DescPtr, Names, Plain, Step
  <1>2. CASE pc = "geometry" /\ Fail("failed_mount")
    BY <1>2, FailStep, LabelsGiveBack DEF FillInv, Active, PlainPtr, DescPtr, Names, Plain
  <1>3. QED
    BY <1>1, <1>2 DEF CheckGeometry

\* The array: from here on its pointers are wild.
LEMMA AllocArrayStep ==
    ASSUME ConstantsOK, FillInv, AllocArray
    PROVE  FillInv'
PROOF
  <1>1. CASE /\ Step("array", "debts")
             /\ ptr' = [t \in Things |-> IF t = Thing("array") THEN "live"
                                         ELSE IF t \in Descs(db_count) THEN "wild"
                                         ELSE ptr[t]]
             /\ UNCHANGED twice
    <2>1. db_count \in Int /\ MaxDescBlocks \in Int /\ i = 0
      BY <1>1 DEF FillInv, ConstantsOK, Step
    <2>2. /\ ptr' \in [Things -> {"null", "live", "stale", "wild"}]
          /\ ptr'[Thing("array")] = "live"
          /\ \A u \in Plain \ {"array"} : ptr'[Thing(u)] = ptr[Thing(u)]
      BY <1>1, <2>1, WhatThereIs, DescsBelow DEF FillInv, Plain
    <2>3. \A n \in 0 .. MaxDescBlocks - 1 :
             ptr'[Desc(n)] = IF n < db_count THEN "wild" ELSE ptr[Desc(n)]
      <3> TAKE n \in 0 .. MaxDescBlocks - 1
      <3>1. Desc(n) \in Things /\ Desc(n) # Thing("array")
        BY <2>1, WhatThereIs DEF Plain
      <3>2. Desc(n) \in Descs(db_count) <=> n < db_count
        BY <2>1, DescsBelow
      <3>3. QED
        BY <1>1, <3>1, <3>2
    <2>4. QED
      BY <1>1, <2>1, <2>2, <2>3 DEF FillInv, Active, Exactly, PlainPtr, DescPtr, Names, Plain, Step
  <1>2. CASE pc = "array" /\ Fail("failed_mount")
    BY <1>2, FailStep, LabelsGiveBack DEF FillInv, Active, PlainPtr, DescPtr, Names, Plain
  <1>3. QED
    BY <1>1, <1>2 DEF AllocArray

\* The debts; without them the wild pointers are not followed.
LEMMA AllocDebtsStep ==
    ASSUME ConstantsOK, FillInv, AllocDebts
    PROVE  FillInv'
PROOF
  <1>1. CASE Step("debts", "descs") /\ Acquire(Thing("debts"))
    BY <1>1, AcquireStep DEF FillInv, Active, Exactly, PlainPtr, DescPtr, Names, Plain, Step
  <1>2. CASE pc = "debts" /\ Fail("failed_mount_group_desc")
    <2>1. \A n \in 0 .. MaxDescBlocks - 1 : DescPtr(n) # "live"
      BY <1>2 DEF ConstantsOK, FillInv, DescPtr
    <2>2. QED
      BY <1>2, <2>1, FailStep, LabelsGiveBack
      DEF FillInv, Active, PlainPtr, Names, Plain
  <1>3. QED
    BY <1>1, <1>2 DEF AllocDebts

\* The descriptor blocks: those before the one that cannot be read are given back.
LEMMA ReadDescriptorsStep ==
    ASSUME ConstantsOK, FillInv, ReadDescriptors
    PROVE  FillInv'
PROOF
  <1>1. /\ i \in Int /\ db_count \in Int /\ MaxDescBlocks \in Int
        /\ i >= 0 /\ db_count <= MaxDescBlocks
    BY DEF FillInv, ConstantsOK
  <1>2. CASE /\ pc = "descs" /\ i < db_count
             /\ Acquire(Desc(i))
             /\ i' = i + 1
             /\ UNCHANGED <<pc, s_fs_info, db_count>>
    <2>1. Desc(i) \in Things
      BY <1>1, <1>2, WhatThereIs
    <2>2. /\ ptr' \in [Things -> {"null", "live", "stale", "wild"}]
          /\ \A u \in Plain : ptr'[Thing(u)] = ptr[Thing(u)]
          /\ twice' = FALSE
      BY <1>1, <1>2, <2>1, WhatThereIs DEF FillInv, Acquire
    <2>3. \A n \in 0 .. MaxDescBlocks - 1 :
             ptr'[Desc(n)] = IF n = i THEN "live" ELSE ptr[Desc(n)]
      BY <1>1, <1>2, <2>1, WhatThereIs DEF FillInv, Acquire
    <2>4. QED
      BY <1>1, <1>2, <2>2, <2>3 DEF FillInv, Active, Exactly, PlainPtr, DescPtr, Names, Plain
  <1>3. CASE /\ pc = "descs" /\ i < db_count
             /\ pc' = "failed"
             /\ s_fs_info' = FALSE
             /\ Release(Descs(i) \cup ReleasedAt("failed_mount_group_desc"))
             /\ UNCHANGED <<db_count, i>>
    <2> DEFINE given == Descs(i) \cup ReleasedAt("failed_mount_group_desc")
    <2>1. /\ \A t \in Plain : Thing(t) \in given <=> t \in {"sbi", "bgl", "bh", "array", "debts"}
          /\ \A n \in 0 .. MaxDescBlocks - 1 : Desc(n) \in given <=> n < i
      BY <1>1, DescsBelow, LabelsGiveBack
    <2>2. given \subseteq Things
      BY <1>1, <1>3, WhatThereIs, LabelsGiveBack DEF Descs
    <2>3. /\ \A t \in Plain : ptr[Thing(t)] = IF t \in {"counters", "root"} THEN "null" ELSE "live"
          /\ \A n \in 0 .. MaxDescBlocks - 1 :
               /\ n < i => ptr[Desc(n)] = "live"
               /\ n >= i => ptr[Desc(n)] # "live"
      BY <1>1, <1>3 DEF FillInv, Active, Exactly, PlainPtr, DescPtr, Names, Plain
    <2>4. /\ ptr' \in [Things -> {"null", "live", "stale", "wild"}]
          /\ \A t \in Things : ptr'[t] # "live"
          /\ twice' = FALSE
      <3> HIDE DEF given
      <3>1. Release(given)
        BY <1>3 DEF given
      <3>2. \A n \in 0 .. MaxDescBlocks - 1 : n < i \/ n >= i
        BY <1>1
      <3>3. QED
        BY <2>1, <2>2, <2>3, <3>1, <3>2, GiveBack DEF Plain
    <2>5. QED
      BY <1>3, <2>4 DEF FillInv, Active
  <1>4. CASE Step("descs", "valid") /\ i = db_count /\ UNCHANGED <<ptr, twice>>
    BY <1>1, <1>4 DEF FillInv, Active, Exactly, PlainPtr, DescPtr, Names, Plain, Step
  <1>5. QED
    BY <1>2, <1>3, <1>4 DEF ReadDescriptors

\* The check of the descriptors takes nothing.
LEMMA CheckDescriptorsStep ==
    ASSUME ConstantsOK, FillInv, CheckDescriptors
    PROVE  FillInv'
PROOF
  <1>1. CASE Step("valid", "counters") /\ UNCHANGED <<ptr, twice>>
    BY <1>1 DEF FillInv, Active, Exactly, PlainPtr, DescPtr, Names, Plain, Step
  <1>2. CASE pc = "valid" /\ Fail("failed_mount2")
    BY <1>2, FailStep, LabelsGiveBack DEF FillInv, Active, PlainPtr, DescPtr, Names, Plain
  <1>3. QED
    BY <1>1, <1>2 DEF CheckDescriptors

\* The counters.
LEMMA InitCountersStep ==
    ASSUME ConstantsOK, FillInv, InitCounters
    PROVE  FillInv'
PROOF
  <1>1. CASE Step("counters", "root") /\ Acquire(Thing("counters"))
    BY <1>1, AcquireStep DEF FillInv, Active, Exactly, PlainPtr, DescPtr, Names, Plain, Step
  <1>2. CASE pc = "counters" /\ Fail("failed_mount3")
    BY <1>2, FailStep, LabelsGiveBack DEF FillInv, Active, PlainPtr, DescPtr, Names, Plain
  <1>3. QED
    BY <1>1, <1>2 DEF InitCounters

\* The root.
LEMMA GetRootStep ==
    ASSUME ConstantsOK, FillInv, GetRoot
    PROVE  FillInv'
PROOF
  <1>1. CASE Step("root", "mounted") /\ Acquire(Thing("root"))
    BY <1>1, AcquireStep DEF FillInv, Active, Exactly, PlainPtr, DescPtr, Names, Plain, Step
  <1>2. CASE pc = "root" /\ Fail("failed_mount3")
    BY <1>2, FailStep, LabelsGiveBack DEF FillInv, Active, PlainPtr, DescPtr, Names, Plain
  <1>3. QED
    BY <1>1, <1>2 DEF GetRoot

\* The unmount gives back everything.
LEMMA PutSuperStep ==
    ASSUME ConstantsOK, FillInv, PutSuper
    PROVE  FillInv'
PROOF
  <1> DEFINE given == Descs(db_count) \cup {Thing("array"), Thing("debts"), Thing("counters"),
                      Thing("bh"), Thing("bgl"), Thing("sbi"), Thing("root")}
  <1>1. /\ db_count \in Int /\ MaxDescBlocks \in Int
        /\ db_count <= MaxDescBlocks /\ i = db_count
    BY DEF FillInv, ConstantsOK, PutSuper
  <1>2. /\ \A t \in Plain : Thing(t) \in given
        /\ \A n \in 0 .. MaxDescBlocks - 1 : Desc(n) \in given <=> n < db_count
    BY <1>1, DescsBelow, WhatThereIs DEF Plain
  <1>3. given \subseteq Things
    BY <1>1, WhatThereIs DEF Descs, Plain
  <1>4. /\ \A t \in Plain : ptr[Thing(t)] = "live"
        /\ \A n \in 0 .. MaxDescBlocks - 1 : ptr[Desc(n)] = IF n < db_count THEN "live" ELSE "null"
    BY <1>1 DEF FillInv, Active, Exactly, PlainPtr, DescPtr, Names, Plain, PutSuper
  <1>5. /\ ptr' \in [Things -> {"null", "live", "stale", "wild"}]
        /\ \A t \in Things : ptr'[t] # "live"
        /\ twice' = FALSE
    <2> HIDE DEF given
    <2>1. Release(given)
      BY DEF PutSuper, given
    <2>2. QED
      BY <1>2, <1>3, <1>4, <2>1, GiveBack
  <1>6. QED
    BY <1>5 DEF PutSuper, FillInv, Active

-----------------------------------------------------------------------------
\* Whichever step of kr_fill_super fails, and after an unmount, nothing is held and
\* nothing was given back twice or unset; from the first step that may report an error
\* on, what kr_error uses is there: for every number of descriptor blocks.
THEOREM FillSuperUnwinds ==
    ASSUME ConstantsOK
    PROVE  Spec => []FillUnwinds
PROOF
  <1>1. Init => FillInv
    <2>1. Init => db_count \in 1 .. MaxDescBlocks /\ i \in 0 .. db_count
      BY DEF ConstantsOK, Init
    <2>2. Init => ptr \in [Things -> {"null", "live", "stale", "wild"}]
      BY DEF Init
    <2>3. QED
      BY <2>1, <2>2 DEF Init, FillInv, Active
  <1>2. FillInv /\ [Next]_vars => FillInv'
    <2> SUFFICES ASSUME FillInv, [Next]_vars
                 PROVE  FillInv'
      OBVIOUS
    <2>1. CASE UNCHANGED vars
      BY <2>1 DEF vars, FillInv, Active, Exactly, PlainPtr, DescPtr
    <2>2. QED
      BY <2>1, StartStep, AllocSbiStep, AllocBlockgroupLockStep, ReadSuperStep,
         CheckSuperStep, RereadStep, CheckGeometryStep, AllocArrayStep, AllocDebtsStep,
         ReadDescriptorsStep, CheckDescriptorsStep, InitCountersStep, GetRootStep,
         PutSuperStep
      DEF Next
  <1>3. FillInv => FillUnwinds
    <2> SUFFICES ASSUME FillInv
                 PROVE  ErrorsCanBeReported
      BY DEF FillInv, FillUnwinds, NothingLeaks, NoDoubleRelease
    <2> SUFFICES ASSUME pc \in {"valid", "counters", "root", "mounted"}
                 PROVE  /\ s_fs_info
                        /\ \A t \in {Thing("sbi"), Thing("bh"), Thing("array")} : ptr[t] = "live"
                        /\ \A t \in Descs(db_count) : ptr[t] = "live"
      BY DEF ErrorsCanBeReported
    <2>1. \A n \in 0 .. db_count - 1 : ptr[Desc(n)] = "live"
      BY DEF FillInv, Active, Exactly, PlainPtr, DescPtr, Names, Plain, ConstantsOK
    <2>2. QED
      BY <2>1 DEF FillInv, Active, Exactly, PlainPtr, DescPtr, Names, Plain, Descs
  <1>4. QED
    BY <1>1, <1>2, <1>3, PTL DEF Spec
=============================================================================
