----------------------------- MODULE MCExercises -----------------------------
(***************************************************************************)
(* The small modules of the course for TLC.  They have nothing to do with  *)
(* one another, so a behaviour is one of one of them: part says which, and *)
(* the variables of the others keep their initial values.  Two parts that  *)
(* are the same module with other constants share its variables.           *)
(***************************************************************************)
EXTENDS Integers, Sequences, FiniteSets

CONSTANTS t1, t2, t3, counter, subcounter, d1, d2, d3

VARIABLES
  part,
  module, refs, device_count, opens, message, buffer_ptr, dev_pc, reg, ptr, reads, raced,
  step, have, missed, undue,
  finished, proc_pc, sizeval, given, alone, overlap,
  value, file, offset, v, count, got, first, base, told,
  registered, at, claims, mounts, iroot, droot, made

devVars ==
  <<module, refs, device_count, opens, message, buffer_ptr, dev_pc, reg, ptr, reads, raced>>
starterVars == <<step, have, missed, undue>>
procVars == <<finished, proc_pc, sizeval, given, alone, overlap>>
lwnVars == <<value, file, offset, v, count, got, first, base, told>>
mountVars == <<registered, at, claims, mounts, iroot, droot, made>>

\* Exercise 6: three tasks, and rmmod, all of whose calls may overlap.
Dev == INSTANCE CharDevice
         WITH Tasks <- {t1, t2, t3}, MsgLen <- 2, MaxOpens <- 3, MaxReads <- 3,
              counter <- opens, pc <- dev_pc

\* The loading of Exercise 7.
Starter == INSTANCE CharStarter

\* Exercises 8 and 9: reads that overlap, buffers smaller and larger than the message.
Proc == INSTANCE ProcFile
          WITH Tasks <- {t1, t2, t3}, MsgLen <- 2, Sizes <- {1, 3}, pc <- proc_pc

\* Exercise 16: both counters, a carry and a sign, a counter open once at a time and
\* mounts with no file open; and three tasks at one counter, with mounts at any time.
Lwn == INSTANCE LwnCounter
         WITH Tasks <- {t1, t2}, Counters <- {counter, subcounter}, Counts <- {1, 3},
              Written <- {-1, 9}, MaxValue <- 10, Serial <- TRUE
Shared == INSTANCE LwnCounter
            WITH Tasks <- {t1, t2, t3}, Counters <- {counter}, Counts <- {1},
                 Written <- {0}, MaxValue <- 2, Serial <- FALSE

\* Exercise 15 on three devices, and the mounts of Exercise 16.
Myfs == INSTANCE SimpleMount WITH Fs <- "myfs", Devices <- {d1, d2, d3}, MaxMounts <- 2
Lfs == INSTANCE SimpleMount WITH Fs <- "lfs", Devices <- {d1, d2}, MaxMounts <- 2

ASSUME PartsAssumption ==
  /\ Dev!ConstantsOK /\ Proc!ConstantsOK
  /\ Lwn!ConstantsOK /\ Shared!ConstantsOK
  /\ Myfs!ConstantsOK /\ Lfs!ConstantsOK

Init ==
  /\ part \in {"device", "starter", "proc", "counters", "counter", "myfs", "lfs"}
  /\ Dev!Init /\ Starter!Init /\ Proc!Init
  /\ IF part = "counter" THEN Shared!Init ELSE Lwn!Init
  /\ IF part = "lfs" THEN Lfs!Init ELSE Myfs!Init

DevStep == part = "device" /\ Dev!Next /\ UNCHANGED <<starterVars, procVars, lwnVars, mountVars>>
StarterStep ==
  part = "starter" /\ Starter!Next /\ UNCHANGED <<devVars, procVars, lwnVars, mountVars>>
ProcStep == part = "proc" /\ Proc!Next /\ UNCHANGED <<devVars, starterVars, lwnVars, mountVars>>
LwnStep ==
  /\ \/ part = "counters" /\ Lwn!Next
     \/ part = "counter" /\ Shared!Next
  /\ UNCHANGED <<devVars, starterVars, procVars, mountVars>>
MountStep ==
  /\ \/ part = "myfs" /\ Myfs!Next
     \/ part = "lfs" /\ Lfs!Next
  /\ UNCHANGED <<devVars, starterVars, procVars, lwnVars>>

Next == (DevStep \/ StarterStep \/ ProcStep \/ LwnStep \/ MountStep) /\ UNCHANGED part

Spec == Init /\ [][Next]_<<part, devVars, starterVars, procVars, lwnVars, mountVars>>

-----------------------------------------------------------------------------
\* The character device: as long as no two calls of device_open overlapped, at most one
\* task has it, device_count is the number of those that have it and reading stops at the
\* end of the message; and while the module is live the open files hold it, whatever
\* overlaps.
DeviceGuarded ==
  /\ Dev!TypeOK
  /\ Dev!ExclusiveUnlessOpensRace /\ Dev!OpenFilesHoldModule

\* The proc file: after whatever races, partial reads and early closes, of two successive
\* reads that nobody overlaps one gives the message and the other the end of file.
AnswersAlternate == Proc!TypeOK /\ Proc!AnswersAlternate

\* The pieces that a task reads of a counter file are of one number, and the numbers
\* count by one; with tasks that race for a counter no increment is lost.
CountersCount ==
  /\ part = "counters" => Lwn!TypeOK /\ Lwn!SameNumber /\ Lwn!CountsByOne
  /\ part = "counter" => Shared!TypeOK /\ Shared!NoLostCount

\* The mounts of myfs give back what they acquired, whatever failed, and no more; a mounted
\* filesystem has its root, and its module stays.  The driver of Exercise 7 gives back all
\* it acquired if its removal comes back, and besides only things whose failed acquisition
\* it did not notice.
NothingLeftBehind ==
  /\ Starter!TypeOK /\ Starter!Unwinds
  /\ part = "myfs" => /\ Myfs!TypeOK
                      /\ Myfs!MountedHasRoot /\ Myfs!ModuleHeld
                      /\ Myfs!InodeFreed /\ Myfs!DeviceReleased
  /\ part = "lfs" => Lfs!TypeOK /\ Lfs!MountedHasRoot /\ Lfs!ModuleHeld
==============================================================================
