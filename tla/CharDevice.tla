----------------------------- MODULE CharDevice -----------------------------
(***************************************************************************)
(* The character device of Exercise 6, meant for one reader at a time.     *)
(* device_open refuses a task while device_count is not zero, composes the *)
(* message and takes a reference on the module; device_read hands out the  *)
(* characters at buffer_ptr; device_release gives the device and the       *)
(* reference back.  Nothing is locked, so every access to a variable that  *)
(* another task may change is a step of its own; ++ and -- of device_count *)
(* and buffer_ptr are a load and a store.  device_write changes nothing    *)
(* and has no action.                                                      *)
(***************************************************************************)
EXTENDS Integers, Sequences, FiniteSets

CONSTANTS
  Tasks,      \* tasks that use the device file
  MsgLen,     \* characters of the message before its terminating NUL
  MaxOpens,   \* bound: opens in one load of the module
  MaxReads    \* bound: reads in one load of the module

\* What the constants may be.
ConstantsOK ==
  /\ MsgLen \in Nat \ {0}
  /\ {MaxOpens, MaxReads} \subseteq Nat

VARIABLES
  module,        \* "live", "going" (rmmod has begun) or "gone"
  refs,          \* the module's reference count
  device_count,
  counter,       \* the static counter of device_open
  message,       \* the number that message_buffer shows
  buffer_ptr,    \* offset of buffer_ptr in message_buffer
  pc,            \* where each task is in the driver
  reg,           \* device_count as the task loaded it, or the sizeval it has left
  ptr,           \* buffer_ptr as the task loaded it; both are 0 when out of use
  reads,         \* history: calls of device_read in this load of the module
  raced          \* history: two calls of device_open have overlapped in it

vars == <<module, refs, device_count, counter, message, buffer_ptr, pc, reg, ptr, reads, raced>>

\* Between two calls a task is without the file or has it open.
Outside == {"idle", "open"}
Opening == {"test", "inc", "inc_store", "print", "point", "get"}
Reading == {"check", "copy", "copy_store"}
Closing == {"dec", "dec_store", "put", "return"}

TypeOK ==
  /\ module \in {"live", "going", "gone"}
  /\ refs \in Nat
  /\ device_count \in -Cardinality(Tasks) .. Cardinality(Tasks)
  /\ {counter, message} \subseteq 0 .. MaxOpens
  /\ reads \in 0 .. MaxReads
  /\ buffer_ptr \in Nat
  /\ pc \in [Tasks -> Outside \cup Opening \cup Reading \cup Closing]
  /\ reg \in [Tasks -> Int]
  /\ ptr \in [Tasks -> Nat]
  /\ raced \in BOOLEAN

\* The variables of the module as insmod finds them.
Fresh ==
  /\ device_count' = 0 /\ counter' = 0 /\ message' = 0 /\ buffer_ptr' = 0
  /\ reads' = 0 /\ raced' = FALSE

Init ==
  /\ module = "live" /\ refs = 0
  /\ device_count = 0 /\ counter = 0 /\ message = 0 /\ buffer_ptr = 0
  /\ pc = [t \in Tasks |-> "idle"]
  /\ reg = [t \in Tasks |-> 0]
  /\ ptr = [t \in Tasks |-> 0]
  /\ reads = 0 /\ raced = FALSE

-----------------------------------------------------------------------------
Quiet == \A t \in Tasks : pc[t] \in Outside

\* Task t goes from one point of the driver's text to another.
Goto(t, from, to) ==
  /\ module # "gone"
  /\ pc[t] = from
  /\ pc' = [pc EXCEPT ![t] = to]

\* open(2) finds the device; fops has no .owner that would hold the module.
CallOpen(t) ==
  /\ module = "live"
  /\ counter + Cardinality({u \in Tasks : pc[u] \in Opening}) < MaxOpens
  /\ Goto(t, "idle", "test")
  /\ raced' = (raced \/ \E u \in Tasks : pc[u] \in Opening)
  /\ UNCHANGED <<module, refs, device_count, counter, message, buffer_ptr, reg, ptr, reads>>

TestBusy(t) ==
  /\ Goto(t, "test", IF device_count # 0 THEN "idle" ELSE "inc")
  /\ UNCHANGED <<module, refs, device_count, counter, message, buffer_ptr, reg, ptr, reads, raced>>

LoadCount(t) ==
  /\ \/ Goto(t, "inc", "inc_store")
     \/ Goto(t, "dec", "dec_store")
  /\ reg' = [reg EXCEPT ![t] = device_count]
  /\ UNCHANGED <<module, refs, device_count, counter, message, buffer_ptr, ptr, reads, raced>>

\* Mutant: device_release does not decrement.
StoreNoDecrement(t) ==
  /\ \/ Goto(t, "inc_store", "print") /\ device_count' = reg[t] + 1
     \/ Goto(t, "dec_store", "put") /\ device_count' = reg[t]
  /\ reg' = [reg EXCEPT ![t] = 0]
  /\ UNCHANGED <<module, refs, counter, message, buffer_ptr, ptr, reads, raced>>

StoreCount(t) ==
  /\ \/ Goto(t, "inc_store", "print") /\ device_count' = reg[t] + 1
     \/ Goto(t, "dec_store", "put") /\ device_count' = reg[t] - 1
  /\ reg' = [reg EXCEPT ![t] = 0]
  /\ UNCHANGED <<module, refs, counter, message, buffer_ptr, ptr, reads, raced>>

\* sprintf into message_buffer, with counter++ in its arguments.
PrintMessage(t) ==
  /\ Goto(t, "print", "point")
  /\ message' = counter
  /\ counter' = counter + 1
  /\ UNCHANGED <<module, refs, device_count, buffer_ptr, reg, ptr, reads, raced>>

PointBuffer(t) ==
  /\ Goto(t, "point", "get")
  /\ buffer_ptr' = 0
  /\ UNCHANGED <<module, refs, device_count, counter, message, reg, ptr, reads, raced>>

\* try_module_get counts nothing once removal has begun, and device_open
\* does not look at its answer.
GetModule(t) ==
  /\ Goto(t, "get", "open")
  /\ refs' = IF module = "live" THEN refs + 1 ELSE refs
  /\ UNCHANGED <<module, device_count, counter, message, buffer_ptr, reg, ptr, reads, raced>>

\* The first test of device_read is the loop's own: both end it with what was
\* read so far.
CallRead(t, sizeval) ==
  /\ reads < MaxReads
  /\ Goto(t, "open", "check")
  /\ reg' = [reg EXCEPT ![t] = sizeval]
  /\ reads' = reads + 1
  /\ UNCHANGED <<module, refs, device_count, counter, message, buffer_ptr, ptr, raced>>

\* Behind the terminating NUL the static buffer is zero as well.
CheckChar(t) ==
  /\ \/ /\ reg[t] > 0 /\ buffer_ptr < MsgLen
        /\ Goto(t, "check", "copy")
        /\ UNCHANGED reg
     \/ /\ ~(reg[t] > 0 /\ buffer_ptr < MsgLen)
        /\ Goto(t, "check", "open")
        /\ reg' = [reg EXCEPT ![t] = 0]
  /\ UNCHANGED <<module, refs, device_count, counter, message, buffer_ptr, ptr, reads, raced>>

\* put_user(*(buffer_ptr++), fname++): the pointer is loaded, then stored.
LoadPointer(t) ==
  /\ Goto(t, "copy", "copy_store")
  /\ ptr' = [ptr EXCEPT ![t] = buffer_ptr]
  /\ UNCHANGED <<module, refs, device_count, counter, message, buffer_ptr, reg, reads, raced>>

CopyChar(t) ==
  /\ Goto(t, "copy_store", "check")
  /\ buffer_ptr' = ptr[t] + 1
  /\ ptr' = [ptr EXCEPT ![t] = 0]
  /\ reg' = [reg EXCEPT ![t] = @ - 1]
  /\ UNCHANGED <<module, refs, device_count, counter, message, reads, raced>>

CallRelease(t) ==
  /\ Goto(t, "open", "dec")
  /\ UNCHANGED <<module, refs, device_count, counter, message, buffer_ptr, reg, ptr, reads, raced>>

\* After module_put the task still has the end of device_release to execute.  A
\* reference that was never taken is not given back, only warned about.
PutModule(t) ==
  /\ Goto(t, "put", "return")
  /\ refs' = IF refs > 0 THEN refs - 1 ELSE refs
  /\ UNCHANGED <<module, device_count, counter, message, buffer_ptr, reg, ptr, reads, raced>>

Return(t) ==
  /\ Goto(t, "return", "idle")
  /\ UNCHANGED <<module, refs, device_count, counter, message, buffer_ptr, reg, ptr, reads, raced>>

\* delete_module(2) goes on only without references, and runs ender.
Remove ==
  /\ module = "live" /\ refs = 0
  /\ module' = "going"
  /\ UNCHANGED <<refs, device_count, counter, message, buffer_ptr, pc, reg, ptr, reads, raced>>

ender ==
  /\ module = "going"
  /\ module' = "gone"
  /\ UNCHANGED <<refs, device_count, counter, message, buffer_ptr, pc, reg, ptr, reads, raced>>

\* A task that was left in the driver, or with a file of it open, does not come back.
starter ==
  /\ module = "gone" /\ \A t \in Tasks : pc[t] = "idle"
  /\ module' = "live"
  /\ refs' = 0
  /\ Fresh
  /\ UNCHANGED <<pc, reg, ptr>>

Next ==
  \/ \E t \in Tasks :
       \/ CallOpen(t) \/ TestBusy(t) \/ LoadCount(t) \/ StoreCount(t)
       \/ PrintMessage(t) \/ PointBuffer(t) \/ GetModule(t)
       \/ \E sizeval \in 1 .. MsgLen : CallRead(t, sizeval)
       \/ CheckChar(t) \/ LoadPointer(t) \/ CopyChar(t)
       \/ CallRelease(t) \/ PutModule(t) \/ Return(t)
  \/ Remove \/ ender \/ starter

Spec == Init /\ [][Next]_vars

-----------------------------------------------------------------------------
\* Tasks that have the device: from the increment of device_count to its
\* decrement.
Holders ==
  {t \in Tasks : pc[t] \in {"print", "point", "get", "open"} \cup Reading \cup {"dec", "dec_store"}}

\* Tasks between try_module_get and module_put.
Users == {t \in Tasks : pc[t] \in {"open"} \cup Reading \cup {"dec", "dec_store", "put"}}

\* One task has the device at a time: device_open leaves a device alone whose
\* device_count is not zero.  (Fails: two calls of device_open may both find it zero.)
Exclusive == Cardinality(Holders) <= 1

\* device_count is the number of tasks that have the device, whenever no call
\* is under way.
CountAgrees == Quiet => device_count = Cardinality(Holders)

\* Two overlapping calls of device_open are the only way to break the exclusion, the
\* count, and that reading stops at the end of the message: reads, releases and the
\* removal may overlap with anything.
ExclusiveUnlessOpensRace ==
  ~raced => Exclusive /\ CountAgrees /\ buffer_ptr <= MsgLen

\* While the module is live its references are the tasks that have the file open, so
\* that a removal cannot begin while there are any.
OpenFilesHoldModule == module = "live" => refs = Cardinality(Users)

\* However many tasks read at once through the one buffer_ptr, it passes the NUL that
\* ends the message by at most one for each other task.  (Fails: a task that opens the
\* device, or stores an old pointer, lets others pass the test again, and they go on
\* from where a later store has put the pointer.)
ReadersStayInBuffer == buffer_ptr < MsgLen + Cardinality(Tasks)

\* With no task in the driver or with an open file, device_count is zero: were
\* it anything else, every later device_open would answer -EBUSY.  (Fails.)
NeverWedged == (\A t \in Tasks : pc[t] = "idle") => device_count = 0

\* The module goes only when no task has the file open or runs its code.  (Fails.)
GoneMeansUnused == module # "live" => \A t \in Tasks : pc[t] = "idle"

\* The message tells how many read operations the device has performed.  (Fails.)
MessageTellsReads == \A t \in Tasks : pc[t] = "point" => message = reads
=============================================================================
