------------------------------ MODULE ProcFile ------------------------------
(***************************************************************************)
(* The proc files of Exercises 8 and 9.  read copies the message from its  *)
(* beginning, and knows by a static flag whether the call before it did so *)
(* already: then it answers 0, end of file, and clears the flag.  The flag *)
(* is one for every open of the file and is tested and set without a lock. *)
(***************************************************************************)
EXTENDS Integers, Sequences, FiniteSets

CONSTANTS
  Tasks,      \* tasks that read the file
  MsgLen,     \* characters of the message
  Sizes       \* the sizeval a task may pass to read

\* What the constants may be.
ConstantsOK ==
  /\ MsgLen \in Nat \ {0}
  /\ Sizes \subseteq Nat \ {0}

VARIABLES
  finished,   \* the static flag of read
  pc,         \* where each task is
  sizeval,    \* the size of the task's read
  given,      \* history: the characters given through the open file
  alone,      \* history: the answers of the last two reads, if no read overlapped them
  overlap     \* history: two reads are under way, or were since none was

vars == <<finished, pc, sizeval, given, alone, overlap>>

InRead == {"test", "clear", "set"}
Readers == {t \in Tasks : pc[t] \in InRead}

TypeOK ==
  /\ finished \in {0, 1}
  /\ pc \in [Tasks -> {"closed", "open", "eof"} \cup InRead]
  /\ sizeval \in [Tasks -> Sizes \cup {0}]
  /\ given \in [Tasks -> 0 .. MsgLen]
  /\ alone \in UNION {[1 .. n -> 0 .. MsgLen] : n \in 0 .. 2}
  /\ overlap \in BOOLEAN

Init ==
  /\ finished = 0
  /\ pc = [t \in Tasks |-> "closed"]
  /\ sizeval = [t \in Tasks |-> 0]
  /\ given = [t \in Tasks |-> 0]
  /\ alone = << >> /\ overlap = FALSE

-----------------------------------------------------------------------------
Goto(t, from, to) ==
  /\ pc[t] = from
  /\ pc' = [pc EXCEPT ![t] = to]

\* open takes a reference on the module and keeps nothing else.
Open(t) ==
  /\ Goto(t, "closed", "open")
  /\ given' = [given EXCEPT ![t] = 0]
  /\ UNCHANGED <<finished, sizeval, alone, overlap>>

CallRead(t, n) ==
  /\ \/ Goto(t, "open", "test")
     \/ Goto(t, "eof", "test")
  /\ sizeval' = [sizeval EXCEPT ![t] = n]
  /\ overlap' = (Readers # {})
  /\ alone' = IF Readers = {} THEN alone ELSE << >>
  /\ UNCHANGED <<finished, given>>

Test(t) ==
  /\ Goto(t, "test", IF finished = 1 THEN "clear" ELSE "set")
  /\ UNCHANGED <<finished, sizeval, given, alone, overlap>>

\* The end of a read that answers n.
Answer(n) ==
  /\ alone' = IF overlap THEN << >>
              ELSE IF Len(alone) = 2 THEN <<alone[2], n>> ELSE Append(alone, n)
  /\ UNCHANGED overlap

\* Mutant: the flag is not cleared at the end of file.
KeepFlag(t) ==
  /\ Goto(t, "clear", "eof")
  /\ Answer(0)
  /\ UNCHANGED <<finished, sizeval, given>>

ClearFlag(t) ==
  /\ Goto(t, "clear", "eof")
  /\ finished' = 0
  /\ Answer(0)
  /\ UNCHANGED <<sizeval, given>>

\* How many characters a read of n is given: message and buffer_ptr are its own.
Copied(n) == IF n < MsgLen THEN n ELSE MsgLen

SetFlag(t) ==
  /\ Goto(t, "set", "open")
  /\ finished' = 1
  /\ given' = [given EXCEPT ![t] = Copied(sizeval[t])]
  /\ Answer(Copied(sizeval[t]))
  /\ UNCHANGED sizeval

Release(t) ==
  /\ \/ Goto(t, "open", "closed")
     \/ Goto(t, "eof", "closed")
  /\ UNCHANGED <<finished, sizeval, given, alone, overlap>>

Next ==
  \E t \in Tasks :
    \/ Open(t)
    \/ \E n \in Sizes : CallRead(t, n)
    \/ Test(t) \/ ClearFlag(t) \/ SetFlag(t) \/ Release(t)

Spec == Init /\ [][Next]_vars

-----------------------------------------------------------------------------
\* Of two successive reads, of one open file or of two, that overlap with no other read
\* one gives the message from its beginning and the other the end of file: whatever
\* tasks raced for the flag before, whoever read a part only or closed too early, a
\* reader that is alone gets at the message again.
AnswersAlternate == Len(alone) = 2 => (alone[1] = 0) # (alone[2] = 0)

\* A task that is told the end of file has been given the message.  (Fails.)
EofAfterMessage == \A t \in Tasks : pc[t] = "eof" => given[t] = MsgLen

\* When every task has closed the file, the next one to read is given the
\* message.  (Fails.)
NextIsServed == (\A t \in Tasks : pc[t] = "closed") => finished = 0
=============================================================================
