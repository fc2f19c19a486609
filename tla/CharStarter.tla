----------------------------- MODULE CharStarter -----------------------------
(***************************************************************************)
(* Loading and unloading the driver of Exercise 7.  starter acquires a     *)
(* device number, a class, a device and the cdev, in this order, and tests *)
(* the answer of each call; a failed test undoes what was done before, and *)
(* ender gives all four back.  The calls are the kernel's: class_create    *)
(* and device_create answer a failure with an ERR_PTR, the two others with *)
(* a negative errno, of which -1 (EPERM) is not one they use.              *)
(***************************************************************************)
EXTENDS FiniteSets, Sequences, Integers

VARIABLES
  step,    \* number of the call starter makes next; more than four: loaded;
           \* zero: not loaded; Dead: rmmod died in ender
  have,    \* what the driver has acquired and not given back
  missed,  \* history: calls of this loading that failed without being noticed
  undue    \* history: what it gave back in this loading without having it

vars == <<step, have, missed, undue>>

Order == <<"region", "class", "device", "cdev">>
Things == {Order[i] : i \in 1 .. Len(Order)}

Loaded == Len(Order) + 1
Dead == Loaded + 1

TypeOK ==
  /\ step \in 0 .. Dead
  /\ {have, missed, undue} \subseteq SUBSET Things

Init == step = 1 /\ have = {} /\ missed = {} /\ undue = {}

\* The answers of a failing call and those that starter takes for a failure.
Failure(x) == IF x \in {"class", "device"} THEN {"ERR_PTR"} ELSE {"ENOMEM", "EBUSY"}
Noticed(x) ==
  CASE x = "region" -> {"ENOMEM", "EBUSY", "EPERM"}   \* ret < 0
    [] x \in {"class", "device"} -> {"NULL"}          \* == NULL
    [] x = "cdev" -> {"EPERM"}                        \* == -1

\* device_create answers -ENODEV to a class that is an ERR_PTR.
MaySucceed(x) == x = "device" => "class" \in have

Acquire ==
  /\ step \in 1 .. Len(Order)
  /\ MaySucceed(Order[step])
  /\ have' = have \cup {Order[step]}
  /\ step' = step + 1
  /\ UNCHANGED <<missed, undue>>

\* What starter gives back when it notices that a call has failed.
Undone(x) ==
  CASE x = "region" -> {}
    [] x = "class"  -> {"region"}
    [] x = "device" -> {"class", "region"}
    [] x = "cdev"   -> {"device", "class", "region"}

GiveBack(things) ==
  /\ have' = have \ things
  /\ undue' = undue \cup (things \ have)

\* A failure that is noticed ends the loading; any other goes on.
Fail ==
  /\ step \in 1 .. Len(Order)
  /\ \E answer \in Failure(Order[step]) :
       IF answer \in Noticed(Order[step])
         THEN /\ GiveBack(Undone(Order[step]))
              /\ step' = 0
              /\ UNCHANGED missed
         ELSE /\ missed' = missed \cup {Order[step]}
              /\ step' = step + 1
              /\ UNCHANGED <<have, undue>>

\* cdev_del of a cdev that was not added and device_destroy of a device that is
\* not there find nothing to do; device_destroy looks into the class, and with
\* an ERR_PTR for it rmmod dies there.
ender ==
  /\ step = Loaded
  /\ \/ /\ "class" \in have
        /\ GiveBack({"cdev", "device", "class", "region"})
        /\ step' = 0
     \/ /\ "class" \notin have
        /\ GiveBack({"cdev", "device"})
        /\ step' = Dead
  /\ UNCHANGED missed

\* insmod once more.
Again ==
  /\ step = 0 /\ step' = 1
  /\ missed' = {} /\ undue' = {}
  /\ UNCHANGED have

Next == Acquire \/ Fail \/ ender \/ Again

Spec == Init /\ [][Next]_vars

-----------------------------------------------------------------------------
\* A driver that is not loaded, after starter gave up or after ender came back, has
\* given back all that it acquired; and what it gave back without having it is what
\* starter believed it had, because a failure went unnoticed.
Unwinds == step = 0 => have = {} /\ undue = missed

\* ender comes back.  (Fails.)
RemovalEnds == step # Dead

\* Nothing is given back that was not acquired.  (Fails.)
NothingUndue == undue = {}
==============================================================================
