------------------------------ MODULE OpenOnce ------------------------------
(***************************************************************************)
(* What the character devices of Kernel_Driver_Lab and of its practice     *)
(* share: device_open and device_release, which let one process in at a    *)
(* time, and the loading and unloading of the module.  The functions run   *)
(* in the processes that call them, on several CPUs and without a lock, so *)
(* every access to Device_Open is a step; an increment is a load and a     *)
(* store.  A process is one thread with one descriptor of the device.      *)
(*                                                                         *)
(* The file operations have no owner: the kernel does not hold the module  *)
(* for them, the functions do it themselves with try_module_get and        *)
(* module_put.  A process whose module is freed oopses.                    *)
(***************************************************************************)
EXTENDS Integers, FiniteSets

CONSTANT Procs  \* processes

VARIABLES
  Device_Open, \* how many have the device open
  pc,          \* where a process is
  loaded,      \* the Device_Open that a process loaded
  module,      \* "in", "going" (delete_module has begun) or "out"
  users,       \* the module's reference count
  unheld,      \* the processes whose try_module_get failed
  overlapped   \* history: did two processes pass the test of device_open together?
open   == <<Device_Open, loaded, overlapped>>
kernel == <<module, users, unheld>>

Testing == {"load", "store"}
Opening == Testing \cup {"set", "get"}
Closing == {"reload", "restore", "put"}

OpenInit ==
  /\ Device_Open = 0 /\ pc = [p \in Procs |-> "away"] /\ loaded = [p \in Procs |-> 0]
  /\ module = "out" /\ users = 0 /\ unheld = {} /\ overlapped = FALSE

Goto(p, from, to) == pc[p] = from /\ pc' = [pc EXCEPT ![p] = to]

-----------------------------------------------------------------------------
\* Mutant: the device is busy from the second process on.
OpenTestSecond(p) ==
  /\ module # "out" /\ Goto(p, "away", "load") /\ Device_Open < 2
  /\ overlapped' = (overlapped \/ \E q \in Procs : pc[q] \in Testing)
  /\ UNCHANGED <<Device_Open, loaded, kernel>>
(* device_open: the test of Device_Open (a process that finds it set gets  *)
(* EBUSY, and nothing changes), and the increment.                         *)
OpenTest(p) ==
  /\ module # "out" /\ Goto(p, "away", "load") /\ Device_Open = 0
  /\ overlapped' = (overlapped \/ \E q \in Procs : pc[q] \in Testing)
  /\ UNCHANGED <<Device_Open, loaded, kernel>>

OpenStore(p) ==
  /\ Goto(p, "store", "set") /\ Device_Open' = loaded[p] + 1
  /\ UNCHANGED <<loaded, overlapped, kernel>>

\* Mutant: the module is not held.
OpenGetNot(p) == Goto(p, "get", "open") /\ UNCHANGED <<open, kernel>>
\* try_module_get fails once the module is going; nobody looks at its result.
OpenGet(p) ==
  /\ Goto(p, "get", "open")
  /\ IF module = "in" THEN users' = users + 1 /\ unheld' = unheld
     ELSE users' = users /\ unheld' = unheld \cup {p}
  /\ UNCHANGED <<open, module>>

\* device_release: the decrement, then module_put.
Close(p) == Goto(p, "open", "reload") /\ UNCHANGED <<open, kernel>>

Load(p) ==
  /\ Goto(p, "load", "store") \/ Goto(p, "reload", "restore")
  /\ loaded' = [loaded EXCEPT ![p] = Device_Open]
  /\ UNCHANGED <<Device_Open, overlapped, kernel>>

CloseStore(p) ==
  /\ Goto(p, "restore", "put") /\ Device_Open' = loaded[p] - 1
  /\ UNCHANGED <<loaded, overlapped, kernel>>

\* Nobody looks again at the count of a module that is going.
ClosePut(p) ==
  /\ Goto(p, "put", "away") /\ unheld' = unheld \ {p}
  /\ users' = IF module = "in" THEN users - 1 ELSE users
  /\ UNCHANGED <<open, module>>

-----------------------------------------------------------------------------
\* init_module; if the major number is taken, insmod fails and nothing changes.
Insmod ==
  /\ module = "out" /\ module' = "in" /\ UNCHANGED <<pc, users, unheld, open>>

\* rmmod: not while the module is held.
Rmmod == module = "in" /\ users = 0 /\ module' = "going" /\ UNCHANGED <<pc, open, users, unheld>>

\* cleanup_module; then the module's code is freed.
Cleanup ==
  /\ module = "going" /\ module' = "out"
  /\ pc' = [p \in Procs |-> IF pc[p] = "away" THEN "away" ELSE "oops"]
  /\ users' = 0 /\ unheld' = {} /\ Device_Open' = 0 /\ loaded' = [p \in Procs |-> 0]
  /\ overlapped' = FALSE

-----------------------------------------------------------------------------
Counted == {p \in Procs : pc[p] \notin Testing \cup {"away", "put", "oops"}}
Within  == {p \in Procs : pc[p] \notin {"away", "put", "oops"}}
Holding == {p \in Procs : pc[p] \notin Opening \cup {"away", "oops"}} \ unheld

OpenTypeOK ==
  /\ Device_Open \in Int /\ users \in Int /\ loaded \in [Procs -> Int]
  /\ module \in {"in", "going", "out"} /\ unheld \subseteq Procs /\ overlapped \in BOOLEAN

(* "We don't want to talk to two processes at the same time" (chardev.c:   *)
(* 49).  Device_Open grants this, and says when the device is free again,  *)
(* as long as no process tests it before another that passed the test has  *)
(* counted itself: that window is the only way in for two.                 *)
OneAtATime ==
  module # "out" /\ ~overlapped =>
    /\ Cardinality(Within) <= 1
    /\ Device_Open = Cardinality(Counted)

(* A process that has the device open keeps the module loaded, whoever     *)
(* unloads and reloads it meanwhile, if it could hold the module at all:   *)
(* one whose try_module_get failed has the device open all the same.       *)
StaysLoaded ==
  /\ Holding # {} => module = "in"
  /\ module = "in" => users = Cardinality(Holding)
=============================================================================
