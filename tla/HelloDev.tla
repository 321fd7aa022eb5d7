------------------------------ MODULE HelloDev ------------------------------
(***************************************************************************)
(* The character device of the practice, Prac4_Character_Device_Drivers/   *)
(* chardev.c.  It tells every process that opens it how many did so        *)
(* before; a text is read to its end through msg_Ptr, which is everybody's.*)
(* Opening and closing are those of OpenOnce.                              *)
(*                                                                         *)
(* The text is the number and MsgLen pieces; a piece is read as a whole.   *)
(***************************************************************************)
EXTENDS OpenOnce, SequencesExt

CONSTANTS
  MsgLen,    \* length of a text
  MaxCount,  \* bound on how often the device is opened
  Lengths    \* the lengths with which processes read

VARIABLES
  counter,   \* how often the device was opened
  msg,       \* the number in the text
  msg_Ptr,   \* how many of its pieces have been read
  ptr,       \* the place that a process loaded from msg_Ptr
  length,    \* how much a process's read may still return
  got,       \* what a process has read since it opened the device
  told,      \* history: the number of the text of a process's own
  ended      \* history: did its last read return nothing?
text  == <<counter, msg>>
read  == <<msg_Ptr, ptr, length, got, ended>>
hvars == <<pc, open, kernel, text, read, told>>

Piece(n, i) == [told |-> n, at |-> i]

HelloInit ==
  /\ OpenInit
  /\ counter = 0 /\ msg = 0 /\ msg_Ptr = 0
  /\ ptr = [p \in Procs |-> 0] /\ length = [p \in Procs |-> 0]
  /\ got = [p \in Procs |-> <<>>] /\ told = [p \in Procs |-> 0] /\ ended = [p \in Procs |-> FALSE]

-----------------------------------------------------------------------------
\* device_open makes the text between its increment and try_module_get.
Tell(p) ==
  /\ Goto(p, "set", "get") /\ msg' = counter /\ counter' = counter + 1 /\ msg_Ptr' = 0
  /\ told' = [told EXCEPT ![p] = counter] /\ UNCHANGED <<open, kernel, ptr, length, got, ended>>
device_open(p) ==
  \/ /\ (OpenTest(p) /\ counter < MaxCount) \/ (pc[p] = "load" /\ Load(p)) \/ OpenStore(p) \/ OpenGet(p)
     /\ UNCHANGED <<text, read, told>>
  \/ Tell(p)

Forget(S) ==
  /\ got' = [p \in Procs |-> IF p \in S THEN <<>> ELSE got[p]]
  /\ ptr' = [p \in Procs |-> IF p \in S THEN 0 ELSE ptr[p]]
  /\ length' = [p \in Procs |-> IF p \in S THEN 0 ELSE length[p]]
  /\ told' = [p \in Procs |-> IF p \in S THEN 0 ELSE told[p]]
  /\ ended' = [p \in Procs |-> IF p \in S THEN FALSE ELSE ended[p]]
device_release(p) ==
  \/ /\ Close(p) \/ (pc[p] = "reload" /\ Load(p)) \/ CloseStore(p)
     /\ UNCHANGED <<text, read, told>>
  \/ ClosePut(p) /\ Forget({p}) /\ UNCHANGED <<text, msg_Ptr>>

\* Registering may fail, and then nothing changes.  The static data go with
\* the module.
init_module == Insmod /\ UNCHANGED <<text, read, told>>
cleanup_module ==
  \/ Rmmod /\ UNCHANGED <<text, read, told>>
  \/ Cleanup /\ Forget(Procs) /\ counter' = 0 /\ msg' = 0 /\ msg_Ptr' = 0

-----------------------------------------------------------------------------
(* device_read: at the end of the text it returns 0; else it copies until  *)
(* the length is used up or the text ends.  device_write changes nothing.  *)
Read(p, n) ==
  /\ \/ msg_Ptr = MsgLen /\ ended' = [ended EXCEPT ![p] = TRUE] /\ UNCHANGED <<pc, length>>
     \/ msg_Ptr # MsgLen /\ ended' = [ended EXCEPT ![p] = FALSE]
        /\ pc' = [pc EXCEPT ![p] = "test"] /\ length' = [length EXCEPT ![p] = n]
  /\ pc[p] = "open" /\ UNCHANGED <<open, kernel, text, msg_Ptr, ptr, got, told>>

Test(p) ==
  /\ \/ Goto(p, "test", "take") /\ length[p] > 0 /\ msg_Ptr # MsgLen
     \/ Goto(p, "test", "open") /\ (length[p] = 0 \/ msg_Ptr >= MsgLen)
  /\ UNCHANGED <<open, kernel, text, read, told>>

Take(p) ==
  /\ Goto(p, "take", "store_ptr") /\ ptr' = [ptr EXCEPT ![p] = msg_Ptr]
  /\ UNCHANGED <<open, kernel, text, msg_Ptr, length, got, told, ended>>

StorePtr(p) ==
  /\ Goto(p, "store_ptr", "test") /\ msg_Ptr' = ptr[p] + 1
  /\ got' = [got EXCEPT ![p] = Append(@, Piece(msg, ptr[p] + 1))]
  /\ length' = [length EXCEPT ![p] = @ - 1]
  /\ UNCHANGED <<open, kernel, text, ptr, told, ended>>
device_read(p) == (\E n \in Lengths : Read(p, n)) \/ Test(p) \/ Take(p) \/ StorePtr(p)

HelloNext ==
  \/ init_module \/ cleanup_module
  \/ \E p \in Procs : device_open(p) \/ device_release(p) \/ device_read(p)

-----------------------------------------------------------------------------
(* The state is well formed.                                               *)
HelloTypeOK ==
  /\ OpenTypeOK
  /\ pc \in [Procs -> Opening \cup Closing \cup {"away", "open", "oops", "test", "take", "store_ptr"}]
  /\ counter \in Nat /\ msg \in Nat /\ msg_Ptr \in Nat
  /\ ptr \in [Procs -> Nat] /\ length \in [Procs -> Nat]
  /\ told \in [Procs -> Nat] /\ ended \in [Procs -> BOOLEAN]

(* Outside the window of device_open a process reads its own text, each    *)
(* piece once and in order over all its reads, and is told of the end only *)
(* when it has read everything; no two processes are told the same number  *)
(* while both have the device open or after each other.                    *)
OwnText ==
  module # "out" /\ ~overlapped => \A p \in Procs :
    /\ got[p] = [i \in 1 .. Len(got[p]) |-> Piece(told[p], i)] /\ Len(got[p]) <= MsgLen
    /\ ended[p] => Len(got[p]) = MsgLen
    /\ pc[p] \in {"open", "get"} => told[p] = counter - 1
=============================================================================
