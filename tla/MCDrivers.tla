------------------------------ MODULE MCDrivers ------------------------------
(***************************************************************************)
(* Instances for TLC of the kernel drivers: the character device, the one  *)
(* of the practice, and the MSR driver with its test program.  They do not *)
(* interact: in a behaviour one of them is loaded and used.                *)
(***************************************************************************)
EXTENDS MsrDrv, FiniteSets, TLC

CONSTANTS Users, BUF_LEN, MaxTree

TwoUsers == {"p", "q"}
CharLengths == {1, 4}
HelloLengths == {1, 2}

\* One caller has a chain of ancestors longer than a report; the others are
\* helpers that a kernel thread started.
Pids    == [p \in Users |-> IF p = "p" THEN 312 ELSE 25]
Tasks   == {0, 1, 2, 10, 25, 312}
Parents == [t \in Tasks |-> CASE t = 312 -> 10 [] t = 10 -> 1 [] t = 25 -> 2 [] OTHER -> 0]
Files   == [t \in Tasks |->
  CASE t = 312 -> "ioctl_test" [] t = 10 -> "sh" [] t = 1 -> "init" [] t = 25 -> "helper" [] OTHER -> "none"]

\* msrtest is linked with the first; others are as good.
SomeLayouts ==
  {<<"read_tsc", "msr_stop", "msr_start">>, <<"read_tsc", "msr_start", "msr_stop">>,
   <<"msr_start", "msr_stop", "read_tsc">>}

ASSUME UsersAssumption == IsFiniteSet(Users)
ASSUME DriversAssumption == BUF_LEN \in Nat \ {0} /\ MaxTree \in Nat \ {0}

VARIABLES driver,  \* which one is used
          copen, cpc, cloaded, cmodule, cusers, cunheld, coverlapped,
          pid, parent, exe, Message, call_tree, call_tree_Ptr, cptr, cgot, clength, input, said,
          hopen, hpc, hloaded, hmodule, husers, hunheld, hoverlapped,
          counter, msg, msg_Ptr, hptr, hlength, hgot, told, ended

Char == INSTANCE CharDev WITH
  Procs <- Users, Letters <- {1}, Lengths <- CharLengths,
  Device_Open <- copen, pc <- cpc, loaded <- cloaded, module <- cmodule, users <- cusers,
  unheld <- cunheld, overlapped <- coverlapped, ptr <- cptr, got <- cgot, length <- clength
Hello == INSTANCE HelloDev WITH
  Procs <- Users, MsgLen <- 3, MaxCount <- 3, Lengths <- HelloLengths,
  Device_Open <- hopen, pc <- hpc, loaded <- hloaded, module <- hmodule, users <- husers,
  unheld <- hunheld, overlapped <- hoverlapped, ptr <- hptr, length <- hlength, got <- hgot

cvars == <<copen, cpc, cloaded, cmodule, cusers, cunheld, coverlapped, pid, parent, exe,
           Message, call_tree, call_tree_Ptr, cptr, cgot, clength, input, said>>
hvars == <<hopen, hpc, hloaded, hmodule, husers, hunheld, hoverlapped,
           counter, msg, msg_Ptr, hptr, hlength, hgot, told, ended>>

DriversInit ==
  /\ driver \in {"chardev", "hello", "msr"}
  /\ Char!CharInit /\ pid = Pids /\ parent = Parents /\ exe = Files
  /\ Hello!HelloInit /\ MsrInit
  /\ Last(layout) # "read_tsc" => behind = "unknown"
  /\ driver # "msr" => Last(layout) = "read_tsc" /\ behind = "unknown" /\ \A p, q \in Procs : cpu[p] = cpu[q]

\* Once two processes are in, what they read and write is not looked at.
DriversNext ==
  /\ UNCHANGED driver
  /\ \/ /\ driver = "chardev" /\ Char!CharNext /\ (coverlapped => cgot' = cgot /\ input' = input)
        /\ UNCHANGED <<hvars, msrvars>>
     \/ /\ driver = "hello" /\ Hello!HelloNext /\ (hoverlapped => hlength' = hlength)
        /\ UNCHANGED <<cvars, msrvars>>
     \/ driver = "msr" /\ MsrNext /\ UNCHANGED <<cvars, hvars>>
DriversSpec == DriversInit /\ [][DriversNext]_<<driver, cvars, hvars, msrvars>>
Alike == Permutations(Procs) \cup Permutations(CPUs)

-----------------------------------------------------------------------------
(* The state of every driver is well formed.                               *)
DriversTypeOK == Char!CharTypeOK /\ Hello!HelloTypeOK /\ MsrTypeOK

(* One process at a time has a device open, but for the window of          *)
(* device_open, and Device_Open tells who has.                             *)
OneProcess == Char!OneAtATime /\ Hello!OneAtATime

(* A process that could hold its module never finds it gone.               *)
ModuleStays == Char!StaysLoaded /\ Hello!StaysLoaded

(* A process reads what is meant for it, a report tells of the caller and  *)
(* its ancestors, and a text that was set is there.                        *)
ReadsItsOwn == Char!OwnReport /\ Char!TellsAncestors /\ Char!ReadsBack /\ Hello!OwnText

(* "We don't want to talk to two processes at the same time" (chardev.c:   *)
(* 49), as it stands.                                                      *)
NeverTwo == cmodule # "out" => Cardinality(Char!Within) <= 1
=============================================================================
