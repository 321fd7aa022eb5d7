------------------------------- MODULE MsrDrv -------------------------------
(***************************************************************************)
(* The MSR driver of Kernel_Driver_Lab/msrdrv.c, which executes vectors of *)
(* operations on the model specific registers of the CPU it happens to run *)
(* on, and msrtest.c, which counts with them what a computation costs.     *)
(* Processes share the CPUs, the kernel may move them at any time, and an  *)
(* ioctl may be interrupted after every operation.                         *)
(*                                                                         *)
(* One programmable counter and one fixed counter stand for the four and   *)
(* the three that there are, and read_tsc for the four vectors of one      *)
(* entry, which main executes one after the other; the three others read   *)
(* a register that the compiler happened to use.  A register holds 1 for   *)
(* "enabled".                                                              *)
(***************************************************************************)
EXTENDS Integers, SequencesExt

CONSTANTS
  Procs, CPUs,
  MSR_VEC_LIMIT, \* a vector has at most one entry more
  Layouts,       \* orders in which a compiler may place the vectors
  MaxEvents      \* bound on the events that counters count

VARIABLES
  layout,    \* the order of the vectors in memory
  behind,    \* the operation that is found behind the last
  fd,        \* a process's descriptor: "none", "open" or "failed"
  at,        \* the step of main that it is in
  i,         \* the entry of the vector that the driver executes for it, or -1
  cpu,       \* where it runs
  val,       \* the values of its vectors, by place in memory
  ts_start, ts_end, \* the clock before and after the computation
  msr,       \* the registers of the CPUs
  now,       \* the time stamp counter, how many events there were
  since,     \* history: the events on its CPU while its counters were enabled
  disturbed  \* history: was it moved, or were its counters set by another?
msrvars == <<layout, behind, fd, at, i, cpu, val, ts_start, ts_end, msr, now, since, disturbed>>

Op(op, ecx, eax) == [op |-> op, ecx |-> ecx, eax |-> eax]
WriteMsr(ecx, eax)  == Op("MSR_WRITE", ecx, eax)
ReadMsr(ecx)     == Op("MSR_READ", ecx, 0)
Stop             == Op("MSR_STOP", "none", 0)

\* Mutant: the counters are not set to zero.
StartUnset ==
  <<WriteMsr("global_ctrl", 0), WriteMsr("fixed_ctr", 0),
    WriteMsr("perfevtsel", 1), WriteMsr("fixed_ctr_ctrl", 1), WriteMsr("global_ctrl", 1), Stop>>
msr_start ==
  <<WriteMsr("global_ctrl", 0), WriteMsr("pmc", 0), WriteMsr("fixed_ctr", 0),
    WriteMsr("perfevtsel", 1), WriteMsr("fixed_ctr_ctrl", 1), WriteMsr("global_ctrl", 1), Stop>>
msr_stop ==
  <<WriteMsr("global_ctrl", 0), WriteMsr("fixed_ctr_ctrl", 0), ReadMsr("pmc"), ReadMsr("fixed_ctr"), Stop>>

(* The vectors of one entry do not end with MSR_STOP.                      *)
Vector == [msr_start |-> msr_start, msr_stop |-> msr_stop,
           read_tsc     |-> <<Op("MSR_RDTSC", "none", 0)>>]

(* The compiler lays the three vectors behind one another in some order.   *)
ASSUME LayoutsAssumption ==
  Layouts \subseteq {l \in [1 .. 3 -> DOMAIN Vector] : IsInjective(l)}
(* A whole vector is within the limit of the loop (msrdrv.h:11).           *)
ASSUME LimitAssumption == MSR_VEC_LIMIT \in Nat /\ MSR_VEC_LIMIT >= 6 /\ MaxEvents \in Nat

Memory == FlattenSeq([k \in DOMAIN layout |-> Vector[layout[k]]])
\* Where a vector begins.
Place(v) ==
  LET k == CHOOSE k \in DOMAIN layout : layout[k] = v
  IN 1 + Len(FlattenSeq([j \in 1 .. k - 1 |-> Vector[layout[j]]]))

Registers == {"global_ctrl", "pmc", "fixed_ctr", "perfevtsel", "fixed_ctr_ctrl"}
Main == <<"loadDriver", "read_tsc", "msr_start", "calc_pi", "msr_stop", "read_tsc", "results">>
Measuring(p) == at[p] \in 3 .. 6

MsrInit ==
  /\ layout \in Layouts /\ behind \in {"MSR_NOP", "MSR_STOP", "unknown"}
  /\ fd = [p \in Procs |-> "none"] /\ at = [p \in Procs |-> 1] /\ i = [p \in Procs |-> -1]
  /\ cpu \in [Procs -> CPUs]
  /\ val = [p \in Procs |-> [k \in DOMAIN Memory |-> 0]]
  /\ ts_start = [p \in Procs |-> 0] /\ ts_end = [p \in Procs |-> 0]
  /\ msr = [c \in CPUs |-> [r \in Registers |-> 0]] /\ now = 0
  /\ since = [p \in Procs |-> 0] /\ disturbed = [p \in Procs |-> FALSE]

-----------------------------------------------------------------------------
\* loadDriver only prints that it failed; then every ioctl fails too.
loadDriver(p) ==
  /\ at[p] = 1 /\ at' = [at EXCEPT ![p] = 2] /\ \E r \in {"open", "failed"} : fd' = [fd EXCEPT ![p] = r]
  /\ UNCHANGED <<layout, behind, i, cpu, val, ts_start, ts_end, msr, now, since, disturbed>>

\* An ioctl of main returns, and main takes the clock after the last reading.
Return(p) ==
  /\ at' = [at EXCEPT ![p] = @ + 1]
  /\ ts_start' = IF at[p] = 2 THEN [ts_start EXCEPT ![p] = val'[p][Place("read_tsc")]] ELSE ts_start
  /\ ts_end' = IF at[p] = 6 THEN [ts_end EXCEPT ![p] = val'[p][Place("read_tsc")]] ELSE ts_end

Ioctl(p) ==
  /\ Main[at[p]] \in DOMAIN Vector /\ i[p] = -1
  /\ \/ fd[p] = "open" /\ i' = [i EXCEPT ![p] = 0] /\ UNCHANGED <<val, at, ts_start, ts_end>>
     \/ fd[p] = "failed" /\ UNCHANGED <<i, val>> /\ Return(p)
  /\ UNCHANGED <<layout, behind, fd, cpu, msr, now, since, disturbed>>

calc_pi(p) ==
  /\ Main[at[p]] = "calc_pi" /\ at' = [at EXCEPT ![p] = @ + 1]
  /\ UNCHANGED <<layout, behind, fd, i, cpu, val, ts_start, ts_end, msr, now, since, disturbed>>

closeDriver(p) ==
  /\ Main[at[p]] = "results" /\ fd[p] = "open" /\ fd' = [fd EXCEPT ![p] = "none"]
  /\ UNCHANGED <<layout, behind, at, i, cpu, val, ts_start, ts_end, msr, now, since, disturbed>>

-----------------------------------------------------------------------------
(* One turn of the loop of msrdrv_ioctl, which ends with MSR_STOP, with an *)
(* operation that is unknown, or when it has seen too many.                *)
Turn(p) ==
  LET here == Place(Main[at[p]]) + i[p]
      entry == IF here \in DOMAIN Memory THEN Memory[here] ELSE Op(behind, "none", 0)
      c == cpu[p]
  IN /\ i[p] # -1
     /\ val' = CASE entry.op = "MSR_READ"  -> [val EXCEPT ![p][here] = msr[c][entry.ecx]]
                 [] entry.op = "MSR_RDTSC" -> [val EXCEPT ![p][here] = now]
                 [] OTHER -> val
     /\ IF entry.op = "MSR_WRITE"
        THEN /\ msr' = [msr EXCEPT ![c][entry.ecx] = entry.eax]
             /\ disturbed' = [q \in Procs |-> disturbed[q] \/ (q # p /\ cpu[q] = c /\ Measuring(q))]
        ELSE UNCHANGED <<msr, disturbed>>
     /\ IF entry.op \in {"MSR_STOP", "unknown"} \/ i[p] = MSR_VEC_LIMIT
        THEN i' = [i EXCEPT ![p] = -1] /\ Return(p)
        ELSE i' = [i EXCEPT ![p] = @ + 1] /\ UNCHANGED <<at, ts_start, ts_end>>
     /\ since' = IF at[p] = 3 /\ entry.op = "MSR_WRITE" THEN [since EXCEPT ![p] = 0] ELSE since
     /\ UNCHANGED <<layout, behind, fd, cpu, now>>

\* The kernel moves a process.  Where it runs otherwise was chosen at first.
Migrate(p) ==
  /\ Measuring(p) /\ ~disturbed[p] /\ \E c \in CPUs \ {cpu[p]} : cpu' = [cpu EXCEPT ![p] = c]
  /\ disturbed' = [disturbed EXCEPT ![p] = TRUE]
  /\ UNCHANGED <<layout, behind, fd, at, i, val, ts_start, ts_end, msr, now, since>>

\* A CPU does something that the counters count, for whomever.
Counting(c, ctrl) == msr[c]["global_ctrl"] = 1 /\ msr[c][ctrl] = 1
Event(c) ==
  /\ now < MaxEvents /\ now' = now + 1
  /\ msr' = [msr EXCEPT ![c]["pmc"] = @ + (IF Counting(c, "perfevtsel") THEN 1 ELSE 0),
                        ![c]["fixed_ctr"] = @ + (IF Counting(c, "fixed_ctr_ctrl") THEN 1 ELSE 0)]
  /\ since' = [p \in Procs |-> IF cpu[p] = c /\ at[p] \in 3 .. 5 /\ msr[c]["global_ctrl"] = 1
                              THEN since[p] + 1 ELSE since[p]]
  /\ UNCHANGED <<layout, behind, fd, at, i, cpu, val, ts_start, ts_end, disturbed>>

MsrNext ==
  \/ \E p \in Procs : loadDriver(p) \/ Ioctl(p) \/ calc_pi(p) \/ closeDriver(p) \/ Turn(p) \/ Migrate(p)
  \/ \E c \in CPUs : Event(c)

-----------------------------------------------------------------------------
(* The state is well formed.                                               *)
MsrTypeOK ==
  /\ fd \in [Procs -> {"none", "open", "failed"}] /\ at \in [Procs -> DOMAIN Main]
  /\ i \in [Procs -> -1 .. MSR_VEC_LIMIT] /\ cpu \in [Procs -> CPUs]
  /\ msr \in [CPUs -> [Registers -> 0 .. MaxEvents + 1]] /\ now \in 0 .. MaxEvents

(* What msrtest prints is what happened on its CPU between the start and   *)
(* the stop of the counters, if nobody moved it or set its counters: the   *)
(* readings behind the stop run past their vectors, perhaps through        *)
(* msr_stop or msr_start again, and spoil nothing.                         *)
CountsTheWork ==
  \A p \in Procs : Main[at[p]] = "results" /\ fd[p] = "open" /\ ~disturbed[p] =>
    /\ val[p][Place("msr_stop") + 2] = since[p] /\ val[p][Place("msr_stop") + 3] = since[p]
    /\ ts_end[p] - ts_start[p] >= since[p]
=============================================================================
