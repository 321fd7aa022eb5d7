------------------------------ MODULE JobTable ------------------------------
(***************************************************************************)
(* The job list of tsh (src/Shell_Lab/shlab-handout/tsh.c): a fixed array  *)
(* of MAXJOBS slots and the helper routines that search and change it.     *)
(* A slot is free when its pid is 0; every search walks the array upwards  *)
(* and stops at the first match, which is what First stands for.           *)
(*                                                                         *)
(* The routines are pure functions of a table here; Tsh applies them to    *)
(* its variable jobs.  The command line kept in a slot is left out: no     *)
(* decision of the shell depends on it.                                    *)
(***************************************************************************)
EXTENDS Integers, FiniteSetsExt

CONSTANTS MAXJOBS,   \* number of slots
          Pids       \* process ids fork() may return

ASSUME MaxJobsAssumption == MAXJOBS \in Nat \ {0}
ASSUME PidsAssumption    == Pids \subseteq Nat \ {0}

NoPid == 0           \* pid of a free slot, and fgpid's "no such job"
NoSlot == 0          \* the NULL that getjobpid and getjobjid return
Slots == 1 .. MAXJOBS
States == {"UNDEF", "FG", "BG", "ST"}
Job == [pid : Pids \cup {NoPid}, jid : Nat, state : States]

(* Cleared slots and the initial table. *)
clearjob == [pid |-> NoPid, jid |-> 0, state |-> "UNDEF"]
initjobs == [i \in Slots |-> clearjob]

(* The first slot of a set of slots, NULL if there is none. *)
First(S) == IF S = {} THEN NoSlot ELSE Min(S)

SlotsWithPid(t, pid) == {i \in Slots : t[i].pid = pid}
SlotsWithJid(t, jid) == {i \in Slots : t[i].jid = jid}
FgSlots(t) == {i \in Slots : t[i].state = "FG"}
Listed(t) == {t[i].pid : i \in Slots} \ {NoPid}
JidsIn(t) == {t[i].jid : i \in Slots}

(* Mutant of fgpid: the first job, in whatever state. *)
firstpid(t) == IF Listed(t) = {} THEN NoPid
               ELSE t[First({i \in Slots : t[i].pid # NoPid})].pid

getjobpid(t, pid) == IF pid < 1 THEN NoSlot ELSE First(SlotsWithPid(t, pid))
getjobjid(t, jid) == IF jid < 1 THEN NoSlot ELSE First(SlotsWithJid(t, jid))
fgpid(t) == IF FgSlots(t) = {} THEN NoPid ELSE t[First(FgSlots(t))].pid
maxjid(t) == Max(JidsIn(t) \cup {0})

(* addjob takes the first free slot and the next job id, which wraps to 1  *)
(* after MAXJOBS; a full table is left as it is.  deletejob frees the slot *)
(* of pid and recomputes the next job id from the jobs that remain.        *)
HasRoom(t) == SlotsWithPid(t, NoPid) # {}

addjob(t, pid, state, jid) ==
  IF HasRoom(t)
  THEN [t EXCEPT ![First(SlotsWithPid(t, NoPid))] =
          [pid |-> pid, jid |-> jid, state |-> state]]
  ELSE t

jidAfterAdd(t, jid) ==
  IF ~ HasRoom(t) THEN jid ELSE IF jid + 1 > MAXJOBS THEN 1 ELSE jid + 1

deletejob(t, pid) ==
  IF getjobpid(t, pid) = NoSlot
  THEN t ELSE [t EXCEPT ![getjobpid(t, pid)] = clearjob]

(* Mutants: the id of the last job is handed out again; the counter is     *)
(* stepped back instead of recomputed.                                     *)
jidReused(t, pid, jid) ==
  IF getjobpid(t, pid) = NoSlot THEN jid ELSE maxjid(deletejob(t, pid))

jidSteppedBack(t, pid, jid) == IF getjobpid(t, pid) = NoSlot THEN jid ELSE jid - 1

jidAfterDelete(t, pid, jid) ==
  IF getjobpid(t, pid) = NoSlot THEN jid ELSE maxjid(deletejob(t, pid)) + 1

setstate(t, i, state) == [t EXCEPT ![i].state = state]

=============================================================================
