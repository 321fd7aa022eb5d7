-------------------------------- MODULE Tsh --------------------------------
(***************************************************************************)
(* The job-control core of tsh, the shell of Shell_Lab: one thread that    *)
(* reads and runs command lines (main, eval, do_bgfg, waitfg), the three   *)
(* signal handlers that interrupt it (SIGCHLD, SIGINT, SIGTSTP), and the   *)
(* child processes whose exits and stops raise SIGCHLD.                    *)
(*                                                                         *)
(* The shell is a single thread: the variable running names the handler    *)
(* that holds it, or "main".  A handler starts at any moment its signal is *)
(* pending and not blocked, interrupts whatever was running and returns to *)
(* it.  Signal() installs handlers with an empty sa_mask, so a signal is   *)
(* blocked while its own handler runs and the other two may nest.          *)
(*                                                                         *)
(* The kernel's part (process states, pending signals, waitpid) is what    *)
(* POSIX says of it: an unreported stop is lost when the process is        *)
(* continued, SIGCONT discards a pending SIGTSTP, and a SIGINT sent to a   *)
(* stopped process waits until it is continued.                            *)
(***************************************************************************)
EXTENDS JobTable

CONSTANTS Commands,  \* what may be typed: "run", "run&", "fg", "bg", "blank", "quit"
          Keys,      \* signals that may be sent to the shell: "INT", "TSTP"
          Faults     \* "fork": fork() may fail; "die", "stop": a child may be
                     \* killed or stopped by a signal the shell did not send

ASSUME CommandsAssumption ==
  Commands \subseteq {"run", "run&", "fg", "bg", "blank", "quit"}
ASSUME KeysAssumption == Keys \subseteq {"INT", "TSTP"}
ASSUME FaultsAssumption == Faults \subseteq {"fork", "die", "stop"}

VARIABLES
  jobs, nextjid,     \* the job list and the next job id to allocate
  pc, kind, cur, slot,   \* main: where it is, state the command asks for,
                     \*   pid it works on, given_job
  running,           \* who holds the shell's thread: "main" or a signal
  handler,           \* handler[s]: the frame of s's handler
  pending, blocked,  \* signals pending at the shell, and those it blocks
  proc,              \* proc[p]: state of child process p
  unseen,            \* stopped children that waitpid has not reported
  psig               \* psig[p]: signals pending at child p

table == <<jobs, nextjid>>
main  == <<pc, kind, cur, slot>>
frames == <<running, handler>>
mask  == <<pending, blocked>>
procs == <<proc, unseen, psig>>
vars  == <<table, main, frames, mask, procs>>

Signals == {"CHLD", "INT", "TSTP"}
MainLabels == {"read", "fork", "addjob", "unblock", "cont", "set", "reread",
               "waitfg", "exited", "crashed"}
ProcStates == {"none", "forked", "running", "stopped", "exited", "killed", "gone"}
Frame == [at : {"idle", "waitpid", "delete", "fgpid", "kill", "mark"},
          how : {"none", "exited", "killed", "stopped"},
          pid : Pids \cup {NoPid},      \* the child waitpid reported
          fg : Pids \cup {NoPid},       \* what fgpid returned
          under : Signals \cup {"main"}]    \* who was interrupted
Idle == [at |-> "idle", how |-> "none", pid |-> NoPid, fg |-> NoPid, under |-> "main"]

Zombies == {p \in Pids : proc[p] \in {"exited", "killed"}}
Waitable == Zombies \cup unseen
Alive == pc \notin {"exited", "crashed"}
Unused == {p \in Pids : proc[p] = "none"}

Init ==
  /\ jobs = initjobs /\ nextjid = 1
  /\ pc = "read" /\ kind = "UNDEF" /\ cur = NoPid /\ slot = NoSlot
  /\ running = "main" /\ handler = [s \in Signals |-> Idle]
  /\ pending = {} /\ blocked = {}
  /\ proc = [p \in Pids |-> "none"] /\ unseen = {} /\ psig = [p \in Pids |-> {}]

-----------------------------------------------------------------------------
(* The kernel: sending a signal to the process group of a child.  Before   *)
(* the child has called setpgid the group does not exist; from there to    *)
(* execve the child still has the shell's handlers, which find no          *)
(* foreground job in its copy of the table: either way nothing happens.    *)
Signalled(p, s) ==
  IF p \in Pids /\ proc[p] \in {"running", "stopped"}
  THEN [psig EXCEPT ![p] = @ \cup {s}] ELSE psig

Continue(p) ==
  /\ proc' = IF proc[p] = "stopped" THEN [proc EXCEPT ![p] = "running"] ELSE proc
  /\ unseen' = unseen \ {p}
  /\ psig' = [psig EXCEPT ![p] = @ \ {"TSTP"}]
  /\ pending' = IF proc[p] = "stopped" THEN pending \cup {"CHLD"} ELSE pending

-----------------------------------------------------------------------------
(* main and eval.  A step of main is taken only while no handler runs.     *)
At(label) == pc = label /\ running = "main"

ReturnToPrompt == pc' = "read" /\ kind' = "UNDEF" /\ cur' = NoPid /\ slot' = NoSlot

(* Mutant: fork with SIGCHLD deliverable. *)
EvalRunUnmasked(k) ==
  /\ At("read") /\ Unused # {}
  /\ pc' = "fork" /\ kind' = k
  /\ UNCHANGED <<cur, slot, table, frames, mask, procs>>

(* eval, not a builtin: block SIGCHLD and get ready to fork.               *)
EvalRun(k) ==
  /\ At("read") /\ Unused # {}
  /\ pc' = "fork" /\ kind' = k /\ blocked' = {"CHLD"}
  /\ UNCHANGED <<cur, slot, table, frames, pending, procs>>

Fork ==
  /\ At("fork")
  /\ \E p \in Unused :
       /\ \A q \in Unused : p <= q
       /\ proc' = [proc EXCEPT ![p] = "forked"] /\ cur' = p
  /\ pc' = "addjob"
  /\ UNCHANGED <<kind, slot, table, frames, mask, unseen, psig>>

(* The branch for fork() < 0 is commented out: eval returns with SIGCHLD   *)
(* still blocked.                                                          *)
ForkFails ==
  /\ "fork" \in Faults /\ At("fork")
  /\ ReturnToPrompt
  /\ UNCHANGED <<table, frames, mask, procs>>

AddJob ==
  /\ At("addjob")
  /\ jobs' = addjob(jobs, cur, kind, nextjid)
  /\ nextjid' = jidAfterAdd(jobs, nextjid)
  /\ pc' = "unblock"
  /\ UNCHANGED <<kind, cur, slot, frames, mask, procs>>

(* Mutant: the background branch returns without unblocking SIGCHLD. *)
UnblockForegroundOnly ==
  /\ At("unblock")
  /\ IF kind = "FG" THEN blocked' = {} /\ pc' = "waitfg" /\ UNCHANGED <<kind, cur, slot>>
                    ELSE ReturnToPrompt /\ UNCHANGED blocked
  /\ UNCHANGED <<table, frames, pending, procs>>

Unblock ==
  /\ At("unblock")
  /\ blocked' = {}
  /\ IF kind = "FG" THEN pc' = "waitfg" /\ UNCHANGED <<kind, cur, slot>>
                    ELSE ReturnToPrompt
  /\ UNCHANGED <<table, frames, pending, procs>>

(* Mutant: sleep once instead of until the job has left the foreground. *)
WaitfgSleepsOnce ==
  /\ At("waitfg")
  /\ ReturnToPrompt
  /\ UNCHANGED <<table, frames, mask, procs>>

(* Block until cur is no longer the foreground process.                    *)
WaitfgReturns ==
  /\ At("waitfg") /\ cur # fgpid(jobs)
  /\ ReturnToPrompt
  /\ UNCHANGED <<table, frames, mask, procs>>

(* A line of blanks (or a lone &) leaves argv[0] = NULL, which eval passes *)
(* to strcmp.                                                              *)
BlankLine ==
  /\ "blank" \in Commands /\ At("read")
  /\ pc' = "crashed"
  /\ UNCHANGED <<kind, cur, slot, table, frames, mask, procs>>

(* quit or end of file; the driver's SIGQUIT ends the shell at any point.  *)
Quit ==
  /\ "quit" \in Commands /\ At("read")
  /\ pc' = "exited"
  /\ UNCHANGED <<kind, cur, slot, table, frames, mask, procs>>

Sigquit ==
  /\ "quit" \in Commands /\ Alive
  /\ pc' = "exited"
  /\ UNCHANGED <<kind, cur, slot, table, frames, mask, procs>>

-----------------------------------------------------------------------------
(* do_bgfg.  The job is named by pid or by %jid; SIGCHLD is not blocked,   *)
(* so its handler may clear the slot that given_job points to.             *)
Lookups == ({getjobpid(jobs, p) : p \in Pids} \cup {getjobjid(jobs, j) : j \in JidsIn(jobs)})
             \ {NoSlot}

BgFgLookup(k) ==
  /\ At("read")
  /\ \E i \in Lookups : slot' = i /\ cur' = jobs[i].pid
  /\ pc' = "cont" /\ kind' = k
  /\ UNCHANGED <<table, frames, mask, procs>>

BgFgCont ==
  /\ At("cont")
  /\ IF jobs[slot].state = "ST" THEN Continue(cur) ELSE UNCHANGED <<procs, pending>>
  /\ pc' = "set"
  /\ UNCHANGED <<kind, cur, slot, table, frames, blocked>>

BgFgSet ==
  /\ At("set")
  /\ jobs' = setstate(jobs, slot, kind)
  /\ IF kind = "FG" THEN pc' = "reread" /\ UNCHANGED <<kind, cur, slot>>
                    ELSE ReturnToPrompt
  /\ UNCHANGED <<nextjid, frames, mask, procs>>

(* waitfg(given_job->pid) reads the slot again. *)
BgFgReread ==
  /\ At("reread")
  /\ cur' = jobs[slot].pid /\ pc' = "waitfg"
  /\ UNCHANGED <<kind, slot, table, frames, mask, procs>>

Main ==
  \/ "run" \in Commands /\ EvalRun("FG")
  \/ "run&" \in Commands /\ EvalRun("BG")
  \/ Fork \/ ForkFails \/ AddJob \/ Unblock \/ WaitfgReturns
  \/ BlankLine \/ Quit
  \/ "fg" \in Commands /\ BgFgLookup("FG")
  \/ "bg" \in Commands /\ BgFgLookup("BG")
  \/ BgFgCont \/ BgFgSet \/ BgFgReread

-----------------------------------------------------------------------------
(* The signal handlers.  sigchld_handler calls sigtstp_handler(-20) for a  *)
(* stopped child and sigint_handler(-2) for one killed by a signal: these  *)
(* look up the foreground job, whatever child was reported.  A negative    *)
(* argument makes them also change the job list; a frame of INT or TSTP    *)
(* (how = "none") is the handler called by the kernel.                     *)
Catch(s) ==
  /\ Alive /\ s \in pending \ blocked /\ handler[s].at = "idle"
  /\ pending' = pending \ {s}
  /\ handler' = [handler EXCEPT ![s] =
       [Idle EXCEPT !.at = IF s = "CHLD" THEN "waitpid" ELSE "fgpid", !.under = running]]
  /\ running' = s
  /\ UNCHANGED <<table, main, blocked, procs>>

Step(s, label) == Alive /\ running = s /\ handler[s].at = label
Return(s) == running' = handler[s].under /\ handler' = [handler EXCEPT ![s] = Idle]
Goto(s, label) == handler' = [handler EXCEPT ![s].at = label] /\ UNCHANGED running

(* The while loop of sigchld_handler: waitpid reports any child that is a  *)
(* zombie or newly stopped, and 0 or -1 when there is none.                *)
ReportedAs(p) == IF proc[p] = "exited" THEN "exited"
                 ELSE IF proc[p] = "killed" THEN "killed" ELSE "stopped"

ChldWait ==
  /\ Step("CHLD", "waitpid")
  /\ \E p \in Waitable :
       /\ handler' = [handler EXCEPT !["CHLD"] =
            [@ EXCEPT !.at = IF proc[p] = "exited" THEN "delete" ELSE "fgpid",
                      !.how = ReportedAs(p), !.pid = p]]
       /\ proc' = IF p \in Zombies THEN [proc EXCEPT ![p] = "gone"] ELSE proc
       /\ unseen' = unseen \ {p}
  /\ UNCHANGED <<table, main, running, mask, psig>>

ChldReturn ==
  /\ Step("CHLD", "waitpid") /\ Waitable = {}
  /\ Return("CHLD")
  /\ UNCHANGED <<table, main, mask, procs>>

(* Mutant: an if instead of the while, so that one SIGCHLD reaps one child. *)
ReapsOneChild == Return("CHLD")

NextChild ==
  /\ handler' = [handler EXCEPT !["CHLD"] =
       [Idle EXCEPT !.at = "waitpid", !.under = handler["CHLD"].under]]
  /\ UNCHANGED running

ChldDelete ==
  /\ Step("CHLD", "delete")
  /\ jobs' = deletejob(jobs, handler["CHLD"].pid)
  /\ nextjid' = jidAfterDelete(jobs, handler["CHLD"].pid, nextjid)
  /\ NextChild
  /\ UNCHANGED <<main, mask, procs>>

(* sigint_handler and sigtstp_handler, running as handler s or called by   *)
(* sigchld_handler (s = "CHLD").                                           *)
FindFg(s) ==
  /\ Step(s, "fgpid")
  /\ IF fgpid(jobs) # NoPid
     THEN /\ handler' = [handler EXCEPT ![s] =
               [@ EXCEPT !.at = "kill", !.fg = fgpid(jobs)]]
          /\ UNCHANGED running
     ELSE IF s = "CHLD" THEN NextChild ELSE Return(s)
  /\ UNCHANGED <<table, main, mask, procs>>

SignalOf(s) == IF s # "CHLD" THEN s
               ELSE IF handler[s].how = "stopped" THEN "TSTP" ELSE "INT"

(* Mutant: ctrl-c takes the job off the list without waiting for its death. *)
KillFgAndForget(s) ==
  /\ Step(s, "kill")
  /\ psig' = Signalled(handler[s].fg, SignalOf(s))
  /\ IF s = "CHLD" THEN Goto(s, "mark") ELSE Return(s)
  /\ jobs' = IF s = "INT" THEN deletejob(jobs, handler[s].fg) ELSE jobs
  /\ UNCHANGED <<nextjid, main, mask, proc, unseen>>

KillFg(s) ==
  /\ Step(s, "kill")
  /\ psig' = Signalled(handler[s].fg, SignalOf(s))
  /\ IF s = "CHLD" THEN Goto(s, "mark") ELSE Return(s)
  /\ UNCHANGED <<table, main, mask, proc, unseen>>

(* Mutants: the stopped job is set to BG; it is not marked at all. *)
MarkStoppedBG ==
  /\ Step("CHLD", "mark") /\ handler["CHLD"].how = "stopped"
  /\ jobs' = setstate(jobs, getjobpid(jobs, handler["CHLD"].fg), "BG")
  /\ NextChild
  /\ UNCHANGED <<nextjid, main, mask, procs>>

MarkNothing(how) ==
  /\ Step("CHLD", "mark") /\ handler["CHLD"].how = how
  /\ NextChild
  /\ UNCHANGED <<table, main, mask, procs>>

StoppedUnmarked == MarkNothing("stopped")

MarkStopped ==
  /\ Step("CHLD", "mark") /\ handler["CHLD"].how = "stopped"
  /\ jobs' = setstate(jobs, getjobpid(jobs, handler["CHLD"].fg), "ST")
  /\ NextChild
  /\ UNCHANGED <<nextjid, main, mask, procs>>

(* Mutant: the job killed by a signal stays in the list. *)
KilledUnmarked == MarkNothing("killed")

MarkKilled ==
  /\ Step("CHLD", "mark") /\ handler["CHLD"].how = "killed"
  /\ jobs' = deletejob(jobs, handler["CHLD"].fg)
  /\ nextjid' = jidAfterDelete(jobs, handler["CHLD"].fg, nextjid)
  /\ NextChild
  /\ UNCHANGED <<main, mask, procs>>

Handlers ==
  \/ \E s \in Signals : Catch(s) \/ FindFg(s) \/ KillFg(s)
  \/ ChldWait \/ ChldReturn \/ ChldDelete \/ MarkStopped \/ MarkKilled

-----------------------------------------------------------------------------
(* The environment: keys typed and signals sent to the shell, and the      *)
(* children.  A child leaves "forked" when execve succeeds or, after       *)
(* "Command not found", when it exits.                                     *)
Key(s) ==
  /\ Alive /\ pending' = pending \cup {s}
  /\ UNCHANGED <<table, main, frames, blocked, procs>>

Exec(p) ==
  /\ Alive /\ proc[p] = "forked"
  /\ proc' = [proc EXCEPT ![p] = "running"]
  /\ UNCHANGED <<table, main, frames, mask, unseen, psig>>

Ends(p, how) ==
  /\ proc' = [proc EXCEPT ![p] = how] /\ unseen' = unseen \ {p}
  /\ psig' = [psig EXCEPT ![p] = {}]
  /\ pending' = pending \cup {"CHLD"}
  /\ UNCHANGED <<table, main, frames, blocked>>

Exits(p) == Alive /\ proc[p] \in {"forked", "running"} /\ Ends(p, "exited")
Dies(p) == Alive /\ proc[p] = "running" /\ ("die" \in Faults \/ "INT" \in psig[p])
             /\ Ends(p, "killed")

Stops(p) ==
  /\ Alive /\ proc[p] = "running"
  /\ "stop" \in Faults \/ "TSTP" \in psig[p]
  /\ proc' = [proc EXCEPT ![p] = "stopped"] /\ unseen' = unseen \cup {p}
  /\ psig' = [psig EXCEPT ![p] = @ \ {"TSTP"}]
  /\ pending' = pending \cup {"CHLD"}
  /\ UNCHANGED <<table, main, frames, blocked>>

Child(p) == Exec(p) \/ Exits(p) \/ Dies(p) \/ Stops(p)

Next ==
  \/ Main \/ Sigquit \/ Handlers
  \/ \E s \in Keys : Key(s)
  \/ \E p \in Pids : Child(p)

Spec == Init /\ [][Next]_vars

-----------------------------------------------------------------------------
TypeOK ==
  /\ jobs \in [Slots -> Job] /\ nextjid \in Nat
  /\ pc \in MainLabels /\ kind \in {"UNDEF", "FG", "BG"}
  /\ cur \in Pids \cup {NoPid} /\ slot \in Slots \cup {NoSlot}
  /\ running \in Signals \cup {"main"} /\ handler \in [Signals -> Frame]
  /\ pending \subseteq Signals /\ blocked \subseteq {"CHLD"}
  /\ proc \in [Pids -> ProcStates] /\ unseen \subseteq Pids
  /\ psig \in [Pids -> SUBSET {"INT", "TSTP"}]

(* "At most 1 job can be in the FG state." (line 41)  And the shell prompts *)
(* only when no job is: the terminal never has two owners.                 *)
OneFG == \A i, j \in FgSlots(jobs) : i = j
PromptHasNoFG == pc \in {"read", "fork", "addjob"} => FgSlots(jobs) = {}
AtMostOneFG == OneFG /\ PromptHasNoFG

(* A child whose change of state has not been reported keeps a SIGCHLD     *)
(* pending or its handler in progress: standard signals do not queue, so   *)
(* this rests on the handler's loop.                                       *)
NoLostSigchld == Waitable # {} => "CHLD" \in pending \/ handler["CHLD"].at # "idle"

(* getjobpid in sigtstp_handler(-20) is dereferenced without a check.      *)
MarkFindsJob ==
  handler["CHLD"].at = "mark" /\ handler["CHLD"].how = "stopped"
     => getjobpid(jobs, handler["CHLD"].fg) # NoSlot

(* trace07/trace08: "Forward SIGINT (SIGTSTP) only to foreground job": the *)
(* shell never signals a job its list shows in the background, although    *)
(* the list may change between fgpid and kill.                             *)
SparesBackground ==
  [][\A i \in Slots : jobs[i].state = "BG" /\ jobs[i].pid \in Pids
        => psig'[jobs[i].pid] \subseteq psig[jobs[i].pid]]_vars

(* SIGCHLD is blocked from before fork until after addjob, so a job enters *)
(* the list before it can be taken out: no entry is born dead.             *)
AddedAlive ==
  [][\A p \in Pids : p \in Listed(jobs') \ Listed(jobs) => proc[p] # "gone"]_vars

(* nextjid is above every id in use until an id has reached MAXJOBS (then  *)
(* the counter has wrapped and ids may repeat).                            *)
NextJidFresh == nextjid > maxjid(jobs) \/ maxjid(jobs) >= MAXJOBS

(* With no report outstanding, the states in the list are those of the     *)
(* processes.                                                              *)
Quiet == /\ running = "main" /\ pc \in {"read", "waitfg"}
         /\ "CHLD" \notin pending /\ Waitable = {}
TableAgrees ==
  Quiet => \A i \in Slots : jobs[i].pid # NoPid =>
             /\ jobs[i].state = "ST" <=> proc[jobs[i].pid] = "stopped"
             /\ proc[jobs[i].pid] # "gone"

(* The jobs of tsh seen as in JobControl: a child forked but not yet added *)
(* is not a job yet, and one that is not in the list is done.              *)
jobOf == [p \in Pids |->
  IF p \in Listed(jobs) THEN jobs[getjobpid(jobs, p)].state
  ELSE IF proc[p] = "none" \/ (pc = "addjob" /\ cur = p) THEN "none"
  ELSE "done"]
JC == INSTANCE JobControl WITH job <- jobOf
ImplementsJobControl == JC!JCSpec

-----------------------------------------------------------------------------
(* Fairness: the kernel runs the shell, delivers a SIGCHLD that stays      *)
(* deliverable, and lets interrupted code continue between two signals     *)
(* (strong fairness: a key may interrupt it again and again).  Nothing is  *)
(* assumed of children, of the user, or of what is typed at the prompt.    *)
MainContinues == Fork \/ AddJob \/ Unblock \/ WaitfgReturns
                   \/ BgFgCont \/ BgFgSet \/ BgFgReread
ChldSteps == ChldWait \/ ChldReturn \/ ChldDelete \/ FindFg("CHLD") \/ KillFg("CHLD")
               \/ MarkStopped \/ MarkKilled
KeySteps == \E s \in {"INT", "TSTP"} : FindFg(s) \/ KillFg(s)
Fairness == /\ SF_vars(MainContinues) /\ SF_vars(ChldSteps) /\ WF_vars(KeySteps)
            /\ SF_vars(Catch("CHLD"))
FairSpec == Spec /\ Fairness

(* waitfg: "Block until process pid is no longer the foreground process"   *)
(* (line 526): once it has ended or stopped, the shell prompts again.      *)
FgOver == pc = "waitfg" /\ (cur = NoPid \/ proc[cur] \in {"exited", "killed", "gone", "stopped"})
FgReturns == FgOver ~> pc # "waitfg"

(* "The handler reaps all available zombie children" (lines 545-546).      *)
ZombiesReaped == \A p \in Pids : proc[p] \in {"exited", "killed"} ~> proc[p] = "gone"

=============================================================================
