----------------------------- MODULE Processes -----------------------------
(***************************************************************************)
(* Small programs about processes: what the traces of the shell lab run    *)
(* (myspin, mysplit, mystop, myint) and those of homework and exams.  Each *)
(* is a sequence of instructions, one for each call that the others can    *)
(* see, run by as many processes as it forks, on a terminal or not.  sleep *)
(* is any delay and left out, as are counters of loops.                    *)
(***************************************************************************)
EXTENDS Integers, Sequences, SequencesExt, FiniteSetsExt, FiniteSets

CONSTANTS
  MaxProcs,     \* bound: processes and threads
  N,            \* children of fork10
  File,         \* bytes of the file that question2 and dup2_2 read
  MaxFaults     \* bound: returns of exhand's handler

\* Instructions.  After fork the child goes on at child, the parent at the
\* next one, or at failed; where there is no other place, that is the next.
Do(op) == [op |-> op]
Fork(child, failed) == [op |-> "fork", child |-> child, failed |-> failed]
Put(text, newline) == [op |-> "print", text |-> text, newline |-> newline]
Say(text) == Put(text, TRUE)
Waitpid(k) == [op |-> "waitpid", child |-> k]
Kill(whom, sig) == [op |-> "kill", whom |-> whom, sig |-> sig]
Exit(status) == [op |-> "exit", status |-> status]
Goto(pc) == [op |-> "goto", to |-> pc]
Repeat(n, code) == FlattenSeq([i \in 1 .. n |-> code])

-----------------------------------------------------------------------------
(* The programs.                                                           *)
MySpin == <<Exit(0)>>
MySplit == <<Fork(4, 2), Do("wait"), Exit(0),  Exit(0)>>
MyStop == <<Kill("group", "TSTP"), Exit(0)>>
MyInt == <<Kill("self", "INT"), Exit(0)>>
Fork10 == [i \in 1 .. N |-> Fork(3 * N + 1 + i, i + 1)] \o Repeat(N, <<Do("wait"), Do("report")>>)
            \o <<Exit(0)>> \o [i \in 1 .. N |-> Exit(99 + i)]
ExHand == <<Say("returned"), Do("fault")>>
\* Each line with a pid is left out, and what comes before it is alike.
Homework3 ==
  <<Fork(4, 2), Say("Hello"), Goto(7),  Fork(6, 5), Goto(7),  Say("Hello"),
    Fork(9, 9), Say("Hello"), Exit(0)>>
Zombie == <<Fork(6, 2), Fork(6, 3), Waitpid(1), Waitpid(2), Exit(0),  Do("_exit")>>
\* Mutant: what was printed is not flushed before the fork.
Signal5Unflushed ==
  <<Put("1", FALSE), Goto(3), Fork(8, 4), Kill("child", "USR1"), Waitpid(0), Put("22", FALSE), Exit(0),
    Do("spin"),  Put("5", FALSE), Do("flush"), Exit(0)>>
Signal5 ==
  <<Put("1", FALSE), Do("flush"), Fork(8, 4), Kill("child", "USR1"), Waitpid(0), Put("22", FALSE), Exit(0),
    Do("spin"),  Put("5", FALSE), Do("flush"), Exit(0)>>
Question2 == <<Do("read"), Fork(3, 3), Do("read"), Do("chars"), Exit(0)>>
\* The same but for the delays.
Dup2 == Question2
Redirector == <<Do("open"), Do("dup2"), Do("close"), Do("exec"), Exit(0),  Say("hello"), Exit(0)>>
Threads12 ==
  <<Say("main started"), [op |-> "thread", start |-> 5], Say("after 1 sec"), Exit(0),
    Say("peer started"), Say("hello from peer"), Exit(0)>>

Programs ==
  [myspin |-> MySpin, mysplit |-> MySplit, mystop |-> MyStop, myint |-> MyInt, fork10 |-> Fork10,
   exhand |-> ExHand, hw |-> Homework3, zombie |-> Zombie, Q1 |-> Signal5, question2 |-> Question2,
   dup2_2 |-> Dup2, redirector |-> Redirector, Q2 |-> Threads12]
\* Where the handler that a program installs begins.
Handler == [Q1 |-> 9]

VARIABLES
  program, tty,  \* which one, and whether its output is a terminal
  proc,          \* of each process or thread: its state
  buffer,        \* of each process: what stdio has not written
  offset,        \* of the open file, which a fork shares
  out, file,     \* what came out, and what came to the file of redirector
  failed,        \* history: whether a fork or an open failed
  stray          \* history: whether a signal went to every process there is
pvars == <<program, tty, proc, buffer, offset, out, file, failed, stray>>

Procs == 1 .. MaxProcs
Absent == [state |-> "absent", pc |-> 0, of |-> 0, parent |-> 0, kids |-> <<>>, got |-> <<>>,
           status |-> -1, stdout |-> "out", fd |-> "none"]
Root == [Absent EXCEPT !.state = "run", !.pc = 1, !.of = 1]

ProcessesInit ==
  /\ program \in DOMAIN Programs /\ tty \in BOOLEAN
  /\ proc = [p \in Procs |-> IF p = 1 THEN Root ELSE Absent]
  /\ buffer = [p \in Procs |-> <<>>] /\ offset = 0 /\ out = <<>> /\ file = <<>>
  /\ failed = FALSE /\ stray = FALSE

Alive == {p \in Procs : proc[p].state \in {"run", "stopped"}}
At(p, op) == proc[p].state = "run" /\ Programs[program][proc[p].pc].op = op
Instr(p) == Programs[program][proc[p].pc]
Next1(p) == [proc EXCEPT ![p].pc = @ + 1]
NoOutput == UNCHANGED <<buffer, out, file>>
Same == UNCHANGED <<program, tty>>
Free == Min({q \in Procs : proc[q].state = "absent"})

-----------------------------------------------------------------------------
(* fork copies what has been printed and not written.                      *)
DoFork(p) ==
  /\ At(p, "fork")
  /\ proc' = [proc EXCEPT ![p].pc = @ + 1, ![p].kids = Append(@, Free),
       ![Free] = [proc[p] EXCEPT !.pc = Instr(p).child, !.parent = p, !.of = Free, !.kids = <<>>]]
  /\ buffer' = [buffer EXCEPT ![Free] = buffer[proc[p].of]]
  /\ UNCHANGED <<offset, out, file, failed, stray>> /\ Same
\* Bound: once.
ForkFails(p) ==
  /\ At(p, "fork") /\ ~failed /\ failed' = TRUE
  /\ proc' = [proc EXCEPT ![p].pc = Instr(p).failed, ![p].kids = Append(@, 0)]
  /\ NoOutput /\ UNCHANGED <<offset, stray>> /\ Same
DoThread(p) ==
  /\ At(p, "thread")
  /\ proc' = [proc EXCEPT ![p].pc = @ + 1, ![Free] = [proc[p] EXCEPT !.pc = Instr(p).start]]
  /\ NoOutput /\ UNCHANGED <<offset, failed, stray>> /\ Same

(* A process that ends takes its threads with it; its own children go to   *)
(* init, which reaps them.                                                 *)
Ended(ps, ending) ==
  [q \in Procs |->
    IF q \in ps
    THEN [proc[q] EXCEPT !.state = IF proc[q].parent \in ps \cup {0} THEN "gone" ELSE "zombie", !.status = ending]
    ELSE IF proc[q].parent \in ps
    THEN [proc[q] EXCEPT !.parent = 0, !.state = IF @ = "zombie" THEN "gone" ELSE @]
    ELSE proc[q]]
Written(p) ==
  LET text == buffer[proc[p].of]
  IN /\ buffer' = [buffer EXCEPT ![proc[p].of] = <<>>]
     /\ IF proc[p].stdout = "out" THEN out' = out \o text /\ UNCHANGED file
        ELSE file' = file \o text /\ UNCHANGED out
DoExit(p) ==
  /\ \/ At(p, "exit") /\ Written(p) /\ proc' = Ended({q \in Alive : proc[q].of = proc[p].of}, Instr(p).status)
     \/ At(p, "_exit") /\ NoOutput /\ proc' = Ended({p}, 0)
  /\ UNCHANGED <<offset, failed, stray>> /\ Same

(* wait and waitpid (any child for 0, that for -1 after a failed fork);    *)
(* without a child to wait for the status stays what it was.               *)
Awaited(p) ==
  LET k == IF At(p, "waitpid") THEN Instr(p).child ELSE 0
      own == {q \in Procs : proc[q].parent = p /\ proc[q].of # proc[p].of /\ proc[q].state # "gone"}
  IN IF k = 0 \/ proc[p].kids[k] = 0 THEN own ELSE own \cap {proc[p].kids[k]}
DoWait(p) ==
  /\ At(p, "wait") \/ At(p, "waitpid")
  /\ \/ \E q \in Awaited(p) :
          /\ proc[q].state = "zombie"
          /\ proc' = [Next1(p) EXCEPT ![q].state = "gone", ![p].status = proc[q].status]
     \/ Awaited(p) = {} /\ proc' = Next1(p)
  /\ NoOutput /\ UNCHANGED <<offset, failed, stray>> /\ Same

(* printf: on a terminal a line is written as soon as it is complete.      *)
Printf(p, text, newline) ==
  LET full == Append(buffer[proc[p].of], text)
  IN IF newline /\ tty /\ proc[p].stdout = "out"
     THEN out' = out \o full /\ buffer' = [buffer EXCEPT ![proc[p].of] = <<>>] /\ UNCHANGED file
     ELSE buffer' = [buffer EXCEPT ![proc[p].of] = full] /\ UNCHANGED <<out, file>>
DoPrint(p) ==
  /\ \/ At(p, "print") /\ Printf(p, Instr(p).text, Instr(p).newline)
     \/ At(p, "report") /\ Printf(p, proc[p].status, TRUE)
     \/ At(p, "chars") /\ Printf(p, proc[p].got, TRUE)
     \/ At(p, "flush") /\ Written(p)
  /\ proc' = Next1(p) /\ UNCHANGED <<offset, failed, stray>> /\ Same

(* Descriptors.  At the end of the file read leaves the character as it was. *)
DoRead(p) ==
  /\ At(p, "read")
  /\ LET c == IF offset < Len(File) THEN <<File[offset + 1]>> ELSE <<>>
     IN proc' = [Next1(p) EXCEPT ![p].got = @ \o c] /\ offset' = offset + Len(c)
  /\ NoOutput /\ UNCHANGED <<failed, stray>> /\ Same
DoRedirect(p) ==
  /\ \/ At(p, "open") /\ \E fd \in {"file", "none"} :
          proc' = [Next1(p) EXCEPT ![p].fd = fd] /\ failed' = (failed \/ fd = "none")
     \/ At(p, "dup2") /\ proc' = [Next1(p) EXCEPT ![p].stdout = IF proc[p].fd = "file" THEN "file" ELSE @] /\ UNCHANGED failed
     \/ At(p, "close") /\ proc' = [Next1(p) EXCEPT ![p].fd = "none"] /\ UNCHANGED failed
     \/ At(p, "exec") /\ \E pc \in {proc[p].pc + 1, proc[p].pc + 2} :
          proc' = [proc EXCEPT ![p].pc = pc] /\ failed' = (failed \/ pc = proc[p].pc + 1)
     \/ At(p, "goto") /\ proc' = [proc EXCEPT ![p].pc = Instr(p).to] /\ UNCHANGED failed
  /\ NoOutput /\ UNCHANGED <<offset, stray>> /\ Same

-----------------------------------------------------------------------------
(* Signals.                                                                *)
Killed == -2
Signalled(procs, ps, sig) ==
  CASE sig = "TSTP" -> [q \in Procs |-> IF q \in ps /\ procs[q].state = "run" THEN [procs[q] EXCEPT !.state = "stopped"] ELSE procs[q]]
    [] sig = "CONT" -> [q \in Procs |-> IF q \in ps /\ procs[q].state = "stopped" THEN [procs[q] EXCEPT !.state = "run"] ELSE procs[q]]
    [] sig = "USR1" -> [q \in Procs |-> IF q \in ps \cap Alive THEN [procs[q] EXCEPT !.pc = Handler[program]] ELSE procs[q]]
    [] OTHER -> Ended(ps \cap Alive, Killed)
\* kill(pid), where pid is that of a child that a failed fork did not make,
\* goes to every process but its sender.
DoKill(p) ==
  /\ At(p, "kill")
  /\ LET whom == Instr(p).whom
         child == IF whom = "child" THEN Last(proc[p].kids) ELSE 0
     IN /\ proc' = Signalled(Next1(p), CASE whom = "group" -> Alive [] whom = "self" -> {p} [] OTHER -> {child} \ {0}, Instr(p).sig)
        /\ stray' = (stray \/ (whom = "child" /\ child = 0))
  /\ NoOutput /\ UNCHANGED <<offset, failed>> /\ Same
\* h1 returns to the instruction that faulted.
DoFault(p) ==
  /\ At(p, "fault") /\ Len(out) + Len(buffer[p]) < MaxFaults /\ Printf(p, "handler", TRUE)
  /\ UNCHANGED <<proc, offset, failed, stray>> /\ Same
\* What tsh passes on to the programs of its traces: keys to the foreground
\* job, and CONT from fg and bg.
InShell == program \in {"myspin", "mysplit", "mystop", "myint"}
ShellSignals(sig) ==
  /\ InShell /\ Alive # {}
  /\ IF sig = "CONT" THEN \E p \in Alive : proc[p].state = "stopped" ELSE \A p \in Alive : proc[p].state = "run"
  /\ proc' = Signalled(proc, Alive, sig)
  /\ NoOutput /\ UNCHANGED <<offset, failed, stray>> /\ Same

Step(p) == \/ DoFork(p) \/ DoThread(p) \/ DoExit(p) \/ DoWait(p) \/ DoPrint(p) \/ DoRead(p)
           \/ DoRedirect(p) \/ DoKill(p) \/ DoFault(p)
ProcessesNext == \/ \E p \in Procs : Step(p) \/ ForkFails(p)
                 \/ \E sig \in {"INT", "TSTP", "CONT"} : ShellSignals(sig)
ProcessesSpec == ProcessesInit /\ [][ProcessesNext]_pvars

-----------------------------------------------------------------------------
(* What the programs do, however their processes are scheduled, on a       *)
(* terminal and not, as long as no fork and no open fails.  In the shell a *)
(* signal reaches all of a program's processes or none.                    *)
Over == Alive = {}
Normal == proc[1].status = 0
Count(text) == Cardinality({i \in DOMAIN out : out[i] = text})
NobodyLeft == \A p \in Procs \ {1} : proc[p].state \in {"absent", "gone"}
Outcome ==
  CASE program = "fork10" -> ToSet(out) = 100 .. 99 + N /\ Len(out) = N
    [] program = "hw" -> Count("Hello") = (IF tty THEN 5 ELSE 7)
    [] program = "Q1" -> out = <<"1", "5", "22">>
    [] program \in {"question2", "dup2_2"} ->
         {out[1], out[2]} = {<<File[1], File[2]>>, <<File[1], File[3]>>} /\ Len(out) = 2
    [] program = "redirector" -> file = <<"hello">> /\ out = <<>>
    [] program = "myint" -> ~Normal
    [] program = "Q2" ->
         Count("main started") = 1 /\ (Count("after 1 sec") = 1 \/ Count("hello from peer") = 1)
    [] OTHER -> TRUE
ProgramsDo ==
  /\ Over /\ ~failed => Outcome
  /\ program \in {"mysplit", "fork10", "zombie", "Q1"} /\ proc[1].state = "gone" /\ Normal /\ ~failed => NobodyLeft
  /\ InShell => Alive = {} \/ \E state \in {"run", "stopped"} : \A p \in Alive : proc[p].state = state
  /\ program = "exhand" => Count("returned") <= 1
  /\ stray => failed
=============================================================================
