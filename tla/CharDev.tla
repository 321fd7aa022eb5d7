------------------------------ MODULE CharDev ------------------------------
(***************************************************************************)
(* The character device of Kernel_Driver_Lab/chardev.c and the program     *)
(* that tries it, ioctl_test.c.  A read tells the caller and its           *)
(* ancestors; what was written to the device only decides whether there is *)
(* anything to read.  Every access to Message and to call_tree_Ptr is a    *)
(* step.                                                                   *)
(*                                                                         *)
(* A report is a sequence of lines; a line is read as a whole, and lengths *)
(* count lines.  Message_Ptr points to Message from the first device_open  *)
(* on and never moves.  GET_MSG is a read of 1023 bytes, more than any     *)
(* report here has.                                                        *)
(***************************************************************************)
EXTENDS OpenOnce, SequencesExt

CONSTANTS
  Letters,   \* characters of messages
  BUF_LEN,   \* size of Message
  MaxTree,   \* how many tasks a report tells of at most (20)
  Lengths    \* the lengths with which processes read

Nul == 0

VARIABLES
  pid,       \* the pids of the processes, for all time
  parent,    \* real_parent, as a function of pids; that of 0 is 0
  exe,       \* the file that a task executes, None for a task without memory
  Message,   \* the buffer
  call_tree, \* the current report
  call_tree_Ptr, \* how many of its lines have been copied
  ptr,       \* the place that a process loaded from call_tree_Ptr
  got,       \* what its last read returned so far
  length,    \* how much that read may still return
  input,     \* what it writes, and how much of it is in Message: [text, at]
  said       \* history: the text of Message, if one is known
tasks == <<pid, parent, exe>>
read  == <<call_tree, call_tree_Ptr, ptr, got, length>>
write == <<Message, input, said>>
vars == <<pc, open, kernel, tasks, read, write>>

None    == "none"
Index   == 1 .. BUF_LEN
Texts   == SeqOf(Letters, BUF_LEN)
Unknown == << -1 >>
Nothing == [text |-> <<>>, at |-> 0]
Garbage == [path |-> [file |-> "garbage", caller |-> FALSE], number |-> <<>>]

-----------------------------------------------------------------------------
(* int_to_str appends the last digit first.                                *)
int_to_str[n \in Nat] == IF n > 9 THEN <<n % 10>> \o int_to_str[n \div 10] ELSE <<n>>

\* The path to print for t, the n-th task: one without memory leaves the last.
PathOf(t, n, path) == IF exe[t] = None THEN path ELSE [file |-> exe[t], caller |-> n = 1]

(* The loop of device_read over the calling task and its ancestors, with   *)
(* the path of the task before; every line is put before the lines so far. *)
Paths == [file : Range(exe) \cup {""}, caller : BOOLEAN]
Report(task) ==
  LET walk[s \in [n : 1 .. MaxTree, task : DOMAIN parent, path : Paths]] ==
        LET here == PathOf(s.task, s.n, s.path)
            line == [path |-> here, number |-> int_to_str[s.task]]
        IN IF s.task = 0 \/ s.n = MaxTree THEN <<line>>
           ELSE Append(walk[[n |-> s.n + 1, task |-> parent[s.task], path |-> here]], line)
  IN walk[[n |-> 1, task |-> task, path |-> [file |-> "", caller |-> FALSE]]]

(* string_formatter of ioctl_test.c, with which it prints what it read:    *)
(* behind the k-th line it puts k spaces.                                  *)
string_formatter(text) ==
  LET res[k \in 0 .. Len(text)] ==
        IF k = 0 THEN <<>> ELSE (res[k - 1] \o <<text[k]>>) \o [j \in 1 .. k |-> " "]
  IN res[Len(text)]

-----------------------------------------------------------------------------
CharInit ==
  /\ OpenInit
  /\ Message = [i \in Index |-> Nul] /\ call_tree = <<>> /\ call_tree_Ptr = 0
  /\ ptr = [p \in Procs |-> 0]
  /\ got = [p \in Procs |-> <<>>] /\ length = [p \in Procs |-> 0]
  /\ input = [p \in Procs |-> Nothing] /\ said = <<>>

\* device_open and device_release; Message_Ptr = Message.
SetPtr(p) == Goto(p, "set", "get") /\ UNCHANGED <<open, kernel>>
OpenClose(p) ==
  /\ OpenTest(p) \/ Load(p) \/ OpenStore(p) \/ SetPtr(p) \/ OpenGet(p) \/ Close(p) \/ CloseStore(p)
  /\ UNCHANGED <<tasks, read, write>>

\* A process that has closed the device, or oopses, forgets what it read and wrote.
Forget(S) ==
  /\ got' = [p \in Procs |-> IF p \in S THEN <<>> ELSE got[p]]
  /\ ptr' = [p \in Procs |-> IF p \in S THEN 0 ELSE ptr[p]]
  /\ length' = [p \in Procs |-> IF p \in S THEN 0 ELSE length[p]]
  /\ input' = [p \in Procs |-> IF p \in S THEN Nothing ELSE input[p]]
Closed(p) ==
  /\ ClosePut(p) /\ Forget({p})
  /\ UNCHANGED <<tasks, call_tree, call_tree_Ptr, Message, said>>

Loaded == Insmod /\ UNCHANGED <<tasks, read, write>>
Leaving == Rmmod /\ UNCHANGED <<tasks, read, write>>
\* The static data go with the module.
Unloaded ==
  /\ Cleanup /\ Forget(Procs) /\ Message' = [i \in Index |-> Nul] /\ said' = <<>>
  /\ call_tree' = <<>> /\ call_tree_Ptr' = 0 /\ UNCHANGED tasks

-----------------------------------------------------------------------------
(* device_read, also from GET_MSG: Message decides whether there is        *)
(* anything to read.                                                       *)
Read(p, n) ==
  /\ got' = [got EXCEPT ![p] = <<>>]
  /\ \/ Goto(p, "open", "tree") /\ Message[1] # Nul /\ length' = [length EXCEPT ![p] = n]
     \/ pc[p] = "open" /\ Message[1] = Nul /\ length' = [length EXCEPT ![p] = 0] /\ UNCHANGED pc
  /\ UNCHANGED <<open, kernel, tasks, call_tree, call_tree_Ptr, ptr, write>>

\* Mutant: a read continues where the last one ended.
TreeOnce(p) ==
  /\ Goto(p, "tree", "test") /\ call_tree' = Report(pid[p])
  /\ call_tree_Ptr' = IF call_tree = Report(pid[p]) THEN call_tree_Ptr ELSE 0
  /\ UNCHANGED <<open, kernel, tasks, ptr, got, length, write>>
\* The report is built in memory of its own and made current.
Tree(p) ==
  /\ Goto(p, "tree", "test") /\ call_tree' = Report(pid[p]) /\ call_tree_Ptr' = 0
  /\ UNCHANGED <<open, kernel, tasks, ptr, got, length, write>>

\* The loop goes on unless the length is used up or the report ends; behind
\* its end anything may be found.
Test(p) ==
  /\ \/ Goto(p, "test", "take") /\ length[p] > 0 /\ call_tree_Ptr # Len(call_tree)
     \/ Goto(p, "test", "open") /\ (length[p] = 0 \/ call_tree_Ptr >= Len(call_tree))
  /\ UNCHANGED <<open, kernel, tasks, read, write>>

Take(p) ==
  /\ Goto(p, "take", "store_ptr") /\ ptr' = [ptr EXCEPT ![p] = call_tree_Ptr]
  /\ UNCHANGED <<open, kernel, tasks, call_tree, call_tree_Ptr, got, length, write>>

StorePtr(p) ==
  LET at == ptr[p] + 1
      line == IF at \in DOMAIN call_tree THEN call_tree[at] ELSE Garbage
  IN /\ Goto(p, "store_ptr", "test") /\ call_tree_Ptr' = at
     /\ got' = [got EXCEPT ![p] = Append(@, line)]
     /\ length' = [length EXCEPT ![p] = @ - 1]
     /\ UNCHANGED <<open, kernel, tasks, call_tree, ptr, write>>

-----------------------------------------------------------------------------
\* Mutant: one character more.
UptoAndOne(s, n) == SubSeq(s, 1, IF Len(s) <= n THEN Len(s) ELSE n + 1)
Upto(s, n) == SubSeq(s, 1, IF Len(s) < n THEN Len(s) ELSE n)

(* IOCTL_SET_MSG finds the length of a text with a loop that looks at its  *)
(* first character twice: it counts the final zero too, and nothing at all *)
(* if the text is empty.                                                   *)
SetMsg(m) == IF m = <<>> THEN <<>> ELSE Append(m, Nul)

\* device_write, of a text without its zero or from IOCTL_SET_MSG.
Write(p, m) ==
  /\ Goto(p, "open", "copy")
  /\ \E s \in {m, SetMsg(m)} : input' = [input EXCEPT ![p] = [text |-> Upto(s, BUF_LEN), at |-> 0]]
  /\ UNCHANGED <<open, kernel, tasks, read, Message, said>>

Copy(p) ==
  LET i == input[p].at + 1
  IN /\ pc[p] = "copy" /\ i <= Len(input[p].text)
     /\ Message' = [Message EXCEPT ![i] = input[p].text[i]]
     /\ input' = [input EXCEPT ![p].at = i]
     /\ UNCHANGED <<pc, open, kernel, tasks, read, said>>

\* A text that was written with its zero is known.
Written(p) ==
  LET s == input[p].text
  IN /\ Goto(p, "copy", "open") /\ input[p].at = Len(s)
     /\ said' = IF s = <<>> THEN said ELSE IF Last(s) = Nul THEN Front(s) ELSE Unknown
     /\ UNCHANGED <<open, kernel, tasks, read, Message, input>>

CharNext ==
  \/ Loaded \/ Leaving \/ Unloaded
  \/ \E p \in Procs :
       \/ OpenClose(p) \/ Closed(p)
       \/ \E n \in Lengths : Read(p, n)
       \/ Tree(p) \/ Test(p) \/ Take(p) \/ StorePtr(p)
       \/ \E m \in Texts : Write(p, m)
       \/ Copy(p) \/ Written(p)

-----------------------------------------------------------------------------
(* The state is well formed; device_write stays within Message.            *)
CharTypeOK ==
  /\ OpenTypeOK
  /\ Message \in [Index -> Letters \cup {Nul}]
  /\ call_tree_Ptr \in Nat /\ Len(call_tree) <= MaxTree
  /\ pc \in [Procs -> Opening \cup Closing \cup {"away", "open", "oops", "tree", "test", "take", "store_ptr", "copy"}]
  /\ ptr \in [Procs -> Nat] /\ length \in [Procs -> Nat]
  /\ input \in [Procs -> [text : SeqOf(Letters \cup {Nul}, BUF_LEN), at : 0 .. BUF_LEN]]
  /\ said \in Texts \cup {Unknown}

\* A text in which every line is indented by a space more than the last.
Stairs(text) ==
  FlattenSeq([k \in DOMAIN text |-> [j \in 1 .. k - 1 |-> " "] \o <<text[k]>>])

\* What a report to a task should say: its k-th ancestor.
Ancestor(task) ==
  LET anc[k \in 0 .. MaxTree] == IF k = 0 THEN task ELSE parent[anc[k - 1]]
  IN anc
\* The first that is task 0 or the last in a report.
Height(task) == CHOOSE n \in 1 .. MaxTree :
  /\ n = MaxTree \/ Ancestor(task)[n - 1] = 0
  /\ \A m \in 1 .. n - 1 : Ancestor(task)[m - 1] # 0
Told(task) == [i \in 1 .. Height(task) |->
  LET k == Height(task) - i
      j == CHOOSE x \in 0 .. k : /\ exe[Ancestor(task)[x]] # None
                               /\ \A y \in x + 1 .. k : exe[Ancestor(task)[y]] = None
  IN [path |-> [file |-> exe[Ancestor(task)[j]], caller |-> j = 0],
      number |-> int_to_str[Ancestor(task)[k]]]]

(* A report that is made has a line for the caller and each ancestor, the  *)
(* eldest first, at most MaxTree; a task without memory goes under the     *)
(* name of the nearest descendant with one.  ioctl_test prints as much of  *)
(* it as it reads as a staircase.                                          *)
TellsAncestors == \A p \in Procs : pc[p] = "tree" =>
  LET text == Report(pid[p])
  IN /\ text = Told(pid[p])
     /\ \A n \in 0 .. Len(text) : IsPrefix(Stairs(SubSeq(text, 1, n)), string_formatter(SubSeq(text, 1, n)))

(* All readers copy through one call_tree_Ptr.  Outside the window of      *)
(* device_open a reader gets its own report from the beginning, never      *)
(* another process's nor what lies behind the end, and a read that returns *)
(* has used up its length or the report.                                   *)
OwnReport ==
  module # "out" /\ ~overlapped => \A p \in Procs :
    /\ got[p] = SubSeq(Report(pid[p]), 1, Len(got[p])) /\ Len(got[p]) <= Len(Report(pid[p]))
    /\ pc[p] = "open" => length[p] = 0 \/ Len(got[p]) = Len(Report(pid[p]))

(* A text set with IOCTL_SET_MSG that is not too long reads back as it is, *)
(* whatever was in Message before, up to the next write; what a longer one *)
(* left there does not show.  Setting the empty text changes nothing.      *)
TextOf(m) ==
  LET ends == {i \in Index : m[i] = Nul}
  IN SubSeq(m, 1, IF ends = {} THEN BUF_LEN ELSE (CHOOSE i \in ends : \A j \in ends : i <= j) - 1)
ReadsBack ==
  module # "out" /\ ~overlapped /\ said # Unknown /\ (\A p \in Procs : pc[p] # "copy") => TextOf(Message) = said
=============================================================================
