# System_Programming_002: specifications, model checking and proofs

This directory specifies the programs of a system-programming course
repository in TLA+, checks them with TLC on small instances and proves the
most important results with TLAPS for every value of the constants. Every
definition is translated from the C code; `PROJECT.json` names the lines behind
each definition ("map"), the runs, one mutant per checked property, the
hazards of the code and the findings.

Run, in this directory: `tlc -config TshAll.cfg MCTsh` (one of the
configurations below), `tlapm TshProofs.tla` (one of the proof modules).

## 1. Inventory

The repository holds independent programs; they share no process and no file,
only `csapp.c`, the error-handling wrappers and robust I/O package.

| Component | State | Operations | What is hard about it | What makes it correct |
|---|---|---|---|---|
| **tsh, job control** (`Shell_Lab/shlab-handout/tsh.c`) | job table of 16 slots, next job id, signal mask, where main and each handler stand; the children | read/eval, fork + addjob, waitfg, do_bgfg, quit; SIGCHLD/SIGINT/SIGTSTP/SIGQUIT handlers; children exec, exit, stop, die | three handlers interrupt main and one another; signals do not queue; pids read and used later; slots cleared under a pointer | one foreground job, none at the prompt; every child reaped; no entry born dead; keys go to the foreground job only; the job-state table of lines 33-41 |
| **tsh, command line** (`parseline`) | a static buffer, argv | tokenise, quotes, `&` | quoting, argv of zero words | never reads past the line; argv[0] usable |
| **proxy** (`Proxy_Lab/proxylab/proxy.c`) | two mutexes, the log file, threads with a client and a server descriptor, strtok's hidden static pointer | accept, parse request, connect, relay, log, reply | one thread per client; strtok shared by threads; error wrappers that end the process; locks held over network calls and kept on early returns | a reply belongs to its request; log entries whole and in service order; every client answered or told why; nobody waits for ever |
| **robust I/O** (`csapp.c`, rio_*) | a descriptor's internal buffer | rio_readn, rio_writen, rio_readnb, rio_readlineb | short counts, EINTR, end of file inside a line, a full user buffer | bytes in order, none lost or duplicated; at most n bytes; line ends |
| **echo server/client** (`echo*.c` of the proxy lab, HW11) | `bytecnt`, one buffer per thread and client | accept, echo lines | one thread per client, descriptor passed by malloc'd pointer, a counter without a lock, wrappers that end the process | a client gets its own lines back, in order, and an answer to each |
| **host and port check** (`host_port_check.c`, the same functions in `proxy.c`) | none | host_checker, port_checker | characters counted from a line that has not been cut | what is relayed is what was asked for |
| **allocator, red-black tree** (`Memory_Lab/malloclab-handout/mm.c`) | heap words, tree of free blocks, allocation history | mm_init, mm_malloc, mm_free, insert, delete, heuristic_allocation | boundary tags reused as tree nodes, nine coalescing cases, splitting, prediction heuristic | blocks tile the heap; payloads disjoint; tree = free blocks; red-black rules |
| **allocator, explicit list** (`malloclab-handout_explicit/mm.c`) | heap words, doubly linked list of free blocks | mm_init, mm_malloc, mm_free | the same with a list | blocks tile the heap; list = free blocks; links agree |
| **memlib** (`memlib.c`) | break pointer | mem_sbrk, mem_heapsize | exhaustion | break stays in the heap; sbrk returns the old break |
| **mdriver** (`mdriver.c`) | list of payload ranges, trace, contents, statistics | add_range, remove_range, read_trace, eval_mm_valid, eval_mm_util, eval_mm_speed, main | overlap test at the boundaries, realloc onto the old place, three evaluations of one trace, errors counted | accepts exactly aligned, in-heap, disjoint payloads; judges right packages right |
| **timers** (`fsecs.c`, `fcyc.c`, `clock.c`, `ftimer.c`) | samples, the last reading of a clock | start, read, callibrate, K-best, fsecs | two words that wrap around; times corrected by interrupts | reports what was measured |
| **chardev** (`Kernel_Driver_Lab/chardev.c`, an earlier one in the practice) | open counter, one message buffer, one read pointer | device_open, read, write, ioctl, release, loading, unloading | several processes in the driver with no lock; the module may be unloaded | one opener at a time; a reader gets its own report; the module stays while it is used |
| **msrdrv, msrtest** (`Kernel_Driver_Lab`) | none (MSRs of the CPU); the vectors of msrtest | ioctl over a vector of operations | vector bound, stop marker, migration to another CPU | runs the operations up to the stop marker; counts what the computation costs |
| **procfs and hello modules** (`Kernel_Driver_Lab_Practice`) | none | print a line | - | not modelled |
| **test programs, homework, exams** (myspin, mysplit, mystop, myint; HW1 to HW12, Midterm, Final) | processes, descriptors, threads; arrays | fork, wait, kill, print, dup2; sums, products, strings | order of processes, buffered output, a failed fork; ends of buffers | print what they should in every order; compute what they should |
| **scripts, documents, copies, binaries** (sdriver.pl, backups, Buffer_Overflow_Lab) | - | - | - | not modelled |

How they interact: tsh, its handlers and its children interact through signals,
`waitpid` and the job table. The proxy's threads share two mutexes, the log and
strtok's static state and use robust I/O for every transfer; a failed wrapper
call anywhere ends all of them. The allocators get their heap from memlib and
are driven by mdriver, which keeps its own record of payloads and times them with
the timers. The drivers are called by any number of processes through the kernel;
msrtest and ioctl_test are such processes. The test programs of the shell lab are
what tsh runs.

Programs of one lab are instantiated together by one MC module, as `MCMemoryLab`,
`MCDrivers` and `MCPrograms` do: a behaviour is one of one of them, the others stay as they
began. A property of such a run is the conjunction of the parts that the modules state.
## 2. The shell: JobTable, Tsh, JobControl

**JobTable** holds the job list's helper routines as functions of a table
`t \in [Slots -> Job]`: `clearjob`, `initjobs`, `getjobpid`, `getjobjid`, `fgpid`,
`maxjid`, `addjob`, `deletejob`, `setstate`, and what `addjob` and `deletejob` do to
`nextjid`. Every search of the code walks the array upwards and stops at the
first match: `First`.

**Tsh** is the program. The shell is one thread: `running` says who holds it,
`"main"` or a handler, and `handler[s].under` whom the handler of `s` interrupted.
`Signal()` installs handlers with an empty mask, so a handler blocks only its own
signal and the others may nest in it; `Catch(s)` is possible whenever the signal
is pending, not blocked and its handler idle.

| Code | Tsh |
|---|---|
| main's loop, eval up to `fork` | `EvalRun`, `BlankLine`, `Quit` |
| fork, its failure | `Fork`, `ForkFails` |
| parent's addjob, unblocking, waitfg | `AddJob`, `Unblock`, `WaitfgReturns` |
| do_bgfg: lookup, kill(SIGCONT), `state =`, `waitfg(given_job->pid)` | `BgFgLookup`, `BgFgCont`, `BgFgSet`, `BgFgReread` |
| sigchld_handler: waitpid loop, deletejob | `ChldWait`, `ChldReturn`, `ChldDelete` |
| sigint_handler, sigtstp_handler, also when called with -2 and -20 | `FindFg`, `KillFg`, `MarkStopped`, `MarkKilled` |
| SIGQUIT | `Sigquit` |
| the kernel and the children (external) | `Signalled`, `Continue`, `Key`, `Exec`, `Exits`, `Dies`, `Stops` |

*Granularity.* Steps are as long as nothing that can interrupt them could tell.
A handler's update of the table is one step: what may nest in it, the two key
handlers, calls only `fgpid`. `addjob` is one step because SIGCHLD is blocked. In
do_bgfg every access to `given_job` is a step of its own because SIGCHLD is not
blocked there; the lookup with the read of its pid, and the test of the state with
`kill`, are merged, their outcomes being those of some order of the separate
steps. `Exec` stands for everything the child does between fork and the first
instruction of the program: setpgid, unblocking, execve. `Refuse` of JobControl
covers a full job list and a shell that quits between fork and addjob.

*Abstractions.* Command lines are members of `Commands` (their text is in CommandLine, section 7); output, the text of a
job and the built-in `jobs`, which only prints, are left out. Process ids are not
reused (a pid is a small number, given out in ascending order). Children keep the default
dispositions of SIGINT and SIGTSTP; SIGCONT is sent only by the shell. The
interleaving of buffered output of main and handlers is not modelled.

**JobControl** is the abstract specification: lines 33-41 of tsh.c, as a state
machine on `job[p]`. `Tsh!ImplementsJobControl` is the refinement, under `jobOf`,
which reads a job's state from its slot; a forked child is not a job until addjob.

### Runs

| Run | Instance | What it shows |
|---|---|---|
| `tsh_all` | 2 slots, 2 programs, all commands, both keys, all faults | the type invariant; `AtMostOneFG` (one foreground job, and none at the prompt); `NoLostSigchld` (a reportable child always has SIGCHLD pending or the handler in progress); `MarkFindsJob` (the pointer `sigtstp_handler(-20)` dereferences is not NULL); `SparesBackground`; `AddedAlive` |
| `tsh_jobs` | 3 slots, 3 programs, fg and bg jobs, keys, no other signals | `TableAgrees`: with no report outstanding the list tells the truth; `NextJidFresh`: an id may repeat only after one has reached MAXJOBS |
| `tsh_live` | 1 slot, 2 programs, no fg, no ctrl-z, no failing fork; children may stop and die | `FgReturns`, `ZombiesReaped` under fairness; `ImplementsJobControl`, with a list that two programs overfill |
| `tsh_fg_hangs` | with fg | violated: `FgReturns` |

*Bounds.* Two programs give every pairing of a foreground with a background job
and of main with nested handlers; with one slot they overfill the list. Two slots are
enough for the job ids to wrap. `TableAgrees` is checked where the code keeps
it: a child that stops or dies by itself is charged to the foreground job (see
below), so its run has only children that exit or are signalled by a key.

*Deadlock* is not checked: a shell whose user types nothing, whose child never
ends, or that has exited, stops rightly. That waitfg does end is `FgReturns`.

*Fairness.* `Fairness` assumes what the kernel gives a process that is not starved:
main, once it may run, runs (`SF` because a key may interrupt it any number of
times but not for ever at each instruction), the handlers' steps likewise, and a
SIGCHLD that stays deliverable is delivered. Nothing is assumed of the user, of
commands at the prompt or of the children: they need not end.

### Finding

*fg can hang* (`tsh_fg_hangs`, tsh.c:403). do_bgfg writes `given_job->state`
after the handler may have cleared the slot. The slot becomes pid 0 in state FG
and `waitfg(0)` compares 0 with `fgpid(jobs) = 0` for ever.

The model also has these behaviours of the code, which no run singles out: a failed
fork leaves SIGCHLD blocked, as the branch for `pid < 0` (tsh.c:261) is commented out, so
zombies stay until another program is started; a key that arrives between addjob (251)
and the child's setpgid and execve is lost; stops and deaths are charged to the
foreground job whatever child waitpid reported (562), so a background job that
dies takes the foreground job with it; a line of blanks leaves argv[0] NULL and
crashes the shell (201).

### Proofs

All for any number of slots, any set of pids, commands, keys and faults, with the
assumptions of JobTable and Tsh only (`MaxJobsAssumption`, `PidsAssumption`,
`CommandsAssumption`, `KeysAssumption`, `FaultsAssumption`).

- **TshProofs**, first part: what the list routines return. `First` is a minimum, whose
  existence rests on `LeastElement` (every non-empty set of naturals has one, from
  well-foundedness of `<`). `FgpidFindsFg`, `GetjobpidFinds`, `AddjobEffect`,
  `DeletejobEffect`, `SetstateEffect` are the facts every later proof uses.
- **TshProofs**, second part: `TypeCorrect` (`TypeInv` = `TypeOK` and `Locals`, what main's
  variables hold at each label); `OneForegroundJob` by `FgInv`. Neither conjunct of
  the property is inductive: `FgInv` adds that between addjob and the end of waitfg
  the only foreground job is `cur`, and at "reread" the only foreground slot is
  `slot`. `FgOnlyShrinks`: outside main a job only leaves the foreground. `ReapsAll`:
  `NoLostSigchld` is inductive.
- **TshProofs**, third part: `MarkSafe`, `AddedBeforeReaped`, `ForwardingSparesBackground` and
  `Implementation` (Tsh implements JobControl). The invariant is `Inv`: `TypeInv`,
  `FgInv`, and
  - `Chain`: the active handlers form a chain from `running` down to main, so a step
    of the SIGCHLD handler has nothing above it and only key handlers below or
    above it in the chain;
  - `JobsInv`: listed pids are distinct, belong to processes that exist, and from
    fork to addjob SIGCHLD is blocked and the child unreaped;
  - `HandlerInv`: at "kill" and "mark" of the SIGCHLD handler the job found by fgpid
    is still in the foreground; at "kill" of a key handler it is not in the background.

- **TshProofs**, last part: `FreshJobIds` and `ListAgrees`. `NextJidFresh` becomes inductive with
  `FreeSlotsClear`: a free slot has job id 0, so addjob, which overwrites one, never takes away the
  largest id. `ListAgrees` has the hypothesis `Gentle`, the setting of run tsh_jobs: no child dies or
  stops on its own, and no bg or fg; without it the code does not keep `TableAgrees`, because
  sigchld_handler changes the foreground job whatever child it reports. Under `Gentle` the invariant
  `AgreeInv` shows that the two are the same: a signal pending at a running child means that its job is
  in the foreground (`SigAgrees`), so a child that is killed or stops is the foreground job's, and stays
  so until it is marked (`ProcAgrees`, `ReportAgrees`); what a key handler is about to signal is in the
  foreground or runs no more (`KeyAgrees`). TLC checked `AgreeInv` on tsh_jobs first.

Model-checked only: the liveness properties.
## 3. The proxy: Proxy, RelayLog

**Proxy** models `main` and `thread` of proxy.c. A client connection is a member of
`Clients`, a thread a member of `Threads`; the heap records that pass a connection
from main to its thread have addresses of their own. A request line is its number
of words; a text is the piece of a line that was sent to a server.

| Code | Proxy |
|---|---|
| main: accept, malloc the record, pthread_create | `Accept`, `Address` |
| thread: copy and free the record, read lines, close | `Start`, `ReadLine`, `ReadEof`, `ReadError`, `CloseClient` |
| host_checker, usage text | `SendUsage` |
| get_host, get_port, get_message, strtok | `GetHost`, `GetPort`, `GetMessage` from `First`, `Load`, `Piece`, `Behind` |
| P(&mutex_log), open_clientfd_ts | `LockLog`, `LockOc`, `Open` |
| send, receive, Close | `Send`, `Answered`, `NotAnswered`, `CloseServer` |
| log, reply, V(&mutex_log) | `AppendLog`, `Reply`, `UnlockLog` |

strtok(NULL, ..) reads its static pointer at its start and writes it at its end, so
these are two steps. If a thread follows the pointer into another thread's line it
finds what is left of that line. The word cutters work on three copies of a line
with the same words; their '\0's only end words already cut. An uninitialised or
stale `msg_received` is its former value or garbage, as the compiler reuses its stack space or
not. A write to a client that has gone fails; whether with EPIPE is open.

**RelayLog** is the promise: entries are recorded one at a time, and the answer of
an entry is delivered (or dropped) before the next entry. The answer due is that of
the thread at "reply".

| Run | Instance | What it shows |
|---|---|---|
| `proxy_all` | 2 clients, 1 line each of 0, 2 or 3 words, all faults | `TypeOK`, `OwnConnection`, `OcNeverWaits`, `ImplementsRelayLog` |
| `proxy_live` | 2 clients that may leave | `Served` |
| `proxy_strtok` | 2 clients, 1 line of 3 words | violated: `OwnWords` |

*Bounds.* Two threads suffice for every pair of positions in the code; strtok and the
mutexes relate threads in pairs. The safety runs use symmetry of clients and
threads. Deadlock is not checked as all clients may be gone; `Served` says that no
waiting thread is left behind.

*Fairness.* Threads that can run do; a free mutex is not given past the same waiter for ever
(`SF` of `LockLog`); servers answer or close. Clients need not send or leave.

### Finding

*Threads mix up words* (`proxy_strtok`, proxy.c:345): strtok's position is one static
variable, so a thread can go on in the line of another.

The model also has these behaviours, which no run singles out: port_checker (188)
accepts every line, so a line without port or message crashes the proxy in atoi or
strlen; a server that closes without answering leaves the previous answer, or
garbage, to be logged and sent (364).

### Proofs

From `MaxLinesAssumption`, `LengthsAssumption`, `FaultsAssumption` and
`ClientsAssumption` (client names differ from the two markers).

- **IoProofs**, first part: `TypeCorrect`, `ConnectionsOwned`. The invariant is `TypeOK` with
  `ConnInv`: a starting thread's record holds a client, records of two starting
  threads differ, a busy thread has a descriptor, a client not yet accepted has no thread. Each
  step is classified by `NextCases` as main's, a client's, a thread's first or last,
  or `Middle`, which by `MiddleMoves` touches no other thread and keeps the descriptor.
- the same, second part: `RelaysAlone`, `ConnectsAtOnce`, `LogImplemented`. `RelayInv` adds to
  mutual exclusion that a free `mutex_log` means nobody is inside, and that while the
  process is up a taken `mutex_oc` belongs to a thread that is connecting or has failed to and
  is on its way to `exit(0)`. Since that thread is inside the relay, it is the only
  one that could wait for `mutex_oc`, and it does not.

Model-checked only: `Served`.
## 4. The memory lab: Allocator, Heap, FreeTree, FreeBlocks, Mm, MmList, Mdriver, Clock, Fsecs, MemoryLab

**Allocator** is what `mdriver.c` demands (add_range, eval_mm_valid): every payload lies
in the heap, is aligned and overlaps no payload in use; a payload is given back once;
when mm_exit returns, none is in use. Its overlap test is the full one: the test of
mdriver.c:410 misses a new payload that contains an old one.

**Heap** holds what both allocators do with memory. Addresses count units of 8
bytes, the alignment; a heap is a function from units to boundary tags (size and two bits,
allocated and next allocated) with the break of memlib and `lst_start`, `lst_end`.
Tags stay in memory when blocks are joined, as they do in the code, until the
payload or a tree or list pointer overwrites the word. The nine cases of mm_free
are three choices (`Around`, `Joined`): is the block before joined, is the one behind, is
there one behind at all.

**FreeTree** is the red-black tree as functions on trees: `InsertBst`, `InsertCase1` to
`InsertCase5`, `Rotate`, `Delete`, `CopyNode`, `DeleteOneChild`, `DeleteCase1` to
`DeleteCase6`, `FindBlock`. Each pair of mirrored branches of the C code is one,
with a side. **FreeBlocks** is a state machine around the tree alone, with blocks of fixed
sizes: larger trees than a small heap can hold.

**Mm** is `malloclab-handout/mm.c`: heap and tree, driven by a trace of mdriver.

| Code | Mm |
|---|---|
| mm_malloc, cases 2-1-1 and 2-1-2 | `MallocWhole`, `MallocSplit` |
| mm_malloc, cases 1 and 2-2 | `MallocGrow`; with calculate_heuristic and heuristic_allocation: `MallocPredict` |
| mm_free, remove_range | `Free`; `FreeAgain` (in `SpecTwice` only) |
| mm_exit, one turn of its loop at a time | `Exit`, `ExitStep`, `ExitReturns` |
| mem_reset_brk, clear_ranges, mm_init | `Begin` |

**MmList** is `malloclab-handout_explicit/mm.c`, with `MallocFront`, `MallocGrow`, `FreeList`
(the pointer work of the nine cases of mm_free) and the same driver.

*Abstractions.* Bytes of a payload are not kept, so pointers and tags below it are
erased when it is used. A block's colour is kept with the tree. The predictor
compares floating-point averages of sizes with 1; whether it finds them steady is
open, so the model predicts whenever enough blocks were taken (`MayPredict`) or not.
A request that memlib cannot serve returns NULL and changes nothing: no step. A
prediction that memlib cannot serve crashes (`pc = "crashed"`), as
heuristic_allocation (1548) does not test the result. Requests are of at least one
byte, which mdriver asserts (389). mm_exit's resets of `lst_start` and `lst_end` are left to
`Begin`, as nothing reads them in between.

**FreeBlocks** also has `tree_checker`, "verify given RB tree" (1409). It counts black blocks
on the way to blocks without children, and so is blind to a path that ends at a block with one
child; a wrong colour on such a path alone goes unnoticed. Of an empty tree it complains, "ROOT IS NOT
BLACK": `get_color(NULL)` is -1 (365), which is not the 0 that 1412 asks for. `CheckerSees` says exactly when it
complains; `Checked` says that of the trees that insertions and deletions leave this is only the empty one, and
compares the two for every tree with one colour changed.

**Mdriver** is `mdriver.c`: the options, the check of the team, the trace files, and
for each file the three evaluations.

| Code | Mdriver |
|---|---|
| getopt loop, team structure | `Option`, `CheckTeam` |
| read_trace | `ReadTrace`, with `WellFormed` for its assertions |
| eval_mm_valid, one request at a time | `MmInit`, `ValidAlloc`, `ValidRealloc`, `ValidFree`, `ValidEnd` on `AddRange`, `RemoveRange` |
| eval_mm_util | `UtilInit`, `UtilAlloc`, `UtilRealloc`, `UtilFree`, `UtilEnd` |
| fsecs(eval_mm_speed, ..) | `Speed` |
| eval_libc_valid, eval_libc_speed | `LibcValid`, `LibcSpeed` |
| printresults, performance index, autograder output | `Table`, `Graded`, `NumCorrect` |

The malloc package is outside (`Answers`, `Grows`, `Fill`, `Holds`): with `allocator = "right"`
it answers as Allocator allows, with `"any"` it answers anything. A byte of the heap is the low byte of the id whose
payload it was filled for (`LowByte`); bytes go up to `UCHAR_MAX`. Line 666 reads it as a `char` (`Char`), which
is signed with the compilers for x86 that the Makefile's -m32 is for.

**Fsecs** is what `fsecs` calls for each timer of config.h: `fcyc` with the K-best scheme
(`AddSample`, `HasConverged`) on the cycle counter of clock.c, `ftimer_itimer` and
`ftimer_gettod`. **Clock** is the arithmetic of two-part readings. The cache flushing of
fcyc.c and the measurement of the clock rate (mhz) are left out: neither changes which
result is returned.

**MemoryLab** puts the programs of the lab side by side, with the sizes of all heaps and requests,
the predictor's limits, the tree's blocks and the constants of config.h as CONSTANTS; **MCMemoryLab** gives them values.
It instantiates MmProofs, MmListProofs and FreeBlocksProofs, which extend Mm, MmList and FreeBlocks, so that a
theorem of theirs is about the same operators as the properties of `memory_lab`.

### Runs

| Run | Instance | What it shows |
|---|---|---|
| `memory_lab` | mm in 15 units, requests for blocks of 3 and 8; the list in 17 units, blocks of 3 and 4; the tree with 9 blocks of 7 sizes; the driver with two of five traces, a heap of 6 bytes, bytes of 2 bits; the timers with words of 4 values, K = 2, at most 4 samples | `LabTypeOK`; `HeapTiled` (with no two free neighbours in the list's heap); `HoldsFree` (tree in the heap, tree alone, list); `RedBlack` (ordered, balanced, and `tree_checker` says so of all but the empty tree); `BestFit`; `AcceptedApart`; `JudgedRightly`; `UtilAtMostOne`; `Measures`; `ReusesFirst`; `ImplementsAllocator` (both) |
| `mm_double_free` | mm, blocks may be freed again | violated: `DoubleFreePrevented` |

*Bounds.* Nine nodes make trees of height four, in which deletion climbs more than one level
and the predecessor of a node may be its child or not; sizes are equal, within the slack of
24 bytes, and beyond. In mm's heap, 15 units hold a block and a burst of four predicted ones, so that
free blocks lie side by side, and requests of 3 and 8 are found split off, whole with slack, or
not at all. `AllocNumMin` and `AllocNumMinInit` are 1, so a prediction may follow every
growth. The burst of eight needs 27 units and is not reached; it runs the same loop. In
the list's heap, 15 units behind the 16 bytes of mm_init hold three free blocks apart, so that
both joined neighbours of a block may be in the list beside the head, next to one another or
apart. The traces of the driver have a request that moves (also onto its old place), an id freed twice, a
file with more requests than announced, ids that are never freed, and an id that grows and whose byte, of two bits, is
negative as a char; six bytes make requests
fail. Both words of the counter wrap around in the timers' runs. Deadlock is not
checked: the driver and a measurement end, and mm's program may crash.

What the driver's model makes visible: a file that is not valid counts as one error however many
messages it causes; when libc's malloc is run (-l), its failure ends the driver; the test of
add_range (410) misses a new payload that contains an old one, so two payloads that share memory
can both be accepted (`AcceptedApart` says that nothing else can). The test of realloc's contents (666) compares a
signed char with `index & 0xFF`: an id whose low byte is 128 or more is reported to have lost its data whenever it
grows, whatever the package does. `NoFalseAlarm` names this exception, and says that a trace with such a request never
passes; the traces that come with the lab have none. tree_checker (1412) finds fault with an empty tree, and with no
other that is right.

### Finding

*A double free corrupts the heap* (`mm_double_free`, mm.c:1776). "If ptr is not allocated,
do nothing to prevent double free" (1775) looks at the header of the block; when a
block is joined to the free one before it (cases 2, 4 and 6), its old header
remains and says allocated. Freed again, it is joined with its neighbours once
more, and a block in the tree contains others. The trace `double-free.rep` frees a
block twice in a row whose header was rewritten.

### Proofs

**MemoryLabProofs**: the first part is about the driver, from the assumptions of Mdriver (any traces with positive sizes, any heap, any
alignment): `Accepted`, the driver's own record of payloads is aligned, in the heap, and apart
but for payloads that contain others, whatever the package answers. `EndsOutside` is the
arithmetic of the test, `AddRangeKeeps` its consequence for the record, `TraceInv` that requests come
from a file that read_trace let pass. `ErrorsCounted`, also for every package: `ErrorInv` says at each place of
main how many of the files up to this one failed (`ErrorsOf`), so that total, table and index agree.

For a package that keeps the rules, `JudgesRightly` (the driver finds no fault with it but in ids whose byte is negative as a char, and these it never
lets grow: `CharReads`, `GrowInv`) and `UtilIsAShare` (it
never scores more than the whole heap) assume that the files are `Disciplined`: they free and let grow
only what they asked for, and nothing of what was handed out since. The driver takes other files too, and then a false
alarm is its reader's fault. TLC evaluates that the files of `memory_lab` are disciplined. The invariant `RightInv` follows what a
file *names*: an id is `Held` if it was asked for and not freed since, `Named` if it may be freed
or grow. A named id has its payload to itself (`Own`): if held, the package knows that very payload; if freed, nothing was put
there. From that, in eval_mm_valid the driver's list is what the package has handed out and the payload of a
named id is full of its byte (`DataInv`, which realloc's comparison needs); in eval_mm_util the total
never exceeds the bytes that payloads cover (`UsedInv`, `BytesPlaced`, `BytesGone`), and these lie below the
break. The steps are `PlaceStep` and `FreeStep`, about ids and payloads, and `DataPlaced`, `UsedPlaced`,
`UsedFreed` on top; what a request does to names is `AskNames` and `FreeNames`.

`DriverTypes`, again for every package: besides `Inv` and `ErrorInv`, the invariant `DriverInv` says that only files that are
valid are measured (`FlagsInv`), which request is next (`OpInv`), and that the stores fit the trace (`StoresInv`).

The second part is about the timers. `CounterWraps` and `CounterExact`: get_counter's subtraction with a
borrow is exact modulo what the counter can count, for words of any size. The invariant `TimersInv` says of fcyc that the
values kept are the `Best`: the i-th is a value of which fewer than i runs are below it and at least i are up to it, so that
equal runs count as often as they occur. `SiftPlaces` is the insertion sort, `SampleInserted` and `SampleDropped` are the two
cases of add_sample. Of the other timers it says that the reading at the start is as far from now as the runs took
together (`CounterTells` is the pair of seconds and microseconds that init_etime keeps, `SumsExist` and `SumsGrow` the recursive total). `LabMeasures`
follows; it needs the assumption `TimersAssumption` that a run is shorter than the counter counts and all runs are shorter than the interval
timer (MAX_ETIME is a day).

The third part is about the programs together, for heaps, requests and trees of any size (the ASSUMEs of MemoryLab say
that the numbers are numbers, requests are of at least one byte and the list's heap has room for mm_init). `MmRuns`,
`ListRuns` and `TreeRuns`: what LabSpec does to the variables of a program is a behaviour of its module. With these theorems, and those of
MmProofs, MmListProofs and FreeBlocksProofs below, cited through the instances, follow `LabTypes`, `LabHeapsTiled`, `LabHoldsFree`, `LabRedBlack`,
`LabBestFit`, `LabReusesFirst` and `LabImplementsAllocator`: the properties that the run checks, as they stand there.

**HeapProofs** is about Heap, for heaps of any size. `Fits(tag, start, end, B, A, T)` says
without recursion that blocks at the addresses B tile the heap, A are allocated, T are those that
the block in front is told to be, and both tags of a block agree. `BlocksAreB`: what the recursive
`Blocks` finds is then B (by the least address at which a chain of tags would go wrong), so
`FitsTiled` gives `Tiled`. One lemma for each thing that the code does to tags: `SplitFits`,
`AppendFits`, `TellFits`, `UseFits`, and `FreeFits` for the nine cases of mm_free, on top of
`FreeCases`, which shows that the bits that mm_free reads select the case that the blocks call for; `SplitBackFits`
is mm.c's split, which returns the end of a block. On these rest what both allocators' invariants are made of:

- `Stands(h, B, Al)`: the tags of heap h fit blocks B, of which those in Al are allocated;
- `Carried(h, Al, ranges)`: the driver's ranges are the blocks in Al, one for each, with room for what was asked for;
- `Tracked(h, B, Al, k)`: mm_exit is at a block before which all are free, or at the header, still in memory, of a
  block that its last call joined to the one before.

**MmListProofs** proves for the list allocator, in any heap with room for mm_init's 16 bytes and for
all requests of at least one byte (`HasRoom`): `ListTypes`, `ListHeapTiled`, `ListCarriesRanges`,
`ListCoalesces`, `ListIsWhole` and the refinement `ListImplementsAllocator`. The inductive invariant
`IInv` says that there are sets B of blocks and Al of allocated blocks for which `Sound` holds:

- `Holds`: the tags fit B and Al, no two free blocks are neighbours (mm_free needs this: it joins only one
  block on each side), and the footer of mm_init's own block, which TellPrev writes, has kept its size;
- `Linked(list, B \ Al, rank)`: pointers of free blocks lead to free blocks, next and prev are
  inverse, only the head has no prev, and rank grows along next, so that there is no cycle. This is local; that
  the walk from the head meets every free block follows (`NthHolds`: it cannot go on for longer than there are
  blocks, and the set of blocks that it meets is closed under next and prev);
- `Carried`, and `Tracked` in mm_exit.

`FreeListLinked` is the heart: in every case of mm_free, also where the head is found by the ranges of addresses of
lines 379 and 721, the list leads through what is then free. It rests on `DropLinked` (Bypass takes a block
out), `PushLinked` and `SucceedLinked`. `FirstFitFinds`: the search ends and finds a free block that is large enough.

`ListPayloadsDisjoint` draws the conclusion for the code: whatever is allocated and freed, no two payloads that the
list allocator has handed out share a unit of the heap. It follows from the refinement and from the lemma `PayloadsDisjoint`
about Allocator, where the test of each new range against the others suffices because overlap is symmetric.

**FreeBlocksProofs** proves for the tree, with any number of blocks of any sizes put in and taken out in any order:
`BlocksTypes`, `BlocksKept` (the tree holds exactly the free blocks), `BlocksOrdered`, `BlocksBalanced` and
`BlocksBestFit`. The hypothesis `Sized` says that no block is Null and sizes are numbers. DeleteCase6 rotates around a
sibling and writes to its child without a test, and find_block's descent ends only if the tree has no cycle; both need
the tree to be whole. The model's functions on trees recurse (`InsertBst`, `InsertCase1`, `DeleteCase1`,
`MaximumNode`, `FindBlock`, `Below`, `BlackDepths`), and induction over a tree is not at hand, so the invariant is local.
`TreeHolds(t, F, key)` says that tree t holds the blocks F by their sizes `key`: there is a position `pos` for every block and a
bound `hi` with `Balanced` and `Sorted`. `Balanced` is that there are bounds `bd` and black heights `bh` with

- `Framed`: links lead to blocks of F, parent and child agree on which side the child is, only the root has no parent, and a
  block outside F has no links. The subtree of a block lies between its left and its right bound; a child has one of
  them from its parent, and the other is its parent's position. So bounds narrow on the way down: `Depth` (how
  narrow) grows downwards, going up ends; `Extent` (how wide) falls, going down ends;
- `Even`: the black height `bh` of a block counts the black blocks on every path down from it, the same through
  both children;
- `Colors`: the root is black and no red block has a red parent.

`Sorted`: sizes grow with the position, which is that of the in-order walk.

Recursion is met where it is: `ClimbExists` and `ClimbEnds` say that a function that goes from block to block
along a rank has a value and ends at a block where it stops, `FoldExists` that one that goes to both children has one.
`InsertHolds` follows the insertion: `InsertBst` finds the place that keeps the order, `InsertCase1` climbs with one red block below a
red one at most, until `InsertCase5Balances` or `InsertCase4Balances` rotates it away. `DeleteHolds`: `SwappedFramed`,
`SwappedEven` and `SwappedSorted` are the exchange with the predecessor, which may be the block's own child
(`PredIsBeside`); `KidTakesOver` is DeleteOneChild; then one path is short of a black block, DeleteCase1 climbs with it
(`Case3Rises`), turns it into a path below a red parent (`Case2Sinks`), or settles it (`Case4Settles`,
`Case6Settles`). `FindBlockFits` follows find_block to the least block that is large enough. At the end
`BelowIsBelow` and `DepthsAreHeights` lead from the local facts to the recursive `Below` and `BlackDepths` that TLC evaluates.
`CheckerComplains` says of any framed tree, rightly coloured or not, that tree_checker complains exactly if
`CheckerSees`, `ColorsMean` and `LeavesAreEven` that a tree which insertions and deletions made gives it no cause
unless it is empty (`DownFromRoot`: a tree without a root holds no block).

**MmProofs** brings heap and tree together, for a heap of any size and any predictor limits (`HasRoom`; the blocks of the tree
are the units of the heap). The inductive invariant `IInv` says that there are blocks B and allocated blocks Al for which `Sound` holds: the
heap stands on B and Al and begins at unit 1, `TreeHolds(tree, B \ Al, SizeIn(heap))` with the sizes read from the
headers, the ranges are carried, and mm_exit is where `Tracked` says. Where mm.c reads a size from a header, as `find_block` and
`insert` do, it is the size of a block of B; joined blocks' stale headers are outside B. Each way to serve a
request has a lemma (`Serves`, `ServesSound`): a block as it is, the end of a block whose rest goes back to the tree, new
memory, and new memory with a burst of predicted blocks; `PredictsSettles` is one turn of heuristic_allocation's loop and
`MallocPredicts` up to eight of them. `FreeBlockSound` takes up to two neighbours out of the tree and puts the joined block in, in
all nine cases; `NothingLeft` says that mm_exit, when its loop ends, has freed everything. The theorems are `MmTypes`,
`MmHeapTiled`, `MmTreeHoldsFree`, `MmCarriesRanges`, the action property `MmReusesFirst` (`FoundMeans`: find_block's NULL
means that every free block is too small) and the refinement `MmImplementsAllocator` (a payload returned lies in the heap, off
all others; a step of mm_exit gives one payload back or none).

## 5. Robust input: Rio, ByteStream

**Rio** models `rio_read`, `rio_readlineb` and `rio_readnb` of csapp.c on one descriptor,
with any sequence of calls of both kinds. The peer sends `stream` and closes.

| Code | Rio |
|---|---|
| rio_readinitb | `RioInit` |
| entry of rio_readlineb, rio_readnb | `Call` |
| rio_read: read() gives 1 to RIO_BUFSIZE bytes, EINTR, an error, end of file | `ReadSome`, `ReadInterrupted`, `ReadFails`, `ReadAtEof` |
| rio_read: min(n, rio_cnt) bytes to the caller | `Take` |
| rio_readlineb: one byte at a time up to the newline or maxlen - 1 | `CopyChar` |
| rio_readnb: until n bytes | `CopyBytes` |

`rio_bufptr` counts from 1. `given` is history: what was stored in buffers of
callers. Bytes are a small set with the newline among them. Sizes are at least 2: with
maxlen 1 rio_readlineb reads nothing and returns 1. A failing read() returns -1 for
any reason but EINTR; the call then fails, and what it had stored is lost to its caller,
as later calls go on behind it. (The test for EINTR in rio_readnb, 638, is never true:
rio_read retries by itself.)

**ByteStream** is the promise: a call takes a piece of the stream at once. A
line ends with its newline, with the room for it, or with the stream. The refinement
maps `at`, the place in the stream, to what had been given before the call in progress.

Run `programs`, the part of Rio (`which = "rio"`): buffer of 2 bytes, streams of up to 4 over three bytes, calls of size 2 and
4. `RioTypeOK`; `NothingLost` (given, then unread, is the beginning of the stream);
`ImplementsByteStream`; `Returns` (each call ends).

*Bounds.* Lines of 1 and 3 bytes and calls for 2 and 4 are below, at and above the buffer's size, with streams twice as long: a call is served
from what another left, from several fills, and cut by the end of the stream; a newline
occurs at every place. *Fairness.* The peer sends or closes, so read() answers, and a signal
interrupts it only now and then; copying goes on. Nothing is assumed of callers: they may
stop calling. rio_writen, with its short counts, and the wrappers that end the process are in Echo (section 7);
rio_readn is called by no program of the labs.

What `Returned` makes visible: rio_readlineb counts from 1 and returns one more than it
stored when the line is cut off by the end of the stream (669) or by the buffer (660). proxy.c
compares the result with 0 only. echo.c:26 sends as many bytes as it returned, so the
zero behind a cut line goes to the peer, too, and the count printed at echo.c:24 is one
too many.

*Proofs* (**IoProofs**, from `RioAssumption`: any buffer of at least one byte, any
sizes from 2, any stream). `NothingLost` needs `RioTypeOK` and is inductive with it; the refinement needs
`Underway`: a call in progress has stored less than it has room for, and a line in
progress holds no newline. `TakeKeeps` is the step common to both readers. `RioTypeCorrect`,
`RioNothingLost`, `RioImplementsByteStream`. `Returns` is model-checked only.


## 6. The drivers: OpenOnce, CharDev, HelloDev, MsrDrv

Driver functions run in the processes that call them, on several CPUs and without a lock, so
every access to a static variable that another process may use is a step.

**OpenOnce** is what both character devices share: the test and the increment of
`Device_Open`, its decrement, `try_module_get` and `module_put`, and the loading and unloading of the
module. The file operations have no owner, so the kernel does not hold the module for
them: the module does it itself, from within, and nobody looks at the result of try_module_get. A
process that is inside when a module that it could not hold is unloaded oopses.

| Code | OpenOnce |
|---|---|
| device_open: test, `Device_Open++`, `try_module_get` | `OpenTest`, `Load`, `OpenStore`, `OpenGet` |
| device_release: `Device_Open--`, `module_put` | `Close`, `Load`, `CloseStore`, `ClosePut` |
| init_module; rmmod (external); cleanup_module | `Insmod`; `Rmmod`; `Cleanup` |

**CharDev** is `Kernel_Driver_Lab/chardev.c` and the program that tries it, `ioctl_test.c`. A read
builds a report of the caller and its ancestors (`Report`) in memory of its own, makes it current
(`Tree`) and copies it through the static `call_tree_Ptr` (`Test`, `Take`, `StorePtr`). What was written
(`Write`, `Copy`, `Written`, with `SetMsg` for IOCTL_SET_MSG) only decides whether there is
anything to read. A line of a report is one element; tasks do not change while they are
walked, and memory for a report is there. IOCTL_GET_NTH_BYTE (317-321) is not modelled: it returns
`Message[ioctl_param]`, an index that it does not test, and changes nothing. **HelloDev** is the earlier device of the practice (Prac4), which
counts its openings. The devices of Prac7 are copies in which only texts differ.

**MsrDrv** is the loop of msrdrv_ioctl over a vector of operations (`Turn`), the test program msrtest.c
with its vectors and steps (`Main`), the CPUs with their registers (`Event`, external) and the
scheduler (`Migrate`, external). The vectors of msrtest lie behind one another on its stack
in an order that the compiler chooses (`Layouts`).

### Runs

| Run | Instance | What it shows |
|---|---|---|
| `drivers` | two processes at each character device, messages of 2, a caller with 3 ancestors; two msrtests on two CPUs, three layouts | `DriversTypeOK`; `OneProcess`: outside the window between the test and the increment one process is in, and Device_Open counts it; `ModuleStays`: a process that could hold its module never finds it gone; `ReadsItsOwn`: a report is the reader's own, complete, with a line for the caller and each ancestor under the right names, and prints as a staircase; a text that was set reads back; `CountsTheWork`: what msrtest prints is what happened on its CPU, unless it was moved or another set the counters |
| `chardev_open` | the same | violated: `NeverTwo` |

*Bounds.* Two processes suffice for the window, since a third meets the same values of
Device_Open; one has more ancestors than a report may have, the other is a helper of a kernel thread; a report is cut at `MaxTree` and two tasks have no memory. One counted event and one counter
of each kind: the operations of the vectors on the other counters are the same. Once two
processes are in a device, what they read is no longer followed. Symmetry of CPUs and of the
processes of msrtest. No liveness: nothing in a driver waits.

### Finding

*Two processes open the device* (`chardev_open`, chardev.c:51). "We don't want to talk to two
processes at the same time" (49): two that test `Device_Open` before either has counted itself
both enter; a lost update may then leave the device free while it is open, or busy for good.

The models also have these behaviours: int_to_str writes numbers backwards, and so do reports their
pids; a task without memory of its own (a kernel thread) is printed under the path of the task before
it; setting an empty text changes nothing (294). The vectors of msrtest with one entry have no
MSR_STOP, so the driver runs on through what lies behind them, in the layout at hand through msr_stop
up to its STOP, which spoils nothing (`CountsTheWork`). The performance counters belong to a CPU: a process
that is moved, or a second msrtest on the same CPU, falsifies the counts.

### Proofs

**DriversProofs** proves `OneInside` (`DriversSpec => []OneProcess`) and `HolderFindsModule`
(`DriversSpec => []ModuleStays`) for any finite number of processes (`UsersAssumption`), any `BUF_LEN` and
`MaxTree`. Both devices are mapped to a record of the seven parts they share (`CharOpen`, `HelloOpen`),
every step of theirs to a step on such a record (`OpenStep`), and the invariants are proved once, of the record
(`OpenInv`):

- `Shape`: where a process may be, and that nobody is inside a module that is out;
- `Alone`, which `OneProcess` needs: as long as no two processes have tested the device together, any two
  that are inside are the same, `Device_Open` is 1 from the increment to the decrement, and what was loaded is still there
  where it is stored;
- `Kept`, which `ModuleStays` needs: the reference count is the number of those who hold the module.

Cardinalities are only compared at the steps that add or remove one process.

`ReadersServed` (`DriversSpec => []ReadsItsOwn`) is for any finite number of processes, any `BUF_LEN` and
`MaxTree`, and the six tasks of MCDrivers. Its invariant, `DriversTyped`, adds to `OpenInv`:

- `OwnPieces` and `OwnLines`: what a process has read is a prefix of its own text or report; while it
  copies, the static pointer is at the end of that prefix, and what it points into is that report.
  No other process can disturb this, because outside the window `OneInside` says there is no other (`OnlyReader`,
  `OnlyInside`);
- `CharTyped` and `Copied`: a text being written has its zero at the end or not at all, and what is copied so far
  is in `Message`; so once the zero is there, `TextKept`: Message tells the text, whatever lies behind the zero (`TextWritten`);
- `CharFresh`: what a module finds when it is loaded again.

What a report says is the same in every state, and `ReportTells` proves it for each of the callers and every `MaxTree`. The walk has
a solution (`WalkFrom`), because it ends with task 0 three generations up at most or with the `MaxTree`-th line; then
`ReportHas` and `LinesSay` give the lines that it makes, `ToldHas` those that it should make, one for each ancestor
(`AncestorsAre`) up to task 0 or the cut (`HeightIs`) under the name of the nearest descendant with memory
(`NearestIs`). `Staircase` is the formatter of ioctl_test, for any text of up to four lines.

`CountsRight` (`DriversSpec => []CountsTheWork`) is for any number of processes, CPUs and events, any order of the three
vectors in memory (`LayoutsAssumption`) and any limit of the loop that a whole vector is within
(`LimitAssumption`; the limit is 32). `PlacesRight` computes the memory of each of the six orders. The invariant then follows
main: before msr_start, time has passed for every event that is counted (`BeforeStart`); within it, the registers are
reset and enabled one after the other (`Starts`); up to msr_stop they count what `since` counts, and within it
they are frozen and read (`Stops`); and in the second read_tsc, which has no MSR_STOP, the loop may run through
msr_start or msr_stop, but not over the counters that were read, except to read them again while they are frozen
(`AfterStop`). `Steady` says where the loop can be for each call: behind read_tsc lies at most one whole vector before a STOP.

`DriversTypes` (`DriversSpec => []DriversTypeOK`) collects the types of the three. That reports are right for every tree of tasks, and not only for the six here,
would be an induction over the tree.

## 7. Small programs: CStrings, CommandLine, RequestLine, Echo, EchoStrings, Processes, Exercises

**CStrings** has strings with their zeros (`StrChr`, `CString`, `From`) and the length of a line that
fgets or rio_readlineb takes (`LineLength`).

**CommandLine** is the read/eval loop of tsh.c and `parseline`, character by character: `SplitLine` is its
loop with `WordAt` for a word or a quoted text, `EvalEmpty`, `EvalNoWord` and `EvalCommand` are the ways
through eval. `typed` is what the user means. **RequestLine** is a line of a client of the
proxy: `host_checker`, `port_checker` (the same in `host_port_check.c`), and `get_host`, `get_port`,
`get_message`, which cut it with strtok in one thread; Proxy (section 3) has the threads.

**Echo** is the server with a thread per connection (`echoservert.c`, `echo.c`) and its clients
(`echoclient.c`), on the wrappers of csapp.c, each of which ends the process when its call fails.

| Code | Echo |
|---|---|
| Open_listenfd | `OpenListen`, `ListenFails` |
| Malloc, Accept, Gethostbyaddr, Pthread_create | `Allocate`, `Accept`, `LookUp`, `StartThread` and a failure of each |
| echo: Rio_readlineb, bytecnt, upper_case, Rio_writen | `ThreadReads`, `LoadCount`, `StoreCount`, `ThreadWrites`; `ReadFails`, `WriteFails` |
| client: Open_clientfd, Fgets, Rio_writen, Rio_readlineb, Fputs | `Connect`, `Type`, `Send`, `PrintEcho`, `ClientDies` |

A line is read in one step, as ByteStream allows (section 5). **EchoStrings** is the pair of the
eleventh homework, which exchanges strings with their zeros, one read and one write each.

**Processes** is the small programs about processes: myspin, mysplit, mystop and myint, which the
traces of the shell lab run; fork10 and exhand of the midterm; hw.c and zombie.c (HW3), Q1.c (HW5), question2
and redirector (HW9), Q2.c (HW12), dup2_2 of the final. Each is a sequence of instructions, run by
as many processes as it forks; output goes through the buffers of stdio, which fork copies, to a terminal or not.
`ShellSignals` are the signals that tsh passes on to its programs.

**Exercises** computes: `sum1` and `sum2`, the product of matrices with the program that times it, the word
replaced in a mapped file, and the strings of string_adder.c.

### Run

One run, `programs`, with the part of Rio (section 5):

| Property | What it shows |
|---|---|
| `EchoesInOrder` | while the server is up a client sees its own lines, in capitals and in order; bytecnt is the bytes that came in and one for each line without its end in the buffer (rio_readlineb returns one too many), never more, and less only after two threads added at a time; the homework's client gets its lines as long as each read gets one string, and strlen stays in the buffers |
| `Answered` | each client whose lines have their ends gets to the end of its input, or the server has ended |
| `LinesAsTyped` | the shell runs the commands typed, with their words, quotes and place; argv has room; a request is relayed in its three parts, and no text of a line is lost or doubled |
| `ProgramsDo` | what each program prints in every order of its processes; who is waited for; in the shell a signal reaches all processes of a program; kill(-1) only after a failed fork; sums, products, strings and the sizes timed are right |

*Bounds.* `MAXLINE` of 3 makes lines that fit, that fill the buffer and that do not; 12 for the shell
holds a command with two words, blanks and quotes. Users type one line without its end, two lines, one line that does not fit. The
echo server has two clients, since what threads share is one counter. At most six processes, which hw.c makes, three
children of fork10, one failing fork, four returns of exhand's handler, which never ends otherwise. Ints of 2
bits, matrices up to 2 by 2, files of up to two pages of 6 bytes. Lines that nobody means are all texts of up to
four characters over an alphabet that holds the special ones. `MaxRounds` cuts off the timing
program with gap 0, which never ends.

*Fairness.* For Rio as in section 5. For Echo one condition: as long as some thread of
the server or of a client can go on, one of them does. Since clients type finitely much, that is
enough for `Answered`; which one it is, is not assumed. Nothing is assumed of the other programs. Deadlock is
not checked: programs end, and clients wait for users.

### What the models make visible

- *Shell.* A line whose last word is `&foo`, or a quoted `&`, is run in the background (320); a line without
  any word but with blanks, or nothing before `&`, leaves argv[0] NULL; text before the end of the input without a newline
  is not evaluated, as feof is tested after fgets (153); a line longer than the buffer
  goes on as the next command.
- *Proxy.* port_checker returns 1 for every line, so that a line without port or message crashes the
  proxy instead of being explained; ctos never frees what it allocates.
- *Echo.* bytecnt can fall short when two threads add at a time, and it exceeds the bytes received by one for each
  line that was cut or has no end: csapp.c:660 counts one character more than it stores. echoservert.c:11 does not test its argument:
  without a port the server ends at once (`ListenFails` in `new`). One client that leaves with its answer under way
  ends the server (write fails with EPIPE, and Rio_writen exits). After the server's end a client prints
  its own line once more, as nothing was read into the buffer. A client whose last line has no end waits for the
  server, which waits for the end of that line. In the homework's pair a line as long as the buffer puts
  the zeros out of step.
- *Processes.* hw.c prints Hello five times on a terminal and seven times into a file, as fork copies the buffer.
  Without a successful fork Q1.c signals -1: every process of the user.
- *Exercises.* The average of the last ten times counts the current one, and is divided by ten from the first.
  memory_mapping.c looks behind the end of a file of whole pages if it ends like the word it looks for.
  string_formatter writes past 4096 characters; int_to_str returns nothing.

All properties of this section are model-checked only.

## 8. What is proved, what is left

Eight modules hold proofs: TshProofs, IoProofs, DriversProofs, HeapProofs, MmListProofs, FreeBlocksProofs, MmProofs
and MemoryLabProofs. Model-checked only are, of safety,
`EchoesInOrder`, `LinesAsTyped` and `ProgramsDo` of the programs.

Out of the provers' reach: liveness (`FgReturns`, `ZombiesReaped`, `Served`, `Returns`, `Answered`), and
what recursive functions compute for every input (the scanner of parseline, the exercises).

## 9. Not modelled

- **Copies and earlier versions**: `malloclab-handout_explicit/mdriver.c`, its timers and memlib, `csapp.c` in HW12 and
  Final, `host_port_check` in proxy.c, the drivers in `MSR_Prac` and Prac7 are the files that are modelled, but for
  details of what they print; `handin/2013-11438-1-tsh.c` is tsh.c. The `mm_dot_c_backup` files are earlier states of
  mm.c, which were replaced.
- **Drivers of the practice**: the hello modules print a line; procfs1.c makes an entry that prints one, and uses symbols
  that are gone from the kernel it is built for, so that it does not load.
- **Arithmetic without state**: the cache flushing of fcyc.c, the clock rate, the performance index, which are
  floating-point formulas.
- **Scripts** (sdriver.pl, Makefiles): they start programs and compare texts.
- **What is left of homework and exams**: programs that print one value or make one call.
- **Documents, binaries, traces, Buffer_Overflow_Lab** (no source).
- A key that arrives between addjob (tsh.c:251) and the child's setpgid is in the model of Tsh, but no property is
  about it: the key is lost and the job goes on.
- The answer that the proxy gives when a server closes without one (proxy.c:364) is in the model of Proxy; nothing in the
  repository says what it should be.
