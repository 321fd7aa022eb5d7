------------------------------- MODULE Mdriver -------------------------------
(***************************************************************************)
(* The driver of Memory_Lab/malloclab-handout/mdriver.c (the copy in       *)
(* malloclab-handout_explicit is the same file).  It reads trace files and *)
(* runs each on a malloc package: once to see whether every payload is     *)
(* where it may be (eval_mm_valid), once for the share of the heap that is *)
(* used (eval_mm_util), several times for speed (eval_mm_speed).           *)
(*                                                                         *)
(* The package is outside: allocator = "right" answers as Allocator        *)
(* allows, "any" answers anything.  Addresses count bytes, the heap begins *)
(* at Low.  Text that is printed is left out, but for the kinds of error.  *)
(***************************************************************************)
EXTENDS Integers, FiniteSets, Sequences

CONSTANTS
  Traces,     \* trace files: [ids, ops, lines], header and requests
  NumFiles,   \* number of default trace files
  ALIGNMENT,  \* of payloads
  UCHAR_MAX,  \* the largest byte
  MaxHeap,    \* MAX_HEAP in bytes
  Repeats     \* how often a function is run to measure it

ASSUME AlignmentAssumption == ALIGNMENT \in Nat \ {0}
ASSUME ByteAssumption == UCHAR_MAX \in Nat \ {0}
ASSUME MaxHeapAssumption == MaxHeap \in Nat
ASSUME CountAssumption == NumFiles \in Nat \ {0} /\ Repeats \in Nat \ {0}
\* add_range asserts that sizes are positive.
ASSUME TracesAssumption ==
  \A t \in Traces : /\ t.lines \in Seq([type : STRING, index : Nat, size : Nat])
                    /\ \A k \in 1 .. Len(t.lines) :
                         t.lines[k].type \in {"a", "r"} => t.lines[k].size > 0

VARIABLES
  allocator,   \* "right" or "any": what is linked with the driver
  pc,          \* where main is: a phase, "done", or "exited" (exit(1), an assert)
  opt,         \* letters of the options given: "f", "a", "l"
  file, trace, \* number and content of the trace file
  op,          \* number of the next request of the trace
  rep,         \* runs measured
  blocks,      \* per id the address returned
  block_sizes, \* and the payload size
  ranges,      \* payloads in use as the driver knows them: [lo, hi]
  brk,         \* one more than mem_heap_hi
  live,        \* payloads in use as the right package knows them
  data,        \* contents of the heap
  total_size, max_total_size,
  valid, util, \* of mm_stats: the files passed, [used, heap] of a file
  errors,      \* number of errors counted
  report       \* error messages printed: [kind, id asked for]

package == <<brk, live, data>>
memory == <<blocks, block_sizes>>
totals == <<total_size, max_total_size>>
results == <<valid, util, errors, report>>
vars == <<allocator, pc, opt, file, trace, op, rep, memory, ranges, package, totals, results>>

NULL == 0
Low == ALIGNMENT              \* mem_heap_lo, which malloc aligned
Top == Low + MaxHeap
Address == 0 .. Top + 1
range_t == [lo : Address, hi : Int]
Payload(lo, size) == [lo |-> lo, hi |-> lo + size - 1]
Overlap(x, y) == x.lo <= y.hi /\ y.lo <= x.hi
Ids(t) == 0 .. t.ids - 1
Files == 1 .. IF "f" \in opt THEN 1 ELSE NumFiles
Empty == [a \in Low .. Top - 1 |-> -1]
NoId == -1
NoTrace == [ids |-> 0, ops |-> 0, lines |-> <<>>]

Init ==
  /\ allocator \in {"right", "any"} /\ pc = "options" /\ opt = {} /\ file = 1
  /\ trace = NoTrace /\ op = 1 /\ rep = 0 /\ blocks = <<>> /\ block_sizes = <<>>
  /\ ranges = {} /\ brk = Low /\ live = {} /\ data = Empty
  /\ total_size = 0 /\ max_total_size = 0
  /\ valid = {} /\ util = <<>> /\ errors = 0 /\ report = {}

-----------------------------------------------------------------------------
(* main before the traces.                                                 *)
\* Both end the program.
usage == pc' = "exited"
app_error == pc' = "exited"

\* The options g, v, V and t (a directory) change what is printed or where
\* files are looked for; h and unknown letters end the program.
Option(o) ==
  /\ pc = "options"
  /\ IF o = "h" THEN usage /\ UNCHANGED opt
     ELSE opt' = opt \cup ({o} \cap {"f", "a", "l"}) /\ UNCHANGED pc
  /\ UNCHANGED <<allocator, file, trace, op, rep, memory, ranges, package, totals, results>>

\* The test of the team's fields (unless -a) stops at an empty name or id; a
\* second member has both or none.  Then come libc (with -l) and mm.
TeamComplete(blank) ==
  /\ blank \cap {"teamname", "name1", "id1"} = {}
  /\ "name2" \in blank <=> "id2" \in blank
CheckTeam(blank) ==
  /\ pc = "options"
  /\ pc' = IF "a" \notin opt /\ ~TeamComplete(blank) THEN "exited"
           ELSE IF "l" \in opt THEN "read_libc" ELSE "read"
  /\ opt' = opt \ {"a"}
  /\ UNCHANGED <<allocator, file, trace, op, rep, memory, ranges, package, totals, results>>

-----------------------------------------------------------------------------
(* read_trace.                                                             *)
\* What its exits and assertions let pass.  (A file with more requests than
\* its header says is stored beyond the array before the assertion ends the
\* program, if it gets there.)
WellFormed(t) ==
  LET indexes == {0} \cup {t.lines[k].index : k \in {j \in 1 .. Len(t.lines) : t.lines[j].type # "f"}}
  IN /\ \A k \in 1 .. Len(t.lines) : t.lines[k].type \in {"a", "r", "f"}
     /\ t.ids - 1 \in indexes /\ \A x \in indexes : x <= t.ids - 1
     /\ t.ops = Len(t.lines)

\* mem_reset_brk and mm_init: the heap is empty.  (Bytes are written before
\* they are read.)
Fresh == brk' = Low /\ live' = {} /\ data' = Empty

ReadTrace(t) ==
  /\ pc \in {"read_libc", "read"} /\ file \in Files
  /\ IF WellFormed(t)
     THEN /\ trace' = t /\ blocks' = [i \in Ids(t) |-> NULL]
          /\ block_sizes' = [i \in Ids(t) |-> 0]
          /\ pc' = IF pc = "read_libc" THEN "libc_valid" ELSE "mm_init"
     ELSE app_error /\ UNCHANGED <<trace, memory>>
  /\ op' = 1 /\ rep' = 0
  /\ UNCHANGED <<allocator, opt, file, ranges, package, totals, results>>

\* free_trace, and the next file; after libc, the same files for mm.
FreeTrace ==
  /\ pc \in {"free_libc", "free"}
  /\ trace' = NoTrace /\ blocks' = <<>> /\ block_sizes' = <<>>
  /\ op' = 1 /\ total_size' = 0 /\ max_total_size' = 0
  /\ IF file + 1 \in Files
     THEN file' = file + 1 /\ pc' = IF pc = "free_libc" THEN "read_libc" ELSE "read"
     ELSE file' = 1 /\ pc' = IF pc = "free_libc" THEN "read" ELSE "done"
  /\ UNCHANGED <<allocator, opt, rep, ranges, package, results>>

-----------------------------------------------------------------------------
(* Running requests.                                                       *)
More == op <= trace.ops
Request == trace.lines[op]
Asks(type) == More /\ Request.type = type
Next1 == op' = op + 1 /\ UNCHANGED <<allocator, pc, opt, file, trace, rep>>

\* Where the package may put size bytes (NULL: it refuses), if it keeps the
\* payloads `kept'; and what brk may become.
Answers(size, kept) ==
  IF allocator = "any" THEN Address
  ELSE {NULL} \cup {lo \in Low .. Top - size : /\ lo % ALIGNMENT = 0
                                               /\ \A x \in kept : ~Overlap(Payload(lo, size), x)}
Grows(p, size) ==
  IF allocator = "any" THEN brk' \in {b \in {brk, p + size, Top} : brk <= b /\ b <= Top}
  ELSE brk' = IF p = NULL \/ p + size <= brk THEN brk ELSE p + size

\* It is handed out; the driver or the package fills it.
Fill(d, x, byte) == [a \in DOMAIN d |-> IF a \in x.lo .. x.hi THEN byte ELSE d[a]]
Holds(x) == {y \in live : y.lo # x}

\* malloc_error, and the trace is not valid.  The message has the number of
\* the request.
Error(kind) == [kind |-> kind, id |-> IF More THEN Request.index ELSE NoId]
Invalid(kind) ==
  /\ pc' = "free" /\ errors' = errors + 1 /\ report' = report \cup {Error(kind)}
  /\ UNCHANGED <<allocator, opt, file, trace, op, rep, memory, totals, valid, util>>

\* Mutant: only the first byte of the new payload is looked for.
AddRangeFirstByte(rs, lo, size) ==
  LET x == Payload(lo, size)
  IN IF lo % ALIGNMENT # 0 THEN "unaligned"
     ELSE IF \E a \in {x.lo, x.hi} : a < Low \/ a >= brk' THEN "outside"
     ELSE IF \E y \in rs : x.lo >= y.lo /\ x.lo <= y.hi THEN "overlaps"
     ELSE "ok"
\* add_range, before it adds.  An end of the new payload may not lie in an old
\* one.
AddRange(rs, lo, size) ==
  LET x == Payload(lo, size)
  IN IF lo % ALIGNMENT # 0 THEN "unaligned"
     ELSE IF \E a \in {x.lo, x.hi} : a < Low \/ a >= brk' THEN "outside"
     ELSE IF \E y \in rs, a \in {x.lo, x.hi} : a >= y.lo /\ a <= y.hi THEN "overlaps"
     ELSE "ok"
RemoveRange(rs, lo) == {y \in rs : y.lo # lo}

Remember(p) ==
  /\ blocks' = [blocks EXCEPT ![Request.index] = p]
  /\ block_sizes' = [block_sizes EXCEPT ![Request.index] = Request.size]
LowByte(id) == id % (UCHAR_MAX + 1)
\* A stored byte as the driver reads it: char is signed (on x86).
Char(b) == IF 2 * b > UCHAR_MAX THEN b - (UCHAR_MAX + 1) ELSE b

MmInit ==
  /\ pc = "mm_init"
  /\ Fresh /\ ranges' = {}
  /\ \/ /\ pc' = "valid"
        /\ UNCHANGED <<allocator, opt, file, trace, op, rep, memory, totals, results>>
     \/ allocator = "any" /\ Invalid("init")

ValidAlloc ==
  /\ pc = "valid" /\ Asks("a")
  /\ \E p \in Answers(Request.size, live) :
       LET x == Payload(p, Request.size)
           verdict == AddRange(ranges, p, Request.size)
       IN /\ Grows(p, Request.size)
          /\ live' = IF allocator = "right" /\ p # NULL THEN live \cup {x} ELSE live
          /\ IF p = NULL THEN Invalid("failed") /\ UNCHANGED <<ranges, data>>
             ELSE IF verdict # "ok" THEN Invalid(verdict) /\ UNCHANGED <<ranges, data>>
             ELSE /\ ranges' = ranges \cup {x}
                  /\ data' = IF allocator = "right" THEN Fill(data, x, LowByte(Request.index)) ELSE data
                  /\ Remember(p) /\ Next1 /\ UNCHANGED <<totals, results>>

\* Mutant: the old range is removed after the new one is tested.
ValidReallocLate ==
  /\ pc = "valid" /\ Asks("r")
  /\ \E p \in Answers(Request.size, Holds(blocks[Request.index])) :
       LET x == Payload(p, Request.size)
           verdict == AddRange(ranges, p, Request.size)
       IN /\ Grows(p, Request.size)
          /\ UNCHANGED <<live, data>>
          /\ IF verdict # "ok" THEN Invalid(verdict) /\ UNCHANGED ranges
             ELSE /\ ranges' = RemoveRange(ranges, blocks[Request.index]) \cup {x}
                  /\ Remember(p) /\ Next1 /\ UNCHANGED <<totals, results>>
\* The old range goes before the new payload is tested, since it may overlap
\* the old one; then the bytes that both have, as chars, are compared with
\* the low byte of the id, an int.
ValidRealloc ==
  /\ pc = "valid" /\ Asks("r")
  /\ LET oldp == blocks[Request.index]
         oldsize == block_sizes[Request.index]
         kept == IF Request.size < oldsize THEN Request.size ELSE oldsize
     IN \E p \in Answers(Request.size, Holds(oldp)), same \in BOOLEAN :
          LET x == Payload(p, Request.size)
              rest == RemoveRange(ranges, oldp)
              verdict == AddRange(rest, p, Request.size)
              copied == [a \in DOMAIN data |-> IF a \in p .. p + kept - 1
                                               THEN data[oldp + (a - p)] ELSE data[a]]
              preserved == IF allocator = "any" THEN same
                           ELSE \A a \in p .. p + kept - 1 : Char(copied[a]) = LowByte(Request.index)
          IN /\ allocator = "right" => same
             /\ Grows(p, Request.size)
             /\ live' = IF allocator = "right" /\ p # NULL THEN Holds(oldp) \cup {x} ELSE live
             /\ IF p = NULL THEN Invalid("failed") /\ UNCHANGED <<ranges, data>>
                ELSE IF verdict # "ok" THEN Invalid(verdict) /\ ranges' = rest /\ UNCHANGED data
                ELSE /\ ranges' = rest \cup {x}
                     /\ data' = IF allocator = "right" THEN Fill(copied, x, LowByte(Request.index)) ELSE data
                     /\ IF ~preserved THEN Invalid("lost data")
                        ELSE Remember(p) /\ Next1 /\ UNCHANGED <<totals, results>>

\* mm_free removes the range itself, unless it finds nothing to free.
ValidFree ==
  /\ pc = "valid" /\ Asks("f")
  /\ LET p == blocks[Request.index]
     IN /\ live' = Holds(p)
        /\ \/ ranges' = RemoveRange(ranges, p)
           \/ allocator = "any" /\ UNCHANGED ranges
  /\ Next1 /\ UNCHANGED <<memory, brk, data, totals, results>>

\* mm_exit gives everything back; what is in the list then has leaked.
ValidEnd ==
  /\ pc = "valid" /\ ~More
  /\ live' = {}
  /\ \/ ranges' = {}
     \/ allocator = "any" /\ UNCHANGED ranges
  /\ IF ranges' # {} THEN Invalid("leak")
     ELSE /\ valid' = valid \cup {file} /\ pc' = "util_init"
          /\ UNCHANGED <<allocator, opt, file, trace, op, rep, memory, totals, util, errors, report>>
  /\ UNCHANGED <<brk, data>>

-----------------------------------------------------------------------------
(* eval_mm_util: the driver's list is not used (mm_init gets NULL), and    *)
(* mm_exit is not called.  app_error ends the program.                     *)
UtilInit ==
  /\ pc = "util_init"
  /\ Fresh /\ total_size' = 0 /\ max_total_size' = 0 /\ op' = 1
  /\ pc' \in {"util"} \cup (IF allocator = "any" THEN {"exited"} ELSE {})
  /\ UNCHANGED <<allocator, opt, file, trace, rep, memory, ranges, results>>

Count(n) ==
  /\ total_size' = total_size + n
  /\ max_total_size' = IF total_size' > max_total_size THEN total_size' ELSE max_total_size

\* Mutant: a realloc counts as if nothing was given back.
UtilReallocAdds ==
  /\ pc = "util" /\ Asks("r")
  /\ \E p \in Answers(Request.size, Holds(blocks[Request.index])) \ {NULL} :
       /\ Grows(p, Request.size)
       /\ live' = IF allocator = "right"
                  THEN Holds(blocks[Request.index]) \cup {Payload(p, Request.size)} ELSE live
       /\ Remember(p) /\ Count(Request.size) /\ Next1
  /\ UNCHANGED <<data, ranges, results>>
\* mm_malloc, or mm_realloc of the block `oldp' of `oldsize' bytes.  Where
\* the package puts it is not looked at.
UtilPlaces(oldp, oldsize) ==
  \E p \in IF allocator = "any" THEN {NULL, Low} ELSE Answers(Request.size, Holds(oldp)) :
    /\ Grows(p, Request.size)
    /\ live' = IF allocator = "right" /\ p # NULL
               THEN Holds(oldp) \cup {Payload(p, Request.size)} ELSE live
    /\ IF p = NULL
       THEN /\ app_error
            /\ UNCHANGED <<allocator, opt, file, trace, op, rep, memory, totals>>
       ELSE Remember(p) /\ Count(Request.size - oldsize) /\ Next1
    /\ UNCHANGED <<data, ranges, results>>

UtilAlloc == pc = "util" /\ Asks("a") /\ UtilPlaces(NULL, 0)
UtilRealloc ==
  pc = "util" /\ Asks("r") /\ UtilPlaces(blocks[Request.index], block_sizes[Request.index])

UtilFree ==
  /\ pc = "util" /\ Asks("f")
  /\ live' = Holds(blocks[Request.index])
  /\ Count(-block_sizes[Request.index])
  /\ Next1 /\ UNCHANGED <<memory, brk, data, ranges, results>>

UtilEnd ==
  /\ pc = "util" /\ ~More
  /\ util' = [f \in DOMAIN util \cup {file} |->
                IF f = file THEN [used |-> max_total_size, heap |-> brk - Low] ELSE util[f]]
  /\ pc' = "speed"
  /\ UNCHANGED <<allocator, opt, file, trace, op, rep, memory, ranges, package, totals,
                 valid, errors, report>>

-----------------------------------------------------------------------------
(* What is measured, and libc.                                             *)
\* fsecs runs eval_mm_speed Repeats times, each in an empty heap; a request
\* that is refused ends the program.
Speed ==
  /\ pc = "speed" /\ rep < Repeats
  /\ rep' = rep + 1
  /\ \/ rep' = Repeats /\ pc' = "free"
     \/ rep' < Repeats /\ UNCHANGED pc
     \/ trace.ops > 0 /\ app_error
  /\ op' = 1 /\ Fresh
  /\ UNCHANGED <<allocator, opt, file, trace, memory, ranges, totals, results>>

\* eval_libc_valid; an error is counted, but unix_error ends the program.
LibcValid ==
  /\ pc = "libc_valid"
  /\ \/ More /\ op' = op + 1 /\ UNCHANGED <<pc, errors, report>>
     \/ /\ More /\ Request.type # "f"
        /\ app_error /\ errors' = errors + 1 /\ report' = report \cup {Error("libc")}
        /\ UNCHANGED op
     \/ ~More /\ pc' = "libc_speed" /\ op' = 1 /\ UNCHANGED <<errors, report>>
  /\ UNCHANGED <<allocator, opt, file, trace, rep, memory, ranges, package, totals, valid, util>>

LibcSpeed ==
  /\ pc = "libc_speed" /\ rep < Repeats
  /\ rep' = rep + 1
  /\ pc' \in {"exited", IF rep' = Repeats THEN "free_libc" ELSE pc}
  /\ UNCHANGED <<allocator, opt, file, trace, op, memory, ranges, package, totals, results>>

Next ==
  \/ \E o \in {"a", "f", "g", "h", "l"} : Option(o)
  \/ \E blank \in SUBSET {"teamname", "name1", "id1", "name2", "id2"} : CheckTeam(blank)
  \/ \E t \in Traces : ReadTrace(t)
  \/ MmInit \/ ValidAlloc \/ ValidRealloc \/ ValidFree \/ ValidEnd
  \/ UtilInit \/ UtilAlloc \/ UtilRealloc \/ UtilFree \/ UtilEnd
  \/ Speed \/ LibcValid \/ LibcSpeed \/ FreeTrace
Spec == Init /\ [][Next]_vars

-----------------------------------------------------------------------------
(* The state is well formed.                                               *)
TypeOK ==
  /\ allocator \in {"right", "any"} /\ opt \subseteq {"a", "f", "l"} /\ file \in 1 .. NumFiles
  /\ pc \in {"options", "read_libc", "libc_valid", "libc_speed", "free_libc", "read", "mm_init",
             "valid", "util_init", "util", "speed", "free", "done", "exited"}
  /\ trace \in Traces \cup {NoTrace} /\ op \in 1 .. trace.ops + 1 /\ rep \in 0 .. Repeats
  /\ blocks \in [Ids(trace) -> Address] /\ DOMAIN block_sizes = Ids(trace)
  /\ ranges \subseteq range_t /\ live \subseteq range_t /\ brk \in Low .. Top
  /\ valid \subseteq Files /\ DOMAIN util \subseteq valid
  /\ errors \in 0 .. NumFiles

(* "The payload must not overlap any other payloads" (line 408): whatever  *)
(* the package answers, the payloads that the driver has accepted are      *)
(* aligned, in the heap and apart, with one exception: the test looks for  *)
(* the two ends of the new payload in the old ones (lines 410-411), and a  *)
(* payload that contains an old one passes it.                             *)
Contains(x, y) == x.lo < y.lo /\ y.hi < x.hi
AcceptedApart ==
  /\ \A x \in ranges : x.lo % ALIGNMENT = 0 /\ Low <= x.lo /\ x.lo <= x.hi /\ x.hi < Top
  /\ \A x, y \in ranges :
       x # y /\ Overlap(x, y) => Contains(x, y) \/ Contains(y, x)

(* A package that keeps Allocator's rules is found valid: no order of      *)
(* requests, no reuse of memory, no payload that moves onto its old place  *)
(* and no block freed twice makes the driver report an error, but that a   *)
(* request was refused.  There is one exception.  The bytes written for an *)
(* id whose low byte is 128 or more are negative when line 666 reads them, *)
(* and never equal to `index & 0xFF': every such id that is to grow is     *)
(* reported to have lost its data, and its trace is never found valid.     *)
Misread(id) == Char(LowByte(id)) < 0
Excused(r) == r.kind \in {"failed", "libc"} \/ (r.kind = "lost data" /\ Misread(r.id))
GrowsMisread(n) == \E k \in 1 .. n : trace.lines[k].type = "r" /\ Misread(trace.lines[k].index)
NoFalseAlarm ==
  allocator = "right" =>
    /\ \A r \in report : Excused(r)
    /\ pc = "done" /\ report = {} => valid = Files
    /\ pc \in {"util_init", "util", "speed"} => ~GrowsMisread(trace.ops)

\* What main and printresults give at the end: totals and an index, and the
\* number of correct traces.
Graded == errors = 0
NumCorrect == Cardinality(valid)
Table == [rows |-> [f \in Files |-> f \in valid], total |-> errors = 0]

(* "errors" decides whether a performance index is given (line 335), the   *)
(* table and "correct:" show the traces that are valid: they agree, one    *)
(* error for each trace that was run and is not valid.                     *)
Run == IF pc \in {"done", "free", "util_init", "util", "speed"}
       THEN 1 .. (IF pc = "done" THEN Cardinality(Files) ELSE file) ELSE 1 .. file - 1
OneErrorPerTrace ==
  pc \notin {"exited", "read_libc", "libc_valid", "libc_speed", "free_libc"} =>
    /\ errors = Cardinality(Run \ valid)
    /\ pc = "done" =>
         /\ Graded <=> NumCorrect = Cardinality(Files)
         /\ Table.total <=> \A f \in Files : Table.rows[f]

(* The driver finds no fault with a package that keeps the rules, but with *)
(* the growth of an id whose low byte is negative as a char, and counts    *)
(* one error for each trace that it finds invalid.                         *)
JudgedRightly == NoFalseAlarm /\ OneErrorPerTrace

(* Traces for which NoFalseAlarm and UtilAtMostOne are meant: an id that   *)
(* is to grow or to be freed was asked for before and, if it was freed     *)
(* since, nothing was asked for since then.  (The driver takes any trace,  *)
(* and would free what another id has got in the meantime.)                *)
Disciplined(t) ==
  \A k \in 1 .. Len(t.lines) :
    /\ t.lines[k].index \in Ids(t)
    /\ t.lines[k].type # "a" =>
         \E j \in 1 .. k - 1 :
           /\ t.lines[j].type # "f" /\ t.lines[j].index = t.lines[k].index
           /\ \A m \in j + 1 .. k - 1 :
                t.lines[m].type = "f" /\ t.lines[m].index = t.lines[k].index =>
                  \A l \in m + 1 .. k - 1 : t.lines[l].type = "f"

(* The share of the heap in use is a share: the payload bytes in use at    *)
(* any time fit in what the heap has become, also where a block is freed   *)
(* twice in a row or grows in place.  Otherwise a package could score      *)
(* beyond the weight of utilisation.                                       *)
UtilAtMostOne ==
  allocator = "right" => \A f \in DOMAIN util : util[f].used <= util[f].heap
=============================================================================
