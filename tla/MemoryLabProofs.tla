---------------------------- MODULE MemoryLabProofs ----------------------------
(***************************************************************************)
(* What the run memory_lab checks, for heaps, requests, trees and words of *)
(* any size.                                                               *)
(*                                                                         *)
(* What mdriver's judgement is worth, for every set of traces, any size of *)
(* heap and any alignment: what it means that it accepts a payload, that   *)
(* its count of errors is that of the files that are not valid, and, for a *)
(* malloc package that keeps the rules, that it finds no fault with it and *)
(* grades it with a share of the heap.  That fsecs returns what was        *)
(* measured, for any number of kept values.  That the driver, the          *)
(* allocators and the tree keep what is checked of them, which follows     *)
(* from these theorems and those of MmProofs, MmListProofs and             *)
(* FreeBlocksProofs.                                                       *)
(***************************************************************************)
EXTENDS MemoryLab, FiniteSetTheorems, TLAPS

(* The requests that are run are those of a file that read_trace let pass, *)
(* and the break is in the heap.                                           *)
TraceInv ==
  /\ trace \in Traces \cup {NoTrace} /\ trace.ops = Len(trace.lines)
  /\ op \in Nat \ {0}
  /\ brk \in Low .. Top
(* Ranges are aligned, in the heap, and apart or nested.                   *)
InHeap(x) == /\ x.lo \in Int /\ x.hi \in Int
             /\ x.lo % ALIGNMENT = 0 /\ Low <= x.lo /\ x.lo <= x.hi /\ x.hi < Top
Fits(x, y) == x # y /\ Overlap(x, y) => Contains(x, y) \/ Contains(y, x)
RangesInv == /\ \A x \in ranges : InHeap(x)
             /\ \A x, y \in ranges : Fits(x, y)
Inv == TraceInv /\ RangesInv

-----------------------------------------------------------------------------
(* A payload that passes the test of add_range lies apart from each old    *)
(* one or contains it: if neither of its ends lies in the old one, it is   *)
(* on one side, or on both.                                                *)
LEMMA EndsOutside ==
  ASSUME NEW x, NEW y, x.lo \in Int, x.hi \in Int, y.lo \in Int, y.hi \in Int,
         x.lo <= x.hi, y.lo <= y.hi,
         \A a \in {x.lo, x.hi} : ~(a >= y.lo /\ a <= y.hi)
  PROVE  Fits(x, y) /\ Fits(y, x)
BY DEF Fits, Overlap, Contains

(* The addresses of the heap are numbers.                                  *)
LEMMA Numbers == Low \in Nat /\ Top \in Nat /\ Low <= Top /\ 0 < Low
BY AlignmentAssumption, MaxHeapAssumption DEF Low, Top

(* A request for memory that is run asks for at least one byte.            *)
LEMMA RequestSized ==
  ASSUME Inv, Asks("a") \/ Asks("r") PROVE Request.size \in Nat \ {0}
<1>1. op \in 1 .. Len(trace.lines) /\ trace.lines[op].type \in {"a", "r"}
  BY DEF Inv, TraceInv, Asks, More, Request
<1>2. trace # NoTrace
  BY <1>1 DEF NoTrace
<1>3. trace.lines \in Seq([type : STRING, index : Nat, size : Nat])
  BY <1>2, TracesAssumption DEF Inv, TraceInv
<1>4. trace \in Traces
  BY <1>2 DEF Inv, TraceInv
<1>5. trace.lines[op].size > 0
  BY <1>1, <1>4, TracesAssumption
<1>6. trace.lines[op].size \in Nat
  <2> DEFINE Requests == [type : STRING, index : Nat, size : Nat]
  <2>1. trace.lines \in Seq(Requests)
    BY <1>3
  <2> HIDE DEF Requests
  <2>2. trace.lines[op] \in Requests
    BY <1>1, <2>1
  <2> QED
    BY <2>2 DEF Requests
<1> QED
  BY <1>5, <1>6 DEF Request

(* The package keeps the break inside the heap.                            *)
LEMMA GrowsInside ==
  ASSUME Inv, NEW size \in Nat \ {0}, NEW kept, NEW p \in Answers(size, kept), Grows(p, size)
  PROVE  brk' \in Low .. Top
<1>1. CASE allocator = "any"
  <2>1. PICK b \in {brk, p + size, Top} : brk <= b /\ b <= Top /\ brk' = b
    BY <1>1 DEF Grows
  <2>2. p \in Int
    BY <1>1, Numbers DEF Answers, Address
  <2> QED
    BY <2>1, <2>2, Numbers DEF Inv, TraceInv
<1>2. CASE allocator # "any"
  <2>1. CASE p = NULL \/ p + size <= brk
    BY <1>2, <2>1 DEF Grows, Inv, TraceInv
  <2>2. CASE ~(p = NULL \/ p + size <= brk)
    <3>1. p \in Low .. Top - size /\ brk' = p + size
      BY <1>2, <2>2 DEF Grows, Answers
    <3> QED
      BY <3>1, Numbers
  <2> QED
    BY <2>1, <2>2
<1> QED
  BY <1>1, <1>2

(* What add_range lets pass can be added.                                  *)
LEMMA AddRangeKeeps ==
  ASSUME NEW rs, \A x \in rs : InHeap(x), \A x, y \in rs : Fits(x, y),
         NEW lo \in Int, NEW size \in Nat \ {0}, brk' \in Low .. Top,
         AddRange(rs, lo, size) = "ok"
  PROVE  LET new == rs \cup {Payload(lo, size)}
         IN (\A x \in new : InHeap(x)) /\ \A x, y \in new : Fits(x, y)
<1> DEFINE z == Payload(lo, size)
<1>1. /\ lo % ALIGNMENT = 0
      /\ \A a \in {z.lo, z.hi} : ~(a < Low \/ a >= brk')
      /\ \A y \in rs : \A a \in {z.lo, z.hi} : ~(a >= y.lo /\ a <= y.hi)
  BY DEF AddRange
<1>2. z.lo = lo /\ z.hi = lo + size - 1 /\ z.lo <= z.hi
  BY DEF Payload
<1>3. InHeap(z)
  BY <1>1, <1>2, Numbers DEF InHeap
<1> HIDE DEF z
<1>4. ASSUME NEW y \in rs PROVE Fits(z, y) /\ Fits(y, z)
  BY <1>1, <1>3, <1>4, EndsOutside DEF InHeap
<1>5. Fits(z, z)
  BY DEF Fits
<1>6. \A x \in rs \cup {z} : InHeap(x)
  BY <1>3
<1>7. \A x, y \in rs \cup {z} : Fits(x, y)
  BY <1>4, <1>5
<1> QED
  BY <1>6, <1>7 DEF z

-----------------------------------------------------------------------------
(* Steps that neither touch the list nor a trace.                          *)
LEMMA RangesKept ==
  ASSUME Inv, ranges' \subseteq ranges PROVE RangesInv'
BY DEF Inv, RangesInv, InHeap, Fits, Overlap, Contains

LEMMA StepTrace ==
  ASSUME Inv, [Next]_vars PROVE TraceInv'
<1>1. ASSUME NEW o, Option(o) PROVE TraceInv'
  BY <1>1 DEF Option, Inv, TraceInv, package
<1>2. ASSUME NEW blank, CheckTeam(blank) PROVE TraceInv'
  BY <1>2 DEF CheckTeam, Inv, TraceInv, package
<1>3. ASSUME NEW t \in Traces, ReadTrace(t) PROVE TraceInv'
  BY <1>3 DEF ReadTrace, Inv, TraceInv, package, WellFormed
<1>4. CASE MmInit
  BY <1>4, Numbers DEF MmInit, Inv, TraceInv, Fresh, Invalid
<1>5. CASE ValidAlloc
  <2>1. PICK p \in Answers(Request.size, live) : Grows(p, Request.size)
    BY <1>5 DEF ValidAlloc
  <2>2. brk' \in Low .. Top
    BY <1>5, <2>1, RequestSized, GrowsInside DEF ValidAlloc
  <2>3. trace' = trace /\ op' \in {op, op + 1}
    BY <1>5 DEF ValidAlloc, Invalid, Next1
  <2> QED
    BY <2>2, <2>3 DEF Inv, TraceInv
<1>6. CASE ValidRealloc
  <2>1. PICK p \in Answers(Request.size, Holds(blocks[Request.index])) : Grows(p, Request.size)
    BY <1>6 DEF ValidRealloc
  <2>2. brk' \in Low .. Top
    BY <1>6, <2>1, RequestSized, GrowsInside DEF ValidRealloc
  <2>3. trace' = trace /\ op' \in {op, op + 1}
    BY <1>6 DEF ValidRealloc, Invalid, Next1
  <2> QED
    BY <2>2, <2>3 DEF Inv, TraceInv
<1>7. CASE ValidFree
  BY <1>7 DEF ValidFree, Next1, Inv, TraceInv
<1>8. CASE ValidEnd
  BY <1>8 DEF ValidEnd, Invalid, Inv, TraceInv
<1>9. CASE UtilInit
  BY <1>9, Numbers DEF UtilInit, Fresh, Inv, TraceInv
<1>10. ASSUME NEW old, NEW n, Asks("a") \/ Asks("r"), UtilPlaces(old, n) PROVE TraceInv'
  <2>1. PICK p \in IF allocator = "any" THEN {NULL, Low} ELSE Answers(Request.size, Holds(old)) :
          Grows(p, Request.size)
    BY <1>10 DEF UtilPlaces
  <2>2. p \in Answers(Request.size, Holds(old))
    BY <2>1, Numbers DEF Answers, Address, NULL
  <2>3. brk' \in Low .. Top
    BY <1>10, <2>1, <2>2, RequestSized, GrowsInside
  <2>4. trace' = trace /\ op' \in {op, op + 1}
    BY <1>10 DEF UtilPlaces, Next1
  <2> QED
    BY <2>3, <2>4 DEF Inv, TraceInv
<1>11. CASE UtilFree
  BY <1>11 DEF UtilFree, Next1, Inv, TraceInv
<1>12. CASE UtilEnd
  BY <1>12 DEF UtilEnd, package, Inv, TraceInv
<1>13. CASE Speed
  BY <1>13, Numbers DEF Speed, Fresh, Inv, TraceInv
<1>14. CASE LibcValid
  BY <1>14 DEF LibcValid, package, Inv, TraceInv
<1>15. CASE LibcSpeed
  BY <1>15 DEF LibcSpeed, package, Inv, TraceInv
<1>16. CASE FreeTrace
  BY <1>16 DEF FreeTrace, package, NoTrace, Inv, TraceInv
<1>17. CASE UNCHANGED vars
  BY <1>17 DEF vars, package, Inv, TraceInv
<1> QED
  BY <1>1, <1>2, <1>3, <1>4, <1>5, <1>6, <1>7, <1>8, <1>9, <1>10, <1>11, <1>12, <1>13,
     <1>14, <1>15, <1>16, <1>17 DEF Next, UtilAlloc, UtilRealloc

(* Only the evaluation of correctness changes the list of ranges.          *)
LEMMA StepRanges ==
  ASSUME Inv, [Next]_vars PROVE RangesInv'
<1>1. CASE ValidAlloc
  <2>1. PICK p \in Answers(Request.size, live) :
          /\ Grows(p, Request.size)
          /\ \/ UNCHANGED ranges
             \/ /\ AddRange(ranges, p, Request.size) = "ok" /\ p # NULL
                /\ ranges' = ranges \cup {Payload(p, Request.size)}
    BY <1>1 DEF ValidAlloc
  <2>2. Request.size \in Nat \ {0}
    BY <1>1, RequestSized DEF ValidAlloc
  <2>5. brk' \in Low .. Top
    BY <2>1, <2>2, GrowsInside
  <2>6. p \in Int
    BY <2>1, <2>2, Numbers DEF Answers, Address, NULL
  <2>3. CASE UNCHANGED ranges
    BY <2>3, RangesKept
  <2>4. CASE ~ UNCHANGED ranges
    BY <2>1, <2>2, <2>4, <2>5, <2>6, AddRangeKeeps DEF Inv, RangesInv
  <2> QED
    BY <2>3, <2>4
<1>2. CASE ValidRealloc
  <2> DEFINE oldp == blocks[Request.index]
             rest == RemoveRange(ranges, oldp)
  <2>1. PICK p \in Answers(Request.size, Holds(oldp)) :
          /\ Grows(p, Request.size)
          /\ \/ ranges' \subseteq ranges
             \/ /\ AddRange(rest, p, Request.size) = "ok" /\ p # NULL
                /\ ranges' = rest \cup {Payload(p, Request.size)}
    BY <1>2 DEF ValidRealloc, RemoveRange
  <2>2. Request.size \in Nat \ {0}
    BY <1>2, RequestSized DEF ValidRealloc
  <2>5. brk' \in Low .. Top
    BY <2>1, <2>2, GrowsInside
  <2>6. p \in Int
    BY <2>1, <2>2, Numbers DEF Answers, Address, NULL
  <2>3. CASE ranges' \subseteq ranges
    BY <2>3, RangesKept
  <2>4. CASE ~ (ranges' \subseteq ranges)
    <3>1. (\A x \in rest : InHeap(x)) /\ \A x, y \in rest : Fits(x, y)
      BY DEF Inv, RangesInv, RemoveRange
    <3> HIDE DEF rest
    <3> QED
      BY <2>1, <2>2, <2>4, <2>5, <2>6, <3>1, AddRangeKeeps DEF RangesInv
  <2> QED
    BY <2>3, <2>4
<1>3. CASE ~ ValidAlloc /\ ~ ValidRealloc
  <2>1. ranges' \subseteq ranges
    BY <1>3 DEF Next, vars, Option, CheckTeam, ReadTrace, MmInit, ValidFree, ValidEnd, UtilInit,
       UtilAlloc, UtilRealloc, UtilPlaces, UtilFree, UtilEnd, Speed, LibcValid, LibcSpeed,
       FreeTrace, RemoveRange
  <2> QED
    BY <2>1, RangesKept
<1> QED
  BY <1>1, <1>2, <1>3

LEMMA InvAlways == Spec => []Inv
<1>1. Init => Inv
  BY Numbers DEF Init, Inv, TraceInv, RangesInv, NoTrace
<1>2. Inv /\ [Next]_vars => Inv'
  BY StepTrace, StepRanges DEF Inv
<1> QED BY <1>1, <1>2, PTL DEF Spec

(* "The payload must not overlap any other payloads" (line 408), as far as *)
(* it is tested: whatever a package answers to whatever traces, accepted   *)
(* payloads are aligned, in the heap, and two of them share a byte only if *)
(* one strictly contains the other.                                        *)
THEOREM Accepted == Spec => []AcceptedApart
<1>1. Inv => AcceptedApart
  BY DEF Inv, RangesInv, InHeap, Fits, AcceptedApart
<1> QED BY <1>1, InvAlways, PTL

-----------------------------------------------------------------------------
(* Errors are counted, one for each file that was run and is not valid.    *)
Libc == {"options", "read_libc", "libc_valid", "libc_speed", "free_libc"}
Before == {"read", "mm_init", "valid"}
After == {"util_init", "util", "speed", "free"}
ErrorsOf(n) == valid \subseteq 1 .. n /\ errors = Cardinality((1 .. n) \ valid)
ErrorInv ==
  /\ pc \in Libc \cup Before \cup After \cup {"done", "exited"}
  /\ file \in Files /\ errors \in Nat
  /\ pc = "options" => file = 1
  /\ pc \in Libc => valid = {} /\ errors = 0
  /\ pc \in Before => ErrorsOf(file - 1)
  /\ pc \in After => ErrorsOf(file)
  /\ pc = "done" => valid \subseteq Files /\ errors = Cardinality(Files \ valid)
  /\ report = {} => errors = 0

Number == IF "f" \in opt THEN 1 ELSE NumFiles
LEMMA FilesCounted ==
  /\ Number \in Nat \ {0} /\ Files = 1 .. Number /\ IsFiniteSet(Files)
  /\ Cardinality(Files) = Number
<1>1. Number \in Nat \ {0} /\ Files = 1 .. Number
  BY CountAssumption DEF Number, Files
<1> QED BY <1>1, FS_Interval

LEMMA NoErrorsYet == ErrorsOf(0) <=> valid = {} /\ errors = 0
<1>1. 1 .. 0 = {}
  OBVIOUS
<1>2. Cardinality({}) = 0
  BY FS_EmptySet
<1> QED BY <1>1, <1>2 DEF ErrorsOf

(* A file that fails is counted, one that passes is not. *)
LEMMA OneMore ==
  ASSUME NEW n \in Nat \ {0}, ErrorsOf(n - 1), errors \in Nat
  PROVE  /\ errors' = errors + 1 /\ valid' = valid => ErrorsOf(n)'
         /\ errors' = errors /\ valid' = valid \cup {n} => ErrorsOf(n)'
<1> DEFINE D == (1 .. n - 1) \ valid
<1>1. IsFiniteSet(D) /\ errors = Cardinality(D) /\ n \notin D /\ n \notin valid
  <2>1. IsFiniteSet(1 .. n - 1)
    BY FS_Interval
  <2>2. IsFiniteSet(D)
    BY <2>1, FS_Subset
  <2> QED BY <2>2 DEF ErrorsOf
<1>2. ASSUME errors' = errors + 1, valid' = valid PROVE ErrorsOf(n)'
  <2>1. Cardinality(D \cup {n}) = errors + 1
    BY <1>1, FS_AddElement
  <2>2. (1 .. n) \ valid = D \cup {n}
    BY <1>1
  <2>3. valid \subseteq 1 .. n
    BY DEF ErrorsOf
  <2> QED BY <1>2, <2>1, <2>2, <2>3 DEF ErrorsOf
<1>3. ASSUME errors' = errors, valid' = valid \cup {n} PROVE ErrorsOf(n)'
  <2>1. (1 .. n) \ (valid \cup {n}) = D
    BY <1>1
  <2>2. valid \cup {n} \subseteq 1 .. n
    BY DEF ErrorsOf
  <2> QED BY <1>1, <1>3, <2>1, <2>2 DEF ErrorsOf
<1> QED BY <1>2, <1>3

(* What a step does to the counts: nothing, an error, or a valid file. *)
Uncounted == UNCHANGED <<opt, file, valid, errors, report>>
Counts(kind) ==
  /\ pc' = "free" /\ UNCHANGED <<opt, file, valid>>
  /\ errors' = errors + 1 /\ report' = report \cup {Error(kind)}

LEMMA CountedStep ==
  ASSUME ErrorInv, Uncounted,
         \/ pc' = pc \/ pc' = "exited"
         \/ pc \in Libc \ {"options"} /\ pc' \in Libc \ {"options"}
         \/ pc \in Before /\ pc' \in Before
         \/ pc \in After /\ pc' \in After
  PROVE  ErrorInv'
BY DEF Uncounted, ErrorInv, ErrorsOf, Libc, Before, After, Files

LEMMA ErrorStep ==
  ASSUME ErrorInv, pc \in Before, NEW kind, Counts(kind)
  PROVE  ErrorInv'
<1>1. file \in Nat \ {0} /\ errors \in Nat /\ ErrorsOf(file - 1)
  BY FilesCounted DEF ErrorInv
<1>2. ErrorsOf(file)'
  BY <1>1, OneMore DEF Counts
<1> QED BY <1>1, <1>2 DEF ErrorInv, Counts, After, Before, Libc, Files

LEMMA CountedAlike ==
  ASSUME (Next1 /\ UNCHANGED results) \/ \E kind : Invalid(kind)
  PROVE  (Uncounted /\ pc' = pc) \/ \E kind : Counts(kind)
<1>1. ASSUME Next1, UNCHANGED results PROVE Uncounted /\ pc' = pc
  BY <1>1 DEF Next1, Uncounted, results
<1>2. ASSUME NEW kind, Invalid(kind) PROVE Counts(kind)
  BY <1>2 DEF Invalid, Counts
<1> QED BY <1>1, <1>2

LEMMA ReallocAnswered ==
  ASSUME ValidRealloc PROVE (Next1 /\ UNCHANGED results) \/ \E kind : Invalid(kind)
<1> DEFINE oldp == blocks[Request.index]
           kept == IF Request.size < block_sizes[Request.index] THEN Request.size
                   ELSE block_sizes[Request.index]
           copied(p) == [a \in DOMAIN data |-> IF a \in p .. p + kept - 1
                                              THEN data[oldp + (a - p)] ELSE data[a]]
           verdict(p) == AddRange(RemoveRange(ranges, oldp), p, Request.size)
           preserved(p, same) == IF allocator = "any" THEN same
                                 ELSE \A a \in p .. p + kept - 1 :
                                        Char(copied(p)[a]) = LowByte(Request.index)
<1>1. PICK p \in Answers(Request.size, Holds(oldp)), same \in BOOLEAN :
        IF p = NULL THEN Invalid("failed")
        ELSE IF verdict(p) # "ok" THEN Invalid(verdict(p))
        ELSE IF ~preserved(p, same) THEN Invalid("lost data")
        ELSE Next1 /\ UNCHANGED results
  BY Zenon DEF ValidRealloc
<1> QED BY <1>1

LEMMA ErrorsNext ==
  ASSUME ErrorInv, [Next]_vars PROVE ErrorInv'
<1>1. ASSUME NEW o, Option(o) PROVE ErrorInv'
  <2>1. pc = "options" /\ file = 1 /\ file' = 1 /\ UNCHANGED <<valid, errors, report>>
    BY <1>1 DEF Option, ErrorInv, results
  <2>2. file' \in Files'
    BY <2>1, CountAssumption DEF Files
  <2>3. pc' \in {"options", "exited"}
    BY <1>1 DEF Option, usage
  <2> QED BY <2>1, <2>2, <2>3 DEF ErrorInv, Libc, Before, After
<1>2. ASSUME NEW blank, CheckTeam(blank) PROVE ErrorInv'
  <2>1. /\ pc = "options" /\ file = 1 /\ file' = 1 /\ UNCHANGED <<valid, errors, report>>
        /\ pc' \in {"exited", "read_libc", "read"}
    BY <1>2 DEF CheckTeam, ErrorInv, results
  <2>2. file' \in Files'
    BY <2>1, CountAssumption DEF Files
  <2>3. ErrorsOf(0)'
    BY <2>1, NoErrorsYet DEF ErrorInv, Libc, ErrorsOf
  <2> QED BY <2>1, <2>2, <2>3 DEF ErrorInv, Libc, Before, After
<1>3. ASSUME NEW t, ReadTrace(t) PROVE ErrorInv'
  <2>1. Uncounted
    BY <1>3 DEF ReadTrace, Uncounted, results
  <2>2. pc' = "exited" \/ (pc = "read_libc" /\ pc' = "libc_valid") \/ (pc = "read" /\ pc' = "mm_init")
    BY <1>3 DEF ReadTrace, app_error
  <2> QED BY <2>1, <2>2, CountedStep DEF Libc, Before
<1>4. CASE MmInit
  <2>1. pc \in Before
    BY <1>4 DEF MmInit, Before
  <2>2. (Uncounted /\ pc' = "valid") \/ Counts("init")
    BY <1>4 DEF MmInit, Invalid, Uncounted, Counts, results
  <2>3. CASE Uncounted /\ pc' = "valid"
    BY <2>1, <2>3, CountedStep DEF Before
  <2>4. CASE Counts("init")
    BY <2>1, <2>4, ErrorStep
  <2> QED BY <2>2, <2>3, <2>4
<1>5. CASE ValidAlloc
  <2>1. pc \in Before
    BY <1>5 DEF ValidAlloc, Before
  <2>2. (Uncounted /\ pc' = pc) \/ \E kind : Counts(kind)
    <3>1. (Next1 /\ UNCHANGED results) \/ \E kind : Invalid(kind)
      BY <1>5 DEF ValidAlloc
    <3> QED BY <3>1, CountedAlike
  <2> QED BY <2>1, <2>2, CountedStep, ErrorStep
<1>6. CASE ValidRealloc
  <2>1. pc \in Before
    BY <1>6 DEF ValidRealloc, Before
  <2>2. (Uncounted /\ pc' = pc) \/ \E kind : Counts(kind)
    <3>1. (Next1 /\ UNCHANGED results) \/ \E kind : Invalid(kind)
      BY <1>6, ReallocAnswered
    <3> QED BY <3>1, CountedAlike
  <2> QED BY <2>1, <2>2, CountedStep, ErrorStep
<1>7. CASE ValidFree
  <2>1. Uncounted /\ pc' = pc
    BY <1>7 DEF ValidFree, Uncounted, results, Next1
  <2> QED BY <2>1, CountedStep
<1>8. CASE ValidEnd
  <2>1. CASE ranges' # {}
    <3>1. pc = "valid" /\ Counts("leak")
      BY <1>8, <2>1 DEF ValidEnd, Invalid, Counts
    <3> QED BY <3>1, ErrorStep DEF Before
  <2>2. CASE ranges' = {}
    <3>1. /\ pc = "valid" /\ pc' = "util_init" /\ valid' = valid \cup {file}
          /\ UNCHANGED <<opt, file, errors, report>>
      BY <1>8, <2>2 DEF ValidEnd
    <3>2. file \in Nat \ {0} /\ errors \in Nat /\ ErrorsOf(file - 1)
      BY <3>1, FilesCounted DEF ErrorInv, Before
    <3>3. ErrorsOf(file)'
      BY <3>1, <3>2, OneMore
    <3> QED BY <3>1, <3>3 DEF ErrorInv, After, Before, Libc, Files
  <2> QED BY <2>1, <2>2
<1>9. CASE UtilInit
  <2>1. Uncounted /\ pc = "util_init" /\ pc' \in {"util", "exited"}
    BY <1>9 DEF UtilInit, Uncounted, results
  <2> QED BY <2>1, CountedStep DEF After
<1>10. ASSUME NEW old, NEW n, pc = "util", UtilPlaces(old, n) PROVE ErrorInv'
  <2>1. Uncounted /\ (pc' = pc \/ pc' = "exited")
    BY <1>10 DEF UtilPlaces, Next1, app_error, Uncounted, results
  <2> QED BY <2>1, CountedStep
<1>11. CASE UtilFree
  <2>1. Uncounted /\ pc' = pc
    BY <1>11 DEF UtilFree, Next1, Uncounted, results
  <2> QED BY <2>1, CountedStep
<1>12. CASE UtilEnd
  <2>1. Uncounted /\ pc = "util" /\ pc' = "speed"
    BY <1>12 DEF UtilEnd, Uncounted
  <2> QED BY <2>1, CountedStep DEF After
<1>13. CASE Speed
  <2>1. Uncounted /\ pc = "speed" /\ pc' \in {"speed", "free", "exited"}
    BY <1>13 DEF Speed, Uncounted, results, app_error
  <2> QED BY <2>1, CountedStep DEF After
<1>14. CASE LibcValid
  <2>1. CASE pc' = "exited"
    BY <1>14, <2>1 DEF LibcValid, ErrorInv, Libc, Before, After, Files
  <2>2. CASE pc' # "exited"
    <3>1. Uncounted /\ pc = "libc_valid" /\ pc' \in {"libc_valid", "libc_speed"}
      BY <1>14, <2>2 DEF LibcValid, Uncounted, app_error
    <3> QED BY <3>1, CountedStep DEF Libc
  <2> QED BY <2>1, <2>2
<1>15. CASE LibcSpeed
  <2>1. Uncounted /\ pc = "libc_speed" /\ pc' \in {"libc_speed", "free_libc", "exited"}
    BY <1>15 DEF LibcSpeed, Uncounted, results
  <2> QED BY <2>1, CountedStep DEF Libc
<1>16. CASE FreeTrace
  <2>1. UNCHANGED <<opt, valid, errors, report>> /\ pc \in {"free_libc", "free"}
    BY <1>16 DEF FreeTrace, results
  <2>2. Files' = Files
    BY <2>1 DEF Files
  <2>3. CASE file + 1 \in Files
    <3>1. file' = file + 1 /\ pc' = IF pc = "free_libc" THEN "read_libc" ELSE "read"
      BY <1>16, <2>3 DEF FreeTrace
    <3>2. file \in Nat /\ file' - 1 = file
      BY <3>1, FilesCounted DEF ErrorInv
    <3>3. pc = "free" => valid' \subseteq 1 .. file' - 1 /\ errors' = Cardinality((1 .. file' - 1) \ valid')
      BY <2>1, <3>2 DEF ErrorInv, After, ErrorsOf
    <3>4. file' \in Files' /\ errors' \in Nat /\ (report' = {} => errors' = 0)
      BY <2>1, <2>2, <2>3, <3>1 DEF ErrorInv
    <3>5. CASE pc = "free"
      BY <3>1, <3>3, <3>4, <3>5 DEF ErrorInv, ErrorsOf, Libc, Before, After
    <3>6. CASE pc = "free_libc"
      BY <2>1, <3>1, <3>4, <3>6 DEF ErrorInv, Libc, Before, After
    <3> QED BY <2>1, <3>5, <3>6
  <2>4. CASE file + 1 \notin Files
    <3>1. file' = 1 /\ pc' = IF pc = "free_libc" THEN "read" ELSE "done"
      BY <1>16, <2>4 DEF FreeTrace
    <3>2. file = Number /\ Files = 1 .. Number /\ 1 \in Files
      BY <2>4, FilesCounted DEF ErrorInv
    <3>3. pc = "free_libc" => ErrorsOf(0)'
      BY <2>1, NoErrorsYet DEF ErrorInv, Libc, ErrorsOf
    <3>4. pc = "free" => valid \subseteq Files /\ errors = Cardinality(Files \ valid)
      BY <3>2 DEF ErrorInv, After, ErrorsOf
    <3> QED BY <2>1, <2>2, <3>1, <3>2, <3>3, <3>4 DEF ErrorInv, Libc, Before, After
  <2> QED BY <2>3, <2>4
<1>17. CASE UNCHANGED vars
  BY <1>17, CountedStep DEF vars, Uncounted, results
<1> QED
  BY <1>1, <1>2, <1>3, <1>4, <1>5, <1>6, <1>7, <1>8, <1>9, <1>10, <1>11, <1>12, <1>13,
     <1>14, <1>15, <1>16, <1>17 DEF Next, UtilAlloc, UtilRealloc

LEMMA ErrorsAlways == Spec => []ErrorInv
<1>1. Init => ErrorInv
  <2> SUFFICES ASSUME Init PROVE ErrorInv
    OBVIOUS
  <2>1. 1 \in Files
    BY FilesCounted
  <2> QED BY <2>1 DEF Init, ErrorInv, Libc, Before, After
<1>2. ErrorInv /\ [Next]_vars => ErrorInv'
  BY ErrorsNext
<1> QED BY <1>1, <1>2, PTL DEF Spec

(* Whatever a package answers, main's count of errors, by which it gives   *)
(* a performance index, and the files that the table shows as valid agree: *)
(* each file that was run and is not valid counts once.                    *)
THEOREM ErrorsCounted == Spec => []OneErrorPerTrace
<1>1. ASSUME ErrorInv PROVE OneErrorPerTrace
  <2>1. file \in Nat \ {0} /\ errors \in Nat
    BY <1>1, FilesCounted DEF ErrorInv
  <2>2. ASSUME pc \notin {"exited", "read_libc", "libc_valid", "libc_speed", "free_libc"}
        PROVE  errors = Cardinality(Run \ valid)
    <3>1. CASE pc = "options"
      <4>1. ErrorsOf(0) /\ file - 1 = 0
        BY <1>1, <3>1, NoErrorsYet DEF ErrorInv, Libc
      <4> QED BY <3>1, <4>1 DEF Run, ErrorsOf
    <3>2. CASE pc \in Before
      BY <1>1, <3>2 DEF ErrorInv, ErrorsOf, Run, Before
    <3>3. CASE pc \in After
      BY <1>1, <3>3 DEF ErrorInv, ErrorsOf, Run, After
    <3>4. CASE pc = "done"
      <4>1. Run = Files
        BY <3>4, FilesCounted DEF Run
      <4> QED BY <1>1, <3>4, <4>1 DEF ErrorInv
    <3> QED BY <1>1, <2>2, <3>1, <3>2, <3>3, <3>4 DEF ErrorInv, Libc
  <2>3. ASSUME pc = "done"
        PROVE  /\ Graded <=> NumCorrect = Cardinality(Files)
               /\ Table.total <=> \A f \in Files : Table.rows[f]
    <3> DEFINE D == Files \ valid
    <3>1. valid \subseteq Files /\ errors = Cardinality(D)
      BY <1>1, <2>3 DEF ErrorInv
    <3>2. IsFiniteSet(D) /\ IsFiniteSet(valid)
      BY <3>1, FilesCounted, FS_Subset
    <3>3. errors = 0 <=> D = {}
      BY <3>1, <3>2, FS_EmptySet
    <3>4. NumCorrect = Cardinality(Files) <=> D = {}
      <4>1. D = {} => valid = Files
        BY <3>1
      <4>2. Cardinality(valid) = Cardinality(Files) => valid = Files
        BY <3>1, FilesCounted, FS_Subset
      <4> QED BY <4>1, <4>2 DEF NumCorrect
    <3>5. (\A f \in Files : Table.rows[f]) <=> D = {}
      BY DEF Table
    <3>6. Table.total <=> errors = 0
      BY DEF Table
    <3> QED BY <3>3, <3>4, <3>5, <3>6 DEF Graded
  <2> QED BY <2>2, <2>3 DEF OneErrorPerTrace
<1>2. ErrorInv => OneErrorPerTrace
  BY <1>1
<1> QED BY <1>2, ErrorsAlways, PTL

-----------------------------------------------------------------------------
(* What the traces must be for the package and the driver to mean the same *)
(* payload by an id, and what of a trace the payloads depend on.  An id is *)
(* held if it was asked for and not freed since.  It is named if it may be *)
(* freed or grow: nothing was asked for since it was freed.                *)
AskedAt(t, j, i) == t.lines[j].type # "f" /\ t.lines[j].index = i
FreedAt(t, j, i) == t.lines[j].type = "f" /\ t.lines[j].index = i
Held(t, i, k) ==
  \E j \in 1 .. k - 1 : AskedAt(t, j, i) /\ \A n \in j + 1 .. k - 1 : ~FreedAt(t, n, i)
Named(t, i, k) ==
  \E j \in 1 .. k - 1 :
    /\ AskedAt(t, j, i)
    /\ \A n \in j + 1 .. k - 1 :
         FreedAt(t, n, i) => \A l \in n + 1 .. k - 1 : t.lines[l].type = "f"
AllDisciplined == \A t \in Traces : WellFormed(t) => Disciplined(t)

LEMMA NothingNamed == \A t, i : ~Named(t, i, 1) /\ ~Held(t, i, 1)
BY DEF Named, Held

LEMMA HeldIsNamed ==
  ASSUME NEW t, NEW i, NEW k, Held(t, i, k) PROVE Named(t, i, k)
BY DEF Held, Named

(* A request for memory: whoever is named then is held, and was before.    *)
LEMMA AskNames ==
  ASSUME NEW t, NEW k, k \in Nat \ {0}, t.lines[k].type # "f"
  PROVE  /\ Held(t, t.lines[k].index, k + 1)
         /\ \A i : i # t.lines[k].index /\ Named(t, i, k + 1) =>
                     Held(t, i, k) /\ Held(t, i, k + 1)
<1>1. Held(t, t.lines[k].index, k + 1)
  BY DEF Held, AskedAt
<1>2. ASSUME NEW i, i # t.lines[k].index, Named(t, i, k + 1)
      PROVE  Held(t, i, k) /\ Held(t, i, k + 1)
  <2>1. PICK j \in 1 .. (k + 1) - 1 :
          /\ AskedAt(t, j, i)
          /\ \A n \in j + 1 .. (k + 1) - 1 :
               FreedAt(t, n, i) => \A l \in n + 1 .. (k + 1) - 1 : t.lines[l].type = "f"
    BY <1>2 DEF Named
  <2>2. j # k /\ j \in 1 .. k - 1
    BY <1>2, <2>1 DEF AskedAt
  <2>3. ~FreedAt(t, k, i)
    BY DEF FreedAt
  <2>4. ASSUME NEW n \in j + 1 .. k - 1 PROVE ~FreedAt(t, n, i)
    <3>1. n \in j + 1 .. (k + 1) - 1 /\ k \in n + 1 .. (k + 1) - 1
      BY <2>2
    <3> QED BY <2>1, <3>1
  <2>5. ASSUME NEW n \in j + 1 .. (k + 1) - 1 PROVE ~FreedAt(t, n, i)
    <3>1. n = k \/ n \in j + 1 .. k - 1
      BY <2>2
    <3> QED BY <2>3, <2>4, <3>1
  <2> QED BY <2>1, <2>2, <2>4, <2>5 DEF Held
<1> QED BY <1>1, <1>2

(* A request to free: the others are named and held as before.             *)
LEMMA FreeNames ==
  ASSUME NEW t, NEW k, k \in Nat \ {0}, t.lines[k].type = "f"
  PROVE  /\ ~Held(t, t.lines[k].index, k + 1)
         /\ \A i : i # t.lines[k].index =>
              /\ Named(t, i, k + 1) => Named(t, i, k)
              /\ Held(t, i, k + 1) <=> Held(t, i, k)
<1>1. ~Held(t, t.lines[k].index, k + 1)
  <2> SUFFICES ASSUME Held(t, t.lines[k].index, k + 1) PROVE FALSE
    OBVIOUS
  <2>1. PICK j \in 1 .. (k + 1) - 1 :
          /\ AskedAt(t, j, t.lines[k].index)
          /\ \A n \in j + 1 .. (k + 1) - 1 : ~FreedAt(t, n, t.lines[k].index)
    BY DEF Held
  <2>2. j # k
    BY <2>1 DEF AskedAt
  <2>3. k \in j + 1 .. (k + 1) - 1
    BY <2>2
  <2> QED BY <2>1, <2>3 DEF FreedAt
<1>2. ASSUME NEW i, i # t.lines[k].index, Named(t, i, k + 1) PROVE Named(t, i, k)
  <2>1. PICK j \in 1 .. (k + 1) - 1 :
          /\ AskedAt(t, j, i)
          /\ \A n \in j + 1 .. (k + 1) - 1 :
               FreedAt(t, n, i) => \A l \in n + 1 .. (k + 1) - 1 : t.lines[l].type = "f"
    BY <1>2 DEF Named
  <2>2. j \in 1 .. k - 1
    BY <1>2, <2>1 DEF AskedAt
  <2>3. ASSUME NEW n \in j + 1 .. k - 1, FreedAt(t, n, i), NEW l \in n + 1 .. k - 1
        PROVE  t.lines[l].type = "f"
    <3>1. n \in j + 1 .. (k + 1) - 1 /\ l \in n + 1 .. (k + 1) - 1
      BY <2>2
    <3> QED BY <2>1, <2>3, <3>1
  <2> QED BY <2>1, <2>2, <2>3 DEF Named
<1>3. ASSUME NEW i, i # t.lines[k].index, Held(t, i, k + 1) PROVE Held(t, i, k)
  <2>1. PICK j \in 1 .. (k + 1) - 1 :
          AskedAt(t, j, i) /\ \A n \in j + 1 .. (k + 1) - 1 : ~FreedAt(t, n, i)
    BY <1>3 DEF Held
  <2>2. j \in 1 .. k - 1
    BY <1>3, <2>1 DEF AskedAt
  <2>3. \A n \in j + 1 .. k - 1 : ~FreedAt(t, n, i)
    BY <2>1, <2>2
  <2> QED BY <2>1, <2>2, <2>3 DEF Held
<1>4. ASSUME NEW i, i # t.lines[k].index, Held(t, i, k) PROVE Held(t, i, k + 1)
  <2>1. PICK j \in 1 .. k - 1 :
          AskedAt(t, j, i) /\ \A n \in j + 1 .. k - 1 : ~FreedAt(t, n, i)
    BY <1>4 DEF Held
  <2>2. ASSUME NEW n \in j + 1 .. (k + 1) - 1 PROVE ~FreedAt(t, n, i)
    <3>1. n = k \/ n \in j + 1 .. k - 1
      BY <2>1
    <3>2. ~FreedAt(t, k, i)
      BY <1>4 DEF FreedAt
    <3> QED BY <2>1, <3>1, <3>2
  <2>3. j \in 1 .. (k + 1) - 1
    BY <2>1
  <2> QED BY <2>1, <2>2, <2>3 DEF Held
<1> QED BY <1>1, <1>2, <1>3, <1>4

(* What a disciplined trace names when it frees or lets grow.              *)
LEMMA RequestNamed ==
  ASSUME AllDisciplined, trace \in Traces, WellFormed(trace), op \in Nat \ {0}, More
  PROVE  /\ Request.index \in Ids(trace)
         /\ Request.type # "a" => Named(trace, Request.index, op)
<1>1. op \in 1 .. Len(trace.lines)
  BY DEF More, WellFormed
<1>2. Disciplined(trace)
  BY DEF AllDisciplined
<1> QED BY <1>1, <1>2 DEF Disciplined, Named, AskedAt, FreedAt, Request

-----------------------------------------------------------------------------
(* A package that keeps the rules.  Its payloads are in the heap and       *)
(* apart.  A named id has its payload to itself: if it is held, the        *)
(* package knows that payload, if it was freed, nothing was put there.     *)
Mine(i) == Payload(blocks[i], block_sizes[i])
Known ==
  /\ trace \in Traces /\ WellFormed(trace)
  /\ blocks \in [Ids(trace) -> Int] /\ block_sizes \in [Ids(trace) -> Int]
LiveIn(x) == /\ x.lo \in Int /\ x.hi \in Int /\ x.lo % ALIGNMENT = 0
             /\ Low <= x.lo /\ x.lo <= x.hi /\ x.hi < brk
Own(i) ==
  /\ Low <= blocks[i] /\ 1 <= block_sizes[i] /\ blocks[i] + block_sizes[i] <= brk
  /\ Held(trace, i, op) => Mine(i) \in live
  /\ \A x \in live : Overlap(Mine(i), x) => x = Mine(i) /\ Held(trace, i, op)
LiveInv ==
  /\ \A x \in live : LiveIn(x)
  /\ \A x, y \in live : Overlap(x, y) => x = y
OwnInv ==
  /\ \A i \in Ids(trace) : Named(trace, i, op) => Own(i)
  /\ \A i, k \in Ids(trace) :
       Held(trace, i, op) /\ Held(trace, k, op) /\ blocks[i] = blocks[k] => i = k
Whole == TraceInv /\ Known /\ LiveInv /\ OwnInv

(* The driver's list is the package's, and each payload holds its id.      *)
HoldsByte(i) == \A a \in Mine(i).lo .. Mine(i).hi : data[a] = LowByte(i)
DataInv ==
  /\ ranges = live /\ DOMAIN data = Low .. Top - 1
  /\ \A i \in Ids(trace) : Named(trace, i, op) => HoldsByte(i)

(* The bytes counted as used are in payloads of the package.               *)
Bytes(s) == {a \in Low .. Top - 1 : \E x \in s : x.lo <= a /\ a <= x.hi}
UsedInv ==
  /\ total_size \in Int /\ max_total_size \in Int
  /\ total_size <= Cardinality(Bytes(live)) /\ max_total_size <= brk - Low

RightInv ==
  allocator = "right" =>
    /\ \A r \in report : Excused(r)
    /\ \A f \in DOMAIN util : util[f].used <= util[f].heap
    /\ pc \in {"mm_init", "valid", "util_init", "util"} => Known
    /\ pc = "mm_init" => op = 1
    /\ pc \in {"valid", "util"} => Whole
    /\ pc = "valid" => DataInv
    /\ pc = "util" => UsedInv


LEMMA MineFields ==
  ASSUME Known, NEW i \in Ids(trace)
  PROVE  /\ blocks[i] \in Int /\ block_sizes[i] \in Int
         /\ Mine(i).lo = blocks[i] /\ Mine(i).hi = blocks[i] + block_sizes[i] - 1
BY DEF Known, Mine, Payload

(* Who gives back or moves his payload takes nobody else's.                *)
LEMMA OthersStay ==
  ASSUME Whole, NEW i \in Ids(trace), Held(trace, i, op), NEW old,
         \/ old = NULL
         \/ \E k \in Ids(trace) : k # i /\ old = blocks[k] /\ Named(trace, k, op)
  PROVE  Mine(i) \in Holds(old)
<1>1. Mine(i) \in live /\ Low <= blocks[i] /\ 1 <= block_sizes[i]
  BY HeldIsNamed DEF Whole, OwnInv, Own
<1>2. /\ blocks[i] \in Int /\ block_sizes[i] \in Int
      /\ Mine(i).lo = blocks[i] /\ Mine(i).hi = blocks[i] + block_sizes[i] - 1
  BY MineFields DEF Whole
<1>3. CASE old = NULL
  BY <1>1, <1>2, <1>3, Numbers DEF Holds, NULL
<1>4. ASSUME NEW k \in Ids(trace), k # i, old = blocks[k], Named(trace, k, op)
      PROVE  Mine(i) \in Holds(old)
  <2>1. SUFFICES ASSUME blocks[i] = blocks[k] PROVE FALSE
    BY <1>1, <1>2, <1>4 DEF Holds
  <2>2. /\ blocks[k] \in Int /\ block_sizes[k] \in Int
        /\ Mine(k).lo = blocks[k] /\ Mine(k).hi = blocks[k] + block_sizes[k] - 1
    BY MineFields DEF Whole
  <2>3. 1 <= block_sizes[k] /\ \A x \in live : Overlap(Mine(k), x) => Held(trace, k, op)
    BY <1>4 DEF Whole, OwnInv, Own
  <2>4. Overlap(Mine(k), Mine(i))
    BY <1>1, <1>2, <2>1, <2>2, <2>3 DEF Overlap
  <2>5. Held(trace, k, op)
    BY <1>1, <2>3, <2>4
  <2> QED BY <1>4, <2>1, <2>5 DEF Whole, OwnInv
<1> QED BY <1>3, <1>4

(* The package places a payload for an id, in place of the one at old.     *)
Places(p, size, old) ==
  /\ p \in Low .. Top - size /\ p % ALIGNMENT = 0
  /\ \A x \in Holds(old) : ~Overlap(Payload(p, size), x)
  /\ live' = Holds(old) \cup {Payload(p, size)}
  /\ brk' = IF p + size <= brk THEN brk ELSE p + size
  /\ trace' = trace /\ op' = op + 1
  /\ blocks' = [blocks EXCEPT ![Request.index] = p]
  /\ block_sizes' = [block_sizes EXCEPT ![Request.index] = size]
OldNamed(old) ==
  \/ old = NULL
  \/ old = blocks[Request.index] /\ Named(trace, Request.index, op)

LEMMA PlaceStep ==
  ASSUME Whole, NEW i0 \in Ids(trace), i0 = Request.index, Request.type # "f",
         NEW p, NEW size, size \in Nat \ {0}, NEW old, OldNamed(old), Places(p, size, old)
  PROVE  Known' /\ LiveInv' /\ OwnInv'
<1> DEFINE z == Payload(p, size)
<1>1. p \in Int /\ z.lo = p /\ z.hi = p + size - 1 /\ Low <= p /\ p + size <= Top
  BY Numbers DEF Places, Payload
<1>2. brk \in Int /\ brk' \in Int /\ brk <= brk' /\ p + size <= brk'
  BY <1>1, Numbers DEF Places, Whole, TraceInv
<1>3. Known'
  BY <1>1 DEF Places, Whole, Known
<1>4. \A x \in Holds(old) : LiveIn(x) /\ x \in live
  BY DEF Holds, Whole, LiveInv
<1>5. ASSUME NEW x \in Holds(old) PROVE ~Overlap(z, x) /\ ~Overlap(x, z)
  <2>1. ~Overlap(z, x)
    BY DEF Places
  <2> QED BY <2>1 DEF Overlap
<1>6. LiveInv'
  <2>1. ASSUME NEW x \in live' PROVE LiveIn(x)'
    <3>1. CASE x = z
      BY <1>1, <1>2, <3>1 DEF LiveIn, Places
    <3>2. CASE x \in Holds(old)
      BY <1>2, <1>4, <3>2 DEF LiveIn
    <3> QED BY <3>1, <3>2 DEF Places
  <2>2. ASSUME NEW x \in live', NEW y \in live', Overlap(x, y) PROVE x = y
    <3>1. x \in Holds(old) \cup {z} /\ y \in Holds(old) \cup {z}
      BY DEF Places
    <3>2. CASE x \in Holds(old) /\ y \in Holds(old)
      BY <1>4, <2>2, <3>2 DEF Whole, LiveInv
    <3> QED BY <1>5, <2>2, <3>1, <3>2
  <2> QED BY <2>1, <2>2 DEF LiveInv
<1>7. /\ op \in Nat \ {0} /\ trace.lines[op].type # "f" /\ i0 = trace.lines[op].index
      /\ trace' = trace /\ op' = op + 1
  BY DEF Request, Places, Whole, TraceInv
<1>8. /\ Held(trace, i0, op + 1)
      /\ \A i : i # i0 /\ Named(trace, i, op + 1) => Held(trace, i, op) /\ Held(trace, i, op + 1)
  BY <1>7, AskNames
<1>9. blocks'[i0] = p /\ block_sizes'[i0] = size /\ Mine(i0)' = z
  BY DEF Places, Whole, Known, Mine
<1>10. ASSUME NEW i \in Ids(trace), i # i0
       PROVE  blocks'[i] = blocks[i] /\ block_sizes'[i] = block_sizes[i] /\ Mine(i)' = Mine(i)
  BY <1>10 DEF Places, Whole, Known, Mine
<1>11. ASSUME NEW i \in Ids(trace), i # i0, Held(trace, i, op) PROVE Mine(i) \in Holds(old)
  BY <1>11, OthersStay DEF OldNamed
<1> HIDE DEF z
<1>12. Own(i0)'
  <2>1. ASSUME NEW x \in live', Overlap(z, x) PROVE x = z
    BY <1>5, <2>1 DEF Places, z
  <2>2. z \in live' /\ Held(trace, i0, op)'
    BY <1>7, <1>8 DEF Places, z
  <2> QED BY <1>1, <1>2, <1>9, <2>1, <2>2 DEF Own
<1>13. ASSUME NEW i \in Ids(trace), i # i0, Named(trace, i, op + 1) PROVE Own(i)'
  <2>1. Held(trace, i, op) /\ Held(trace, i, op)' /\ Mine(i) \in Holds(old)
    BY <1>7, <1>8, <1>11, <1>13
  <2>2. Own(i)
    BY <2>1, HeldIsNamed DEF Whole, OwnInv
  <2>3. ASSUME NEW x \in live', Overlap(Mine(i), x) PROVE x = Mine(i)
    <3>1. x \in Holds(old) \cup {z}
      BY DEF Places, z
    <3>2. x # z
      BY <1>5, <2>1, <2>3
    <3>3. x \in live
      BY <1>4, <3>1, <3>2
    <3> QED BY <2>2, <2>3, <3>3 DEF Own
  <2>4. Mine(i) \in live'
    BY <2>1 DEF Places
  <2>5. Low <= blocks[i] /\ 1 <= block_sizes[i] /\ blocks[i] + block_sizes[i] <= brk'
    <3>1. blocks[i] \in Int /\ block_sizes[i] \in Int
      BY MineFields DEF Whole
    <3> QED BY <1>2, <2>2, <3>1 DEF Own
  <2> QED BY <1>10, <1>13, <2>1, <2>3, <2>4, <2>5 DEF Own
<1>14. ASSUME NEW i \in Ids(trace), NEW k \in Ids(trace), i # i0,
              Held(trace, i, op + 1), Held(trace, k, op + 1), blocks'[i] = blocks'[k]
       PROVE  i = k
  <2>1. Held(trace, i, op)
    BY <1>8, <1>14, HeldIsNamed
  <2>2. CASE k = i0
    <3>1. Mine(i) \in Holds(old) /\ Mine(i).lo = p
      BY <1>9, <1>10, <1>11, <1>14, <2>1, <2>2, MineFields DEF Whole
    <3>2. Mine(i).lo <= Mine(i).hi /\ Mine(i).hi \in Int
      BY <1>4, <3>1 DEF LiveIn
    <3>3. Overlap(z, Mine(i))
      BY <1>1, <3>1, <3>2 DEF Overlap
    <3> QED BY <1>5, <3>1, <3>3
  <2>3. CASE k # i0
    <3>1. Held(trace, k, op)
      BY <1>8, <1>14, <2>3, HeldIsNamed
    <3> QED BY <1>10, <1>14, <2>1, <2>3, <3>1 DEF Whole, OwnInv
  <2> QED BY <2>2, <2>3
<1>15. OwnInv'
  <2>1. Ids(trace)' = Ids(trace)
    BY <1>7 DEF Ids
  <2>2. ASSUME NEW i \in Ids(trace)', Named(trace, i, op)' PROVE Own(i)'
    BY <1>7, <1>12, <1>13, <2>1, <2>2
  <2>3. ASSUME NEW i \in Ids(trace)', NEW k \in Ids(trace)',
               Held(trace, i, op)', Held(trace, k, op)', blocks'[i] = blocks'[k]
        PROVE  i = k
    <3>1. /\ i \in Ids(trace) /\ k \in Ids(trace)
          /\ Held(trace, i, op + 1) /\ Held(trace, k, op + 1)
      BY <1>7, <2>1, <2>3
    <3>2. i # i0 => i = k
      BY <1>14, <2>3, <3>1
    <3>3. k # i0 => k = i
      BY <1>14, <2>3, <3>1
    <3> QED BY <3>2, <3>3
  <2> QED BY <2>2, <2>3 DEF OwnInv
<1> QED BY <1>3, <1>6, <1>15

(* The package frees the payload at the address of a named id.             *)
LEMMA FreeStep ==
  ASSUME Whole, NEW i0 \in Ids(trace), i0 = Request.index, Request.type = "f",
         Named(trace, i0, op),
         live' = Holds(blocks[i0]), brk' = brk, trace' = trace, op' = op + 1,
         blocks' = blocks, block_sizes' = block_sizes
  PROVE  Known' /\ LiveInv' /\ OwnInv'
<1>1. Known'
  BY DEF Whole, Known
<1>2. live' \subseteq live
  BY DEF Holds
<1>3. LiveInv'
  BY <1>2 DEF Whole, LiveInv, LiveIn
<1>4. /\ op \in Nat \ {0} /\ trace.lines[op].type = "f" /\ i0 = trace.lines[op].index
  BY DEF Request, Whole, TraceInv
<1>5. /\ ~Held(trace, i0, op + 1)
      /\ \A i : i # i0 =>
           /\ Named(trace, i, op + 1) => Named(trace, i, op)
           /\ Held(trace, i, op + 1) <=> Held(trace, i, op)
  BY <1>4, FreeNames
<1>6. ASSUME NEW i \in Ids(trace), i # i0, Held(trace, i, op) PROVE Mine(i) \in live'
  BY <1>6, OthersStay
<1>7. \A i : Mine(i)' = Mine(i)
  BY DEF Mine
<1>8. Own(i0)'
  <2>1. Own(i0)
    BY DEF Whole, OwnInv
  <2>2. ASSUME NEW x \in live' PROVE ~Overlap(Mine(i0), x)
    <3>1. SUFFICES ASSUME Overlap(Mine(i0), x) PROVE FALSE
      OBVIOUS
    <3>2. x = Mine(i0)
      BY <1>2, <2>1, <3>1 DEF Own
    <3>3. Mine(i0).lo = blocks[i0]
      BY MineFields DEF Whole
    <3> QED BY <3>2, <3>3 DEF Holds
  <2>3. ~Held(trace, i0, op)'
    BY <1>5
  <2>4. Low <= blocks'[i0] /\ 1 <= block_sizes'[i0] /\ blocks'[i0] + block_sizes'[i0] <= brk'
    BY <2>1 DEF Own
  <2> QED BY <1>7, <2>2, <2>3, <2>4 DEF Own
<1>9. ASSUME NEW i \in Ids(trace), i # i0, Named(trace, i, op + 1) PROVE Own(i)'
  <2>1. Own(i) /\ (Held(trace, i, op)' <=> Held(trace, i, op))
    BY <1>5, <1>9 DEF Whole, OwnInv
  <2>2. Held(trace, i, op)' => Mine(i) \in live'
    BY <1>6, <1>9, <2>1
  <2> QED BY <1>2, <1>7, <2>1, <2>2 DEF Own
<1>10. OwnInv'
  <2>1. Ids(trace)' = Ids(trace)
    BY DEF Ids
  <2>2. ASSUME NEW i \in Ids(trace)', Named(trace, i, op)' PROVE Own(i)'
    BY <1>8, <1>9, <2>1, <2>2
  <2>3. ASSUME NEW i \in Ids(trace)', NEW k \in Ids(trace)',
               Held(trace, i, op)', Held(trace, k, op)', blocks'[i] = blocks'[k]
        PROVE  i = k
    <3>1. i # i0 /\ k # i0 /\ i \in Ids(trace) /\ k \in Ids(trace)
      BY <1>5, <2>1, <2>3
    <3>2. Held(trace, i, op) /\ Held(trace, k, op)
      BY <1>5, <2>3, <3>1
    <3> QED BY <2>3, <3>1, <3>2 DEF Whole, OwnInv
  <2> QED BY <2>2, <2>3 DEF OwnInv
<1> QED BY <1>1, <1>3, <1>10


-----------------------------------------------------------------------------
(* add_range finds nothing wrong with a payload that keeps the rules.      *)
LEMMA PassesAddRange ==
  ASSUME NEW rs, NEW p \in Int, NEW size \in Nat \ {0}, p % ALIGNMENT = 0, Low <= p,
         brk' \in Int, p + size <= brk',
         \A y \in rs : /\ y.lo \in Int /\ y.hi \in Int /\ y.lo <= y.hi
                       /\ ~Overlap(Payload(p, size), y)
  PROVE  AddRange(rs, p, size) = "ok"
<1> DEFINE x == Payload(p, size)
<1>1. x.lo = p /\ x.hi = p + size - 1 /\ Low \in Int
  BY Numbers DEF Payload
<1>2. ~ \E a \in {x.lo, x.hi} : a < Low \/ a >= brk'
  BY <1>1
<1>3. ASSUME NEW y \in rs, NEW a \in {x.lo, x.hi} PROVE ~(a >= y.lo /\ a <= y.hi)
  BY <1>1 DEF Overlap
<1> QED BY <1>2, <1>3 DEF AddRange

LEMMA AnswersRight ==
  ASSUME allocator = "right", NEW size \in Nat \ {0}, NEW kept, NEW p \in Answers(size, kept),
         p # NULL, Grows(p, size)
  PROVE  /\ p \in Low .. Top - size /\ p % ALIGNMENT = 0
         /\ \A x \in kept : ~Overlap(Payload(p, size), x)
         /\ brk' = IF p + size <= brk THEN brk ELSE p + size
BY DEF Answers, Grows

(* What is written for an id leaves the bytes of the others.               *)
LEMMA DataPlaced ==
  ASSUME Whole, DataInv, NEW i0 \in Ids(trace), i0 = Request.index, Request.type # "f",
         NEW p, NEW size, size \in Nat \ {0}, NEW old, OldNamed(old), Places(p, size, old),
         ranges' = live', DOMAIN data' = Low .. Top - 1,
         \A a \in Low .. Top - 1 : data'[a] = IF a \in p .. p + size - 1 THEN LowByte(i0) ELSE data[a]
  PROVE  DataInv'
<1>1. p \in Int /\ Low <= p /\ p + size <= Top
  BY Numbers DEF Places
<1>2. /\ op \in Nat \ {0} /\ trace.lines[op].type # "f" /\ i0 = trace.lines[op].index
      /\ trace' = trace /\ op' = op + 1
  BY DEF Request, Places, Whole, TraceInv
<1>3. \A i : i # i0 /\ Named(trace, i, op + 1) => Held(trace, i, op)
  BY <1>2, AskNames
<1>4. Mine(i0)' = Payload(p, size)
  BY DEF Places, Whole, Known, Mine
<1>5. HoldsByte(i0)'
  <2>1. \A a \in p .. p + size - 1 : data'[a] = LowByte(i0)
    BY <1>1, Numbers
  <2>2. Mine(i0)'.lo = p /\ Mine(i0)'.hi = p + size - 1
    BY <1>4 DEF Payload
  <2> QED BY <2>1, <2>2 DEF HoldsByte
<1>6. ASSUME NEW i \in Ids(trace), i # i0, Named(trace, i, op + 1) PROVE HoldsByte(i)'
  <2>1. Held(trace, i, op) /\ Named(trace, i, op)
    BY <1>3, <1>6, HeldIsNamed
  <2>2. Mine(i) \in Holds(old)
    BY <1>6, <2>1, OthersStay DEF OldNamed
  <2>3. LiveIn(Mine(i)) /\ ~Overlap(Payload(p, size), Mine(i))
    BY <2>2 DEF Holds, Whole, LiveInv, Places
  <2>4. Mine(i)' = Mine(i)
    BY <1>6 DEF Places, Whole, Known, Mine
  <2>5. HoldsByte(i)
    BY <2>1 DEF DataInv
  <2>6. ASSUME NEW a \in Mine(i).lo .. Mine(i).hi PROVE data'[a] = LowByte(i)
    <3>1. a \in Low .. Top - 1
      BY <2>3, Numbers DEF LiveIn, Whole, TraceInv
    <3>2. a \notin p .. p + size - 1
      BY <1>1, <2>3 DEF LiveIn, Overlap, Payload
    <3>3. data[a] = LowByte(i)
      BY <2>5 DEF HoldsByte
    <3> QED BY <3>1, <3>2, <3>3
  <2> QED BY <2>4, <2>6 DEF HoldsByte
<1>7. Ids(trace)' = Ids(trace)
  BY <1>2 DEF Ids
<1>8. ASSUME NEW i \in Ids(trace)', Named(trace, i, op)' PROVE HoldsByte(i)'
  BY <1>2, <1>5, <1>6, <1>7, <1>8
<1> QED BY <1>8 DEF DataInv

-----------------------------------------------------------------------------
(* Bytes of payloads: they fit in the heap, a new payload adds its own,    *)
(* and one that goes takes no more than its own.                           *)
LEMMA BytesFit ==
  ASSUME NEW s, NEW b \in Low .. Top, \A x \in s : x.lo \in Int /\ x.hi \in Int /\ x.hi < b
  PROVE  /\ IsFiniteSet(Bytes(s)) /\ Cardinality(Bytes(s)) \in Nat
         /\ Cardinality(Bytes(s)) <= b - Low
<1>1. Bytes(s) \subseteq Low .. b - 1
  BY Numbers DEF Bytes
<1>2. IsFiniteSet(Low .. b - 1) /\ Cardinality(Low .. b - 1) = b - Low
  <2>1. /\ IsFiniteSet(Low .. b - 1)
        /\ Cardinality(Low .. b - 1) = IF Low > b - 1 THEN 0 ELSE (b - 1) - Low + 1
    BY Numbers, FS_Interval
  <2> QED BY <2>1, Numbers
<1>3. IsFiniteSet(Bytes(s)) /\ Cardinality(Bytes(s)) <= Cardinality(Low .. b - 1)
  BY <1>1, <1>2, FS_Subset
<1> QED BY <1>2, <1>3, FS_CardinalityType

LEMMA BytesFinite == \A s : IsFiniteSet(Bytes(s)) /\ Cardinality(Bytes(s)) \in Nat
<1>1. IsFiniteSet(Low .. Top - 1)
  BY Numbers, FS_Interval
<1> QED BY <1>1, FS_Subset, FS_CardinalityType DEF Bytes

LEMMA BytesPlaced ==
  ASSUME NEW s, NEW p \in Int, NEW size \in Nat \ {0}, Low <= p, p + size <= Top,
         \A x \in s : x.lo \in Int /\ x.hi \in Int /\ ~Overlap(Payload(p, size), x)
  PROVE  Cardinality(Bytes(s \cup {Payload(p, size)})) = Cardinality(Bytes(s)) + size
<1> DEFINE z == Payload(p, size)
           new == p .. p + size - 1
<1>1. Bytes(s \cup {z}) = Bytes(s) \cup new
  BY Numbers DEF Bytes, Payload
<1>2. Bytes(s) \cap new = {}
  BY DEF Bytes, Payload, Overlap
<1>3. IsFiniteSet(new) /\ Cardinality(new) = size
  <2>1. IsFiniteSet(new) /\ Cardinality(new) = IF p > p + size - 1 THEN 0 ELSE (p + size - 1) - p + 1
    <3>1. p + size - 1 \in Int
      OBVIOUS
    <3> QED BY <3>1, FS_Interval, Zenon
  <2> QED BY <2>1
<1>4. IsFiniteSet(Bytes(s)) /\ Cardinality(Bytes(s)) \in Nat
  BY BytesFinite
<1> HIDE DEF z, new
<1>5. Cardinality(Bytes(s) \cup new) =
        Cardinality(Bytes(s)) + Cardinality(new) - Cardinality(Bytes(s) \cap new)
  BY <1>3, <1>4, FS_Union
<1>6. Cardinality(Bytes(s) \cap new) = 0
  BY <1>2, FS_EmptySet
<1>7. Cardinality(Bytes(s \cup {z})) = Cardinality(Bytes(s)) + size
  <2>1. Cardinality(Bytes(s) \cup new) = Cardinality(Bytes(s)) + size
    BY <1>3, <1>4, <1>5, <1>6
  <2>2. Cardinality(Bytes(s \cup {z})) = Cardinality(Bytes(s) \cup new)
    BY <1>1
  <2> QED BY <2>1, <2>2
<1> QED BY <1>7 DEF z

Gone(old, n) ==
  \/ old = NULL /\ n = 0
  \/ \E i \in Ids(trace) : old = blocks[i] /\ n = block_sizes[i] /\ Named(trace, i, op)

LEMMA BytesGone ==
  ASSUME Whole, NEW old, NEW n, Gone(old, n)
  PROVE  n \in Nat /\ Cardinality(Bytes(live)) <= Cardinality(Bytes(Holds(old))) + n
<1>1. CASE old = NULL /\ n = 0
  <2>1. Holds(old) = live
    BY <1>1, Numbers DEF Holds, NULL, Whole, LiveInv, LiveIn
  <2> QED BY <1>1, <2>1, BytesFinite
<1>2. ASSUME NEW i \in Ids(trace), old = blocks[i], n = block_sizes[i], Named(trace, i, op)
      PROVE  n \in Nat /\ Cardinality(Bytes(live)) <= Cardinality(Bytes(Holds(old))) + n
  <2> DEFINE gone == old .. old + n - 1
             rest == Holds(old)
  <2>1. old \in Int /\ n \in Nat \ {0} /\ Mine(i).lo = old /\ Mine(i).hi = old + n - 1
    BY <1>2, MineFields DEF Whole, OwnInv, Own
  <2>2. \A x \in live : x \in rest \/ x = Mine(i)
    <3>1. ASSUME NEW x \in live, x \notin rest PROVE x = Mine(i)
      <4>1. x.lo = old /\ x.hi \in Int /\ x.lo <= x.hi
        BY <3>1 DEF Holds, Whole, LiveInv, LiveIn
      <4>2. Overlap(Mine(i), x)
        BY <2>1, <4>1 DEF Overlap
      <4> QED BY <1>2, <4>2 DEF Whole, OwnInv, Own
    <3> QED BY <3>1
  <2>3. Bytes(live) \subseteq Bytes(rest) \cup gone
    BY <2>1, <2>2, Numbers DEF Bytes
  <2>4. IsFiniteSet(gone) /\ Cardinality(gone) = n
    <3>1. IsFiniteSet(gone) /\ Cardinality(gone) = IF old > old + n - 1 THEN 0 ELSE (old + n - 1) - old + 1
      BY <2>1, FS_Interval
    <3> QED BY <2>1, <3>1
  <2>5. /\ IsFiniteSet(Bytes(rest)) /\ Cardinality(Bytes(rest)) \in Nat
        /\ Cardinality(Bytes(live)) \in Nat
    BY BytesFinite
  <2> HIDE DEF gone, rest
  <2>6. /\ IsFiniteSet(Bytes(rest) \cup gone)
        /\ Cardinality(Bytes(rest) \cup gone) =
             Cardinality(Bytes(rest)) + Cardinality(gone) - Cardinality(Bytes(rest) \cap gone)
    BY <2>4, <2>5, FS_Union
  <2>7. Cardinality(Bytes(rest) \cap gone) \in Nat
    <3>1. IsFiniteSet(Bytes(rest) \cap gone)
      BY <2>4, FS_Subset
    <3> QED BY <3>1, FS_CardinalityType
  <2>8. Cardinality(Bytes(live)) <= Cardinality(Bytes(rest) \cup gone)
    BY <2>3, <2>6, FS_Subset
  <2>9. Cardinality(Bytes(live)) <= Cardinality(Bytes(rest)) + n
    <3>1. Cardinality(Bytes(rest) \cup gone) \in Nat
      BY <2>6, FS_CardinalityType
    <3> QED BY <2>1, <2>4, <2>5, <2>6, <2>7, <2>8, <3>1
  <2> QED BY <2>1, <2>9 DEF rest
<1> QED BY <1>1, <1>2 DEF Gone

(* The totals keep up with the bytes.                                      *)
LEMMA UsedPlaced ==
  ASSUME Whole, UsedInv, LiveInv', brk' \in Low .. Top,
         NEW p, NEW size, size \in Nat \ {0}, NEW old, NEW n, Gone(old, n), Places(p, size, old),
         Count(size - n)
  PROVE  UsedInv'
<1>1. n \in Nat /\ Cardinality(Bytes(live)) <= Cardinality(Bytes(Holds(old))) + n
  BY BytesGone
<1>2. Cardinality(Bytes(live')) = Cardinality(Bytes(Holds(old))) + size
  <2>1. p \in Int /\ Low <= p /\ p + size <= Top
    BY Numbers DEF Places
  <2>2. \A x \in Holds(old) : x.lo \in Int /\ x.hi \in Int /\ ~Overlap(Payload(p, size), x)
    BY DEF Holds, Places, Whole, LiveInv, LiveIn
  <2>3. Cardinality(Bytes(Holds(old) \cup {Payload(p, size)})) = Cardinality(Bytes(Holds(old))) + size
    BY <2>1, <2>2, BytesPlaced
  <2> QED BY <2>3 DEF Places
<1>3. \A x \in live' : x.lo \in Int /\ x.hi \in Int /\ x.hi < brk'
  BY DEF LiveInv, LiveIn
<1>4. Cardinality(Bytes(live')) <= brk' - Low
  BY <1>3, BytesFit
<1>5. /\ Cardinality(Bytes(live)) \in Nat /\ Cardinality(Bytes(Holds(old))) \in Nat
      /\ Cardinality(Bytes(live')) \in Nat
  BY BytesFinite
<1>6. brk \in Int /\ brk' \in Int /\ brk <= brk' /\ Low \in Int
  BY Numbers DEF Places, Whole, TraceInv
<1>7. /\ total_size' = total_size + (size - n)
      /\ max_total_size' = IF total_size' > max_total_size THEN total_size' ELSE max_total_size
      /\ total_size \in Int /\ max_total_size \in Int
      /\ total_size <= Cardinality(Bytes(live)) /\ max_total_size <= brk - Low
  BY DEF Count, UsedInv
<1>8. total_size' \in Int /\ total_size' <= Cardinality(Bytes(live'))
  BY <1>1, <1>2, <1>5, <1>7
<1>9. max_total_size' \in Int /\ max_total_size' <= brk' - Low
  BY <1>4, <1>5, <1>6, <1>7, <1>8
<1>10. Bytes(live)' = Bytes(live')
  BY DEF Bytes
<1> QED BY <1>8, <1>9, <1>10 DEF UsedInv

LEMMA UsedFreed ==
  ASSUME Whole, UsedInv, NEW old, NEW n, Gone(old, n), live' = Holds(old), brk' = brk, Count(-n)
  PROVE  UsedInv'
<1>1. n \in Nat /\ Cardinality(Bytes(live)) <= Cardinality(Bytes(Holds(old))) + n
  BY BytesGone
<1>2. \A x \in live : x.lo \in Int /\ x.hi \in Int /\ x.hi < brk
  BY DEF Whole, LiveInv, LiveIn
<1>3. Cardinality(Bytes(live)) <= brk - Low
  BY <1>2, BytesFit DEF Whole, TraceInv
<1>4. Cardinality(Bytes(live)) \in Nat /\ Cardinality(Bytes(Holds(old))) \in Nat
  BY BytesFinite
<1>5. brk \in Int /\ Low \in Int
  BY Numbers DEF Whole, TraceInv
<1>6. /\ total_size' = total_size + (-n)
      /\ max_total_size' = IF total_size' > max_total_size THEN total_size' ELSE max_total_size
      /\ total_size \in Int /\ max_total_size \in Int
      /\ total_size <= Cardinality(Bytes(live)) /\ max_total_size <= brk - Low
  BY DEF Count, UsedInv
<1>7. total_size' \in Int /\ total_size' <= Cardinality(Bytes(Holds(old)))
  BY <1>1, <1>4, <1>6
<1>8. max_total_size' \in Int /\ max_total_size' <= brk - Low
  BY <1>1, <1>3, <1>4, <1>5, <1>6
<1>9. Bytes(live)' = Bytes(Holds(old))
  BY DEF Bytes
<1> QED BY <1>7, <1>8, <1>9 DEF UsedInv


-----------------------------------------------------------------------------
(* The steps under a package that keeps the rules.                         *)
Quiet == {"mm_init", "valid", "util_init", "util"}
Sound ==
  /\ \A r \in report : Excused(r)
  /\ \A f \in DOMAIN util : util[f].used <= util[f].heap

LEMMA Leaves ==
  ASSUME Sound', pc' \notin Quiet PROVE RightInv'
BY DEF RightInv, Sound, Quiet

LEMMA RefusedIsExcused == \A k \in {"failed", "libc"} : Excused(Error(k))
BY DEF Excused, Error

(* A byte is read back as what was written, unless it is negative as a     *)
(* char; then it is never equal to it.                                     *)
LEMMA CharReads ==
  ASSUME NEW i \in Nat PROVE Char(LowByte(i)) = LowByte(i) <=> ~Misread(i)
<1> DEFINE b == LowByte(i)
<1>1. b \in Int /\ 0 <= b /\ b <= UCHAR_MAX /\ UCHAR_MAX \in Nat
  BY ByteAssumption DEF LowByte
<1> HIDE DEF b
<1> QED BY <1>1 DEF Misread, Char, b

LEMMA ReadStep ==
  ASSUME RightInv, allocator = "right", NEW t \in Traces, ReadTrace(t) PROVE RightInv'
<1>1. Sound'
  BY DEF ReadTrace, RightInv, Sound, results
<1>2. CASE WellFormed(t)
  <2>1. /\ trace' = t /\ blocks' = [i \in Ids(t) |-> NULL] /\ block_sizes' = [i \in Ids(t) |-> 0]
        /\ op' = 1 /\ pc' \in {"libc_valid", "mm_init"}
    BY <1>2 DEF ReadTrace
  <2>2. Known'
    BY <1>2, <2>1 DEF Known, NULL, Ids, WellFormed
  <2> QED BY <1>1, <2>1, <2>2 DEF RightInv, Sound
<1>3. CASE ~WellFormed(t)
  BY <1>1, <1>3, Leaves DEF ReadTrace, app_error, Quiet
<1> QED BY <1>2, <1>3

LEMMA FreshStep ==
  ASSUME Known, UNCHANGED <<trace, memory>>, Fresh, op' = 1, TraceInv' PROVE Whole'
<1>1. Known' /\ live' = {}
  BY DEF Known, memory, Fresh
<1>2. LiveInv'
  BY <1>1 DEF LiveInv
<1>3. OwnInv'
  BY NothingNamed DEF OwnInv
<1> QED BY <1>1, <1>2, <1>3 DEF Whole

LEMMA InitStep ==
  ASSUME RightInv, allocator = "right", TraceInv', MmInit PROVE RightInv'
<1>1. /\ Known /\ UNCHANGED <<trace, memory>> /\ Fresh /\ op' = 1 /\ ranges' = {}
      /\ pc' = "valid" /\ UNCHANGED results
  BY DEF MmInit, RightInv
<1>2. Whole'
  BY <1>1, FreshStep
<1>3. DataInv'
  <2>1. ranges' = live' /\ DOMAIN data' = Low .. Top - 1
    BY <1>1 DEF Fresh, Empty
  <2> QED BY <1>1, <2>1, NothingNamed DEF DataInv
<1>4. Sound' /\ Known'
  BY <1>1, <1>2 DEF RightInv, Sound, results, Whole
<1> QED BY <1>1, <1>2, <1>3, <1>4 DEF RightInv, Sound

LEMMA UtilInitStep ==
  ASSUME RightInv, allocator = "right", TraceInv', UtilInit PROVE RightInv'
<1>1. /\ Known /\ UNCHANGED <<trace, memory>> /\ Fresh /\ op' = 1
      /\ pc' = "util" /\ UNCHANGED results /\ total_size' = 0 /\ max_total_size' = 0
  BY DEF UtilInit, RightInv
<1>2. Whole'
  BY <1>1, FreshStep
<1>3. UsedInv'
  <2>1. Cardinality(Bytes(live')) \in Nat /\ brk' = Low
    BY <1>1, BytesFinite DEF Fresh
  <2>2. Bytes(live)' = Bytes(live')
    BY DEF Bytes
  <2> QED BY <1>1, <2>1, <2>2, Numbers DEF UsedInv
<1>4. Sound' /\ Known'
  BY <1>1, <1>2 DEF RightInv, Sound, results, Whole
<1> QED BY <1>1, <1>2, <1>3, <1>4 DEF RightInv, Sound

(* A request finds the id in the trace.                                    *)
LEMMA RequestKnown ==
  ASSUME AllDisciplined, RightInv, allocator = "right", pc \in {"valid", "util"}, More
  PROVE  /\ Whole /\ Request.index \in Ids(trace) /\ op \in Nat \ {0}
         /\ Request.type # "a" => Named(trace, Request.index, op)
<1>1. Whole
  BY DEF RightInv
<1> QED BY <1>1, RequestNamed DEF Whole, Known, TraceInv

(* The answer to a request is placed, and the driver remembers it.         *)
LEMMA PlacedStep ==
  ASSUME RightInv, allocator = "right", pc \in {"valid", "util"}, TraceInv', Whole,
         NEW i0 \in Ids(trace), i0 = Request.index, Request.type # "f", UNCHANGED results,
         NEW size, size \in Nat \ {0}, NEW old, OldNamed(old), NEW p, Places(p, size, old), Next1,
         pc = "valid" => DataInv', pc = "util" => UsedInv'
  PROVE  RightInv'
<1>1. Known' /\ LiveInv' /\ OwnInv'
  BY PlaceStep
<1>2. Whole' /\ Known'
  BY <1>1 DEF Whole
<1>3. pc' = pc
  BY DEF Next1
<1>4. Sound'
  BY DEF RightInv, Sound, results
<1> QED BY <1>2, <1>3, <1>4 DEF RightInv, Sound

LEMMA AllocStep ==
  ASSUME AllDisciplined, Inv, RightInv, allocator = "right", TraceInv', ValidAlloc
  PROVE  RightInv'
<1> DEFINE size == Request.size
           x(p) == Payload(p, size)
           verdict(p) == AddRange(ranges, p, size)
<1>1. /\ pc = "valid" /\ More /\ Request.type = "a" /\ size \in Nat \ {0}
      /\ Whole /\ Request.index \in Ids(trace) /\ DataInv
  BY RequestSized, RequestKnown DEF ValidAlloc, Asks, RightInv
<1>2. PICK p \in Answers(size, live) :
        /\ Grows(p, size)
        /\ live' = IF allocator = "right" /\ p # NULL THEN live \cup {x(p)} ELSE live
        /\ IF p = NULL THEN Invalid("failed") /\ UNCHANGED <<ranges, data>>
           ELSE IF verdict(p) # "ok" THEN Invalid(verdict(p)) /\ UNCHANGED <<ranges, data>>
           ELSE /\ ranges' = ranges \cup {x(p)}
                /\ data' = IF allocator = "right" THEN Fill(data, x(p), LowByte(Request.index)) ELSE data
                /\ Remember(p) /\ Next1 /\ UNCHANGED <<totals, results>>
  BY DEF ValidAlloc
<1>3. CASE p = NULL
  <2>1. Invalid("failed")
    BY <1>2, <1>3
  <2> QED BY <2>1, Leaves, RefusedIsExcused DEF Invalid, Sound, RightInv, Quiet
<1>4. CASE p # NULL
  <2>1. /\ p \in Low .. Top - size /\ p % ALIGNMENT = 0
        /\ \A y \in live : ~Overlap(x(p), y)
        /\ brk' = IF p + size <= brk THEN brk ELSE p + size
    BY <1>1, <1>2, <1>4, AnswersRight
  <2>2. p \in Int /\ Low <= p /\ brk' \in Int /\ p + size <= brk'
    BY <1>1, <2>1, Numbers DEF Whole, TraceInv
  <2>3. ranges = live
    BY <1>1 DEF DataInv
  <2>4. \A y \in ranges : y.lo \in Int /\ y.hi \in Int /\ y.lo <= y.hi /\ ~Overlap(Payload(p, size), y)
    BY <1>1, <2>1, <2>3 DEF Whole, LiveInv, LiveIn
  <2>5. verdict(p) = "ok"
    BY <1>1, <2>1, <2>2, <2>4, PassesAddRange
  <2>6. /\ live' = live \cup {x(p)} /\ ranges' = ranges \cup {x(p)}
        /\ data' = Fill(data, x(p), LowByte(Request.index))
        /\ Remember(p) /\ Next1 /\ UNCHANGED results
    BY <1>2, <1>4, <2>5
  <2>7. Holds(NULL) = live
    BY <1>1, Numbers DEF Holds, NULL, Whole, LiveInv, LiveIn
  <2>8. Places(p, size, NULL)
    BY <2>1, <2>6, <2>7 DEF Places, Remember, Next1
  <2>9. PICK i0 \in Ids(trace) : i0 = Request.index
    BY <1>1
  <2>10. OldNamed(NULL)
    BY DEF OldNamed
  <2>11. /\ DOMAIN data' = Low .. Top - 1
         /\ \A a \in Low .. Top - 1 : data'[a] = IF a \in p .. p + size - 1 THEN LowByte(i0) ELSE data[a]
    <3>1. DOMAIN data = Low .. Top - 1
      BY <1>1 DEF DataInv
    <3> QED BY <2>6, <2>9, <3>1 DEF Fill, Payload
  <2>12. ranges' = live'
    BY <2>3, <2>6
  <2> HIDE DEF size, x, verdict
  <2>13. DataInv'
    BY <1>1, <2>8, <2>9, <2>10, <2>11, <2>12, DataPlaced, Zenon
  <2> QED BY <1>1, <2>6, <2>8, <2>9, <2>10, <2>13, PlacedStep
<1> QED BY <1>3, <1>4

LEMMA ReallocStep ==
  ASSUME AllDisciplined, Inv, RightInv, allocator = "right", TraceInv', ValidRealloc
  PROVE  RightInv' /\ (pc' = "valid" => ~Misread(Request.index))
<1> DEFINE size == Request.size
           old == blocks[Request.index]
           oldsize == block_sizes[Request.index]
           kept == IF size < oldsize THEN size ELSE oldsize
           x(p) == Payload(p, size)
           rest == RemoveRange(ranges, old)
           verdict(p) == AddRange(rest, p, size)
           copied(p) == [a \in DOMAIN data |-> IF a \in p .. p + kept - 1
                                              THEN data[old + (a - p)] ELSE data[a]]
           preserved(p) == \A a \in p .. p + kept - 1 : Char(copied(p)[a]) = LowByte(Request.index)
<1>1. /\ pc = "valid" /\ More /\ Request.type = "r" /\ size \in Nat \ {0}
      /\ Whole /\ Request.index \in Ids(trace) /\ DataInv /\ Named(trace, Request.index, op)
  BY RequestSized, RequestKnown DEF ValidRealloc, Asks, RightInv
<1>2. PICK p \in Answers(size, Holds(old)) :
        /\ Grows(p, size)
        /\ live' = IF allocator = "right" /\ p # NULL THEN Holds(old) \cup {x(p)} ELSE live
        /\ IF p = NULL THEN Invalid("failed") /\ UNCHANGED <<ranges, data>>
           ELSE IF verdict(p) # "ok" THEN Invalid(verdict(p)) /\ ranges' = rest /\ UNCHANGED data
           ELSE /\ ranges' = rest \cup {x(p)}
                /\ data' = IF allocator = "right" THEN Fill(copied(p), x(p), LowByte(Request.index)) ELSE data
                /\ IF ~preserved(p) THEN Invalid("lost data")
                   ELSE Remember(p) /\ Next1 /\ UNCHANGED <<totals, results>>
  BY DEF ValidRealloc
<1>3. CASE p = NULL
  <2>1. Invalid("failed")
    BY <1>2, <1>3
  <2> QED BY <2>1, Leaves, RefusedIsExcused DEF Invalid, Sound, RightInv, Quiet
<1>4. CASE p # NULL
  <2>1. /\ p \in Low .. Top - size /\ p % ALIGNMENT = 0
        /\ \A y \in Holds(old) : ~Overlap(x(p), y)
        /\ brk' = IF p + size <= brk THEN brk ELSE p + size
    BY <1>1, <1>2, <1>4, AnswersRight
  <2>2. p \in Int /\ Low <= p /\ brk' \in Int /\ p + size <= brk' /\ p + size <= Top
    BY <1>1, <2>1, Numbers DEF Whole, TraceInv
  <2>3. rest = Holds(old)
    BY <1>1 DEF DataInv, RemoveRange, Holds
  <2>4. \A y \in rest : y.lo \in Int /\ y.hi \in Int /\ y.lo <= y.hi /\ ~Overlap(Payload(p, size), y)
    BY <1>1, <2>1, <2>3 DEF Whole, LiveInv, LiveIn, Holds
  <2>5. verdict(p) = "ok"
    <3> HIDE DEF rest, size
    <3> QED BY <1>1, <2>1, <2>2, <2>4, PassesAddRange
  <2>6. PICK i0 \in Ids(trace) : i0 = Request.index
    BY <1>1
  <2>7. /\ old = blocks[i0] /\ old \in Int /\ oldsize \in Nat \ {0}
        /\ Mine(i0).lo = old /\ Mine(i0).hi = old + oldsize - 1
        /\ Low <= old /\ old + oldsize <= Top
    <3>1. Own(i0)
      BY <1>1, <2>6 DEF Whole, OwnInv
    <3>2. Known /\ brk <= Top /\ brk \in Int
      BY <1>1, Numbers DEF Whole, TraceInv
    <3> QED BY <2>6, <3>1, <3>2, MineFields, Numbers DEF Own
  <2>8. \A a \in p .. p + kept - 1 : copied(p)[a] = LowByte(i0)
    <3> SUFFICES ASSUME NEW a \in p .. p + kept - 1 PROVE copied(p)[a] = LowByte(i0)
      OBVIOUS
    <3>1. kept \in Nat /\ kept <= size /\ kept <= oldsize
      BY <1>1, <2>7
    <3>2. DOMAIN data = Low .. Top - 1
      BY <1>1 DEF DataInv
    <3>3. a \in Low .. Top - 1
      <4> HIDE DEF kept, size
      <4>1. a \in Int /\ p <= a /\ a <= p + kept - 1 /\ size \in Int
        BY <1>1, <2>2, <3>1
      <4> QED BY <2>2, <3>1, <4>1, Numbers
    <3>4. copied(p)[a] = data[old + (a - p)]
      BY <3>2, <3>3
    <3>5. HoldsByte(i0)
      BY <1>1, <2>6 DEF DataInv
    <3>6. old + (a - p) \in Mine(i0).lo .. Mine(i0).hi
      BY <2>2, <2>7, <3>1
    <3> QED BY <3>4, <3>5, <3>6 DEF HoldsByte
  <2>16. preserved(p) <=> ~Misread(i0)
    <3>1. i0 \in Nat
      BY <1>1 DEF Whole, Known, WellFormed, Ids
    <3>2. kept \in Nat \ {0}
      BY <1>1, <2>7
    <3>3. p \in p .. p + kept - 1
      BY <2>2, <3>2
    <3>4. preserved(p) <=> Char(LowByte(i0)) = LowByte(i0)
      <4> HIDE DEF kept, copied
      <4> QED BY <2>6, <2>8, <3>3
    <3> QED BY <3>1, <3>4, CharReads
  <2>17. CASE Misread(i0)
    <3>1. Invalid("lost data")
      BY <1>2, <1>4, <2>5, <2>16, <2>17
    <3>2. Excused(Error("lost data"))
      BY <1>1, <2>6, <2>17 DEF Excused, Error
    <3> QED BY <3>1, <3>2, Leaves DEF Invalid, Sound, RightInv, Quiet
  <2>18. SUFFICES ASSUME ~Misread(i0) PROVE RightInv'
    BY <2>6, <2>17
  <2>9. /\ live' = Holds(old) \cup {x(p)} /\ ranges' = rest \cup {x(p)}
        /\ data' = Fill(copied(p), x(p), LowByte(Request.index))
        /\ Remember(p) /\ Next1 /\ UNCHANGED results
    BY <1>2, <1>4, <2>5, <2>16, <2>18
  <2>10. PICK o : o = old
    OBVIOUS
  <2>11. Places(p, size, o)
    BY <2>1, <2>9, <2>10 DEF Places, Remember, Next1
  <2>12. OldNamed(o)
    BY <1>1, <2>10 DEF OldNamed
  <2>13. /\ DOMAIN data' = Low .. Top - 1
         /\ \A a \in Low .. Top - 1 : data'[a] = IF a \in p .. p + size - 1 THEN LowByte(i0) ELSE data[a]
    <3>1. DOMAIN data = Low .. Top - 1
      BY <1>1 DEF DataInv
    <3>2. kept \in Nat /\ kept <= size
      BY <1>1, <2>7
    <3>3. DOMAIN data' = Low .. Top - 1
      BY <2>9, <3>1 DEF Fill
    <3>4. ASSUME NEW a \in Low .. Top - 1
          PROVE  data'[a] = IF a \in p .. p + size - 1 THEN LowByte(i0) ELSE data[a]
      <4>1. data'[a] = IF a \in x(p).lo .. x(p).hi THEN LowByte(Request.index) ELSE copied(p)[a]
        BY <2>9, <3>1 DEF Fill
      <4>2. x(p).lo .. x(p).hi = p .. p + size - 1
        BY DEF Payload
      <4>3. a \notin p .. p + size - 1 => a \notin p .. p + kept - 1
        <5> HIDE DEF kept, size
        <5> QED BY <1>1, <2>2, <3>2, Numbers
      <4>4. a \notin p .. p + size - 1 => copied(p)[a] = data[a]
        BY <3>1, <4>3
      <4> QED BY <2>6, <4>1, <4>2, <4>4
    <3> QED BY <3>3, <3>4
  <2>14. ranges' = live'
    BY <2>3, <2>9
  <2> HIDE DEF size, x, verdict, old, oldsize, kept, rest, copied, preserved
  <2>15. DataInv'
    BY <1>1, <2>6, <2>11, <2>12, <2>13, <2>14, DataPlaced, Zenon
  <2> QED BY <1>1, <2>6, <2>9, <2>11, <2>12, <2>15, PlacedStep
<1> QED BY <1>3, <1>4


LEMMA FreedStep ==
  ASSUME AllDisciplined, RightInv, allocator = "right", TraceInv', ValidFree PROVE RightInv'
<1>1. /\ pc = "valid" /\ More /\ Request.type = "f"
      /\ Whole /\ Request.index \in Ids(trace) /\ DataInv /\ Named(trace, Request.index, op)
  BY RequestKnown DEF ValidFree, Asks, RightInv
<1>2. PICK i0 \in Ids(trace) : i0 = Request.index
  BY <1>1
<1>3. /\ live' = Holds(blocks[i0]) /\ ranges' = RemoveRange(ranges, blocks[i0])
      /\ brk' = brk /\ trace' = trace /\ op' = op + 1 /\ blocks' = blocks
      /\ block_sizes' = block_sizes /\ data' = data /\ pc' = pc /\ UNCHANGED results
  BY <1>2 DEF ValidFree, Next1, memory
<1>4. Whole' /\ Known'
  BY <1>1, <1>2, <1>3, FreeStep DEF Whole
<1>5. DataInv'
  <2>1. ranges' = live' /\ DOMAIN data' = Low .. Top - 1
    BY <1>1, <1>3 DEF DataInv, RemoveRange, Holds
  <2>2. /\ op \in Nat \ {0} /\ trace.lines[op].type = "f" /\ i0 = trace.lines[op].index
    BY <1>1, <1>2 DEF Request, Whole, TraceInv
  <2>3. \A i : i # i0 /\ Named(trace, i, op + 1) => Named(trace, i, op)
    BY <2>2, FreeNames
  <2>4. ASSUME NEW i \in Ids(trace)', Named(trace, i, op)' PROVE HoldsByte(i)'
    <3>1. i \in Ids(trace) /\ Named(trace, i, op)
      BY <1>1, <1>2, <1>3, <2>3, <2>4 DEF Ids
    <3>2. HoldsByte(i)
      BY <1>1, <3>1 DEF DataInv
    <3> QED BY <1>3, <3>2 DEF HoldsByte, Mine
  <2> QED BY <2>1, <2>4 DEF DataInv
<1>6. Sound'
  BY <1>3 DEF RightInv, Sound, results
<1> QED BY <1>1, <1>3, <1>4, <1>5, <1>6 DEF RightInv, Sound

LEMMA EndStep ==
  ASSUME RightInv, allocator = "right", ValidEnd PROVE RightInv'
<1>1. /\ Known /\ ranges' = {} /\ UNCHANGED <<trace, memory, util, report>> /\ pc' = "util_init"
  BY DEF ValidEnd, RightInv, Whole
<1>2. Known' /\ Sound'
  BY <1>1 DEF Known, memory, RightInv, Sound
<1> QED BY <1>1, <1>2 DEF RightInv, Sound

(* A request of eval_mm_util for memory, of a block `old' of n bytes.      *)
LEMMA UtilPlacesStep ==
  ASSUME AllDisciplined, Inv, RightInv, allocator = "right", TraceInv', pc = "util",
         Asks("a") \/ Asks("r"), NEW old, NEW n, OldNamed(old), Gone(old, n), UtilPlaces(old, n)
  PROVE  RightInv'
<1>1. /\ Request.type # "f" /\ Request.size \in Nat \ {0}
      /\ Whole /\ Request.index \in Ids(trace) /\ UsedInv
  BY RequestSized, RequestKnown DEF Asks, RightInv
<1>2. PICK size \in Nat \ {0} : size = Request.size
  BY <1>1
<1>3. PICK i0 \in Ids(trace) : i0 = Request.index
  BY <1>1
<1>4. PICK p \in Answers(size, Holds(old)) :
        /\ Grows(p, size)
        /\ live' = IF allocator = "right" /\ p # NULL THEN Holds(old) \cup {Payload(p, size)} ELSE live
        /\ IF p = NULL THEN app_error ELSE Remember(p) /\ Count(size - n) /\ Next1
        /\ UNCHANGED results
  BY <1>2 DEF UtilPlaces
<1>5. CASE p = NULL
  <2>1. pc' = "exited" /\ UNCHANGED results
    BY <1>4, <1>5 DEF app_error
  <2> QED BY <2>1, Leaves DEF Sound, RightInv, Quiet, results
<1>6. CASE p # NULL
  <2>1. /\ p \in Low .. Top - size /\ p % ALIGNMENT = 0
        /\ \A y \in Holds(old) : ~Overlap(Payload(p, size), y)
        /\ brk' = IF p + size <= brk THEN brk ELSE p + size
    BY <1>4, <1>6, AnswersRight
  <2>2. /\ live' = Holds(old) \cup {Payload(p, size)}
        /\ Remember(p) /\ Count(size - n) /\ Next1 /\ UNCHANGED results
    BY <1>4, <1>6
  <2>3. Places(p, size, old)
    BY <1>2, <2>1, <2>2 DEF Places, Remember, Next1
  <2>4. LiveInv'
    BY <1>1, <1>3, <2>3, PlaceStep
  <2>5. UsedInv'
    BY <1>1, <2>2, <2>3, <2>4, UsedPlaced DEF TraceInv
  <2> QED BY <1>1, <1>3, <2>2, <2>3, <2>5, PlacedStep
<1> QED BY <1>5, <1>6

LEMMA UtilAllocStep ==
  ASSUME AllDisciplined, Inv, RightInv, allocator = "right", TraceInv', UtilAlloc PROVE RightInv'
<1>1. OldNamed(NULL) /\ Gone(NULL, 0)
  BY DEF OldNamed, Gone
<1> QED BY <1>1, UtilPlacesStep DEF UtilAlloc

LEMMA UtilReallocStep ==
  ASSUME AllDisciplined, Inv, RightInv, allocator = "right", TraceInv', UtilRealloc PROVE RightInv'
<1>1. Request.index \in Ids(trace) /\ Named(trace, Request.index, op)
  BY RequestKnown DEF UtilRealloc, Asks
<1>2. PICK old, n : old = blocks[Request.index] /\ n = block_sizes[Request.index]
  OBVIOUS
<1>3. OldNamed(old) /\ Gone(old, n)
  BY <1>1, <1>2 DEF OldNamed, Gone
<1>4. UtilPlaces(old, n) /\ pc = "util" /\ Asks("r")
  BY <1>2 DEF UtilRealloc
<1> QED BY <1>3, <1>4, UtilPlacesStep

LEMMA UtilFreeStep ==
  ASSUME AllDisciplined, RightInv, allocator = "right", TraceInv', UtilFree PROVE RightInv'
<1>1. /\ pc = "util" /\ More /\ Request.type = "f"
      /\ Whole /\ Request.index \in Ids(trace) /\ UsedInv /\ Named(trace, Request.index, op)
  BY RequestKnown DEF UtilFree, Asks, RightInv
<1>2. PICK i0 \in Ids(trace) : i0 = Request.index
  BY <1>1
<1>3. PICK old, n : old = blocks[i0] /\ n = block_sizes[i0]
  OBVIOUS
<1>4. /\ live' = Holds(old) /\ Count(-n)
      /\ brk' = brk /\ trace' = trace /\ op' = op + 1 /\ blocks' = blocks
      /\ block_sizes' = block_sizes /\ pc' = pc /\ UNCHANGED results
  BY <1>2, <1>3 DEF UtilFree, Next1, memory
<1>5. live' = Holds(blocks[i0])
  BY <1>3, <1>4
<1>6. Whole' /\ Known'
  BY <1>1, <1>2, <1>4, <1>5, FreeStep DEF Whole
<1>7. Gone(old, n)
  BY <1>1, <1>2, <1>3 DEF Gone
<1>8. UsedInv'
  BY <1>1, <1>4, <1>7, UsedFreed
<1>9. Sound'
  BY <1>4 DEF RightInv, Sound, results
<1> QED BY <1>1, <1>4, <1>6, <1>8, <1>9 DEF RightInv, Sound

LEMMA UtilEndStep ==
  ASSUME RightInv, allocator = "right", UtilEnd PROVE RightInv'
<1>1. max_total_size <= brk - Low
  BY DEF UtilEnd, RightInv, UsedInv
<1>2. \A f \in DOMAIN util' : util'[f].used <= util'[f].heap
  BY <1>1 DEF UtilEnd, RightInv
<1>3. pc' = "speed" /\ report' = report
  BY DEF UtilEnd
<1> QED BY <1>2, <1>3, Leaves DEF Sound, RightInv, Quiet

LEMMA RightNext ==
  ASSUME AllDisciplined, Inv, RightInv, TraceInv', [Next]_vars PROVE RightInv'
<1>1. allocator' = allocator
  BY DEF Next, vars, Option, CheckTeam, ReadTrace, MmInit, Invalid, Next1, ValidAlloc, ValidRealloc,
     ValidFree, ValidEnd, UtilInit, UtilAlloc, UtilRealloc, UtilPlaces, UtilFree, UtilEnd, Speed,
     LibcValid, LibcSpeed, FreeTrace
<1>2. SUFFICES ASSUME allocator = "right" PROVE RightInv'
  BY <1>1 DEF RightInv
<1>3. ASSUME NEW o, Option(o) PROVE RightInv'
  <2>1. pc' \in {"options", "exited"} /\ UNCHANGED results
    BY <1>3 DEF Option, usage
  <2> QED BY <1>2, <2>1, Leaves DEF Sound, RightInv, Quiet, results
<1>4. ASSUME NEW blank, CheckTeam(blank) PROVE RightInv'
  <2>1. pc' \in {"exited", "read_libc", "read"} /\ UNCHANGED results
    BY <1>4 DEF CheckTeam
  <2> QED BY <1>2, <2>1, Leaves DEF Sound, RightInv, Quiet, results
<1>5. CASE Speed
  <2>1. pc' \in {"exited", "speed", "free"} /\ UNCHANGED results
    BY <1>5 DEF Speed, app_error
  <2> QED BY <1>2, <2>1, Leaves DEF Sound, RightInv, Quiet, results
<1>6. CASE LibcValid
  <2>1. pc' \in {"exited", "libc_valid", "libc_speed"} /\ util' = util /\ report' \subseteq report \cup {Error("libc")}
    BY <1>6 DEF LibcValid, app_error
  <2> QED BY <1>2, <2>1, Leaves, RefusedIsExcused DEF Sound, RightInv, Quiet
<1>7. CASE LibcSpeed
  <2>1. pc' \in {"exited", "libc_speed", "free_libc"} /\ UNCHANGED results
    BY <1>7 DEF LibcSpeed
  <2> QED BY <1>2, <2>1, Leaves DEF Sound, RightInv, Quiet, results
<1>8. CASE FreeTrace
  <2>1. pc' \in {"read_libc", "read", "done"} /\ UNCHANGED results
    BY <1>8 DEF FreeTrace
  <2> QED BY <1>2, <2>1, Leaves DEF Sound, RightInv, Quiet, results
<1>9. CASE UNCHANGED vars
  BY <1>9 DEF vars, package, memory, totals, results, RightInv, Known, Whole, TraceInv, LiveInv,
     LiveIn, OwnInv, Own, Mine, DataInv, HoldsByte, UsedInv, Bytes, Ids
<1> QED
  BY <1>2, <1>3, <1>4, <1>5, <1>6, <1>7, <1>8, <1>9, ReadStep, InitStep, AllocStep, ReallocStep,
     FreedStep, EndStep, UtilInitStep, UtilAllocStep, UtilReallocStep, UtilFreeStep, UtilEndStep
  DEF Next

LEMMA RightAlways ==
  ASSUME AllDisciplined PROVE Spec => []RightInv
<1>1. Init => Inv /\ RightInv
  BY Numbers DEF Init, Inv, TraceInv, RangesInv, NoTrace, RightInv
<1>2. Inv /\ RightInv /\ [Next]_vars => Inv' /\ RightInv'
  <2> SUFFICES ASSUME Inv, RightInv, [Next]_vars PROVE Inv' /\ RightInv'
    OBVIOUS
  <2>1. TraceInv' /\ RangesInv'
    BY StepTrace, StepRanges
  <2> QED BY <2>1, RightNext DEF Inv
<1> QED BY <1>1, <1>2, PTL DEF Spec

(* No id whose byte is misread has grown in what eval_mm_valid has seen.   *)
GrowInv ==
  allocator = "right" =>
    /\ pc = "valid" => ~GrowsMisread(op - 1)
    /\ pc \in {"util_init", "util", "speed"} => ~GrowsMisread(trace.ops)

LEMMA GrowsNoMore ==
  ASSUME GrowInv, allocator = "right", pc = "valid", Inv, trace' = trace, op' = op + 1,
         Request.type = "r" => ~Misread(Request.index)
  PROVE  ~GrowsMisread(op - 1)'
<1>1. op \in Nat \ {0}
  BY DEF Inv, TraceInv
<1>2. \A k \in 1 .. (op' - 1) : k \in 1 .. (op - 1) \/ k = op
  BY <1>1
<1> QED BY <1>2 DEF GrowInv, GrowsMisread, Request

LEMMA GrowNext ==
  ASSUME AllDisciplined, Inv, RightInv, GrowInv, TraceInv', [Next]_vars PROVE GrowInv'
<1>1. allocator' = allocator
  BY DEF Next, vars, Option, CheckTeam, ReadTrace, MmInit, Invalid, Next1, ValidAlloc, ValidRealloc,
     ValidFree, ValidEnd, UtilInit, UtilAlloc, UtilRealloc, UtilPlaces, UtilFree, UtilEnd, Speed,
     LibcValid, LibcSpeed, FreeTrace
<1>2. SUFFICES ASSUME allocator = "right" PROVE GrowInv'
  BY <1>1 DEF GrowInv
<1>3. ASSUME pc' \notin {"valid", "util_init", "util", "speed"} PROVE GrowInv'
  BY <1>3 DEF GrowInv
<1>4. ASSUME pc \in {"util_init", "util", "speed"}, trace' = trace, pc' # "valid" PROVE GrowInv'
  BY <1>2, <1>4 DEF GrowInv, GrowsMisread
<1>5. CASE MmInit
  <2>1. pc' = "valid" /\ op' = 1 /\ trace' = trace
    BY <1>2, <1>5 DEF MmInit, RightInv
  <2> QED BY <2>1 DEF GrowInv, GrowsMisread
<1>6. CASE ValidAlloc \/ ValidRealloc \/ ValidFree
  <2>1. pc = "valid" /\ (pc' = "free" \/ Next1)
    <3>1. CASE ValidRealloc
      BY <3>1, ReallocAnswered DEF ValidRealloc, Invalid
    <3>2. CASE ValidAlloc
      BY <3>2 DEF ValidAlloc, Invalid
    <3> QED BY <1>6, <3>1, <3>2 DEF ValidFree
  <2>2. CASE Next1
    <3>1. Request.type = "r" => ~Misread(Request.index)
      BY <1>2, <1>6, <2>1, <2>2, ReallocStep DEF ValidAlloc, ValidFree, Asks, Next1
    <3>2. pc' = "valid" /\ trace' = trace /\ op' = op + 1
      BY <2>1, <2>2 DEF Next1
    <3>3. ~GrowsMisread(op - 1)'
      BY <1>2, <2>1, <3>1, <3>2, GrowsNoMore
    <3> QED BY <3>2, <3>3 DEF GrowInv
  <2> QED BY <1>3, <2>1, <2>2
<1>7. CASE ValidEnd
  <2>1. CASE pc' = "util_init"
    <3>1. trace' = trace /\ pc = "valid" /\ ~More
      BY <1>7, <2>1 DEF ValidEnd, Invalid
    <3>2. 1 .. trace.ops \subseteq 1 .. op - 1
      <4>1. op \in Nat \ {0} /\ trace.ops \in Int /\ ~(op <= trace.ops)
        BY <1>2, <3>1 DEF Inv, TraceInv, More, RightInv, Whole, Known, WellFormed
      <4> QED BY <4>1
    <3>3. ~GrowsMisread(trace.ops)
      BY <1>2, <3>1, <3>2 DEF GrowInv, GrowsMisread
    <3>4. ~GrowsMisread(trace.ops)'
      BY <3>1, <3>3 DEF GrowsMisread
    <3> QED BY <2>1, <3>4 DEF GrowInv
  <2> QED BY <1>3, <1>7, <2>1 DEF ValidEnd, Invalid
<1>8. CASE UtilInit \/ UtilAlloc \/ UtilRealloc \/ UtilFree \/ UtilEnd \/ Speed
  BY <1>4, <1>8 DEF UtilInit, UtilAlloc, UtilRealloc, UtilPlaces, UtilFree, UtilEnd, Speed, Next1,
     app_error
<1>9. CASE \/ \E o : Option(o)
           \/ \E blank : CheckTeam(blank)
           \/ \E t \in Traces : ReadTrace(t)
           \/ LibcValid \/ LibcSpeed \/ FreeTrace
  BY <1>3, <1>9 DEF Option, usage, CheckTeam, ReadTrace, app_error, LibcValid, LibcSpeed, FreeTrace
<1>10. CASE UNCHANGED vars
  BY <1>10 DEF vars, GrowInv, GrowsMisread
<1> QED BY <1>5, <1>6, <1>7, <1>8, <1>9, <1>10 DEF Next

(* mdriver is a fair judge of a package that keeps the rules, on any trace *)
(* files that free and let grow only what they asked for, but of ids whose *)
(* low byte is negative as a char: it reports no error but that a request  *)
(* was refused or that such an id lost its data when it grew, finds no     *)
(* file valid in which one grows, and all files valid if it reports none;  *)
(* and it counts one error for each file that is not valid.                *)
THEOREM JudgesRightly ==
  ASSUME \A t \in Traces : WellFormed(t) => Disciplined(t)
  PROVE  Spec => []JudgedRightly
<1>1. Spec => []RightInv
  BY RightAlways DEF AllDisciplined
<1>2. Spec => []GrowInv
  <2>1. Init => GrowInv
    BY DEF Init, GrowInv
  <2>2. Inv /\ RightInv /\ GrowInv /\ TraceInv' /\ [Next]_vars => GrowInv'
    BY GrowNext DEF AllDisciplined
  <2>3. Spec => []Inv
    BY InvAlways
  <2>4. Inv => TraceInv
    BY DEF Inv
  <2> QED BY <1>1, <2>1, <2>2, <2>3, <2>4, PTL DEF Spec
<1>3. RightInv /\ GrowInv /\ ErrorInv => NoFalseAlarm
  <2> SUFFICES ASSUME RightInv, GrowInv, ErrorInv, allocator = "right"
               PROVE  /\ \A r \in report : Excused(r)
                      /\ pc = "done" /\ report = {} => valid = Files
                      /\ pc \in {"util_init", "util", "speed"} => ~GrowsMisread(trace.ops)
    BY DEF NoFalseAlarm
  <2>1. \A r \in report : Excused(r)
    BY DEF RightInv
  <2>2. ASSUME pc = "done", report = {} PROVE valid = Files
    <3>1. errors = 0 /\ valid \subseteq Files /\ errors = Cardinality(Files \ valid)
      BY <2>2 DEF ErrorInv
    <3>2. IsFiniteSet(Files \ valid)
      BY FilesCounted, FS_Subset
    <3>3. Files \ valid = {}
      BY <3>1, <3>2, FS_EmptySet
    <3> QED BY <3>1, <3>3
  <2> QED BY <2>1, <2>2 DEF GrowInv
<1> QED BY <1>1, <1>2, <1>3, ErrorsAlways, ErrorsCounted, PTL DEF JudgedRightly

(* The share of the heap that a package that keeps the rules is graded by  *)
(* is at most one, on the same trace files.                                *)
THEOREM UtilIsAShare ==
  ASSUME \A t \in Traces : WellFormed(t) => Disciplined(t)
  PROVE  Spec => []UtilAtMostOne
<1>1. Spec => []RightInv
  BY RightAlways DEF AllDisciplined
<1>2. RightInv => UtilAtMostOne
  BY DEF RightInv, UtilAtMostOne
<1> QED BY <1>1, <1>2, PTL

-----------------------------------------------------------------------------
(* The driver's state is well formed.                                      *)
Measured == {"util_init", "util", "speed"}
FlagsInv ==
  /\ allocator \in {"right", "any"} /\ opt \subseteq {"a", "f", "l"} /\ rep \in 0 .. Repeats
  /\ valid \subseteq Files /\ DOMAIN util \subseteq valid /\ errors \in 0 .. NumFiles
  /\ pc \in Measured => file \in valid
OpInv == op \in 1 .. trace.ops + 1
StoresInv ==
  /\ blocks \in [Ids(trace) -> Address] /\ DOMAIN block_sizes = Ids(trace)
  /\ ranges \subseteq range_t /\ live \subseteq range_t
DriverInv == Inv /\ ErrorInv /\ FlagsInv /\ OpInv /\ StoresInv

LEMMA DriverTyped == DriverInv => TypeOK
<1> SUFFICES ASSUME DriverInv PROVE TypeOK
  OBVIOUS
<1>1. file \in 1 .. NumFiles
  BY FilesCounted, CountAssumption DEF DriverInv, ErrorInv, Number
<1>2. pc \in {"options", "read_libc", "libc_valid", "libc_speed", "free_libc", "read", "mm_init",
              "valid", "util_init", "util", "speed", "free", "done", "exited"}
  BY DEF DriverInv, ErrorInv, Libc, Before, After
<1>3. trace \in Traces \cup {NoTrace} /\ brk \in Low .. Top
  BY DEF DriverInv, Inv, TraceInv
<1> QED BY <1>1, <1>2, <1>3 DEF DriverInv, FlagsInv, OpInv, StoresInv, TypeOK

(* A step that counts nothing.                                             *)
Even == /\ UNCHANGED <<allocator, opt, file, valid, util, errors>> /\ rep' \in 0 .. Repeats
        /\ pc' \in Measured => pc \in Measured
LEMMA EvenStep == ASSUME FlagsInv, Even PROVE FlagsInv'
BY DEF FlagsInv, Even, Files

(* A step that counts an error.                                            *)
LEMMA FailStep ==
  ASSUME FlagsInv, ErrorInv', UNCHANGED <<allocator, opt, file, valid, util, rep>>, pc' = "free"
  PROVE  FlagsInv'
<1>1. ErrorsOf(file)' /\ file' \in Files'
  BY DEF ErrorInv, After
<1>2. file' \in Nat /\ file' <= NumFiles
  <2>1. Files' = Files /\ file' \in 1 .. Number /\ Number \in Nat /\ Number <= NumFiles
    BY <1>1, FilesCounted, CountAssumption DEF Files, Number
  <2> QED BY <2>1, CountAssumption
<1>3. errors' \in 0 .. NumFiles
  <2> DEFINE D == (1 .. file') \ valid'
  <2>1. IsFiniteSet(1 .. file') /\ Cardinality(1 .. file') = file'
    BY <1>2, FS_Interval
  <2>2. IsFiniteSet(D) /\ Cardinality(D) <= file'
    BY <2>1, FS_Subset
  <2>3. Cardinality(D) \in Nat
    BY <2>2, FS_CardinalityType
  <2>4. errors' = Cardinality(D)
    BY <1>1 DEF ErrorsOf
  <2> QED BY <1>2, <2>2, <2>3, <2>4, CountAssumption
<1>4. pc' \notin Measured
  BY DEF Measured
<1> QED BY <1>3, <1>4 DEF FlagsInv, Files

LEMMA AnsweredFlags ==
  ASSUME FlagsInv, ErrorInv', pc \notin Measured, rep' = rep,
         (Next1 /\ UNCHANGED results) \/ \E kind : Invalid(kind)
  PROVE  FlagsInv'
<1>1. CASE Next1 /\ UNCHANGED results
  <2>1. Even
    BY <1>1 DEF Next1, results, Even, FlagsInv
  <2> QED BY <2>1, EvenStep
<1>2. ASSUME NEW kind, Invalid(kind) PROVE FlagsInv'
  BY <1>2, FailStep DEF Invalid
<1> QED BY <1>1, <1>2

LEMMA FlagsNext ==
  ASSUME FlagsInv, ErrorInv, ErrorInv', [Next]_vars PROVE FlagsInv'
<1>1. ASSUME NEW o \in {"a", "f", "g", "h", "l"}, Option(o) PROVE FlagsInv'
  <2>1. /\ pc = "options" /\ pc' \in {"options", "exited"} /\ opt' \subseteq {"a", "f", "l"}
        /\ UNCHANGED <<allocator, rep, valid, util, errors>>
    BY <1>1 DEF Option, FlagsInv, results, usage
  <2>2. valid = {}
    BY <2>1 DEF ErrorInv, Libc
  <2> QED BY <2>1, <2>2 DEF FlagsInv, Measured
<1>2. ASSUME NEW blank, CheckTeam(blank) PROVE FlagsInv'
  <2>1. /\ pc' \in {"exited", "read_libc", "read"} /\ opt' = opt \ {"a"}
        /\ UNCHANGED <<allocator, rep, valid, util, errors>>
    BY <1>2 DEF CheckTeam, results
  <2>2. Files' = Files
    BY <2>1 DEF Files
  <2> QED BY <2>1, <2>2 DEF FlagsInv, Measured
<1>3. ASSUME NEW t, ReadTrace(t) PROVE FlagsInv'
  <2>1. Even
    BY <1>3, CountAssumption DEF ReadTrace, Even, results, app_error, Measured
  <2> QED BY <2>1, EvenStep
<1>4. CASE MmInit
  <2>1. (Even /\ pc' = "valid") \/ (\E kind : Invalid(kind) /\ rep' = rep)
    BY <1>4 DEF MmInit, Invalid, Even, results, Measured, FlagsInv
  <2>2. pc = "mm_init"
    BY <1>4 DEF MmInit
  <2> QED BY <2>1, <2>2, EvenStep, FailStep DEF Invalid
<1>5. CASE ValidAlloc
  <2>1. pc = "valid" /\ ((Next1 /\ UNCHANGED results) \/ \E kind : Invalid(kind))
    BY <1>5 DEF ValidAlloc
  <2>2. rep' = rep
    BY <2>1 DEF Next1, Invalid
  <2> QED BY <2>1, <2>2, AnsweredFlags DEF Measured
<1>6. CASE ValidRealloc
  <2>1. pc = "valid" /\ ((Next1 /\ UNCHANGED results) \/ \E kind : Invalid(kind))
    BY <1>6, ReallocAnswered DEF ValidRealloc
  <2>2. rep' = rep
    BY <2>1 DEF Next1, Invalid
  <2> QED BY <2>1, <2>2, AnsweredFlags DEF Measured
<1>7. CASE ValidFree
  <2>1. Even
    BY <1>7 DEF ValidFree, Next1, results, Even, FlagsInv
  <2> QED BY <2>1, EvenStep
<1>8. CASE ValidEnd
  <2>1. CASE ranges' # {}
    <3>1. Invalid("leak") /\ rep' = rep
      BY <1>8, <2>1 DEF ValidEnd, Invalid
    <3> QED BY <3>1, FailStep DEF Invalid
  <2>2. CASE ranges' = {}
    <3>1. /\ valid' = valid \cup {file}
          /\ UNCHANGED <<allocator, opt, file, rep, util, errors>>
      BY <1>8, <2>2 DEF ValidEnd
    <3>2. Files' = Files /\ file \in Files
      BY <3>1 DEF Files, ErrorInv
    <3> QED BY <3>1, <3>2 DEF FlagsInv
  <2> QED BY <2>1, <2>2
<1>9. CASE UtilInit
  <2>1. Even
    BY <1>9 DEF UtilInit, results, Even, FlagsInv, Measured
  <2> QED BY <2>1, EvenStep
<1>10. ASSUME NEW old, NEW n, pc = "util", UtilPlaces(old, n) PROVE FlagsInv'
  <2>1. Even
    BY <1>10 DEF UtilPlaces, Next1, app_error, results, Even, FlagsInv, Measured
  <2> QED BY <2>1, EvenStep
<1>11. CASE UtilFree
  <2>1. Even
    BY <1>11 DEF UtilFree, Next1, results, Even, FlagsInv
  <2> QED BY <2>1, EvenStep
<1>12. CASE UtilEnd
  <2>1. /\ pc = "util" /\ DOMAIN util' = DOMAIN util \cup {file}
        /\ UNCHANGED <<allocator, opt, file, rep, valid, errors>>
    BY <1>12 DEF UtilEnd
  <2>2. file \in valid /\ Files' = Files
    BY <2>1 DEF FlagsInv, Measured, Files
  <2> QED BY <2>1, <2>2 DEF FlagsInv
<1>13. CASE Speed
  <2>1. Even
    BY <1>13, CountAssumption DEF Speed, app_error, results, Even, FlagsInv, Measured
  <2> QED BY <2>1, EvenStep
<1>14. CASE LibcValid
  <2>1. /\ UNCHANGED <<allocator, opt, file, valid, util, rep>>
        /\ pc = "libc_valid" /\ pc' \in {"libc_valid", "libc_speed", "exited"}
        /\ errors' \in {errors, errors + 1}
    BY <1>14 DEF LibcValid, app_error
  <2>2. errors = 0 /\ Files' = Files
    BY <2>1 DEF ErrorInv, Libc, Files
  <2>3. errors' \in 0 .. NumFiles
    BY <2>1, <2>2, CountAssumption
  <2> QED BY <2>1, <2>2, <2>3 DEF FlagsInv, Measured
<1>15. CASE LibcSpeed
  <2>1. Even
    BY <1>15, CountAssumption DEF LibcSpeed, results, Even, FlagsInv, Measured
  <2> QED BY <2>1, EvenStep
<1>16. CASE FreeTrace
  <2>1. /\ UNCHANGED <<allocator, opt, valid, util, errors, rep>>
        /\ pc' \in {"read_libc", "read", "done"}
    BY <1>16 DEF FreeTrace, results
  <2> QED BY <2>1 DEF FlagsInv, Measured, Files
<1>17. CASE UNCHANGED vars
  <2>1. Even
    BY <1>17 DEF vars, results, Even, FlagsInv
  <2> QED BY <2>1, EvenStep
<1> QED
  BY <1>1, <1>2, <1>3, <1>4, <1>5, <1>6, <1>7, <1>8, <1>9, <1>10, <1>11, <1>12, <1>13,
     <1>14, <1>15, <1>16, <1>17 DEF Next, UtilAlloc, UtilRealloc

(* The next request is at most the one behind the last.                    *)
LEMMA OpNext ==
  ASSUME TraceInv, TraceInv', OpInv, [Next]_vars PROVE OpInv'
<1>1. (op' = 1) \/ (trace' = trace /\ (op' = op \/ (More /\ op' = op + 1)))
  <2>1. CASE ValidRealloc
    BY <2>1, ReallocAnswered DEF ValidRealloc, Asks, Next1, Invalid
  <2>2. CASE ValidAlloc
    BY <2>2 DEF ValidAlloc, Asks, Next1, Invalid
  <2>3. CASE UtilAlloc \/ UtilRealloc
    BY <2>3 DEF UtilAlloc, UtilRealloc, UtilPlaces, Asks, Next1
  <2>4. CASE MmInit \/ ValidEnd \/ ValidFree
    BY <2>4 DEF MmInit, ValidEnd, ValidFree, Asks, Next1, Invalid
  <2>5. CASE ~(ValidRealloc \/ ValidAlloc \/ UtilAlloc \/ UtilRealloc \/ MmInit \/ ValidEnd \/ ValidFree)
    BY <2>5 DEF Next, vars, Option, CheckTeam, ReadTrace, UtilInit, UtilFree, UtilEnd, Speed,
       LibcValid, LibcSpeed, FreeTrace, Asks, Next1
  <2> QED BY <2>1, <2>2, <2>3, <2>4, <2>5
<1>2. trace.ops \in Nat /\ trace'.ops \in Nat
  <2>1. \A t : t \in Traces \cup {NoTrace} => Len(t.lines) \in Nat
    BY TracesAssumption DEF NoTrace
  <2> QED BY <2>1 DEF TraceInv
<1> QED BY <1>1, <1>2 DEF OpInv, More

(* What the package answers is an address.                                 *)
LEMMA AnswerAddress ==
  ASSUME Inv, Asks("a") \/ Asks("r"), NEW kept, NEW p \in Answers(Request.size, kept)
  PROVE  p \in Address /\ Payload(p, Request.size) \in range_t
<1>1. Request.size \in Nat \ {0}
  BY RequestSized
<1>2. p \in Address
  BY <1>1, Numbers DEF Answers, Address, NULL
<1>3. p + Request.size - 1 \in Int
  BY <1>1, <1>2, Numbers DEF Address
<1> QED BY <1>2, <1>3 DEF Payload, range_t

LEMMA Remembered ==
  ASSUME StoresInv, NEW p \in Address, Remember(p), trace' = trace
  PROVE  blocks' \in [Ids(trace') -> Address] /\ DOMAIN block_sizes' = Ids(trace')
BY DEF StoresInv, Remember

Kept == UNCHANGED <<memory, trace>>
LEMMA KeptStores ==
  ASSUME StoresInv, Kept
  PROVE  blocks' \in [Ids(trace') -> Address] /\ DOMAIN block_sizes' = Ids(trace')
BY DEF StoresInv, Kept, memory

LEMMA StoresNext ==
  ASSUME Inv, StoresInv, [Next]_vars PROVE StoresInv'
<1>1. ASSUME NEW t, ReadTrace(t) PROVE StoresInv'
  <2>1. CASE WellFormed(t)
    <3>1. 0 \in Address
      BY Numbers DEF Address
    <3>2. blocks' \in [Ids(trace') -> Address] /\ DOMAIN block_sizes' = Ids(trace')
      BY <1>1, <2>1, <3>1 DEF ReadTrace, NULL
    <3> QED BY <1>1, <3>2 DEF ReadTrace, StoresInv, package
  <2>2. CASE ~WellFormed(t)
    <3>1. Kept
      BY <1>1, <2>2 DEF ReadTrace, Kept
    <3> QED BY <1>1, <3>1, KeptStores DEF ReadTrace, StoresInv, package
  <2> QED BY <2>1, <2>2
<1>2. CASE ValidAlloc
  <2>1. PICK p \in Answers(Request.size, live) :
          /\ live' \subseteq live \cup {Payload(p, Request.size)}
          /\ ranges' \subseteq ranges \cup {Payload(p, Request.size)}
          /\ Kept \/ (Remember(p) /\ trace' = trace)
    BY <1>2 DEF ValidAlloc, Invalid, Next1, Kept
  <2>2. p \in Address /\ Payload(p, Request.size) \in range_t
    BY <1>2, <2>1, AnswerAddress DEF ValidAlloc
  <2> QED BY <2>1, <2>2, Remembered, KeptStores DEF StoresInv
<1>3. CASE ValidRealloc
  <2> DEFINE oldp == blocks[Request.index]
             x(p) == Payload(p, Request.size)
  <2>1. PICK p \in Answers(Request.size, Holds(oldp)) :
          /\ live' \subseteq live \cup {x(p)}
          /\ ranges' \subseteq ranges \cup {x(p)}
          /\ Kept \/ (Remember(p) /\ trace' = trace)
    BY <1>3 DEF ValidRealloc, RemoveRange, Holds, Invalid, Next1, Kept
  <2>2. p \in Address /\ x(p) \in range_t
    BY <1>3, <2>1, AnswerAddress DEF ValidRealloc
  <2> QED BY <2>1, <2>2, Remembered, KeptStores DEF StoresInv
<1>4. ASSUME NEW old, NEW n, Asks("a") \/ Asks("r"), UtilPlaces(old, n) PROVE StoresInv'
  <2>1. PICK p \in IF allocator = "any" THEN {NULL, Low} ELSE Answers(Request.size, Holds(old)) :
          /\ live' \subseteq live \cup {Payload(p, Request.size)}
          /\ ranges' = ranges
          /\ Kept \/ (Remember(p) /\ trace' = trace)
    BY <1>4 DEF UtilPlaces, Holds, Next1, Kept
  <2>2. p \in Answers(Request.size, Holds(old))
    BY <2>1, Numbers DEF Answers, Address, NULL
  <2>3. p \in Address /\ Payload(p, Request.size) \in range_t
    BY <1>4, <2>2, AnswerAddress
  <2> QED BY <2>1, <2>3, Remembered, KeptStores DEF StoresInv
<1>5. CASE FreeTrace
  <2>1. trace' = NoTrace /\ blocks' = <<>> /\ block_sizes' = <<>> /\ ranges' = ranges /\ live' = live
    BY <1>5 DEF FreeTrace, package
  <2>2. Ids(NoTrace) = {}
    BY DEF Ids, NoTrace
  <2>3. DOMAIN <<>> = {} /\ <<>> \in [{} -> Address]
    OBVIOUS
  <2> QED BY <2>1, <2>2, <2>3 DEF StoresInv
<1>6. CASE Kept /\ ranges' \subseteq ranges /\ live' \subseteq live
  BY <1>6, KeptStores DEF StoresInv
<1>7. ASSUME NEW o, Option(o) PROVE Kept /\ ranges' \subseteq ranges /\ live' \subseteq live
  BY <1>7 DEF Option, Kept, package
<1>8. ASSUME NEW blank, CheckTeam(blank) PROVE Kept /\ ranges' \subseteq ranges /\ live' \subseteq live
  BY <1>8 DEF CheckTeam, Kept, package
<1>9. ASSUME MmInit \/ ValidFree \/ ValidEnd PROVE Kept /\ ranges' \subseteq ranges /\ live' \subseteq live
  BY <1>9 DEF MmInit, ValidFree, ValidEnd, Fresh, Invalid, Next1, Holds, RemoveRange, Kept
<1>10. ASSUME UtilInit \/ UtilFree \/ UtilEnd PROVE Kept /\ ranges' \subseteq ranges /\ live' \subseteq live
  BY <1>10 DEF UtilInit, UtilFree, UtilEnd, Fresh, Next1, Holds, Kept, package
<1>11. ASSUME Speed \/ LibcValid \/ LibcSpeed \/ UNCHANGED vars
       PROVE  Kept /\ ranges' \subseteq ranges /\ live' \subseteq live
  BY <1>11 DEF Speed, LibcValid, LibcSpeed, vars, Fresh, Kept, package
<1> QED
  BY <1>1, <1>2, <1>3, <1>4, <1>5, <1>6, <1>7, <1>8, <1>9, <1>10, <1>11
     DEF Next, UtilAlloc, UtilRealloc

(* The driver's state stays well formed, whatever the package answers.     *)
THEOREM DriverTypes == Spec => []TypeOK
<1>1. Init => DriverInv
  <2> SUFFICES ASSUME Init PROVE DriverInv
    OBVIOUS
  <2>1. Inv
    BY Numbers DEF Init, Inv, TraceInv, RangesInv, NoTrace
  <2>2. ErrorInv
    BY FilesCounted DEF Init, ErrorInv, Libc, Before, After
  <2>3. FlagsInv
    BY CountAssumption DEF Init, FlagsInv, Measured
  <2>4. OpInv
    BY DEF Init, OpInv, NoTrace
  <2>5. StoresInv
    <3>1. Ids(NoTrace) = {}
      BY DEF Ids, NoTrace
    <3>2. DOMAIN <<>> = {} /\ <<>> \in [{} -> Address]
      OBVIOUS
    <3> QED BY <3>1, <3>2 DEF Init, StoresInv
  <2> QED BY <2>1, <2>2, <2>3, <2>4, <2>5 DEF DriverInv
<1>2. DriverInv /\ [Next]_vars => DriverInv'
  <2> SUFFICES ASSUME DriverInv, [Next]_vars PROVE DriverInv'
    OBVIOUS
  <2>1. Inv'
    BY StepTrace, StepRanges DEF DriverInv, Inv
  <2>2. ErrorInv'
    BY ErrorsNext DEF DriverInv
  <2> QED BY <2>1, <2>2, FlagsNext, OpNext, StoresNext DEF DriverInv, Inv
<1> QED
  BY <1>1, <1>2, DriverTyped, PTL DEF Spec

-----------------------------------------------------------------------------
(* A remainder that is in range is kept, also one that is a whole word too *)
(* small.                                                                  *)
LEMMA Remainder ==
  ASSUME NEW word \in Nat \ {0}, NEW x \in 0 .. word - 1
  PROVE  x % word = x /\ (x - word) % word = x
<1>1. x % word = x
  OBVIOUS
<1>2. (x - word) % word = x
  OBVIOUS
<1> QED
  BY <1>1, <1>2

(* get_counter.  Its result is below the number of values of two words,    *)
(* and is the difference of the readings but for that number.              *)
LEMMA CounterWraps ==
  ASSUME NEW word \in Nat \ {0}, NEW from \in [hi : 0 .. word - 1, lo : 0 .. word - 1],
         NEW to \in [hi : 0 .. word - 1, lo : 0 .. word - 1],
         NEW d, d = Timers!At(to, word) - Timers!At(from, word)
  PROVE  /\ Timers!Elapsed(from, to, word) \in 0 .. word * word - 1
         /\ Timers!Elapsed(from, to, word) \in {d, d + word * word}
<1> DEFINE a == to.hi - from.hi
           b == to.lo - from.lo
           lo == b % word
           borrow == IF lo > to.lo THEN 1 ELSE 0
           hi == (a - borrow) % word
<1>1. /\ a \in Int /\ b \in Int /\ -word < a /\ a < word /\ -word < b /\ b < word
      /\ word \in Nat /\ 0 < word
  OBVIOUS
<1>2. d = a * word + b
  BY DEF Timers!At
<1>3. Timers!Elapsed(from, to, word) = hi * word + lo
  BY DEF Timers!Elapsed
<1>4. /\ lo \in 0 .. word - 1 /\ b = lo - borrow * word
      /\ borrow \in {0, 1} /\ a - borrow \in -word .. word - 1
  <2>1. CASE b >= 0
    <3>1. lo = b
      BY <1>1, <2>1, Remainder
    <3>2. borrow = 0
      BY <3>1
    <3> QED BY <1>1, <2>1, <3>1, <3>2
  <2>2. CASE b < 0
    <3>1. b + word \in 0 .. word - 1
      BY <1>1, <2>2
    <3>2. ((b + word) - word) % word = b + word
      BY <3>1, Remainder
    <3>3. lo = b + word
      BY <1>1, <3>2
    <3>4. borrow = 1
      BY <3>3
    <3>5. a - 1 \in -word .. word - 1
      BY <1>1
    <3> QED BY <1>1, <3>1, <3>3, <3>4, <3>5
  <2> QED BY <1>1, <2>1, <2>2
<1>5. hi \in 0 .. word - 1 /\ hi \in {a - borrow, a - borrow + word}
  <2> DEFINE e == a - borrow
  <2>1. e \in -word .. word - 1
    BY <1>4
  <2> HIDE DEF e
  <2>2. CASE e >= 0
    <3>1. e \in 0 .. word - 1
      BY <1>1, <2>1, <2>2
    <3>2. e % word = e
      BY <3>1, Remainder
    <3> QED BY <3>1, <3>2 DEF e
  <2>3. CASE e < 0
    <3>1. e + word \in 0 .. word - 1
      BY <1>1, <2>1, <2>3
    <3>2. ((e + word) - word) % word = e + word
      BY <3>1, Remainder
    <3>3. (e + word) - word = e
      BY <1>1, <2>1
    <3> QED BY <3>1, <3>2, <3>3 DEF e
  <2> QED BY <1>1, <2>1, <2>2, <2>3
<1> HIDE DEF lo, borrow, hi, a, b
<1>6. hi * word + lo \in 0 .. word * word - 1
  <2>1. hi * word <= (word - 1) * word /\ 0 <= hi * word /\ hi * word \in Int
    BY <1>1, <1>5
  <2>2. (word - 1) * word = word * word - word /\ word * word \in Nat
    BY <1>1
  <2> QED BY <1>1, <1>4, <2>1, <2>2
<1>7. hi * word + lo \in {d, d + word * word}
  <2>1. d = (a - borrow) * word + lo
    <3>1. (a - borrow) * word = a * word - borrow * word
      BY <1>1, <1>4
    <3>2. a * word \in Int /\ borrow * word \in Int
      BY <1>1, <1>4
    <3>3. d = a * word + (lo - borrow * word)
      BY <1>2, <1>4
    <3>4. lo \in Int
      BY <1>1, <1>4
    <3> DEFINE aw == a * word
               bw == borrow * word
    <3> HIDE DEF aw, bw
    <3>5. d = aw + (lo - bw) /\ (a - borrow) * word = aw - bw /\ aw \in Int /\ bw \in Int
      BY <3>1, <3>2, <3>3 DEF aw, bw
    <3> QED BY <3>4, <3>5
  <2>2. CASE hi = a - borrow
    BY <2>1, <2>2
  <2>3. CASE hi = a - borrow + word
    <3>1. (a - borrow + word) * word = (a - borrow) * word + word * word
      BY <1>1, <1>4
    <3> QED BY <1>1, <1>4, <2>1, <2>3, <3>1
  <2> QED BY <1>5, <2>2, <2>3
<1> QED BY <1>3, <1>6, <1>7

(* get_counter returns the cycles between two readings, if the counter is  *)
(* not behind: "Do double precision subtraction" (clock.c, line 63).       *)
THEOREM CounterExact ==
  ASSUME NEW word \in Nat \ {0}, NEW from \in [hi : 0 .. word - 1, lo : 0 .. word - 1],
         NEW to \in [hi : 0 .. word - 1, lo : 0 .. word - 1],
         Timers!At(from, word) <= Timers!At(to, word)
  PROVE  Timers!Elapsed(from, to, word) = Timers!At(to, word) - Timers!At(from, word)
<1> DEFINE d == Timers!At(to, word) - Timers!At(from, word)
           e == Timers!Elapsed(from, to, word)
           all == word * word
<1>1. Timers!At(from, word) \in Int /\ Timers!At(to, word) \in Int /\ all \in Nat
  BY DEF Timers!At
<1>2. e \in 0 .. all - 1 /\ e \in {d, d + all}
  BY CounterWraps
<1>3. d \in Nat
  BY <1>1
<1> HIDE DEF d, e, all
<1>4. e = d
  BY <1>1, <1>2, <1>3
<1> QED BY <1>4 DEF d, e

(* A reading of the counter has its time.                                  *)
LEMMA PairAt ==
  ASSUME NEW base \in Nat \ {0}, NEW t \in Int
  PROVE  /\ Timers!At(Timers!Pair(t, base), base) = t
         /\ Timers!Pair(t, base).hi \in Int /\ Timers!Pair(t, base).lo \in 0 .. base - 1
<1>1. t = base * (t \div base) + (t % base) /\ t \div base \in Int /\ t % base \in 0 .. base - 1
  OBVIOUS
<1> QED BY <1>1 DEF Timers!At, Timers!Pair

LEMMA PairOfWords ==
  ASSUME NEW base \in Nat \ {0}, NEW t \in 0 .. base * base - 1
  PROVE  Timers!Pair(t, base) \in [hi : 0 .. base - 1, lo : 0 .. base - 1]
<1>1. t = base * (t \div base) + (t % base) /\ t \div base \in Int /\ t % base \in 0 .. base - 1
  OBVIOUS
<1> DEFINE q == t \div base
<1>2. q \in 0 .. base - 1
  <2> HIDE DEF q
  <2>0. base \in Nat /\ t \in Int /\ 0 <= t /\ t < base * base
    OBVIOUS
  <2>1. ASSUME q < 0 PROVE FALSE
    <3>1. base * q <= base * (-1)
      BY <1>1, <2>1 DEF q
    <3> QED BY <1>1, <2>0, <3>1 DEF q
  <2>2. ASSUME q >= base PROVE FALSE
    <3>1. base * q >= base * base
      BY <1>1, <2>2 DEF q
    <3> QED BY <1>1, <2>0, <3>1 DEF q
  <2> QED BY <1>1, <2>1, <2>2 DEF q
<1> QED BY <1>1, <1>2 DEF Timers!Pair

(* Between two readings less than a whole count passes: get_counter tells  *)
(* how much, however the words wrapped around.                             *)
LEMMA CounterTells ==
  ASSUME NEW word \in Nat \ {0}, NEW t \in 0 .. word * word - 1, NEW d \in 0 .. word * word - 1,
         NEW u, u = (t + d) % (word * word)
  PROVE  /\ u \in 0 .. word * word - 1
         /\ Timers!Elapsed(Timers!Pair(t, word), Timers!Pair(u, word), word) = d
<1> DEFINE all == word * word
<1>0. all \in Nat \ {0}
  OBVIOUS
<1>1. u \in 0 .. all - 1 /\ u \in {t + d, t + d - all}
  <2> HIDE DEF all
  <2>1. CASE t + d < all
    <3>1. t + d \in 0 .. all - 1
      BY <1>0, <2>1 DEF all
    <3>2. (t + d) % all = t + d
      BY <1>0, <3>1, Remainder
    <3> QED BY <3>1, <3>2 DEF all
  <2>2. CASE t + d >= all
    <3>0. t \in 0 .. all - 1 /\ d \in 0 .. all - 1
      BY DEF all
    <3>1. t + d - all \in 0 .. all - 1
      BY <1>0, <2>2, <3>0
    <3>2. (t + d) % all = t + d - all
      BY <1>0, <2>2, <3>0
    <3> QED BY <3>1, <3>2 DEF all
  <2> QED BY <1>0, <2>1, <2>2 DEF all
<1> DEFINE from == Timers!Pair(t, word)
           to == Timers!Pair(u, word)
           e == Timers!Elapsed(from, to, word)
<1>2. from \in [hi : 0 .. word - 1, lo : 0 .. word - 1] /\ to \in [hi : 0 .. word - 1, lo : 0 .. word - 1]
  BY <1>1, PairOfWords
<1>3. Timers!At(from, word) = t /\ Timers!At(to, word) = u
  BY <1>0, <1>1, PairAt
<1> HIDE DEF from, to
<1>4. e \in 0 .. all - 1 /\ e \in {u - t, u - t + all}
  BY <1>2, <1>3, CounterWraps
<1> HIDE DEF e, all
<1>5. t \in 0 .. all - 1 /\ d \in 0 .. all - 1
  BY DEF all
<1>6. e = d
  BY <1>0, <1>1, <1>4, <1>5
<1> QED BY <1>1, <1>6 DEF e, all, from, to

-----------------------------------------------------------------------------
(* add_sample.  Sift goes down from the place p, and moves what it passes  *)
(* up by one, until it is at a place j.                                    *)
Slots == 1 .. Kbest

LEMMA SlotNumbers ==
  /\ Kbest \in Nat /\ 1 <= Kbest
  /\ \A i \in Slots : i \in Nat /\ 1 <= i /\ i <= Kbest
  /\ 1 \in Slots /\ Kbest \in Slots
<1>1. Kbest \in Nat \ {0}
  BY TimersAssumption
<1> QED BY <1>1 DEF Slots

Place(v, p, j) ==
  [i \in Slots |-> IF i = j THEN v[p] ELSE IF j < i /\ i <= p THEN v[i - 1] ELSE v[i]]
Passed(v, p, j) == \A i \in j .. p - 1 : v[i] > v[p]
Lower(x) == [kept |-> [x.kept EXCEPT ![x.pos - 1] = x.kept[x.pos], ![x.pos] = x.kept[x.pos - 1]],
             pos |-> x.pos - 1]
Goes(x) == x.pos > 1 /\ x.kept[x.pos - 1] > x.kept[x.pos]

LEMMA LowerPlace ==
  ASSUME NEW v \in [Slots -> Int], NEW p \in Slots, NEW j \in 1 .. p, Passed(v, p, j),
         NEW x, x = [kept |-> Place(v, p, j), pos |-> j]
  PROVE  /\ x \in [kept : [Slots -> Int], pos : Slots]
         /\ Goes(x) => /\ j > 1
                       /\ Lower(x) = [kept |-> Place(v, p, j - 1), pos |-> j - 1]
                       /\ Passed(v, p, j - 1)
         /\ ~Goes(x) => (j > 1 => v[j - 1] <= v[p])
<1>0. Kbest \in Nat /\ p \in Nat /\ j \in Nat /\ p <= Kbest /\ j <= p /\ 1 <= j
  BY SlotNumbers DEF Slots
<1>1. \A i \in Slots : v[i] \in Int
  OBVIOUS
<1>2. Place(v, p, j) \in [Slots -> Int]
  <2>1. \A i \in Slots : j < i /\ i <= p => i - 1 \in Slots
    BY <1>0 DEF Slots
  <2> QED BY <1>1, <2>1 DEF Place
<1>3. j \in Slots
  BY <1>0 DEF Slots
<1>4. x.kept = Place(v, p, j) /\ x.pos = j
  OBVIOUS
<1>5. Place(v, p, j)[j] = v[p]
  BY <1>3 DEF Place
<1>6. ASSUME j > 1 PROVE j - 1 \in Slots /\ Place(v, p, j)[j - 1] = v[j - 1]
  <2>1. j - 1 \in Slots
    BY <1>0, <1>6 DEF Slots
  <2> QED BY <1>0, <2>1 DEF Place
<1>7. ASSUME Goes(x) PROVE j > 1 /\ v[j - 1] > v[p]
  BY <1>4, <1>5, <1>6, <1>7 DEF Goes
<1>8. ASSUME Goes(x) PROVE Lower(x) = [kept |-> Place(v, p, j - 1), pos |-> j - 1]
  <2> DEFINE w == [Place(v, p, j) EXCEPT ![j - 1] = v[p], ![j] = v[j - 1]]
  <2>1. Lower(x) = [kept |-> w, pos |-> j - 1]
    BY <1>4, <1>5, <1>6, <1>7, <1>8 DEF Lower
  <2>2. \A i \in Slots : w[i] = Place(v, p, j - 1)[i]
    <3> SUFFICES ASSUME NEW i \in Slots PROVE w[i] = Place(v, p, j - 1)[i]
      OBVIOUS
    <3>0. i \in Nat /\ j - 1 \in Nat /\ j > 1
      BY <1>0, <1>7, <1>8 DEF Slots
    <3>1. w[i] = IF i = j THEN v[j - 1] ELSE IF i = j - 1 THEN v[p] ELSE Place(v, p, j)[i]
      BY <1>0, <1>2, <3>0
    <3>2. Place(v, p, j)[i] = IF i = j THEN v[p] ELSE IF j < i /\ i <= p THEN v[i - 1] ELSE v[i]
      BY DEF Place
    <3>3. Place(v, p, j - 1)[i]
            = IF i = j - 1 THEN v[p] ELSE IF j - 1 < i /\ i <= p THEN v[i - 1] ELSE v[i]
      BY DEF Place
    <3> HIDE DEF w
    <3> QED BY <1>0, <3>0, <3>1, <3>2, <3>3
  <2>3. w = Place(v, p, j - 1)
    <3>1. w = [i \in Slots |-> w[i]]
      BY DEF Place
    <3>2. Place(v, p, j - 1) = [i \in Slots |-> Place(v, p, j - 1)[i]]
      BY DEF Place
    <3> HIDE DEF w
    <3> QED BY <2>2, <3>1, <3>2
  <2> QED BY <2>1, <2>3
<1>9. ASSUME Goes(x) PROVE Passed(v, p, j - 1)
  BY <1>0, <1>7, <1>9 DEF Passed
<1>10. ASSUME ~Goes(x), j > 1 PROVE v[j - 1] <= v[p]
  BY <1>1, <1>4, <1>5, <1>6, <1>10 DEF Goes
<1>11. x \in [kept : [Slots -> Int], pos : Slots]
  BY <1>2, <1>3
<1> QED BY <1>7, <1>8, <1>9, <1>10, <1>11

LEMMA SiftPlaces ==
  ASSUME NEW v \in [Slots -> Int], NEW p \in Slots
  PROVE  \E j \in 1 .. p : /\ Timers!Sift[[kept |-> v, pos |-> p]] = Place(v, p, j)
                           /\ j > 1 => v[j - 1] <= v[p]
                           /\ Passed(v, p, j)
<1> DEFINE S == [kept : [Slots -> Int], pos : Slots]
           Body(f, x) == IF Goes(x) THEN f[Lower(x)] ELSE x.kept
           Stop == {x \in S : ~Goes(x)}
           val == [x \in S |-> x.kept]
           g == [x \in S |-> Lower(x)]
           At0(j) == [kept |-> Place(v, p, j), pos |-> j]
           P == {At0(j) : j \in {k \in 1 .. p : Passed(v, p, k)}}
           Good(j) == (j > 1 => v[j - 1] <= v[p]) /\ Passed(v, p, j)
           R == {Place(v, p, j) : j \in {k \in 1 .. p : Good(k)}}
           mu == [x \in S |-> x.pos]
<1>0. Kbest \in Nat /\ p \in Nat /\ 1 <= p /\ p <= Kbest
  BY SlotNumbers DEF Slots
<1>1. ASSUME NEW x \in S, Goes(x) PROVE Lower(x) \in S
  <2>1. x.pos \in Slots /\ x.pos - 1 \in Slots /\ x.kept \in [Slots -> Int]
    BY <1>0, <1>1 DEF Goes, Slots
  <2> QED BY <2>1 DEF Lower
<1>2. Tree!Closed(S, S, Stop, g)
  BY <1>1 DEF Tree!Closed
<1>3. \E f : Tree!Climbs(f, S, Stop, val, g)
  <2> HIDE DEF S, Stop, val, g
  <2> QED BY <1>2, Tree!ClimbExists
<1>4. \A f : \A x \in S : Tree!Step(f, Stop, val, g, x) = Body(f, x)
  BY DEF Tree!Step
<1>5. \A f : Tree!Climbs(f, S, Stop, val, g) <=> f = [x \in S |-> Body(f, x)]
  <2> HIDE DEF S, Stop, val, g, Body
  <2> QED BY <1>4 DEF Tree!Climbs
<1> DEFINE c == CHOOSE f : f = [x \in S |-> Body(f, x)]
<1>6. Timers!Sift = c
  BY DEF Timers!Sift, Timers!Unsorted, Goes, Lower, Slots
<1>7. Tree!Climbs(c, S, Stop, val, g)
  <2> HIDE DEF S, Stop, val, g, Body
  <2> QED BY <1>3, <1>5
<1>8. ASSUME NEW j \in 1 .. p, Passed(v, p, j), NEW x, x = At0(j)
      PROVE  /\ x \in S /\ mu[x] \in Nat
             /\ x \in Stop => val[x] \in R
             /\ x \notin Stop => g[x] \in P /\ mu[g[x]] < mu[x]
  <2>0. j \in Nat /\ 1 <= j /\ j <= p
    BY <1>0
  <2>1. /\ x \in S
        /\ Goes(x) => j > 1 /\ Lower(x) = At0(j - 1) /\ Passed(v, p, j - 1)
        /\ ~Goes(x) => Good(j)
    BY <1>8, LowerPlace
  <2>2. mu[x] = j /\ val[x] = Place(v, p, j) /\ g[x] = Lower(x)
    BY <1>8, <2>1
  <2>3. ASSUME x \in Stop PROVE val[x] \in R
    BY <2>1, <2>2, <2>3
  <2>4. ASSUME x \notin Stop PROVE g[x] \in P /\ mu[g[x]] < mu[x]
    <3>1. Goes(x) /\ j > 1 /\ Lower(x) = At0(j - 1) /\ Passed(v, p, j - 1)
      BY <2>1, <2>4
    <3>2. Lower(x) \in S /\ (At0(j - 1)).pos = j - 1
      BY <1>1, <2>1, <3>1
    <3>3. mu[Lower(x)] = j - 1
      BY <3>1, <3>2
    <3>4. j - 1 \in 1 .. p
      BY <2>0, <1>0, <3>1
    <3>5. At0(j - 1) \in P
      BY <3>1, <3>4
    <3> HIDE DEF P, mu, g, At0
    <3> QED BY <2>0, <2>2, <3>1, <3>3, <3>5
  <2> HIDE DEF P, mu, g, val, R, Stop, S
  <2> QED BY <2>0, <2>1, <2>2, <2>3, <2>4
<1>9. P \subseteq S /\ Tree!Leads(P, R, Stop, val, g, mu)
  <2> HIDE DEF S, Stop, val, g, R, mu, At0
  <2> QED BY <1>8 DEF Tree!Leads
<1>10. At0(p) \in P /\ At0(p) = [kept |-> v, pos |-> p]
  <2>1. Place(v, p, p) = v
    <3>1. \A i \in Slots : Place(v, p, p)[i] = v[i]
      BY <1>0 DEF Place, Slots
    <3>2. v = [i \in Slots |-> v[i]] /\ Place(v, p, p) = [i \in Slots |-> Place(v, p, p)[i]]
      BY DEF Place
    <3> QED BY <3>1, <3>2
  <2>2. Passed(v, p, p) /\ p \in 1 .. p
    BY <1>0 DEF Passed
  <2> QED BY <2>1, <2>2
<1>11. c[At0(p)] \in R
  <2> HIDE DEF c, S, Stop, val, g, mu, P, R, At0
  <2> QED BY <1>7, <1>9, <1>10, Tree!ClimbEnds
<1>12. Timers!Sift[[kept |-> v, pos |-> p]] \in R
  <2> HIDE DEF c, R, At0
  <2> QED BY <1>6, <1>10, <1>11
<1> QED BY <1>12

(* How many runs took less than x, and at most x.                          *)
Less(rs, x) == {k \in DOMAIN rs : rs[k] < x}
UpTo(rs, x) == {k \in DOMAIN rs : rs[k] <= x}
NumLess(rs, x) == Cardinality(Less(rs, x))
NumUpTo(rs, x) == Cardinality(UpTo(rs, x))

LEMMA RunsFinite ==
  ASSUME NEW n \in Nat, NEW T \in SUBSET (1 .. n)
  PROVE  IsFiniteSet(T) /\ Cardinality(T) \in Nat /\ Cardinality(T) <= n
<1>1. IsFiniteSet(1 .. n) /\ Cardinality(1 .. n) = n
  BY FS_Interval
<1>2. IsFiniteSet(T) /\ Cardinality(T) <= n
  BY <1>1, FS_Subset, Zenon
<1> QED BY <1>2, FS_CardinalityType

LEMMA RunsCounted ==
  ASSUME NEW rs \in Seq(Int), NEW y \in Int
  PROVE  /\ NumLess(rs, y) \in Nat /\ NumLess(rs, y) <= Len(rs)
         /\ NumUpTo(rs, y) \in Nat /\ NumUpTo(rs, y) <= Len(rs)
<1>1. DOMAIN rs = 1 .. Len(rs) /\ Len(rs) \in Nat
  OBVIOUS
<1>2. Less(rs, y) \in SUBSET (1 .. Len(rs)) /\ UpTo(rs, y) \in SUBSET (1 .. Len(rs))
  BY <1>1 DEF Less, UpTo
<1> QED BY <1>1, <1>2, RunsFinite DEF NumLess, NumUpTo

LEMMA CountsOrdered ==
  ASSUME NEW rs \in Seq(Int), NEW y \in Int, NEW z \in Int, y <= z
  PROVE  NumLess(rs, y) <= NumLess(rs, z) /\ NumUpTo(rs, y) <= NumUpTo(rs, z)
<1>1. DOMAIN rs = 1 .. Len(rs) /\ Len(rs) \in Nat /\ \A k \in 1 .. Len(rs) : rs[k] \in Int
  OBVIOUS
<1>2. Less(rs, z) \in SUBSET (1 .. Len(rs)) /\ UpTo(rs, z) \in SUBSET (1 .. Len(rs))
  BY <1>1 DEF Less, UpTo
<1>3. IsFiniteSet(Less(rs, z)) /\ IsFiniteSet(UpTo(rs, z))
  BY <1>1, <1>2, RunsFinite
<1>4. Less(rs, y) \in SUBSET Less(rs, z) /\ UpTo(rs, y) \in SUBSET UpTo(rs, z)
  BY <1>1 DEF Less, UpTo
<1> QED BY <1>3, <1>4, FS_Subset DEF NumLess, NumUpTo

Grown(rs, x, y) ==
  /\ NumLess(rs, y) \in Nat /\ NumUpTo(rs, y) \in Nat
  /\ NumLess(Append(rs, x), y) = NumLess(rs, y) + (IF x < y THEN 1 ELSE 0)
  /\ NumUpTo(Append(rs, x), y) = NumUpTo(rs, y) + (IF x <= y THEN 1 ELSE 0)

LEMMA CountsGrow ==
  ASSUME NEW rs \in Seq(Int), NEW x \in Int, NEW y \in Int
  PROVE  Grown(rs, x, y)
<1> DEFINE n == Len(rs)
           last == n + 1
<1>0. /\ n \in Nat /\ DOMAIN rs = 1 .. n /\ \A k \in 1 .. n : rs[k] \in Int
      /\ DOMAIN Append(rs, x) = 1 .. n + 1
      /\ \A k \in 1 .. n : Append(rs, x)[k] = rs[k]
      /\ Append(rs, x)[n + 1] = x
  OBVIOUS
<1>1. Less(rs, y) \in SUBSET (1 .. n) /\ UpTo(rs, y) \in SUBSET (1 .. n)
  BY <1>0 DEF Less, UpTo
<1>2. /\ IsFiniteSet(Less(rs, y)) /\ NumLess(rs, y) \in Nat
      /\ IsFiniteSet(UpTo(rs, y)) /\ NumUpTo(rs, y) \in Nat
  BY <1>0, <1>1, RunsFinite DEF NumLess, NumUpTo
<1>3. last \notin Less(rs, y) /\ last \notin UpTo(rs, y)
  BY <1>0, <1>1
<1>4. /\ Cardinality(Less(rs, y) \cup {last}) = NumLess(rs, y) + 1
      /\ Cardinality(UpTo(rs, y) \cup {last}) = NumUpTo(rs, y) + 1
  <2> HIDE DEF last
  <2> QED BY <1>2, <1>3, FS_AddElement DEF NumLess, NumUpTo
<1>5. Less(Append(rs, x), y) = Less(rs, y) \cup (IF x < y THEN {last} ELSE {})
  BY <1>0 DEF Less
<1>6. UpTo(Append(rs, x), y) = UpTo(rs, y) \cup (IF x <= y THEN {last} ELSE {})
  BY <1>0 DEF UpTo
<1>7. NumLess(Append(rs, x), y) = NumLess(rs, y) + (IF x < y THEN 1 ELSE 0)
  <2>1. CASE x < y
    <3>1. Less(Append(rs, x), y) = Less(rs, y) \cup {last}
      BY <1>5, <2>1
    <3> QED BY <1>4, <2>1, <3>1 DEF NumLess
  <2>2. CASE ~(x < y)
    <3>1. Less(Append(rs, x), y) = Less(rs, y)
      BY <1>5, <2>2
    <3> QED BY <1>2, <2>2, <3>1 DEF NumLess
  <2> QED BY <2>1, <2>2
<1>8. NumUpTo(Append(rs, x), y) = NumUpTo(rs, y) + (IF x <= y THEN 1 ELSE 0)
  <2>1. CASE x <= y
    <3>1. UpTo(Append(rs, x), y) = UpTo(rs, y) \cup {last}
      BY <1>6, <2>1
    <3> QED BY <1>4, <2>1, <3>1 DEF NumUpTo
  <2>2. CASE ~(x <= y)
    <3>1. UpTo(Append(rs, x), y) = UpTo(rs, y)
      BY <1>6, <2>2
    <3> QED BY <1>2, <2>2, <3>1 DEF NumUpTo
  <2> QED BY <2>1, <2>2
<1> QED BY <1>2, <1>7, <1>8 DEF Grown

(* Of the runs rs, v holds the least in order: v[i] is the i-th of them.   *)
Ith(v, rs, i) == NumLess(rs, v[i]) < i /\ i <= NumUpTo(rs, v[i])
Best(v, rs) ==
  /\ \A i \in Slots : i <= Len(rs) => Ith(v, rs, i)
  /\ \A i, k \in Slots : i <= k /\ k <= Len(rs) => v[i] <= v[k]

LEMMA SampleInserted ==
  ASSUME NEW v \in [Slots -> Int], NEW rs \in Seq(Int), Best(v, rs), NEW x \in Int,
         NEW p \in Slots, p = (IF Len(rs) < Kbest THEN Len(rs) + 1 ELSE Kbest),
         Len(rs) < Kbest \/ x < v[Kbest],
         NEW u, u = [v EXCEPT ![p] = x],
         NEW j \in 1 .. p, j > 1 => u[j - 1] <= u[p], Passed(u, p, j)
  PROVE  Best(Place(u, p, j), Append(rs, x))
<1> DEFINE n == Len(rs)
           w == Place(u, p, j)
           more == Append(rs, x)
<1>a. n \in Nat /\ Len(more) = n + 1
  OBVIOUS
<1>b. Kbest \in Nat /\ \A i \in Slots : i \in Nat /\ 1 <= i /\ i <= Kbest
  BY SlotNumbers
<1>c. p \in Nat /\ j \in Nat /\ 1 <= j /\ j <= p /\ p <= Kbest
  BY <1>b
<1>d. p - 1 <= n /\ p <= n + 1 /\ (n + 1 < p + 1 \/ p = Kbest)
  <2> HIDE DEF n
  <2> QED BY <1>a, <1>b, <1>c DEF n
<1>e. \A i \in Slots : v[i] \in Int
  OBVIOUS
<1>0. /\ n \in Nat /\ Kbest \in Nat /\ p \in Nat /\ j \in Nat /\ 1 <= j /\ j <= p /\ p <= Kbest
      /\ p - 1 <= n /\ p <= n + 1
      /\ \A i \in Slots : i \in Nat /\ 1 <= i /\ i <= Kbest /\ v[i] \in Int
      /\ Len(more) = n + 1
  BY <1>a, <1>b, <1>c, <1>d, <1>e
<1>1. u[p] = x /\ \A i \in Slots : i # p => u[i] = v[i]
  OBVIOUS
<1>2. ASSUME NEW i \in Slots, i <= p
      PROVE  /\ i < j => w[i] = v[i] /\ i <= n
             /\ i = j => w[i] = x
             /\ i > j => w[i] = v[i - 1] /\ i - 1 \in Slots /\ i - 1 <= n /\ x < v[i - 1]
  <2>1. w[i] = IF i = j THEN x ELSE IF j < i THEN u[i - 1] ELSE u[i]
    BY <1>1, <1>2 DEF Place
  <2>2. ASSUME i > j PROVE i - 1 \in Slots /\ i - 1 # p /\ i - 1 <= n /\ i - 1 \in j .. p - 1
    BY <1>0, <1>2, <2>2 DEF Slots
  <2>3. ASSUME i > j PROVE x < v[i - 1]
    BY <1>0, <1>1, <2>2, <2>3 DEF Passed
  <2> QED BY <1>0, <1>1, <1>2, <2>1, <2>2, <2>3
<1>3. j > 1 => j - 1 \in Slots /\ j - 1 <= n /\ v[j - 1] <= x
  <2> SUFFICES ASSUME j > 1 PROVE j - 1 \in Slots /\ j - 1 <= n /\ v[j - 1] <= x
    OBVIOUS
  <2>1. j - 1 \in Slots /\ j - 1 <= n /\ j - 1 # p
    BY <1>0 DEF Slots
  <2>2. u[j - 1] = v[j - 1] /\ u[j - 1] <= u[p]
    BY <1>1, <2>1
  <2> QED BY <1>1, <2>1, <2>2
<1>4. \A i \in Slots : i < j => v[i] <= x
  <2> SUFFICES ASSUME NEW i \in Slots, i < j PROVE v[i] <= x
    OBVIOUS
  <2>1. j - 1 \in Slots /\ j - 1 <= n /\ v[j - 1] <= x /\ i <= j - 1 /\ v[j - 1] \in Int
    BY <1>0, <1>3
  <2>2. v[i] <= v[j - 1]
    BY <2>1 DEF Best
  <2> QED BY <1>0, <2>1, <2>2
<1>5. \A i \in Slots : i <= n + 1 => i <= p
  BY <1>0, <1>d
<1>6. ASSUME NEW i \in Slots, i <= n + 1 PROVE Ith(w, more, i)
  <2>0. i <= p /\ i \in Nat
    BY <1>0, <1>5, <1>6
  <2>1. CASE i < j
    <3>1. w[i] = v[i] /\ i <= n /\ v[i] <= x /\ v[i] \in Int
      BY <1>0, <1>2, <1>4, <2>0, <2>1
    <3>2. Ith(v, rs, i)
      BY <3>1 DEF Best
    <3>3. Grown(rs, x, v[i])
      BY <3>1, CountsGrow
    <3> HIDE DEF w
    <3>4. NumLess(more, v[i]) < i /\ i <= NumUpTo(more, v[i])
      BY <2>0, <3>1, <3>2, <3>3 DEF Ith, Grown
    <3> HIDE DEF more
    <3> QED BY <3>1, <3>4, Zenon DEF Ith
  <2>2. CASE i = j
    <3>1. w[i] = x
      BY <1>2, <2>0, <2>2
    <3>a. Grown(rs, x, x)
      BY CountsGrow
    <3>b. NumLess(rs, x) <= n
      BY RunsCounted
    <3>2. /\ NumLess(rs, x) \in Nat /\ NumUpTo(rs, x) \in Nat
          /\ NumLess(rs, x) <= n
          /\ NumLess(more, x) = NumLess(rs, x)
          /\ NumUpTo(more, x) = NumUpTo(rs, x) + 1
      BY <3>a, <3>b DEF Grown
    <3>3. NumLess(rs, x) < j
      <4>1. CASE j <= n
        <5>1. j \in Slots /\ Ith(v, rs, j)
          BY <1>0, <2>2, <4>1 DEF Best
        <5>2. x <= v[j] /\ v[j] \in Int
          <6>1. CASE j < p
            BY <1>0, <1>1, <5>1, <6>1 DEF Passed
          <6>2. CASE j = p
            BY <1>0, <4>1, <6>2
          <6> QED BY <1>0, <6>1, <6>2
        <5>3. /\ NumLess(rs, x) <= NumLess(rs, v[j])
              /\ NumLess(rs, v[j]) \in Nat
          BY <5>2, RunsCounted, CountsOrdered
        <5> QED BY <1>0, <3>2, <5>1, <5>3 DEF Ith
      <4>2. CASE j > n
        BY <1>0, <3>2, <4>2
      <4> QED BY <1>0, <4>1, <4>2
    <3>4. j <= NumUpTo(rs, x) + 1
      <4>1. CASE j > 1
        <5>1. j - 1 \in Slots /\ j - 1 <= n /\ v[j - 1] <= x /\ v[j - 1] \in Int
          BY <1>0, <1>3, <4>1
        <5>2. Ith(v, rs, j - 1)
          BY <5>1 DEF Best
        <5>3. /\ NumUpTo(rs, v[j - 1]) <= NumUpTo(rs, x)
              /\ NumUpTo(rs, v[j - 1]) \in Nat
          BY <5>1, RunsCounted, CountsOrdered
        <5> QED BY <1>0, <3>2, <5>2, <5>3 DEF Ith
      <4> QED BY <1>0, <3>2, <4>1
    <3> HIDE DEF w, more
    <3> QED BY <1>0, <2>2, <3>1, <3>2, <3>3, <3>4 DEF Ith
  <2>3. CASE i > j
    <3>1. w[i] = v[i - 1] /\ i - 1 \in Slots /\ i - 1 <= n /\ x < v[i - 1] /\ v[i - 1] \in Int
      BY <1>0, <1>2, <2>0, <2>3
    <3>2. Ith(v, rs, i - 1)
      BY <3>1 DEF Best
    <3>3. Grown(rs, x, v[i - 1])
      BY <3>1, CountsGrow
    <3> HIDE DEF w
    <3>4. NumLess(more, v[i - 1]) < i /\ i <= NumUpTo(more, v[i - 1])
      BY <2>0, <3>1, <3>2, <3>3 DEF Ith, Grown
    <3> HIDE DEF more
    <3> QED BY <3>1, <3>4, Zenon DEF Ith
  <2> QED BY <1>0, <2>0, <2>1, <2>2, <2>3
<1>7. ASSUME NEW i \in Slots, NEW k \in Slots, i <= k, k <= n + 1 PROVE w[i] <= w[k]
  <2>0. i <= p /\ k <= p /\ i \in Nat /\ k \in Nat
    BY <1>0, <1>5, <1>7
  <2>s. \A a, b \in Slots : a <= b /\ b <= n => v[a] <= v[b]
    BY DEF Best
  <2> HIDE DEF w, n, more
  <2>1. CASE k < j
    <3>1. w[k] = v[k] /\ k <= n
      BY <1>2, <2>0, <2>1
    <3>2. w[i] = v[i]
      BY <1>0, <1>2, <1>7, <2>0, <2>1
    <3> QED BY <1>7, <2>s, <3>1, <3>2
  <2>2. CASE k = j
    <3>1. w[k] = x /\ x <= x
      BY <1>2, <2>0, <2>2
    <3>2. CASE i < j
      <4>1. w[i] = v[i] /\ v[i] <= x
        BY <1>2, <1>4, <2>0, <3>2
      <4> QED BY <3>1, <4>1
    <3>3. CASE i = j
      <4>1. w[i] = x
        BY <1>2, <2>0, <3>3
      <4> QED BY <3>1, <4>1
    <3> QED BY <1>0, <1>7, <2>0, <2>2, <3>2, <3>3
  <2>3. CASE k > j
    <3>1. w[k] = v[k - 1] /\ k - 1 \in Slots /\ k - 1 <= n /\ x < v[k - 1] /\ v[k - 1] \in Int
      BY <1>0, <1>2, <2>0, <2>3
    <3>2. CASE i < j
      <4>1. w[i] = v[i] /\ i <= k - 1
        BY <1>0, <1>2, <2>0, <2>3, <3>2
      <4> QED BY <2>s, <3>1, <4>1
    <3>3. CASE i = j
      <4>1. w[i] = x
        BY <1>2, <2>0, <3>3
      <4> QED BY <3>1, <4>1
    <3>4. CASE i > j
      <4>1. w[i] = v[i - 1] /\ i - 1 \in Slots /\ i - 1 <= k - 1
        BY <1>0, <1>2, <1>7, <2>0, <3>4
      <4> QED BY <2>s, <3>1, <4>1
    <3> QED BY <1>0, <2>0, <3>2, <3>3, <3>4
  <2> QED BY <1>0, <2>0, <2>1, <2>2, <2>3
<1> QED BY <1>0, <1>6, <1>7 DEF Best

LEMMA SampleDropped ==
  ASSUME NEW v \in [Slots -> Int], NEW rs \in Seq(Int), Best(v, rs), NEW x \in Int,
         Len(rs) >= Kbest, v[Kbest] <= x
  PROVE  Best(v, Append(rs, x))
<1>0. /\ Kbest \in Slots /\ Len(rs) \in Nat /\ Kbest \in Nat
      /\ \A i \in Slots : i \in Nat /\ i <= Kbest /\ v[i] \in Int
  BY SlotNumbers
<1>1. ASSUME NEW i \in Slots PROVE Ith(v, Append(rs, x), i)
  <2>1. v[i] <= v[Kbest] /\ Ith(v, rs, i)
    BY <1>0 DEF Best
  <2>2. v[i] <= x
    BY <1>0, <2>1
  <2>3. Grown(rs, x, v[i])
    BY <1>0, CountsGrow
  <2> QED BY <1>0, <2>1, <2>2, <2>3 DEF Ith, Grown
<1>2. \A i, k \in Slots : i <= k => v[i] <= v[k]
  BY <1>0 DEF Best
<1> QED BY <1>1, <1>2 DEF Best

(* What the K-best scheme keeps is right after add_sample.                 *)
LEMMA AddSampleKeeps ==
  ASSUME NEW x \in Int, values \in [Slots -> Int], runs \in Seq(Int), samplecount = Len(runs),
         Best(values, runs)
  PROVE  /\ Timers!AddSample(x) \in [Slots -> Int]
         /\ Best(Timers!AddSample(x), Append(runs, x))
<1>0. /\ Kbest \in Nat /\ Kbest \in Slots /\ Len(runs) \in Nat
      /\ values[Kbest] \in Int
  BY SlotNumbers
<1>1. ASSUME NEW p \in Slots, p = (IF Len(runs) < Kbest THEN Len(runs) + 1 ELSE Kbest),
             Len(runs) < Kbest \/ x < values[Kbest]
      PROVE  /\ Timers!Insert(x, p) \in [Slots -> Int]
             /\ Best(Timers!Insert(x, p), Append(runs, x))
  <2> DEFINE u == [values EXCEPT ![p] = x]
  <2>1. u \in [Slots -> Int]
    OBVIOUS
  <2>2. Timers!Insert(x, p) = Timers!Sift[[kept |-> u, pos |-> p]]
    BY DEF Timers!Insert
  <2> HIDE DEF u
  <2>3. PICK j \in 1 .. p : /\ Timers!Sift[[kept |-> u, pos |-> p]] = Place(u, p, j)
                            /\ j > 1 => u[j - 1] <= u[p]
                            /\ Passed(u, p, j)
    BY <2>1, SiftPlaces
  <2>4. Best(Place(u, p, j), Append(runs, x))
    BY <1>1, <2>3, SampleInserted DEF u
  <2>5. Place(u, p, j) \in [Slots -> Int]
    <3>1. \A i \in Slots : j < i /\ i <= p => i - 1 \in Slots
      BY <1>0 DEF Slots
    <3>2. \A i \in Slots : u[i] \in Int
      BY <2>1
    <3> QED BY <3>1, <3>2 DEF Place
  <2> QED BY <2>2, <2>3, <2>4, <2>5
<1>2. CASE samplecount < Kbest
  <2>1. Timers!AddSample(x) = Timers!Insert(x, samplecount + 1)
    BY <1>2 DEF Timers!AddSample
  <2>2. samplecount + 1 \in Slots
    BY <1>0, <1>2 DEF Slots
  <2> QED BY <1>1, <1>2, <2>1, <2>2
<1>3. CASE ~(samplecount < Kbest) /\ x < values[Kbest]
  <2>1. Timers!AddSample(x) = Timers!Insert(x, Kbest)
    BY <1>3 DEF Timers!AddSample
  <2> QED BY <1>0, <1>1, <1>3, <2>1
<1>4. CASE ~(samplecount < Kbest) /\ ~(x < values[Kbest])
  <2>1. Timers!AddSample(x) = values
    BY <1>4 DEF Timers!AddSample
  <2>2. Len(runs) >= Kbest /\ values[Kbest] <= x
    BY <1>0, <1>4
  <2> QED BY <2>1, <2>2, SampleDropped
<1> QED BY <1>2, <1>3, <1>4

-----------------------------------------------------------------------------
(* Total: the sums of the first runs.                                      *)
Plus(x, y) == x + y
Sums(f, rs) == \A k \in Nat : f[k] = IF k = 0 THEN 0 ELSE Plus(f[k - 1], rs[k])
TotalOf(rs) == CHOOSE f : f = [k \in Nat |-> IF k = 0 THEN 0 ELSE Plus(f[k - 1], rs[k])]

LEMMA SumsExist == ASSUME NEW rs PROVE Sums(TotalOf(rs), rs)
<1> DEFINE Upto(g, n) == \A k \in 0 .. n : g[k] = IF k = 0 THEN 0 ELSE Plus(g[k - 1], rs[k])
           Bad == {n \in Nat : ~ \E g : Upto(g, n)}
<1>1. Bad = {}
  <2> SUFFICES ASSUME Bad # {} PROVE FALSE
    OBVIOUS
  <2>1. PICK n \in Bad : \A k \in Bad : n <= k
    <3>1. Bad \in SUBSET Nat
      OBVIOUS
    <3> HIDE DEF Bad
    <3> QED BY <3>1, Tree!LeastNumber
  <2>2. n \in Nat /\ ~ \E g : Upto(g, n)
    OBVIOUS
  <2>3. CASE n = 0
    <3> DEFINE g == [k \in {0} |-> 0]
    <3>1. Upto(g, 0)
      OBVIOUS
    <3> HIDE DEF g, Upto
    <3> QED BY <2>2, <2>3, <3>1
  <2>4. CASE n # 0
    <3>1. n - 1 \in Nat /\ ~(n <= n - 1)
      BY <2>2, <2>4
    <3>2. n - 1 \notin Bad
      <4> HIDE DEF Bad
      <4> QED BY <2>1, <3>1
    <3>3. PICK g : Upto(g, n - 1)
      <4> HIDE DEF Upto
      <4> QED BY <3>1, <3>2
    <3> DEFINE h == [k \in 0 .. n |-> IF k = n THEN Plus(g[n - 1], rs[n]) ELSE g[k]]
    <3>4. ASSUME NEW k \in 0 .. n PROVE h[k] = IF k = 0 THEN 0 ELSE Plus(h[k - 1], rs[k])
      <4>1. CASE k = n
        <5>1. h[k] = Plus(g[n - 1], rs[n])
          BY <4>1
        <5>2. n - 1 \in 0 .. n /\ n - 1 # n
          BY <2>2, <3>1
        <5>3. h[n - 1] = g[n - 1]
          BY <5>2
        <5> HIDE DEF h
        <5> QED BY <2>4, <4>1, <5>1, <5>3
      <4>2. CASE k # n
        <5>1. k \in 0 .. n - 1 /\ k \in Nat
          BY <2>2, <4>2
        <5>2. h[k] = g[k]
          BY <4>2
        <5>3. g[k] = IF k = 0 THEN 0 ELSE Plus(g[k - 1], rs[k])
          BY <3>3, <5>1
        <5>4. k # 0 => h[k - 1] = g[k - 1]
          BY <2>2, <5>1
        <5> HIDE DEF h
        <5> QED BY <5>2, <5>3, <5>4
      <4> QED BY <4>1, <4>2
    <3>5. Upto(h, n)
      <4> HIDE DEF h
      <4> QED BY <3>4
    <3> HIDE DEF Upto, h
    <3> QED BY <2>2, <3>5
  <2> QED BY <2>3, <2>4
<1>2. \A n \in Nat : \E g : Upto(g, n)
  <2> HIDE DEF Upto
  <2> QED BY <1>1
<1>3. ASSUME NEW g, NEW h, NEW n \in Nat, NEW m \in Nat, Upto(g, n), Upto(h, m), n <= m
      PROVE  g[n] = h[n]
  <2> DEFINE Apart == {k \in 0 .. n : g[k] # h[k]}
  <2>1. ASSUME Apart # {} PROVE FALSE
    <3>1. PICK k \in Apart : \A i \in Apart : k <= i
      <4>1. Apart \in SUBSET Nat
        OBVIOUS
      <4> HIDE DEF Apart
      <4> QED BY <2>1, <4>1, Tree!LeastNumber
    <3>2. k \in 0 .. n /\ k \in 0 .. m /\ k \in Nat /\ g[k] # h[k]
      BY <1>3
    <3>3. /\ g[k] = IF k = 0 THEN 0 ELSE Plus(g[k - 1], rs[k])
          /\ h[k] = IF k = 0 THEN 0 ELSE Plus(h[k - 1], rs[k])
      BY <1>3, <3>2
    <3>4. k # 0 => k - 1 \in 0 .. n /\ ~(k <= k - 1)
      BY <3>2
    <3>5. k # 0 => k - 1 \notin Apart
      <4> HIDE DEF Apart
      <4> QED BY <3>1, <3>4
    <3>6. k # 0 => g[k - 1] = h[k - 1]
      BY <3>4, <3>5
    <3> HIDE DEF Apart
    <3> QED BY <3>2, <3>3, <3>6
  <2>2. n \in 0 .. n
    BY <1>3
  <2> QED BY <2>1, <2>2
<1> DEFINE some(n) == CHOOSE g : Upto(g, n)
           f == [n \in Nat |-> some(n)[n]]
<1>4. \A n \in Nat : Upto(some(n), n)
  <2> HIDE DEF Upto
  <2> QED BY <1>2
<1> HIDE DEF some
<1>5. ASSUME NEW k \in Nat PROVE f[k] = IF k = 0 THEN 0 ELSE Plus(f[k - 1], rs[k])
  <2>1. f[k] = some(k)[k] /\ k \in 0 .. k
    OBVIOUS
  <2>2. some(k)[k] = IF k = 0 THEN 0 ELSE Plus(some(k)[k - 1], rs[k])
    BY <1>4, <2>1
  <2>3. ASSUME k # 0 PROVE some(k)[k - 1] = f[k - 1]
    <3>1. k - 1 \in Nat /\ k - 1 <= k
      BY <2>3
    <3>2. f[k - 1] = some(k - 1)[k - 1]
      BY <3>1
    <3>3. Upto(some(k - 1), k - 1) /\ Upto(some(k), k)
      BY <1>4, <3>1
    <3> HIDE DEF Upto, f
    <3> QED BY <1>3, <3>1, <3>2, <3>3
  <2> HIDE DEF f
  <2> QED BY <2>1, <2>2, <2>3
<1>6. f = [k \in Nat |-> f[k]]
  OBVIOUS
<1> HIDE DEF f
<1>7. f = [k \in Nat |-> IF k = 0 THEN 0 ELSE Plus(f[k - 1], rs[k])]
  BY <1>5, <1>6
<1> DEFINE c == TotalOf(rs)
<1>8. c = [k \in Nat |-> IF k = 0 THEN 0 ELSE Plus(c[k - 1], rs[k])]
  BY <1>7 DEF TotalOf
<1> HIDE DEF c
<1>9. \A k \in Nat : c[k] = IF k = 0 THEN 0 ELSE Plus(c[k - 1], rs[k])
  BY <1>8
<1> QED BY <1>9 DEF Sums, c

(* One run more adds its time.                                             *)
LEMMA SumsGrow ==
  ASSUME NEW rs \in Seq(Int), NEW d \in Int,
         NEW f, Sums(f, rs), NEW g, Sums(g, Append(rs, d))
  PROVE  f[Len(rs)] \in Int /\ g[Len(rs) + 1] = f[Len(rs)] + d
<1> DEFINE n == Len(rs)
           more == Append(rs, d)
           Bad == {k \in 0 .. n : f[k] \notin Int \/ f[k] # g[k]}
<1>0. /\ n \in Nat /\ \A k \in 1 .. n : rs[k] \in Int /\ more[k] = rs[k]
      /\ more[n + 1] = d
  OBVIOUS
<1> HIDE DEF n, more
<1>1. ASSUME Bad # {} PROVE FALSE
  <2>1. PICK k \in Bad : \A i \in Bad : k <= i
    <3>1. Bad \in SUBSET Nat
      BY <1>0
    <3> HIDE DEF Bad
    <3> QED BY <1>1, <3>1, Tree!LeastNumber
  <2>2. k \in Nat /\ k <= n
    BY <1>0
  <2>3. /\ f[k] = IF k = 0 THEN 0 ELSE Plus(f[k - 1], rs[k])
        /\ g[k] = IF k = 0 THEN 0 ELSE Plus(g[k - 1], more[k])
    BY <2>2 DEF Sums, more
  <2>4. CASE k = 0
    BY <2>1, <2>3, <2>4
  <2>5. CASE k # 0
    <3>1. k - 1 \in 0 .. n /\ ~(k <= k - 1) /\ k \in 1 .. n
      BY <1>0, <2>2, <2>5
    <3>2. k - 1 \notin Bad
      <4> HIDE DEF Bad
      <4> QED BY <2>1, <3>1
    <3>3. f[k - 1] \in Int /\ f[k - 1] = g[k - 1] /\ rs[k] \in Int /\ more[k] = rs[k]
      BY <1>0, <3>1, <3>2
    <3>4. f[k] \in Int /\ f[k] = g[k]
      BY <2>3, <2>5, <3>3 DEF Plus
    <3> QED BY <2>1, <3>4
  <2> QED BY <2>4, <2>5
<1>2. f[n] \in Int /\ f[n] = g[n]
  <2>1. n \in 0 .. n
    BY <1>0
  <2> QED BY <1>1, <2>1
<1>3. g[n + 1] = g[n] + d
  <2>1. n + 1 \in Nat /\ n + 1 # 0 /\ (n + 1) - 1 = n
    BY <1>0
  <2>2. g[n + 1] = Plus(g[(n + 1) - 1], more[n + 1])
    BY <2>1 DEF Sums, more
  <2> QED BY <1>0, <2>1, <2>2 DEF Plus
<1> QED BY <1>2, <1>3 DEF n

-----------------------------------------------------------------------------
(* fsecs.  The counter: the values kept are the best of the runs so far.   *)
(* The other timers: the reading at the start is as far from now as the    *)
(* runs so far took.                                                       *)
ReadAt(t) == Timers!Pair(IF timer = "gettod" THEN t ELSE MAX_ETIME * Million - t, Million)
CounterInv ==
  /\ now \in 0 .. Word * Word - 1
  /\ timer_pc = "run" => start = Timers!Pair(now, Word)
  /\ Best(values, runs)
  /\ timer_pc = "done" => samplecount > 0 /\ result = values[1]
ClockInv ==
  /\ timer_pc = "start" => samplecount = 0
  /\ timer_pc = "run" => start = ReadAt(now - TotalOf(runs)[samplecount])
  /\ timer_pc = "done" => samplecount = Runs /\ result = TotalOf(runs)[Runs]
TimersInv ==
  /\ Timers!TypeOK
  /\ IF timer = "fcyc" THEN CounterInv ELSE ClockInv

LEMMA TimersNumbers ==
  /\ Word \in Nat \ {0} /\ Kbest \in Nat \ {0} /\ MaxSamples \in Nat \ {0} /\ Million \in Nat \ {0}
  /\ Runs \in Nat \ {0} /\ MAX_ETIME \in Nat /\ MAX_ETIME * Million \in Nat /\ Word * Word \in Nat \ {0}
  /\ 1 \in Slots
  /\ Durations \subseteq Nat /\ Ratios \subseteq Nat
  /\ \A d \in Durations : d \in 0 .. Word * Word - 1
<1>1. /\ Word \in Nat \ {0} /\ Kbest \in Nat \ {0} /\ MaxSamples \in Nat \ {0} /\ Million \in Nat \ {0}
      /\ Runs \in Nat \ {0} /\ MAX_ETIME \in Nat /\ Durations \subseteq Nat /\ Ratios \subseteq Nat
  BY TimersAssumption
<1>2. MAX_ETIME * Million \in Nat /\ Word * Word \in Nat \ {0}
  BY <1>1
<1>3. \A d \in Durations : d \in 0 .. Word * Word - 1
  BY <1>1, <1>2, TimersAssumption
<1> QED BY <1>1, <1>2, <1>3, SlotNumbers

LEMMA PairNat ==
  ASSUME NEW base \in Nat \ {0}, NEW t \in Nat
  PROVE  Timers!Pair(t, base) \in [hi : Nat, lo : Nat]
<1>1. t \div base \in Nat /\ t % base \in Nat
  OBVIOUS
<1> QED BY <1>1 DEF Timers!Pair

LEMMA TimersInit == Timers!Init => TimersInv
<1> SUFFICES ASSUME Timers!Init PROVE TimersInv
  OBVIOUS
<1>1. /\ timer \in {"fcyc", "itimer", "gettod"} /\ timer_pc = "start"
      /\ start = Timers!Pair(0, Word) /\ cyc_per_tick = 0
      /\ values = [i \in Slots |-> 0] /\ samplecount = 0 /\ runs = <<>> /\ result = 0
  BY DEF Timers!Init, Slots
<1>2. now \in Nat
  BY TimersNumbers DEF Timers!Init
<1>3. start \in [hi : Nat, lo : Nat]
  BY <1>1, PairNat, TimersNumbers
<1>4. values \in [1 .. Kbest -> Int]
  BY <1>1 DEF Slots
<1>5. runs \in Seq(Int) /\ Len(runs) = 0 /\ result \in Int
  BY <1>1
<1>6. Timers!TypeOK
  BY <1>1, <1>2, <1>3, <1>4, <1>5 DEF Timers!TypeOK
<1>7. Best(values, runs)
  <2>1. \A i \in Slots : ~(i <= 0)
    BY TimersNumbers DEF Slots
  <2>2. \A i, k \in Slots : values[i] <= values[k]
    BY <1>1
  <2> QED BY <1>5, <2>1, <2>2 DEF Best
<1>8. timer = "fcyc" => now \in 0 .. Word * Word - 1
  BY DEF Timers!Init
<1> QED BY <1>1, <1>6, <1>7, <1>8 DEF TimersInv, CounterInv, ClockInv

LEMMA CounterStarts ==
  ASSUME TimersInv, Timers!StartCounter PROVE TimersInv'
<1>1. /\ timer = "fcyc" /\ timer' = "fcyc" /\ now' = now /\ values' = values
      /\ samplecount' = samplecount /\ runs' = runs /\ result' = result
      /\ start' = Timers!Pair(now, Word) /\ timer_pc' = "run"
      /\ cyc_per_tick' \in IF cyc_per_tick = 0 THEN {0} \cup Ratios ELSE {cyc_per_tick}
  BY DEF Timers!StartCounter
<1>2. start' \in [hi : Nat, lo : Nat]
  BY <1>1, PairNat, TimersNumbers DEF TimersInv, Timers!TypeOK
<1>3. Timers!TypeOK'
  BY <1>1, <1>2 DEF TimersInv, Timers!TypeOK
<1>4. CounterInv'
  BY <1>1 DEF TimersInv, CounterInv
<1> QED BY <1>1, <1>3, <1>4 DEF TimersInv

LEMMA SampleTaken ==
  ASSUME TimersInv, NEW d \in Durations, NEW ticks \in {0, 1}, Timers!Sample(d, ticks)
  PROVE  TimersInv'
<1> DEFINE x == d - ticks * cyc_per_tick
           e == Timers!Elapsed(start, Timers!Pair(now', Word), Word)
<1>0. /\ timer = "fcyc" /\ timer' = "fcyc" /\ timer_pc = "run"
      /\ now' = (now + d) % (Word * Word)
      /\ values' = Timers!AddSample(e - ticks * cyc_per_tick)
      /\ samplecount' = samplecount + 1 /\ runs' = Append(runs, x)
      /\ \/ timer_pc' = "done" /\ result' = values'[1]
         \/ timer_pc' = "start" /\ result' = result
      /\ start' = start /\ cyc_per_tick' = cyc_per_tick
  BY DEF Timers!Sample
<1>1. /\ values \in [Slots -> Int] /\ runs \in Seq(Int) /\ samplecount = Len(runs)
      /\ cyc_per_tick \in {0} \cup Ratios /\ result \in Int /\ start \in [hi : Nat, lo : Nat]
  BY DEF TimersInv, Timers!TypeOK, Slots
<1>2. /\ now \in 0 .. Word * Word - 1 /\ start = Timers!Pair(now, Word) /\ Best(values, runs)
  BY <1>0 DEF TimersInv, CounterInv
<1>3. /\ now' \in 0 .. Word * Word - 1 /\ e = d
  BY <1>0, <1>2, CounterTells, TimersNumbers
<1>4. x \in Int
  <2>1. cyc_per_tick \in Nat /\ d \in Nat
    BY <1>1, TimersNumbers
  <2> QED BY <2>1
<1> HIDE DEF e
<1>5. values' = Timers!AddSample(x)
  BY <1>0, <1>3
<1> HIDE DEF x
<1>6. values' \in [Slots -> Int] /\ Best(values', runs')
  BY <1>0, <1>1, <1>2, <1>4, <1>5, AddSampleKeeps
<1>7. runs' \in Seq(Int) /\ samplecount' = Len(runs') /\ samplecount' > 0
  BY <1>0, <1>1, <1>4
<1>8. values'[1] \in Int
  BY <1>6, TimersNumbers
<1>9. now' \in Nat
  BY <1>3, TimersNumbers
<1>10. Timers!TypeOK'
  BY <1>0, <1>1, <1>6, <1>7, <1>8, <1>9 DEF Timers!TypeOK, Slots
<1>11. CounterInv'
  BY <1>0, <1>3, <1>6, <1>7 DEF CounterInv
<1> QED BY <1>0, <1>10, <1>11 DEF TimersInv

LEMMA ClockBegins ==
  ASSUME TimersInv, Timers!Begin PROVE TimersInv'
<1>0. /\ timer # "fcyc" /\ timer' = timer /\ timer_pc = "start" /\ timer_pc' = "run"
      /\ IF timer = "itimer" THEN now' = 0 ELSE now' = now
      /\ start' = Timers!Reading
      /\ cyc_per_tick' = cyc_per_tick /\ values' = values /\ samplecount' = samplecount
      /\ runs' = runs /\ result' = result
  BY DEF Timers!Begin
<1>1. samplecount = 0 /\ Timers!TypeOK
  BY <1>0 DEF TimersInv, ClockInv
<1>2. now' \in Nat
  BY <1>0, <1>1 DEF Timers!TypeOK
<1>t. timer = "gettod" \/ (timer = "itimer" /\ now' = 0)
  BY <1>0, <1>1 DEF Timers!TypeOK
<1>3. start' = Timers!Pair(IF timer = "gettod" THEN now' ELSE MAX_ETIME * Million - now', Million)
  BY <1>0 DEF Timers!Reading
<1>4. TotalOf(runs)[0] = 0
  BY SumsExist DEF Sums
<1>5. start' \in [hi : Nat, lo : Nat]
  <2>1. CASE timer = "gettod"
    BY <1>2, <1>3, <2>1, PairNat, TimersNumbers
  <2>2. CASE timer = "itimer" /\ now' = 0
    <3>1. start' = Timers!Pair(MAX_ETIME * Million - 0, Million)
      BY <1>3, <2>2
    <3>2. MAX_ETIME * Million - 0 \in Nat
      BY TimersNumbers
    <3> QED BY <3>1, <3>2, PairNat, TimersNumbers
  <2> QED BY <1>t, <2>1, <2>2
<1>6. Timers!TypeOK'
  BY <1>0, <1>1, <1>2, <1>5 DEF Timers!TypeOK
<1>7. now' - 0 = now'
  <2>1. \A n \in Nat : n - 0 = n
    OBVIOUS
  <2> QED BY <1>2, <2>1
<1>8. ClockInv'
  BY <1>0, <1>1, <1>3, <1>4, <1>7 DEF ClockInv, ReadAt
<1> QED BY <1>0, <1>6, <1>8 DEF TimersInv

(* What both readings tell is how long the runs took.                      *)
LEMMA SinceTells ==
  ASSUME NEW t \in Int, NEW u \in Int, NEW base \in Nat \ {0}
  PROVE  Timers!Since(Timers!Pair(t, base), Timers!Pair(u, base), base) = u - t
<1> DEFINE p == Timers!Pair(t, base)
           q == Timers!Pair(u, base)
<1>1. /\ p.hi \in Int /\ p.lo \in Int /\ q.hi \in Int /\ q.lo \in Int
      /\ p.hi * base + p.lo = t /\ q.hi * base + q.lo = u
  BY PairAt DEF Timers!At
<1> HIDE DEF p, q
<1>2. base * (q.hi - p.hi) = q.hi * base - p.hi * base /\ q.hi * base \in Int /\ p.hi * base \in Int
  BY <1>1
<1>3. Timers!Since(p, q, base) = (q.hi * base - p.hi * base) + (q.lo - p.lo)
  BY <1>2 DEF Timers!Since
<1> QED BY <1>1, <1>2, <1>3 DEF p, q

LEMMA ClockRuns ==
  ASSUME TimersInv, NEW d \in Durations, Timers!Run(d) PROVE TimersInv'
<1> DEFINE so == TotalOf(runs)[samplecount]
           far == MAX_ETIME * Million
<1>0. /\ timer # "fcyc" /\ timer' = timer /\ timer_pc = "run"
      /\ now' = now + d /\ runs' = Append(runs, d) /\ samplecount' = samplecount + 1
      /\ IF samplecount' = Runs
         THEN /\ timer_pc' = "done"
              /\ result' = IF timer = "gettod" THEN Timers!Since(start, Timers!Reading, Million)
                           ELSE Timers!Since(Timers!Reading, start, Million)
         ELSE timer_pc' = timer_pc /\ result' = result
      /\ start' = start /\ cyc_per_tick' = cyc_per_tick /\ values' = values
  BY DEF Timers!Run
<1>1. Timers!TypeOK /\ start = ReadAt(now - so)
  BY <1>0 DEF TimersInv, ClockInv
<1>2. /\ now \in Nat /\ runs \in Seq(Int) /\ samplecount = Len(runs) /\ d \in Nat /\ far \in Int
      /\ result \in Int
  BY <1>1, TimersNumbers DEF Timers!TypeOK
<1>3. so \in Int /\ TotalOf(runs')[samplecount'] = so + d
  BY <1>0, <1>2, SumsExist, SumsGrow
<1> HIDE DEF so, far
<1>4. now - so \in Int /\ now' \in Int /\ now' \in Nat /\ now - so = now' - (so + d)
  BY <1>0, <1>2, <1>3
<1>5. runs' \in Seq(Int) /\ samplecount' = Len(runs')
  BY <1>0, <1>2
<1>6. ASSUME samplecount' = Runs PROVE result' = so + d
  <2>1. CASE timer = "gettod"
    <3>1. result' = Timers!Since(Timers!Pair(now - so, Million), Timers!Pair(now', Million), Million)
      BY <1>0, <1>1, <1>6, <2>1 DEF ReadAt, Timers!Reading
    <3>2. result' = now' - (now - so)
      BY <1>4, <3>1, SinceTells, TimersNumbers
    <3> QED BY <1>0, <1>2, <1>3, <3>2
  <2>2. CASE timer # "gettod"
    <3>1. result' = Timers!Since(Timers!Pair(far - now', Million), Timers!Pair(far - (now - so), Million), Million)
      BY <1>0, <1>1, <1>6, <2>2 DEF ReadAt, Timers!Reading, far
    <3>2. far - now' \in Int /\ far - (now - so) \in Int
      BY <1>2, <1>4
    <3>3. result' = (far - (now - so)) - (far - now')
      BY <3>1, <3>2, SinceTells, TimersNumbers
    <3> QED BY <1>0, <1>2, <1>3, <3>3
  <2> QED BY <2>1, <2>2
<1>7. result' \in Int
  BY <1>0, <1>2, <1>3, <1>6
<1>8. Timers!TypeOK'
  BY <1>0, <1>1, <1>4, <1>5, <1>7 DEF Timers!TypeOK
<1>10. ClockInv'
  <2>1. CASE samplecount' = Runs
    BY <1>0, <1>3, <1>6, <2>1 DEF ClockInv
  <2>2. CASE samplecount' # Runs
    <3>1. timer_pc' = "run" /\ start' = ReadAt(now - so)
      BY <1>0, <1>1, <2>2
    <3>2. (ReadAt(now - TotalOf(runs)[samplecount]))' = ReadAt(now - so)
      BY <1>0, <1>3, <1>4 DEF ReadAt
    <3> QED BY <3>1, <3>2 DEF ClockInv
  <2> QED BY <2>1, <2>2
<1> QED BY <1>0, <1>8, <1>10 DEF TimersInv

LEMMA TimersNext ==
  ASSUME TimersInv, [Timers!Next]_timer_vars PROVE TimersInv'
<1>1. CASE Timers!StartCounter
  BY <1>1, CounterStarts
<1>2. CASE Timers!Begin
  BY <1>2, ClockBegins
<1>3. ASSUME NEW d \in Durations, Timers!Run(d) PROVE TimersInv'
  BY <1>3, ClockRuns
<1>4. ASSUME NEW d \in Durations, NEW ticks \in {0, 1}, Timers!Sample(d, ticks) PROVE TimersInv'
  BY <1>4, SampleTaken
<1>5. CASE UNCHANGED timer_vars
  BY <1>5 DEF timer_vars, TimersInv, Timers!TypeOK, CounterInv, ClockInv, ReadAt
<1> QED BY <1>1, <1>2, <1>3, <1>4, <1>5 DEF Timers!Next

(* Fsecs extends FiniteSets by itself.                                     *)
LEMMA SameCardinality == \A S : Timers!Cardinality(S) = Cardinality(S)
BY DEF Timers!Cardinality, Cardinality

(* What fsecs returns is what the runs took.                               *)
LEMMA TimersMeasure == TimersInv => Timers!Measures
<1> SUFFICES ASSUME TimersInv PROVE Timers!Measures
  OBVIOUS
<1>1. /\ runs \in Seq(Int) /\ samplecount = Len(runs) /\ values \in [Slots -> Int]
  BY DEF TimersInv, Timers!TypeOK, Slots
<1>2. ASSUME timer = "fcyc", NEW i \in 1 .. Kbest, i <= samplecount
      PROVE  Cardinality(Timers!Below(values[i])) < i /\ i <= Cardinality(Timers!AtMost(values[i]))
  <2>1. Ith(values, runs, i)
    BY <1>1, <1>2 DEF TimersInv, CounterInv, Best, Slots
  <2> QED BY <2>1 DEF Ith, NumLess, NumUpTo, Less, UpTo, Timers!Below, Timers!AtMost
<1>3. ASSUME timer = "fcyc", timer_pc = "done"
      PROVE  \E k \in DOMAIN runs : result = runs[k] /\ Timers!Below(result) = {}
  <2> DEFINE least == values[1]
  <2>1. samplecount > 0 /\ result = least /\ 1 \in Slots /\ least \in Int
    BY <1>1, <1>3, TimersNumbers DEF TimersInv, CounterInv
  <2>2. Ith(values, runs, 1)
    BY <1>1, <1>3, <2>1 DEF TimersInv, CounterInv, Best
  <2>3. NumLess(runs, least) < 1 /\ 1 <= NumUpTo(runs, least)
    BY <2>2 DEF Ith
  <2> HIDE DEF least
  <2>4. DOMAIN runs = 1 .. Len(runs) /\ Len(runs) \in Nat /\ \A k \in DOMAIN runs : runs[k] \in Int
    BY <1>1
  <2>5. /\ Less(runs, least) \in SUBSET (1 .. Len(runs))
        /\ UpTo(runs, least) \in SUBSET (1 .. Len(runs))
    BY <2>4 DEF Less, UpTo
  <2>6. IsFiniteSet(Less(runs, least)) /\ NumLess(runs, least) \in Nat
    BY <2>4, <2>5, RunsFinite DEF NumLess
  <2>7. NumLess(runs, least) = 0
    BY <2>3, <2>6
  <2>8. Less(runs, least) = {}
    BY <2>6, <2>7, FS_EmptySet DEF NumLess
  <2>9. UpTo(runs, least) # {}
    <3>1. Cardinality({}) = 0
      BY FS_EmptySet
    <3> QED BY <2>3, <3>1 DEF NumUpTo
  <2>10. PICK k \in DOMAIN runs : runs[k] <= least
    BY <2>9 DEF UpTo
  <2>11. runs[k] = least
    BY <2>1, <2>4, <2>8, <2>10 DEF Less
  <2> QED BY <2>1, <2>8, <2>11 DEF Less, Timers!Below
<1>4. ASSUME timer # "fcyc", timer_pc = "done" PROVE result = Timers!Total[Runs]
  <2>1. result = TotalOf(runs)[Runs]
    BY <1>4 DEF TimersInv, ClockInv
  <2>2. Timers!Total = TotalOf(runs)
    BY DEF Timers!Total, TotalOf, Plus
  <2> QED BY <2>1, <2>2
<1>5. timer = "fcyc" =>
        \A i \in 1 .. Kbest : i <= samplecount =>
          /\ Timers!Cardinality(Timers!Below(values[i])) < i
          /\ i <= Timers!Cardinality(Timers!AtMost(values[i]))
  BY <1>2, SameCardinality
<1>6. timer = "fcyc" =>
        (timer_pc = "done" => \E k \in DOMAIN runs : result = runs[k] /\ Timers!Below(result) = {})
  BY <1>3
<1>7. timer # "fcyc" /\ timer_pc = "done" => result = Timers!Total[Runs]
  BY <1>4
<1> QED BY <1>5, <1>6, <1>7 DEF Timers!Measures

-----------------------------------------------------------------------------
(* The programs of the lab.  Each runs as its module says or not at all.   *)
all_vars == <<program, vars, mm_vars, list_vars, tree_vars, timer_vars>>

LEMMA DriverRuns == LabSpec => Spec
<1>1. LabInit => Init
  BY DEF LabInit
<1>2. [LabNext]_all_vars => [Next]_vars
  BY DEF LabNext, all_vars
<1> QED
  BY <1>1, <1>2, PTL DEF LabSpec, Spec, all_vars

LEMMA MmRuns == LabSpec => Mm!Spec
<1>1. LabInit => Mm!Init
  BY DEF LabInit
<1>2. [LabNext]_all_vars => [Mm!Next]_(Mm!vars)
  BY DEF LabNext, all_vars, mm_vars, Mm!vars, Mm!history
<1> QED
  BY <1>1, <1>2, PTL DEF LabSpec, Mm!Spec, all_vars

LEMMA ListRuns == LabSpec => List!Spec
<1>1. LabInit => List!Init
  BY DEF LabInit
<1>2. [LabNext]_all_vars => [List!Next]_(List!vars)
  BY DEF LabNext, all_vars, list_vars, List!vars
<1> QED
  BY <1>1, <1>2, PTL DEF LabSpec, List!Spec, all_vars

LEMMA TreeRuns == LabSpec => Tree!BlocksSpec
<1>1. LabInit => Tree!BlocksInit
  BY DEF LabInit
<1>2. [LabNext]_all_vars => [Tree!BlocksNext]_(Tree!blocks_vars)
  BY DEF LabNext, all_vars, tree_vars, Tree!blocks_vars
<1> QED
  BY <1>1, <1>2, PTL DEF LabSpec, Tree!BlocksSpec, all_vars

LEMMA MmHasRoom == Mm!HasRoom
BY HeapsAssumption, RequestsAssumption, PredictionAssumption DEF Mm!HasRoom, Mm!Unit
LEMMA ListHasRoom == List!HasRoom
BY HeapsAssumption, RequestsAssumption DEF List!HasRoom
LEMMA TreeSized == Tree!Sized
BY TreeAssumption DEF Tree!Sized, Tree!Null

LEMMA TimersAlways == LabSpec => []TimersInv
<1>1. LabInit => TimersInv
  BY TimersInit DEF LabInit
<1>2. TimersInv /\ [LabNext]_<<program, vars, mm_vars, list_vars, tree_vars, timer_vars>> => TimersInv'
  <2>1. [LabNext]_<<program, vars, mm_vars, list_vars, tree_vars, timer_vars>> => [Timers!Next]_timer_vars
    BY DEF LabNext
  <2> QED BY <2>1, TimersNext
<1> QED
  BY <1>1, <1>2, PTL DEF LabSpec

(* The state of every program of the lab is well formed, for any sizes.    *)
THEOREM LabTypes == LabSpec => []LabTypeOK
<1>1. LabSpec => []TypeOK
  BY DriverRuns, DriverTypes
<1>2. LabSpec => []Mm!TypeOK
  BY MmRuns, MmHasRoom, Mm!MmTypes
<1>3. LabSpec => []List!TypeOK
  BY ListRuns, ListHasRoom, List!ListTypes
<1>4. LabSpec => []Tree!BlocksTypeOK
  BY TreeRuns, TreeSized, Tree!BlocksTypes
<1>5. TimersInv => Timers!TypeOK
  BY DEF TimersInv
<1> QED
  BY <1>1, <1>2, <1>3, <1>4, <1>5, TimersAlways, PTL DEF LabTypeOK

(* Whatever is allocated, freed and predicted in heaps of whatever size,   *)
(* the boundary tags of both allocators stay consistent, and the allocated *)
(* blocks are those of the payloads that the driver has.                   *)
THEOREM LabHeapsTiled == LabSpec => []HeapTiled
<1>1. LabSpec => []Mm!HeapTiled /\ []Mm!RangesAreBlocks
  BY MmRuns, MmHasRoom, Mm!MmHeapTiled, Mm!MmCarriesRanges
<1>2. LabSpec => []List!HeapTiled /\ []List!RangesAreBlocks /\ []List!Coalesced
  BY ListRuns, ListHasRoom, List!ListHeapTiled, List!ListCarriesRanges, List!ListCoalesces
<1> QED
  BY <1>1, <1>2, PTL DEF HeapTiled

(* The tree, in the heap and by itself, and the list hold exactly the free *)
(* blocks.                                                                 *)
THEOREM LabHoldsFree == LabSpec => []HoldsFree
<1>1. LabSpec => []Mm!TreeHoldsFree
  BY MmRuns, MmHasRoom, Mm!MmTreeHoldsFree
<1>2. LabSpec => []Tree!HoldsFree
  BY TreeRuns, TreeSized, Tree!BlocksKept
<1>3. LabSpec => []List!ListHoldsFree
  BY ListRuns, ListHasRoom, List!ListIsWhole
<1> QED
  BY <1>1, <1>2, <1>3, PTL DEF HoldsFree

(* The tree stays ordered and balanced through all cases of insert and     *)
(* delete.  tree_checker has nothing to say of it, unless it is empty, and *)
(* sees a wrong colour where there is one.                                 *)
THEOREM LabRedBlack == LabSpec => []RedBlack
<1>1. LabSpec => []Tree!RedBlack
  BY TreeRuns, TreeSized, Tree!BlocksBalanced
<1>2. LabSpec => []Tree!Ordered
  BY TreeRuns, TreeSized, Tree!BlocksOrdered
<1>3. LabSpec => []Tree!Checked
  BY TreeRuns, TreeSized, Tree!BlocksChecked
<1> QED
  BY <1>1, <1>2, <1>3, PTL DEF RedBlack

(* find_block finds the block that its comment promises, in any tree that  *)
(* insertions and deletions can make.                                      *)
THEOREM LabBestFit == LabSpec => []BestFit
<1>1. LabSpec => []Tree!BestFit
  BY TreeRuns, TreeSized, Tree!BlocksBestFit
<1> QED
  BY <1>1, PTL DEF BestFit

(* mm.c takes memory from memlib only if every free block is too small.    *)
THEOREM LabReusesFirst == LabSpec => ReusesFirst
BY MmRuns, MmHasRoom, Mm!MmReusesFirst DEF ReusesFirst

(* Both allocators implement Allocator, which is what mdriver demands.     *)
THEOREM LabImplementsAllocator == LabSpec => ImplementsAllocator
<1>1. LabSpec => Mm!ImplementsAllocator
  BY MmRuns, MmHasRoom, Mm!MmImplementsAllocator
<1>2. LabSpec => List!ImplementsAllocator
  BY ListRuns, ListHasRoom, List!ListImplementsAllocator
<1> QED
  BY <1>1, <1>2 DEF ImplementsAllocator

(* However the words wrap around and the runs are ordered, fsecs returns   *)
(* the least of the runs' times with the counter, after interrupts are     *)
(* corrected for, and their sum with the other timers.                     *)
THEOREM LabMeasures == LabSpec => []Measures
<1>1. TimersInv => Measures
  BY TimersMeasure DEF Measures
<1> QED
  BY <1>1, TimersAlways, PTL
=============================================================================
