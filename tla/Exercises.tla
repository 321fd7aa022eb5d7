----------------------------- MODULE Exercises -----------------------------
(***************************************************************************)
(* Computations of the homework and of the driver practice: two ways to    *)
(* add (sum1.cpp, sum2.cpp), the product of matrices and the program that  *)
(* times it (matrix_mult.cpp), a word replaced in a mapped file            *)
(* (memory_mapping.c), and strings in buffers (string_adder.c).            *)
(***************************************************************************)
EXTENDS CStrings, FiniteSetsExt, FiniteSets

CONSTANTS
  Modulus,      \* values of an int, 2^32
  Window,       \* results that the timing program keeps, 10
  MaxBuf,       \* MAX_BUF_SIZE, 1024
  PageSize,     \* of the mapping, 4096
  ResSize,      \* of string_formatter's buffer, 4096
  Numbers, MaxSize, Times, Gaps, Words, Texts,   \* inputs
  MaxRounds     \* bound: sizes that are timed

VARIABLES
  exercise, input,
  pc,           \* "start", "loop", "done", "fault"
  result,       \* what was computed
  mat_size, prev, measured, file   \* the timing program; measured is history
exvars == <<exercise, input, pc, result, mat_size, prev, measured, file>>

-----------------------------------------------------------------------------
Plus(x, y) == (x + y) % Modulus
sum1(x) == FoldLeft(Plus, x[1], Tail(x))
sum2(x) == Plus(Plus(Plus(x[1], x[2]), Plus(x[3], x[4])), Plus(Plus(x[5], x[6]), Plus(x[7], x[8])))

\* Matrices row by row in arrays from 0 on.
mat_mul(size, a, b) ==
  [k \in 0 .. size * size - 1 |->
    LET i == k \div size
        j == k % size
        sum[cnt \in 0 .. size] ==
          IF cnt = 0 THEN 0 ELSE Plus(sum[cnt - 1], a[i * size + cnt - 1] * b[(cnt - 1) * size + j])
    IN sum[size]]

\* One round of the loop, at a character of the file.
Hate == <<" ", "h", "a", "t", "e", " ">>
Love == <<"l", "o", "v", "e">>
Reads(text, cnt, word) == cnt + Len(word) - 1 <= Len(text) /\ SubSeq(text, cnt, cnt + Len(word) - 1) = word
Changed(text, cnt) ==
  IF ~Reads(text, cnt, Hate) THEN text
  ELSE [i \in DOMAIN text |-> IF i - cnt \in 1 .. 4 THEN Love[i - cnt] ELSE text[i]]
Looked(text) == [cnt \in 1 .. Min({Len(text), MaxBuf}) |-> cnt]
Mapped(text) == FoldLeft(Changed, text, Looked(text))
\* The characters after one are looked at as long as they go on like the
\* word: behind the last page there is nothing to look at.
RunsOver(text) ==
  /\ Len(text) % PageSize = 0
  /\ \E k \in 1 .. 5 : /\ k <= Len(text) /\ Len(text) - k + 1 <= MaxBuf
                       /\ Reads(text, Len(text) - k + 1, SubSeq(Hate, 1, k))

Length(s) == StrChr(s, Nul, 1) - 1
string_adder(str1, str2) ==
  [i \in 1 .. Length(str1) + Length(str2) + 1 |->
    IF i <= Length(str1) THEN str1[i]
    ELSE IF i <= Length(str1) + Length(str2) THEN str2[i - Length(str1)] ELSE Nul]
\* Each line with its end, and tabs for the next one.
string_formatter(str) ==
  LET Round(acc, cnt) ==
        IF str[cnt] \notin {"\n", Nul} THEN acc
        ELSE [res |-> acc.res \o SubSeq(str, acc.start, cnt) \o [t \in 1 .. acc.lines + 1 |-> "\t"],
              start |-> cnt + 1, lines |-> acc.lines + 1]
  IN FoldLeft(Round, [res |-> <<>>, start |-> 1, lines |-> 0], [cnt \in 1 .. Length(str) + 1 |-> cnt]).res

-----------------------------------------------------------------------------
Arrays(size) == [0 .. size * size - 1 -> Numbers]
Inputs ==
  [sums |-> [1 .. 8 -> Numbers],
   matrix |-> UNION {[size : {n}, a : Arrays(n), b : Arrays(n)] : n \in 0 .. MaxSize},
   times |-> [mode : {"continuous", "specific", "interval"}, min : 1 .. MaxSize, max : 0 .. 2 * MaxSize, gap : Gaps],
   mapping |-> Words,
   strings |-> {<<Append(s, Nul), Append(t, Nul)>> : s \in Texts, t \in Texts}]
ExercisesInit ==
  /\ exercise \in DOMAIN Inputs /\ input \in Inputs[exercise]
  /\ pc = "start" /\ result = <<>>
  /\ mat_size = 0 /\ prev = [i \in 1 .. Window |-> 0] /\ measured = <<>> /\ file = <<>>
Untimed == UNCHANGED <<exercise, input, mat_size, prev, measured, file>>
Computes(name) == exercise = name /\ pc = "start" /\ Untimed

Sums == Computes("sums") /\ pc' = "done" /\ result' = <<sum1(input), sum2(input)>>
Matrix == Computes("matrix") /\ pc' = "done" /\ result' = mat_mul(input.size, input.a, input.b)
\* Nothing is tested: without the file the mapping cannot be read.
Mapping ==
  /\ Computes("mapping")
  /\ \/ pc' = (IF RunsOver(input) THEN "fault" ELSE "done") /\ result' = Mapped(input)
     \/ pc' \in {"done", "fault"} /\ result' = input
\* int_to_str reads behind a digit and returns nothing, so that its result
\* is printed or cannot be read.
Strings ==
  /\ Computes("strings") /\ result' = <<string_adder(input[1], input[2]), string_formatter(input[1])>>
  /\ pc' \in {"done", "fault"} /\ (Len(result'[2]) > ResSize => pc' = "fault")

(* The timing program.                                                     *)
Start ==
  /\ exercise = "times" /\ pc = "start" /\ pc' = "loop"
  /\ mat_size' = CASE input.mode = "continuous" -> 1
                   [] input.mode = "specific" -> input.max
                   [] OTHER -> input.min
  /\ UNCHANGED <<exercise, input, result, prev, measured, file>>
More == IF input.mode = "specific" THEN measured = <<>> ELSE mat_size <= input.max
Shift(res) == [i \in 1 .. Window |-> IF i < Window THEN prev[i + 1] ELSE res]
Measure(res) ==
  /\ exercise = "times" /\ pc = "loop" /\ More /\ Len(measured) < MaxRounds
  /\ measured' = Append(measured, [size |-> mat_size, time |-> res])
  /\ mat_size' = mat_size + CASE input.mode = "continuous" -> 1
                              [] input.mode = "specific" -> 0
                              [] OTHER -> input.gap
  /\ prev' = IF input.mode = "continuous" THEN Shift(res) ELSE prev
  /\ file' = IF input.mode = "interval" THEN Append(file, mat_size) ELSE file
  /\ UNCHANGED <<exercise, input, pc, result>>
Finish ==
  /\ exercise = "times" /\ pc = "loop" /\ ~More /\ pc' = "done" /\ UNCHANGED result /\ Untimed
\* Memory, which is never given back, and the file are taken to be there.
OutOfMemory ==
  /\ exercise = "times" /\ pc = "loop" /\ More /\ pc' = "fault" /\ UNCHANGED result /\ Untimed

ExercisesNext ==
  \/ Sums \/ Matrix \/ Mapping \/ Strings
  \/ Start \/ (\E res \in Times : Measure(res)) \/ Finish \/ OutOfMemory
ExercisesSpec == ExercisesInit /\ [][ExercisesNext]_exvars

-----------------------------------------------------------------------------
(* The results against what they should be: sums modulo the size of a      *)
(* word; the product of the matrices, row by column; every word in the     *)
(* file that begins in its first part, and nothing else, replaced; strings *)
(* joined, and lines indented by one more each; and of the timing program  *)
(* every size of the interval once, with a line in the file, and the last  *)
(* results in their order.                                                 *)
SumOf(S, Value(_)) == MapThenSumSet(Value, S) % Modulus
Product(n, a, b) ==
  LET A == [i, j \in 0 .. n - 1 |-> a[i * n + j]]
      B == [i, j \in 0 .. n - 1 |-> b[i * n + j]]
  IN [i, j \in 0 .. n - 1 |-> SumOf(0 .. n - 1, LAMBDA k : A[i, k] * B[k, j])]
Begins(text, i) == i \in 1 .. MaxBuf /\ Reads(text, i, Hate)
Replaced(text) ==
  [i \in DOMAIN text |-> LET k == {x \in 1 .. 4 : Begins(text, i - x)}
                         IN IF k = {} THEN text[i] ELSE Love[CHOOSE x \in k : TRUE]]
NewLines(s, i) == Cardinality({j \in 1 .. i : s[j] = "\n"})
Stairs(s) ==
  FlattenSeq([i \in DOMAIN s |->
    <<s[i]>> \o IF s[i] = "\n" THEN [t \in 1 .. NewLines(s, i) |-> "\t"] ELSE <<>>])
LastTimes == [i \in 1 .. Window |-> LET k == Len(measured) - Window + i IN IF k < 1 THEN 0 ELSE measured[k].time]
Computed ==
  pc = "done" =>
    /\ exercise = "sums" => \A i \in 1 .. 2 : result[i] = SumOf(1 .. 8, LAMBDA k : input[k])
    /\ exercise = "matrix" =>
         LET n == input.size
         IN \A i, j \in 0 .. n - 1 : result[i * n + j] = Product(n, input.a, input.b)[i, j]
    /\ exercise = "mapping" => result \in {input, Replaced(input)}
    /\ exercise = "strings" =>
         /\ CString(result[1]) = CString(input[1]) \o CString(input[2])
         /\ CString(result[2]) = Stairs(CString(input[1]))
Timed ==
  exercise = "times" =>
    /\ input.mode = "continuous" => prev = LastTimes
    /\ input.mode = "interval" =>
         /\ file = [i \in DOMAIN measured |-> measured[i].size]
         /\ \A i \in DOMAIN file : file[i] = input.min + (i - 1) * input.gap
    /\ pc = "done" =>
         {measured[i].size : i \in DOMAIN measured} =
           CASE input.mode = "continuous" -> 1 .. input.max
             [] input.mode = "specific" -> {input.max}
             [] OTHER -> {n \in input.min .. input.max : (n - input.min) % input.gap = 0}
ExercisesRight == Computed /\ Timed
=============================================================================
