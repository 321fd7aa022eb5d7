---------------------------- MODULE MCPrograms ----------------------------
(***************************************************************************)
(* Instances for TLC of robust I/O and of small programs: the echo servers *)
(* with their clients, the lines that the shell and the proxy read, and    *)
(* the programs about processes.  A behaviour is one of one of them.       *)
(***************************************************************************)
EXTENDS Rio

CONSTANTS
  Clients, MAXLINE,        \* of Echo and CommandLine
  MAXARGS, SIZE, HostLength, PortReach, MaxProcs, N, MaxFaults

TwoLetters == {0, 1, 2}
C == INSTANCE CStrings
CommandSize == 4 * MAXLINE   \* MAXLINE of tsh.c

\* Users of echo: one line without its end; two lines; a line that does not fit.
Capitals == [c \in {"a", "b", "\n"} |-> IF c = "a" THEN "A" ELSE IF c = "b" THEN "B" ELSE c]
TwoTalk ==
  [c : {<<<<"a">>>>},
   d : {<<<<"a", "\n">>, <<"b", "\n">>>>, <<<<"a", "a", "b", "\n">>>>}]
StringTalk == {<<<<"a", "\n">>, <<"b">>>>, <<<<"a", "a", "b", "\n">>>>, <<<<"a">>>>}

\* Commands: words with blanks and quotes, &, quit.
Word(text, quoted, gap) == [text |-> text, quoted |-> quoted, gap |-> gap]
FirstWords == {Word(<<"a">>, FALSE, 0), Word(<<"q">>, FALSE, 1), Word(<<"a", " ">>, TRUE, 0)}
LaterWords ==
  {Word(<<"b", "'">>, FALSE, 1), Word(<<"a">>, FALSE, 2), Word(<<>>, TRUE, 1), Word(<<" ", "&">>, TRUE, 1)}
TypedCommands ==
  [words : {<<w>> : w \in FirstWords} \cup (FirstWords \X LaterWords), bg : BOOLEAN] \cup
  {[words |-> <<Word(<<"a">>, FALSE, 0), Word(<<"&", "b">>, FALSE, 1), Word(<<"b">>, FALSE, 1)>>, bg |-> FALSE]}
TypedScripts == {<<c>> : c \in TypedCommands} \cup (TypedCommands \X TypedCommands)
Characters(set, most) == UNION {[1 .. n -> set] : n \in 0 .. most}
OtherTexts ==
  Characters({"a", "'", " ", "&", "\n"}, 4) \cup
  {<<"a", " ">> \o C!Blanks(n) \o <<"b", "\n">> : n \in CommandSize - 7 .. CommandSize - 3}

\* Lines for the proxy.
LocalHost == <<"l">>
TypedRequests ==
  [host : {<<"1", ".", "1", ".", "1", ".", "1", "1">>, LocalHost}, gap : 1 .. 3,
   port : {<<"1">>, <<"1", "1">>}, message : {<<>>, <<"a">>, <<" ", "a">>, <<"a", " ", "l">>}]
OtherLines ==
  {l \o end : l \in Characters({"l", " ", "1"}, 4), end \in {<<>>, <<"\n">>}} \cup
  {<<".", "1", ".", ".">> \o l : l \in Characters({" ", "1", "."}, 4)}

\* Files and texts for the exercises.
Pieces == {<<" ">>, <<" ", "h", "a", "t", "e">>, <<"h">>, <<" ", "h">>}
MappedFiles == UNION {{C!FlattenSeq(s) : s \in [1 .. n -> Pieces]} : n \in 0 .. 4}

FileBytes == <<"f", "o", "g">>

VARIABLES which,
  server, backlog, bytecnt, thread, client, talk, rest, up, down, printed, counted, overlapped,
  said, unsaid, str, pc, recvline, there, back, received, pieces,
  typed, input, cmdline, at, ran,
  request, line, answer, parts,
  program, tty, proc, buffer, position, out, file, failed, stray,
  exercise, numbers, state, result, mat_size, prev, measured, table

Echo == INSTANCE Echo WITH Inputs <- TwoTalk, Upper <- Capitals, typed <- talk, stdin <- rest
Strings == INSTANCE EchoStrings WITH
  Inputs <- StringTalk, typed <- said, stdin <- unsaid, up <- there, down <- back
Shell == INSTANCE CommandLine WITH
  MAXLINE <- CommandSize, QuitWord <- <<"q">>, Scripts <- TypedScripts, Texts <- OtherTexts
Request == INSTANCE RequestLine WITH Digits <- {"1"}, Requests <- TypedRequests, Lines <- OtherLines
Processes == INSTANCE Processes WITH File <- FileBytes, offset <- position
Exercises == INSTANCE Exercises WITH
  Modulus <- 4, Window <- 2, MaxBuf <- 8, PageSize <- 6, ResSize <- 8, Numbers <- {1, 3}, MaxSize <- 2,
  Times <- {1, 2}, Gaps <- 0 .. 2, Words <- MappedFiles, Texts <- Characters({"a", "\n"}, 3), MaxRounds <- 4,
  input <- numbers, pc <- state, file <- table

echovars == <<server, backlog, bytecnt, thread, client, talk, rest, up, down, printed, counted, overlapped>>
stringvars == <<said, unsaid, str, pc, recvline, there, back, received, pieces>>
linevars == <<typed, input, cmdline, at, ran, request, line, answer, parts>>
processvars == <<program, tty, proc, buffer, position, out, file, failed, stray>>
exercisevars == <<exercise, numbers, state, result, mat_size, prev, measured, table>>

\* The programs that do not run stay in one of their first states.
Idles(name, still) == IF which = name THEN TRUE ELSE still
ProgramsInit ==
  /\ which \in {"rio", "echo", "strings", "shell", "request", "processes", "exercises"}
  /\ Idles("rio", stream = <<>> /\ rio_buf = [i \in Index |-> 0]) /\ RioInit
  /\ Idles("echo", talk = [c |-> <<<<"a">>>>, d |-> <<<<"a", "a", "b", "\n">>>>]) /\ Echo!EchoInit
  /\ Idles("strings", said = <<<<"a">>>>) /\ Strings!StringsInit
  /\ Idles("shell", typed = <<>> /\ input = <<>>) /\ Shell!CommandLineInit
  /\ Idles("request", line = <<".", "1", ".", ".">>) /\ Request!RequestInit
  /\ Idles("processes", program = "myspin" /\ tty = TRUE) /\ Processes!ProcessesInit
  /\ Exercises!ExercisesInit /\ Idles("exercises", exercise = "matrix" /\ numbers.size = 0)
ProgramsNext ==
  /\ UNCHANGED which
  /\ \/ which = "rio" /\ RioNext /\ UNCHANGED <<echovars, stringvars, linevars, processvars, exercisevars>>
     \/ which = "echo" /\ Echo!EchoNext /\ UNCHANGED <<rio_vars, stringvars, linevars, processvars, exercisevars>>
     \/ /\ which = "strings" /\ Strings!StringsNext
        /\ UNCHANGED <<rio_vars, echovars, linevars, processvars, exercisevars>>
     \/ /\ which = "shell" /\ Shell!CommandLineNext
        /\ UNCHANGED <<rio_vars, echovars, stringvars, request, line, answer, parts, processvars, exercisevars>>
     \/ /\ which = "request" /\ Request!RequestNext
        /\ UNCHANGED <<rio_vars, echovars, stringvars, typed, input, cmdline, at, ran, processvars, exercisevars>>
     \/ /\ which = "processes" /\ Processes!ProcessesNext
        /\ UNCHANGED <<rio_vars, echovars, stringvars, linevars, exercisevars>>
     \/ /\ which = "exercises" /\ Exercises!ExercisesNext
        /\ UNCHANGED <<rio_vars, echovars, stringvars, linevars, processvars>>

\* The fairness of Rio and Echo, where they run.
ProgramsFairness ==
  /\ WF_rio_vars(Answers) /\ WF_rio_vars(CopyChar \/ CopyBytes)
  /\ WF_echovars(which = "echo" /\ Echo!Runs)
ProgramsSpec ==
  ProgramsInit
  /\ [][ProgramsNext]_<<which, rio_vars, echovars, stringvars, linevars, processvars, exercisevars>>
  /\ ProgramsFairness

-----------------------------------------------------------------------------
(* Clients of the echo servers receive their own lines, in order; bytecnt  *)
(* is the bytes that came in and one for each line without its end in the  *)
(* buffer, never more, and less only after two threads added at a time;    *)
(* and the strings of the homework end in their buffers.                   *)
EchoesInOrder ==
  /\ Echo!EchoesInOrder /\ Echo!CountsBytes
  /\ Strings!LinesComeBack /\ Strings!StrlenStays

(* Every client of the echo server gets its answers, or the server ends.   *)
Answered == Echo!Answered

(* Commands and requests mean what their users typed.                      *)
LinesAsTyped == Shell!CommandsAsTyped /\ Request!RequestsAsTyped

(* The small programs do what they are for, however they are scheduled,    *)
(* and the exercises compute what they should.                             *)
ProgramsDo == Processes!ProgramsDo /\ Exercises!ExercisesRight
=============================================================================
