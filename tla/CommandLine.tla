---------------------------- MODULE CommandLine ----------------------------
(***************************************************************************)
(* The read/eval loop of tsh.c and parseline: options, lines from fgets,   *)
(* their words, and what eval does with them.  What a command does is in   *)
(* Tsh.  A line is a sequence of characters; typed is history: the         *)
(* commands that the user means by the input, where it means any.          *)
(***************************************************************************)
EXTENDS CStrings, FiniteSetsExt

CONSTANTS
  MAXLINE,       \* size of a line, with its zero
  MAXARGS,       \* entries of argv
  QuitWord,
  Scripts,       \* sequences of commands that users type
  Texts          \* other inputs

VARIABLES
  typed,         \* the commands meant, or Nothing
  input,         \* what has not been read
  cmdline,       \* the line being evaluated
  at,            \* "start", "read", "eval", or how the shell ended
  ran            \* history: commands that eval has carried out
clvars == <<typed, input, cmdline, at, ran>>

Nothing == <<>>

-----------------------------------------------------------------------------
(* What users type: words after one blank or more, a word in quotes when   *)
(* it needs them, & at the end for the background.                         *)
Typed(word) == Blanks(word.gap) \o IF word.quoted THEN <<"'">> \o word.text \o <<"'">> ELSE word.text
LineOf(c) ==
  FlattenSeq([i \in DOMAIN c.words |-> Typed(c.words[i])]) \o (IF c.bg THEN <<" ", "&">> ELSE <<>>) \o <<"\n">>
Meaning(c) == [argv |-> [i \in DOMAIN c.words |-> c.words[i].text], bg |-> c.bg]

-----------------------------------------------------------------------------
(* parseline.                                                              *)
SkipBlanks(s, i) == Min({j \in i .. Len(s) : s[j] # " "} \cup {Len(s) + 1})

\* Mutant: a quoted word is looked for from its opening quote.
WordAtQuote(s, i) ==
  LET buf == SkipBlanks(s, i)
      quoted == buf <= Len(s) /\ s[buf] = "'"
  IN [first |-> buf, delim |-> StrChr(s, IF quoted THEN "'" ELSE " ", buf)]
WordAt(s, i) ==
  LET buf == SkipBlanks(s, i)
      quoted == buf <= Len(s) /\ s[buf] = "'"
      first == IF quoted THEN buf + 1 ELSE buf
  IN [first |-> first, delim |-> StrChr(s, IF quoted THEN "'" ELSE " ", first)]

\* The words of a line, whatever its last character was; after a quote that
\* is not closed there are no more.
SplitLine(line) ==
  LET array == [line EXCEPT ![Len(line)] = " "]
      WordsFrom[i \in 1 .. Len(line) + 1] ==
        LET w == WordAt(array, i)
        IN IF w.delim = 0 THEN <<>>
           ELSE <<SubSeq(array, w.first, w.delim - 1)>> \o WordsFrom[w.delim + 1]
  IN WordsFrom[1]

\* A last word that begins with & is dropped, in quotes or not.  A line
\* without words asks for the background, too.
parseline(line) ==
  LET words == SplitLine(line)
      bg == words = <<>> \/ (Last(words) # <<>> /\ Head(Last(words)) = "&")
  IN [argv |-> IF bg /\ words # <<>> THEN Front(words) ELSE words, bg |-> bg, argc |-> Len(words)]

-----------------------------------------------------------------------------
CommandLineInit ==
  /\ \/ typed \in Scripts /\ input = FlattenSeq([i \in DOMAIN typed |-> LineOf(typed[i])])
     \/ typed = Nothing /\ input \in Texts
  /\ cmdline = <<>> /\ at = "start" /\ ran = <<>>

\* -p and -v are noted; -h and options that the shell has not print its usage.
usage     == at = "start" /\ at' = "usage" /\ UNCHANGED <<typed, input, cmdline, ran>>
StartLoop == at = "start" /\ at' = "read" /\ UNCHANGED <<typed, input, cmdline, ran>>

ReadLine ==
  LET n == LineLength(input, MAXLINE)
  IN /\ at = "read" /\ Len(input) >= n
     /\ cmdline' = SubSeq(input, 1, n) /\ input' = From(input, n + 1)
     /\ at' = "eval" /\ UNCHANGED <<typed, ran>>
\* What stands before the end of the file without a line end is not run.
ReadEof ==
  /\ at = "read" /\ Len(input) < LineLength(input, MAXLINE)
  /\ at' = "eof" /\ UNCHANGED <<typed, input, cmdline, ran>>
ReadError == at = "read" /\ at' = "error" /\ UNCHANGED <<typed, input, cmdline, ran>>

\* eval reads argv[0] of a line without words, which is NULL.
EvalEmpty ==
  /\ at = "eval" /\ cmdline = <<"\n">> /\ at' = "read"
  /\ UNCHANGED <<typed, input, cmdline, ran>>
EvalNoWord ==
  /\ at = "eval" /\ cmdline # <<"\n">> /\ parseline(cmdline).argv = <<>>
  /\ at' = "crash"
  /\ UNCHANGED <<typed, input, cmdline, ran>>
EvalCommand ==
  LET p == parseline(cmdline)
  IN /\ at = "eval" /\ cmdline # <<"\n">> /\ p.argv # <<>>
     /\ ran' = Append(ran, [argv |-> p.argv, bg |-> p.bg])
     /\ at' = IF Head(p.argv) = QuitWord THEN "quit" ELSE "read"
     /\ UNCHANGED <<typed, input, cmdline>>

CommandLineNext ==
  \/ usage \/ StartLoop \/ ReadLine \/ ReadEof \/ ReadError \/ EvalEmpty \/ EvalNoWord \/ EvalCommand
CommandLineSpec == CommandLineInit /\ [][CommandLineNext]_clvars

-----------------------------------------------------------------------------
(* A shell runs the commands that were typed, each with its words and its  *)
(* place in the foreground or the background, whatever blanks and quotes   *)
(* separate them, one after the other, until quit or the end of the input; *)
(* and argv has room for the words of a line shorter than twice its size.  *)
UpToQuit(script) ==
  LET quits == {i \in DOMAIN script : Head(Meaning(script[i]).argv) = QuitWord}
      n == IF quits = {} THEN Len(script) ELSE Min(quits)
  IN [i \in 1 .. n |-> Meaning(script[i])]
CommandsAsTyped ==
  /\ typed # Nothing /\ (\A i \in DOMAIN typed : Len(LineOf(typed[i])) < MAXLINE) =>
    /\ IsPrefix(ran, UpToQuit(typed))
    /\ at \in {"eof", "quit"} => ran = UpToQuit(typed)
    /\ at # "crash"
  /\ at = "eval" /\ Len(cmdline) < 2 * MAXARGS => parseline(cmdline).argc < MAXARGS
=============================================================================
