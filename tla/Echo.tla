-------------------------------- MODULE Echo --------------------------------
(***************************************************************************)
(* The echo server with a thread per connection (echoservert.c, echo.c)    *)
(* and its clients (echoclient.c), on the wrappers of csapp.c, each of     *)
(* which ends the process when the call fails.  A connection is a pair of  *)
(* byte streams; rio_readlineb takes a line at once, as ByteStream shows;  *)
(* rio_writen writes as much at a time as write() takes.                   *)
(***************************************************************************)
EXTENDS CStrings

CONSTANTS
  Clients,
  MAXLINE,       \* size of a line, with its zero
  Inputs,        \* what users may type
  Upper          \* toupper

VARIABLES
  server,        \* what the main thread has come to: "new", "socket", "bound", "listening", "allocated",
                 \* "accepted", "named"; or "ended"
  backlog,       \* clients to be accepted; the first is the one accepted
  bytecnt,
  thread,        \* of each connection: [pc, buf, n, seen]
  client,        \* of each client: [pc, buf]
  typed, stdin,  \* the lines its user types; what it has not read of them
  up, down,      \* bytes under way to the server and to the client
  printed,       \* history: what the client has printed
  counted,       \* history: [bytes, unended], the bytes of the lines that were added to bytecnt,
                 \* and how many of these lines had no end in the buffer
  overlapped     \* history: whether two threads added at a time
echovars == <<server, backlog, bytecnt, thread, client, typed, stdin, up, down, printed, counted, overlapped>>

EchoInit ==
  /\ server = "new" /\ backlog = <<>> /\ bytecnt = 0
  /\ thread = [c \in Clients |-> [pc |-> "none", buf |-> <<>>, n |-> 0, seen |-> 0]]
  /\ client = [c \in Clients |-> [pc |-> "new", buf |-> <<>>]]
  /\ typed \in Inputs /\ stdin = [c \in Clients |-> FlattenSeq(typed[c])]
  /\ up = [c \in Clients |-> <<>>] /\ down = up /\ printed = up
  /\ counted = [bytes |-> 0, unended |-> 0] /\ overlapped = FALSE

-----------------------------------------------------------------------------
(* rio_readlineb: the line, and the length that is returned, which is one  *)
(* more than what is stored where the line has no end.                     *)
\* Mutant: a line that fills the buffer waits for one more character.
LineReadyFull(s, eof) == eof \/ Len(s) >= LineLength(s, MAXLINE + 1)
LineReady(s, eof) == eof \/ Len(s) >= LineLength(s, MAXLINE)
\* Mutant: one more for every line.
LineReadAhead(s) ==
  LET k == LineLength(s, MAXLINE)
      buf == IF k <= Len(s) THEN SubSeq(s, 1, k) ELSE s
  IN [buf |-> buf, n |-> IF buf = <<>> THEN 0 ELSE Len(buf) + 1, rest |-> From(s, Len(buf) + 1)]
LineRead(s) ==
  LET k == LineLength(s, MAXLINE)
      buf == IF k <= Len(s) THEN SubSeq(s, 1, k) ELSE s
  IN [buf |-> buf, rest |-> From(s, Len(buf) + 1),
      n |-> IF buf = <<>> \/ Last(buf) = "\n" THEN Len(buf) ELSE Len(buf) + 1]

-----------------------------------------------------------------------------
(* The main thread of the server.                                          *)
Up == server # "ended"
Gone(c) == client[c].pc \in {"left", "killed"}
ServerOnly == UNCHANGED <<client, typed, stdin, printed>>

MainStep(from, to) ==
  /\ server = from /\ server' = to /\ ServerOnly
  /\ UNCHANGED <<bytecnt, up, down, counted, overlapped>>
OpenListen(from, to) == MainStep(from, to) /\ UNCHANGED <<backlog, thread>>
Allocate == MainStep("listening", "allocated") /\ UNCHANGED <<backlog, thread>>
Accept == backlog # <<>> /\ MainStep("allocated", "accepted") /\ UNCHANGED <<backlog, thread>>
LookUp == MainStep("accepted", "named") /\ UNCHANGED <<backlog, thread>>
StartThread ==
  /\ MainStep("named", "listening") /\ backlog' = Tail(backlog)
  /\ thread' = [thread EXCEPT ![Head(backlog)].pc = "read"]

\* The error functions end the process, and with it every connection; so
\* does atoi(argv[1]) where no port was given (ListenFails in "new").
Exits == server' = "ended" /\ ServerOnly /\ UNCHANGED <<backlog, bytecnt, thread, up, down, counted, overlapped>>
ListenFails == server \in {"new", "socket", "bound"} /\ Exits
MallocFails == server = "listening" /\ Exits
AcceptFails == server = "allocated" /\ backlog # <<>> /\ Exits
LookUpFails == server = "accepted" /\ Exits
CreateFails == server = "named" /\ Exits

-----------------------------------------------------------------------------
(* echo.                                                                   *)
Running(c, pc) == Up /\ thread[c].pc = pc

ThreadReads(c) ==
  LET line == LineRead(up[c])
  IN /\ Running(c, "read") /\ LineReady(up[c], Gone(c))
     /\ up' = [up EXCEPT ![c] = line.rest]
     /\ thread' = [thread EXCEPT ![c].pc = IF line.n = 0 THEN "closed" ELSE "load",
                                 ![c].buf = line.buf, ![c].n = line.n]
     /\ ServerOnly /\ UNCHANGED <<server, backlog, bytecnt, down, counted, overlapped>>

\* bytecnt += n, by any number of threads at a time.
LoadCount(c) ==
  /\ Running(c, "load")
  /\ thread' = [thread EXCEPT ![c].pc = "store", ![c].seen = bytecnt]
  /\ overlapped' = (overlapped \/ \E d \in Clients \ {c} : thread[d].pc = "store")
  /\ ServerOnly /\ UNCHANGED <<server, backlog, bytecnt, up, down, counted>>
\* upper_case ends at the zero; what is written is n bytes, with it if n
\* reaches that far.
StoreCount(c) ==
  /\ Running(c, "store") /\ bytecnt' = thread[c].seen + thread[c].n
  /\ LET buf == thread[c].buf
     IN counted' = [bytes |-> counted.bytes + Len(buf),
                    unended |-> IF Last(buf) = "\n" THEN counted.unended ELSE counted.unended + 1]
  /\ LET upper == [i \in DOMAIN thread[c].buf |-> Upper[thread[c].buf[i]]]
     IN thread' = [thread EXCEPT ![c].pc = "write", ![c].buf = SubSeq(Append(upper, Nul), 1, thread[c].n)]
  /\ ServerOnly /\ UNCHANGED <<server, backlog, up, down, overlapped>>

ThreadWrites(c, k) ==
  LET left == thread[c].buf
  IN /\ Running(c, "write") /\ k \in 1 .. Len(left)
     /\ down' = [down EXCEPT ![c] = @ \o SubSeq(left, 1, k)]
     /\ thread' = [thread EXCEPT ![c].pc = IF k = Len(left) THEN "read" ELSE "write", ![c].buf = From(left, k + 1)]
     /\ ServerOnly /\ UNCHANGED <<server, backlog, bytecnt, up, counted, overlapped>>
\* The peer has gone with bytes that it did not read.
ReadFails(c) == Running(c, "read") /\ Gone(c) /\ down[c] # <<>> /\ Exits
WriteFails(c) == Running(c, "write") /\ Gone(c) /\ down[c] # <<>> /\ Exits

-----------------------------------------------------------------------------
(* A client.                                                               *)
At(c, pc) == client[c].pc = pc
Linked(c) == client[c].pc \in {"type", "send", "echo"}
ClientOnly == UNCHANGED <<server, bytecnt, thread, typed, counted, overlapped>>

\* open_clientfd: the descriptor, the name, and the connection, which is
\* refused unless the server listens.
Connect(c) ==
  /\ At(c, "new") /\ server \in {"listening", "allocated", "accepted", "named"}
  /\ client' = [client EXCEPT ![c].pc = "type"] /\ backlog' = Append(backlog, c)
  /\ ClientOnly /\ UNCHANGED <<stdin, up, down, printed>>
ConnectFails(c) ==
  /\ At(c, "new") /\ client' = [client EXCEPT ![c].pc = "refused"]
  /\ ClientOnly /\ UNCHANGED <<backlog, stdin, up, down, printed>>

\* Fgets; the end of the input ends the client.
Type(c) ==
  LET k == LineLength(stdin[c], MAXLINE)
      buf == IF k <= Len(stdin[c]) THEN SubSeq(stdin[c], 1, k) ELSE stdin[c]
  IN /\ At(c, "type") /\ stdin' = [stdin EXCEPT ![c] = From(@, Len(buf) + 1)]
     /\ client' = [client EXCEPT ![c] = [pc |-> IF buf = <<>> THEN "left" ELSE "send", buf |-> buf]]
     /\ ClientOnly /\ UNCHANGED <<backlog, up, down, printed>>
Send(c) ==
  /\ At(c, "send") /\ up' = [up EXCEPT ![c] = @ \o client[c].buf]
  /\ client' = [client EXCEPT ![c].pc = "echo"]
  /\ ClientOnly /\ UNCHANGED <<backlog, stdin, down, printed>>
\* When the server has ended nothing is stored, and the client prints its
\* own line.
PrintEcho(c) ==
  LET line == LineRead(down[c])
      buf == IF line.n = 0 THEN client[c].buf ELSE CString(line.buf)
  IN /\ At(c, "echo") /\ LineReady(down[c], ~Up)
     /\ down' = [down EXCEPT ![c] = line.rest] /\ printed' = [printed EXCEPT ![c] = Append(@, buf)]
     /\ client' = [client EXCEPT ![c] = [pc |-> "type", buf |-> buf]]
     /\ ClientOnly /\ UNCHANGED <<backlog, stdin, up>>
\* An error of its wrappers, once the server has ended, or its user.
ClientDies(c) ==
  /\ Linked(c) /\ client' = [client EXCEPT ![c].pc = "killed"]
  /\ ClientOnly /\ UNCHANGED <<backlog, stdin, up, down, printed>>

-----------------------------------------------------------------------------
Main == \/ OpenListen("new", "socket") \/ OpenListen("socket", "bound") \/ OpenListen("bound", "listening")
        \/ Allocate \/ Accept \/ LookUp \/ StartThread
Thread(c) ==
  ThreadReads(c) \/ LoadCount(c) \/ StoreCount(c) \/ \E k \in 1 .. MAXLINE : ThreadWrites(c, k)
Client(c) == Connect(c) \/ Type(c) \/ Send(c) \/ PrintEcho(c)
EchoNext == \/ Main \/ ListenFails \/ MallocFails \/ AcceptFails \/ LookUpFails \/ CreateFails
            \/ \E c \in Clients : \/ Thread(c) \/ ReadFails(c) \/ WriteFails(c)
                                 \/ Client(c) \/ ConnectFails(c) \/ ClientDies(c)
\* One of the threads that can go on does: no more is asked of the scheduler.
Runs == Main \/ \E c \in Clients : Thread(c) \/ Client(c)
EchoFairness == WF_echovars(Runs)

-----------------------------------------------------------------------------
(* As long as the server is up, a client sees the lines that its user has  *)
(* typed, in upper case, one after the other, if they have their ends and  *)
(* fit in the buffer: never those of another connection, or an answer to   *)
(* the line before.                                                        *)
Fits(c) == \A i \in DOMAIN typed[c] : Last(typed[c][i]) = "\n" /\ Len(typed[c][i]) < MAXLINE
InUpper(line) == [i \in DOMAIN line |-> Upper[line[i]]]
EchoesInOrder ==
  \A c \in Clients :
    Up /\ Fits(c) => IsPrefix(printed[c], [i \in DOMAIN typed[c] |-> InUpper(typed[c][i])])

(* bytecnt counts the bytes that came in, and one more for every line      *)
(* whose end was not in the buffer, since rio_readlineb returns one too    *)
(* many for it.  It falls short of that only after two threads added at a  *)
(* time, and never exceeds it.                                             *)
CountsBytes ==
  LET all == counted.bytes + counted.unended
  IN bytecnt <= all /\ (~overlapped => bytecnt = all)

(* Every client comes to the end of its input, however long the lines are, *)
(* as long as each has its end; or the server has ended.                   *)
Terminated(c) == \A i \in DOMAIN typed[c] : Last(typed[c][i]) = "\n"
Answered == \A c \in Clients : Linked(c) /\ Terminated(c) ~> Gone(c) \/ ~Up
=============================================================================
