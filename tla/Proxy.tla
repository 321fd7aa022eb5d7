------------------------------- MODULE Proxy -------------------------------
(***************************************************************************)
(* The logging proxy of Proxy_Lab (proxy.c): main accepts connections and  *)
(* starts a detached thread for each; a thread reads request lines "host   *)
(* port message", opens a connection to the server, relays the message,    *)
(* appends the answer to the log and sends it back.  From the connection   *)
(* to the reply it holds mutex_log, and while connecting mutex_oc too.     *)
(*                                                                         *)
(* The words of a line are cut out by strtok, which keeps its position in  *)
(* one static variable shared by all threads.  An error in a wrapper of    *)
(* csapp.c (Rio_readlineb, Close) ends the whole process by exit(0); the   *)
(* wrappers of proxy.c (Rio_writen_w, Rio_readlineb_w) print and go on.    *)
(*                                                                         *)
(* A line is its number of words: 0 stands for one that host_checker       *)
(* rejects; port_checker rejects nothing.  A text is the piece of a line   *)
(* that was sent to a server (the server answers with the same line).      *)
(* Local variables are reset when they are dead: port and msg at the end   *)
(* of a request, all but the copies of the line when a thread ends.        *)
(***************************************************************************)
EXTENDS Naturals, Sequences

CONSTANTS Clients,    \* connections made to the proxy
          Threads,    \* threads, and addresses malloc returns for their arguments
          MaxLines,   \* bound on the lines of one client
          Lengths,    \* numbers of words of the lines the clients send
          Faults      \* "refuse": a server cannot be reached; "mute": it closes
                      \* without answering; "leave", "reset": a client goes

ASSUME MaxLinesAssumption == MaxLines \in Nat
ASSUME LengthsAssumption == Lengths \subseteq 0 .. 3
ASSUME FaultsAssumption == Faults \subseteq {"refuse", "mute", "leave", "reset"}

VARIABLES
  status,      \* "up", "exited" (exit(0)) or "crashed" (NULL dereferenced)
  client,      \* client[c]: "new", "open", "closed" or "reset"
  sent,        \* sent[c]: lines read from c so far
  record,      \* record[a]: the log_info at heap address a
  pc, loc,     \* control and local variables of each thread
  save,        \* strtok's static pointer
  mutex_log, mutex_oc,
  log, out     \* entries of proxy.log; answers written to each client

conns == <<client, sent, record>>
locks == <<mutex_log, mutex_oc>>
vars  == <<status, conns, pc, loc, save, locks, log, out>>

NoClient == "free"
Nobody == "nobody"
End == 4                              \* position behind the last word
NULL == [t |-> Nobody, no |-> 0, pos |-> End]
Garbage == [NULL EXCEPT !.no = 1]     \* an uninitialised buffer
Usage == [NULL EXCEPT !.no = 2]       \* "usage: <host> <port> <message>"
Pieces == [t : Threads, no : 0 .. MaxLines, pos : 1 .. 3]
Texts == Pieces \cup {NULL, Garbage}

Labels == {"idle", "start", "read", "host", "port1", "port2", "port2_", "msg1", "msg2",
           "msg2_", "msg3", "msg3_", "P_log", "P_oc", "open", "send", "recv", "close",
           "log", "reply", "V_log", "closing", "ended"}
Line == [no : 0 .. MaxLines, words : 0 .. 3]
Local == [arg : Threads, fd : Clients \cup {NoClient}, buf : Line, copies : Line,
          olds : [owner : Threads \cup {Nobody}, pos : 1 .. End],
          port : Texts, msg : Texts, received : Texts, opened : BOOLEAN, epipe : BOOLEAN]

NoLine == [no |-> 0, words |-> 0]
ASSUME ClientsAssumption == NoClient \notin Clients /\ Nobody \notin Clients

NoSave == [owner |-> Nobody, pos |-> End]
NewLocal(t) ==
  [arg |-> t, fd |-> NoClient, buf |-> NoLine, copies |-> NoLine, olds |-> NoSave,
   port |-> NULL, msg |-> NULL, received |-> Garbage, opened |-> FALSE, epipe |-> FALSE]

Init ==
  /\ status = "up"
  /\ client = [c \in Clients |-> "new"] /\ sent = [c \in Clients |-> 0]
  /\ record = [a \in Threads |-> NoClient]
  /\ pc = [t \in Threads |-> "idle"]
  /\ loc = [t \in Threads |-> NewLocal(t)]
  /\ save = NoSave
  /\ mutex_log = 1 /\ mutex_oc = 1
  /\ log = <<>> /\ out = [c \in Clients |-> <<>>]

At(t, label) == status = "up" /\ pc[t] = label
Goto(t, label) == pc' = [pc EXCEPT ![t] = label]
Set(t, new) == loc' = [loc EXCEPT ![t] = new]

-----------------------------------------------------------------------------
(* main: accept a connection, put it in a record on the heap (any address  *)
(* that is free) and start a thread with that record's address.            *)
(* Mutant: one record for all threads. *)
SameAddress == {CHOOSE a \in Threads : TRUE}

Address == {a \in Threads : record[a] = NoClient}

Accept ==
  /\ status = "up"
  /\ \E c \in Clients, t \in Threads, a \in Address :
       /\ client[c] = "new" /\ pc[t] = "idle"
       /\ client' = [client EXCEPT ![c] = "open"]
       /\ record' = [record EXCEPT ![a] = c]
       /\ Goto(t, "start") /\ Set(t, [loc[t] EXCEPT !.arg = a])
  /\ UNCHANGED <<status, sent, save, locks, log, out>>

(* The thread copies the record and frees it. *)
Start(t) ==
  /\ At(t, "start")
  /\ Set(t, [loc[t] EXCEPT !.fd = record[loc[t].arg], !.arg = t])
  /\ record' = [record EXCEPT ![loc[t].arg] = NoClient]
  /\ Goto(t, "read")
  /\ UNCHANGED <<status, client, sent, save, locks, log, out>>

-----------------------------------------------------------------------------
(* Rio_readlineb: a line, end of file, or an error that ends the process.  *)
(* After a write that failed with EPIPE a line that was read is dropped    *)
(* and the connection closed.                                              *)
ReadLine(t) ==
  /\ At(t, "read")
  /\ LET c == loc[t].fd IN
       /\ client[c] \in {"open", "closed"} /\ sent[c] < MaxLines
       /\ sent' = [sent EXCEPT ![c] = @ + 1]
       /\ \E w \in Lengths : 
            Set(t, [loc[t] EXCEPT !.buf = [no |-> sent[c] + 1, words |-> w]])
  /\ Goto(t, IF loc[t].epipe THEN "closing" ELSE "host")
  /\ UNCHANGED <<status, client, record, save, locks, log, out>>

ReadEof(t) ==
  /\ At(t, "read") /\ client[loc[t].fd] \in {"closed", "reset"}
  /\ Goto(t, "closing")
  /\ UNCHANGED <<status, conns, loc, save, locks, log, out>>

ReadError(t) ==
  /\ At(t, "read") /\ client[loc[t].fd] = "reset"
  /\ status' = "exited"
  /\ UNCHANGED <<conns, pc, loc, save, locks, log, out>>

CloseClient(t) ==
  /\ At(t, "closing")
  /\ Goto(t, "ended") /\ Set(t, [NewLocal(t) EXCEPT !.copies = loc[t].copies])
  /\ UNCHANGED <<status, conns, save, locks, log, out>>

(* Rio_writen_w to the client: an answer, or an error that is printed; if  *)
(* it is EPIPE errno says so for the rest of the thread.                   *)
Write(t, text) ==
  LET c == loc[t].fd IN
    IF client[c] = "open"
    THEN out' = [out EXCEPT ![c] = Append(@, text)] /\ UNCHANGED loc
    ELSE \E e \in {loc[t].epipe, TRUE} :
           Set(t, [loc[t] EXCEPT !.epipe = e]) /\ UNCHANGED out

SendUsage(t) ==
  /\ At(t, "host") /\ loc[t].buf.words = 0
  /\ Write(t, Usage) /\ Goto(t, "read")
  /\ UNCHANGED <<status, conns, save, locks, log>>

-----------------------------------------------------------------------------
(* get_host, get_port and get_message cut words out of copies of the line. *)
(* strtok(s, ..) starts at s and writes the static pointer; strtok(NULL,   *)
(* ..) reads the pointer, and when done writes it: two steps (label_ is    *)
(* between them).  What it points to is some thread's copy; the copies of  *)
(* a thread have the same words.                                           *)
First(t, from, to) ==
  /\ At(t, from)
  /\ save' = [owner |-> t, pos |-> 2]
  /\ Goto(t, to)
  /\ UNCHANGED <<status, conns, locks, log, out>>

Load(t, from, to) ==
  /\ At(t, from)
  /\ Set(t, [loc[t] EXCEPT !.olds = save])
  /\ Goto(t, to)
  /\ UNCHANGED <<status, conns, save, locks, log, out>>

(* The piece at a position and the position behind it (the rest of the     *)
(* line if whole).                                                         *)
Piece(s) == IF s.owner \in Threads /\ s.pos <= loc[s.owner].copies.words
            THEN [t |-> s.owner, no |-> loc[s.owner].copies.no, pos |-> s.pos] ELSE NULL
Behind(s, whole) == IF Piece(s) = NULL THEN s
                    ELSE [s EXCEPT !.pos = IF whole THEN End ELSE @ + 1]

GetHost(t) ==
  /\ loc[t].buf.words > 0 /\ First(t, "host", "port1")
  /\ Set(t, [loc[t] EXCEPT !.copies = loc[t].buf])

GetPort(t) ==
  \/ First(t, "port1", "port2") /\ UNCHANGED loc
  \/ Load(t, "port2", "port2_")
  \/ /\ At(t, "port2_")
     /\ LET p == Piece(loc[t].olds) IN
          /\ save' = Behind(loc[t].olds, FALSE)
          /\ IF p = NULL
             THEN status' = "crashed" /\ UNCHANGED <<pc, loc>>       \* atoi(NULL)
             ELSE Set(t, [loc[t] EXCEPT !.port = p, !.olds = NoSave]) /\ Goto(t, "msg1") /\ UNCHANGED status
     /\ UNCHANGED <<conns, locks, log, out>>

GetMessage(t) ==
  \/ First(t, "msg1", "msg2") /\ UNCHANGED loc
  \/ Load(t, "msg2", "msg2_")
  \/ /\ At(t, "msg2_")
     /\ save' = Behind(loc[t].olds, FALSE)
     /\ IF Piece(loc[t].olds) = NULL
        THEN Goto(t, "P_log") /\ Set(t, [loc[t] EXCEPT !.msg = NULL, !.olds = NoSave])
        ELSE Goto(t, "msg3") /\ Set(t, [loc[t] EXCEPT !.olds = NoSave])
     /\ UNCHANGED <<status, conns, locks, log, out>>
  \/ Load(t, "msg3", "msg3_")
  \/ /\ At(t, "msg3_")
     /\ save' = Behind(loc[t].olds, TRUE)
     /\ Set(t, [loc[t] EXCEPT !.msg = Piece(loc[t].olds), !.olds = NoSave])
     /\ Goto(t, "P_log")
     /\ UNCHANGED <<status, conns, locks, log, out>>

-----------------------------------------------------------------------------
(* P(&mutex_log); open_clientfd_ts.  Its error returns leave mutex_oc      *)
(* taken and give a negative descriptor.                                   *)
\* Mutant: P returns without waiting, as sem_wait does when interrupted.
LockLogInterrupted(t) ==
  /\ At(t, "P_log")
  /\ mutex_log' = mutex_log - 1 /\ Goto(t, "P_oc")
  /\ UNCHANGED <<status, conns, loc, save, mutex_oc, log, out>>

LockLog(t) ==
  /\ At(t, "P_log") /\ mutex_log = 1
  /\ mutex_log' = 0 /\ Goto(t, "P_oc")
  /\ UNCHANGED <<status, conns, loc, save, mutex_oc, log, out>>

LockOc(t) ==
  /\ At(t, "P_oc") /\ mutex_oc = 1
  /\ mutex_oc' = 0 /\ Goto(t, "open")
  /\ UNCHANGED <<status, conns, loc, save, mutex_log, log, out>>

Open(t) ==
  /\ At(t, "open")
  /\ \/ mutex_oc' = 1 /\ Set(t, [loc[t] EXCEPT !.opened = TRUE])
     \/ "refuse" \in Faults /\ Set(t, [loc[t] EXCEPT !.opened = FALSE]) /\ UNCHANGED mutex_oc
  /\ Goto(t, "send")
  /\ UNCHANGED <<status, conns, save, mutex_log, log, out>>

(* Rio_writen_w(proxy_fd, msg, strlen(msg)); a server that has closed      *)
(* already makes it fail with EPIPE.                                       *)
Send(t) ==
  /\ At(t, "send")
  /\ IF loc[t].msg = NULL
     THEN status' = "crashed" /\ UNCHANGED <<pc, loc>>                \* strlen(NULL)
     ELSE /\ \/ UNCHANGED loc
             \/ "mute" \in Faults /\ loc[t].opened /\ Set(t, [loc[t] EXCEPT !.epipe = TRUE])
          /\ Goto(t, "recv") /\ UNCHANGED status
  /\ UNCHANGED <<conns, save, locks, log, out>>

(* Rio_readlineb_w: without an answer msg_received keeps what it held: the *)
(* previous answer, as long as nothing else has used its stack space.      *)
Answered(t) ==
  /\ At(t, "recv") /\ loc[t].opened
  /\ Set(t, [loc[t] EXCEPT !.received = loc[t].msg])
  /\ Goto(t, "close")
  /\ UNCHANGED <<status, conns, save, locks, log, out>>

NotAnswered(t) ==
  /\ At(t, "recv") /\ (~ loc[t].opened \/ "mute" \in Faults)
  /\ \E text \in {loc[t].received, Garbage}, e \in {loc[t].epipe, FALSE} :
       Set(t, [loc[t] EXCEPT !.received = text, !.epipe = e])
  /\ Goto(t, "close")
  /\ UNCHANGED <<status, conns, save, locks, log, out>>

(* Mutant: a failed close is reported, and the thread goes on. *)
CloseWarns(t) ==
  /\ At(t, "close") /\ Goto(t, "log")
  /\ UNCHANGED <<status, conns, loc, save, locks, log, out>>

(* Close(proxy_fd) of a negative descriptor is an error: exit(0). *)
CloseServer(t) ==
  /\ At(t, "close")
  /\ IF loc[t].opened THEN Goto(t, "log") /\ UNCHANGED status
                      ELSE status' = "exited" /\ UNCHANGED pc
  /\ UNCHANGED <<conns, loc, save, locks, log, out>>

(* Mutant: V(&mutex_log) where line 397 has it in a comment. *)
AppendAndUnlock(t) ==
  /\ At(t, "log")
  /\ log' = Append(log, [client |-> loc[t].fd, text |-> loc[t].received])
  /\ mutex_log' = 1 /\ Goto(t, "reply")
  /\ UNCHANGED <<status, conns, loc, save, mutex_oc, out>>

AppendLog(t) ==
  /\ At(t, "log")
  /\ log' = Append(log, [client |-> loc[t].fd, text |-> loc[t].received])
  /\ Goto(t, "reply")
  /\ UNCHANGED <<status, conns, loc, save, locks, out>>

(* Mutant: a thread whose client has gone returns with mutex_log taken. *)
ReplyOrReturn(t) ==
  /\ At(t, "reply")
  /\ Write(t, loc[t].received)
  /\ Goto(t, IF client[loc[t].fd] = "open" THEN "V_log" ELSE "closing")
  /\ UNCHANGED <<status, conns, save, locks, log>>

Reply(t) ==
  /\ At(t, "reply")
  /\ Write(t, loc[t].received)
  /\ Goto(t, "V_log")
  /\ UNCHANGED <<status, conns, save, locks, log>>

UnlockLog(t) ==
  /\ At(t, "V_log")
  /\ mutex_log' = 1 /\ Goto(t, "read")
  /\ Set(t, [loc[t] EXCEPT !.buf = NoLine, !.port = NULL, !.msg = NULL, !.opened = FALSE])
  /\ UNCHANGED <<status, conns, save, mutex_oc, log, out>>

-----------------------------------------------------------------------------
(* A client closes its connection, in order or with a reset. *)
Leave(c) ==
  /\ status = "up" /\ client[c] = "open"
  /\ \E how \in {"closed" : f \in Faults \cap {"leave"}} \cup {"reset" : f \in Faults \cap {"reset"}} :
       client' = [client EXCEPT ![c] = how]
  /\ UNCHANGED <<status, sent, record, pc, loc, save, locks, log, out>>

Runs(t) ==
  \/ Start(t) \/ ReadEof(t) \/ ReadError(t) \/ CloseClient(t) \/ SendUsage(t)
  \/ GetHost(t) \/ GetPort(t) \/ GetMessage(t) \/ LockOc(t) \/ Open(t) \/ Send(t)
  \/ Answered(t) \/ NotAnswered(t) \/ CloseServer(t) \/ AppendLog(t) \/ Reply(t) \/ UnlockLog(t)

Next ==
  \/ Accept
  \/ \E t \in Threads : ReadLine(t) \/ LockLog(t) \/ Runs(t)
  \/ \E c \in Clients : Leave(c)

Spec == Init /\ [][Next]_vars

-----------------------------------------------------------------------------
TypeOK ==
  /\ status \in {"up", "exited", "crashed"}
  /\ client \in [Clients -> {"new", "open", "closed", "reset"}]
  /\ sent \in [Clients -> 0 .. MaxLines]
  /\ record \in [Threads -> Clients \cup {NoClient}]
  /\ pc \in [Threads -> Labels] /\ loc \in [Threads -> Local]
  /\ save \in [owner : Threads \cup {Nobody}, pos : 1 .. End]
  /\ mutex_log \in {0, 1} /\ mutex_oc \in {0, 1}
  /\ log \in Seq([client : Clients, text : Texts])
  /\ out \in [Clients -> Seq(Texts \cup {Usage})]

(* Each connection is served by one thread: the thread reads its own       *)
(* log_info, although main is already accepting the next connection.       *)
Serving(t) == IF pc[t] = "start" THEN record[loc[t].arg] ELSE loc[t].fd
OwnConnection ==
  \A t, u \in Threads : t # u /\ Serving(t) \in Clients => Serving(t) # Serving(u)

(* A thread never waits for mutex_oc: it is only taken inside mutex_log,   *)
(* and the error returns of open_clientfd_ts that leave it taken (431,     *)
(* 446, 456) end in exit(0) before mutex_log is free again.                *)
OcNeverWaits == \A t \in Threads : At(t, "P_oc") => mutex_oc = 1

(* From the connection to the server until the reply is written a thread   *)
(* is alone.                                                               *)
Inside == {"P_oc", "open", "send", "recv", "close", "log", "reply", "V_log"}
OneRelay == \A t, u \in Threads : pc[t] \in Inside /\ pc[u] \in Inside => t = u

(* proxy.log has one entry per relayed answer, in the order in which the   *)
(* answers are written to the clients, and before them.                    *)
Replying == {t \in Threads : pc[t] = "reply"}
dueNow == IF Replying = {} THEN [client |-> Nobody, text |-> "nothing"]
          ELSE LET t == CHOOSE u \in Replying : TRUE
               IN [client |-> loc[t].fd, text |-> loc[t].received]
RL == INSTANCE RelayLog WITH due <- dueNow
ImplementsRelayLog == RL!RLSpec

(* The text sent to the server is the message of the thread's own line.    *)
OwnWords == \A t \in Threads : pc[t] \in Inside =>
              /\ loc[t].port = [t |-> t, no |-> loc[t].buf.no, pos |-> 2]
              /\ loc[t].msg = [t |-> t, no |-> loc[t].buf.no, pos |-> 3]

-----------------------------------------------------------------------------
(* Fairness: every thread that can run does, a mutex that is free again    *)
(* and again is given to each waiter in turn, and servers answer or close. *)
Fairness == \A t \in Threads : WF_vars(Runs(t)) /\ SF_vars(LockLog(t))
FairSpec == Spec /\ Fairness

(* A request that waits for the log gets its turn and is finished.         *)
Served == \A t \in Threads :
            At(t, "P_log") ~> pc[t] = "V_log" \/ status # "up"
=============================================================================
