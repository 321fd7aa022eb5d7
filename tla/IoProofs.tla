------------------------------ MODULE IoProofs ------------------------------
(***************************************************************************)
(* Theorems about what the proxy and its readers read and write, for any   *)
(* number of connections, threads and bytes.                               *)
(*                                                                         *)
(* The proxy's state is well formed, a relay runs alone and never waits    *)
(* for mutex_oc, every connection has one thread, and proxy.log is the log *)
(* that RelayLog promises, whatever fails.  The readers of Rio keep the    *)
(* stream in order and implement ByteStream, for every size of buffer,     *)
(* stream and sequence of calls.                                           *)
(***************************************************************************)
EXTENDS Proxy, Rio, FiniteSetTheorems, SequenceTheorems, TLAPS

(* What the steps of a thread do to control and local variables. *)
LEMMA SetTyped ==
  ASSUME NEW t \in Threads, NEW new \in Local, loc \in [Threads -> Local], Set(t, new)
  PROVE  loc' \in [Threads -> Local]
BY DEF Set

LEMMA GotoTyped ==
  ASSUME NEW t \in Threads, NEW l \in Labels, pc \in [Threads -> Labels], Goto(t, l)
  PROVE  pc' \in [Threads -> Labels]
BY DEF Goto

LEMMA LocalFields ==
  ASSUME NEW r \in Local
  PROVE  /\ \A c \in Clients, a \in Threads : [r EXCEPT !.fd = c, !.arg = a] \in Local
         /\ \A a \in Threads : [r EXCEPT !.arg = a] \in Local
         /\ \A l \in Line : [r EXCEPT !.buf = l] \in Local /\ [r EXCEPT !.copies = l] \in Local
         /\ \A e \in BOOLEAN : [r EXCEPT !.epipe = e] \in Local /\ [r EXCEPT !.opened = e] \in Local
         /\ \A s \in [owner : Threads \cup {Nobody}, pos : 1 .. End] : [r EXCEPT !.olds = s] \in Local
         /\ \A p \in Texts : /\ [r EXCEPT !.port = p, !.olds = NoSave] \in Local
                             /\ [r EXCEPT !.msg = p, !.olds = NoSave] \in Local
                             /\ [r EXCEPT !.received = p] \in Local
         /\ \A p \in Texts, e \in BOOLEAN : [r EXCEPT !.received = p, !.epipe = e] \in Local
<1>1. NoSave \in [owner : Threads \cup {Nobody}, pos : 1 .. End]
  BY DEF NoSave, End
<1> QED BY <1>1 DEF Local

LEMMA NewTyped ==
  ASSUME NEW t \in Threads
  PROVE  /\ NewLocal(t) \in Local
         /\ \A l \in Line : [NewLocal(t) EXCEPT !.copies = l] \in Local
<1>1. NoLine \in Line
  BY MaxLinesAssumption DEF NoLine, Line
<1>2. NoSave \in [owner : Threads \cup {Nobody}, pos : 1 .. End]
  BY DEF NoSave, End
<1>3. NULL \in Texts /\ Garbage \in Texts
  BY DEF Texts
<1> QED BY <1>1, <1>2, <1>3 DEF NewLocal, Local

LEMMA PieceTyped ==
  ASSUME loc \in [Threads -> Local], NEW s \in [owner : Threads \cup {Nobody}, pos : 1 .. End]
  PROVE  /\ Piece(s) \in Texts
         /\ \A w \in BOOLEAN : Behind(s, w) \in [owner : Threads \cup {Nobody}, pos : 1 .. End]
<1>1. CASE s.owner \in Threads /\ s.pos <= loc[s.owner].copies.words
  <2>1. loc[s.owner].copies \in Line
    BY <1>1 DEF Local
  <2>2. s.pos \in 1 .. 3
    BY <1>1, <2>1 DEF Line, End
  <2>3. loc[s.owner].copies.no \in 0 .. MaxLines
    BY <2>1 DEF Line
  <2>4. Piece(s) = [t |-> s.owner, no |-> loc[s.owner].copies.no, pos |-> s.pos]
    BY <1>1 DEF Piece
  <2>5. Piece(s) \in Pieces
    BY <1>1, <2>2, <2>3, <2>4 DEF Pieces
  <2>6. \A w \in BOOLEAN : Behind(s, w) \in [owner : Threads \cup {Nobody}, pos : 1 .. End]
    BY <2>2 DEF Behind, End
  <2> QED BY <2>5, <2>6 DEF Texts
<1>2. CASE ~ (s.owner \in Threads /\ s.pos <= loc[s.owner].copies.words)
  <2>1. Piece(s) = NULL
    BY <1>2 DEF Piece
  <2> QED BY <2>1 DEF Texts, Behind
<1> QED BY <1>1, <1>2

LEMMA TypeInit == Init => TypeOK
<1> SUFFICES ASSUME Init PROVE TypeOK
  OBVIOUS
<1>1. loc \in [Threads -> Local]
  BY NewTyped DEF Init
<1>2. log \in Seq([client : Clients, text : Texts]) /\ out \in [Clients -> Seq(Texts \cup {Usage})]
  BY DEF Init
<1> QED BY <1>1, <1>2, MaxLinesAssumption DEF Init, TypeOK, Labels, NoSave, End

(* A write to a client: typed, and it leaves the thread's other variables. *)
LEMMA WriteTyped ==
  ASSUME TypeOK, NEW t \in Threads, loc[t].fd \in Clients, NEW x \in Texts \cup {Usage},
         Write(t, x)
  PROVE  loc' \in [Threads -> Local] /\ out' \in [Clients -> Seq(Texts \cup {Usage})]
<1>0. loc[t] \in Local /\ loc[t].epipe \in BOOLEAN
  BY DEF TypeOK, Local
<1>1. CASE client[loc[t].fd] = "open"
  <2>1. out[loc[t].fd] \in Seq(Texts \cup {Usage})
    BY DEF TypeOK
  <2>2. Append(out[loc[t].fd], x) \in Seq(Texts \cup {Usage})
    BY <2>1
  <2> QED BY <1>1, <2>2 DEF Write, TypeOK
<1>2. CASE client[loc[t].fd] # "open"
  <2>1. PICK e \in BOOLEAN : Set(t, [loc[t] EXCEPT !.epipe = e]) /\ UNCHANGED out
    BY <1>0, <1>2 DEF Write
  <2>2. [loc[t] EXCEPT !.epipe = e] \in Local
    BY <1>0, LocalFields
  <2> QED BY <2>1, <2>2, SetTyped DEF TypeOK
<1> QED BY <1>1, <1>2

-----------------------------------------------------------------------------
(* Connections: a thread that serves has a client's descriptor, in its     *)
(* record until it has copied it; no two have the same, and a client main  *)
(* has not accepted has no thread.                                         *)
Busy == {"read", "host", "port1", "port2", "port2_", "msg1", "msg2", "msg2_", "msg3", "msg3_",
         "closing"} \cup {"P_log"} \cup Inside

ConnInv ==
  /\ \A t \in Threads : pc[t] = "start" => record[loc[t].arg] \in Clients
  /\ \A t \in Threads : pc[t] \in Busy => loc[t].fd \in Clients
  /\ \A t \in Threads : pc[t] \in {"idle", "ended", "start"} => loc[t].fd = NoClient
  /\ \A t, u \in Threads : t # u /\ pc[t] = "start" /\ pc[u] = "start" => loc[t].arg # loc[u].arg
  /\ \A t \in Threads : Serving(t) \in Clients => client[Serving(t)] # "new"
  /\ OwnConnection

LEMMA TypeReading ==
  ASSUME TypeOK, ConnInv, NEW t \in Threads,
         Start(t) \/ ReadLine(t) \/ ReadEof(t) \/ ReadError(t) \/ CloseClient(t) \/ SendUsage(t)
  PROVE  TypeOK'
<1>0. loc[t] \in Local
  BY DEF TypeOK
<1>1. CASE Start(t)
  <2>1. record[loc[t].arg] \in Clients
    BY <1>1 DEF Start, At, ConnInv
  <2>2. [loc[t] EXCEPT !.fd = record[loc[t].arg], !.arg = t] \in Local
    BY <1>0, <2>1, LocalFields
  <2>3. loc' \in [Threads -> Local]
    BY <1>1, <2>2, SetTyped DEF Start, TypeOK
  <2>4. pc' \in [Threads -> Labels]
    BY <1>1, GotoTyped DEF Start, TypeOK, Labels
  <2> QED BY <1>1, <2>3, <2>4 DEF Start, TypeOK, locks
<1>2. CASE ReadLine(t)
  <2> DEFINE c == loc[t].fd
  <2>1. c \in Clients
    BY <1>2 DEF ReadLine, At, ConnInv, Busy
  <2>2. sent[c] + 1 \in 1 .. MaxLines
    BY <1>2, <2>1, MaxLinesAssumption DEF ReadLine, TypeOK
  <2>3. sent' \in [Clients -> 0 .. MaxLines]
    BY <1>2, <2>1, <2>2 DEF ReadLine, TypeOK
  <2>4. PICK w \in Lengths : Set(t, [loc[t] EXCEPT !.buf = [no |-> sent[c] + 1, words |-> w]])
    BY <1>2 DEF ReadLine
  <2>5. [no |-> sent[c] + 1, words |-> w] \in Line
    BY <2>2, LengthsAssumption DEF Line
  <2>6. loc' \in [Threads -> Local]
    BY <1>0, <2>4, <2>5, LocalFields, SetTyped DEF TypeOK
  <2>7. pc' \in [Threads -> Labels]
    BY <1>2, GotoTyped DEF ReadLine, TypeOK, Labels
  <2> QED BY <1>2, <2>3, <2>6, <2>7 DEF ReadLine, TypeOK, locks
<1>3. CASE ReadEof(t)
  <2>1. pc' \in [Threads -> Labels]
    BY <1>3, GotoTyped DEF ReadEof, TypeOK, Labels
  <2> QED BY <1>3, <2>1 DEF ReadEof, TypeOK, locks, conns
<1>4. CASE ReadError(t)
  BY <1>4 DEF ReadError, TypeOK, locks, conns
<1>5. CASE CloseClient(t)
  <2>1. loc[t].copies \in Line
    BY <1>0 DEF Local
  <2>2. loc' \in [Threads -> Local]
    BY <1>5, <2>1, NewTyped, SetTyped DEF CloseClient, TypeOK
  <2>3. pc' \in [Threads -> Labels]
    BY <1>5, GotoTyped DEF CloseClient, TypeOK, Labels
  <2> QED BY <1>5, <2>2, <2>3 DEF CloseClient, TypeOK, locks, conns
<1>6. CASE SendUsage(t)
  <2>1. loc[t].fd \in Clients
    BY <1>6 DEF SendUsage, At, ConnInv, Busy
  <2>2. loc' \in [Threads -> Local] /\ out' \in [Clients -> Seq(Texts \cup {Usage})]
    BY <1>6, <2>1, WriteTyped DEF SendUsage
  <2>3. pc' \in [Threads -> Labels]
    BY <1>6, GotoTyped DEF SendUsage, TypeOK, Labels
  <2> QED BY <1>6, <2>2, <2>3 DEF SendUsage, TypeOK, locks, conns
<1> QED BY <1>1, <1>2, <1>3, <1>4, <1>5, <1>6

LEMMA TypeParsing ==
  ASSUME TypeOK, NEW t \in Threads, GetHost(t) \/ GetPort(t) \/ GetMessage(t)
  PROVE  TypeOK'
<1> DEFINE Saves == [owner : Threads \cup {Nobody}, pos : 1 .. End]
<1>0. loc[t] \in Local /\ loc[t].olds \in Saves /\ loc[t].buf \in Line
  BY DEF TypeOK, Local
<1>1. ASSUME NEW l, NEW to \in Labels, First(t, l, to), loc' \in [Threads -> Local]
      PROVE  TypeOK'
  <2>1. save' \in Saves /\ pc' \in [Threads -> Labels]
    BY <1>1, GotoTyped DEF First, TypeOK, End
  <2> QED BY <1>1, <2>1 DEF First, TypeOK, conns, locks
<1>2. ASSUME NEW l, NEW to \in Labels, Load(t, l, to)
      PROVE  TypeOK'
  <2>1. [loc[t] EXCEPT !.olds = save] \in Local
    BY <1>0, LocalFields DEF TypeOK
  <2>2. loc' \in [Threads -> Local] /\ pc' \in [Threads -> Labels]
    BY <1>2, <2>1, SetTyped, GotoTyped DEF Load, TypeOK
  <2> QED BY <1>2, <2>2 DEF Load, TypeOK, conns, locks
<1>3. CASE GetHost(t)
  <2>1. loc' \in [Threads -> Local]
    BY <1>0, <1>3, LocalFields, SetTyped DEF GetHost, TypeOK
  <2> QED BY <1>1, <1>3, <2>1 DEF GetHost, Labels
<1>4. CASE GetPort(t)
  <2>1. CASE First(t, "port1", "port2") /\ UNCHANGED loc
    BY <1>1, <2>1 DEF Labels, TypeOK
  <2>2. CASE Load(t, "port2", "port2_")
    BY <1>2, <2>2 DEF Labels
  <2>3. CASE /\ At(t, "port2_")
             /\ LET p == Piece(loc[t].olds) IN
                  /\ save' = Behind(loc[t].olds, FALSE)
                  /\ IF p = NULL
                     THEN status' = "crashed" /\ UNCHANGED <<pc, loc>>
                     ELSE /\ Set(t, [loc[t] EXCEPT !.port = p, !.olds = NoSave])
                          /\ Goto(t, "msg1") /\ UNCHANGED status
             /\ UNCHANGED <<conns, locks, log, out>>
    <3> DEFINE p == Piece(loc[t].olds)
    <3>0. p \in Texts /\ Behind(loc[t].olds, FALSE) \in Saves
      BY <1>0, PieceTyped DEF TypeOK
    <3>1. save' \in Saves /\ UNCHANGED <<conns, locks, log, out>>
      BY <2>3, <3>0
    <3>2. CASE p = NULL
      <4>1. status' = "crashed" /\ UNCHANGED <<pc, loc>>
        BY <2>3, <3>2
      <4> QED BY <3>1, <4>1 DEF TypeOK, conns, locks
    <3>3. CASE p # NULL
      <4>1. Set(t, [loc[t] EXCEPT !.port = p, !.olds = NoSave]) /\ Goto(t, "msg1") /\ UNCHANGED status
        BY <2>3, <3>3
      <4>2. [loc[t] EXCEPT !.port = p, !.olds = NoSave] \in Local
        BY <1>0, <3>0, LocalFields
      <4>3. loc' \in [Threads -> Local] /\ pc' \in [Threads -> Labels]
        BY <4>1, <4>2, SetTyped, GotoTyped DEF TypeOK, Labels
      <4> QED BY <3>1, <4>1, <4>3 DEF TypeOK, conns, locks
    <3> QED BY <3>2, <3>3
  <2> QED BY <1>4, <2>1, <2>2, <2>3 DEF GetPort
<1>5. CASE GetMessage(t)
  <2>1. CASE First(t, "msg1", "msg2") /\ UNCHANGED loc
    BY <1>1, <2>1 DEF Labels, TypeOK
  <2>2. CASE Load(t, "msg2", "msg2_") \/ Load(t, "msg3", "msg3_")
    BY <1>2, <2>2 DEF Labels
  <2>3. ASSUME NEW w \in BOOLEAN, NEW l \in Labels, NEW new \in Local,
               save' = Behind(loc[t].olds, w), Goto(t, l), Set(t, new),
               UNCHANGED <<status, conns, locks, log, out>>
        PROVE  TypeOK'
    <3>1. save' \in Saves
      BY <1>0, <2>3, PieceTyped DEF TypeOK
    <3>2. loc' \in [Threads -> Local] /\ pc' \in [Threads -> Labels]
      BY <2>3, SetTyped, GotoTyped DEF TypeOK
    <3> QED BY <2>3, <3>1, <3>2 DEF TypeOK, conns, locks
  <2>4. /\ [loc[t] EXCEPT !.msg = NULL, !.olds = NoSave] \in Local
        /\ [loc[t] EXCEPT !.olds = NoSave] \in Local
        /\ [loc[t] EXCEPT !.msg = Piece(loc[t].olds), !.olds = NoSave] \in Local
    <3>1. NULL \in Texts /\ Piece(loc[t].olds) \in Texts /\ NoSave \in Saves
      BY <1>0, PieceTyped DEF TypeOK, Texts, NoSave, End
    <3> QED BY <1>0, <3>1, LocalFields
  <2>5. CASE /\ At(t, "msg2_") /\ save' = Behind(loc[t].olds, FALSE)
             /\ IF Piece(loc[t].olds) = NULL
                THEN Goto(t, "P_log") /\ Set(t, [loc[t] EXCEPT !.msg = NULL, !.olds = NoSave])
                ELSE Goto(t, "msg3") /\ Set(t, [loc[t] EXCEPT !.olds = NoSave])
             /\ UNCHANGED <<status, conns, locks, log, out>>
    <3>1. CASE Piece(loc[t].olds) = NULL
      BY <2>3, <2>4, <2>5, <3>1 DEF Labels
    <3>2. CASE Piece(loc[t].olds) # NULL
      BY <2>3, <2>4, <2>5, <3>2 DEF Labels
    <3> QED BY <3>1, <3>2
  <2>6. CASE /\ At(t, "msg3_") /\ save' = Behind(loc[t].olds, TRUE)
             /\ Set(t, [loc[t] EXCEPT !.msg = Piece(loc[t].olds), !.olds = NoSave])
             /\ Goto(t, "P_log") /\ UNCHANGED <<status, conns, locks, log, out>>
    BY <2>3, <2>4, <2>6 DEF Labels
  <2> QED BY <1>5, <2>1, <2>2, <2>5, <2>6 DEF GetMessage
<1> QED BY <1>3, <1>4, <1>5

LEMMA TypeRelay ==
  ASSUME TypeOK, ConnInv, NEW t \in Threads,
         LockLog(t) \/ LockOc(t) \/ Open(t) \/ Send(t) \/ Answered(t) \/ NotAnswered(t)
           \/ CloseServer(t) \/ AppendLog(t) \/ Reply(t) \/ UnlockLog(t)
  PROVE  TypeOK'
<1>0. loc[t] \in Local /\ loc[t].msg \in Texts /\ loc[t].received \in Texts /\ loc[t].epipe \in BOOLEAN
  BY DEF TypeOK, Local
<1>1. CASE LockLog(t) \/ LockOc(t)
  <2>1. pc' \in [Threads -> Labels]
    BY <1>1, GotoTyped DEF LockLog, LockOc, TypeOK, Labels
  <2> QED BY <1>1, <2>1 DEF LockLog, LockOc, TypeOK, conns
<1>2. CASE Open(t)
  <2>1. PICK o \in BOOLEAN : Set(t, [loc[t] EXCEPT !.opened = o])
    BY <1>2 DEF Open
  <2>2. loc' \in [Threads -> Local]
    BY <1>0, <2>1, LocalFields, SetTyped DEF TypeOK
  <2>3. pc' \in [Threads -> Labels]
    BY <1>2, GotoTyped DEF Open, TypeOK, Labels
  <2> QED BY <1>2, <2>2, <2>3 DEF Open, TypeOK, conns
<1>3. CASE Send(t)
  <2>1. CASE loc[t].msg = NULL
    BY <1>3, <2>1 DEF Send, TypeOK, conns, locks
  <2>2. CASE loc[t].msg # NULL
    <3>1. [loc[t] EXCEPT !.epipe = TRUE] \in Local
      BY <1>0, LocalFields
    <3>2. loc' \in [Threads -> Local]
      BY <1>3, <2>2, <3>1, SetTyped DEF Send, TypeOK
    <3>3. pc' \in [Threads -> Labels]
      BY <1>3, <2>2, GotoTyped DEF Send, TypeOK, Labels
    <3> QED BY <1>3, <2>2, <3>2, <3>3 DEF Send, TypeOK, conns, locks
  <2> QED BY <2>1, <2>2
<1>4. CASE Answered(t)
  <2>1. loc' \in [Threads -> Local]
    BY <1>0, <1>4, LocalFields, SetTyped DEF Answered, TypeOK
  <2>2. pc' \in [Threads -> Labels]
    BY <1>4, GotoTyped DEF Answered, TypeOK, Labels
  <2> QED BY <1>4, <2>1, <2>2 DEF Answered, TypeOK, conns, locks
<1>5. CASE NotAnswered(t)
  <2>1. PICK text \in {loc[t].received, Garbage}, e \in {loc[t].epipe, FALSE} :
          Set(t, [loc[t] EXCEPT !.received = text, !.epipe = e])
    BY <1>5 DEF NotAnswered
  <2>2. text \in Texts /\ e \in BOOLEAN
    BY <1>0, <2>1 DEF Texts
  <2>3. loc' \in [Threads -> Local]
    BY <1>0, <2>1, <2>2, LocalFields, SetTyped DEF TypeOK
  <2>4. pc' \in [Threads -> Labels]
    BY <1>5, GotoTyped DEF NotAnswered, TypeOK, Labels
  <2> QED BY <1>5, <2>3, <2>4 DEF NotAnswered, TypeOK, conns, locks
<1>6. CASE CloseServer(t)
  <2>1. pc' \in [Threads -> Labels]
    BY <1>6, GotoTyped DEF CloseServer, TypeOK, Labels
  <2> QED BY <1>6, <2>1 DEF CloseServer, TypeOK, conns, locks
<1>7. CASE AppendLog(t)
  <2>1. loc[t].fd \in Clients
    BY <1>7 DEF AppendLog, At, ConnInv, Busy, Inside
  <2>2. log' \in Seq([client : Clients, text : Texts])
    BY <1>0, <1>7, <2>1 DEF AppendLog, TypeOK
  <2>3. pc' \in [Threads -> Labels]
    BY <1>7, GotoTyped DEF AppendLog, TypeOK, Labels
  <2> QED BY <1>7, <2>2, <2>3 DEF AppendLog, TypeOK, conns, locks
<1>8. CASE Reply(t)
  <2>1. loc[t].fd \in Clients
    BY <1>8 DEF Reply, At, ConnInv, Busy, Inside
  <2>2. loc' \in [Threads -> Local] /\ out' \in [Clients -> Seq(Texts \cup {Usage})]
    BY <1>0, <1>8, <2>1, WriteTyped DEF Reply
  <2>3. pc' \in [Threads -> Labels]
    BY <1>8, GotoTyped DEF Reply, TypeOK, Labels
  <2> QED BY <1>8, <2>2, <2>3 DEF Reply, TypeOK, conns, locks
<1>9. CASE UnlockLog(t)
  <2>1. [loc[t] EXCEPT !.buf = NoLine, !.port = NULL, !.msg = NULL, !.opened = FALSE] \in Local
    <3>1. NoLine \in Line /\ NULL \in Texts
      BY MaxLinesAssumption DEF NoLine, Line, Texts
    <3> QED BY <1>0, <3>1 DEF Local
  <2>2. loc' \in [Threads -> Local]
    BY <1>9, <2>1, SetTyped DEF UnlockLog, TypeOK
  <2>3. pc' \in [Threads -> Labels]
    BY <1>9, GotoTyped DEF UnlockLog, TypeOK, Labels
  <2> QED BY <1>9, <2>2, <2>3 DEF UnlockLog, TypeOK, conns
<1> QED BY <1>1, <1>2, <1>3, <1>4, <1>5, <1>6, <1>7, <1>8, <1>9

LEMMA TypeNext == TypeOK /\ ConnInv /\ [Next]_vars => TypeOK'
<1> SUFFICES ASSUME TypeOK, ConnInv, [Next]_vars PROVE TypeOK'
  OBVIOUS
<1>1. CASE UNCHANGED vars
  BY <1>1 DEF vars, conns, locks, TypeOK
<1>2. CASE Accept
  <2>1. PICK c \in Clients, t \in Threads, a \in Address :
          /\ client' = [client EXCEPT ![c] = "open"] /\ record' = [record EXCEPT ![a] = c]
          /\ Goto(t, "start") /\ Set(t, [loc[t] EXCEPT !.arg = a])
    BY <1>2 DEF Accept
  <2>2. a \in Threads /\ loc[t] \in Local
    BY DEF Address, TypeOK
  <2>3. loc' \in [Threads -> Local]
    BY <2>1, <2>2, LocalFields, SetTyped DEF TypeOK
  <2>4. pc' \in [Threads -> Labels]
    BY <2>1, GotoTyped DEF TypeOK, Labels
  <2> QED BY <1>2, <2>1, <2>2, <2>3, <2>4 DEF Accept, TypeOK, locks
<1>3. CASE \E c \in Clients : Leave(c)
  <2>1. client' \in [Clients -> {"new", "open", "closed", "reset"}]
    BY <1>3 DEF Leave, TypeOK
  <2> QED BY <1>3, <2>1 DEF Leave, TypeOK, locks
<1>4. CASE \E t \in Threads : ReadLine(t) \/ LockLog(t) \/ Runs(t)
  BY <1>4, TypeReading, TypeParsing, TypeRelay DEF Runs
<1> QED BY <1>1, <1>2, <1>3, <1>4 DEF Next

-----------------------------------------------------------------------------
(* A step of a thread that is neither its first nor its last: it works on  *)
(* its own control and local variables and keeps its descriptor.           *)
Middle(t) ==
  \/ ReadLine(t) \/ ReadEof(t) \/ ReadError(t) \/ SendUsage(t)
  \/ GetHost(t) \/ GetPort(t) \/ GetMessage(t) \/ LockLog(t) \/ LockOc(t) \/ Open(t) \/ Send(t)
  \/ Answered(t) \/ NotAnswered(t) \/ CloseServer(t) \/ AppendLog(t) \/ Reply(t) \/ UnlockLog(t)

OnlyMoves(t) ==
  /\ \A u \in Threads \ {t} : pc'[u] = pc[u] /\ loc'[u] = loc[u]
  /\ loc'[t].fd = loc[t].fd /\ loc'[t].arg = loc[t].arg
  /\ record' = record /\ client' = client

LEMMA SetKeeps ==
  ASSUME NEW t \in Threads, loc \in [Threads -> Local], NEW new, Set(t, new)
  PROVE  /\ \A u \in Threads \ {t} : loc'[u] = loc[u]
         /\ loc'[t] = new
BY DEF Set

LEMMA GotoKeeps ==
  ASSUME NEW t \in Threads, pc \in [Threads -> Labels], NEW l, Goto(t, l)
  PROVE  (\A u \in Threads \ {t} : pc'[u] = pc[u]) /\ pc'[t] = l
BY DEF Goto

LEMMA WriteKeeps ==
  ASSUME TypeOK, NEW t \in Threads, NEW x, Write(t, x)
  PROVE  /\ \A u \in Threads \ {t} : loc'[u] = loc[u]
         /\ loc'[t].fd = loc[t].fd /\ loc'[t].arg = loc[t].arg
         /\ loc'[t].received = loc[t].received
<1>0. loc[t] \in Local
  BY DEF TypeOK
<1>1. CASE UNCHANGED loc
  BY <1>1
<1>2. ASSUME NEW e, Set(t, [loc[t] EXCEPT !.epipe = e])
      PROVE  /\ \A u \in Threads \ {t} : loc'[u] = loc[u]
             /\ loc'[t] = [loc[t] EXCEPT !.epipe = e]
  BY <1>2, SetKeeps DEF TypeOK
<1> QED BY <1>0, <1>1, <1>2 DEF Write, Local

LEMMA SetMoves ==
  ASSUME TypeOK, NEW t \in Threads, NEW new, Set(t, new), new.fd = loc[t].fd, new.arg = loc[t].arg,
         NEW l \in Busy, Goto(t, l), UNCHANGED conns
  PROVE  OnlyMoves(t) /\ pc'[t] \in Busy
BY SetKeeps, GotoKeeps DEF OnlyMoves, conns, TypeOK

LEMMA MiddleMoves ==
  ASSUME TypeOK, NEW t \in Threads, Middle(t)
  PROVE  OnlyMoves(t) /\ pc[t] \in Busy /\ pc'[t] \in Busy
<1> USE DEF Busy, Inside, At, OnlyMoves
<1>0. loc[t] \in Local /\ loc \in [Threads -> Local] /\ pc \in [Threads -> Labels]
  BY DEF TypeOK
<1>1. CASE ReadLine(t)
  <2>1. PICK w \in Lengths :
          Set(t, [loc[t] EXCEPT !.buf = [no |-> sent[loc[t].fd] + 1, words |-> w]])
    BY <1>1 DEF ReadLine
  <2> QED BY <1>0, <1>1, <2>1, SetKeeps, GotoKeeps, SMTT(30) DEF ReadLine, Local
<1>2. CASE ReadEof(t) \/ ReadError(t)
  BY <1>0, <1>2, GotoKeeps DEF ReadEof, ReadError, conns
<1>3. CASE SendUsage(t)
  BY <1>0, <1>3, WriteKeeps, GotoKeeps DEF SendUsage, conns
<1>4. CASE Reply(t)
  BY <1>0, <1>4, WriteKeeps, GotoKeeps DEF Reply, conns
<1>5. CASE GetHost(t)
  BY <1>0, <1>5, SetKeeps, GotoKeeps DEF GetHost, First, conns, Local
<1>6. CASE GetPort(t)
  <2>1. CASE First(t, "port1", "port2") /\ UNCHANGED loc
    BY <1>0, <2>1, GotoKeeps DEF First, conns
  <2>2. CASE Load(t, "port2", "port2_")
    BY <1>0, <2>2, SetKeeps, GotoKeeps DEF Load, conns, Local
  <2>3. CASE /\ At(t, "port2_") /\ UNCHANGED <<conns, locks, log, out>>
             /\ UNCHANGED <<pc, loc>>
    BY <2>3 DEF conns
  <2>4. CASE /\ At(t, "port2_") /\ UNCHANGED <<conns, locks, log, out>>
             /\ Set(t, [loc[t] EXCEPT !.port = Piece(loc[t].olds), !.olds = NoSave])
             /\ Goto(t, "msg1")
    <3>1. [loc[t] EXCEPT !.port = Piece(loc[t].olds), !.olds = NoSave].fd = loc[t].fd /\ [loc[t] EXCEPT !.port = Piece(loc[t].olds), !.olds = NoSave].arg = loc[t].arg
      BY <1>0 DEF Local
    <3> QED BY <2>4, <3>1, SetMoves
  <2> QED BY <1>6, <2>1, <2>2, <2>3, <2>4 DEF GetPort
<1>7. CASE GetMessage(t)
  <2>1. CASE First(t, "msg1", "msg2") /\ UNCHANGED loc
    BY <1>0, <2>1, GotoKeeps DEF First, conns
  <2>2. CASE Load(t, "msg2", "msg2_") \/ Load(t, "msg3", "msg3_")
    BY <1>0, <2>2, SetKeeps, GotoKeeps DEF Load, conns, Local
  <2>3. CASE /\ At(t, "msg2_") /\ UNCHANGED conns /\ Goto(t, "P_log")
             /\ Set(t, [loc[t] EXCEPT !.msg = NULL, !.olds = NoSave])
    <3>1. [loc[t] EXCEPT !.msg = NULL, !.olds = NoSave].fd = loc[t].fd /\ [loc[t] EXCEPT !.msg = NULL, !.olds = NoSave].arg = loc[t].arg
      BY <1>0 DEF Local
    <3> QED BY <2>3, <3>1, SetMoves
  <2>4. CASE /\ At(t, "msg2_") /\ UNCHANGED conns /\ Goto(t, "msg3")
             /\ Set(t, [loc[t] EXCEPT !.olds = NoSave])
    BY <1>0, <2>4, SetKeeps, GotoKeeps DEF conns, Local
  <2>5. CASE /\ At(t, "msg3_") /\ UNCHANGED conns /\ Goto(t, "P_log")
             /\ Set(t, [loc[t] EXCEPT !.msg = Piece(loc[t].olds), !.olds = NoSave])
    <3>1. [loc[t] EXCEPT !.msg = Piece(loc[t].olds), !.olds = NoSave].fd = loc[t].fd /\ [loc[t] EXCEPT !.msg = Piece(loc[t].olds), !.olds = NoSave].arg = loc[t].arg
      BY <1>0 DEF Local
    <3> QED BY <2>5, <3>1, SetMoves
  <2> QED BY <1>7, <2>1, <2>2, <2>3, <2>4, <2>5 DEF GetMessage
<1>8. CASE LockLog(t) \/ LockOc(t) \/ CloseServer(t) \/ AppendLog(t)
  BY <1>0, <1>8, GotoKeeps DEF LockLog, LockOc, CloseServer, AppendLog, conns
<1>9. CASE Open(t) \/ Answered(t) \/ UnlockLog(t)
  <2>1. CASE Open(t)
    <3>1. PICK o \in BOOLEAN : Set(t, [loc[t] EXCEPT !.opened = o])
      BY <2>1 DEF Open
    <3> QED BY <1>0, <2>1, <3>1, SetKeeps, GotoKeeps DEF Open, conns, Local
  <2>2. CASE Answered(t)
    BY <1>0, <2>2, SetKeeps, GotoKeeps DEF Answered, conns, Local
  <2>3. CASE UnlockLog(t)
    <3> DEFINE new == [loc[t] EXCEPT !.buf = NoLine, !.port = NULL, !.msg = NULL, !.opened = FALSE]
    <3>1. new.fd = loc[t].fd /\ new.arg = loc[t].arg
      BY <1>0 DEF Local
    <3>2. Set(t, new) /\ Goto(t, "read") /\ UNCHANGED conns /\ pc[t] = "V_log"
      BY <2>3 DEF UnlockLog
    <3> HIDE DEF new
    <3> QED BY <3>1, <3>2, SetMoves
  <2> QED BY <1>9, <2>1, <2>2, <2>3
<1>10. CASE Send(t)
  <2>1. CASE UNCHANGED loc
    BY <1>0, <1>10, <2>1, GotoKeeps DEF Send, conns
  <2>2. CASE Set(t, [loc[t] EXCEPT !.epipe = TRUE])
    BY <1>0, <1>10, <2>2, SetKeeps, GotoKeeps DEF Send, conns, Local
  <2> QED BY <1>10, <2>1, <2>2 DEF Send
<1>11. CASE NotAnswered(t)
  <2>1. PICK text, e : Set(t, [loc[t] EXCEPT !.received = text, !.epipe = e])
    BY <1>11 DEF NotAnswered
  <2> DEFINE new == [loc[t] EXCEPT !.received = text, !.epipe = e]
  <2>2. new.fd = loc[t].fd /\ new.arg = loc[t].arg
    BY <1>0 DEF Local
  <2>3. Goto(t, "close") /\ UNCHANGED conns /\ pc[t] = "recv"
    BY <1>11 DEF NotAnswered
  <2> HIDE DEF new
  <2>4. Set(t, new)
    BY <2>1 DEF new
  <2> QED BY <2>2, <2>3, <2>4, SetMoves
<1> QED BY <1>1, <1>2, <1>3, <1>4, <1>5, <1>6, <1>7, <1>8, <1>9, <1>10, <1>11 DEF Middle

LEMMA NextCases ==
  [Next]_vars => \/ UNCHANGED vars \/ Accept \/ \E c \in Clients : Leave(c)
                 \/ \E t \in Threads : Start(t) \/ CloseClient(t) \/ Middle(t)
BY DEF Next, Runs, Middle

LEMMA ConnInit == Init => ConnInv
<1> SUFFICES ASSUME Init PROVE ConnInv
  OBVIOUS
<1>1. \A t \in Threads : pc[t] = "idle" /\ loc[t].fd = NoClient
  BY DEF Init, NewLocal
<1>2. \A t \in Threads : Serving(t) \notin Clients
  BY <1>1, ClientsAssumption DEF Serving
<1> QED BY <1>1, <1>2 DEF ConnInv, OwnConnection, Busy, Inside

LEMMA ConnAccept == TypeOK /\ ConnInv /\ Accept => ConnInv'
<1> SUFFICES ASSUME TypeOK, ConnInv, Accept PROVE ConnInv'
  OBVIOUS
<1>1. PICK c \in Clients, t \in Threads, a \in Address :
        /\ client[c] = "new" /\ pc[t] = "idle"
        /\ client' = [client EXCEPT ![c] = "open"] /\ record' = [record EXCEPT ![a] = c]
        /\ Goto(t, "start") /\ Set(t, [loc[t] EXCEPT !.arg = a])
  BY DEF Accept
<1>2. a \in Threads /\ record[a] \notin Clients
  BY ClientsAssumption DEF Address
<1>3. loc[t] \in Local /\ record \in [Threads -> Clients \cup {NoClient}]
  BY DEF TypeOK
<1>4. \A u \in Threads \ {t} : pc'[u] = pc[u] /\ loc'[u] = loc[u]
  BY <1>1, SetKeeps, GotoKeeps DEF TypeOK
<1>5. pc'[t] = "start" /\ loc'[t].arg = a /\ loc'[t].fd = loc[t].fd
  <2> DEFINE new == [loc[t] EXCEPT !.arg = a]
  <2>1. new.arg = a /\ new.fd = loc[t].fd
    BY <1>3 DEF Local
  <2> HIDE DEF new
  <2>2. Set(t, new)
    BY <1>1 DEF new
  <2> QED BY <1>1, <2>1, <2>2, SetKeeps, GotoKeeps DEF TypeOK
<1>6. \A u \in Threads : u # t /\ pc[u] = "start" => loc[u].arg # a /\ record'[loc[u].arg] = record[loc[u].arg]
  <2> SUFFICES ASSUME NEW u \in Threads, u # t, pc[u] = "start"
               PROVE  loc[u].arg # a /\ record'[loc[u].arg] = record[loc[u].arg]
    OBVIOUS
  <2>1. record[loc[u].arg] \in Clients /\ loc[u].arg \in Threads
    BY DEF ConnInv, TypeOK, Local
  <2> QED BY <1>1, <1>2, <1>3, <2>1
<1>7. Serving(t)' = c /\ \A u \in Threads \ {t} : Serving(u)' = Serving(u)
  BY <1>1, <1>2, <1>3, <1>4, <1>5, <1>6 DEF Serving
<1>8. \A u \in Threads \ {t} : Serving(u) \in Clients => Serving(u) # c
  BY <1>1 DEF ConnInv
<1>9. \A d \in Clients : client'[d] = "new" => client[d] = "new" /\ d # c
  BY <1>1 DEF TypeOK
<1>10. OwnConnection'
  BY <1>1, <1>7, <1>8 DEF ConnInv, OwnConnection
<1>11. (\A u \in Threads : Serving(u) \in Clients => client[Serving(u)] # "new")'
  BY <1>1, <1>7, <1>9 DEF ConnInv
<1>12. record'[a] = c
  BY <1>1, <1>2, <1>3
<1>13. /\ \A u \in Threads : pc'[u] = "start" => record'[loc'[u].arg] \in Clients
       /\ \A u, w \in Threads : u # w /\ pc'[u] = "start" /\ pc'[w] = "start" => loc'[u].arg # loc'[w].arg
  BY <1>1, <1>4, <1>5, <1>6, <1>12 DEF ConnInv
<1>14. /\ \A u \in Threads : pc'[u] \in Busy => loc'[u].fd \in Clients
       /\ \A u \in Threads : pc'[u] \in {"idle", "ended", "start"} => loc'[u].fd = NoClient
  BY <1>1, <1>4, <1>5 DEF ConnInv, Busy, Inside
<1> QED BY <1>10, <1>11, <1>13, <1>14 DEF ConnInv

LEMMA ConnMiddle == ASSUME TypeOK, ConnInv, NEW t \in Threads, Middle(t) PROVE ConnInv'
<1>1. OnlyMoves(t) /\ pc[t] \in Busy /\ pc'[t] \in Busy
  BY MiddleMoves
<1>2. pc[t] # "start" /\ pc'[t] \notin {"idle", "ended", "start"}
  BY <1>1 DEF Busy, Inside
<1>3. \A u \in Threads : Serving(u)' = Serving(u)
  BY <1>1, <1>2 DEF OnlyMoves, Serving
<1>4. OwnConnection' /\ (\A u \in Threads : Serving(u) \in Clients => client[Serving(u)] # "new")'
  BY <1>1, <1>3 DEF ConnInv, OwnConnection, OnlyMoves
<1> QED BY <1>1, <1>2, <1>4 DEF ConnInv, OnlyMoves

LEMMA ConnStart == ASSUME TypeOK, ConnInv, NEW t \in Threads, Start(t) PROVE ConnInv'
<1> DEFINE new == [loc[t] EXCEPT !.fd = record[loc[t].arg], !.arg = t]
<1>0. loc[t] \in Local /\ loc[t].arg \in Threads /\ pc[t] = "start"
  BY DEF TypeOK, Local, Start, At
<1>1. new.fd = record[loc[t].arg] /\ Set(t, new)
  BY <1>0 DEF Local, Start
<1> HIDE DEF new
<1>2. /\ \A u \in Threads \ {t} : pc'[u] = pc[u] /\ loc'[u] = loc[u]
      /\ pc'[t] = "read" /\ loc'[t].fd = record[loc[t].arg]
  BY <1>1, SetKeeps, GotoKeeps DEF TypeOK, Start
<1>3. client' = client /\ \A a \in Threads \ {loc[t].arg} : record'[a] = record[a]
  BY <1>0 DEF Start, TypeOK
<1>4. \A u \in Threads : u # t /\ pc[u] = "start" => record'[loc[u].arg] = record[loc[u].arg]
  BY <1>0, <1>3 DEF ConnInv, TypeOK, Local
<1>5. \A u \in Threads : Serving(u)' = Serving(u)
  BY <1>0, <1>2, <1>4 DEF Serving
<1>6. OwnConnection' /\ (\A u \in Threads : Serving(u) \in Clients => client[Serving(u)] # "new")'
  BY <1>3, <1>5 DEF ConnInv, OwnConnection
<1>7. loc'[t].fd \in Clients
  BY <1>0, <1>2 DEF ConnInv
<1> QED BY <1>2, <1>4, <1>6, <1>7 DEF ConnInv

LEMMA ConnClose == ASSUME TypeOK, ConnInv, NEW t \in Threads, CloseClient(t) PROVE ConnInv'
<1> DEFINE new == [NewLocal(t) EXCEPT !.copies = loc[t].copies]
<1>1. new.fd = NoClient /\ Set(t, new)
  BY DEF NewLocal, CloseClient
<1> HIDE DEF new
<1>2. /\ \A u \in Threads \ {t} : pc'[u] = pc[u] /\ loc'[u] = loc[u]
      /\ pc'[t] = "ended" /\ loc'[t].fd = NoClient /\ record' = record /\ client' = client
  BY <1>1, SetKeeps, GotoKeeps DEF TypeOK, CloseClient, conns
<1>3. Serving(t)' = NoClient /\ \A u \in Threads \ {t} : Serving(u)' = Serving(u)
  BY <1>2 DEF Serving
<1>4. OwnConnection' /\ (\A u \in Threads : Serving(u) \in Clients => client[Serving(u)] # "new")'
  BY <1>2, <1>3, ClientsAssumption DEF ConnInv, OwnConnection
<1> QED BY <1>2, <1>4 DEF ConnInv, Busy, Inside

LEMMA ConnNext == TypeOK /\ ConnInv /\ [Next]_vars => ConnInv'
<1> SUFFICES ASSUME TypeOK, ConnInv, [Next]_vars PROVE ConnInv'
  OBVIOUS
<1>1. CASE UNCHANGED vars
  BY <1>1 DEF vars, conns, ConnInv, OwnConnection, Serving
<1>2. CASE \E c \in Clients : Leave(c)
  <2>1. \A c \in Clients : client'[c] = "new" => client[c] = "new"
    BY <1>2 DEF Leave, TypeOK
  <2> QED BY <1>2, <2>1 DEF Leave, ConnInv, OwnConnection, Serving
<1> QED BY <1>1, <1>2, NextCases, ConnAccept, ConnMiddle, ConnStart, ConnClose

(* The proxy's state is well formed: in particular strtok's pointer stays  *)
(* within the lines, whoever moved it last.                                *)
THEOREM TypeCorrect == Spec => []TypeOK
<1>1. TypeOK /\ ConnInv /\ [Next]_vars => (TypeOK /\ ConnInv)'
  BY TypeNext, ConnNext
<1> QED BY <1>1, TypeInit, ConnInit, PTL DEF Spec

(* Every connection has its own thread: the record main passes on the heap *)
(* is not reused before the thread has copied it.                          *)
THEOREM ConnectionsOwned == Spec => []OwnConnection
<1>1. TypeOK /\ ConnInv /\ [Next]_vars => (TypeOK /\ ConnInv)'
  BY TypeNext, ConnNext
<1>2. ConnInv => OwnConnection
  BY DEF ConnInv
<1> QED BY <1>1, <1>2, TypeInit, ConnInit, PTL DEF Spec
-----------------------------------------------------------------------------
(* The proxy relays one answer at a time, never waits for the mutex that   *)
(* an error in open_clientfd_ts leaves taken, and keeps the log RelayLog   *)
(* promises.                                                               *)

(* A thread that has mutex_oc is connecting, or failed to connect and is   *)
(* on its way to exit(0).                                                  *)
HasOc(t) == pc[t] = "open" \/ (pc[t] \in {"send", "recv", "close"} /\ ~ loc[t].opened)

RelayInv ==
  /\ OneRelay
  /\ mutex_log = 1 => \A t \in Threads : pc[t] \notin Inside
  /\ status = "up" /\ mutex_oc = 0 => \E t \in Threads : HasOc(t)

Inv == TypeOK /\ ConnInv /\ RelayInv

LEMMA RelayInit == Init => RelayInv
BY DEF Init, RelayInv, OneRelay, Inside

(* The ways in which a step can cross the boundary of the relay. *)
LEMMA Crossing ==
  ASSUME TypeOK, NEW t \in Threads, Middle(t)
  PROVE  \/ pc[t] \notin Inside /\ pc'[t] \notin Inside /\ UNCHANGED locks
         \/ LockLog(t) /\ pc'[t] = "P_oc" /\ pc[t] \notin Inside
         \/ pc[t] \in Inside /\ pc'[t] \in Inside /\ mutex_log' = mutex_log
         \/ UnlockLog(t) /\ pc'[t] = "read"
<1>0. pc \in [Threads -> Labels]
  BY DEF TypeOK
<1> USE DEF Inside, At, Goto
<1>1. CASE ReadLine(t) \/ ReadEof(t) \/ ReadError(t) \/ SendUsage(t)
  BY <1>0, <1>1 DEF ReadLine, ReadEof, ReadError, SendUsage
<1>2. CASE GetHost(t) \/ GetPort(t) \/ GetMessage(t)
  <2>1. ASSUME NEW l \in Labels \ Inside, NEW to \in Labels \ Inside,
               First(t, l, to) \/ Load(t, l, to)
        PROVE  pc[t] \notin Inside /\ pc'[t] \notin Inside /\ UNCHANGED locks
    BY <1>0, <2>1 DEF First, Load
  <2>2. CASE GetHost(t)
    BY <2>1, <2>2 DEF GetHost, Labels
  <2>3. CASE GetPort(t)
    <3>1. CASE First(t, "port1", "port2") \/ Load(t, "port2", "port2_")
      BY <2>1, <3>1 DEF Labels
    <3>2. CASE pc[t] = "port2_" /\ UNCHANGED locks /\ (UNCHANGED pc \/ Goto(t, "msg1"))
      BY <1>0, <3>2
    <3> QED BY <2>3, <3>1, <3>2 DEF GetPort
  <2>4. CASE GetMessage(t)
    <3>1. CASE First(t, "msg1", "msg2") \/ Load(t, "msg2", "msg2_") \/ Load(t, "msg3", "msg3_")
      BY <2>1, <3>1 DEF Labels
    <3>2. CASE /\ pc[t] \in {"msg2_", "msg3_"} /\ UNCHANGED locks
               /\ Goto(t, "msg3") \/ Goto(t, "P_log")
      BY <1>0, <3>2
    <3> QED BY <2>4, <3>1, <3>2 DEF GetMessage
  <2> QED BY <1>2, <2>2, <2>3, <2>4
<1>3. CASE LockLog(t) \/ UnlockLog(t)
  BY <1>0, <1>3 DEF LockLog, UnlockLog
<1>4. CASE LockOc(t) \/ Open(t) \/ Send(t)
  BY <1>0, <1>4 DEF LockOc, Open, Send, locks
<1>5. CASE Answered(t) \/ NotAnswered(t) \/ CloseServer(t) \/ AppendLog(t) \/ Reply(t)
  BY <1>0, <1>5 DEF Answered, NotAnswered, CloseServer, AppendLog, Reply, locks
<1> QED BY <1>1, <1>2, <1>3, <1>4, <1>5 DEF Middle

(* The first and the last step of a thread. *)
LEMMA EdgeMoves ==
  ASSUME TypeOK, NEW t \in Threads, Start(t) \/ CloseClient(t)
  PROVE  /\ \A u \in Threads \ {t} : pc'[u] = pc[u] /\ loc'[u] = loc[u]
         /\ pc[t] \notin Inside /\ pc'[t] \notin Inside
<1>1. \E new : \E l \in {"read", "ended"} : Set(t, new) /\ Goto(t, l)
  <2>1. CASE Start(t)
    <3>1. Set(t, [loc[t] EXCEPT !.fd = record[loc[t].arg], !.arg = t]) /\ Goto(t, "read")
      BY <2>1 DEF Start
    <3> QED BY <3>1
  <2>2. CASE CloseClient(t)
    <3>1. Set(t, [NewLocal(t) EXCEPT !.copies = loc[t].copies]) /\ Goto(t, "ended")
      BY <2>2 DEF CloseClient
    <3> QED BY <3>1
  <2> QED BY <2>1, <2>2
<1>2. pc[t] \in {"start", "closing"}
  BY DEF Start, CloseClient, At
<1>3. \E l \in {"read", "ended"} : pc'[t] = l
  BY <1>1, GotoKeeps DEF TypeOK
<1> QED BY <1>1, <1>2, <1>3, SetKeeps, GotoKeeps DEF TypeOK, Inside

(* A step that starts and ends outside the relay. *)
LEMMA RelayOutside ==
  ASSUME RelayInv, UNCHANGED locks, status' = "up" => status = "up",
         NEW T \in SUBSET Threads,
         \A u \in Threads \ T : pc'[u] = pc[u] /\ loc'[u] = loc[u],
         \A u \in T : pc[u] \notin Inside /\ pc'[u] \notin Inside
  PROVE  RelayInv'
<1>1. OneRelay' /\ (mutex_log' = 1 => \A u \in Threads : pc'[u] \notin Inside)
  BY DEF RelayInv, OneRelay, locks
<1>2. \A u \in Threads : HasOc(u) => HasOc(u)'
  BY DEF HasOc, Inside
<1> QED BY <1>1, <1>2 DEF RelayInv, locks

LEMMA OpenedKept ==
  ASSUME TypeOK, NEW t \in Threads, HasOc(t), Middle(t)
  PROVE  HasOc(t)' \/ mutex_oc' = 1 \/ status' # "up"
<1>0. loc[t] \in Local /\ loc \in [Threads -> Local] /\ pc \in [Threads -> Labels]
  BY DEF TypeOK
<1>1. pc[t] \in {"open", "send", "recv", "close"}
  BY DEF HasOc
<1>2. Open(t) \/ Send(t) \/ NotAnswered(t) \/ CloseServer(t)
  BY <1>1 DEF Middle, HasOc, ReadLine, ReadEof, ReadError, SendUsage, GetHost, GetPort, GetMessage,
     First, Load, LockLog, LockOc, Answered, AppendLog, Reply, UnlockLog, At
<1>3. CASE Open(t)
  <2>1. CASE Set(t, [loc[t] EXCEPT !.opened = FALSE])
    <3>1. [loc[t] EXCEPT !.opened = FALSE].opened = FALSE
      BY <1>0 DEF Local
    <3>2. loc'[t].opened = FALSE
      BY <1>0, <2>1, <3>1, SetKeeps
    <3> QED BY <1>0, <1>3, <3>2, GotoKeeps DEF Open, HasOc
  <2> QED BY <1>3, <2>1 DEF Open
<1>4. CASE Send(t)
  <2>1. ~ loc[t].opened
    BY <1>4 DEF HasOc, Send, At
  <2>2. status' = "crashed" \/ (Goto(t, "recv") /\ UNCHANGED loc)
    BY <1>4, <2>1 DEF Send
  <2> QED BY <1>0, <2>1, <2>2, GotoKeeps DEF HasOc
<1>5. CASE NotAnswered(t)
  <2>1. PICK text, e : Set(t, [loc[t] EXCEPT !.received = text, !.epipe = e])
    BY <1>5 DEF NotAnswered
  <2> DEFINE new == [loc[t] EXCEPT !.received = text, !.epipe = e]
  <2>2. new.opened = loc[t].opened
    BY <1>0 DEF Local
  <2> HIDE DEF new
  <2>3. Set(t, new) /\ Goto(t, "close") /\ pc[t] = "recv"
    BY <1>5, <2>1 DEF new, NotAnswered, At
  <2> QED BY <1>0, <2>2, <2>3, SetKeeps, GotoKeeps DEF HasOc
<1>6. CASE CloseServer(t)
  BY <1>6 DEF CloseServer, HasOc, At
<1> QED BY <1>2, <1>3, <1>4, <1>5, <1>6

LEMMA OcKept ==
  ASSUME TypeOK, RelayInv, NEW t \in Threads, Middle(t), status' = "up", mutex_oc' = 0
  PROVE  \E u \in Threads : HasOc(u)'
<1>1. status = "up"
  BY DEF Middle, ReadLine, ReadEof, ReadError, SendUsage, GetHost, GetPort, GetMessage, First, Load,
     LockLog, LockOc, Open, Send, Answered, NotAnswered, CloseServer, AppendLog, Reply, UnlockLog, At
<1>2. CASE mutex_oc = 0
  <2>1. PICK u \in Threads : HasOc(u)
    BY <1>1, <1>2 DEF RelayInv
  <2>2. CASE u = t
    BY <2>1, <2>2, OpenedKept
  <2>3. CASE u # t
    BY <2>1, <2>3, MiddleMoves DEF OnlyMoves, HasOc
  <2> QED BY <2>2, <2>3
<1>3. CASE mutex_oc # 0
  <2>1. LockOc(t)
    <3>1. CASE ReadLine(t) \/ ReadEof(t) \/ ReadError(t) \/ SendUsage(t) \/ GetHost(t) \/ GetPort(t)
                 \/ GetMessage(t)
      BY <1>3, <3>1 DEF ReadLine, ReadEof, ReadError, SendUsage, GetHost, GetPort, GetMessage,
         First, Load, locks
    <3>2. CASE LockLog(t) \/ Open(t) \/ Send(t) \/ UnlockLog(t)
      BY <1>3, <3>2 DEF LockLog, Open, Send, UnlockLog, locks
    <3>3. CASE Answered(t) \/ NotAnswered(t) \/ CloseServer(t) \/ AppendLog(t) \/ Reply(t)
      BY <1>3, <3>3 DEF Answered, NotAnswered, CloseServer, AppendLog, Reply, locks
    <3> QED BY <3>1, <3>2, <3>3 DEF Middle
  <2>2. pc'[t] = "open"
    BY <2>1, GotoKeeps DEF LockOc, TypeOK
  <2> QED BY <2>2 DEF HasOc
<1> QED BY <1>2, <1>3

LEMMA RelayMiddle ==
  ASSUME TypeOK, RelayInv, NEW t \in Threads, Middle(t)
  PROVE  RelayInv'
<1>1. \A u \in Threads \ {t} : pc'[u] = pc[u]
  BY MiddleMoves DEF OnlyMoves
<1>2. OneRelay' /\ (mutex_log' = 1 => \A u \in Threads : pc'[u] \notin Inside)
  <2>1. CASE pc[t] \notin Inside /\ pc'[t] \notin Inside /\ UNCHANGED locks
    BY <1>1, <2>1 DEF RelayInv, OneRelay, locks
  <2>2. CASE LockLog(t)
    BY <1>1, <2>2 DEF LockLog, RelayInv, OneRelay
  <2>3. CASE pc[t] \in Inside /\ pc'[t] \in Inside /\ mutex_log' = mutex_log
    BY <1>1, <2>3 DEF RelayInv, OneRelay
  <2>4. CASE UnlockLog(t) /\ pc'[t] = "read"
    <3>1. pc[t] \in Inside /\ pc'[t] \notin Inside
      BY <2>4 DEF UnlockLog, At, Inside
    <3> QED BY <1>1, <3>1 DEF RelayInv, OneRelay
  <2> QED BY <2>1, <2>2, <2>3, <2>4, Crossing
<1> QED BY <1>2, OcKept DEF RelayInv

LEMMA InvNext == Inv /\ [Next]_vars => Inv'
<1> SUFFICES ASSUME Inv, [Next]_vars PROVE Inv'
  OBVIOUS
<1>1. TypeOK' /\ ConnInv'
  BY TypeNext, ConnNext DEF Inv
<1>2. RelayInv'
  <2> USE DEF Inv
  <2>1. CASE UNCHANGED vars
    BY <2>1 DEF vars, locks, RelayInv, OneRelay, HasOc
  <2>2. CASE \E c \in Clients : Leave(c)
    <3>1. UNCHANGED <<status, pc, loc, locks>>
      BY <2>2 DEF Leave
    <3> QED BY <3>1 DEF locks, RelayInv, OneRelay, HasOc
  <2>3. CASE Accept
    <3>1. PICK t \in Threads, a \in Address : pc[t] = "idle" /\ Goto(t, "start") /\ Set(t, [loc[t] EXCEPT !.arg = a])
      BY <2>3 DEF Accept
    <3>2. /\ \A u \in Threads \ {t} : pc'[u] = pc[u] /\ loc'[u] = loc[u]
          /\ pc'[t] = "start"
      BY <3>1, SetKeeps, GotoKeeps DEF TypeOK
    <3>3. {t} \in SUBSET Threads /\ pc[t] \notin Inside /\ pc'[t] \notin Inside
      BY <3>1, <3>2 DEF Inside
    <3> QED BY <2>3, <3>2, <3>3, RelayOutside DEF Accept
  <2>4. ASSUME NEW t \in Threads, Start(t) \/ CloseClient(t) PROVE RelayInv'
    <3>1. /\ \A u \in Threads \ {t} : pc'[u] = pc[u] /\ loc'[u] = loc[u]
          /\ pc[t] \notin Inside /\ pc'[t] \notin Inside
      BY <2>4, EdgeMoves
    <3>2. {t} \in SUBSET Threads
      OBVIOUS
    <3> QED BY <2>4, <3>1, <3>2, RelayOutside DEF Start, CloseClient
  <2> QED BY <2>1, <2>2, <2>3, <2>4, RelayMiddle, NextCases
<1> QED BY <1>1, <1>2 DEF Inv

LEMMA InvAlways == Spec => []Inv
<1>1. Init => Inv
  BY TypeInit, ConnInit, RelayInit DEF Inv
<1> QED BY <1>1, InvNext, PTL DEF Spec

(* Connecting, relaying, logging and replying exclude one another. *)
THEOREM RelaysAlone == Spec => []OneRelay
<1>1. Inv => OneRelay
  BY DEF Inv, RelayInv
<1> QED BY <1>1, InvAlways, PTL

(* mutex_oc is left taken by the error returns of open_clientfd_ts, and    *)
(* still no thread ever finds it taken.                                    *)
THEOREM ConnectsAtOnce == Spec => []OcNeverWaits
<1>1. Inv => OcNeverWaits
  <2> SUFFICES ASSUME Inv, NEW t \in Threads, At(t, "P_oc"), mutex_oc # 1 PROVE FALSE
    BY DEF OcNeverWaits
  <2>1. PICK u \in Threads : HasOc(u)
    BY DEF Inv, RelayInv, TypeOK, At
  <2> QED BY <2>1 DEF Inv, RelayInv, OneRelay, HasOc, At, Inside
<1> QED BY <1>1, InvAlways, PTL

-----------------------------------------------------------------------------
(* The refinement.  The answer that is due is that of the thread at        *)
(* "reply", of which there is one at most.                                 *)
LEMMA DueIs ==
  ASSUME OneRelay, NEW t \in Threads, pc[t] = "reply"
  PROVE  dueNow = [client |-> loc[t].fd, text |-> loc[t].received]
<1>1. Replying = {t}
  BY DEF Replying, OneRelay, Inside
<1> QED BY <1>1 DEF dueNow

LEMMA DueNothing == (\A t \in Threads : pc[t] # "reply") => dueNow = RL!NothingDue
BY DEF dueNow, Replying, RL!NothingDue, Nobody

LEMMA DueSame ==
  ASSUME OneRelay, OneRelay',
         \A t \in Threads : pc[t] = "reply" <=> pc'[t] = "reply",
         \A t \in Threads : pc[t] = "reply" => loc'[t] = loc[t]
  PROVE  dueNow' = dueNow
<1>1. CASE \E t \in Threads : pc[t] = "reply"
  <2>1. PICK t \in Threads : pc[t] = "reply"
    BY <1>1
  <2>2. dueNow = [client |-> loc[t].fd, text |-> loc[t].received]
    BY <2>1, DueIs
  <2>3. Replying' = {t}
    BY <2>1 DEF Replying, OneRelay, Inside
  <2>4. dueNow' = [client |-> loc'[t].fd, text |-> loc'[t].received]
    BY <2>3 DEF dueNow
  <2> QED BY <2>1, <2>2, <2>4
<1>2. CASE ~ \E t \in Threads : pc[t] = "reply"
  <2>1. Replying = {} /\ Replying' = {}
    BY <1>2 DEF Replying
  <2> QED BY <2>1 DEF dueNow
<1> QED BY <1>1, <1>2

LEMMA RelayStep ==
  ASSUME Inv, Inv', NEW t \in Threads, AppendLog(t) \/ Reply(t) \/ SendUsage(t)
  PROVE  RL!RLNext \/ UNCHANGED <<log, out, dueNow>>
<1>0. /\ loc[t] \in Local /\ loc[t].received \in Texts /\ loc[t].fd \in Clients
      /\ OneRelay /\ OneRelay' /\ loc \in [Threads -> Local] /\ pc \in [Threads -> Labels]
  <2>1. pc[t] \in Busy
    BY MiddleMoves DEF Middle, Inv
  <2> QED BY <2>1 DEF Inv, TypeOK, Local, ConnInv, RelayInv
<1>1. CASE AppendLog(t)
  <2>1. pc[t] = "log" /\ pc'[t] = "reply" /\ loc' = loc
    BY <1>0, <1>1, GotoKeeps DEF AppendLog, At
  <2>2. dueNow = RL!NothingDue
    BY <1>0, <2>1, DueNothing DEF OneRelay, Inside
  <2> DEFINE e == [client |-> loc[t].fd, text |-> loc[t].received]
  <2>3. Replying' = {t}
    BY <1>0, <2>1 DEF Replying, OneRelay, Inside
  <2>4. dueNow' = e
    BY <2>1, <2>3 DEF dueNow
  <2>5. e \in RL!Entry /\ log' = Append(log, e) /\ out' = out
    BY <1>0, <1>1 DEF RL!Entry, AppendLog
  <2> QED BY <2>2, <2>4, <2>5 DEF RL!RLNext, RL!Record
<1>2. CASE Reply(t)
  <2>1. pc[t] = "reply" /\ pc'[t] = "V_log" /\ (\A u \in Threads \ {t} : pc'[u] = pc[u])
    BY <1>0, <1>2, GotoKeeps DEF Reply, At
  <2>2. dueNow = [client |-> loc[t].fd, text |-> loc[t].received]
    BY <1>0, <2>1, DueIs
  <2>3. Replying' = {}
    BY <1>0, <2>1 DEF Replying, OneRelay, Inside
  <2>4. dueNow' = RL!NothingDue
    BY <2>3 DEF dueNow, RL!NothingDue, Nobody
  <2>5. dueNow # RL!NothingDue
    BY <1>0, <2>2, ClientsAssumption DEF RL!NothingDue, Nobody
  <2>6. log' = log /\ (out' = [out EXCEPT ![loc[t].fd] = Append(@, loc[t].received)] \/ out' = out)
    BY <1>2 DEF Reply, Write
  <2> QED BY <2>2, <2>4, <2>5, <2>6 DEF RL!RLNext, RL!Deliver, RL!Drop
<1>3. CASE SendUsage(t)
  <2>1. pc[t] # "reply" /\ pc'[t] # "reply" /\ \A u \in Threads \ {t} : pc'[u] = pc[u] /\ loc'[u] = loc[u]
    <3>1. pc[t] = "host" /\ pc'[t] = "read"
      BY <1>0, <1>3, GotoKeeps DEF SendUsage, At
    <3>2. OnlyMoves(t)
      BY <1>3, MiddleMoves DEF Middle, Inv
    <3> QED BY <3>1, <3>2 DEF OnlyMoves
  <2>2. dueNow' = dueNow
    BY <1>0, <2>1, DueSame
  <2>3. log' = log /\ (out' = [out EXCEPT ![loc[t].fd] = Append(@, Usage)] \/ out' = out)
    BY <1>3 DEF SendUsage, Write
  <2> QED BY <1>0, <2>2, <2>3 DEF RL!RLNext, RL!Explain
<1> QED BY <1>1, <1>2, <1>3

LEMMA RefinementStep == Inv /\ Inv' /\ [Next]_vars => [RL!RLNext]_<<log, out, dueNow>>
<1> SUFFICES ASSUME Inv, Inv', [Next]_vars PROVE RL!RLNext \/ UNCHANGED <<log, out, dueNow>>
  OBVIOUS
<1>0. OneRelay /\ OneRelay' /\ pc \in [Threads -> Labels]
  BY DEF Inv, RelayInv, TypeOK
<1>1. CASE UNCHANGED vars
  BY <1>1 DEF vars, dueNow, Replying
<1>2. CASE \E c \in Clients : Leave(c)
  BY <1>2 DEF Leave, dueNow, Replying
<1>3. CASE Accept
  <2>1. PICK t \in Threads, a \in Address : pc[t] = "idle" /\ Goto(t, "start") /\ Set(t, [loc[t] EXCEPT !.arg = a])
    BY <1>3 DEF Accept
  <2>2. (\A u \in Threads \ {t} : pc'[u] = pc[u] /\ loc'[u] = loc[u]) /\ pc'[t] = "start"
    BY <2>1, SetKeeps, GotoKeeps DEF Inv, TypeOK
  <2> QED BY <1>0, <1>3, <2>1, <2>2, DueSame DEF Accept
<1>4. ASSUME NEW t \in Threads, Start(t) \/ CloseClient(t) PROVE UNCHANGED <<log, out, dueNow>>
  <2>1. /\ \A u \in Threads \ {t} : pc'[u] = pc[u] /\ loc'[u] = loc[u]
        /\ pc[t] # "reply" /\ pc'[t] # "reply"
    BY <1>4, EdgeMoves DEF Inv, Inside
  <2> QED BY <1>0, <1>4, <2>1, DueSame DEF Start, CloseClient
<1>5. ASSUME NEW t \in Threads, Middle(t), ~ (AppendLog(t) \/ Reply(t) \/ SendUsage(t))
      PROVE  UNCHANGED <<log, out, dueNow>>
  <2>1. \A u \in Threads \ {t} : pc'[u] = pc[u] /\ loc'[u] = loc[u]
    BY <1>5, MiddleMoves DEF OnlyMoves, Inv
  <2>2. log' = log /\ out' = out
    <3>1. CASE ReadLine(t) \/ ReadEof(t) \/ ReadError(t) \/ GetHost(t) \/ GetPort(t) \/ GetMessage(t)
      BY <3>1 DEF ReadLine, ReadEof, ReadError, GetHost, GetPort, GetMessage, First, Load
    <3>2. CASE LockLog(t) \/ LockOc(t) \/ Open(t) \/ Send(t) \/ UnlockLog(t)
      BY <3>2 DEF LockLog, LockOc, Open, Send, UnlockLog
    <3>3. CASE Answered(t) \/ NotAnswered(t) \/ CloseServer(t)
      BY <3>3 DEF Answered, NotAnswered, CloseServer
    <3> QED BY <1>5, <3>1, <3>2, <3>3 DEF Middle
  <2>3. pc[t] # "reply" /\ pc'[t] # "reply"
    <3>1. CASE ReadLine(t) \/ ReadEof(t) \/ ReadError(t) \/ LockLog(t) \/ LockOc(t) \/ Open(t) \/ Send(t)
                 \/ UnlockLog(t) \/ Answered(t) \/ NotAnswered(t) \/ CloseServer(t)
      BY <1>0, <3>1 DEF ReadLine, ReadEof, ReadError, LockLog, LockOc, Open, Send, UnlockLog, Answered,
         NotAnswered, CloseServer, At, Goto
    <3>2. CASE GetHost(t) \/ GetPort(t) \/ GetMessage(t)
      <4>1. pc[t] \notin Inside /\ pc'[t] \notin Inside
        BY <3>2, Crossing DEF Inv, Middle, GetHost, GetPort, GetMessage, First, Load, LockLog, UnlockLog,
           At, Inside
      <4> QED BY <4>1 DEF Inside
    <3> QED BY <1>5, <3>1, <3>2 DEF Middle
  <2> QED BY <1>0, <2>1, <2>2, <2>3, DueSame
<1> QED BY <1>1, <1>2, <1>3, <1>4, <1>5, RelayStep, NextCases

(* proxy.log is the log of RelayLog: one entry per answer, in the order of *)
(* the answers, each written before its client can see the answer.         *)
THEOREM LogImplemented == Spec => ImplementsRelayLog
<1>1. Init => RL!RLInit
  BY DueNothing DEF Init, RL!RLInit
<1>2. Init /\ [][Next]_vars /\ []Inv => RL!RLInit /\ [][RL!RLNext]_<<log, out, dueNow>>
  BY <1>1, RefinementStep, PTL
<1> QED BY <1>2, InvAlways, PTL DEF Spec, ImplementsRelayLog, RL!RLSpec

-----------------------------------------------------------------------------
(* The inductive invariant of Rio adds to RioTypeOK and NothingLost what is   *)
(* true of a call in progress: it wants more, and a line has not met its   *)
(* newline yet.                                                            *)
Underway ==
  call # Idle =>
    /\ Stored < IF call.op = "line" THEN call.n - 1 ELSE call.n
    /\ call.op = "line" => \A e \in from + 1 .. Len(given) : given[e] # Newline
RioInv == RioTypeOK /\ NothingLost /\ Underway

LEMMA CallTypes ==
  /\ \A c \in Calls : /\ c \in [op : {"line", "bytes"}, n : Nat]
                      /\ c.n >= 2 /\ c # Idle /\ c = [op |-> c.op, n |-> c.n]
  /\ RIO_BUFSIZE \in Nat /\ RIO_BUFSIZE >= 1
<1>1. \A n \in Sizes : n \in Nat /\ n >= 2
  BY RioAssumption
<1>2. ASSUME NEW c \in Calls
      PROVE  /\ c.op \in {"line", "bytes"} /\ c.n \in Sizes
             /\ c = [op |-> c.op, n |-> c.n]
  BY DEF Calls
<1>3. ASSUME NEW c \in Calls PROVE c # Idle
  BY <1>2 DEF Idle
<1>4. RIO_BUFSIZE \in Nat /\ RIO_BUFSIZE >= 1
  BY RioAssumption
<1>5. ASSUME NEW c \in Calls PROVE c \in [op : {"line", "bytes"}, n : Nat]
  BY <1>1 DEF Calls
<1> QED BY <1>1, <1>2, <1>3, <1>4, <1>5

-----------------------------------------------------------------------------
(* What Take appends to given are the bytes of the buffer from the pointer *)
(* on, which NothingLost says are the next ones of the stream.             *)
LEMMA TakeAppends ==
  ASSUME RioInv, NEW k \in 1 .. rio_cnt, Take(k)
  PROVE  /\ given' \in Seq(Bytes) /\ Len(given') = Len(given) + k
         /\ \A e \in 1 .. Len(given) : given'[e] = given[e]
         /\ \A e \in 1 .. k : given'[Len(given) + e] = rio_buf[rio_bufptr + e - 1]
         /\ \A e \in 1 .. Len(given') : given'[e] = stream[e]
<1> DEFINE piece == SubSeq(rio_buf, rio_bufptr, rio_bufptr + k - 1)
<1>1. /\ rio_bufptr \in Nat /\ rio_cnt \in Nat /\ k \in Nat /\ k >= 1
      /\ rio_bufptr >= 1 /\ rio_bufptr + k - 1 <= RIO_BUFSIZE
  BY CallTypes, SMTT(30) DEF RioInv, RioTypeOK
<1>2. \A e \in rio_bufptr .. rio_bufptr + k - 1 : rio_buf[e] \in Bytes
  BY <1>1, CallTypes, SMTT(30) DEF RioInv, RioTypeOK, Index
<1>3. /\ piece \in Seq(Bytes) /\ Len(piece) = k
      /\ \A e \in 1 .. k : piece[e] = rio_buf[rio_bufptr + e - 1]
  <2>1. /\ piece \in Seq(Bytes)
        /\ Len(piece) = IF rio_bufptr <= rio_bufptr + k - 1
                        THEN (rio_bufptr + k - 1) - rio_bufptr + 1 ELSE 0
        /\ \A e \in 1 .. (rio_bufptr + k - 1) - rio_bufptr + 1 : piece[e] = rio_buf[rio_bufptr + e - 1]
    BY <1>1, <1>2, SubSeqProperties
  <2>2. (rio_bufptr + k - 1) - rio_bufptr + 1 = k /\ rio_bufptr <= rio_bufptr + k - 1
    BY <1>1
  <2> QED BY <2>1, <2>2
<1>4. given' = given \o piece /\ given \in Seq(Bytes) /\ Len(given) \in Nat
  BY DEF Take, RioInv, RioTypeOK
<1> HIDE DEF piece
<1>5. /\ given' \in Seq(Bytes) /\ Len(given') = Len(given) + k
      /\ \A e \in 1 .. Len(given) + k :
           given'[e] = IF e <= Len(given) THEN given[e] ELSE piece[e - Len(given)]
  BY <1>3, <1>4, ConcatProperties
<1>6. \A e \in 1 .. Len(given) : given'[e] = given[e]
  BY <1>1, <1>4, <1>5
<1>7. \A e \in 1 .. k : given'[Len(given) + e] = rio_buf[rio_bufptr + e - 1]
  BY <1>1, <1>3, <1>4, <1>5
<1>8. ASSUME NEW e \in 1 .. Len(given') PROVE given'[e] = stream[e]
  <2>1. CASE e <= Len(given)
    BY <2>1, <1>4, <1>5, <1>6 DEF RioInv, NothingLost
  <2>2. CASE e > Len(given)
    <3> DEFINE j == e - Len(given)
    <3>1. j \in 1 .. k /\ e = Len(given) + j
      BY <2>2, <1>1, <1>4, <1>5
    <3>2. given'[e] = rio_buf[rio_bufptr + j - 1]
      BY <3>1, <1>7
    <3>3. j - 1 \in 0 .. Unread - 1
      BY <3>1, <1>1 DEF Unread
    <3>4. rio_buf[rio_bufptr + (j - 1)] = stream[Len(given) + (j - 1) + 1]
      BY <3>3 DEF RioInv, NothingLost
    <3>5. rio_bufptr + (j - 1) = rio_bufptr + j - 1 /\ Len(given) + (j - 1) + 1 = e
      BY <3>1, <1>1, <1>4
    <3> QED BY <3>2, <3>4, <3>5
  <2> QED BY <2>1, <2>2, <1>1, <1>4, <1>5
<1> QED BY <1>5, <1>6, <1>7, <1>8

\* A step that only takes k bytes keeps all but Underway.
LEMMA TakeKeeps ==
  ASSUME RioInv, NEW k \in 1 .. rio_cnt, Take(k),
         call' \in Calls \cup {Idle}, from' = from, ret' \in Int
  PROVE  RioTypeOK' /\ NothingLost'
<1>1. /\ rio_bufptr \in Nat /\ rio_cnt \in Nat /\ k \in Nat /\ k >= 1 /\ k <= rio_cnt
      /\ rio_bufptr >= 1 /\ rio_bufptr + rio_cnt <= RIO_BUFSIZE + 1 /\ RIO_BUFSIZE \in Nat
      /\ Len(given) \in Nat /\ from \in 0 .. Len(given)
  BY CallTypes, SMTT(30) DEF RioInv, RioTypeOK
<1>2. /\ given' \in Seq(Bytes) /\ Len(given') = Len(given) + k
      /\ \A e \in 1 .. Len(given') : given'[e] = stream[e]
  BY TakeAppends
<1>3. /\ rio_bufptr' = rio_bufptr + k /\ rio_cnt' = rio_cnt - k
      /\ UNCHANGED <<stream, offset, rio_buf>>
  BY DEF Take, rio_fd
<1>4. RioTypeOK'
  <2>1. rio_bufptr' \in 1 .. RIO_BUFSIZE + 1 /\ rio_cnt' \in -1 .. RIO_BUFSIZE
    BY <1>1, <1>3
  <2>2. rio_bufptr' + rio_cnt' <= RIO_BUFSIZE + 1
    BY <1>1, <1>3
  <2>3. from' \in 0 .. Len(given')
    BY <1>1, <1>2
  <2> QED BY <1>2, <1>3, <2>1, <2>2, <2>3 DEF RioInv, RioTypeOK
<1>5. Unread = rio_cnt /\ Unread' = rio_cnt - k
  BY <1>1, <1>3 DEF Unread
<1>6. Len(given') + Unread' = offset'
  BY <1>1, <1>2, <1>3, <1>5 DEF RioInv, NothingLost
<1>7. ASSUME NEW e \in 0 .. Unread' - 1
      PROVE  rio_buf'[rio_bufptr' + e] = stream'[Len(given') + e + 1]
  <2>1. e + k \in 0 .. Unread - 1 /\ e \in Nat
    BY <1>1, <1>5
  <2>2. rio_buf[rio_bufptr + (e + k)] = stream[Len(given) + (e + k) + 1]
    BY <2>1 DEF RioInv, NothingLost
  <2>3. rio_bufptr + (e + k) = rio_bufptr' + e /\ Len(given) + (e + k) + 1 = Len(given') + e + 1
    BY <1>1, <1>2, <1>3, <2>1
  <2> QED BY <1>3, <2>2, <2>3
<1> QED BY <1>2, <1>3, <1>4, <1>6, <1>7 DEF NothingLost

-----------------------------------------------------------------------------
LEMMA CallKeeps ==
  ASSUME RioInv, NEW c \in Calls, Call(c)
  PROVE  RioInv'
<1>1. /\ call' = c /\ from' = Len(given) /\ Len(given) \in Nat
      /\ UNCHANGED <<stream, offset, rio_buf, rio_bufptr, rio_cnt, given, ret>>
  BY DEF Call, rio_fd, rio, RioInv, RioTypeOK
<1>2. RioTypeOK' /\ NothingLost'
  BY <1>1 DEF RioInv, RioTypeOK, NothingLost, Unread
<1>3. c.n \in Nat /\ c.n >= 2
  BY CallTypes
<1>4. Underway'
  BY <1>1, <1>3 DEF Underway, Stored
<1> QED BY <1>2, <1>4 DEF RioInv

LEMMA ReadSomeKeeps ==
  ASSUME RioInv, NEW k \in Index, ReadSome(k)
  PROVE  RioInv'
<1>1. /\ rio_cnt \in Int /\ rio_cnt <= 0 /\ k \in Nat /\ k >= 1 /\ k <= RIO_BUFSIZE
      /\ RIO_BUFSIZE \in Nat /\ Len(stream) \in Nat /\ offset \in Nat
      /\ k <= Len(stream) - offset /\ Len(given) \in Nat
      /\ Len(given) = offset
  BY CallTypes, SMTT(30) DEF RioInv, RioTypeOK, NothingLost, Unread, ReadSome, Empty, Index
<1>2. /\ rio_cnt' = k /\ rio_bufptr' = 1 /\ offset' = offset + k
      /\ rio_buf' = [e \in Index |-> IF e <= k THEN stream[offset + e] ELSE rio_buf[e]]
      /\ UNCHANGED <<stream, given, call, from, ret>>
  BY DEF ReadSome
<1>3. \A e \in 1 .. k : stream[offset + e] \in Bytes
  <2>1. \A e \in 1 .. k : offset + e \in 1 .. Len(stream)
    BY <1>1
  <2> QED BY <2>1, ElementOfSeq DEF RioInv, RioTypeOK
<1>4. rio_buf' \in [Index -> Bytes]
  BY <1>1, <1>2, <1>3 DEF RioInv, RioTypeOK, Index
<1>5. RioTypeOK'
  BY <1>1, <1>2, <1>4 DEF RioInv, RioTypeOK
<1>6. Unread' = k
  BY <1>1, <1>2 DEF Unread
<1>7. ASSUME NEW e \in 0 .. Unread' - 1
      PROVE  rio_buf'[rio_bufptr' + e] = stream'[Len(given') + e + 1]
  <2>1. 1 + e \in Index /\ 1 + e <= k /\ offset + (1 + e) = Len(given) + e + 1
    BY <1>1, <1>6 DEF Index
  <2>2. rio_buf'[1 + e] = stream[offset + (1 + e)]
    BY <1>2, <2>1
  <2> QED BY <1>2, <2>1, <2>2
<1>8. NothingLost'
  BY <1>1, <1>2, <1>6, <1>7 DEF RioInv, NothingLost
<1>9. Underway'
  BY <1>2 DEF RioInv, Underway, Stored
<1> QED BY <1>5, <1>8, <1>9 DEF RioInv

\* What read() returns without a byte.
LEMMA ReadNothingKeeps ==
  ASSUME RioInv, ReadInterrupted \/ ReadFails \/ ReadAtEof
  PROVE  RioInv'
<1>1. /\ rio_cnt \in Int /\ rio_cnt <= 0 /\ rio_cnt' \in {-1, 0}
      /\ UNCHANGED <<stream, offset, rio_buf, rio_bufptr, given, from>>
      /\ RIO_BUFSIZE \in Nat /\ RIO_BUFSIZE >= 1 /\ rio_bufptr \in Nat
      /\ Len(given) \in Nat /\ from \in Int
  BY CallTypes DEF RioInv, RioTypeOK, ReadInterrupted, ReadFails, ReadAtEof, Empty, EndCall, rio_fd
<1>2. (UNCHANGED <<call, ret>>) \/ (call' = Idle /\ ret' \in Int)
  BY <1>1 DEF ReadInterrupted, ReadFails, ReadAtEof, EndCall, Stored
<1>3. Unread = 0 /\ Unread' = 0
  BY <1>1 DEF Unread
<1>4. rio_cnt' \in -1 .. RIO_BUFSIZE /\ rio_bufptr' + rio_cnt' <= RIO_BUFSIZE + 1
  <2>1. rio_bufptr <= RIO_BUFSIZE + 1
    BY <1>1 DEF RioInv, RioTypeOK
  <2>2. (rio_cnt' = 0 \/ rio_cnt' = -1) /\ rio_bufptr' = rio_bufptr
    BY <1>1
  <2>3. CASE rio_cnt' = 0
    BY <1>1, <2>1, <2>2, <2>3
  <2>4. CASE rio_cnt' = -1
    BY <1>1, <2>1, <2>2, <2>4
  <2> QED BY <2>2, <2>3, <2>4
<1>5. RioTypeOK'
  BY <1>1, <1>2, <1>4 DEF RioInv, RioTypeOK
<1>6. NothingLost'
  BY <1>1, <1>3 DEF RioInv, NothingLost
<1>7. Underway'
  BY <1>1, <1>2 DEF RioInv, Underway, Stored
<1> QED BY <1>5, <1>6, <1>7 DEF RioInv

LEMMA CopyCharKeeps ==
  ASSUME RioInv, CopyChar
  PROVE  RioInv'
<1> DEFINE c == rio_buf[rio_bufptr]
<1>1. /\ call.op = "line" /\ rio_cnt > 0 /\ rio_cnt \in Nat /\ Take(1) /\ 1 \in 1 .. rio_cnt
      /\ Len(given) \in Nat /\ from \in 0 .. Len(given) /\ rio_bufptr \in Nat
  BY DEF CopyChar, RioInv, RioTypeOK
<1>2. call \in Calls /\ call # Idle /\ call.n \in Nat
  BY <1>1, CallTypes DEF RioInv, RioTypeOK, Idle
<1>3. from' = from /\ ((UNCHANGED <<call, ret>>) \/ (call' = Idle /\ ret' \in Int))
  BY <1>1, <1>2 DEF CopyChar, EndCall, Stored
<1>4. RioTypeOK' /\ NothingLost'
  BY <1>1, <1>3, TakeKeeps DEF RioInv, RioTypeOK
<1>5. /\ Len(given') = Len(given) + 1 /\ given'[Len(given) + 1] = c
      /\ \A e \in 1 .. Len(given) : given'[e] = given[e]
  <2>1. given'[Len(given) + 1] = rio_buf[rio_bufptr + 1 - 1]
    BY <1>1, TakeAppends
  <2>2. rio_bufptr + 1 - 1 = rio_bufptr
    BY <1>1
  <2> QED BY <1>1, <2>1, <2>2, TakeAppends
<1>6. ASSUME call' # Idle PROVE c # Newline /\ call' = call /\ Stored + 2 # call.n
  BY <1>6 DEF CopyChar, EndCall
<1>7. ASSUME call' # Idle
      PROVE  /\ Stored' < call'.n - 1
             /\ \A e \in from' + 1 .. Len(given') : given'[e] # Newline
  <2>1. Stored < call.n - 1 /\ \A e \in from + 1 .. Len(given) : given[e] # Newline
    BY <1>1, <1>2 DEF RioInv, Underway
  <2>2. Stored \in Int /\ Stored' = Stored + 1
    BY <1>1, <1>3, <1>5 DEF Stored
  <2>3. Stored' < call'.n - 1
    BY <1>2, <1>6, <1>7, <2>1, <2>2
  <2>4. ASSUME NEW e \in from + 1 .. Len(given) + 1 PROVE given'[e] # Newline
    <3>1. CASE e <= Len(given)
      BY <3>1, <1>1, <1>5, <2>1
    <3>2. CASE e = Len(given) + 1
      BY <3>2, <1>5, <1>6, <1>7
    <3> QED BY <3>1, <3>2, <1>1
  <2> QED BY <1>3, <1>5, <2>3, <2>4
<1>8. Underway'
  BY <1>1, <1>6, <1>7 DEF Underway
<1> QED BY <1>4, <1>8 DEF RioInv

LEMMA CopyBytesKeeps ==
  ASSUME RioInv, CopyBytes
  PROVE  RioInv'
<1> DEFINE wanted == call.n - Stored
           k == IF rio_cnt < wanted THEN rio_cnt ELSE wanted
<1>1. /\ call.op = "bytes" /\ rio_cnt > 0 /\ rio_cnt \in Nat /\ Take(k)
      /\ Len(given) \in Nat /\ from \in 0 .. Len(given) /\ Stored \in Nat
  BY DEF CopyBytes, RioInv, RioTypeOK, Stored
<1>2. call \in Calls /\ call # Idle /\ call.n \in Nat
  BY <1>1, CallTypes DEF RioInv, RioTypeOK, Idle
<1>3. wanted \in Nat /\ wanted >= 1
  BY <1>1, <1>2 DEF RioInv, Underway
<1>4. k \in 1 .. rio_cnt
  BY <1>1, <1>3
<1>5. /\ from' = from
      /\ \/ UNCHANGED <<call, ret>> /\ k < wanted
         \/ call' = Idle /\ ret' \in Int
  BY <1>1, <1>2, <1>3 DEF CopyBytes, EndCall
<1>6. RioTypeOK' /\ NothingLost'
  <2> HIDE DEF k
  <2> QED BY <1>1, <1>4, <1>5, TakeKeeps DEF RioInv, RioTypeOK
<1>7. Stored' = Stored + k
  <2> HIDE DEF k
  <2>1. Len(given') = Len(given) + k
    BY <1>1, <1>4, TakeAppends
  <2> QED BY <1>1, <1>4, <1>5, <2>1 DEF Stored
<1>8. Underway'
  <2>1. ASSUME call' # Idle PROVE call' = call /\ Stored' < call.n
    <3> HIDE DEF k
    <3>1. call' = call /\ k < wanted /\ k \in Nat
      BY <1>4, <1>5, <2>1
    <3> QED BY <1>1, <1>2, <1>7, <3>1
  <2> QED BY <1>1, <2>1 DEF Underway
<1> QED BY <1>6, <1>8 DEF RioInv

-----------------------------------------------------------------------------
LEMMA RioInvInit == RioInit => RioInv
<1> SUFFICES ASSUME RioInit PROVE RioInv
  OBVIOUS
<1>1. stream \in Seq(Bytes) /\ given = <<>> /\ given \in Seq(Bytes) /\ Len(given) = 0
  <2>1. PICK m \in 0 .. MaxStream : stream \in [1 .. m -> Bytes]
    BY DEF RioInit
  <2>2. m \in Nat
    BY RioAssumption, <2>1
  <2>3. stream \in Seq(Bytes)
    BY <2>1, <2>2, SeqDef
  <2> QED BY <2>3, EmptySeq DEF RioInit
<1>2. Len(stream) \in Nat /\ RIO_BUFSIZE \in Nat /\ RIO_BUFSIZE >= 1
  BY <1>1, CallTypes
<1>3. RioTypeOK
  BY <1>1, <1>2 DEF RioInit, RioTypeOK
<1>4. NothingLost
  BY <1>1, <1>2 DEF RioInit, NothingLost, Unread
<1>5. Underway
  BY DEF RioInit, Underway
<1> QED BY <1>3, <1>4, <1>5 DEF RioInv

LEMMA RioInvNext == RioInv /\ [RioNext]_rio_vars => RioInv'
<1> SUFFICES ASSUME RioInv, [RioNext]_rio_vars PROVE RioInv'
  OBVIOUS
<1>1. ASSUME NEW c \in Calls, Call(c) PROVE RioInv'
  BY <1>1, CallKeeps
<1>2. ASSUME NEW k \in Index, ReadSome(k) PROVE RioInv'
  BY <1>2, ReadSomeKeeps
<1>3. CASE ReadInterrupted \/ ReadFails \/ ReadAtEof
  BY <1>3, ReadNothingKeeps
<1>4. CASE CopyChar
  BY <1>4, CopyCharKeeps
<1>5. CASE CopyBytes
  BY <1>5, CopyBytesKeeps
<1>6. CASE UNCHANGED rio_vars
  BY <1>6 DEF rio_vars, rio_fd, rio, RioInv, RioTypeOK, NothingLost, Unread, Underway, Stored
<1> QED BY <1>1, <1>2, <1>3, <1>4, <1>5, <1>6 DEF RioNext

(* The inductive invariant holds of every behaviour. *)
THEOREM RioInvariant == RioSpec => []RioInv
<1> QED BY RioInvInit, RioInvNext, PTL DEF RioSpec

(* rio_buf's pointer and count never leave it, whatever is called and      *)
(* however read() answers.                                                 *)
THEOREM RioTypeCorrect == RioSpec => []RioTypeOK
<1>1. RioInv => RioTypeOK
  BY DEF RioInv
<1> QED BY <1>1, RioInvariant, PTL

(* rio_read and its two callers lose, double and swap no byte of a stream  *)
(* of any length, with a buffer of any size.                               *)
THEOREM RioNothingLost == RioSpec => []NothingLost
<1>1. RioInv => NothingLost
  BY DEF RioInv
<1> QED BY <1>1, RioInvariant, PTL

-----------------------------------------------------------------------------
(* The steps of Rio seen as steps of ByteStream.                           *)
LEMMA Progress ==
  ASSUME RioInv, call # Idle
  PROVE  /\ call \in Calls /\ call.n \in Nat /\ call.op \in {"line", "bytes"}
         /\ Len(given) \in Nat /\ Len(stream) \in Nat /\ from \in Nat
         /\ from <= Len(given) /\ Len(given) <= offset /\ offset <= Len(stream)
         /\ Stored = Len(given) - from /\ Stored < BS!Room(call)
         /\ \A e \in 1 .. Len(given) : given[e] = stream[e]
         /\ call.op = "line" => \A e \in from + 1 .. Len(given) : stream[e] # Newline
<1>1. call \in Calls /\ call.n \in Nat /\ call.op \in {"line", "bytes"}
  BY CallTypes DEF RioInv, RioTypeOK
<1>2. /\ Len(given) \in Nat /\ Len(stream) \in Nat /\ from \in Nat /\ offset \in Nat
      /\ from <= Len(given) /\ offset <= Len(stream)
  BY DEF RioInv, RioTypeOK
<1>3. Len(given) <= offset /\ \A e \in 1 .. Len(given) : given[e] = stream[e]
  BY <1>2 DEF RioInv, RioTypeOK, NothingLost, Unread
<1>4. Stored = Len(given) - from /\ Stored < BS!Room(call)
  BY DEF RioInv, Underway, Stored, BS!Room
<1>5. call.op = "line" => \A e \in from + 1 .. Len(given) : stream[e] # Newline
  BY <1>2, <1>3 DEF RioInv, Underway
<1> QED BY <1>1, <1>2, <1>3, <1>4, <1>5

LEMMA WithinSoFar ==
  ASSUME RioInv, call # Idle
  PROVE  BS!Within(call, from, Len(given))
<1>1. /\ Len(given) \in Nat /\ from \in Nat /\ BS!Room(call) \in Int
      /\ Len(given) - from < BS!Room(call)
      /\ call.op = "line" => \A e \in from + 1 .. Len(given) : stream[e] # Newline
  BY Progress DEF BS!Room
<1>2. Len(given) - from <= BS!Room(call)
  BY <1>1
<1>3. ASSUME call.op = "line", NEW e \in from + 1 .. Len(given) - 1
      PROVE  stream[e] # Newline
  <2>1. e \in from + 1 .. Len(given)
    BY <1>1
  <2> QED BY <1>1, <1>3, <2>1
<1> QED BY <1>2, <1>3 DEF BS!Within

LEMMA CallBegins ==
  ASSUME RioInv, NEW c \in Calls, Call(c)
  PROVE  \E o \in {"line", "bytes"}, n \in Sizes : BS!Begin([op |-> o, n |-> n])
<1>1. /\ call = Idle /\ call' = c /\ from' = Len(given) /\ UNCHANGED <<stream, given, ret>>
  BY DEF Call, rio_fd
<1>2. c.op \in {"line", "bytes"} /\ c.n \in Sizes /\ c = [op |-> c.op, n |-> c.n] /\ c # Idle
  BY CallTypes DEF Calls
<1>3. BS!Begin(c)
  BY <1>1, <1>2 DEF BS!Begin
<1> QED BY <1>2, <1>3

LEMMA FailsFails ==
  ASSUME RioInv, ReadFails
  PROVE  BS!Fail
<1>1. /\ call # Idle /\ call' = Idle /\ ret' = -1 /\ UNCHANGED <<stream, given>>
  BY DEF ReadFails, Empty, EndCall, rio_fd
<1>2. BS!Within(call, from, Len(given))
  BY <1>1, WithinSoFar
<1>3. Len(given) \in from .. Len(stream)
  <2>1. /\ Len(given) \in Nat /\ Len(stream) \in Nat /\ from \in Nat /\ offset \in Nat
        /\ from <= Len(given) /\ Len(given) <= offset /\ offset <= Len(stream)
    BY <1>1, Progress DEF RioInv, RioTypeOK
  <2> QED BY <2>1
<1> QED BY <1>1, <1>2, <1>3 DEF BS!Fail

LEMMA EofSucceeds ==
  ASSUME RioInv, ReadAtEof
  PROVE  BS!Succeed
<1>1. /\ call # Idle /\ call' = Idle /\ UNCHANGED <<stream, given>>
      /\ ret' = IF call.op = "line" /\ Stored > 0 THEN Stored + 1 ELSE Stored
      /\ rio_cnt <= 0 /\ offset = Len(stream)
  BY DEF ReadAtEof, Empty, EndCall, rio_fd
<1> DEFINE j == Len(given)
<1>2. j = Len(stream) /\ j \in from .. Len(stream)
  BY <1>1, Progress DEF RioInv, RioTypeOK, NothingLost, Unread
<1>3. BS!EndsAt(call, from, j)
  BY <1>1, <1>2, WithinSoFar DEF BS!EndsAt
<1>4. ret' = BS!Returned(call, from, j)
  <2>1. CASE call.op = "line" /\ Stored > 0
    <3>1. j \in from + 1 .. Len(given) /\ j # from
      BY <2>1, <1>1, Progress
    <3>2. stream[j] # Newline
      BY <3>1, <2>1, <1>1, Progress
    <3> QED BY <2>1, <3>1, <3>2, <1>1, Progress DEF BS!Returned
  <2>2. CASE call.op = "bytes"
    BY <2>2, <1>1, Progress DEF BS!Returned
  <2>3. CASE call.op = "line" /\ ~(Stored > 0)
    <3>1. Stored = 0 /\ from = j
      BY <2>3, <1>1, Progress
    <3> QED BY <2>3, <3>1, <1>1, Progress DEF BS!Returned
  <2> QED BY <2>1, <2>2, <2>3, <1>1, Progress
<1> QED BY <1>1, <1>2, <1>3, <1>4 DEF BS!Succeed

LEMMA CopyCharSucceeds ==
  ASSUME RioInv, CopyChar, call' = Idle
  PROVE  BS!Succeed
<1> DEFINE c == rio_buf[rio_bufptr]
           j == Len(given) + 1
<1>1. /\ call.op = "line" /\ rio_cnt > 0 /\ rio_cnt \in Nat /\ Take(1) /\ 1 \in 1 .. rio_cnt
      /\ rio_bufptr \in Nat /\ UNCHANGED <<stream, offset>>
  BY DEF CopyChar, Take, rio_fd, RioInv, RioTypeOK
<1>2. call # Idle
  BY <1>1 DEF Idle
<1>3. RioInv' /\ Len(given') = j /\ stream[j] = c
  <2>1. RioInv'
    BY CopyCharKeeps
  <2>2. /\ Len(given') = j /\ given'[j] = rio_buf[rio_bufptr + 1 - 1]
        /\ \A e \in 1 .. Len(given') : given'[e] = stream[e]
    BY <1>1, TakeAppends
  <2>3. rio_bufptr + 1 - 1 = rio_bufptr /\ j \in 1 .. Len(given')
    BY <1>1, <1>2, <2>2, Progress
  <2> QED BY <2>1, <2>2, <2>3
<1>4. j \in from .. Len(stream) /\ j > from /\ j - from = Stored + 1
  <2>1. Len(given') <= Len(stream)
    BY <1>1, <1>3, SMTT(30) DEF RioInv, RioTypeOK, NothingLost, Unread
  <2> QED BY <1>2, <1>3, <2>1, Progress
<1>5. BS!Within(call, from, j)
  <2>1. j - from <= BS!Room(call)
    BY <1>1, <1>2, <1>4, Progress DEF BS!Room
  <2>2. \A k \in from + 1 .. j - 1 : stream[k] # Newline
    BY <1>1, <1>2, Progress
  <2> QED BY <2>1, <2>2 DEF BS!Within
<1>6. CASE c = Newline
  <2>1. ret' = Stored + 1
    BY <1>6, <1>2 DEF CopyChar, EndCall
  <2>2. BS!EndsAt(call, from, j)
    BY <1>1, <1>3, <1>4, <1>5, <1>6 DEF BS!EndsAt
  <2>3. ret' = BS!Returned(call, from, j)
    BY <1>3, <1>4, <1>6, <2>1 DEF BS!Returned
  <2> QED BY <1>1, <1>2, <1>3, <1>4, <2>2, <2>3 DEF BS!Succeed
<1>7. CASE c # Newline
  <2>1. ret' = call.n /\ Stored + 2 = call.n
    BY <1>7, <1>2 DEF CopyChar, EndCall
  <2>2. j - from = BS!Room(call)
    BY <1>1, <1>2, <1>4, <2>1, Progress DEF BS!Room
  <2>3. BS!EndsAt(call, from, j)
    BY <1>5, <2>2 DEF BS!EndsAt
  <2>4. ret' = BS!Returned(call, from, j)
    BY <1>1, <1>2, <1>3, <1>4, <1>7, <2>1, Progress DEF BS!Returned
  <2> QED BY <1>1, <1>2, <1>3, <1>4, <2>3, <2>4 DEF BS!Succeed
<1> QED BY <1>6, <1>7

LEMMA CopyBytesSucceeds ==
  ASSUME RioInv, CopyBytes, call' = Idle
  PROVE  BS!Succeed
<1> DEFINE wanted == call.n - Stored
           j == Len(given) + wanted
<1>1. /\ call.op = "bytes" /\ rio_cnt > 0 /\ rio_cnt \in Nat /\ UNCHANGED <<stream, offset>>
  BY DEF CopyBytes, Take, rio_fd, RioInv, RioTypeOK
<1>2. call # Idle
  BY <1>1 DEF Idle
<1>3. /\ ~(rio_cnt < wanted) /\ Take(wanted) /\ ret' = call.n
      /\ wanted \in 1 .. rio_cnt /\ wanted \in Nat
  <2>1. wanted \in Nat /\ wanted >= 1
    BY <1>1, <1>2, Progress DEF BS!Room
  <2>2. ~(rio_cnt < wanted)
    BY <1>1, <1>2, <2>1 DEF CopyBytes
  <2> QED BY <1>1, <1>2, <2>1, <2>2 DEF CopyBytes, EndCall
<1>4. Len(given') = j
  BY <1>3, TakeAppends
<1>5. j \in from .. Len(stream) /\ j - from = call.n /\ BS!Room(call) = call.n
  <2>1. RioInv'
    BY CopyBytesKeeps
  <2>2. Len(given') <= Len(stream)
    <3>1. Len(given') + Unread' = offset' /\ offset' \in 0 .. Len(stream') /\ Len(stream') \in Nat
      BY <2>1 DEF RioInv, RioTypeOK, NothingLost
    <3>2. Unread' \in Nat
      BY <2>1 DEF RioInv, RioTypeOK, Unread
    <3>3. Len(given') \in Nat
      BY <2>1 DEF RioInv, RioTypeOK
    <3> QED BY <1>1, <3>1, <3>2, <3>3
  <2> QED BY <1>1, <1>2, <1>3, <1>4, <2>2, Progress DEF BS!Room
<1>6. BS!EndsAt(call, from, j) /\ ret' = BS!Returned(call, from, j)
  BY <1>1, <1>2, <1>3, <1>5, Progress DEF BS!EndsAt, BS!Within, BS!Returned
<1> QED BY <1>1, <1>2, <1>4, <1>5, <1>6 DEF BS!Succeed

\* The other steps cannot be seen.
LEMMA StepStutters ==
  ASSUME call # Idle, UNCHANGED <<stream, call, from, ret>>
  PROVE  UNCHANGED BS!bsvars
BY DEF BS!bsvars

LEMMA NextRefines == RioInv /\ [RioNext]_rio_vars => [BS!BSNext]_(BS!bsvars)
<1> SUFFICES ASSUME RioInv, [RioNext]_rio_vars PROVE BS!BSNext \/ UNCHANGED BS!bsvars
  OBVIOUS
<1>1. ASSUME NEW c \in Calls, Call(c) PROVE BS!BSNext
  BY <1>1, CallBegins DEF BS!BSNext
<1>2. ASSUME NEW k \in Index, ReadSome(k) PROVE UNCHANGED BS!bsvars
  BY <1>2, StepStutters DEF ReadSome, Empty
<1>3. CASE ReadInterrupted
  BY <1>3, StepStutters DEF ReadInterrupted, Empty, rio_fd
<1>4. CASE ReadFails
  BY <1>4, FailsFails DEF BS!BSNext
<1>5. CASE ReadAtEof
  BY <1>5, EofSucceeds DEF BS!BSNext
<1>6. CASE CopyChar
  <2>1. call # Idle /\ UNCHANGED stream
    BY <1>6 DEF CopyChar, Take, rio_fd, Idle
  <2>2. call' = Idle \/ UNCHANGED <<call, from, ret>>
    BY <1>6 DEF CopyChar, EndCall
  <2> QED BY <1>6, <2>1, <2>2, CopyCharSucceeds, StepStutters DEF BS!BSNext
<1>7. CASE CopyBytes
  <2>1. call # Idle /\ UNCHANGED stream
    BY <1>7 DEF CopyBytes, Take, rio_fd, Idle
  <2>2. call' = Idle \/ UNCHANGED <<call, from, ret>>
    BY <1>7 DEF CopyBytes, EndCall
  <2> QED BY <1>7, <2>1, <2>2, CopyBytesSucceeds, StepStutters DEF BS!BSNext
<1>8. CASE UNCHANGED rio_vars
  BY <1>8 DEF rio_vars, rio_fd, BS!bsvars
<1> QED BY <1>1, <1>2, <1>3, <1>4, <1>5, <1>6, <1>7, <1>8 DEF RioNext

(* rio_readlineb and rio_readnb read the stream line by line and n bytes   *)
(* by n bytes, whatever read() does below them.                            *)
THEOREM RioImplementsByteStream == RioSpec => ImplementsByteStream
<1>1. RioInit => BS!BSInit
  BY EmptySeq DEF RioInit, BS!BSInit
<1> QED BY <1>1, NextRefines, RioInvariant, PTL DEF RioSpec, ImplementsByteStream, BS!BSSpec
=============================================================================
