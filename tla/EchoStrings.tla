---------------------------- MODULE EchoStrings ----------------------------
(***************************************************************************)
(* echo_server.c and echo_client.c of the eleventh homework: strings with  *)
(* their zeros, one read and one write for each, nothing that tells where  *)
(* one ends, no error that is looked at.  The server takes one client.     *)
(***************************************************************************)
EXTENDS CStrings

CONSTANTS
  SIZE,       \* of the buffers on both sides
  Inputs      \* what the user may type: sequences of lines

VARIABLES
  typed, stdin,     \* the lines typed; what has not been read
  str,              \* of the server: what it echoes next, or Reading
  pc, recvline,     \* of the client: "send", "receive", "killed"; what it received last
  up, down,         \* bytes under way
  received,         \* history: the lines received
  pieces            \* history: whether a read got less than was sent, or more
stringvars == <<typed, stdin, str, pc, recvline, up, down, received, pieces>>

Reading == <<>>

StringsInit ==
  /\ typed \in Inputs /\ stdin = FlattenSeq(typed)
  /\ str = Reading /\ pc = "send" /\ recvline = <<>>
  /\ up = <<>> /\ down = <<>> /\ received = <<>> /\ pieces = FALSE

\* A buffer that was cleared and into which k bytes were read; the string
\* in it ends in it if one of them is a zero, or k is less than SIZE.
Buffer(bytes, k) == SubSeq(bytes, 1, k) \o [i \in 1 .. SIZE - k |-> Nul]

\* read gives what is there, as much as it likes; at the end it gives nothing.
ServerReads(k) ==
  /\ str = Reading /\ k <= Len(up) /\ k <= SIZE /\ (k = 0 => pc = "killed" /\ up = <<>>)
  /\ str' = Buffer(up, k) /\ up' = From(up, k + 1)
  /\ pieces' = (pieces \/ (k > 0 /\ StrChr(up, Nul, 1) # k))
  /\ UNCHANGED <<typed, stdin, pc, recvline, down, received>>
\* A server whose client has gone goes on until a write raises SIGPIPE.
ServerWrites ==
  /\ str # Reading /\ str' = Reading /\ pc # "killed" /\ down' = down \o Append(CString(str), Nul)
  /\ UNCHANGED <<typed, stdin, pc, recvline, up, received, pieces>>

\* At the end of the input fgets leaves the cleared buffer as it is.
ClientSends ==
  LET k == LineLength(stdin, SIZE)
      sendline == IF k <= Len(stdin) THEN SubSeq(stdin, 1, k) ELSE stdin
  IN /\ pc = "send" /\ pc' = "receive"
     /\ stdin' = From(stdin, Len(sendline) + 1) /\ up' = up \o Append(sendline, Nul)
     /\ UNCHANGED <<typed, str, recvline, down, received, pieces>>
ClientReceives(k) ==
  /\ pc = "receive" /\ k \in 1 .. Len(down) /\ k <= SIZE
  /\ pc' = "send" /\ recvline' = Buffer(down, k) /\ down' = From(down, k + 1)
  /\ received' = IF CString(recvline') = <<>> THEN received ELSE Append(received, CString(recvline'))
  /\ pieces' = (pieces \/ StrChr(down, Nul, 1) # k)
  /\ UNCHANGED <<typed, stdin, str, up>>
ClientKilled ==
  /\ pc # "killed" /\ pc' = "killed"
  /\ UNCHANGED <<typed, stdin, str, recvline, up, down, received, pieces>>

StringsNext ==
  \/ \E k \in 0 .. SIZE : ServerReads(k) \/ ClientReceives(k)
  \/ ServerWrites \/ ClientSends \/ ClientKilled

-----------------------------------------------------------------------------
(* As long as every read gets one string, the client receives its lines in *)
(* order.  However they are cut, strlen stays within the buffers: what     *)
(* fills one has a zero in it, which the length of a line ensures.         *)
LinesComeBack ==
  (\A i \in DOMAIN typed : Len(typed[i]) < SIZE) /\ ~pieces => IsPrefix(received, typed)
StrlenStays == \A buf \in {str, recvline} : buf # <<>> => StrChr(buf, Nul, 1) # 0
=============================================================================
