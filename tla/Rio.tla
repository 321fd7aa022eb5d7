-------------------------------- MODULE Rio --------------------------------
(***************************************************************************)
(* The buffered readers of Proxy_Lab/proxylab/csapp.c, rio_readlineb and   *)
(* rio_readnb, on one descriptor, with any sequence of calls.  read()      *)
(* hands out as many bytes as it likes, is interrupted by signals, or      *)
(* fails; it returns 0 when the peer has closed and all has been read.     *)
(* stream and given are history: what the peer sends, and what has been    *)
(* stored in buffers of callers, in order.                                 *)
(***************************************************************************)
EXTENDS Integers, Sequences

CONSTANTS
  Bytes, Newline,
  RIO_BUFSIZE,     \* size of the internal buffer
  Sizes,           \* sizes that callers pass
  MaxStream        \* bound: length of the stream
ASSUME RioAssumption ==
  /\ RIO_BUFSIZE \in Nat \ {0} /\ Sizes \subseteq Nat \ {0, 1}
  /\ Newline \in Bytes /\ MaxStream \in Nat

VARIABLES
  stream, offset,                 \* the peer's bytes; how many read() has handed out
  rio_buf, rio_bufptr, rio_cnt,   \* the internal buffer, its next byte, unread bytes
  given,
  call,                           \* the call in progress: [op, n], or Idle
  from,                           \* how much was given before it
  ret                             \* what the last call returned
rio_fd == <<stream, offset>>
rio    == <<rio_buf, rio_bufptr, rio_cnt>>
rio_vars == <<rio_fd, rio, given, call, from, ret>>

Idle == [op |-> "none", n |-> 0]
Calls == [op : {"line", "bytes"}, n : Sizes]
Index == 1 .. RIO_BUFSIZE

\* rio_readinitb; the buffer holds anything.
RioInit ==
  /\ stream \in UNION {[1 .. m -> Bytes] : m \in 0 .. MaxStream} /\ offset = 0
  /\ \E b \in Bytes : rio_buf = [i \in Index |-> b]
  /\ rio_bufptr = 1 /\ rio_cnt = 0
  /\ given = <<>> /\ call = Idle /\ from = 0 /\ ret = 0

Stored == Len(given) - from
EndCall(value) == call' = Idle /\ ret' = value /\ UNCHANGED from

\* rio_readlineb(maxlen) and rio_readnb(n).
Call(c) ==
  /\ call = Idle /\ call' = c /\ from' = Len(given)
  /\ UNCHANGED <<rio_fd, rio, given, ret>>

-----------------------------------------------------------------------------
(* rio_read, called with more to read.  An empty buffer is filled.         *)
Empty == call # Idle /\ rio_cnt <= 0

\* Mutant: the pointer stays where it is.
ReadSomeBehind(k) ==
  /\ Empty /\ k <= Len(stream) - offset
  /\ rio_buf' = [i \in Index |-> IF i <= k THEN stream[offset + i] ELSE rio_buf[i]]
  /\ rio_cnt' = k /\ offset' = offset + k
  /\ UNCHANGED <<stream, rio_bufptr, given, call, from, ret>>
ReadSome(k) ==
  /\ Empty /\ k <= Len(stream) - offset
  /\ rio_buf' = [i \in Index |-> IF i <= k THEN stream[offset + i] ELSE rio_buf[i]]
  /\ rio_cnt' = k /\ rio_bufptr' = 1 /\ offset' = offset + k
  /\ UNCHANGED <<stream, given, call, from, ret>>

ReadInterrupted ==
  /\ Empty /\ rio_cnt' = -1
  /\ UNCHANGED <<rio_fd, rio_buf, rio_bufptr, given, call, from, ret>>

\* The bytes that the call has stored already are lost to its caller.
ReadFails ==
  /\ Empty /\ rio_cnt' = -1 /\ EndCall(-1)
  /\ UNCHANGED <<rio_fd, rio_buf, rio_bufptr, given>>

\* Mutant: rio_readnb goes on until it has n bytes.
ReadAtEofAgain ==
  /\ Empty /\ offset = Len(stream) /\ rio_cnt' = 0
  /\ IF call.op = "bytes" /\ Stored > 0 THEN UNCHANGED <<call, from, ret>> ELSE EndCall(Stored)
  /\ UNCHANGED <<rio_fd, rio_buf, rio_bufptr, given>>
\* At the end of the stream a line that was begun is returned.  Its length
\* n is that of the loop, which is one ahead of the bytes stored.
ReadAtEof ==
  /\ Empty /\ offset = Len(stream) /\ rio_cnt' = 0
  /\ EndCall(IF call.op = "line" /\ Stored > 0 THEN Stored + 1 ELSE Stored)
  /\ UNCHANGED <<rio_fd, rio_buf, rio_bufptr, given>>

-----------------------------------------------------------------------------
(* A buffer that is not empty is copied, as far as it goes.                *)
Take(k) ==
  /\ given' = given \o SubSeq(rio_buf, rio_bufptr, rio_bufptr + k - 1)
  /\ rio_bufptr' = rio_bufptr + k /\ rio_cnt' = rio_cnt - k
  /\ UNCHANGED <<rio_fd, rio_buf>>

\* rio_readlineb takes one byte at a time.
\* Mutant: no room is left for the zero.
CopyCharFull ==
  LET c == rio_buf[rio_bufptr]
  IN /\ call.op = "line" /\ rio_cnt > 0 /\ Take(1)
     /\ IF c = Newline THEN EndCall(Stored + 1)
        ELSE IF Stored + 1 = call.n THEN EndCall(call.n)
        ELSE UNCHANGED <<call, from, ret>>
CopyChar ==
  LET c == rio_buf[rio_bufptr]
  IN /\ call.op = "line" /\ rio_cnt > 0 /\ Take(1)
     /\ IF c = Newline THEN EndCall(Stored + 1)
        ELSE IF Stored + 2 = call.n THEN EndCall(call.n)
        ELSE UNCHANGED <<call, from, ret>>

\* Mutant: as many as the caller wants.
CopyBytesWanted ==
  LET k == call.n - Stored
  IN /\ call.op = "bytes" /\ rio_cnt > 0 /\ Take(k) /\ EndCall(call.n)
CopyBytes ==
  LET wanted == call.n - Stored
      k == IF rio_cnt < wanted THEN rio_cnt ELSE wanted
  IN /\ call.op = "bytes" /\ rio_cnt > 0 /\ Take(k)
     /\ IF k = wanted THEN EndCall(call.n) ELSE UNCHANGED <<call, from, ret>>

RioNext == \/ \E c \in Calls : Call(c)
        \/ \E k \in Index : ReadSome(k)
        \/ ReadInterrupted \/ ReadFails \/ ReadAtEof \/ CopyChar \/ CopyBytes
RioSpec == RioInit /\ [][RioNext]_rio_vars

\* A signal interrupts read() only now and then; the peer sends or closes.
Answers == (\E k \in Index : ReadSome(k)) \/ ReadAtEof \/ ReadFails
RioFairSpec == RioSpec /\ WF_rio_vars(Answers) /\ WF_rio_vars(CopyChar \/ CopyBytes)

-----------------------------------------------------------------------------
(* The state is well formed: the buffer's pointer and count stay in it.    *)
RioTypeOK ==
  /\ stream \in Seq(Bytes) /\ offset \in 0 .. Len(stream)
  /\ rio_buf \in [Index -> Bytes]
  /\ rio_bufptr \in 1 .. RIO_BUFSIZE + 1 /\ rio_cnt \in -1 .. RIO_BUFSIZE
  /\ rio_bufptr + rio_cnt <= RIO_BUFSIZE + 1
  /\ given \in Seq(Bytes) /\ from \in 0 .. Len(given)
  /\ call \in Calls \cup {Idle} /\ ret \in Int

(* However read() cuts the stream into pieces, and whatever calls take     *)
(* from the buffer, what has been given is the beginning of the stream and *)
(* what is in the buffer is what follows: no byte is lost, doubled or      *)
(* overtaken by another.                                                   *)
Unread == IF rio_cnt > 0 THEN rio_cnt ELSE 0
NothingLost ==
  /\ Len(given) + Unread = offset
  /\ \A i \in 1 .. Len(given) : given[i] = stream[i]
  /\ \A i \in 0 .. Unread - 1 : rio_buf[rio_bufptr + i] = stream[Len(given) + i + 1]

(* Every call that succeeds takes a line or n bytes as if in one step,     *)
(* whatever was buffered and however often read() fell short.              *)
BS == INSTANCE ByteStream WITH at <- IF call = Idle THEN Len(given) ELSE from
ImplementsByteStream == BS!BSSpec

(* Every call returns.                                                     *)
Returns == call # Idle ~> call = Idle
=============================================================================
