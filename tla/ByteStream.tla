----------------------------- MODULE ByteStream -----------------------------
(***************************************************************************)
(* What the readers of the Rio package in Proxy_Lab/proxylab/csapp.c       *)
(* promise: calls take the bytes of a stream one after another, each at    *)
(* once, without regard to how the kernel hands them out.  A line ends     *)
(* with its newline, with the room for it or with the stream.              *)
(***************************************************************************)
EXTENDS Integers, Sequences

CONSTANTS
  Newline, Sizes,  \* the byte; the sizes that callers pass
  Idle             \* no call
VARIABLES
  stream,  \* what the peer sends until it closes
  at,      \* how much of it has been taken
  call,    \* the call in progress: [op, n], or Idle
  ret      \* what the last call returned
bsvars == <<stream, at, call, ret>>

\* The room for a line leaves a byte for the zero behind it.
Room(c) == IF c.op = "line" THEN c.n - 1 ELSE c.n

\* A call may take the bytes behind i up to j: it has room for them, and a
\* line does not go on behind its newline.
Within(c, i, j) ==
  /\ j - i <= Room(c)
  /\ c.op = "line" => \A k \in i + 1 .. j - 1 : stream[k] # Newline

\* It has taken them all when it is full, or the stream or the line ends.
EndsAt(c, i, j) ==
  /\ Within(c, i, j)
  /\ \/ j = Len(stream) \/ j - i = Room(c)
     \/ c.op = "line" /\ j > i /\ stream[j] = Newline

\* A line that is cut off counts the zero behind it, too.
Returned(c, i, j) ==
  IF c.op = "bytes" \/ i = j \/ stream[j] = Newline THEN j - i ELSE j - i + 1

BSInit == at = 0 /\ call = Idle /\ ret = 0

Begin(c) == call = Idle /\ call' = c /\ UNCHANGED <<stream, at, ret>>

Succeed ==
  /\ call # Idle /\ call' = Idle
  /\ \E j \in at .. Len(stream) :
       EndsAt(call, at, j) /\ at' = j /\ ret' = Returned(call, at, j)
  /\ UNCHANGED stream

\* A call that fails loses what it has taken.
Fail ==
  /\ call # Idle /\ call' = Idle
  /\ \E j \in at .. Len(stream) : Within(call, at, j) /\ at' = j
  /\ ret' = -1 /\ UNCHANGED stream

BSNext == (\E o \in {"line", "bytes"}, n \in Sizes : Begin([op |-> o, n |-> n])) \/ Succeed \/ Fail
BSSpec == BSInit /\ [][BSNext]_bsvars
=============================================================================
