---------------------------- MODULE RequestLine ----------------------------
(***************************************************************************)
(* A line of a client of the proxy, character by character: the checks of  *)
(* host and port, which host_port_check.c tries out on a line of its own,  *)
(* and the words that strtok cuts out, in one thread.  Proxy, where a line *)
(* is its number of words, is about the threads.                           *)
(***************************************************************************)
EXTENDS CStrings, FiniteSets

CONSTANTS
  LocalHost,      \* "localhost"
  HostLength,     \* 15, the longest dotted address
  PortReach,      \* 21, how far port_checker looks
  Digits,
  Requests,       \* [host, gap, port, message] that clients send
  Lines           \* other lines

VARIABLES
  request,        \* what the client means, or Nothing
  line,           \* its line
  answer,         \* "none", "usage", "crash" or "relayed"
  parts           \* what is relayed: host, port, message
reqvars == <<request, line, answer, parts>>

Nothing == <<>>
NULL == <<"NULL">>
LineOf(r) == r.host \o Blanks(r.gap) \o r.port \o <<" ">> \o r.message \o <<"\n">>

-----------------------------------------------------------------------------
(* strtok(s, " ") from position i: where the token begins and ends.        *)
Token(s, i) ==
  LET first == SelectInSubSeq(s, i, Len(s), LAMBDA c : c # " ")
      blank == IF first = 0 THEN 0 ELSE StrChr(s, " ", first)
  IN [first |-> first, last |-> IF blank = 0 THEN Len(s) ELSE blank - 1]
Cut(s, token) == IF token.first = 0 THEN NULL ELSE SubSeq(s, token.first, token.last)
After(token) == token.last + 2
PortToken(s) == LET host == Token(s, 1) IN IF host.first = 0 THEN host ELSE Token(s, After(host))

get_host(s) == Cut(s, Token(s, 1))
get_port(s) == Cut(s, PortToken(s))
\* The rest of the line, further blanks included.
get_message(s) ==
  LET from == After(PortToken(s))
  IN IF get_port(s) = NULL \/ from > Len(s) THEN NULL ELSE From(s, from)

\* The first word, as far as it is looked at.
HostWord(buf) ==
  LET stop == SelectInSeq(buf, LAMBDA c : c \in {" ", "\n"})
      end == IF stop = 0 THEN Len(buf) ELSE stop - 1
  IN SubSeq(buf, 1, IF end < HostLength THEN end ELSE HostLength)
\* It is localhost or has three dots.
host_checker(buf) ==
  LET res == HostWord(buf)
      dots == {i \in DOMAIN res : res[i] = "."}
  IN IF buf # <<"\n">> /\ (res = LocalHost \/ Cardinality(dots) = 3) THEN 1 ELSE -1

\* The digits that follow the first blank.
GatheredPort(buf) ==
  LET blank == StrChr(buf, " ", 1)
      stop == SelectInSubSeq(buf, blank + 1, Len(buf), LAMBDA c : c \notin Digits)
      end == IF stop = 0 \/ stop > PortReach THEN IF Len(buf) < PortReach THEN Len(buf) ELSE PortReach ELSE stop - 1
  IN IF blank = 0 \/ blank >= PortReach THEN <<>> ELSE SubSeq(buf, blank + 1, end)
\* They are not asked for: res != NULL is true of an array.
port_checker(buf) ==
  IF buf # <<"\n">> /\ (GatheredPort(buf) # NULL \/ GatheredPort(buf) # <<>>) THEN 1 ELSE -1
\* What host_port_check.c prints of its line.
Results(buf) == <<host_checker(buf), port_checker(buf)>>

-----------------------------------------------------------------------------
RequestInit ==
  /\ \/ request \in Requests /\ line = LineOf(request)
     \/ request = Nothing /\ line \in Lines
  /\ answer = "none" /\ parts = <<>>

Rejected == line = <<"\n">> \/ -1 \in Range(Results(line))
Explain == answer = "none" /\ Rejected /\ answer' = "usage" /\ UNCHANGED <<request, line, parts>>
\* atoi and strlen of a word that is not there.
Crash ==
  /\ answer = "none" /\ ~Rejected /\ NULL \in {get_port(line), get_message(line)}
  /\ answer' = "crash" /\ UNCHANGED <<request, line, parts>>
Relay ==
  /\ answer = "none" /\ ~Rejected /\ NULL \notin {get_port(line), get_message(line)}
  /\ answer' = "relayed" /\ parts' = <<get_host(line), get_port(line), get_message(line)>>
  /\ UNCHANGED <<request, line>>

RequestNext == Explain \/ Crash \/ Relay
RequestSpec == RequestInit /\ [][RequestNext]_reqvars

-----------------------------------------------------------------------------
(* A request "<host> <port> <message>" is relayed with its three parts,    *)
(* however far they are apart, the message with its blanks; and whatever   *)
(* the line is, the parts that are relayed make it up, so that no text of  *)
(* the client is lost or doubled.                                          *)
RequestsAsTyped ==
  /\ request # Nothing /\ answer # "none" =>
       parts = <<request.host, request.port, Append(request.message, "\n")>>
  /\ answer = "relayed" =>
       \E gap \in 1 .. Len(line) : line = parts[1] \o Blanks(gap) \o parts[2] \o <<" ">> \o parts[3]
=============================================================================
