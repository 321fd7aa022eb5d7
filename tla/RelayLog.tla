------------------------------ MODULE RelayLog ------------------------------
(***************************************************************************)
(* What the proxy's log promises: answers are relayed one at a time, each  *)
(* is written to the log as one entry before its client can see it, and    *)
(* the next entry is written only when the previous answer has been dealt  *)
(* with (delivered, or dropped because its client has gone).               *)
(***************************************************************************)
EXTENDS Sequences

CONSTANTS Clients, Texts,
          Usage      \* the answer to a line that is no request; not logged

VARIABLES log,       \* entries of the log file
          out,       \* out[c]: answers client c was sent
          due        \* the entry whose answer is still due, if any

Entry == [client : Clients, text : Texts]
NothingDue == [client |-> "nobody", text |-> "nothing"]

RLInit == log = <<>> /\ out = [c \in Clients |-> <<>>] /\ due = NothingDue

Record ==
  /\ due = NothingDue
  /\ \E e \in Entry : log' = Append(log, e) /\ due' = e
  /\ UNCHANGED out

Deliver ==
  /\ due # NothingDue
  /\ out' = [out EXCEPT ![due.client] = Append(@, due.text)]
  /\ due' = NothingDue
  /\ UNCHANGED log

Drop == due # NothingDue /\ due' = NothingDue /\ UNCHANGED <<log, out>>

Explain ==
  /\ \E c \in Clients : out' = [out EXCEPT ![c] = Append(@, Usage)]
  /\ UNCHANGED <<log, due>>

RLNext == Record \/ Deliver \/ Drop \/ Explain

RLSpec == RLInit /\ [][RLNext]_<<log, out, due>>
=============================================================================
