----------------------------- MODULE Allocator -----------------------------
(***************************************************************************)
(* What mdriver.c demands of an allocator (add_range and eval_mm_valid):   *)
(* every payload lies in the heap, is aligned and overlaps no payload in   *)
(* use; a payload is given back once; nothing is in use when a trace ends. *)
(***************************************************************************)
EXTENDS Naturals

CONSTANTS MaxHeap, Requests

VARIABLES live,     \* payloads in use, [lo |-> unit of 8 bytes, bytes |-> size]
          done      \* mm_exit has returned

Last(x) == x.lo + (x.bytes - 1) \div 8
Overlap(x, y) == x.lo <= Last(y) /\ y.lo <= Last(x)

Init == live = {} /\ done = FALSE

Alloc(x) ==
  /\ x.lo >= 1 /\ Last(x) <= MaxHeap
  /\ \A y \in live : ~Overlap(x, y)
  /\ ~done /\ live' = live \cup {x} /\ UNCHANGED done

Free(x) == ~done /\ x \in live /\ live' = live \ {x} /\ UNCHANGED done

End == ~done /\ live = {} /\ done' = TRUE /\ UNCHANGED live

Begin == done /\ done' = FALSE /\ UNCHANGED live

Next == \/ \E lo \in 1 .. MaxHeap, r \in Requests : Alloc([lo |-> lo, bytes |-> r])
        \/ \E x \in live : Free(x)
        \/ End \/ Begin
Spec == Init /\ [][Next]_<<live, done>>

-----------------------------------------------------------------------------
(* What the demands amount to: no two payloads in use share a byte, and    *)
(* all lie in the heap.                                                    *)
Payload == [lo : 1 .. MaxHeap, bytes : Requests]
Disjoint == /\ live \subseteq Payload /\ done \in BOOLEAN
            /\ \A x \in live : Last(x) <= MaxHeap
            /\ \A x, y \in live : x # y => ~Overlap(x, y)
            /\ done => live = {}
=============================================================================
