----------------------------- MODULE HeapProofs -----------------------------
(***************************************************************************)
(* Lemmas about Heap, for every size of the heap: what the operators that  *)
(* both allocators are built from do to a heap that is tiled by blocks.    *)
(*                                                                         *)
(* Blocks follows the tags by recursion.  The lemmas speak of a set B of   *)
(* addresses instead, and of the set A of those that are allocated         *)
(* (Fits); BlocksAreB shows once, by the least-element principle, that B   *)
(* is what Blocks finds.                                                   *)
(***************************************************************************)
EXTENDS Heap, WellFoundedInduction, TLAPS

LEMMA LessThanOnNat ==
  OpToRel(<, Nat) = {ss \in Nat \X Nat : ss[1] < ss[2]}
BY DEF OpToRel

(* Every non-empty set of naturals has a least element. *)
LEMMA LeastElement ==
  ASSUME NEW T \in SUBSET Nat, T # {}
  PROVE  \E x \in T : \A y \in T : x <= y
<1> DEFINE R == {ss \in Nat \X Nat : ss[1] < ss[2]}
<1>1. IsWellFoundedOn(R, Nat)
  BY LessThanOnNat, NatLessThanWellFounded
<1>2. T \subseteq Nat
  OBVIOUS
<1>3. \E x \in T : \A y \in T : ~ (<<y, x>> \in R)
  <2> HIDE DEF R
  <2> QED BY <1>1, <1>2, WFMin
<1>4. PICK x \in T : \A y \in T : ~ (<<y, x>> \in R)
  BY <1>3
<1>5. ASSUME NEW y \in T PROVE x <= y
  <2>1. x \in Nat /\ y \in Nat
    BY <1>2
  <2>2. ~ (<<y, x>> \in R)
    BY <1>4
  <2> QED BY <2>1, <2>2
<1> QED BY <1>5

(* A request of at least a byte takes a block of at least three units,     *)
(* whose payload has room for it.                                          *)
LEMMA UnitsRoom ==
  ASSUME NEW r \in Nat \ {0}
  PROVE  Units(r) \in Nat /\ Units(r) >= 3 /\ r <= 8 * (Units(r) - 2)
BY DEF Units

-----------------------------------------------------------------------------
(* The two bits of a tag: whether the block at p is allocated, and what it *)
(* tells of the next, at q.                                                *)
Bits(A, T, p, q) == (IF p \in A THEN 1 ELSE 0) + (IF q \in T THEN 2 ELSE 0)

LEMMA BitsRead ==
  ASSUME NEW A, NEW T, NEW p, NEW q
  PROVE  /\ Bits(A, T, p, q) \in 0 .. 3
         /\ Bits(A, T, p, q) % 2 = 1 <=> p \in A
         /\ Bits(A, T, p, q) \div 2 = 1 <=> q \in T
BY DEF Bits

\* A block is told of its successor.
LEMMA BitsTold ==
  ASSUME NEW A, NEW T, NEW p, NEW q, NEW C, NEW bit \in {0, 1}, bit = 1 <=> q \in C
  PROVE  (Bits(A, T, p, q) % 2) + 2 * bit = Bits(A, C, p, q)
BY DEF Bits

(* Blocks at B tile start .. end - 1; those at A are allocated, and T are  *)
(* those that the block before is told to be.  Header and footer of a      *)
(* block agree.                                                            *)
Fits(tag, start, end, B, A, T) ==
  /\ B \subseteq start .. end - 1 /\ A \subseteq B /\ end \notin T
  /\ start # end => start \in B
  /\ \A p \in B :
       /\ tag[p].size >= 3 /\ p + tag[p].size \in B \cup {end}
       /\ tag[p].bits = Bits(A, T, p, p + tag[p].size)
       /\ tag[p + tag[p].size - 1] = tag[p]
  /\ \A p, q \in B : p < q => p + tag[p].size <= q

(* A heap has addresses start .. end in 1 .. MaxHeap + 1. *)
Span(tag, start, end) ==
  /\ MaxHeap \in Nat /\ tag \in [Unit -> Tag]
  /\ start \in Nat \ {0} /\ end \in start .. MaxHeap + 1

(* Where the blocks of such a heap are. *)
Laid(tag, start, end, B) ==
  \A p \in B : /\ p \in Nat /\ p \in Unit /\ start <= p /\ p < end
               /\ p + 1 \in Unit /\ p + 2 \in Unit
               /\ tag[p] \in Tag /\ tag[p].size \in Nat /\ tag[p].size >= 3
               /\ p + tag[p].size <= end /\ p + tag[p].size - 1 \in Unit
               /\ p + tag[p].size \in B \cup {end}
               /\ \A q \in B : p < q => p + tag[p].size <= q

LEMMA LaidOut ==
  ASSUME NEW tag, NEW start, NEW end, NEW B, NEW A, NEW T,
         Span(tag, start, end), Fits(tag, start, end, B, A, T)
  PROVE  Laid(tag, start, end, B)
<1> SUFFICES ASSUME NEW p \in B
    PROVE  /\ p \in Nat /\ p \in Unit /\ start <= p /\ p < end
           /\ p + 1 \in Unit /\ p + 2 \in Unit
           /\ tag[p] \in Tag /\ tag[p].size \in Nat /\ tag[p].size >= 3
           /\ p + tag[p].size <= end /\ p + tag[p].size - 1 \in Unit
           /\ p + tag[p].size \in B \cup {end}
           /\ \A q \in B : p < q => p + tag[p].size <= q
  BY DEF Laid
<1>1. p \in start .. end - 1 /\ start \in Nat \ {0} /\ end \in start .. MaxHeap + 1 /\ MaxHeap \in Nat
  BY DEF Span, Fits
<1>2. p \in Nat /\ p \in Unit /\ start <= p /\ p < end
  BY <1>1 DEF Unit
<1>3. tag[p] \in Tag
  BY <1>2 DEF Span
<1>4. tag[p].size \in Nat /\ tag[p].size >= 3
  BY <1>3 DEF Tag, Fits
<1>5. p + tag[p].size \in B \cup {end}
  BY DEF Fits
<1>6. p + tag[p].size <= end
  BY <1>1, <1>2, <1>4, <1>5 DEF Fits
<1>7. p + tag[p].size - 1 \in Unit /\ p + 1 \in Unit /\ p + 2 \in Unit
  BY <1>1, <1>2, <1>4, <1>6 DEF Unit
<1>8. \A q \in B : p < q => p + tag[p].size <= q
  BY DEF Fits
<1> QED BY <1>2, <1>3, <1>4, <1>5, <1>6, <1>7, <1>8

(* The block that ends where another begins. *)
LEMMA BlockBefore ==
  ASSUME NEW tag, NEW start, NEW end, NEW B, NEW A, NEW T,
         Span(tag, start, end), Fits(tag, start, end, B, A, T), NEW p \in B, p # start
  PROVE  \E q \in B : q + tag[q].size = p
<1> DEFINE D == {n \in Nat : \E q \in B : q < p /\ n = p - q}
<1>0. Laid(tag, start, end, B)
  BY LaidOut
<1>1. p \in Nat /\ start \in Nat /\ start < p /\ start \in B
  BY DEF Span, Fits
<1>2. D \in SUBSET Nat /\ p - start \in D
  BY <1>1
<1>3. PICK n \in D : \A k \in D : n <= k
  <2> HIDE DEF D
  <2> QED BY <1>2, LeastElement
<1>4. PICK q \in B : q < p /\ n = p - q
  BY <1>3
<1> DEFINE r == q + tag[q].size
<1>5. q \in Nat /\ q < r /\ r \in Nat /\ r <= p /\ r \in B
  <2>1. q \in Nat /\ tag[q].size \in Nat /\ tag[q].size >= 3 /\ p < end /\ r <= p /\ r \in B \cup {end}
    BY <1>0, <1>4 DEF Laid
  <2>2. end \in Nat
    BY DEF Span
  <2> QED BY <1>1, <2>1, <2>2
<1>6. r = p
  <2> SUFFICES ASSUME r < p PROVE FALSE
    BY <1>1, <1>5
  <2>1. p - r \in D
    BY <1>1, <1>5
  <2> QED BY <1>1, <1>3, <1>4, <1>5, <2>1
<1> QED BY <1>6

-----------------------------------------------------------------------------
(* What the recursion of Blocks computes.  At each address of 1 .. end its *)
(* value depends on a larger one, so there is a function that satisfies    *)
(* the equation; a tiling determines it at the blocks.                     *)
Following(h, f, p) ==
  IF p = h.end THEN {}
  ELSE IF h.tag[p].size = 0 \/ p + h.tag[p].size > h.end THEN {Astray}
  ELSE {p} \cup f[p + h.tag[p].size]

LEMMA FollowingExists ==
  ASSUME NEW h, h \in HeapState, MaxHeap \in Nat
  PROVE  \E f : f = [p \in 1 .. h.end |-> Following(h, f, p)]
<1> DEFINE Dom(n) == {p \in 1 .. h.end : h.end - p <= n}
           Solves(n) == \E f : f = [p \in Dom(n) |-> Following(h, f, p)]
           Bad == {n \in Nat : ~ Solves(n)}
<1>1. h.end \in 1 .. MaxHeap + 1 /\ h.tag \in [Unit -> Tag]
  BY DEF HeapState
<1>2. Bad = {}
  <2> SUFFICES ASSUME Bad # {} PROVE FALSE
    OBVIOUS
  <2>1. PICK n \in Bad : \A k \in Bad : n <= k
    <3>1. Bad \in SUBSET Nat
      OBVIOUS
    <3> HIDE DEF Bad
    <3> QED BY <3>1, LeastElement
  <2>2. CASE n = 0
    <3>1. Dom(0) = {h.end}
      BY <1>1
    <3>2. [p \in Dom(0) |-> {}] = [p \in Dom(0) |-> Following(h, [q \in Dom(0) |-> {}], p)]
      BY <3>1 DEF Following
    <3>3. Solves(0)
      BY <3>2
    <3> QED BY <2>1, <2>2, <3>3
  <2>3. CASE n # 0
    <3>1. n \in Nat /\ n - 1 \in Nat /\ n - 1 \notin Bad
      <4>1. n \in Nat /\ n - 1 \in Nat /\ ~ (n <= n - 1)
        BY <2>3
      <4> HIDE DEF Bad
      <4> QED BY <2>1, <4>1
    <3>2. PICK f : f = [p \in Dom(n - 1) |-> Following(h, f, p)]
      BY <3>1
    <3> DEFINE g == [p \in Dom(n) |-> Following(h, f, p)]
    <3>3. Dom(n - 1) \subseteq Dom(n)
      BY <1>1, <3>1
    <3>4. ASSUME NEW p \in Dom(n) PROVE Following(h, g, p) = Following(h, f, p)
      <4>1. CASE p = h.end
        BY <4>1 DEF Following
      <4>2. CASE p # h.end
        <5>1. p \in Unit /\ h.tag[p].size \in Nat /\ p \in Nat
          BY <1>1, <3>4, <4>2 DEF Unit, Tag
        <5>2. CASE h.tag[p].size = 0 \/ p + h.tag[p].size > h.end
          BY <4>2, <5>2 DEF Following
        <5>3. CASE ~ (h.tag[p].size = 0 \/ p + h.tag[p].size > h.end)
          <6>1. p + h.tag[p].size \in Dom(n - 1)
            BY <1>1, <3>1, <3>4, <5>1, <5>3
          <6>2. g[p + h.tag[p].size] = f[p + h.tag[p].size]
            <7> DEFINE q == p + h.tag[p].size
            <7>1. q \in Dom(n) /\ q \in Dom(n - 1)
              BY <3>3, <6>1
            <7> HIDE DEF q, Dom
            <7>2. g[q] = Following(h, f, q)
              BY <7>1
            <7>3. f[q] = Following(h, f, q)
              BY <3>2, <7>1
            <7> QED BY <7>2, <7>3 DEF q
          <6> HIDE DEF g
          <6> QED BY <6>2 DEF Following
        <5> QED BY <5>2, <5>3
      <4> QED BY <4>1, <4>2
    <3>5. g = [p \in Dom(n) |-> Following(h, g, p)]
      BY <3>4
    <3>6. Solves(n)
      BY <3>5
    <3> QED BY <2>1, <3>6
  <2> QED BY <2>2, <2>3
<1>3. h.end \in Nat /\ Solves(h.end)
  <2>1. h.end \in Nat
    BY <1>1
  <2> HIDE DEF Solves
  <2> QED BY <1>2, <2>1
<1>4. Dom(h.end) = 1 .. h.end
  BY <1>1
<1> HIDE DEF Dom
<1> QED BY <1>3, <1>4

LEMMA BlocksSolve ==
  ASSUME NEW h, h \in HeapState, MaxHeap \in Nat
  PROVE  \E f : /\ Blocks(h) = f[h.start]
                /\ \A p \in 1 .. h.end : f[p] = Following(h, f, p)
<1> DEFINE G == CHOOSE f : f = [p \in 1 .. h.end |-> Following(h, f, p)]
<1>1. G = [p \in 1 .. h.end |-> Following(h, G, p)]
  BY FollowingExists
<1>2. Blocks(h) = G[h.start]
  BY DEF Blocks, Following
<1> HIDE DEF G
<1>3. \A p \in 1 .. h.end : G[p] = Following(h, G, p)
  BY <1>1
<1> QED BY <1>2, <1>3

(* The blocks that the tags lead to are those of the tiling. *)
LEMMA BlocksAreB ==
  ASSUME NEW h, h \in HeapState, MaxHeap \in Nat, h.start <= h.end,
         NEW B, NEW A, NEW T, Fits(h.tag, h.start, h.end, B, A, T)
  PROVE  Blocks(h) = B
<1>1. PICK f : /\ Blocks(h) = f[h.start]
               /\ \A p \in 1 .. h.end : f[p] = Following(h, f, p)
  BY BlocksSolve
<1>t. Laid(h.tag, h.start, h.end, B)
  <2>1. Span(h.tag, h.start, h.end)
    BY DEF Span, HeapState
  <2> QED BY <2>1, LaidOut
<1> DEFINE From(p) == {q \in B : p <= q}
           Bad == {n \in Nat : \E p \in B : n = h.end - p /\ f[p] # From(p)}
<1>3. h.end \in Nat \ {0} /\ h.start \in Nat \ {0} /\ f[h.end] = {}
  <2>1. h.end \in Nat \ {0} /\ h.start \in Nat \ {0}
    BY DEF HeapState
  <2>2. f[h.end] = Following(h, f, h.end)
    BY <1>1, <2>1
  <2> QED BY <2>1, <2>2 DEF Following
<1>4. Bad = {}
  <2> SUFFICES ASSUME Bad # {} PROVE FALSE
    OBVIOUS
  <2>1. PICK n \in Bad : \A k \in Bad : n <= k
    <3>1. Bad \in SUBSET Nat
      OBVIOUS
    <3> HIDE DEF Bad
    <3> QED BY <3>1, LeastElement
  <2>2. PICK p \in B : n = h.end - p /\ f[p] # From(p)
    BY <2>1
  <2> DEFINE q == p + h.tag[p].size
  <2>3. /\ p \in Nat /\ p \in 1 .. h.end /\ p # h.end /\ h.tag[p].size \in Nat
        /\ h.tag[p].size >= 3 /\ q <= h.end /\ q \in B \cup {h.end}
    <3>1. p \in Nat /\ h.start <= p /\ p < h.end
      BY <1>t DEF Laid
    <3>2. h.tag[p].size \in Nat /\ h.tag[p].size >= 3 /\ q <= h.end /\ q \in B \cup {h.end}
      BY <1>t DEF Laid
    <3> QED BY <1>3, <3>1, <3>2
  <2>4. f[p] = {p} \cup f[q]
    <3>1. f[p] = Following(h, f, p)
      BY <1>1, <2>3
    <3>2. ~ (h.tag[p].size = 0 \/ p + h.tag[p].size > h.end)
      BY <1>3, <2>3
    <3> QED BY <2>3, <3>1, <3>2 DEF Following
  <2>5. f[q] = From(q)
    <3>1. CASE q = h.end
      <4>1. \A r \in B : ~ (h.end <= r)
        BY <1>3, <1>t DEF Laid
      <4>2. From(h.end) = {}
        BY <4>1
      <4> QED BY <1>3, <3>1, <4>2
    <3>2. CASE q \in B
      <4>1. h.end - q \notin Bad
        <5>1. ~ (n <= h.end - q) /\ h.end - q \in Nat
          BY <1>3, <2>2, <2>3
        <5> HIDE DEF Bad
        <5> QED BY <2>1, <5>1
      <4>2. h.end - q \in Nat
        BY <1>3, <2>3
      <4> QED BY <3>2, <4>1, <4>2
    <3> QED BY <2>3, <3>1, <3>2
  <2>6. From(p) = {p} \cup From(q)
    <3>1. ASSUME NEW r \in B PROVE p <= r <=> r = p \/ q <= r
      <4>1. r \in Nat /\ (p < r => q <= r)
        BY <1>t DEF Laid
      <4> QED BY <2>3, <4>1
    <3> QED BY <3>1
  <2> QED BY <2>2, <2>4, <2>5, <2>6
<1>5. \A p \in B : f[p] = From(p)
  <2> SUFFICES ASSUME NEW p \in B, f[p] # From(p) PROVE FALSE
    OBVIOUS
  <2>1. h.end - p \in Nat
    BY <1>3, <1>t DEF Laid
  <2>2. h.end - p \in Bad
    BY <2>1
  <2> QED BY <1>4, <2>2
<1>6. CASE h.start = h.end
  <2>1. B = {}
    BY <1>3, <1>6 DEF Fits
  <2> QED BY <1>1, <1>3, <1>6, <2>1
<1>7. CASE h.start # h.end
  <2>1. h.start \in B
    BY <1>7 DEF Fits
  <2>2. From(h.start) = B
    BY <1>3, <1>t DEF Laid
  <2> QED BY <1>1, <1>5, <2>1, <2>2
<1> QED BY <1>6, <1>7

(* A heap that fits is tiled, and its free blocks are those outside A. *)
LEMMA FitsTiled ==
  ASSUME NEW h, h \in HeapState, MaxHeap \in Nat, h.start <= h.end,
         NEW B, NEW A, Fits(h.tag, h.start, h.end, B, A, A)
  PROVE  /\ Astray \notin Blocks(h)
         /\ \A p \in B : IsAllocated(h, p) <=> p \in A
         /\ h.end = h.brk => Tiled(h)
<1>1. Span(h.tag, h.start, h.end) /\ Blocks(h) = B
  <2>1. Span(h.tag, h.start, h.end)
    BY DEF Span, HeapState
  <2> QED BY <2>1, BlocksAreB
<1>t. Laid(h.tag, h.start, h.end, B)
  BY <1>1, LaidOut
<1>2. Astray \notin B
  BY <1>t DEF Laid, Astray, Unit
<1>3. ASSUME NEW p \in B PROVE IsAllocated(h, p) <=> p \in A
  BY BitsRead DEF IsAllocated, Fits
<1>4. ASSUME NEW p \in B
      PROVE  LET q == p + h.tag[p].size
             IN /\ h.tag[p].size >= 3 /\ h.tag[q - 1] = h.tag[p]
                /\ (h.tag[p].bits \div 2 = 1) <=> q # h.end /\ IsAllocated(h, q)
  <2> DEFINE q == p + h.tag[p].size
  <2>1. /\ h.tag[p].size >= 3 /\ h.tag[q - 1] = h.tag[p] /\ q \in B \cup {h.end}
        /\ h.tag[p].bits = Bits(A, A, p, q) /\ h.end \notin A
    <3>1. h.end \notin A
      BY DEF Fits
    <3>2. h.tag[p].size >= 3 /\ q \in B \cup {h.end}
      BY DEF Fits
    <3>3. h.tag[p].bits = Bits(A, A, p, q)
      BY DEF Fits
    <3>4. h.tag[q - 1] = h.tag[p]
      <4>1. h.tag[p + h.tag[p].size - 1] = h.tag[p]
        BY DEF Fits
      <4>2. p \in Nat /\ h.tag[p].size \in Nat
        BY <1>t DEF Laid
      <4>3. p + h.tag[p].size - 1 = q - 1
        BY <4>2
      <4> QED BY <4>1, <4>3
    <3> QED BY <3>1, <3>2, <3>3, <3>4
  <2>2. h.tag[p].bits \div 2 = 1 <=> q \in A
    BY <2>1, BitsRead
  <2> QED BY <1>3, <2>1, <2>2
<1> QED BY <1>1, <1>2, <1>3, <1>4 DEF Tiled

-----------------------------------------------------------------------------
(* The operators on tags, address by address. *)
LEMMA SetTagsAt ==
  ASSUME NEW tag, NEW p, NEW n, NEW b, NEW f,
         tag \in [Unit -> Tag], p \in Unit, n \in 0 .. MaxHeap, b \in 0 .. 3, f \in Unit, f = p + n - 1
  PROVE  /\ SetTags(tag, p, n, b) \in [Unit -> Tag]
         /\ \A u \in Unit : SetTags(tag, p, n, b)[u] =
              IF u = p \/ u = f THEN [size |-> n, bits |-> b] ELSE tag[u]
<1>1. [size |-> n, bits |-> b] \in Tag
  BY DEF Tag
<1> QED BY <1>1 DEF SetTags

LEMMA TellPrevAt ==
  ASSUME NEW tag \in [Unit -> Tag], NEW p \in Nat, NEW q \in Nat, NEW bit \in {0, 1},
         q \in Unit, p - 1 \in Unit, p - tag[p - 1].size = q, q < p - 1
  PROVE  /\ TellPrev(tag, p, bit) \in [Unit -> Tag]
         /\ \A u \in Unit : TellPrev(tag, p, bit)[u] =
              IF u = q \/ u = p - 1
              THEN [size |-> tag[u].size, bits |-> (tag[u].bits % 2) + 2 * bit] ELSE tag[u]
<1> DEFINE f == p - 1
           t == [tag EXCEPT ![f].bits = (@ % 2) + 2 * bit]
<1>1. TellPrev(tag, p, bit) = [t EXCEPT ![q].bits = (tag[q].bits % 2) + 2 * bit]
  BY DEF TellPrev
<1>2. f \in Unit /\ f # q
  BY DEF Unit
<1> HIDE DEF f
<1>3. \A u \in Unit : /\ tag[u].bits \in 0 .. 3 /\ tag[u].size \in 0 .. MaxHeap
                      /\ (tag[u].bits % 2) + 2 * bit \in 0 .. 3
  BY DEF Tag
<1>4. \A u \in Unit :
        /\ [size |-> tag[u].size, bits |-> (tag[u].bits % 2) + 2 * bit] \in Tag
        /\ [tag[u] EXCEPT !.bits = (@ % 2) + 2 * bit]
             = [size |-> tag[u].size, bits |-> (tag[u].bits % 2) + 2 * bit]
  BY <1>3 DEF Tag
<1>5. /\ t \in [Unit -> Tag]
      /\ \A u \in Unit : t[u] = IF u = f
           THEN [size |-> tag[u].size, bits |-> (tag[u].bits % 2) + 2 * bit] ELSE tag[u]
  BY <1>2, <1>4
<1> HIDE DEF t
<1>6. t[q] = tag[q]
  BY <1>2, <1>5
<1>7. [t[q] EXCEPT !.bits = (tag[q].bits % 2) + 2 * bit]
        = [size |-> tag[q].size, bits |-> (tag[q].bits % 2) + 2 * bit]
  BY <1>4, <1>6
<1> DEFINE v == [t EXCEPT ![q].bits = (tag[q].bits % 2) + 2 * bit]
<1>8. /\ v \in [Unit -> Tag]
      /\ \A u \in Unit : v[u] = IF u = q \/ u = f
              THEN [size |-> tag[u].size, bits |-> (tag[u].bits % 2) + 2 * bit] ELSE tag[u]
  BY <1>2, <1>4, <1>5, <1>7
<1> HIDE DEF v
<1> QED BY <1>1, <1>8 DEF v, f

LEMMA UseAt ==
  ASSUME NEW tag \in [Unit -> Tag], NEW p \in Nat, NEW n \in Nat, MaxHeap \in Nat
  PROVE  /\ Use(tag, p, n) \in [Unit -> Tag]
         /\ \A u \in Unit : Use(tag, p, n)[u] = IF p < u /\ u < p + n - 1 THEN NoTag ELSE tag[u]
<1>1. NoTag \in Tag
  BY DEF NoTag, Tag
<1> QED BY <1>1 DEF Use, Unit

-----------------------------------------------------------------------------
(* Whether blocks fit depends on their headers and footers only. *)
SameTags(t, tag, B) ==
  \A p \in B : t[p] = tag[p] /\ t[p + tag[p].size - 1] = tag[p + tag[p].size - 1]

LEMMA FitsAlike ==
  ASSUME NEW tag, NEW start, NEW end, NEW B, NEW A, NEW T, NEW t,
         Fits(tag, start, end, B, A, T), SameTags(t, tag, B)
  PROVE  Fits(t, start, end, B, A, T)
<1>1. ASSUME NEW p \in B
      PROVE  /\ t[p].size >= 3 /\ p + t[p].size \in B \cup {end}
             /\ t[p].bits = Bits(A, T, p, p + t[p].size)
             /\ t[p + t[p].size - 1] = t[p]
  <2>1. t[p] = tag[p] /\ t[p + tag[p].size - 1] = tag[p + tag[p].size - 1]
    BY DEF SameTags
  <2> QED BY <2>1 DEF Fits
<1>2. /\ B \subseteq start .. end - 1 /\ A \subseteq B /\ end \notin T
      /\ start # end => start \in B
  BY DEF Fits
<1>3. ASSUME NEW p \in B, NEW q \in B, p < q PROVE p + t[p].size <= q
  <2>1. t[p] = tag[p]
    BY DEF SameTags
  <2>2. p + tag[p].size <= q
    BY <1>3 DEF Fits
  <2> QED BY <2>1, <2>2
<1> QED BY <1>1, <1>2, <1>3 DEF Fits

(* The first block has none before it that is told of it. *)
LEMMA FitsRetold ==
  ASSUME NEW tag, NEW start, NEW end, NEW B, NEW A, NEW T, NEW C,
         Span(tag, start, end), Fits(tag, start, end, B, A, T),
         end \notin C, \A q \in B \ {start} : q \in C <=> q \in T
  PROVE  Fits(tag, start, end, B, A, C)
<1>1. Laid(tag, start, end, B)
  BY LaidOut
<1>2. ASSUME NEW p \in B PROVE tag[p].bits = Bits(A, C, p, p + tag[p].size)
  <2> DEFINE q == p + tag[p].size
  <2>1. q \in B \cup {end} /\ q # start
    BY <1>1 DEF Laid, Span
  <2>2. q \in C <=> q \in T
    BY <2>1 DEF Fits
  <2>3. tag[p].bits = Bits(A, T, p, q)
    BY DEF Fits
  <2> HIDE DEF q
  <2>4. tag[p].bits = Bits(A, C, p, q)
    BY <2>2, <2>3 DEF Bits
  <2> QED BY <2>4 DEF q
<1> QED BY <1>2 DEF Fits

(* Blocks lie apart: no header or footer is inside another block. *)
LEMMA Apart ==
  ASSUME NEW tag, NEW start, NEW end, NEW B, Laid(tag, start, end, B),
         NEW p \in B, NEW q \in B, p # q
  PROVE  \/ q < p /\ q + tag[q].size <= p
         \/ p < q /\ p + tag[p].size <= q
<1>1. p \in Nat /\ q \in Nat /\ (p < q => p + tag[p].size <= q) /\ (q < p => q + tag[q].size <= p)
  BY DEF Laid
<1> QED BY <1>1

(* TellPrev tells the block before x of x. *)
Alike(B, x, C, T) == \A q \in B \ {x} : q \in C <=> q \in T

LEMMA TellFits ==
  ASSUME NEW tag, NEW start, NEW end, NEW B, NEW A, NEW T, NEW C,
         Span(tag, start, end), Fits(tag, start, end, B, A, T),
         NEW x, x \in B, x # start, NEW bit, bit \in {0, 1}, bit = 1 <=> x \in C,
         end \notin C, Alike(B, x, C, T)
  PROVE  /\ TellPrev(tag, x, bit) \in [Unit -> Tag]
         /\ \A u \in Unit : TellPrev(tag, x, bit)[u].size = tag[u].size
         /\ Fits(TellPrev(tag, x, bit), start, end, B, A, C)
<1> DEFINE t == TellPrev(tag, x, bit)
<1>0. Laid(tag, start, end, B)
  BY LaidOut
<1>1. PICK q \in B : q + tag[q].size = x
  BY BlockBefore
<1>2. /\ q \in Nat /\ q \in Unit /\ tag[q].size \in Nat /\ tag[q].size >= 3 /\ q + tag[q].size - 1 \in Unit
      /\ x \in Nat /\ x < end
  BY <1>0 DEF Laid
<1>3. q + tag[q].size - 1 = x - 1 /\ x - tag[q].size = q /\ q < x - 1 /\ x - 1 \in Unit
  BY <1>1, <1>2
<1>4. tag[q + tag[q].size - 1] = tag[q]
  BY DEF Fits
<1>5. tag[x - 1] = tag[q]
  BY <1>3, <1>4
<1>6. tag \in [Unit -> Tag] /\ x - tag[x - 1].size = q
  BY <1>3, <1>5 DEF Span
<1>7. /\ t \in [Unit -> Tag]
      /\ \A u \in Unit : t[u] = IF u = q \/ u = x - 1
              THEN [size |-> tag[u].size, bits |-> (tag[u].bits % 2) + 2 * bit] ELSE tag[u]
  BY <1>2, <1>3, <1>6, TellPrevAt
<1> HIDE DEF t
<1>8. \A u \in Unit : t[u].size = tag[u].size
  BY <1>7
<1>9. ASSUME NEW p \in B
      PROVE  /\ t[p].bits = Bits(A, C, p, p + tag[p].size)
             /\ t[p + tag[p].size - 1] = t[p]
  <2>0. p \in Unit /\ p + tag[p].size - 1 \in Unit /\ p \in Nat /\ tag[p].size \in Nat /\ tag[p].size >= 3
        /\ p + tag[p].size \in B \cup {end}
    BY <1>0 DEF Laid
  <2>1. tag[p].bits = Bits(A, T, p, p + tag[p].size)
    BY DEF Fits
  <2>2. tag[p + tag[p].size - 1] = tag[p]
    BY DEF Fits
  <2>3. CASE p = q
    <3>1. t[q] = [size |-> tag[q].size, bits |-> (tag[q].bits % 2) + 2 * bit] /\ t[x - 1] = t[q]
      BY <1>2, <1>3, <1>5, <1>7
    <3>2. tag[q].bits = Bits(A, T, q, x)
      BY <1>1, <2>1, <2>3
    <3>3. t[q].bits = Bits(A, C, q, x)
      BY <3>1, <3>2, BitsTold
    <3> QED BY <1>1, <1>3, <2>3, <3>1, <3>3
  <2>4. CASE p # q
    <3> DEFINE r == p + tag[p].size
    <3>1. r <= q \/ x <= p
      BY <1>0, <1>1, <2>4, Apart
    <3>2. p # q /\ p # x - 1 /\ p + tag[p].size - 1 # q /\ p + tag[p].size - 1 # x - 1 /\ r # x
      BY <1>2, <1>3, <2>0, <2>4, <3>1
    <3>3. t[p] = tag[p] /\ t[p + tag[p].size - 1] = tag[p + tag[p].size - 1]
      BY <1>7, <2>0, <3>2
    <3>4. r \in C <=> r \in T
      BY <2>0, <3>2 DEF Fits, Alike
    <3>5. Bits(A, T, p, r) = Bits(A, C, p, r)
      BY <3>4 DEF Bits
    <3> QED BY <2>1, <2>2, <3>3, <3>5
  <2> QED BY <2>3, <2>4
<1>10. \A p \in B : t[p].size = tag[p].size
  BY <1>0, <1>8 DEF Laid
<1>11. Fits(t, start, end, B, A, C)
  BY <1>9, <1>10 DEF Fits
<1> QED BY <1>7, <1>8, <1>11 DEF t

-----------------------------------------------------------------------------
(* A new block of n units at p, or one that p joins with blocks behind it. *)
Covers(B, end, J, p, n, e) ==
  /\ p \in B /\ n \in Nat /\ n >= 3 /\ e = p + n /\ e \in B \cup {end}
  /\ \A q : q \in J <=> q \in B /\ (q <= p \/ e <= q)

LEMMA PutFits ==
  ASSUME NEW tag, NEW start, NEW end, NEW B, NEW A, NEW T, NEW C, NEW J,
         Span(tag, start, end), Fits(tag, start, end, B, A, T),
         NEW p, NEW n, NEW e, NEW b, Covers(B, end, J, p, n, e), b = Bits(C, T, p, e),
         C \subseteq J, Alike(J, p, C, A)
  PROVE  /\ SetTags(tag, p, n, b) \in [Unit -> Tag]
         /\ Fits(SetTags(tag, p, n, b), start, end, J, C, T)
<1> DEFINE t == SetTags(tag, p, n, b)
<1>c. /\ p \in B /\ n \in Nat /\ n >= 3 /\ p + n \in B \cup {end}
      /\ \A q : q \in J <=> q \in B /\ (q <= p \/ p + n <= q)
      /\ b = Bits(C, T, p, p + n) /\ b \in 0 .. 3
  <2>1. b \in 0 .. 3
    BY BitsRead
  <2> QED BY <2>1 DEF Covers
<1>0. Laid(tag, start, end, B)
  BY LaidOut
<1>1. /\ p \in Nat /\ p \in Unit /\ start <= p /\ p < end /\ p + n <= end
      /\ start \in Nat \ {0} /\ end \in Nat /\ end <= MaxHeap + 1 /\ MaxHeap \in Nat
  <2>1. p \in Nat /\ p \in Unit /\ start <= p /\ p < end
    BY <1>c, <1>0 DEF Laid
  <2>2. start \in Nat \ {0} /\ end \in Nat /\ end <= MaxHeap + 1 /\ MaxHeap \in Nat
    BY DEF Span
  <2>3. p + n <= end
    BY <1>c, <1>0, <2>1, <2>2 DEF Laid
  <2> QED BY <1>c, <2>1, <2>2, <2>3
<1>2. p + n - 1 \in Unit /\ n \in 0 .. MaxHeap
  BY <1>c, <1>1 DEF Unit
<1>3. /\ t \in [Unit -> Tag]
      /\ \A u \in Unit : t[u] = IF u = p \/ u = p + n - 1 THEN [size |-> n, bits |-> b] ELSE tag[u]
  <2>1. tag \in [Unit -> Tag]
    BY DEF Span
  <2> QED BY <1>c, <1>1, <1>2, <2>1, SetTagsAt
<1> HIDE DEF t
<1>4. t[p] = [size |-> n, bits |-> b] /\ t[p + n - 1] = t[p]
  BY <1>c, <1>1, <1>2, <1>3
<1>5. J \subseteq B /\ p \in J /\ (p + n # end => p + n \in J)
  BY <1>c, <1>1
<1>6. ASSUME NEW q \in J, q # p
      PROVE  /\ t[q] = tag[q] /\ t[q + tag[q].size - 1] = tag[q + tag[q].size - 1]
             /\ q + tag[q].size <= p \/ p + n <= q
             /\ q + tag[q].size \in J \cup {end}
  <2>1. /\ q \in Nat /\ q \in Unit /\ tag[q].size \in Nat /\ tag[q].size >= 3
        /\ q + tag[q].size - 1 \in Unit /\ q + tag[q].size \in B \cup {end} /\ q < end
    BY <1>c, <1>0, <1>5 DEF Laid
  <2>2. q + tag[q].size <= p \/ p + n <= q
    <3>1. CASE q < p
      BY <1>c, <1>0, <1>5, <3>1 DEF Laid
    <3>2. CASE ~ (q < p)
      BY <1>c, <1>1, <1>6, <2>1, <3>2
    <3> QED BY <1>c, <3>1, <3>2
  <2>3. q # p + n - 1 /\ q + tag[q].size - 1 # p /\ q + tag[q].size - 1 # p + n - 1
    BY <1>c, <1>1, <2>1, <2>2
  <2>4. t[q] = tag[q] /\ t[q + tag[q].size - 1] = tag[q + tag[q].size - 1]
    BY <1>c, <1>3, <1>6, <2>1, <2>3
  <2>5. q + tag[q].size \in J \cup {end}
    BY <1>c, <1>1, <2>1, <2>2
  <2> QED BY <1>c, <2>2, <2>4, <2>5
<1>7. ASSUME NEW q \in J
      PROVE  /\ t[q].size >= 3 /\ q + t[q].size \in J \cup {end}
             /\ t[q].bits = Bits(C, T, q, q + t[q].size)
             /\ t[q + t[q].size - 1] = t[q]
  <2>1. CASE q = p
    BY <1>c, <1>4, <1>5, <2>1
  <2>2. CASE q # p
    <3>1. tag[q].bits = Bits(A, T, q, q + tag[q].size) /\ q \in C <=> q \in A
      BY <1>c, <1>5, <2>2 DEF Fits, Alike
    <3>2. tag[q].bits = Bits(C, T, q, q + tag[q].size)
      BY <1>c, <1>5, <2>2, <3>1 DEF Bits, Fits
    <3>3. tag[q].size >= 3 /\ tag[q + tag[q].size - 1] = tag[q]
      BY <1>c, <1>5 DEF Fits
    <3> QED BY <1>c, <1>6, <2>2, <3>2, <3>3
  <2> QED BY <1>c, <2>1, <2>2
<1>8. ASSUME NEW q \in J, NEW r \in J, q < r PROVE q + t[q].size <= r
  <2>1. CASE q = p
    BY <1>c, <1>1, <1>4, <1>8, <2>1
  <2>2. CASE q # p
    BY <1>c, <1>0, <1>5, <1>6, <1>8, <2>2 DEF Laid
  <2> QED BY <1>c, <2>1, <2>2
<1>9. J \subseteq start .. end - 1 /\ end \notin T /\ (start # end => start \in J)
  BY <1>c, <1>1, <1>5 DEF Fits
<1>10. Fits(t, start, end, J, C, T)
  BY <1>c, <1>7, <1>8, <1>9 DEF Fits
<1> QED BY <1>c, <1>3, <1>10 DEF t

(* A block at the end of the heap; the one before it is not told yet. *)
Appends(tag, end, B, A, n, bit, e, s, X, C) ==
  /\ n \in Nat /\ n >= 3 /\ end + n <= MaxHeap + 1 /\ bit \in {0, 1}
  /\ e = end + n /\ s = SetTags(tag, end, n, bit)
  /\ X = B \cup {end} /\ C = IF bit = 1 THEN A \cup {end} ELSE A

LEMMA AppendFits ==
  ASSUME NEW tag, NEW start, NEW end, NEW B, NEW A,
         Span(tag, start, end), Fits(tag, start, end, B, A, A),
         NEW n, NEW bit, NEW e, NEW s, NEW X, NEW C, Appends(tag, end, B, A, n, bit, e, s, X, C)
  PROVE  /\ Span(s, start, e) /\ Fits(s, start, e, X, C, A)
         /\ s[end].size = n /\ \A q \in B : s[q].size = tag[q].size
<1> /\ n \in Nat /\ n >= 3 /\ end + n <= MaxHeap + 1 /\ bit \in {0, 1}
    /\ e = end + n /\ s = SetTags(tag, end, n, bit)
    /\ X = B \cup {end} /\ C = IF bit = 1 THEN A \cup {end} ELSE A
  BY DEF Appends
<1> DEFINE t == SetTags(tag, end, n, bit)
<1>0. Laid(tag, start, end, B)
  BY LaidOut
<1>1. start \in Nat \ {0} /\ end \in Nat /\ start <= end /\ MaxHeap \in Nat /\ tag \in [Unit -> Tag]
  BY DEF Span
<1>2. end \in Unit /\ end + n - 1 \in Unit /\ n \in 0 .. MaxHeap
  BY <1>1 DEF Unit
<1>3. /\ t \in [Unit -> Tag]
      /\ \A u \in Unit : t[u] = IF u = end \/ u = end + n - 1 THEN [size |-> n, bits |-> bit] ELSE tag[u]
  <2>1. bit \in 0 .. 3
    OBVIOUS
  <2> QED BY <1>1, <1>2, <2>1, SetTagsAt
<1> HIDE DEF t
<1>4. Span(t, start, end + n)
  BY <1>1, <1>3 DEF Span
<1>5. t[end] = [size |-> n, bits |-> bit] /\ t[end + n - 1] = t[end]
  BY <1>2, <1>3
<1>6. B \subseteq start .. end - 1 /\ A \subseteq B /\ end \notin A /\ (start # end => start \in B)
  BY DEF Fits
<1>7. end \notin B /\ end + n \notin B /\ end + n \notin A /\ A \subseteq C /\ C \subseteq A \cup {end}
      /\ (end \in C <=> bit = 1)
  BY <1>1, <1>6
<1>8. ASSUME NEW q \in B
      PROVE  /\ q \in Nat /\ q < end /\ tag[q].size \in Nat /\ q + tag[q].size <= end
             /\ t[q] = tag[q] /\ t[q + tag[q].size - 1] = tag[q + tag[q].size - 1]
  <2>1. /\ q \in Nat /\ q < end /\ q \in Unit /\ tag[q].size \in Nat /\ tag[q].size >= 3
        /\ q + tag[q].size <= end /\ q + tag[q].size - 1 \in Unit
    BY <1>0 DEF Laid
  <2> QED BY <1>1, <1>3, <2>1
<1>9. ASSUME NEW q \in X
      PROVE  /\ t[q].size >= 3 /\ q + t[q].size \in X \cup {end + n}
             /\ t[q].bits = Bits(C, A, q, q + t[q].size)
             /\ t[q + t[q].size - 1] = t[q]
  <2>1. CASE q = end
    <3>1. Bits(C, A, end, end + n) = bit
      BY <1>7 DEF Bits
    <3> QED BY <1>5, <2>1, <3>1
  <2>2. CASE q \in B
    <3>1. /\ tag[q].size >= 3 /\ q + tag[q].size \in B \cup {end}
          /\ tag[q].bits = Bits(A, A, q, q + tag[q].size)
          /\ tag[q + tag[q].size - 1] = tag[q]
      BY <2>2 DEF Fits
    <3>2. tag[q].bits = Bits(C, A, q, q + tag[q].size)
      <4>1. q \in C <=> q \in A
        BY <1>7, <2>2
      <4> QED BY <3>1, <4>1 DEF Bits
    <3> QED BY <1>8, <2>2, <3>1, <3>2
  <2> QED BY <2>1, <2>2
<1>10. ASSUME NEW q \in X, NEW r \in X, q < r PROVE q + t[q].size <= r
  <2>1. q \in B
    BY <1>1, <1>8, <1>10
  <2>2. CASE r = end
    BY <1>8, <2>1, <2>2
  <2>3. CASE r \in B
    BY <1>0, <1>8, <1>10, <2>1, <2>3 DEF Laid
  <2> QED BY <2>2, <2>3
<1>11. X \subseteq start .. (end + n) - 1 /\ C \subseteq X /\ start \in X
  BY <1>1, <1>6, <1>7
<1>12. Fits(t, start, end + n, X, C, A)
  BY <1>7, <1>9, <1>10, <1>11 DEF Fits
<1>13. s = t
  BY DEF t
<1> QED BY <1>4, <1>5, <1>8, <1>12, <1>13

(* The first n units of the free block at p are allocated, the rest stays  *)
(* free; the block before p is not told yet.  Only p changes its size.     *)
SizedLike(t, tag, B, p, n) == \A q \in B : t[q].size = IF q = p THEN n ELSE tag[q].size

Splits(tag, B, A, p, n, m, rest, made) ==
  /\ p \in B /\ p \notin A /\ n \in Nat /\ n >= 3 /\ m \in Nat /\ m >= 3
  /\ tag[p].size = n + m /\ rest = p + n
  /\ made = SetTags(SetTags(tag, p, n, 1), p + n, m, tag[p + tag[p].size - 1].bits)

LEMMA SplitFits ==
  ASSUME NEW tag, NEW start, NEW end, NEW B, NEW A,
         Span(tag, start, end), Fits(tag, start, end, B, A, A),
         NEW p, NEW n, NEW m, NEW rest, NEW made, Splits(tag, B, A, p, n, m, rest, made)
  PROVE  /\ rest \in Unit /\ rest \notin B
         /\ made \in [Unit -> Tag] /\ SizedLike(made, tag, B, p, n)
         /\ Fits(made, start, end, B \cup {rest}, A \cup {p}, A)
<1> DEFINE b == tag[p + tag[p].size - 1].bits
<1>b. b = tag[p + tag[p].size - 1].bits
  OBVIOUS
<1> /\ p \in B /\ p \notin A /\ n \in Nat /\ n >= 3 /\ m \in Nat /\ m >= 3
    /\ tag[p].size = n + m
  BY DEF Splits
<1>s. rest = p + n /\ made = SetTags(SetTags(tag, p, n, 1), p + n, m, b)
  BY DEF Splits
<1> HIDE DEF b
<1> DEFINE o == SetTags(tag, p, n, 1)
           q == p + n
           t == SetTags(o, q, m, b)
           z == q + m
<1>0. Laid(tag, start, end, B)
  BY LaidOut
<1>1. /\ start \in Nat \ {0} /\ end \in Nat /\ end <= MaxHeap + 1 /\ MaxHeap \in Nat
      /\ tag \in [Unit -> Tag]
  BY DEF Span
<1>2. p \in Nat /\ p \in Unit /\ start <= p /\ p < end
  BY <1>0 DEF Laid
<1>3. z = p + tag[p].size /\ z \in B \cup {end} /\ z <= end /\ z \in Nat /\ q \in Nat
  BY <1>0, <1>1, <1>2 DEF Laid
<1>4. /\ q \in Unit /\ p + n - 1 \in Unit /\ q + m - 1 \in Unit /\ n \in 0 .. MaxHeap
      /\ m \in 0 .. MaxHeap /\ p + n - 1 = q - 1 /\ q + m - 1 = z - 1
  BY <1>1, <1>2, <1>3 DEF Unit
<1>5. /\ tag[p].bits = Bits(A, A, p, z) /\ tag[z - 1] = tag[p]
  <2>1. tag[p + tag[p].size - 1] = tag[p] /\ tag[p].bits = Bits(A, A, p, p + tag[p].size)
    BY DEF Fits
  <2>2. p + tag[p].size - 1 = z - 1
    BY <1>2, <1>3
  <2> QED BY <1>3, <2>1, <2>2
<1>6. b = Bits(A, A, p, z) /\ b \in 0 .. 3
  <2>1. p + tag[p].size - 1 = z - 1
    BY <1>2, <1>3
  <2>2. b = Bits(A, A, p, z)
    BY <1>b, <1>5, <2>1
  <2> QED BY <2>2, BitsRead
<1>7. /\ o \in [Unit -> Tag]
      /\ \A u \in Unit : o[u] = IF u = p \/ u = p + n - 1 THEN [size |-> n, bits |-> 1] ELSE tag[u]
  <2>1. 1 \in 0 .. 3
    OBVIOUS
  <2> QED BY <1>1, <1>2, <1>4, <2>1, SetTagsAt
<1> HIDE DEF o
<1>8. /\ t \in [Unit -> Tag]
      /\ \A u \in Unit : t[u] = IF u = q \/ u = q + m - 1 THEN [size |-> m, bits |-> b] ELSE o[u]
  BY <1>4, <1>6, <1>7, SetTagsAt
<1> HIDE DEF t
<1>9. ASSUME NEW r \in B, r # p
      PROVE  /\ r \in Nat /\ r \in Unit /\ tag[r].size \in Nat /\ tag[r].size >= 3
             /\ r + tag[r].size \in B \cup {end}
             /\ r + tag[r].size <= p \/ z <= r
             /\ t[r] = tag[r] /\ t[r + tag[r].size - 1] = tag[r + tag[r].size - 1]
  <2>1. /\ r \in Nat /\ r \in Unit /\ tag[r].size \in Nat /\ tag[r].size >= 3
        /\ r + tag[r].size - 1 \in Unit /\ r + tag[r].size \in B \cup {end}
    BY <1>0 DEF Laid
  <2>2. r + tag[r].size <= p \/ z <= r
    <3>1. (r < p /\ r + tag[r].size <= p) \/ (p < r /\ p + tag[p].size <= r)
      BY <1>0, <1>9, Apart
    <3> QED BY <1>3, <3>1
  <2>3. r \notin {p, q - 1, q, z - 1} /\ r + tag[r].size - 1 \notin {p, q - 1, q, z - 1}
    BY <1>2, <1>3, <2>1, <2>2
  <2> QED BY <1>4, <1>7, <1>8, <2>1, <2>2, <2>3
<1>10. /\ t[p] = [size |-> n, bits |-> 1] /\ t[q - 1] = t[p]
       /\ t[q] = [size |-> m, bits |-> b] /\ t[z - 1] = t[q]
  <2>1. q - 1 \in Unit /\ z - 1 \in Unit /\ p # q /\ p # z - 1 /\ q - 1 # q /\ q - 1 # z - 1
    BY <1>2, <1>3, <1>4
  <2> QED BY <1>2, <1>4, <1>7, <1>8, <2>1
<1>11. q \notin B /\ q # end /\ q < end
  <2>1. q < z /\ p < q
    BY <1>2, <1>3
  <2>2. ~ (q \in B)
    BY <1>0, <1>3, <2>1 DEF Laid
  <2> QED BY <1>1, <1>3, <2>1, <2>2
<1>12. A \subseteq B /\ B \subseteq start .. end - 1 /\ end \notin A /\ (start # end => start \in B)
  BY DEF Fits
<1>13. ASSUME NEW r \in B \cup {q}
       PROVE  /\ t[r].size >= 3 /\ r + t[r].size \in (B \cup {q}) \cup {end}
              /\ t[r].bits = Bits(A \cup {p}, A, r, r + t[r].size)
              /\ t[r + t[r].size - 1] = t[r]
  <2>1. CASE r = p
    <3>1. 1 = Bits(A \cup {p}, A, p, q)
      BY <1>11, <1>12 DEF Bits
    <3> QED BY <1>4, <1>10, <2>1, <3>1
  <2>2. CASE r = q
    <3>1. b = Bits(A \cup {p}, A, q, z)
      BY <1>3, <1>6, <1>11, <1>12 DEF Bits
    <3> QED BY <1>3, <1>4, <1>10, <2>2, <3>1
  <2>3. CASE r \in B /\ r # p
    <3>1. tag[r].bits = Bits(A, A, r, r + tag[r].size) /\ tag[r + tag[r].size - 1] = tag[r]
      BY <2>3 DEF Fits
    <3>2. tag[r].bits = Bits(A \cup {p}, A, r, r + tag[r].size)
      BY <2>3, <3>1 DEF Bits
    <3> QED BY <1>9, <2>3, <3>1, <3>2
  <2> QED BY <2>1, <2>2, <2>3
<1>14. ASSUME NEW r \in B \cup {q}, NEW s \in B \cup {q}, r < s PROVE r + t[r].size <= s
  <2>1. CASE r = p
    <3>1. s = q \/ z <= s
      BY <1>0, <1>3, <1>14, <2>1 DEF Laid
    <3>2. s \in Nat
      BY <1>0, <1>3 DEF Laid
    <3> QED BY <1>2, <1>3, <1>10, <2>1, <3>1, <3>2
  <2>2. CASE r = q
    <3>0. s # q /\ s \in B
      BY <1>3, <1>14, <2>2
    <3>1. s \in B /\ s # p /\ s \in Nat
      BY <1>0, <1>2, <1>3, <1>14, <2>2, <3>0 DEF Laid
    <3>2. z <= s
      BY <1>2, <1>3, <1>9, <1>14, <2>2, <3>1
    <3> QED BY <1>10, <2>2, <3>2
  <2>3. CASE r \in B /\ r # p
    <3>1. r \in Nat /\ tag[r].size \in Nat /\ tag[r].size >= 3 /\ t[r] = tag[r]
          /\ (r + tag[r].size <= p \/ z <= r)
      BY <1>9, <2>3
    <3>2. CASE s = q
      BY <1>2, <1>3, <1>14, <3>1, <3>2
    <3>3. CASE s \in B
      BY <1>0, <1>14, <2>3, <3>1, <3>3 DEF Laid
    <3> QED BY <3>2, <3>3
  <2> QED BY <2>1, <2>2, <2>3
<1>15. /\ B \cup {q} \subseteq start .. end - 1 /\ A \cup {p} \subseteq B \cup {q} /\ end \notin A
       /\ (start # end => start \in B \cup {q})
  BY <1>1, <1>2, <1>3, <1>11, <1>12
<1>16. Fits(t, start, end, B \cup {q}, A \cup {p}, A)
  BY <1>13, <1>14, <1>15 DEF Fits
<1>17. \A r \in B : t[r].size = IF r = p THEN n ELSE tag[r].size
  BY <1>9, <1>10
<1>18. made = t /\ rest = q
  BY <1>s DEF t, o
<1>19. SizedLike(made, tag, B, p, n)
  BY <1>17, <1>18 DEF SizedLike
<1> QED BY <1>4, <1>8, <1>11, <1>16, <1>18, <1>19

(* The last n units of the free block at q, from p, are allocated, the     *)
(* first m stay free.                                                      *)
SplitsBack(tag, end, B, A, q, n, m, p, made) ==
  /\ q \in B /\ q \notin A /\ n \in Nat /\ n >= 3 /\ m \in Nat /\ m >= 3
  /\ tag[q].size = m + n /\ p = q + m
  /\ LET next == IF p + n # end /\ tag[p + n].bits % 2 = 1 THEN 2 ELSE 0
     IN made = SetTags(SetTags(tag, p, n, next + 1), q, m, 2)

LEMMA SplitBackFits ==
  ASSUME NEW tag, NEW start, NEW end, NEW B, NEW A,
         Span(tag, start, end), Fits(tag, start, end, B, A, A),
         NEW q, NEW n, NEW m, NEW p, NEW made, SplitsBack(tag, end, B, A, q, n, m, p, made),
         NEW X, X = B \cup {p}, NEW C, C = A \cup {p}
  PROVE  /\ p \in Unit /\ p \notin B
         /\ made \in [Unit -> Tag] /\ SizedLike(made, tag, B, q, m) /\ made[p].size = n
         /\ Fits(made, start, end, X, C, C)
<1> DEFINE z == p + n
           b == (IF z # end /\ tag[z].bits % 2 = 1 THEN 2 ELSE 0) + 1
           o == SetTags(tag, p, n, b)
           t == SetTags(o, q, m, 2)
<1> /\ q \in B /\ q \notin A /\ n \in Nat /\ n >= 3 /\ m \in Nat /\ m >= 3
    /\ tag[q].size = m + n /\ p = q + m
  BY DEF SplitsBack
<1>s. made = t
  BY DEF SplitsBack
<1>0. Laid(tag, start, end, B)
  BY LaidOut
<1>1. /\ start \in Nat \ {0} /\ end \in Nat /\ end <= MaxHeap + 1 /\ MaxHeap \in Nat
      /\ tag \in [Unit -> Tag]
  BY DEF Span
<1>2. q \in Nat /\ q \in Unit /\ start <= q /\ q < end
  BY <1>0 DEF Laid
<1>3. z = q + tag[q].size /\ z \in B \cup {end} /\ z <= end /\ z \in Nat /\ p \in Nat
  BY <1>0, <1>1, <1>2 DEF Laid
<1>4. /\ p \in Unit /\ q + m - 1 \in Unit /\ p + n - 1 \in Unit /\ n \in 0 .. MaxHeap
      /\ m \in 0 .. MaxHeap /\ q + m - 1 = p - 1 /\ p + n - 1 = z - 1
  BY <1>1, <1>2, <1>3 DEF Unit
<1>5. A \subseteq B /\ B \subseteq start .. end - 1 /\ end \notin A /\ (start # end => start \in B)
  BY DEF Fits
<1>6. b \in 0 .. 3 /\ b = IF z \in A THEN 3 ELSE 1
  <2>1. CASE z = end
    BY <1>5, <2>1
  <2>2. CASE z \in B
    <3>1. z # end
      BY <1>1, <1>5, <2>2
    <3>2. tag[z].bits = Bits(A, A, z, z + tag[z].size)
      BY <2>2 DEF Fits
    <3>3. tag[z].bits % 2 = 1 <=> z \in A
      BY <3>2, BitsRead
    <3> QED BY <3>1, <3>3
  <2> QED BY <1>3, <2>1, <2>2
<1> HIDE DEF b
<1>7. /\ o \in [Unit -> Tag]
      /\ \A u \in Unit : o[u] = IF u = p \/ u = p + n - 1 THEN [size |-> n, bits |-> b] ELSE tag[u]
  BY <1>1, <1>4, <1>6, SetTagsAt
<1> HIDE DEF o
<1>8. /\ t \in [Unit -> Tag]
      /\ \A u \in Unit : t[u] = IF u = q \/ u = q + m - 1 THEN [size |-> m, bits |-> 2] ELSE o[u]
  <2>1. 2 \in 0 .. 3
    OBVIOUS
  <2> QED BY <1>2, <1>4, <1>7, <2>1, SetTagsAt
<1> HIDE DEF t, z
<1>9. ASSUME NEW r \in B, r # q
      PROVE  /\ r \in Nat /\ r \in Unit /\ tag[r].size \in Nat /\ tag[r].size >= 3
             /\ r + tag[r].size \in B \cup {end}
             /\ r + tag[r].size <= q \/ z <= r
             /\ t[r] = tag[r] /\ t[r + tag[r].size - 1] = tag[r + tag[r].size - 1]
  <2>1. /\ r \in Nat /\ r \in Unit /\ tag[r].size \in Nat /\ tag[r].size >= 3
        /\ r + tag[r].size - 1 \in Unit /\ r + tag[r].size \in B \cup {end}
    BY <1>0 DEF Laid
  <2>2. r + tag[r].size <= q \/ z <= r
    <3>1. (r < q /\ r + tag[r].size <= q) \/ (q < r /\ q + tag[q].size <= r)
      BY <1>0, <1>9, Apart
    <3> QED BY <1>3, <3>1
  <2>3. r \notin {q, p - 1, p, z - 1} /\ r + tag[r].size - 1 \notin {q, p - 1, p, z - 1}
    BY <1>2, <1>3, <2>1, <2>2
  <2> QED BY <1>4, <1>7, <1>8, <2>1, <2>2, <2>3
<1>10. /\ t[q] = [size |-> m, bits |-> 2] /\ t[p - 1] = t[q]
       /\ t[p] = [size |-> n, bits |-> b] /\ t[z - 1] = t[p]
  <2>1. p - 1 \in Unit /\ z - 1 \in Unit /\ q # p /\ q # z - 1 /\ p - 1 # p /\ p - 1 # z - 1
    BY <1>2, <1>3, <1>4
  <2> QED BY <1>2, <1>4, <1>7, <1>8, <2>1
<1>11. p \notin B /\ p # end /\ p < end /\ z # p
  <2>1. p < z /\ q < p
    BY <1>2, <1>3
  <2>2. ~ (p \in B)
    BY <1>0, <1>3, <2>1 DEF Laid
  <2> QED BY <1>1, <1>3, <2>1, <2>2
<1>12. ASSUME NEW r \in X
       PROVE  /\ t[r].size >= 3 /\ r + t[r].size \in X \cup {end}
              /\ t[r].bits = Bits(C, C, r, r + t[r].size)
              /\ t[r + t[r].size - 1] = t[r]
  <2>1. CASE r = q
    <3>1. Bits(C, C, q, p) = 2
      BY <1>11 DEF Bits
    <3> QED BY <1>4, <1>10, <2>1, <3>1
  <2>2. CASE r = p
    <3>1. b = Bits(C, C, p, z)
      BY <1>6, <1>11 DEF Bits
    <3>2. p + t[p].size = z /\ t[p].size >= 3 /\ t[p].bits = b
      BY <1>10 DEF z
    <3>3. z \in X \cup {end} /\ t[z - 1] = t[p]
      BY <1>3, <1>10
    <3>4. /\ t[p].size >= 3 /\ p + t[p].size \in X \cup {end}
          /\ t[p].bits = Bits(C, C, p, p + t[p].size) /\ t[p + t[p].size - 1] = t[p]
      <4>1. p + t[p].size \in X \cup {end} /\ t[p + t[p].size - 1] = t[p]
        <5>1. p \in Nat /\ z \in Nat /\ t[p].size = n /\ n \in Nat
          BY <1>3, <1>10
        <5> QED BY ONLY <3>2, <3>3, <5>1
      <4>2. t[p].bits = Bits(C, C, p, p + t[p].size)
        BY <3>1, <3>2
      <4> QED BY <3>2, <4>1, <4>2
    <3> QED BY <2>2, <3>4
  <2>3. CASE r \in B /\ r # q
    <3>1. tag[r].bits = Bits(A, A, r, r + tag[r].size) /\ tag[r + tag[r].size - 1] = tag[r]
      BY <2>3 DEF Fits
    <3>2. r + tag[r].size # p /\ r # p
      BY <1>9, <1>11, <2>3
    <3>3. tag[r].bits = Bits(C, C, r, r + tag[r].size)
      BY <3>1, <3>2 DEF Bits
    <3> QED BY <1>9, <2>3, <3>1, <3>3
  <2>4. r = p \/ r = q \/ (r \in B /\ r # q)
    BY <1>12
  <2> QED BY <2>1, <2>2, <2>3, <2>4
<1>13. ASSUME NEW r \in X, NEW s \in X, r < s PROVE r + t[r].size <= s
  <2>1. CASE r = q
    <3>1. s = p \/ z <= s
      BY <1>0, <1>3, <1>13, <2>1 DEF Laid
    <3>2. s \in Nat
      BY <1>0, <1>3 DEF Laid
    <3> QED BY <1>2, <1>3, <1>10, <2>1, <3>1, <3>2
  <2>2. CASE r = p
    <3>0. s # p /\ s \in B
      BY <1>3, <1>13, <2>2
    <3>1. s # q /\ s \in Nat
      BY <1>0, <1>2, <1>3, <1>13, <2>2, <3>0 DEF Laid
    <3>2. z <= s
      BY <1>2, <1>3, <1>9, <1>13, <2>2, <3>0, <3>1
    <3>3. p + t[p].size = z
      BY <1>10 DEF z
    <3> QED BY <2>2, <3>2, <3>3
  <2>3. CASE r \in B /\ r # q
    <3>1. r \in Nat /\ tag[r].size \in Nat /\ tag[r].size >= 3 /\ t[r] = tag[r]
          /\ (r + tag[r].size <= q \/ z <= r)
      BY <1>9, <2>3
    <3>2. CASE s = p
      BY <1>2, <1>3, <1>13, <3>1, <3>2 DEF z
    <3>3. CASE s \in B
      BY <1>0, <1>13, <2>3, <3>1, <3>3 DEF Laid
    <3> QED BY <3>2, <3>3
  <2> QED BY <2>1, <2>2, <2>3
<1>14. X \subseteq start .. end - 1 /\ C \subseteq X /\ end \notin C /\ (start # end => start \in X)
  BY <1>1, <1>2, <1>3, <1>5, <1>11
<1>15. Fits(t, start, end, X, C, C)
  BY <1>12, <1>13, <1>14 DEF Fits
<1>16. SizedLike(t, tag, B, q, m)
  BY <1>9, <1>10 DEF SizedLike
<1> QED BY <1>s, <1>4, <1>8, <1>10, <1>11, <1>15, <1>16

(* The user's data does not reach the tags. *)
LEMMA UseFits ==
  ASSUME NEW tag, NEW start, NEW end, NEW B, NEW A, NEW T,
         Span(tag, start, end), Fits(tag, start, end, B, A, T), NEW p \in B
  PROVE  /\ Use(tag, p, tag[p].size) \in [Unit -> Tag]
         /\ \A q \in B : Use(tag, p, tag[p].size)[q] = tag[q]
         /\ \A u \in Unit : u < p => Use(tag, p, tag[p].size)[u] = tag[u]
         /\ Fits(Use(tag, p, tag[p].size), start, end, B, A, T)
<1> DEFINE t == Use(tag, p, tag[p].size)
<1>0. Laid(tag, start, end, B)
  BY LaidOut
<1>1. p \in Nat /\ tag[p].size \in Nat /\ tag \in [Unit -> Tag] /\ MaxHeap \in Nat
  BY <1>0 DEF Laid, Span
<1>2. /\ t \in [Unit -> Tag]
      /\ \A u \in Unit : t[u] = IF p < u /\ u < p + tag[p].size - 1 THEN NoTag ELSE tag[u]
  BY <1>1, UseAt
<1> HIDE DEF t
<1>3. ASSUME NEW q \in B
      PROVE  t[q] = tag[q] /\ t[q + tag[q].size - 1] = tag[q + tag[q].size - 1]
  <2>1. /\ q \in Nat /\ q \in Unit /\ tag[q].size \in Nat /\ tag[q].size >= 3
        /\ q + tag[q].size - 1 \in Unit
    BY <1>0 DEF Laid
  <2>2. q = p \/ q + tag[q].size <= p \/ p + tag[p].size <= q
    BY <1>0, Apart
  <2> QED BY <1>1, <1>2, <2>1, <2>2
<1>4. Fits(t, start, end, B, A, T)
  <2>1. SameTags(t, tag, B)
    BY <1>3 DEF SameTags
  <2> QED BY <2>1, FitsAlike
<1>5. ASSUME NEW u \in Unit, u < p PROVE t[u] = tag[u]
  <2>1. u \in Nat /\ ~ (p < u)
    BY <1>1, <1>5 DEF Unit
  <2> QED BY <1>2, <2>1
<1> QED BY <1>2, <1>3, <1>4, <1>5 DEF t

-----------------------------------------------------------------------------
(* What mm_free reads of the neighbours of an allocated block p, which     *)
(* ends at y: the case it chooses is the one that the blocks call for.     *)
Reads(h, B, A, p, y, a, j) ==
  /\ a.cur = IF y \in A THEN 3 ELSE 1
  /\ y \notin B <=> a.next = None
  /\ y \in B => a.next = h.tag[y].bits
  /\ a.prev = 3 <=> p # h.start /\ ~ JoinsPrev(a)
  /\ Listed(a) <=> ~ (p = h.start /\ y = h.end)
  /\ JoinsNext(a) <=> y \in B /\ y \notin A
  /\ JoinsPrev(a) => /\ j.at \in B /\ j.at \notin A /\ j.at + h.tag[j.at].size = p
                     /\ j.at = p - h.tag[p - 1].size
  /\ ~ JoinsPrev(a) => j.at = p /\ \A q \in B : q + h.tag[q].size = p => q \in A
  /\ j.size = (p - j.at) + h.tag[p].size + (IF JoinsNext(a) THEN h.tag[y].size ELSE 0)
  /\ j.bits = IF ~Listed(a) \/ a.next = None THEN 0 ELSE IF a.cur = 3 THEN 2 ELSE a.next

LEMMA FreeCases ==
  ASSUME NEW h, h \in HeapState, MaxHeap \in Nat, h.start <= h.end,
         NEW B, NEW A, Fits(h.tag, h.start, h.end, B, A, A), NEW p, p \in A,
         NEW y, y = p + h.tag[p].size, NEW a, a = Around(h, p), NEW j, j = Joined(h, p)
  PROVE  Reads(h, B, A, p, y, a, j)
<1>s. Span(h.tag, h.start, h.end)
  BY DEF Span, HeapState
<1>0. Laid(h.tag, h.start, h.end, B)
  BY <1>s, LaidOut
<1>1. p \in B /\ h.end \notin A /\ h.end \notin B /\ A \subseteq B /\ h.end \in Nat /\ h.start \in Nat
  <2>1. p \in B /\ h.end \notin A /\ A \subseteq B /\ B \subseteq h.start .. h.end - 1
    BY DEF Fits
  <2>2. h.end \in Nat /\ h.start \in Nat
    BY DEF HeapState
  <2> QED BY <2>1, <2>2
<1>2. /\ p \in Nat /\ h.tag[p].size \in Nat /\ h.tag[p].size >= 3 /\ y \in B \cup {h.end}
      /\ y \in Nat /\ p < h.end
  BY <1>0, <1>1 DEF Laid
<1>3. h.tag[p].bits = IF y \in A THEN 3 ELSE 1
  <2>1. h.tag[p].bits = Bits(A, A, p, y)
    BY <1>1 DEF Fits
  <2> QED BY <2>1 DEF Bits
<1>4. a.cur = h.tag[p].bits
  BY DEF Around
<1>5. a.next = IF y = h.end THEN None ELSE h.tag[y].bits
  BY DEF Around
<1>6. y # h.end => h.tag[y].bits \in 0 .. 3
  <2>1. y # h.end => h.tag[y] \in Tag
    BY <1>0, <1>2 DEF Laid
  <2> QED BY <2>1 DEF Tag
<1>7. y \notin B <=> a.next = None
  BY <1>1, <1>2, <1>5, <1>6 DEF None
<1>8. a.prev = IF p = h.start THEN None ELSE h.tag[p - 1].bits
  BY DEF Around
<1>9. ASSUME p # h.start
      PROVE  \E q \in B : /\ q + h.tag[q].size = p /\ h.tag[p - 1] = h.tag[q]
                          /\ a.prev = IF q \in A THEN 3 ELSE 2
  <2>1. PICK q \in B : q + h.tag[q].size = p
    BY <1>s, <1>1, <1>9, BlockBefore
  <2>2. q \in Nat /\ h.tag[q].size \in Nat
    BY <1>0 DEF Laid
  <2>3. h.tag[q + h.tag[q].size - 1] = h.tag[q] /\ h.tag[q].bits = Bits(A, A, q, p)
    BY <2>1 DEF Fits
  <2>4. q + h.tag[q].size - 1 = p - 1
    BY <2>1, <2>2
  <2>5. h.tag[q].bits = IF q \in A THEN 3 ELSE 2
    BY <2>3 DEF Bits
  <2> QED BY <1>8, <1>9, <2>1, <2>3, <2>4, <2>5
<1>10. a.prev \in {2, 3, None} /\ (a.prev = None <=> p = h.start)
  BY <1>8, <1>9 DEF None
<1>11. Listed(a) <=> ~ (p = h.start /\ y = h.end)
  BY <1>1, <1>2, <1>3, <1>4, <1>7, <1>10 DEF Listed
<1>12. JoinsNext(a) <=> y \in B /\ y \notin A
  BY <1>1, <1>2, <1>3, <1>4, <1>7, <1>11 DEF JoinsNext
<1>13. JoinsPrev(a) <=> a.prev = 2
  BY <1>10, <1>11 DEF JoinsPrev, None
<1>14. a.prev = 3 <=> p # h.start /\ ~ JoinsPrev(a)
  BY <1>10, <1>13 DEF None
<1>15. /\ j.at = p - (IF JoinsPrev(a) THEN h.tag[p - 1].size ELSE 0)
       /\ j.size = (IF JoinsPrev(a) THEN h.tag[p - 1].size ELSE 0) + h.tag[p].size
                     + (IF JoinsNext(a) THEN h.tag[y].size ELSE 0)
       /\ j.bits = IF ~Listed(a) \/ a.next = None THEN 0 ELSE IF a.cur = 3 THEN 2 ELSE a.next
  BY DEF Joined
<1>16. ASSUME JoinsPrev(a)
       PROVE  /\ j.at \in B /\ j.at \notin A /\ j.at + h.tag[j.at].size = p
              /\ j.at = p - h.tag[p - 1].size /\ p - j.at = h.tag[p - 1].size
  <2>1. p # h.start
    BY <1>10, <1>13, <1>16 DEF None
  <2>2. PICK q \in B : /\ q + h.tag[q].size = p /\ h.tag[p - 1] = h.tag[q]
                       /\ a.prev = IF q \in A THEN 3 ELSE 2
    BY <1>9, <2>1
  <2>3. q \in Nat /\ h.tag[q].size \in Nat
    BY <1>0 DEF Laid
  <2>4. q \notin A
    BY <1>13, <1>16, <2>2
  <2>5. j.at = p - h.tag[p - 1].size
    BY <1>15, <1>16
  <2>6. j.at = q
    BY <2>2, <2>3, <2>5
  <2> QED BY <2>2, <2>3, <2>4, <2>5, <2>6
<1>17. ASSUME ~ JoinsPrev(a) PROVE j.at = p /\ \A q \in B : q + h.tag[q].size = p => q \in A
  <2>1. j.at = p
    BY <1>2, <1>15, <1>17
  <2>2. ASSUME NEW q \in B, q + h.tag[q].size = p PROVE q \in A
    <3>1. /\ q \in Nat /\ h.tag[q].size \in Nat /\ h.tag[q].size >= 3 /\ h.start <= q
      BY <1>0 DEF Laid
    <3>2. p # h.start
      BY <1>1, <2>2, <3>1
    <3>3. PICK r \in B : /\ r + h.tag[r].size = p
                         /\ a.prev = IF r \in A THEN 3 ELSE 2
      BY <1>9, <3>2
    <3>4. r \in Nat /\ h.tag[r].size \in Nat /\ h.tag[r].size >= 3
      BY <1>0 DEF Laid
    <3>5. r = q
      <4> SUFFICES ASSUME r # q PROVE FALSE
        OBVIOUS
      <4>1. (q < r /\ q + h.tag[q].size <= r) \/ (r < q /\ r + h.tag[r].size <= q)
        BY <1>0, Apart
      <4> QED BY <2>2, <3>1, <3>3, <3>4, <4>1
    <3> QED BY <1>13, <1>17, <3>3, <3>5
  <2> QED BY <2>1, <2>2
<1>18. j.size = (p - j.at) + h.tag[p].size + (IF JoinsNext(a) THEN h.tag[y].size ELSE 0)
  <2>1. CASE JoinsPrev(a)
    BY <1>15, <1>16, <2>1
  <2>2. CASE ~ JoinsPrev(a)
    <3>1. p - j.at = 0
      BY <1>2, <1>17, <2>2
    <3> QED BY <1>15, <2>2, <3>1
  <2> QED BY <2>1, <2>2
<1>19. a.cur = IF y \in A THEN 3 ELSE 1
  BY <1>3, <1>4
<1>20. y \in B => a.next = h.tag[y].bits
  BY <1>1, <1>5
<1> QED BY <1>7, <1>11, <1>12, <1>14, <1>15, <1>16, <1>17, <1>18, <1>19, <1>20 DEF Reads

(* What mm_free leaves: the freed block and its free neighbours are one    *)
(* block, the others are as before, and the tags are true of the result.   *)
Freed(h, B, A, p, y, a, j, J, C, t) ==
  /\ j.at \in J /\ t[j.at].size = j.size
  /\ \A q \in B : q # j.at => t[q].size = h.tag[q].size /\ t[q].bits % 2 = h.tag[q].bits % 2
  /\ j.at + j.size = IF JoinsNext(a) THEN y + h.tag[y].size ELSE y
  /\ \A q : q \in J /\ q \notin C <=>
              q = j.at \/ (q \in B /\ q \notin A /\ ~ (JoinsNext(a) /\ q = y))

Frees(h, A, p, y, a, j, t) ==
  /\ p \in A /\ y = p + h.tag[p].size /\ a = Around(h, p) /\ j = Joined(h, p)
  /\ t = FreeTags(h, p)
Remain(B, A, p, j, J, C) ==
  J = {q \in B : q <= j.at \/ j.at + j.size <= q} /\ C = A \ {p}

LEMMA FreeFits ==
  ASSUME NEW h, h \in HeapState, MaxHeap \in Nat, h.start <= h.end,
         NEW B, NEW A, Fits(h.tag, h.start, h.end, B, A, A),
         NEW p, NEW y, NEW a, NEW j, NEW t, Frees(h, A, p, y, a, j, t),
         NEW J, NEW C, Remain(B, A, p, j, J, C)
  PROVE  /\ t \in [Unit -> Tag] /\ Fits(t, h.start, h.end, J, C, C)
         /\ Freed(h, B, A, p, y, a, j, J, C, t)
<1> /\ p \in A /\ y = p + h.tag[p].size /\ a = Around(h, p) /\ j = Joined(h, p)
    /\ t = FreeTags(h, p)
  BY DEF Frees
<1> J = {q \in B : q <= j.at \/ j.at + j.size <= q} /\ C = A \ {p}
  BY DEF Remain
<1>s. Span(h.tag, h.start, h.end) /\ h.tag \in [Unit -> Tag]
  BY DEF Span, HeapState
<1>0. Laid(h.tag, h.start, h.end, B)
  BY <1>s, LaidOut
<1>1. /\ p \in B /\ h.end \notin A /\ h.end \notin B /\ A \subseteq B
      /\ h.end \in Nat /\ h.start \in Nat
  <2>1. p \in B /\ h.end \notin A /\ A \subseteq B /\ B \subseteq h.start .. h.end - 1
    BY DEF Fits
  <2>2. h.end \in Nat /\ h.start \in Nat
    BY DEF HeapState
  <2> QED BY <2>1, <2>2
<1>r. Reads(h, B, A, p, y, a, j)
  BY FreeCases
<1>c. /\ a.cur = IF y \in A THEN 3 ELSE 1
      /\ y \notin B <=> a.next = None
      /\ y \in B => a.next = h.tag[y].bits
      /\ a.prev = 3 <=> p # h.start /\ ~ JoinsPrev(a)
      /\ Listed(a) <=> ~ (p = h.start /\ y = h.end)
      /\ JoinsNext(a) <=> y \in B /\ y \notin A
      /\ JoinsPrev(a) => /\ j.at \in B /\ j.at \notin A /\ j.at + h.tag[j.at].size = p
                         /\ j.at = p - h.tag[p - 1].size
      /\ ~ JoinsPrev(a) => j.at = p /\ \A q \in B : q + h.tag[q].size = p => q \in A
      /\ j.size = (p - j.at) + h.tag[p].size + (IF JoinsNext(a) THEN h.tag[y].size ELSE 0)
      /\ j.bits = IF ~Listed(a) \/ a.next = None THEN 0 ELSE IF a.cur = 3 THEN 2 ELSE a.next
  BY <1>r DEF Reads
<1>b. j.bits = IF ~Listed(a) \/ a.next = None THEN 0 ELSE IF a.cur = 3 THEN 2 ELSE a.next
  BY <1>c
<1>2. /\ p \in Nat /\ h.tag[p].size \in Nat /\ h.tag[p].size >= 3 /\ y \in B \cup {h.end}
      /\ y \in Nat /\ p < h.end /\ p < y
  BY <1>0, <1>1 DEF Laid
<1> DEFINE at == j.at
           z == at + j.size
<1>3. at \in B /\ at \in Nat /\ at <= p /\ (at # p => at \notin A /\ at + h.tag[at].size = p)
  <2>1. at \in B
    BY <1>1, <1>c
  <2>2. at \in Nat /\ h.tag[at].size \in Nat
    BY <1>0, <2>1 DEF Laid
  <2> QED BY <1>2, <1>c, <2>1, <2>2
<1>4. /\ z = IF JoinsNext(a) THEN y + h.tag[y].size ELSE y
      /\ z \in Nat /\ y <= z /\ z \in B \cup {h.end} /\ j.size \in Nat /\ j.size >= 3
  <2>1. CASE JoinsNext(a)
    <3>1. h.tag[y].size \in Nat /\ y + h.tag[y].size \in B \cup {h.end}
      BY <1>0, <1>c, <2>1 DEF Laid
    <3>2. j.size = (p - at) + h.tag[p].size + h.tag[y].size
      BY <1>c, <2>1
    <3> HIDE DEF at
    <3>3. j.size \in Nat /\ j.size >= 3
      BY <1>2, <1>3, <3>1, <3>2
    <3>4. z = y + h.tag[y].size
      BY <1>2, <1>3, <3>1, <3>2
    <3> QED BY <1>2, <2>1, <3>1, <3>3, <3>4
  <2>2. CASE ~ JoinsNext(a)
    BY <1>2, <1>3, <1>c, <2>2
  <2> QED BY <2>1, <2>2
<1>5. ASSUME NEW q \in B
      PROVE  q < at \/ q = at \/ q = p \/ (JoinsNext(a) /\ q = y) \/ z <= q
  <2>0. q \in Nat
    BY <1>0 DEF Laid
  <2>1. CASE q < p
    <3>1. CASE at = p
      BY <2>1, <3>1
    <3>2. CASE at # p
      BY <1>0, <1>2, <1>3, <2>0, <2>1, <3>2 DEF Laid
    <3> QED BY <3>1, <3>2
  <2>2. CASE p < q
    <3>1. y <= q
      BY <1>0, <1>1, <2>2 DEF Laid
    <3>2. CASE JoinsNext(a) /\ q # y
      <4>1. y < q /\ y \in B
        BY <1>2, <1>c, <2>0, <3>1, <3>2
      <4> QED BY <1>0, <1>4, <3>2, <4>1 DEF Laid
    <3> QED BY <1>4, <3>1, <3>2
  <2> QED BY <1>2, <2>0, <2>1, <2>2
<1>6. ASSUME NEW q PROVE q \in J <=> q = at \/ (q \in B /\ q # p /\ ~ (JoinsNext(a) /\ q = y))
  <2>1. CASE q \in B
    <3>1. q \in Nat
      BY <1>0, <2>1 DEF Laid
    <3>2. q \in J <=> q <= at \/ z <= q
      BY <2>1
    <3>3. CASE q < at
      BY <1>2, <1>3, <2>1, <3>1, <3>2, <3>3
    <3>4. CASE q = at
      BY <1>3, <3>2, <3>4
    <3>5. CASE q = p
      BY <1>2, <1>3, <1>4, <3>2, <3>5
    <3>6. CASE JoinsNext(a) /\ q = y
      <4>1. h.tag[y].size \in Nat /\ h.tag[y].size >= 3
        BY <1>0, <1>c, <3>6 DEF Laid
      <4> QED BY <1>2, <1>3, <1>4, <3>2, <3>6, <4>1
    <3>7. CASE z <= q
      <4>1. JoinsNext(a) => h.tag[y].size \in Nat /\ h.tag[y].size >= 3
        BY <1>0, <1>c DEF Laid
      <4> QED BY <1>2, <1>3, <1>4, <2>1, <3>1, <3>2, <3>7, <4>1
    <3> QED BY <1>5, <2>1, <3>3, <3>4, <3>5, <3>6, <3>7
  <2>2. CASE q \notin B
    BY <1>3, <2>2
  <2> QED BY <2>1, <2>2
<1>7. C \subseteq J /\ at \in J /\ at \notin C /\ (p # at => p \notin J)
  BY <1>1, <1>3, <1>6, <1>c
<1>8. \A q : q \in J /\ q \notin C <=>
               q = at \/ (q \in B /\ q \notin A /\ ~ (JoinsNext(a) /\ q = y))
  BY <1>1, <1>6, <1>7
<1> HIDE DEF at, z
<1> DEFINE told == IF Listed(a) /\ a.prev = 3 THEN TellPrev(h.tag, p, 0) ELSE h.tag
           b == j.bits
<1>9. t = SetTags(told, at, j.size, b)
  BY DEF FreeTags, at
<1>10. \E T : /\ told \in [Unit -> Tag] /\ \A u \in Unit : told[u].size = h.tag[u].size
              /\ Fits(told, h.start, h.end, B, A, T)
              /\ \A q \in J \ {h.start} : q \in C <=> q \in T
              /\ \A q : q # p => (q \in T <=> q \in A)
  <2>1. CASE a.prev = 3
    <3>1. p # h.start /\ Listed(a) /\ ~ JoinsPrev(a)
      BY <1>c, <2>1
    <3>2. told = TellPrev(h.tag, p, 0)
      BY <2>1, <3>1
    <3>3. p \notin C /\ Alike(B, p, C, A)
      BY DEF Alike
    <3>4. h.end \notin C /\ 0 \in {0, 1}
      BY <1>1
    <3>5. /\ TellPrev(h.tag, p, 0) \in [Unit -> Tag]
          /\ \A u \in Unit : TellPrev(h.tag, p, 0)[u].size = h.tag[u].size
          /\ Fits(TellPrev(h.tag, p, 0), h.start, h.end, B, A, C)
      <4> DEFINE bit == 0
      <4>1. bit \in {0, 1} /\ (bit = 1 <=> p \in C)
        BY <3>3
      <4> HIDE DEF bit
      <4>2. /\ TellPrev(h.tag, p, bit) \in [Unit -> Tag]
            /\ \A u \in Unit : TellPrev(h.tag, p, bit)[u].size = h.tag[u].size
            /\ Fits(TellPrev(h.tag, p, bit), h.start, h.end, B, A, C)
        BY <1>s, <1>1, <3>1, <3>3, <3>4, <4>1, TellFits
      <4> QED BY <4>2 DEF bit
    <3> QED BY <3>2, <3>5
  <2>2. CASE a.prev # 3
    <3>1. told = h.tag
      BY <2>2
    <3>2. p = h.start \/ p \notin J
      BY <1>c, <1>3, <1>7, <2>2 DEF at
    <3> QED BY <1>s, <3>1, <3>2
  <2> QED BY <2>1, <2>2
<1>11. PICK T : /\ told \in [Unit -> Tag] /\ \A u \in Unit : told[u].size = h.tag[u].size
                /\ Fits(told, h.start, h.end, B, A, T)
                /\ \A q \in J \ {h.start} : q \in C <=> q \in T
                /\ \A q : q # p => (q \in T <=> q \in A)
  BY <1>10
<1>p. /\ told \in [Unit -> Tag] /\ \A u \in Unit : told[u].size = h.tag[u].size
      /\ Fits(told, h.start, h.end, B, A, T)
      /\ \A q \in J \ {h.start} : q \in C <=> q \in T
      /\ \A q : q # p => (q \in T <=> q \in A)
  BY <1>11
<1> HIDE DEF told, b
<1>12. b \in 0 .. 3 /\ b = Bits(C, T, at, at + j.size)
  <2>1. at \notin C /\ h.end \notin T
    BY <1>1, <1>2, <1>7, <1>p
  <2>2. Bits(C, T, at, z) = IF z \in T THEN 2 ELSE 0
    BY <2>1 DEF Bits
  <2>3. CASE y \notin B
    <3>1. b = 0 /\ z = h.end
      BY <1>2, <1>4, <1>c, <2>3 DEF b
    <3> QED BY <2>1, <2>2, <3>1 DEF z
  <2>4. CASE y \in A
    <3>1. y \in B /\ Listed(a) /\ a.next # None /\ a.cur = 3 /\ z = y
      BY <1>1, <1>4, <1>c, <2>4
    <3>2. b = 2 /\ y \in T
      <4>1. y \in T
        BY <1>2, <1>p, <2>4
      <4>2. j.bits = 2
        BY <1>b, <3>1
      <4> QED BY <4>1, <4>2 DEF b
    <3> QED BY <2>2, <3>1, <3>2 DEF z
  <2>5. CASE y \in B /\ y \notin A
    <3>1. /\ Listed(a) /\ a.next # None /\ a.cur = 1 /\ JoinsNext(a)
          /\ z = y + h.tag[y].size /\ b = h.tag[y].bits
      <4>1. Listed(a) /\ a.next # None /\ a.cur = 1 /\ JoinsNext(a) /\ a.next = h.tag[y].bits
        BY <1>1, <1>c, <2>5
      <4>2. z = y + h.tag[y].size
        BY <1>4, <4>1
      <4>3. j.bits = h.tag[y].bits
        BY <1>b, <4>1
      <4> QED BY <4>1, <4>2, <4>3 DEF b
    <3>2. h.tag[y].bits = Bits(A, A, y, z)
      BY <2>5, <3>1 DEF Fits
    <3>3. b = IF z \in A THEN 2 ELSE 0
      BY <2>5, <3>1, <3>2 DEF Bits
    <3>4. z # p
      BY <1>2, <1>4
    <3> QED BY <1>p, <2>2, <3>3, <3>4 DEF z
  <2> QED BY <2>3, <2>4, <2>5
<1>13. /\ Span(told, h.start, h.end) /\ at + j.size \in B \cup {h.end}
       /\ J = {q \in B : q <= at \/ at + j.size <= q}
       /\ Alike(J, at, C, A)
  <2>1. Span(told, h.start, h.end)
    BY <1>s, <1>p DEF Span
  <2>2. at + j.size \in B \cup {h.end} /\ J = {q \in B : q <= at \/ at + j.size <= q}
    BY <1>4 DEF z, at
  <2>3. Alike(J, at, C, A)
    BY <1>7 DEF Alike
  <2> QED BY <2>1, <2>2, <2>3
<1>14. /\ t \in [Unit -> Tag]
       /\ \A u \in Unit : t[u] =
            IF u = at \/ u = at + j.size - 1 THEN [size |-> j.size, bits |-> b] ELSE told[u]
       /\ Fits(t, h.start, h.end, J, C, T)
  <2> DEFINE n == j.size
             v == SetTags(told, at, n, b)
  <2>1. at \in B /\ n \in Nat /\ n >= 3 /\ at + n \in B \cup {h.end}
    BY <1>3, <1>4, <1>13
  <2>2. b \in 0 .. 3 /\ b = Bits(C, T, at, at + n)
    BY <1>12
  <2>3. \A q : q \in J <=> q \in B /\ (q <= at \/ at + n <= q)
    BY <1>13
  <2>6. C \subseteq J /\ Alike(J, at, C, A)
    BY <1>7, <1>13
  <2>4. Span(told, h.start, h.end) /\ Fits(told, h.start, h.end, B, A, T)
    BY <1>13, <1>p
  <2> HIDE DEF n
  <2>5. /\ v \in [Unit -> Tag]
        /\ \A u \in Unit : v[u] = IF u = at \/ u = at + n - 1 THEN [size |-> n, bits |-> b] ELSE told[u]
        /\ Fits(v, h.start, h.end, J, C, T)
    <3>1. Covers(B, h.end, J, at, n, z) /\ b = Bits(C, T, at, z)
      <4>1. z = at + n
        BY DEF z, n
      <4> QED BY <2>1, <2>2, <2>3, <4>1 DEF Covers
    <3>2. Fits(v, h.start, h.end, J, C, T)
      BY <3>1, <2>2, <2>4, <2>6, PutFits
    <3>3. at \in Unit /\ at + n - 1 \in Unit /\ n \in 0 .. MaxHeap /\ b \in 0 .. 3
      <4>1. at \in Nat /\ 1 <= at /\ at + n <= MaxHeap + 1
        <5>1. h.start \in Nat /\ 1 <= h.start /\ h.start <= at /\ at \in Nat /\ at < h.end
          BY <1>0, <1>3, <1>s DEF Laid, Span
        <5>2. at + n = z /\ z <= h.end /\ h.end <= MaxHeap + 1
          BY <1>0, <1>1, <1>4, <1>s DEF Laid, Span, z, n
        <5> QED BY <1>1, <1>4, <5>1, <5>2
      <4> QED BY <2>1, <2>2, <4>1 DEF Unit
    <3>4. /\ v \in [Unit -> Tag]
          /\ \A u \in Unit : v[u] = IF u = at \/ u = at + n - 1 THEN [size |-> n, bits |-> b] ELSE told[u]
      BY <1>p, <3>3, SetTagsAt
    <3> QED BY <3>2, <3>4
  <2> HIDE DEF v
  <2> QED BY <1>9, <2>5 DEF v, n
<1>15. Fits(t, h.start, h.end, J, C, C)
  <2>1. Span(t, h.start, h.end)
    BY <1>s, <1>14 DEF Span
  <2>2. h.end \notin C
    BY <1>1
  <2> QED BY <1>14, <1>p, <2>1, <2>2, FitsRetold
<1>16. ASSUME NEW q \in B, q # at
       PROVE  t[q].size = h.tag[q].size /\ t[q].bits % 2 = h.tag[q].bits % 2
  <2>1. /\ q \in Nat /\ q \in Unit /\ q + 2 <= q + h.tag[q].size /\ h.tag[q].size \in Nat
        /\ q + h.tag[q].size \in B \cup {h.end}
    BY <1>0 DEF Laid
  <2>2. q < z => q + h.tag[q].size <= z
    <3>1. CASE z = h.end
      BY <1>0, <3>1 DEF Laid
    <3>2. CASE z \in B
      BY <1>0, <3>2 DEF Laid
    <3> QED BY <1>4, <3>1, <3>2
  <2>3. q # at + j.size - 1
    <3>1. at + j.size - 1 = z - 1
      BY <1>3, <1>4 DEF z
    <3> QED BY <1>4, <2>1, <2>2, <3>1
  <2>4. t[q] = told[q]
    BY <1>14, <1>16, <2>1, <2>3
  <2>5. told[q].bits = Bits(A, T, q, q + told[q].size) /\ h.tag[q].bits = Bits(A, A, q, q + h.tag[q].size)
    BY <1>p DEF Fits
  <2>6. told[q].bits % 2 = h.tag[q].bits % 2
    BY <2>5 DEF Bits
  <2> QED BY <1>p, <2>1, <2>4, <2>6
<1>17. t[at].size = j.size
  <2>1. at \in Unit
    BY <1>0, <1>3 DEF Laid
  <2> QED BY <1>14, <2>1
<1> QED BY <1>4, <1>7, <1>8, <1>14, <1>15, <1>16, <1>17 DEF at, z, Freed

-----------------------------------------------------------------------------
(* A heap h with blocks at B, of which those at Al are allocated.          *)
Stands(h, B, Al) ==
  h \in HeapState /\ h.start <= h.end /\ Fits(h.tag, h.start, h.end, B, Al, Al)

LEMMA StandsMeans ==
  ASSUME MaxHeap \in Nat, NEW h, NEW B, NEW Al, Stands(h, B, Al)
  PROVE  /\ h \in HeapState /\ Span(h.tag, h.start, h.end) /\ Laid(h.tag, h.start, h.end, B)
         /\ Fits(h.tag, h.start, h.end, B, Al, Al) /\ h.start <= h.end /\ h.tag \in [Unit -> Tag]
         /\ h.start \in 1 .. MaxHeap + 1 /\ h.end \in 1 .. MaxHeap + 1 /\ h.end \in Nat /\ h.start \in Nat
         /\ B \subseteq Unit /\ Al \subseteq B
<1>1. h \in HeapState /\ Fits(h.tag, h.start, h.end, B, Al, Al) /\ h.start <= h.end
  BY DEF Stands
<1>2. /\ h.tag \in [Unit -> Tag] /\ h.end \in 1 .. MaxHeap + 1 /\ h.start \in 1 .. MaxHeap + 1
  BY <1>1 DEF HeapState
<1>3. Span(h.tag, h.start, h.end)
  BY <1>1, <1>2 DEF Span
<1>4. Laid(h.tag, h.start, h.end, B)
  BY <1>1, <1>3, LaidOut
<1>5. B \subseteq Unit /\ Al \subseteq B
  BY <1>1, <1>4 DEF Laid, Fits
<1> QED BY <1>1, <1>2, <1>3, <1>4, <1>5

(* What Blocks finds in it. *)
LEMMA StandsBlocks ==
  ASSUME MaxHeap \in Nat, NEW h, NEW B, NEW Al, Stands(h, B, Al)
  PROVE  /\ Blocks(h) = B /\ Astray \notin B
         /\ \A p \in B : IsAllocated(h, p) <=> p \in Al
         /\ h.end = h.brk => Tiled(h)
<1>1. /\ h \in HeapState /\ h.start <= h.end /\ Fits(h.tag, h.start, h.end, B, Al, Al)
  BY DEF Stands
<1>2. Blocks(h) = B
  BY <1>1, BlocksAreB
<1> QED BY <1>1, <1>2, FitsTiled

(* free of the block at p, whose neighbours are a, leaves the heap g with  *)
(* blocks at J, of which C are allocated.                                  *)
Releases(h, B, Al, p, y, a, j, J, C, k, t, g) ==
  /\ p \in Al /\ y = p + h.tag[p].size /\ a = Around(h, p) /\ j = Joined(h, p)
  /\ J = {q \in B : q <= j.at \/ j.at + j.size <= q} /\ C = Al \ {p}
  /\ k = j.at + 1 /\ t = [FreeTags(h, p) EXCEPT ![k] = NoTag] /\ g = [h EXCEPT !.tag = t]

LEMMA FreeStands ==
  ASSUME MaxHeap \in Nat, NEW h, NEW B, NEW Al, Stands(h, B, Al), NEW p, NEW y, NEW a, NEW j,
         NEW J, NEW C, NEW k, NEW t, NEW g, Releases(h, B, Al, p, y, a, j, J, C, k, t, g),
         NEW f, f = FreeTags(h, p)
  PROVE  /\ Reads(h, B, Al, p, y, a, j) /\ Freed(h, B, Al, p, y, a, j, J, C, t)
         /\ Stands(g, J, C) /\ g.tag = t /\ g.start = h.start /\ g.end = h.end /\ g.brk = h.brk
         /\ f \in [Unit -> Tag] /\ \A q \in B : t[q] = f[q]
         /\ j.at \in B /\ k \in Unit /\ j.size \in Nat /\ j.size >= 3
         /\ \A u \in Unit : u # k => t[u] = f[u]
<1> /\ p \in Al /\ y = p + h.tag[p].size /\ a = Around(h, p) /\ j = Joined(h, p)
    /\ J = {q \in B : q <= j.at \/ j.at + j.size <= q} /\ C = Al \ {p}
    /\ k = j.at + 1 /\ t = [FreeTags(h, p) EXCEPT ![k] = NoTag] /\ g = [h EXCEPT !.tag = t]
  BY DEF Releases
<1>1. /\ h \in HeapState /\ Span(h.tag, h.start, h.end) /\ Laid(h.tag, h.start, h.end, B)
      /\ Fits(h.tag, h.start, h.end, B, Al, Al)
      /\ h.start <= h.end /\ h.tag \in [Unit -> Tag] /\ h.end \in Nat /\ h.start \in 1 .. MaxHeap + 1
  BY StandsMeans
<1>2. Reads(h, B, Al, p, y, a, j)
  BY <1>1, FreeCases
<1>4. f \in [Unit -> Tag] /\ Fits(f, h.start, h.end, J, C, C) /\ Freed(h, B, Al, p, y, a, j, J, C, f)
  <2>1. Frees(h, Al, p, y, a, j, f)
    BY DEF Frees
  <2>2. Remain(B, Al, p, j, J, C)
    BY DEF Remain
  <2> QED BY <1>1, <2>1, <2>2, FreeFits
<1>5. p \in B /\ C \subseteq J
  BY <1>1, <1>4 DEF Fits
<1>7. j.at \in J /\ f[j.at].size = j.size
  BY <1>4 DEF Freed
<1>8. j.at \in B /\ j.at \in Nat /\ k \in Nat /\ k \in Unit
  <2>1. j.at \in B
    BY <1>7
  <2> QED BY <1>1, <2>1 DEF Laid
<1>9. Span(f, h.start, h.end)
  BY <1>1, <1>4 DEF Span
<1>10. Laid(f, h.start, h.end, J)
  BY <1>4, <1>9, LaidOut
<1>11. j.size \in Nat /\ j.size >= 3
  BY <1>7, <1>10 DEF Laid
<1>12. t \in [Unit -> Tag] /\ \A u \in Unit : u # k => t[u] = f[u]
  <2>1. NoTag \in Tag
    BY DEF NoTag, Tag
  <2>2. t = [f EXCEPT ![k] = NoTag]
    OBVIOUS
  <2> QED BY <1>4, <2>1, <2>2
<1>13. ASSUME NEW q \in B PROVE q # k /\ t[q] = f[q]
  <2>1. q \in Nat /\ q \in Unit /\ (j.at < q => j.at + h.tag[j.at].size <= q) /\ h.tag[j.at].size \in Nat /\ h.tag[j.at].size >= 3
    BY <1>1, <1>8 DEF Laid
  <2>2. q # k
    BY <1>8, <2>1
  <2> QED BY <1>12, <2>1, <2>2
<1>14. ASSUME NEW q \in J
       PROVE  t[q] = f[q] /\ t[q + f[q].size - 1] = f[q + f[q].size - 1]
  <2>1. q \in Nat /\ f[q].size \in Nat /\ f[q].size >= 3 /\ q + f[q].size - 1 \in Unit
    BY <1>10 DEF Laid
  <2>2. q + f[q].size - 1 # k
    <3>1. CASE q = j.at
      BY <1>7, <1>11, <2>1, <3>1
    <3>2. CASE q # j.at
      <4>1. (q < j.at /\ q + f[q].size <= j.at) \/ (j.at < q /\ j.at + f[j.at].size <= q)
        BY <1>7, <1>10, <3>2, Apart
      <4> QED BY <1>7, <1>8, <1>11, <2>1, <4>1
    <3> QED BY <3>1, <3>2
  <2> QED BY <1>12, <1>13, <2>1, <2>2
<1>15. Fits(t, h.start, h.end, J, C, C)
  <2>1. SameTags(t, f, J)
    BY <1>14 DEF SameTags
  <2> QED BY <1>4, <2>1, FitsAlike
<1>16. Freed(h, B, Al, p, y, a, j, J, C, t)
  BY <1>4, <1>7, <1>8, <1>13 DEF Freed
<1>17. g \in HeapState /\ g.tag = t /\ g.brk = h.brk /\ g.start = h.start /\ g.end = h.end
  BY <1>1, <1>12 DEF HeapState
<1>18. Stands(g, J, C)
  BY <1>1, <1>15, <1>17 DEF Stands
<1> QED BY <1>2, <1>4, <1>8, <1>11, <1>12, <1>13, <1>16, <1>17, <1>18

-----------------------------------------------------------------------------
(* The driver's ranges rs are the allocated blocks, each with room for its *)
(* payload.                                                                *)
Carried(h, Al, rs) ==
  /\ rs \subseteq [lo : Unit, bytes : Requests]
  /\ \A x \in rs : x.lo - 1 \in Al /\ x.bytes <= 8 * (h.tag[x.lo - 1].size - 2)
  /\ \A p \in Al : \E x \in rs : x.lo = p + 1
  /\ \A x, y \in rs : x.lo = y.lo => x = y

LEMMA CarriedMore ==
  ASSUME NEW h, NEW Al, NEW rs, Carried(h, Al, rs), NEW B, Al \subseteq B,
         NEW p, p \in Nat, p \notin Al, p + 1 \in Unit, NEW n, NEW g,
         SizedLike(g.tag, h.tag, B, p, n), g.tag[p].size = n,
         NEW r, r \in Requests, r <= 8 * (n - 2), NEW C, C = Al \cup {p},
         NEW x, x = [lo |-> p + 1, bytes |-> r], NEW q, q = rs \cup {x}
  PROVE  Carried(g, C, q)
<1>1. x \in [lo : Unit, bytes : Requests] /\ x.lo = p + 1 /\ x.bytes = r /\ x.lo - 1 = p
  OBVIOUS
<1>2. /\ rs \subseteq [lo : Unit, bytes : Requests]
      /\ \A z \in rs : z.lo - 1 \in Al /\ z.bytes <= 8 * (h.tag[z.lo - 1].size - 2)
      /\ \A u \in Al : \E z \in rs : z.lo = u + 1
      /\ \A z, y \in rs : z.lo = y.lo => z = y
  BY DEF Carried
<1>3. ASSUME NEW z \in q PROVE z.lo - 1 \in C /\ z.bytes <= 8 * (g.tag[z.lo - 1].size - 2)
  <2>1. CASE z = x
    BY <1>1, <2>1
  <2>2. CASE z \in rs
    <3>1. z.lo - 1 \in Al /\ z.lo - 1 \in B /\ z.lo - 1 # p
      BY <1>2, <2>2
    <3>2. g.tag[z.lo - 1].size = h.tag[z.lo - 1].size
      BY <3>1 DEF SizedLike
    <3> QED BY <1>2, <2>2, <3>1, <3>2
  <2> QED BY <2>1, <2>2
<1>4. \A u \in C : \E z \in q : z.lo = u + 1
  BY <1>1, <1>2
<1>5. ASSUME NEW z \in q, NEW y \in q, z.lo = y.lo PROVE z = y
  <2>1. \A w \in rs : w.lo # x.lo
    BY <1>1, <1>2
  <2> QED BY <1>2, <1>5, <2>1
<1> QED BY <1>1, <1>2, <1>3, <1>4, <1>5 DEF Carried

Without(g, h, Al, rs, p, C, q) ==
  /\ \A u \in Al : u # p => g.tag[u].size = h.tag[u].size
  /\ C = Al \ {p} /\ q = {x \in rs : x.lo # p + 1}
LEMMA CarriedLess ==
  ASSUME MaxHeap \in Nat, NEW h, NEW Al, NEW rs, Carried(h, Al, rs), NEW p, p \in Nat, NEW g,
         Al \subseteq Nat, NEW C, NEW q, Without(g, h, Al, rs, p, C, q)
  PROVE  Carried(g, C, q)
<1> /\ \A u \in Al : u # p => g.tag[u].size = h.tag[u].size
    /\ C = Al \ {p} /\ q = {x \in rs : x.lo # p + 1}
  BY DEF Without
<1>2. /\ rs \subseteq [lo : Unit, bytes : Requests]
      /\ \A z \in rs : z.lo - 1 \in Al /\ z.bytes <= 8 * (h.tag[z.lo - 1].size - 2)
      /\ \A u \in Al : \E z \in rs : z.lo = u + 1
      /\ \A z, y \in rs : z.lo = y.lo => z = y
  BY DEF Carried
<1>3. ASSUME NEW z \in q PROVE z.lo - 1 \in C /\ z.bytes <= 8 * (g.tag[z.lo - 1].size - 2)
  <2>1. z \in rs /\ z.lo # p + 1 /\ z.lo \in Nat
    BY <1>2 DEF Unit
  <2>2. z.lo - 1 \in Al /\ z.lo - 1 # p
    BY <1>2, <2>1
  <2>3. g.tag[z.lo - 1].size = h.tag[z.lo - 1].size
    BY <2>2
  <2> QED BY <1>2, <2>1, <2>2, <2>3
<1>4. ASSUME NEW u \in C PROVE \E z \in q : z.lo = u + 1
  <2>1. PICK z \in rs : z.lo = u + 1
    BY <1>2
  <2>2. z.lo - 1 \in Al /\ z.lo \in Nat /\ u # p
    BY <1>2, <2>1 DEF Unit
  <2>3. u \in Nat
    OBVIOUS
  <2>4. z.lo # p + 1
    BY <2>1, <2>2, <2>3
  <2> QED BY <2>1, <2>4
<1>5. \A z, y \in q : z.lo = y.lo => z = y
  BY <1>2
<1> QED BY <1>2, <1>3, <1>4, <1>5 DEF Carried

(* Where mm_exit may be: at a block before which all are free, or at the   *)
(* header, still in memory, of a block that was joined with the one before *)
(* it when that was freed.                                                 *)
Tracked(h, B, Al, k) ==
  \/ k \in B \cup {h.end} /\ \A p \in Al : k <= p
  \/ /\ k \in Unit /\ k < h.end /\ ~ IsAllocated(h, k)
     /\ k + h.tag[k].size \in B \cup {h.end} /\ \A p \in Al : k + h.tag[k].size <= p

LEMMA TrackedAt ==
  ASSUME MaxHeap \in Nat, NEW h, NEW B, NEW Al, Stands(h, B, Al), NEW k, Tracked(h, B, Al, k)
  PROVE  /\ k \in 1 .. MaxHeap + 1
         /\ k < h.end /\ IsAllocated(h, k) => k \in Al /\ \A q \in Al : k <= q
         /\ k < h.end /\ ~ IsAllocated(h, k) => Tracked(h, B, Al, k + h.tag[k].size)
         /\ k >= h.end => Al = {}
<1>1. /\ Laid(h.tag, h.start, h.end, B) /\ Fits(h.tag, h.start, h.end, B, Al, Al) /\ h.end \in Nat
      /\ h \in HeapState /\ h.start <= h.end
  BY StandsMeans
<1>2. h.end \in 1 .. MaxHeap + 1
  BY <1>1 DEF HeapState
<1>3. Al \subseteq B /\ \A q \in B : IsAllocated(h, q) <=> q \in Al
  <2>1. \A q \in B : IsAllocated(h, q) <=> q \in Al
    BY <1>1, FitsTiled
  <2> QED BY <1>1, <2>1 DEF Fits
<1>4. \A q \in B : q \in Nat /\ q \in Unit /\ q < h.end /\ h.tag[q].size \in Nat
  BY <1>1 DEF Laid
<1>5. CASE k \in B \cup {h.end} /\ \A p \in Al : k <= p
  <2>1. k \in 1 .. MaxHeap + 1 /\ (k < h.end <=> k \in B) /\ (k >= h.end <=> k = h.end)
    BY <1>2, <1>4, <1>5 DEF Unit
  <2>2. ASSUME k \in B, k \notin Al PROVE Tracked(h, B, Al, k + h.tag[k].size)
    <3>1. k + h.tag[k].size \in B \cup {h.end}
      BY <1>1, <2>2 DEF Laid
    <3>2. ASSUME NEW q \in Al PROVE k + h.tag[k].size <= q
      <4>1. k < q /\ q \in B
        BY <1>3, <1>4, <1>5, <2>2
      <4> QED BY <1>1, <2>2, <4>1 DEF Laid
    <3> QED BY <3>1, <3>2 DEF Tracked
  <2>3. k = h.end => Al = {}
    BY <1>3, <1>4, <1>5, <1>2
  <2> QED BY <1>3, <1>5, <2>1, <2>2, <2>3
<1>6. CASE /\ k \in Unit /\ k < h.end /\ ~ IsAllocated(h, k)
           /\ k + h.tag[k].size \in B \cup {h.end} /\ \A p \in Al : k + h.tag[k].size <= p
  <2>1. k \in 1 .. MaxHeap + 1 /\ ~ (k >= h.end)
    BY <1>2, <1>6 DEF Unit
  <2>2. Tracked(h, B, Al, k + h.tag[k].size)
    BY <1>6 DEF Tracked
  <2> QED BY <1>6, <2>1, <2>2
<1> QED BY <1>5, <1>6 DEF Tracked

(* It goes on after freeing the block at p, by the size then in its header. *)
LEMMA TrackedFree ==
  ASSUME MaxHeap \in Nat, NEW h, NEW B, NEW Al, Stands(h, B, Al), NEW p, p \in Al,
         \A q \in Al : p <= q, NEW y, y = p + h.tag[p].size, NEW a, NEW j,
         Reads(h, B, Al, p, y, a, j), NEW J, NEW C, C = Al \ {p}, NEW g, Stands(g, J, C),
         NEW t, t = g.tag, Freed(h, B, Al, p, y, a, j, J, C, t), g.end = h.end
  PROVE  Tracked(g, J, C, p + g.tag[p].size)
<1>1. /\ Laid(h.tag, h.start, h.end, B) /\ Fits(h.tag, h.start, h.end, B, Al, Al) /\ h.end \in Nat
      /\ h \in HeapState /\ h.start <= h.end
  BY StandsMeans
<1>2. Laid(t, g.start, h.end, J) /\ C \subseteq J
  <2>1. Laid(g.tag, g.start, g.end, J) /\ Fits(g.tag, g.start, g.end, J, C, C)
    BY StandsMeans
  <2> QED BY <2>1 DEF Fits
<1>3. Al \subseteq B /\ p \in B
  BY <1>1 DEF Fits
<1>4. /\ p \in Nat /\ h.tag[p].size \in Nat /\ h.tag[p].size >= 3 /\ y \in B \cup {h.end}
      /\ y \in Nat
  BY <1>1, <1>3 DEF Laid
<1>5. /\ j.at \in J /\ t[j.at].size = j.size /\ j.at + j.size \in J \cup {h.end}
      /\ \A q \in J : j.at < q => j.at + j.size <= q
  BY <1>2 DEF Freed, Laid
<1>6. \A q \in C : q \in Al /\ q \in J /\ q \in Nat /\ p < q
  <2>1. \A q \in Al : q \in Nat
    BY <1>1, <1>3 DEF Laid
  <2> SUFFICES ASSUME NEW q \in C PROVE q \in Al /\ q \in J /\ q \in Nat /\ p < q
    OBVIOUS
  <2>2. q \in Al /\ q # p /\ q \in J
    BY <1>2
  <2>3. p <= q /\ q \in Nat
    BY <2>1, <2>2
  <2> QED BY <1>4, <2>2, <2>3
<1>7. CASE j.at = p
  BY <1>5, <1>6, <1>7 DEF Tracked
<1>8. CASE j.at # p
  <2>1. t[p].size = h.tag[p].size
    BY <1>3, <1>8 DEF Freed
  <2>2. JoinsPrev(a) /\ (JoinsNext(a) <=> y \in B /\ y \notin Al)
    BY <1>8 DEF Reads
  <2>3. \A q \in C : y <= q
    BY <1>1, <1>3, <1>6 DEF Laid
  <2>4. CASE ~ JoinsNext(a)
    <3>1. y \in J \cup {h.end}
      BY <1>5, <2>4 DEF Freed
    <3> QED BY <2>1, <2>3, <3>1 DEF Tracked
  <2>5. CASE JoinsNext(a)
    <3>1. y \in B /\ y \notin Al
      BY <2>2, <2>5
    <3>2. y \in Unit /\ y < h.end
      BY <1>1, <3>1 DEF Laid
    <3>3. j.at < p
      <4>1. j.at \in B /\ j.at + h.tag[j.at].size = p
        BY <2>2 DEF Reads
      <4>2. j.at \in Nat /\ h.tag[j.at].size \in Nat /\ h.tag[j.at].size >= 3
        BY <1>1, <4>1 DEF Laid
      <4> QED BY <4>1, <4>2
    <3>4. j.at # y
      <4>1. j.at \in Nat
        BY <1>2, <1>5 DEF Laid
      <4> QED BY <1>4, <3>3, <4>1
    <3>5. t[y].size = h.tag[y].size /\ t[y].bits % 2 = h.tag[y].bits % 2
      BY <3>1, <3>4 DEF Freed
    <3>6. ~ IsAllocated(h, y)
      <4>1. \A q \in B : IsAllocated(h, q) <=> q \in Al
        BY <1>1, FitsTiled
      <4> QED BY <3>1, <4>1
    <3>7. ~ IsAllocated(g, y)
      BY <3>5, <3>6 DEF IsAllocated
    <3>8. y + t[y].size \in J \cup {h.end}
      <4>1. j.at + j.size = y + h.tag[y].size
        BY <2>5 DEF Freed
      <4> QED BY <1>5, <3>5, <4>1
    <3>9. ASSUME NEW q \in C PROVE y + t[y].size <= q
      <4>1. y < q /\ q \in B
        BY <1>3, <1>4, <1>6, <2>3, <3>1
      <4> QED BY <1>1, <3>1, <3>5, <4>1 DEF Laid
    <3> QED BY <2>1, <3>2, <3>7, <3>8, <3>9 DEF Tracked
  <2> QED BY <2>4, <2>5
<1> QED BY <1>7, <1>8

-----------------------------------------------------------------------------
(* Payloads lie between header and footer of their blocks, so they are in  *)
(* the heap and share no byte.                                             *)
LastUnit(x) == x.lo + (x.bytes - 1) \div 8

LEMMA PayloadFits ==
  ASSUME MaxHeap \in Nat, NEW h, NEW B, NEW Al, Stands(h, B, Al), NEW rs, Carried(h, Al, rs),
         Requests \subseteq Nat \ {0}, NEW x, x \in rs, NEW p, p = x.lo - 1
  PROVE  /\ p \in B /\ p \in Nat /\ x.lo = p + 1 /\ x.lo \in Unit /\ x.bytes \in Requests
         /\ LastUnit(x) \in Nat /\ LastUnit(x) <= p + h.tag[p].size - 2 /\ LastUnit(x) <= MaxHeap
<1>1. /\ Laid(h.tag, h.start, h.end, B) /\ Fits(h.tag, h.start, h.end, B, Al, Al)
      /\ h \in HeapState
  BY StandsMeans
<1>2. /\ x \in [lo : Unit, bytes : Requests] /\ p \in Al /\ x.bytes <= 8 * (h.tag[p].size - 2)
  BY DEF Carried
<1>3. p \in B /\ h.end \in 1 .. MaxHeap + 1
  BY <1>1, <1>2 DEF Fits, HeapState
<1>4. /\ p \in Nat /\ h.tag[p].size \in Nat /\ h.tag[p].size >= 3 /\ p + h.tag[p].size <= h.end
  BY <1>1, <1>3 DEF Laid
<1>5. x.lo \in Unit /\ x.bytes \in Requests /\ x.bytes \in Nat /\ x.bytes >= 1
  <2>1. x.lo \in Unit /\ x.bytes \in Requests
    BY <1>2
  <2>2. \A r \in Requests : r \in Nat /\ r >= 1
    OBVIOUS
  <2> QED BY <2>1, <2>2
<1>6. x.lo = p + 1
  BY <1>4, <1>5 DEF Unit
<1>7. PICK z \in Nat : z = (x.bytes - 1) \div 8
  BY <1>5
<1>8. z <= h.tag[p].size - 3
  BY <1>2, <1>4, <1>5, <1>7
<1>9. LastUnit(x) = p + 1 + z
  BY <1>6, <1>7 DEF LastUnit
<1> QED BY <1>3, <1>4, <1>5, <1>6, <1>8, <1>9

LEMMA PayloadsApart ==
  ASSUME MaxHeap \in Nat, NEW h, NEW B, NEW Al, Stands(h, B, Al), NEW rs, Carried(h, Al, rs),
         Requests \subseteq Nat \ {0}, NEW x, x \in rs, NEW y, y \in rs, x # y
  PROVE  ~ (x.lo <= LastUnit(y) /\ y.lo <= LastUnit(x))
<1>1. PICK p, q : p = x.lo - 1 /\ q = y.lo - 1
  OBVIOUS
<1>2. /\ p \in B /\ p \in Nat /\ x.lo = p + 1
      /\ LastUnit(x) \in Nat /\ LastUnit(x) <= p + h.tag[p].size - 2
  BY <1>1, PayloadFits
<1>3. /\ q \in B /\ q \in Nat /\ y.lo = q + 1
      /\ LastUnit(y) \in Nat /\ LastUnit(y) <= q + h.tag[q].size - 2
  BY <1>1, PayloadFits
<1>4. p # q
  BY <1>2, <1>3 DEF Carried
<1>5. Laid(h.tag, h.start, h.end, B)
  BY StandsMeans
<1>6. h.tag[p].size \in Nat /\ h.tag[q].size \in Nat
  BY <1>2, <1>3, <1>5 DEF Laid
<1>7. CASE p < q
  <2>1. p + h.tag[p].size <= q
    BY <1>2, <1>3, <1>5, <1>7 DEF Laid
  <2> QED BY <1>2, <1>3, <1>6, <2>1
<1>8. CASE q < p
  <2>1. q + h.tag[q].size <= p
    BY <1>2, <1>3, <1>5, <1>8 DEF Laid
  <2> QED BY <1>2, <1>3, <1>6, <2>1
<1> QED BY <1>2, <1>3, <1>4, <1>7, <1>8
=============================================================================
