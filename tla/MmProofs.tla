------------------------------ MODULE MmProofs ------------------------------
(***************************************************************************)
(* That the allocator with the red-black tree keeps its heap and its tree, *)
(* for every size of the heap, all requests of at least one byte and all   *)
(* limits of the prediction: HeapProofs about the tags, FreeBlocksProofs   *)
(* about the tree, and here what mm_malloc, mm_free and mm_exit make of    *)
(* the two together.                                                       *)
(***************************************************************************)
EXTENDS Mm, HeapProofs, FreeBlocksProofs, TLAPS

(* The nodes of the tree are the addresses of the heap. *)
HasRoom == /\ MaxHeap \in Nat /\ Node = Unit /\ Requests \subseteq Nat \ {0}
           /\ AllocNumMin \in Nat /\ AllocNumMinInit \in Nat

LEMMA NodesAreUnits ==
  ASSUME HasRoom PROVE Null \notin Node /\ Node \subseteq Nat /\ Node = Unit
BY DEF HasRoom, Null, Unit

LEMMA KeyOf ==
  ASSUME HasRoom, NEW h, h.tag \in [Unit -> Tag]
  PROVE  SizeIn(h) \in [Node -> Nat] /\ \A p \in Unit : SizeIn(h)[p] = h.tag[p].size
<1>1. \A p \in Unit : h.tag[p].size \in Nat
  BY DEF Tag
<1> QED BY <1>1 DEF SizeIn, HasRoom

(* The tree looks at the sizes of the blocks in it only.                   *)
LEMMA SameKey ==
  ASSUME NEW t, NEW F, NEW key, NEW k, TreeHolds(t, F, key), \A q \in F : k[q] = key[q]
  PROVE  TreeHolds(t, F, k)
BY DEF TreeHolds, Sorted

LEMMA TreeHoldsTypes ==
  ASSUME NEW t, NEW F, NEW key, TreeHolds(t, F, key)
  PROVE  t \in Tree /\ F \subseteq Node /\ Null \notin F
BY DEF TreeHolds, Balanced, Framed

-----------------------------------------------------------------------------
(* Heap and tree: blocks at B tile the heap from its first unit to the     *)
(* break, those at Al are allocated, the others are in the tree by size.   *)
Kept(h, t, B, Al) ==
  /\ Stands(h, B, Al) /\ h.start = 1 /\ h.end = h.brk
  /\ TreeHolds(t, B \ Al, SizeIn(h))

LEMMA KeptMeans ==
  ASSUME HasRoom, NEW h, NEW t, NEW B, NEW Al, Kept(h, t, B, Al)
  PROVE  /\ h \in HeapState /\ Span(h.tag, h.start, h.end) /\ Laid(h.tag, h.start, h.end, B)
         /\ Fits(h.tag, h.start, h.end, B, Al, Al) /\ h.start <= h.end /\ h.tag \in [Unit -> Tag]
         /\ h.start = 1 /\ h.end = h.brk /\ h.end \in 1 .. MaxHeap + 1 /\ h.end \in Nat
         /\ B \subseteq Unit /\ Al \subseteq B /\ MaxHeap \in Nat
         /\ SizeIn(h) \in [Node -> Nat] /\ \A p \in Unit : SizeIn(h)[p] = h.tag[p].size
         /\ t \in Tree /\ Stands(h, B, Al) /\ TreeHolds(t, B \ Al, SizeIn(h))
<1>1. Stands(h, B, Al) /\ h.start = 1 /\ h.end = h.brk /\ MaxHeap \in Nat /\ TreeHolds(t, B \ Al, SizeIn(h))
  BY DEF Kept, HasRoom
<1>2. /\ h \in HeapState /\ Span(h.tag, h.start, h.end) /\ Laid(h.tag, h.start, h.end, B)
      /\ Fits(h.tag, h.start, h.end, B, Al, Al) /\ h.start <= h.end /\ h.tag \in [Unit -> Tag]
      /\ h.end \in 1 .. MaxHeap + 1 /\ h.end \in Nat /\ B \subseteq Unit /\ Al \subseteq B
  BY <1>1, StandsMeans
<1>3. SizeIn(h) \in [Node -> Nat] /\ \A p \in Unit : SizeIn(h)[p] = h.tag[p].size
  BY <1>2, KeyOf
<1>4. t \in Tree
  BY <1>1, TreeHoldsTypes
<1> QED BY <1>1, <1>2, <1>3, <1>4

(* A heap like h with other tags. *)
LEMMA Retag ==
  ASSUME NEW h, h \in HeapState, NEW tag, tag \in [Unit -> Tag], NEW g, g = [h EXCEPT !.tag = tag]
  PROVE  g \in HeapState /\ g.tag = tag /\ g.brk = h.brk /\ g.start = h.start /\ g.end = h.end
BY DEF HeapState

(* The blocks in X have in g the sizes that they have in h. *)
Alikesized(g, h, X) == \A q \in X : g.tag[q].size = h.tag[q].size

(* The tree stays in order when the heap changes around its blocks. *)
LEMMA RekeyedHolds ==
  ASSUME HasRoom, NEW h, NEW g, h.tag \in [Unit -> Tag], g.tag \in [Unit -> Tag],
         NEW t, NEW F, TreeHolds(t, F, SizeIn(h)), Alikesized(g, h, F)
  PROVE  TreeHolds(t, F, SizeIn(g))
<1>1. F \subseteq Unit
  BY TreeHoldsTypes DEF HasRoom
<1>2. \A q \in F : SizeIn(g)[q] = SizeIn(h)[q]
  BY <1>1, KeyOf DEF Alikesized
<1> QED BY <1>2, SameKey

(* The user's data is written into the block at p.                         *)
LEMMA ReturnKeeps ==
  ASSUME HasRoom, NEW h, NEW t, NEW B, NEW Al, Kept(h, t, B, Al), NEW p, p \in B,
         NEW g, g = [h EXCEPT !.tag = Use(@, p, h.tag[p].size)]
  PROVE  Kept(g, t, B, Al) /\ g.brk = h.brk /\ Alikesized(g, h, B)
<1>1. /\ h \in HeapState /\ Span(h.tag, h.start, h.end) /\ Fits(h.tag, h.start, h.end, B, Al, Al)
      /\ h.start <= h.end /\ h.tag \in [Unit -> Tag] /\ h.start = 1 /\ h.end = h.brk
      /\ TreeHolds(t, B \ Al, SizeIn(h))
  BY KeptMeans
<1>2. PICK u : u = Use(h.tag, p, h.tag[p].size)
  OBVIOUS
<1>3. u \in [Unit -> Tag] /\ (\A q \in B : u[q] = h.tag[q]) /\ Fits(u, h.start, h.end, B, Al, Al)
  BY <1>1, <1>2, UseFits
<1>4. g \in HeapState /\ g.tag = u /\ g.brk = h.brk /\ g.start = h.start /\ g.end = h.end
  <2>1. g = [h EXCEPT !.tag = u]
    BY <1>2
  <2> QED BY ONLY <1>1, <1>3, <2>1, Retag
<1>5. Alikesized(g, h, B)
  BY <1>3, <1>4 DEF Alikesized
<1>6. TreeHolds(t, B \ Al, SizeIn(g))
  <2>1. Alikesized(g, h, B \ Al)
    BY <1>5 DEF Alikesized
  <2> QED BY <1>1, <1>3, <1>4, <2>1, RekeyedHolds
<1> QED BY <1>1, <1>3, <1>4, <1>5, <1>6 DEF Kept, Stands

-----------------------------------------------------------------------------
(* mm_malloc takes the whole of the free block at p.                       *)
WholeTags(h, p) ==
  LET told == IF p = h.start THEN h.tag ELSE TellPrev(h.tag, p, 1)
  IN SetTags(told, p, h.tag[p].size, 2 * (h.tag[p].bits \div 2) + 1)

LEMMA WholeFits ==
  ASSUME MaxHeap \in Nat, NEW h, NEW B, NEW Al, Stands(h, B, Al), NEW p, p \in B, p \notin Al,
         NEW C, C = Al \cup {p}, NEW t, t = WholeTags(h, p)
  PROVE  /\ t \in [Unit -> Tag] /\ Fits(t, h.start, h.end, B, C, C)
         /\ \A q \in B : t[q].size = h.tag[q].size
<1>1. PICK tag, start, end, n : tag = h.tag /\ start = h.start /\ end = h.end /\ n = tag[p].size
  OBVIOUS
<1>2. /\ Span(tag, start, end) /\ Laid(tag, start, end, B) /\ Fits(tag, start, end, B, Al, Al)
      /\ tag \in [Unit -> Tag] /\ end \in Nat /\ Al \subseteq B
  BY <1>1, StandsMeans
<1>3. PICK told : told = IF p = start THEN tag ELSE TellPrev(tag, p, 1)
  OBVIOUS
<1>4. PICK b : b = 2 * (tag[p].bits \div 2) + 1
  OBVIOUS
<1>5. t = SetTags(told, p, n, b)
  BY <1>1, <1>3, <1>4 DEF WholeTags
<1>6. /\ p \in Nat /\ p \in Unit /\ p < end /\ n \in Nat /\ n >= 3 /\ p + n <= end
      /\ p + n \in B \cup {end} /\ p + n - 1 \in Unit /\ n \in 0 .. MaxHeap
  <2>1. /\ p \in Nat /\ p \in Unit /\ p < end /\ n \in Nat /\ n >= 3 /\ p + n <= end
        /\ p + n \in B \cup {end} /\ p + n - 1 \in Unit
    BY <1>1, <1>2 DEF Laid
  <2>2. n \in 0 .. MaxHeap
    BY <2>1 DEF Unit
  <2> QED BY <2>1, <2>2
<1>7. end \notin C /\ p \in C /\ C \subseteq B /\ Alike(B, p, C, Al)
  BY <1>2, <1>6 DEF Fits, Alike
<1>8. /\ told \in [Unit -> Tag] /\ \A u \in Unit : told[u].size = tag[u].size
      /\ Fits(told, start, end, B, Al, C)
  <2>1. CASE p = start
    <3>1. \A q \in B \ {start} : q \in C <=> q \in Al
      BY <2>1
    <3>2. Fits(tag, start, end, B, Al, C)
      BY <1>2, <1>7, <3>1, FitsRetold
    <3> QED BY <1>2, <1>3, <2>1, <3>2
  <2>2. CASE p # start
    <3>1. PICK bit \in {0, 1} : bit = 1
      OBVIOUS
    <3>2. told = TellPrev(tag, p, bit)
      BY <1>3, <2>2, <3>1
    <3>3. /\ TellPrev(tag, p, bit) \in [Unit -> Tag]
          /\ \A u \in Unit : TellPrev(tag, p, bit)[u].size = tag[u].size
          /\ Fits(TellPrev(tag, p, bit), start, end, B, Al, C)
      BY <1>2, <1>7, <2>2, <3>1, TellFits
    <3> QED BY <3>2, <3>3
  <2> QED BY <2>1, <2>2
<1>9. b = Bits(C, C, p, p + n) /\ b \in 0 .. 3
  <2>1. tag[p].bits = Bits(Al, Al, p, p + n)
    BY <1>1, <1>2 DEF Fits
  <2>2. p + n # p
    BY <1>6
  <2>3. b = IF p + n \in Al THEN 3 ELSE 1
    BY <1>4, <2>1 DEF Bits
  <2> QED BY <1>7, <2>2, <2>3 DEF Bits
<1>10. t \in [Unit -> Tag] /\ Fits(t, start, end, B, C, C)
  <2>1. Covers(B, end, B, p, n, p + n)
    <3>1. ASSUME NEW q \in B PROVE q <= p \/ p + n <= q
      <4>1. q \in Nat /\ (p < q => p + n <= q)
        BY <1>1, <1>2 DEF Laid
      <4> QED BY <1>6, <4>1
    <3> QED BY <1>6, <3>1 DEF Covers
  <2>2. Span(told, start, end)
    BY <1>2, <1>8 DEF Span
  <2>3. PICK e : e = p + n
    OBVIOUS
  <2>4. /\ Span(told, start, end) /\ Fits(told, start, end, B, Al, C) /\ Covers(B, end, B, p, n, e)
        /\ b = Bits(C, C, p, e) /\ C \subseteq B /\ Alike(B, p, C, Al)
    BY <1>7, <1>8, <1>9, <2>1, <2>2, <2>3
  <2>5. SetTags(told, p, n, b) \in [Unit -> Tag] /\ Fits(SetTags(told, p, n, b), start, end, B, C, C)
    <3>1. Fits(SetTags(told, p, n, b), start, end, B, C, C)
      BY ONLY <2>4, PutFits
    <3>2. SetTags(told, p, n, b) \in [Unit -> Tag]
      BY <1>6, <1>8, <1>9, SetTagsAt
    <3> QED BY <3>1, <3>2
  <2> QED BY <1>5, <2>5
<1>11. ASSUME NEW q \in B PROVE t[q].size = tag[q].size
  <2>1. \A u \in Unit : t[u] = IF u = p \/ u = p + n - 1 THEN [size |-> n, bits |-> b] ELSE told[u]
    <3>1. PICK f : f = p + n - 1
      OBVIOUS
    <3>2. told \in [Unit -> Tag] /\ p \in Unit /\ n \in 0 .. MaxHeap /\ b \in 0 .. 3 /\ f \in Unit
      BY <1>6, <1>8, <1>9, <3>1
    <3>3. \A u \in Unit : SetTags(told, p, n, b)[u] =
            IF u = p \/ u = f THEN [size |-> n, bits |-> b] ELSE told[u]
      BY ONLY <3>1, <3>2, SetTagsAt
    <3> QED BY <1>5, <3>1, <3>3
  <2>2. q \in Unit /\ q \in Nat /\ (p < q => p + n <= q)
    BY <1>1, <1>2 DEF Laid
  <2>3. CASE q = p
    BY <1>1, <2>1, <2>2, <2>3
  <2>4. CASE q # p
    <3>1. q # p + n - 1
      BY <1>6, <2>2
    <3> QED BY <1>8, <2>1, <2>2, <2>4, <3>1
  <2> QED BY <2>3, <2>4
<1> QED BY <1>1, <1>10, <1>11

LEMMA WholeKeeps ==
  ASSUME HasRoom, NEW h, NEW t, NEW B, NEW Al, Kept(h, t, B, Al), NEW p, p \in B, p \notin Al,
         NEW C, C = Al \cup {p}, NEW g, g = [h EXCEPT !.tag = WholeTags(h, p)]
  PROVE  Kept(g, Delete(t, p), B, C) /\ g.brk = h.brk /\ Alikesized(g, h, B)
<1>1. /\ h \in HeapState /\ h.start <= h.end /\ h.tag \in [Unit -> Tag] /\ h.start = 1 /\ h.end = h.brk
      /\ Stands(h, B, Al) /\ TreeHolds(t, B \ Al, SizeIn(h)) /\ MaxHeap \in Nat
      /\ SizeIn(h) \in [Node -> Nat]
  BY KeptMeans
<1>2. PICK u : u = WholeTags(h, p)
  OBVIOUS
<1>3. u \in [Unit -> Tag] /\ Fits(u, h.start, h.end, B, C, C) /\ \A q \in B : u[q].size = h.tag[q].size
  BY ONLY <1>1, <1>2, p \in B, p \notin Al, C = Al \cup {p}, WholeFits, SMTT(30)
<1>4. g \in HeapState /\ g.tag = u /\ g.brk = h.brk /\ g.start = h.start /\ g.end = h.end
  BY <1>1, <1>2, <1>3, Retag
<1>5. Alikesized(g, h, B)
  BY <1>3, <1>4 DEF Alikesized
<1>6. TreeHolds(Delete(t, p), B \ C, SizeIn(g))
  <2>1. PICK F : F = B \ Al
    OBVIOUS
  <2>2. TreeHolds(Delete(t, p), F \ {p}, SizeIn(h))
    BY <1>1, <2>1, DeleteHolds
  <2>3. F \ {p} = B \ C
    BY <2>1
  <2>4. Alikesized(g, h, B \ C)
    BY <1>5 DEF Alikesized
  <2> QED BY <1>1, <1>3, <1>4, <2>2, <2>3, <2>4, RekeyedHolds
<1> QED BY <1>1, <1>3, <1>4, <1>5, <1>6 DEF Kept, Stands

-----------------------------------------------------------------------------
(* mm_malloc takes the last n units of the free block at q, from p; the    *)
(* first m go back to the tree.                                            *)
SplitTags(h, q, n, m, p) ==
  LET next == IF p + n # h.end /\ h.tag[p + n].bits % 2 = 1 THEN 2 ELSE 0
  IN SetTags(SetTags(h.tag, p, n, next + 1), q, m, 2)

Splitting(h, B, Al, q, n, m, p, u, g) ==
  /\ q \in B /\ q \notin Al /\ n \in Nat /\ n >= 3 /\ m \in Nat /\ m >= 3
  /\ h.tag[q].size = m + n /\ p = q + m
  /\ u = SplitTags(h, q, n, m, p) /\ g = [h EXCEPT !.tag = u]

SameEnds(g, h) == g.brk = h.brk /\ g.start = h.start /\ g.end = h.end
BlockSize(h, p) == h.tag[p].size

LEMMA SplitStands ==
  ASSUME MaxHeap \in Nat, NEW h, NEW B, NEW Al, Stands(h, B, Al),
         NEW q, NEW n, NEW m, NEW p, NEW u, NEW g, Splitting(h, B, Al, q, n, m, p, u, g)
  PROVE  /\ p \in Unit /\ p \notin B /\ Stands(g, B \cup {p}, Al \cup {p})
         /\ SameEnds(g, h) /\ g \in HeapState
         /\ SizedLike(g.tag, h.tag, B, q, m) /\ BlockSize(g, p) = n
<1> /\ q \in B /\ q \notin Al /\ n \in Nat /\ n >= 3 /\ m \in Nat /\ m >= 3
    /\ h.tag[q].size = m + n /\ p = q + m
    /\ u = SplitTags(h, q, n, m, p) /\ g = [h EXCEPT !.tag = u]
  BY DEF Splitting
<1>1. PICK tag, start, end : tag = h.tag /\ start = h.start /\ end = h.end
  OBVIOUS
<1>2. Span(tag, start, end) /\ Fits(tag, start, end, B, Al, Al) /\ h \in HeapState /\ h.start <= h.end
  BY <1>1, StandsMeans
<1>3. SplitsBack(tag, end, B, Al, q, n, m, p, u)
  BY <1>1 DEF SplitsBack, SplitTags
<1>4. PICK X, C : X = B \cup {p} /\ C = Al \cup {p}
  OBVIOUS
<1>5. /\ p \in Unit /\ p \notin B
      /\ u \in [Unit -> Tag] /\ SizedLike(u, tag, B, q, m) /\ u[p].size = n
      /\ Fits(u, start, end, X, C, C)
  BY ONLY <1>2, <1>3, <1>4, SplitBackFits
<1>6. g \in HeapState /\ g.tag = u /\ g.brk = h.brk /\ g.start = h.start /\ g.end = h.end
  <2>1. g = [h EXCEPT !.tag = u]
    OBVIOUS
  <2> QED BY ONLY <1>2, <1>5, <2>1, Retag
<1>7. Stands(g, X, C)
  BY <1>1, <1>2, <1>5, <1>6 DEF Stands
<1> QED BY <1>1, <1>4, <1>5, <1>6, <1>7 DEF SameEnds, BlockSize

LEMMA SplitKeeps ==
  ASSUME HasRoom, NEW h, NEW t, NEW B, NEW Al, Kept(h, t, B, Al),
         NEW q, NEW n, NEW m, NEW p, NEW u, NEW g, Splitting(h, B, Al, q, n, m, p, u, g)
  PROVE  /\ p \in Unit /\ p \notin B
         /\ Kept(g, Insert(Delete(t, q), SizeIn(g), q), B \cup {p}, Al \cup {p})
         /\ g.brk = h.brk /\ SizedLike(g.tag, h.tag, B, q, m) /\ BlockSize(g, p) = n
<1>1. /\ Stands(h, B, Al) /\ h.tag \in [Unit -> Tag] /\ h.start = 1 /\ h.end = h.brk /\ MaxHeap \in Nat
      /\ SizeIn(h) \in [Node -> Nat] /\ TreeHolds(t, B \ Al, SizeIn(h)) /\ B \subseteq Unit
  BY KeptMeans
<1>2. /\ p \in Unit /\ p \notin B /\ Stands(g, B \cup {p}, Al \cup {p})
      /\ SameEnds(g, h) /\ g.tag \in [Unit -> Tag]
      /\ SizedLike(g.tag, h.tag, B, q, m) /\ BlockSize(g, p) = n
  <2>1. MaxHeap \in Nat /\ Stands(h, B, Al) /\ Splitting(h, B, Al, q, n, m, p, u, g)
    BY <1>1
  <2>2. /\ p \in Unit /\ p \notin B /\ Stands(g, B \cup {p}, Al \cup {p})
        /\ SameEnds(g, h) /\ g \in HeapState
        /\ SizedLike(g.tag, h.tag, B, q, m) /\ BlockSize(g, p) = n
    BY ONLY <2>1, SplitStands
  <2> QED BY <2>2 DEF HeapState
<1>3. q \in B /\ q \notin Al
  BY DEF Splitting
<1>4. PICK F, E, d : F = B \ Al /\ E = F \ {q} /\ d = Delete(t, q)
  OBVIOUS
<1>5. TreeHolds(d, E, SizeIn(h))
  BY <1>1, <1>3, <1>4, DeleteHolds
<1>6. TreeHolds(d, E, SizeIn(g))
  <2>1. Alikesized(g, h, E)
    BY <1>2, <1>4 DEF Alikesized, SizedLike
  <2> QED BY <1>1, <1>2, <1>5, <2>1, RekeyedHolds
<1>7. TreeHolds(Insert(d, SizeIn(g), q), E \cup {q}, SizeIn(g))
  <2>1. SizeIn(g) \in [Node -> Nat]
    BY <1>2, KeyOf
  <2>2. q \in Node /\ q \notin E
    BY <1>1, <1>3, <1>4 DEF HasRoom
  <2> QED BY <1>6, <2>1, <2>2, InsertHolds
<1>8. E \cup {q} = (B \cup {p}) \ (Al \cup {p})
  BY <1>2, <1>3, <1>4
<1> QED BY <1>1, <1>2, <1>4, <1>7, <1>8 DEF Kept, SameEnds

-----------------------------------------------------------------------------
(* A block of n units behind the last one: allocated (bit 1), as mm_malloc *)
(* takes it from memlib, or free (bit 0), as it is predicted.              *)
GrownBy(h, n, bit) ==
  LET e == Extend(h, n, bit)
  IN IF h.start = h.end THEN [e EXCEPT !.start = h.brk]
     ELSE [e EXCEPT !.tag = TellPrev(@, h.brk, bit)]

Grew(g, h, n) == g.start = h.start /\ g.end = g.brk /\ g.brk = h.brk + n

LEMMA ExtendAt ==
  ASSUME MaxHeap \in Nat, NEW h, h \in HeapState, NEW n, n \in Nat, Room(h, n), NEW bit,
         NEW s, s = SetTags(h.tag, h.brk, n, bit), s \in [Unit -> Tag],
         NEW e, e = Extend(h, n, bit)
  PROVE  /\ e \in HeapState /\ e.tag = s /\ e.brk = h.brk + n /\ e.end = h.brk + n
         /\ e.start = h.start
<1>1. h.brk + n \in 1 .. MaxHeap + 1
  BY DEF HeapState, Room
<1>2. e = [h EXCEPT !.tag = s, !.brk = h.brk + n, !.end = h.brk + n]
  BY DEF Extend, HeapState
<1> QED BY <1>1, <1>2 DEF HeapState

LEMMA GrownStands ==
  ASSUME MaxHeap \in Nat, NEW h, NEW B, NEW Al, Stands(h, B, Al), h.end = h.brk,
         NEW n, n \in Nat, n >= 3, Room(h, n), NEW bit, bit \in {0, 1},
         NEW p, p = h.brk, NEW C, C = (IF bit = 1 THEN Al \cup {p} ELSE Al),
         NEW g, g = GrownBy(h, n, bit)
  PROVE  /\ p \in Unit /\ p \notin B /\ Stands(g, B \cup {p}, C) /\ Grew(g, h, n)
         /\ Alikesized(g, h, B) /\ BlockSize(g, p) = n
<1>1. PICK tag, start, X, end, s : /\ tag = h.tag /\ start = h.start /\ X = B \cup {p}
                                   /\ end = p + n /\ s = SetTags(tag, p, n, bit)
  OBVIOUS
<1>2. /\ h \in HeapState /\ Span(tag, start, p) /\ Laid(tag, start, p, B)
      /\ Fits(tag, start, p, B, Al, Al) /\ Al \subseteq B /\ start <= p
      /\ p \in Nat /\ start \in Nat /\ end <= MaxHeap + 1 /\ end \in Nat /\ p < end /\ p >= 1
  <2>1. /\ h \in HeapState /\ Span(tag, start, p) /\ Laid(tag, start, p, B)
        /\ Fits(tag, start, p, B, Al, Al) /\ Al \subseteq B /\ start <= p
        /\ h.end \in 1 .. MaxHeap + 1 /\ h.start \in Nat
    BY <1>1, StandsMeans
  <2> QED BY <1>1, <2>1 DEF Room
<1>3. p \in Unit /\ p \notin B
  BY <1>1, <1>2 DEF Laid, Unit
<1>4. /\ Span(s, start, end) /\ Fits(s, start, end, X, C, Al)
      /\ s[p].size = n /\ \A q \in B : s[q].size = tag[q].size
  <2>1. Appends(tag, p, B, Al, n, bit, end, s, X, C)
    BY <1>1, <1>2 DEF Appends
  <2>2. Span(tag, start, p) /\ Fits(tag, start, p, B, Al, Al)
    BY <1>2
  <2> QED BY ONLY <2>1, <2>2, AppendFits
<1>5. /\ s \in [Unit -> Tag] /\ end \notin C /\ C \subseteq X /\ Alike(X, p, C, Al)
      /\ bit = 1 <=> p \in C
  <2>1. s \in [Unit -> Tag]
    BY <1>4 DEF Span
  <2>2. end \notin C
    <3>1. \A q \in B : q \in Nat /\ q < p
      BY <1>2 DEF Laid
    <3>2. C \subseteq B \cup {p}
      BY <1>2
    <3> QED BY <1>2, <3>1, <3>2
  <2>3. C \subseteq X /\ Alike(X, p, C, Al) /\ (bit = 1 <=> p \in C)
    BY <1>1, <1>2, <1>3 DEF Alike
  <2> QED BY <2>1, <2>2, <2>3
<1>6. PICK w : w = IF start = p THEN s ELSE TellPrev(s, p, bit)
  OBVIOUS
<1>7. w \in [Unit -> Tag] /\ Fits(w, start, end, X, C, C) /\ \A u \in Unit : w[u].size = s[u].size
  <2>1. CASE start = p
    <3>1. \A q \in X \ {start} : q \in C <=> q \in Al
      BY <1>5, <2>1 DEF Alike
    <3>2. Fits(s, start, end, X, C, C)
      BY ONLY <1>4, <1>5, <3>1, FitsRetold
    <3> QED BY <1>5, <1>6, <2>1, <3>2
  <2>2. CASE start # p
    <3>1. /\ TellPrev(s, p, bit) \in [Unit -> Tag]
          /\ \A u \in Unit : TellPrev(s, p, bit)[u].size = s[u].size
          /\ Fits(TellPrev(s, p, bit), start, end, X, C, C)
      <4>1. p \in X /\ p # start /\ bit \in {0, 1}
        BY <1>1, <2>2
      <4> QED BY ONLY <1>4, <1>5, <4>1, TellFits
    <3> QED BY <1>6, <2>2, <3>1
  <2> QED BY <2>1, <2>2
<1>8. PICK e : e = Extend(h, n, bit)
  OBVIOUS
<1>9. /\ e \in HeapState /\ e.tag = s /\ e.brk = p + n /\ e.end = p + n /\ e.start = start
  <2>1. /\ e \in HeapState /\ e.tag = s /\ e.brk = h.brk + n /\ e.end = h.brk + n
        /\ e.start = h.start
    BY <1>1, <1>2, <1>5, <1>8, ExtendAt
  <2> QED BY <1>1, <2>1
<1>10. g \in HeapState /\ g.tag = w /\ g.brk = end /\ g.end = end /\ g.start = start
  <2>1. g = IF start = p THEN [e EXCEPT !.start = p] ELSE [e EXCEPT !.tag = TellPrev(@, p, bit)]
    BY <1>1, <1>8 DEF GrownBy
  <2>2. CASE start = p
    <3>1. g = [e EXCEPT !.start = p] /\ p \in 1 .. MaxHeap + 1 /\ w = s
      BY <1>1, <1>2, <1>6, <2>1, <2>2
    <3> QED BY <1>1, <1>9, <2>2, <3>1 DEF HeapState
  <2>3. CASE start # p
    <3>1. g = [e EXCEPT !.tag = w]
      BY <1>6, <1>9, <2>1, <2>3
    <3>2. g \in HeapState /\ g.tag = w /\ g.brk = e.brk /\ g.start = e.start /\ g.end = e.end
      BY ONLY <1>7, <1>9, <3>1, Retag
    <3> QED BY <1>1, <1>9, <3>2
  <2> QED BY <2>2, <2>3
<1>11. Stands(g, X, C)
  BY <1>2, <1>7, <1>10 DEF Stands
<1>12. Alikesized(g, h, B) /\ BlockSize(g, p) = n
  <2>1. ASSUME NEW q \in B PROVE g.tag[q].size = h.tag[q].size
    <3>1. q \in Unit
      BY <1>2 DEF Laid
    <3> QED BY <1>1, <1>4, <1>7, <1>10, <3>1
  <2>2. g.tag[p].size = n
    BY <1>3, <1>4, <1>7, <1>10
  <2> QED BY <2>1, <2>2 DEF Alikesized, BlockSize
<1>13. Grew(g, h, n)
  BY <1>1, <1>10 DEF Grew
<1> QED BY <1>1, <1>3, <1>11, <1>12, <1>13

(* Taken, the block is of no interest to the tree; *)
LEMMA GrownKeeps ==
  ASSUME HasRoom, NEW h, NEW t, NEW B, NEW Al, Kept(h, t, B, Al),
         NEW n, n \in Nat, n >= 3, Room(h, n), NEW p, p = h.brk, NEW g, g = GrownBy(h, n, 1)
  PROVE  /\ p \in Unit /\ p \notin B /\ Kept(g, t, B \cup {p}, Al \cup {p})
         /\ Grew(g, h, n) /\ Alikesized(g, h, B) /\ BlockSize(g, p) = n
<1>1. /\ Stands(h, B, Al) /\ h.tag \in [Unit -> Tag] /\ h.start = 1 /\ h.end = h.brk /\ MaxHeap \in Nat
      /\ TreeHolds(t, B \ Al, SizeIn(h)) /\ Al \subseteq B
  BY KeptMeans
<1>2. PICK bit \in {0, 1} : bit = 1
  OBVIOUS
<1>3. PICK C : C = IF bit = 1 THEN Al \cup {p} ELSE Al
  OBVIOUS
<1>4. /\ p \in Unit /\ p \notin B /\ Stands(g, B \cup {p}, C) /\ Grew(g, h, n)
      /\ Alikesized(g, h, B) /\ BlockSize(g, p) = n
  <2>1. g = GrownBy(h, n, bit)
    BY <1>2
  <2>2. Stands(h, B, Al) /\ h.end = h.brk /\ MaxHeap \in Nat
    BY <1>1
  <2> QED BY <1>2, <1>3, <2>1, <2>2, GrownStands
<1>5. PICK F : F = B \ Al
  OBVIOUS
<1>6. TreeHolds(t, F, SizeIn(g))
  <2>1. g.tag \in [Unit -> Tag]
    BY <1>1, <1>4, StandsMeans
  <2>2. Alikesized(g, h, F)
    BY <1>4, <1>5 DEF Alikesized
  <2> QED BY <1>1, <1>5, <2>1, <2>2, RekeyedHolds
<1>7. F = (B \cup {p}) \ (Al \cup {p}) /\ C = Al \cup {p}
  BY <1>1, <1>2, <1>3, <1>4, <1>5
<1>8. g.start = 1 /\ g.end = g.brk
  BY <1>1, <1>4 DEF Grew
<1> QED BY <1>4, <1>6, <1>7, <1>8 DEF Kept

(* predicted, it goes to the tree. *)
LEMMA PredictKeeps ==
  ASSUME HasRoom, NEW x, NEW B, NEW Al, Kept(x.heap, x.tree, B, Al), B # {},
         NEW n, n \in Nat, n >= 3, Room(x.heap, n), NEW p, p = x.heap.brk, NEW z, z = Predicted(x, n)
  PROVE  /\ p \notin B /\ Kept(z.heap, z.tree, B \cup {p}, Al)
         /\ Grew(z.heap, x.heap, n) /\ Alikesized(z.heap, x.heap, B)
<1>1. PICK h, t : h = x.heap /\ t = x.tree
  OBVIOUS
<1>2. /\ Stands(h, B, Al) /\ h.tag \in [Unit -> Tag] /\ h.start = 1 /\ h.end = h.brk /\ MaxHeap \in Nat
      /\ TreeHolds(t, B \ Al, SizeIn(h)) /\ Al \subseteq B /\ Laid(h.tag, h.start, h.end, B)
  BY <1>1, KeptMeans
<1>3. h.start # h.end
  BY <1>2 DEF Laid
<1>4. PICK g : g = GrownBy(h, n, 0)
  OBVIOUS
<1>5. z = [heap |-> g, tree |-> Insert(t, SizeIn(g), p)]
  BY <1>1, <1>3, <1>4 DEF GrownBy, Predicted
<1>6. PICK bit \in {0, 1} : bit = 0
  OBVIOUS
<1>7. PICK C : C = IF bit = 1 THEN Al \cup {p} ELSE Al
  OBVIOUS
<1>8. /\ p \in Unit /\ p \notin B /\ Stands(g, B \cup {p}, C) /\ Grew(g, h, n)
      /\ Alikesized(g, h, B) /\ BlockSize(g, p) = n
  <2>1. g = GrownBy(h, n, bit)
    BY <1>4, <1>6
  <2>2. Stands(h, B, Al) /\ h.end = h.brk /\ MaxHeap \in Nat /\ Room(h, n) /\ p = h.brk
    BY <1>1, <1>2
  <2> QED BY <1>6, <1>7, <2>1, <2>2, GrownStands
<1>9. C = Al
  BY <1>6, <1>7
<1>10. PICK F : F = B \ Al
  OBVIOUS
<1>11. g.tag \in [Unit -> Tag]
  BY <1>2, <1>8, StandsMeans
<1>12. TreeHolds(t, F, SizeIn(g))
  <2>1. Alikesized(g, h, F)
    BY <1>8, <1>10 DEF Alikesized
  <2> QED BY <1>2, <1>10, <1>11, <2>1, RekeyedHolds
<1>13. TreeHolds(Insert(t, SizeIn(g), p), F \cup {p}, SizeIn(g))
  <2>1. SizeIn(g) \in [Node -> Nat]
    BY <1>11, KeyOf
  <2>2. p \in Node /\ p \notin F
    BY <1>8, <1>10 DEF HasRoom
  <2> QED BY <1>12, <2>1, <2>2, InsertHolds
<1>14. F \cup {p} = (B \cup {p}) \ Al
  BY <1>2, <1>8, <1>10
<1>15. g.start = 1 /\ g.end = g.brk
  BY <1>2, <1>8 DEF Grew
<1>16. z.heap = g /\ z.tree = Insert(t, SizeIn(g), p)
  BY <1>5
<1> QED BY <1>1, <1>8, <1>9, <1>13, <1>14, <1>15, <1>16 DEF Kept

-----------------------------------------------------------------------------
(* The burst of predicted blocks, one after the other. *)
IsBurst(f, x, n) == f = [k \in 0 .. 8 |-> IF k = 0 THEN x ELSE Predicted(f[k - 1], n)]
Leaves(h, r, n) == h.brk + r * n <= MaxHeap + 1

\* After k predictions there is room for r more; g and C are as in the beginning.
BurstAt(f, k, r, n, g, C) ==
  \E X : /\ Kept(f[k].heap, f[k].tree, X, C) /\ X # {}
         /\ Alikesized(f[k].heap, g, C) /\ Leaves(f[k].heap, r, n)

LEMMA BurstExists == ASSUME NEW x, NEW n PROVE \E f : IsBurst(f, x, n)
<1> DEFINE P(y) == Predicted(y, n)
<1>1. PICK a1, a2, a3, a4 : a1 = P(x) /\ a2 = P(a1) /\ a3 = P(a2) /\ a4 = P(a3)
  OBVIOUS
<1>2. PICK a5, a6, a7, a8 : a5 = P(a4) /\ a6 = P(a5) /\ a7 = P(a6) /\ a8 = P(a7)
  OBVIOUS
<1> HIDE DEF P
<1> DEFINE F == [k \in 0 .. 8 |-> IF k = 0 THEN x ELSE IF k = 1 THEN a1 ELSE IF k = 2 THEN a2
                   ELSE IF k = 3 THEN a3 ELSE IF k = 4 THEN a4 ELSE IF k = 5 THEN a5
                   ELSE IF k = 6 THEN a6 ELSE IF k = 7 THEN a7 ELSE a8]
<1>3. ASSUME NEW k \in 0 .. 8 PROVE F[k] = IF k = 0 THEN x ELSE P(F[k - 1])
  <2>1. k = 0 \/ k = 1 \/ k = 2 \/ k = 3 \/ k = 4 \/ k = 5 \/ k = 6 \/ k = 7 \/ k = 8
    OBVIOUS
  <2> QED BY <1>1, <1>2, <2>1
<1>4. F = [k \in 0 .. 8 |-> F[k]]
  OBVIOUS
<1> HIDE DEF F
<1>5. F = [k \in 0 .. 8 |-> IF k = 0 THEN x ELSE P(F[k - 1])]
  BY <1>3, <1>4
<1> QED BY <1>5 DEF IsBurst, P

LEMMA BurstGoes ==
  ASSUME HasRoom, NEW f, NEW x, NEW n, IsBurst(f, x, n), n \in Nat, n >= 3, NEW g, NEW C,
         NEW k, NEW m, NEW r, NEW s, k \in 0 .. 7, m = k + 1, r \in 1 .. 8, s = r - 1,
         BurstAt(f, k, r, n, g, C)
  PROVE  BurstAt(f, m, s, n, g, C)
<1>1. PICK X : /\ Kept(f[k].heap, f[k].tree, X, C) /\ X # {}
               /\ Alikesized(f[k].heap, g, C) /\ Leaves(f[k].heap, r, n)
  BY DEF BurstAt
<1>2. PICK y : y = f[k]
  OBVIOUS
<1>3. PICK h : h = y.heap
  OBVIOUS
<1>4. PICK p, Y : p = h.brk /\ Y = X \cup {p}
  OBVIOUS
<1>5. PICK z : z = f[m]
  OBVIOUS
<1>6. z = Predicted(y, n)
  <2>1. m \in 0 .. 8 /\ m # 0 /\ m - 1 = k
    OBVIOUS
  <2> QED BY <1>2, <1>5, <2>1 DEF IsBurst
<1>7. Kept(h, y.tree, X, C) /\ Alikesized(h, g, C) /\ C \subseteq X /\ h.brk \in Nat /\ MaxHeap \in Nat
  <2>1. Kept(h, y.tree, X, C) /\ Alikesized(h, g, C)
    BY <1>1, <1>2, <1>3
  <2>2. C \subseteq X /\ h.end = h.brk /\ h.end \in Nat /\ MaxHeap \in Nat
    BY <2>1, KeptMeans
  <2> QED BY <2>1, <2>2
<1>8. h.brk + n <= MaxHeap + 1 /\ (h.brk + n) + s * n <= MaxHeap + 1
  <2>1. h.brk + r * n <= MaxHeap + 1
    BY <1>1, <1>2, <1>3 DEF Leaves
  <2>2. r \in Nat /\ r * n = s * n + n /\ s * n >= 0
    <3>1. r = 1 \/ r = 2 \/ r = 3 \/ r = 4 \/ r = 5 \/ r = 6 \/ r = 7 \/ r = 8
      OBVIOUS
    <3> QED BY <3>1
  <2>3. PICK v, w : v = r * n /\ w = s * n
    OBVIOUS
  <2> QED BY <1>7, <2>1, <2>2, <2>3
<1>9. /\ Kept(z.heap, z.tree, Y, C) /\ Grew(z.heap, h, n) /\ Alikesized(z.heap, h, X)
  <2>1. Room(h, n)
    BY <1>8 DEF Room
  <2>2. Kept(y.heap, y.tree, X, C) /\ X # {} /\ Room(y.heap, n) /\ p = y.heap.brk
    BY <1>1, <1>3, <1>4, <1>7, <2>1
  <2>3. /\ p \notin X /\ Kept(z.heap, z.tree, X \cup {p}, C)
        /\ Grew(z.heap, y.heap, n) /\ Alikesized(z.heap, y.heap, X)
    BY <1>6, <2>2, PredictKeeps
  <2> QED BY <1>3, <1>4, <2>3
<1>10. Alikesized(z.heap, g, C)
  BY <1>7, <1>9 DEF Alikesized
<1>11. Leaves(z.heap, s, n)
  BY <1>8, <1>9 DEF Leaves, Grew
<1>12. Y # {}
  BY <1>4
<1> QED BY <1>5, <1>9, <1>10, <1>11, <1>12 DEF BurstAt

LEMMA BurstEnds ==
  ASSUME HasRoom, NEW f, NEW x, NEW n, IsBurst(f, x, n), n \in Nat, n >= 3, NEW g, NEW C,
         NEW c, c \in {1, 4, 8}, BurstAt(f, 0, c, n, g, C)
  PROVE  BurstAt(f, c, 0, n, g, C)
<1> DEFINE Q(k, r) == BurstAt(f, k, r, n, g, C)
<1>1. ASSUME NEW k \in 0 .. 7, NEW m, NEW r \in 1 .. 8, NEW s, m = k + 1, s = r - 1, Q(k, r)
      PROVE  Q(m, s)
  BY <1>1, BurstGoes
<1> HIDE DEF Q
<1>2. CASE c = 1
  <2>1. Q(0, 1)
    BY <1>2 DEF Q
  <2>2. Q(1, 0)
    BY <1>1, <2>1
  <2> QED BY <1>2, <2>2 DEF Q
<1>3. CASE c = 4
  <2>1. Q(0, 4)
    BY <1>3 DEF Q
  <2>2. Q(1, 3)
    BY <1>1, <2>1
  <2>3. Q(2, 2)
    BY <1>1, <2>2
  <2>4. Q(3, 1)
    BY <1>1, <2>3
  <2>5. Q(4, 0)
    BY <1>1, <2>4
  <2> QED BY <1>3, <2>5 DEF Q
<1>4. CASE c = 8
  <2>1. Q(0, 8)
    BY <1>4 DEF Q
  <2>2. Q(1, 7)
    BY <1>1, <2>1
  <2>3. Q(2, 6)
    BY <1>1, <2>2
  <2>4. Q(3, 5)
    BY <1>1, <2>3
  <2>5. Q(4, 4)
    BY <1>1, <2>4
  <2>6. Q(5, 3)
    BY <1>1, <2>5
  <2>7. Q(6, 2)
    BY <1>1, <2>6
  <2>8. Q(7, 1)
    BY <1>1, <2>7
  <2>9. Q(8, 0)
    BY <1>1, <2>8
  <2> QED BY <1>4, <2>9 DEF Q
<1> QED BY <1>2, <1>3, <1>4

-----------------------------------------------------------------------------
(* mm_free of the block at p: its free neighbours leave the tree, and what *)
(* they are now one block with enters it.  The tree sees the header of     *)
(* that block before the next block's old header is erased.                *)
Replants(h, t, p, y, a, j, f, x, d, e) ==
  /\ f = FreeTags(h, p) /\ x = [h EXCEPT !.tag = f]
  /\ d = (IF JoinsPrev(a) THEN Delete(t, p - h.tag[p - 1].size) ELSE t)
  /\ e = (IF JoinsNext(a) THEN Delete(d, y) ELSE d)

LEMMA FreeKeeps ==
  ASSUME HasRoom, NEW h, NEW t, NEW B, NEW Al, Kept(h, t, B, Al),
         NEW p, NEW y, NEW a, NEW j, NEW J, NEW C, NEW k, NEW u, NEW g,
         Releases(h, B, Al, p, y, a, j, J, C, k, u, g),
         NEW f, NEW x, NEW d, NEW e, Replants(h, t, p, y, a, j, f, x, d, e)
  PROVE  Kept(g, Insert(e, SizeIn(x), j.at), J, C)
<1>1. /\ Stands(h, B, Al) /\ h.tag \in [Unit -> Tag] /\ h.start = 1 /\ h.end = h.brk /\ MaxHeap \in Nat
      /\ SizeIn(h) \in [Node -> Nat] /\ TreeHolds(t, B \ Al, SizeIn(h)) /\ Al \subseteq B
      /\ B \subseteq Unit /\ h \in HeapState /\ Laid(h.tag, h.start, h.end, B)
  BY KeptMeans
<1>2. /\ f = FreeTags(h, p) /\ x = [h EXCEPT !.tag = f]
      /\ d = (IF JoinsPrev(a) THEN Delete(t, p - h.tag[p - 1].size) ELSE t)
      /\ e = (IF JoinsNext(a) THEN Delete(d, y) ELSE d)
  BY DEF Replants
<1>3. p \in Al /\ y = p + h.tag[p].size
  BY DEF Releases
<1>4. /\ Reads(h, B, Al, p, y, a, j) /\ Freed(h, B, Al, p, y, a, j, J, C, u)
      /\ Stands(g, J, C) /\ g.tag = u /\ g.start = h.start /\ g.end = h.end /\ g.brk = h.brk
      /\ f \in [Unit -> Tag] /\ \A q \in B : u[q] = f[q]
      /\ j.at \in B /\ k \in Unit /\ j.size \in Nat /\ j.size >= 3
      /\ \A z \in Unit : z # k => u[z] = f[z]
  BY <1>1, <1>2, FreeStands
<1>5. p \in Nat /\ p \in B /\ y \in Nat /\ p < y /\ j.at \in Nat /\ j.at <= p
  <2>1. p \in Nat /\ p \in B /\ h.tag[p].size \in Nat /\ h.tag[p].size >= 3 /\ j.at \in Nat
    BY <1>1, <1>3, <1>4 DEF Laid
  <2>2. CASE JoinsPrev(a)
    <3>1. j.at + h.tag[j.at].size = p /\ h.tag[j.at].size \in Nat
      BY <1>1, <1>4, <2>2 DEF Reads, Laid
    <3> QED BY <1>3, <2>1, <3>1
  <2>3. CASE ~ JoinsPrev(a)
    <3>1. j.at = p
      BY <1>4, <2>3 DEF Reads
    <3> QED BY <1>3, <2>1, <3>1
  <2> QED BY <2>2, <2>3
<1>6. PICK F, D, E : /\ F = B \ Al /\ D = F \ {j.at}
                     /\ E = IF JoinsNext(a) THEN D \ {y} ELSE D
  OBVIOUS
<1>7. TreeHolds(d, D, SizeIn(h))
  <2>1. CASE JoinsPrev(a)
    <3>1. j.at \in F /\ j.at = p - h.tag[p - 1].size
      BY <1>4, <1>6, <2>1 DEF Reads
    <3>2. d = Delete(t, j.at)
      BY <1>2, <2>1, <3>1
    <3> QED BY <1>1, <1>6, <3>1, <3>2, DeleteHolds
  <2>2. CASE ~ JoinsPrev(a)
    <3>1. j.at = p
      BY <1>4, <2>2 DEF Reads
    <3>2. D = F /\ d = t
      BY <1>2, <1>3, <1>6, <2>2, <3>1
    <3> QED BY <1>1, <1>6, <3>2
  <2> QED BY <2>1, <2>2
<1>8. TreeHolds(e, E, SizeIn(h))
  <2>1. CASE JoinsNext(a)
    <3>1. y \in B /\ y \notin Al
      BY <1>4, <2>1 DEF Reads
    <3>2. y \in D
      BY <1>5, <1>6, <3>1
    <3> QED BY <1>1, <1>2, <1>6, <1>7, <2>1, <3>2, DeleteHolds
  <2>2. CASE ~ JoinsNext(a)
    BY <1>2, <1>6, <1>7, <2>2
  <2> QED BY <2>1, <2>2
<1>9. x.tag = f /\ SizeIn(x) \in [Node -> Nat]
  <2>1. x \in HeapState /\ x.tag = f
    BY <1>1, <1>2, <1>4, Retag
  <2> QED BY <1>4, <2>1, KeyOf
<1>10. TreeHolds(e, E, SizeIn(x))
  <2>1. \A q \in E : x.tag[q].size = h.tag[q].size
    <3>1. \A q \in E : q \in B /\ q # j.at
      BY <1>6
    <3>2. \A q \in B : q # j.at => u[q].size = h.tag[q].size
      BY <1>4 DEF Freed
    <3> QED BY <1>4, <1>9, <3>1, <3>2
  <2>2. Alikesized(x, h, E)
    BY <2>1 DEF Alikesized
  <2> QED BY <1>1, <1>4, <1>8, <1>9, <2>2, RekeyedHolds
<1>11. PICK v, G : v = Insert(e, SizeIn(x), j.at) /\ G = E \cup {j.at}
  OBVIOUS
<1>12. TreeHolds(v, G, SizeIn(x))
  <2>1. j.at \in Node /\ j.at \notin E
    BY <1>1, <1>4, <1>6 DEF HasRoom
  <2> QED BY <1>9, <1>10, <1>11, <2>1, InsertHolds
<1>13. G \subseteq B
  BY <1>4, <1>6, <1>11
<1>14. TreeHolds(v, G, SizeIn(g))
  <2>1. Alikesized(g, x, G)
    BY <1>4, <1>9, <1>13 DEF Alikesized
  <2>2. g.tag \in [Unit -> Tag]
    BY <1>1, <1>4, StandsMeans
  <2> QED BY <1>4, <1>9, <1>12, <2>1, <2>2, RekeyedHolds
<1>15. G = J \ C
  <2>1. \A q : q \in J /\ q \notin C <=>
              q = j.at \/ (q \in B /\ q \notin Al /\ ~ (JoinsNext(a) /\ q = y))
    BY <1>4 DEF Freed
  <2>2. \A q : q \in G <=> q = j.at \/ (q \in B /\ q \notin Al /\ ~ (JoinsNext(a) /\ q = y))
    <3>1. CASE JoinsNext(a)
      BY <1>6, <1>11, <3>1
    <3>2. CASE ~ JoinsNext(a)
      BY <1>6, <1>11, <3>2
    <3> QED BY <3>1, <3>2
  <2> QED BY <2>1, <2>2
<1> QED BY <1>1, <1>4, <1>11, <1>14, <1>15 DEF Kept

-----------------------------------------------------------------------------
(* The inductive invariant: all of the above of some blocks B, of which Al *)
(* are allocated, the others in the tree.  (When mm_exit has returned, the *)
(* tree is empty and the heap not yet reset.)                              *)
Grounded(h, B, Al) == Stands(h, B, Al) /\ h.start = 1 /\ h.end = h.brk
Sized2(s) == s \in (0 .. MaxHeap) \X (0 .. MaxHeap)

Sound(B, Al) ==
  /\ Grounded(heap, B, Al) /\ Carried(heap, Al, ranges) /\ tree \in Tree
  /\ pc # "done" => TreeHolds(tree, B \ Al, SizeIn(heap))
  /\ pc = "exit" => Tracked(heap, B, Al, lst_tracker)
  /\ pc = "done" => ranges = {}
  /\ freed \subseteq Unit
  /\ alloc_num \in 0 .. AllocNumMinInit /\ first \in BOOLEAN /\ Sized2(sizes)
  /\ pc \in {"trace", "exit", "done", "crashed"} /\ lst_tracker \in 1 .. MaxHeap + 1
IInv == \E B, Al : Sound(B, Al)

\* What a step leaves of heap, tree and ranges, and how it leaves the rest.
Intact(B, Al) == Kept(heap, tree, B, Al) /\ Carried(heap, Al, ranges)
Tidy == /\ freed \subseteq Unit
        /\ alloc_num \in 0 .. AllocNumMinInit /\ first \in BOOLEAN /\ Sized2(sizes)
        /\ lst_tracker \in 1 .. MaxHeap + 1

LEMMA SoundMeans ==
  ASSUME HasRoom, NEW B, NEW Al, Sound(B, Al)
  PROVE  /\ MaxHeap \in Nat /\ Stands(heap, B, Al) /\ heap.start = 1 /\ heap.end = heap.brk
         /\ Carried(heap, Al, ranges) /\ Tidy /\ tree \in Tree
         /\ pc # "done" => Intact(B, Al) /\ TreeHolds(tree, B \ Al, SizeIn(heap))
BY DEF Sound, Grounded, Tidy, Intact, Kept, HasRoom

LEMMA KeptIs ==
  ASSUME NEW h, NEW t, NEW B, NEW Al, Kept(h, t, B, Al)
  PROVE  Grounded(h, B, Al) /\ TreeHolds(t, B \ Al, SizeIn(h)) /\ t \in Tree
BY TreeHoldsTypes DEF Kept, Grounded

Fresh == [tag |-> [u \in Unit |-> NoTag], brk |-> 1, start |-> 1, end |-> 1]

LEMMA FreshSound ==
  ASSUME HasRoom
  PROVE  Kept(Fresh, EmptyTree, {}, {}) /\ Carried(Fresh, {}, {}) /\ EmptyTree \in Tree
<1>1. MaxHeap \in Nat /\ 1 \in 1 .. MaxHeap + 1 /\ Null \notin Node
  BY NodesAreUnits DEF HasRoom
<1>2. Fresh \in HeapState /\ Fresh.start = 1 /\ Fresh.end = 1 /\ Fresh.brk = 1
  BY <1>1 DEF Fresh, HeapState, NoTag, Tag
<1>3. Fits(Fresh.tag, 1, 1, {}, {}, {})
  BY DEF Fits
<1>4. TreeHolds(EmptyTree, {}, SizeIn(Fresh)) /\ {} \ {} = {}
  BY <1>1, EmptyHolds
<1>5. EmptyTree \in Tree
  BY <1>4, TreeHoldsTypes
<1>6. Carried(Fresh, {}, {})
  BY DEF Carried
<1> QED BY <1>2, <1>3, <1>4, <1>5, <1>6 DEF Kept, Stands

LEMMA InitSound == ASSUME HasRoom, Init PROVE IInv
<1>1. /\ heap = Fresh /\ tree = EmptyTree /\ ranges = {} /\ freed = {} /\ alloc_num = 0
      /\ first = TRUE /\ sizes = <<0, 0>> /\ pc = "trace" /\ lst_tracker = 1
  BY DEF Init, Fresh
<1>2. Intact({}, {})
  BY <1>1, FreshSound DEF Intact
<1>3. Tidy
  BY <1>1 DEF Tidy, HasRoom, Sized2
<1>4. Sound({}, {})
  BY <1>1, <1>2, <1>3, KeptIs DEF Sound, Intact, Tidy
<1> QED BY <1>4 DEF IInv

-----------------------------------------------------------------------------
(* mm_malloc has made the block at p, of n units, for a request.           *)
Served(h, t, B, Al, p, n, r) ==
  /\ Kept(h, t, B, Al) /\ p \in Al /\ n \in Nat /\ BlockSize(h, p) = n /\ r <= 8 * (n - 2)

\* The blocks in use keep their sizes and X are those after them.
Joins(g, h, Al, p, C) == Alikesized(g, h, Al) /\ p \notin Al /\ C = Al \cup {p}

LEMMA ReturnSettles ==
  ASSUME HasRoom, NEW Al, Carried(heap, Al, ranges), Tidy,
         NEW h, NEW B, NEW C, NEW p, NEW n, NEW r, r \in Requests,
         Served(h, tree', B, C, p, n, r), Joins(h, heap, Al, p, C), Return(h, p, r)
  PROVE  Intact(B, C)' /\ freed' \subseteq Unit
<1> DEFINE g == [h EXCEPT !.tag = Use(@, p, h.tag[p].size)]
           x == [lo |-> p + 1, bytes |-> r]
<1>1. heap' = g /\ ranges' = ranges \cup {x} /\ freed' = freed \ {p + 1}
  BY DEF Return
<1>2. /\ Kept(h, tree', B, C) /\ p \in C /\ n \in Nat /\ BlockSize(h, p) = n /\ r <= 8 * (n - 2)
  BY DEF Served
<1>3. /\ Laid(h.tag, h.start, h.end, B) /\ C \subseteq B
  BY <1>2, KeptMeans
<1>4. p \in B /\ p \in Nat /\ p + 1 \in Unit
  BY <1>2, <1>3 DEF Laid
<1>5. Kept(g, tree', B, C) /\ Alikesized(g, h, B)
  <2>1. Kept(g, tree', B, C) /\ g.brk = h.brk /\ Alikesized(g, h, B)
    BY <1>2, <1>4, ReturnKeeps
  <2> QED BY <2>1
<1> HIDE DEF g, x
<1>6. Al \subseteq B /\ C = Al \cup {p} /\ p \notin Al
  BY <1>3 DEF Joins
<1>7. SizedLike(g.tag, heap.tag, Al, p, n)
  BY <1>5, <1>6 DEF SizedLike, Joins, Alikesized
<1>8. g.tag[p].size = n
  BY <1>2, <1>4, <1>5 DEF Alikesized, BlockSize
<1>9. Carried(g, C, ranges')
  <2>1. Al \subseteq Al /\ x = [lo |-> p + 1, bytes |-> r]
    BY DEF x
  <2> QED BY <1>1, <1>2, <1>4, <1>6, <1>7, <1>8, <2>1, CarriedMore
<1>10. freed' \subseteq Unit
  BY <1>1 DEF Tidy
<1> QED BY <1>1, <1>5, <1>9, <1>10 DEF Intact

(* A call of mm_malloc that makes it is sound. *)
Serves(Al, h, X, C, p, n, r) ==
  /\ pc = "trace" /\ pc' = pc /\ lst_tracker' = lst_tracker
  /\ alloc_num' \in 0 .. AllocNumMinInit /\ first' \in BOOLEAN /\ Sized2(sizes')
  /\ Served(h, tree', X, C, p, n, r) /\ Joins(h, heap, Al, p, C) /\ Return(h, p, r)

LEMMA ServesSound ==
  ASSUME HasRoom, NEW B, NEW Al, Sound(B, Al), NEW h, NEW X, NEW C, NEW p, NEW n,
         NEW r, r \in Requests, Serves(Al, h, X, C, p, n, r)
  PROVE  IInv'
<1>1. Carried(heap, Al, ranges) /\ Tidy
  BY SoundMeans
<1>2. Intact(X, C)' /\ freed' \subseteq Unit
  BY <1>1, ReturnSettles DEF Serves
<1>3. Tidy' /\ pc' = "trace"
  BY <1>1, <1>2 DEF Tidy, Serves
<1>4. Sound(X, C)'
  <2>1. Kept(heap', tree', X, C) /\ Carried(heap', C, ranges')
    BY <1>2 DEF Intact
  <2>2. Grounded(heap', X, C) /\ TreeHolds(tree', X \ C, SizeIn(heap')) /\ tree' \in Tree
    BY <2>1, KeptIs
  <2> QED BY <1>3, <2>1, <2>2 DEF Sound, Tidy
<1> QED BY <1>4 DEF IInv

-----------------------------------------------------------------------------
(* What find_block finds.                                                  *)
LEMMA FoundMeans ==
  ASSUME HasRoom, NEW B, NEW Al, Kept(heap, tree, B, Al), NEW n, n \in Nat, NEW p, p = Found(n)
  PROVE  /\ p # Null => p \in B /\ p \notin Al /\ heap.tag[p].size \in Nat /\ heap.tag[p].size >= n
         /\ p = Null => \A q \in B \ Al : heap.tag[q].size < n
<1>1. PICK F, key : F = B \ Al /\ key = SizeIn(heap)
  OBVIOUS
<1>2. /\ key \in [Node -> Nat] /\ (\A q \in Unit : key[q] = heap.tag[q].size)
      /\ TreeHolds(tree, F, key) /\ B \subseteq Unit
  BY <1>1, KeptMeans
<1>3. BestIn(key, n, F, p)
  <2>1. p = FindBlock(tree, key, n)
    BY <1>1 DEF Found
  <2> QED BY <1>2, <2>1, FindBlockFits
<1>4. F \subseteq Node /\ Null \notin F
  BY <1>2, TreeHoldsTypes
<1>5. \A q \in F : q \in Unit /\ key[q] = heap.tag[q].size /\ key[q] \in Nat
  BY <1>1, <1>2, <1>4
<1>6. CASE \A q \in F : key[q] < n
  BY <1>1, <1>3, <1>5, <1>6 DEF BestIn
<1>7. CASE ~ \A q \in F : key[q] < n
  <2>1. p \in F /\ key[p] >= n
    BY <1>3, <1>7 DEF BestIn
  <2> QED BY <1>1, <1>4, <1>5, <2>1
<1> QED BY <1>6, <1>7

LEMMA MallocWholeSound ==
  ASSUME HasRoom, IInv, NEW r \in Requests, MallocWhole(r)
  PROVE  IInv'
<1>1. PICK B, Al : Sound(B, Al)
  BY DEF IInv
<1>2. PICK p, n, h : p = Found(Units(r)) /\ n = heap.tag[p].size
                     /\ h = [heap EXCEPT !.tag = WholeTags(heap, p)]
  OBVIOUS
<1>3. /\ pc = "trace" /\ p # Null /\ Return(h, p, r) /\ tree' = Delete(tree, p)
      /\ alloc_num' = alloc_num /\ first' = first /\ sizes' = sizes
      /\ pc' = pc /\ lst_tracker' = lst_tracker
  BY <1>2 DEF MallocWhole, WholeTags, history
<1>4. Kept(heap, tree, B, Al) /\ Tidy /\ Al \subseteq B
  <2>1. Kept(heap, tree, B, Al) /\ Tidy
    BY <1>1, <1>3, SoundMeans DEF Intact
  <2> QED BY <2>1, KeptMeans
<1>5. Units(r) \in Nat /\ Units(r) >= 3 /\ r <= 8 * (Units(r) - 2) /\ r \in Nat
  BY UnitsRoom DEF HasRoom
<1>6. p \in B /\ p \notin Al /\ n \in Nat /\ n >= Units(r)
  BY <1>2, <1>3, <1>4, <1>5, FoundMeans
<1>7. PICK C : C = Al \cup {p}
  OBVIOUS
<1>8. Kept(h, tree', B, C) /\ Alikesized(h, heap, B)
  <2>1. Kept(h, Delete(tree, p), B, C) /\ h.brk = heap.brk /\ Alikesized(h, heap, B)
    BY <1>2, <1>4, <1>6, <1>7, WholeKeeps
  <2> QED BY <1>3, <2>1
<1>9. r <= 8 * (n - 2)
  BY <1>5, <1>6
<1>10. Served(h, tree', B, C, p, n, r)
  <2>1. BlockSize(h, p) = n
    BY <1>2, <1>6, <1>8 DEF BlockSize, Alikesized
  <2> QED BY <1>6, <1>7, <1>8, <1>9, <2>1 DEF Served
<1>11. Joins(h, heap, Al, p, C)
  BY <1>4, <1>6, <1>7, <1>8 DEF Joins, Alikesized
<1>12. Serves(Al, h, B, C, p, n, r)
  BY <1>3, <1>4, <1>10, <1>11 DEF Serves, Tidy
<1> QED BY <1>1, <1>12, ServesSound

LEMMA MallocSplitSound ==
  ASSUME HasRoom, IInv, NEW r \in Requests, MallocSplit(r)
  PROVE  IInv'
<1>1. PICK B, Al : Sound(B, Al)
  BY DEF IInv
<1>2. PICK q, n : q = Found(Units(r)) /\ n = Units(r)
  OBVIOUS
<1>3. PICK m : m = heap.tag[q].size - n
  OBVIOUS
<1>4. PICK p : p = q + m
  OBVIOUS
<1>5. PICK u : u = SplitTags(heap, q, n, m, p)
  OBVIOUS
<1>6. PICK h : h = [heap EXCEPT !.tag = u]
  BY Zenon
<1>7. /\ pc = "trace" /\ q # Null /\ heap.tag[q].size > n + Slack
      /\ Return(h, p, r) /\ tree' = Insert(Delete(tree, q), SizeIn(h), q)
      /\ alloc_num' = alloc_num /\ first' = first /\ sizes' = sizes
      /\ pc' = pc /\ lst_tracker' = lst_tracker
  BY <1>2, <1>3, <1>4, <1>5, <1>6, Zenon DEF MallocSplit, SplitTags, history, IsAllocated
<1>8. Kept(heap, tree, B, Al) /\ Tidy /\ Al \subseteq B
  <2>1. Kept(heap, tree, B, Al) /\ Tidy
    BY <1>1, <1>7, SoundMeans DEF Intact
  <2> QED BY <2>1, KeptMeans
<1>9. n \in Nat /\ n >= 3 /\ r <= 8 * (n - 2) /\ r \in Nat
  BY <1>2, UnitsRoom DEF HasRoom
<1>10. q \in B /\ q \notin Al /\ heap.tag[q].size \in Nat
  BY <1>2, <1>7, <1>8, <1>9, FoundMeans
<1>11. m \in Nat /\ m >= 3 /\ heap.tag[q].size = m + n
  BY <1>3, <1>7, <1>9, <1>10 DEF Slack
<1>12. Splitting(heap, B, Al, q, n, m, p, u, h)
  BY <1>4, <1>5, <1>6, <1>9, <1>10, <1>11 DEF Splitting
<1>13. PICK X, C : X = B \cup {p} /\ C = Al \cup {p}
  OBVIOUS
<1>14. /\ p \notin B /\ Kept(h, tree', X, C) /\ SizedLike(h.tag, heap.tag, B, q, m)
       /\ BlockSize(h, p) = n
  <2>1. /\ p \in Unit /\ p \notin B
        /\ Kept(h, Insert(Delete(tree, q), SizeIn(h), q), B \cup {p}, Al \cup {p})
        /\ h.brk = heap.brk /\ SizedLike(h.tag, heap.tag, B, q, m) /\ BlockSize(h, p) = n
    BY ONLY HasRoom, <1>8, <1>12, SplitKeeps
  <2> QED BY <1>7, <1>13, <2>1
<1>15. Served(h, tree', X, C, p, n, r)
  BY <1>9, <1>13, <1>14 DEF Served
<1>16. Joins(h, heap, Al, p, C)
  BY <1>8, <1>10, <1>13, <1>14 DEF Joins, Alikesized, SizedLike
<1>17. Serves(Al, h, X, C, p, n, r)
  BY <1>7, <1>8, <1>15, <1>16 DEF Serves, Tidy
<1> QED BY <1>1, <1>17, ServesSound

(* A block g from memlib at p, for r bytes: what is common to the two cases. *)
Growing(B, Al, r, n, p, g) ==
  /\ pc = "trace" /\ Tidy /\ n \in Nat /\ n >= 3 /\ Room(heap, n) /\ r <= 8 * (n - 2)
  /\ p \in Unit /\ p \notin B /\ Kept(g, tree, B \cup {p}, Al \cup {p})
  /\ Grew(g, heap, n) /\ Alikesized(g, heap, B) /\ BlockSize(g, p) = n
  /\ p \in Nat /\ n <= MaxHeap /\ Al \subseteq B /\ MaxHeap \in Nat
  /\ \A q \in B \ Al : heap.tag[q].size < n

LEMMA GrowsMeans ==
  ASSUME HasRoom, NEW B, NEW Al, Sound(B, Al), NEW r \in Requests, GrowsFor(r),
         NEW n, n = Units(r), NEW p, p = heap.brk, NEW g, g = Grown(n)
  PROVE  Growing(B, Al, r, n, p, g)
<1>1. pc = "trace" /\ Found(n) = Null /\ Room(heap, n)
  BY DEF GrowsFor
<1>2. Kept(heap, tree, B, Al) /\ Tidy /\ Al \subseteq B /\ MaxHeap \in Nat /\ heap \in HeapState
  <2>1. Kept(heap, tree, B, Al) /\ Tidy
    BY <1>1, SoundMeans DEF Intact
  <2> QED BY <2>1, KeptMeans
<1>3. n \in Nat /\ n >= 3 /\ r <= 8 * (n - 2)
  BY UnitsRoom DEF HasRoom
<1>4. g = GrownBy(heap, n, 1)
  BY DEF Grown, GrownBy
<1>5. /\ p \in Unit /\ p \notin B /\ Kept(g, tree, B \cup {p}, Al \cup {p})
      /\ Grew(g, heap, n) /\ Alikesized(g, heap, B) /\ BlockSize(g, p) = n
  BY <1>1, <1>2, <1>3, <1>4, GrownKeeps
<1>6. \A q \in B \ Al : heap.tag[q].size < n
  BY <1>1, <1>2, <1>3, FoundMeans
<1>7. p \in Nat /\ n <= MaxHeap
  <2>1. p \in 1 .. MaxHeap + 1 /\ p + n <= MaxHeap + 1
    BY <1>1, <1>2 DEF HeapState, Room
  <2> QED BY <1>2, <1>3, <2>1
<1> QED BY <1>1, <1>2, <1>3, <1>5, <1>6, <1>7 DEF Growing

LEMMA MallocGrowSound ==
  ASSUME HasRoom, IInv, NEW r \in Requests, MallocGrow(r)
  PROVE  IInv'
<1>1. PICK B, Al : Sound(B, Al)
  BY DEF IInv
<1>2. PICK n, p, h : n = Units(r) /\ p = heap.brk /\ h = Grown(n)
  OBVIOUS
<1>3. /\ GrowsFor(r) /\ Return(h, p, r) /\ tree' = tree
      /\ alloc_num' = (IF alloc_num < AllocNumMinInit THEN alloc_num + 1 ELSE alloc_num)
      /\ first' = first /\ sizes' = sizes /\ pc' = pc /\ lst_tracker' = lst_tracker
  BY <1>2 DEF MallocGrow
<1>4. PICK X, C : X = B \cup {p} /\ C = Al \cup {p}
  OBVIOUS
<1>5. /\ pc = "trace" /\ Tidy /\ n \in Nat /\ r <= 8 * (n - 2)
      /\ p \notin B /\ Kept(h, tree, X, C)
      /\ Alikesized(h, heap, B) /\ BlockSize(h, p) = n /\ Al \subseteq B
  BY <1>1, <1>2, <1>3, <1>4, GrowsMeans DEF Growing
<1>6. Served(h, tree', X, C, p, n, r)
  BY <1>3, <1>4, <1>5 DEF Served
<1>7. Joins(h, heap, Al, p, C)
  BY <1>4, <1>5 DEF Joins, Alikesized
<1>8. alloc_num' \in 0 .. AllocNumMinInit
  BY <1>3, <1>5 DEF Tidy, HasRoom
<1>9. Serves(Al, h, X, C, p, n, r)
  BY <1>3, <1>5, <1>6, <1>7, <1>8 DEF Serves, Tidy
<1> QED BY <1>1, <1>9, ServesSound

(* And with predicted blocks behind it. *)
LEMMA PredictsSettles ==
  ASSUME HasRoom, NEW B, NEW Al, Sound(B, Al), NEW r \in Requests, GrowsFor(r),
         NEW n, n = Units(r), NEW p, p = heap.brk, NEW g, g = Grown(n),
         NEW c, c = Count(n), Room(heap, (c + 1) * n),
         NEW f, IsBurst(f, [heap |-> g, tree |-> tree], n)
  PROVE  \E X : /\ Served(f[c].heap, f[c].tree, X, Al \cup {p}, p, n, r)
                /\ Joins(f[c].heap, heap, Al, p, Al \cup {p})
<1>1. PICK X, C : X = B \cup {p} /\ C = Al \cup {p}
  OBVIOUS
<1>2. /\ n \in Nat /\ n >= 3 /\ Room(heap, n) /\ r <= 8 * (n - 2)
      /\ p \notin B /\ Kept(g, tree, X, C)
      /\ Grew(g, heap, n) /\ Alikesized(g, heap, B) /\ BlockSize(g, p) = n
      /\ p \in Nat /\ Al \subseteq B /\ MaxHeap \in Nat
  <2>1. Growing(B, Al, r, n, p, g)
    BY ONLY HasRoom, Sound(B, Al), r \in Requests, GrowsFor(r), n = Units(r), p = heap.brk,
            g = Grown(n), GrowsMeans
  <2> QED BY <1>1, <2>1 DEF Growing
<1>3. c \in {1, 4, 8}
  BY DEF Count
<1>4. PICK x : x = [heap |-> g, tree |-> tree]
  OBVIOUS
<1>5. IsBurst(f, x, n) /\ x.heap = g /\ x.tree = tree
  BY <1>4
<1>6. f[0] = x
  BY <1>5 DEF IsBurst
<1>7. Leaves(g, c, n)
  <2>1. p + (c + 1) * n <= MaxHeap + 1
    BY DEF Room
  <2>2. (c + 1) * n = n + c * n
    <3>1. CASE c = 1
      BY <1>2, <3>1
    <3>2. CASE c = 4
      BY <1>2, <3>2
    <3>3. CASE c = 8
      BY <1>2, <3>3
    <3> QED BY <1>3, <3>1, <3>2, <3>3
  <2>3. g.brk = p + n
    BY <1>2 DEF Grew
  <2>4. PICK k : k = c * n
    OBVIOUS
  <2>5. k \in Nat
    BY <1>2, <1>3, <2>4
  <2>6. p + n + k <= MaxHeap + 1
    BY <1>2, <2>1, <2>2, <2>4, <2>5
  <2> QED BY <2>3, <2>4, <2>6 DEF Leaves
<1>8. BurstAt(f, 0, c, n, g, C)
  <2>1. Alikesized(g, g, C) /\ X # {}
    BY <1>1 DEF Alikesized
  <2> QED BY <1>2, <1>5, <1>6, <1>7, <2>1 DEF BurstAt
<1>9. BurstAt(f, c, 0, n, g, C)
  BY <1>2, <1>3, <1>5, <1>8, BurstEnds
<1>10. PICK h, t : h = f[c].heap /\ t = f[c].tree
  OBVIOUS
<1>11. PICK Y : Kept(h, t, Y, C) /\ Alikesized(h, g, C)
  BY <1>9, <1>10 DEF BurstAt
<1>12. BlockSize(h, p) = n /\ Alikesized(h, heap, Al) /\ p \in C /\ p \notin Al
  BY <1>1, <1>2, <1>11 DEF BlockSize, Alikesized
<1>13. Served(h, t, Y, C, p, n, r)
  BY <1>2, <1>11, <1>12 DEF Served
<1>14. Joins(h, heap, Al, p, C)
  BY <1>1, <1>12 DEF Joins
<1> QED BY <1>1, <1>10, <1>13, <1>14

\* What MallocPredict does, the predicted states at f.
Predicts(r, n, p, f, c) ==
  /\ GrowsFor(r) /\ MayPredict
  /\ alloc_num' = 0 /\ first' = FALSE /\ sizes' = <<n, sizes[1]>> /\ lst_tracker' = lst_tracker
  /\ \/ /\ Room(heap, (c + 1) * n) /\ Return(f[c].heap, p, r) /\ tree' = f[c].tree /\ pc' = pc
     \/ /\ pc' = "crashed" /\ heap' = heap /\ tree' = tree /\ ranges' = ranges /\ freed' = freed

LEMMA MallocPredicts ==
  ASSUME NEW r \in Requests, MallocPredict(r), NEW n, n = Units(r)
  PROVE  \E f : /\ IsBurst(f, [heap |-> Grown(n), tree |-> tree], n)
                /\ Predicts(r, n, heap.brk, f, Count(n))
<1> DEFINE x == [heap |-> Grown(n), tree |-> tree]
           F == CHOOSE f : IsBurst(f, x, n)
<1>1. IsBurst(F, x, n)
  BY BurstExists
<1>2. Predicts(r, n, heap.brk, F, Count(n))
  BY DEF MallocPredict, IsBurst, Predicts
<1> QED BY <1>1, <1>2

LEMMA MallocPredictSound ==
  ASSUME HasRoom, IInv, NEW r \in Requests, MallocPredict(r)
  PROVE  IInv'
<1>1. PICK B, Al : Sound(B, Al)
  BY DEF IInv
<1>2. PICK n, p, g, c : n = Units(r) /\ p = heap.brk /\ g = Grown(n) /\ c = Count(n)
  OBVIOUS
<1>3. PICK f : IsBurst(f, [heap |-> g, tree |-> tree], n) /\ Predicts(r, n, p, f, c)
  BY <1>2, MallocPredicts
<1>4. /\ pc = "trace" /\ Tidy /\ n \in Nat /\ n <= MaxHeap
  <2>1. GrowsFor(r) /\ n = Units(r) /\ p = heap.brk /\ g = Grown(n)
    BY <1>2, <1>3 DEF Predicts
  <2>2. Growing(B, Al, r, n, p, g)
    BY ONLY HasRoom, <1>1, r \in Requests, <2>1, GrowsMeans
  <2> QED BY <2>2 DEF Growing
<1>5. Intact(B, Al)
  BY <1>1, <1>4, SoundMeans
<1>6. alloc_num' \in 0 .. AllocNumMinInit /\ first' \in BOOLEAN /\ Sized2(sizes')
  <2>1. sizes[1] \in 0 .. MaxHeap /\ n \in 0 .. MaxHeap
    BY <1>4 DEF Tidy, Sized2, HasRoom
  <2>2. alloc_num' = 0 /\ first' = FALSE /\ sizes' = <<n, sizes[1]>>
    BY <1>3 DEF Predicts
  <2>3. alloc_num' \in 0 .. AllocNumMinInit /\ first' \in BOOLEAN
    <3>1. 0 \in 0 .. AllocNumMinInit
      BY DEF HasRoom
    <3> QED BY <2>2, <3>1
  <2>4. Sized2(sizes')
    <3>1. PICK k : k = sizes[1]
      OBVIOUS
    <3> QED BY <2>1, <2>2, <3>1 DEF Sized2
  <2> QED BY <2>3, <2>4
<1>7. CASE pc' = pc
  <2>1. Room(heap, (c + 1) * n) /\ Return(f[c].heap, p, r) /\ tree' = f[c].tree
    BY <1>3, <1>4, <1>7 DEF Predicts
  <2>2. PICK C : C = Al \cup {p}
    OBVIOUS
  <2>3. PICK X : Served(f[c].heap, f[c].tree, X, C, p, n, r) /\ Joins(f[c].heap, heap, Al, p, C)
    <3>1. GrowsFor(r)
      BY <1>3 DEF Predicts
    <3> QED BY <1>1, <1>2, <1>3, <2>1, <2>2, <3>1, PredictsSettles
  <2>4. PICK h : h = f[c].heap
    OBVIOUS
  <2>5. lst_tracker' = lst_tracker
    BY <1>3 DEF Predicts
  <2>6. Serves(Al, h, X, C, p, n, r)
    BY <1>4, <1>6, <1>7, <2>1, <2>3, <2>4, <2>5 DEF Serves
  <2> QED BY <1>1, <2>6, ServesSound
<1>8. CASE pc' # pc
  <2>1. /\ pc' = "crashed" /\ heap' = heap /\ tree' = tree /\ ranges' = ranges /\ freed' = freed
        /\ lst_tracker' = lst_tracker
    BY <1>3, <1>8 DEF Predicts
  <2>2. Kept(heap, tree, B, Al) /\ Carried(heap, Al, ranges)
    BY <1>5 DEF Intact
  <2>3. Grounded(heap, B, Al) /\ TreeHolds(tree, B \ Al, SizeIn(heap)) /\ tree \in Tree
    BY <2>2, KeptIs
  <2>4. Sound(B, Al)'
    BY <1>4, <1>6, <2>1, <2>2, <2>3 DEF Sound, Tidy
  <2> QED BY <2>4 DEF IInv
<1> QED BY <1>7, <1>8

-----------------------------------------------------------------------------
(* mm_free, of the driver and in mm_exit.                                  *)
LEMMA FreeBlockSound ==
  ASSUME HasRoom, NEW B, NEW Al, Sound(B, Al), pc # "done", NEW p, p \in Al, FreeBlock(p)
  PROVE  \E J, C : /\ Kept(heap', tree', J, C) /\ Carried(heap', C, ranges') /\ freed' \subseteq Unit
                   /\ (\A q \in Al : p <= q) => Tracked(heap', J, C, p + heap'.tag[p].size)
<1>1. Kept(heap, tree, B, Al) /\ Carried(heap, Al, ranges) /\ Tidy /\ MaxHeap \in Nat
  BY SoundMeans DEF Intact
<1>2. PICK y, a, j, f : /\ y = p + heap.tag[p].size /\ a = Around(heap, p) /\ j = Joined(heap, p)
                        /\ f = FreeTags(heap, p)
  OBVIOUS
<1>3. PICK J, C, k : /\ J = {q \in B : q <= j.at \/ j.at + j.size <= q} /\ C = Al \ {p}
                     /\ k = j.at + 1
  OBVIOUS
<1>4. PICK t, x : t = [f EXCEPT ![k] = NoTag] /\ x = [heap EXCEPT !.tag = f]
  OBVIOUS
<1>5. PICK g, d : /\ g = [heap EXCEPT !.tag = t]
                  /\ d = (IF JoinsPrev(a) THEN Delete(tree, p - heap.tag[p - 1].size) ELSE tree)
  OBVIOUS
<1>6. PICK e : e = IF JoinsNext(a) THEN Delete(d, y) ELSE d
  OBVIOUS
<1>7. Releases(heap, B, Al, p, y, a, j, J, C, k, t, g)
  BY <1>2, <1>3, <1>4, <1>5 DEF Releases
<1>8. Replants(heap, tree, p, y, a, j, f, x, d, e)
  BY <1>2, <1>4, <1>5, <1>6 DEF Replants
<1>9. /\ heap' = [x EXCEPT !.tag[k] = NoTag] /\ tree' = Insert(e, SizeIn(x), j.at)
      /\ ranges' = {z \in ranges : z.lo # p + 1}
      /\ freed' = IF FreesTwice THEN freed \cup {p + 1} ELSE {}
  BY <1>2, <1>3, <1>4, <1>5, <1>6, Zenon DEF FreeBlock
<1>10. heap \in HeapState /\ Stands(heap, B, Al) /\ Laid(heap.tag, heap.start, heap.end, B) /\ Al \subseteq B
  BY <1>1, KeptMeans
<1>11. /\ Reads(heap, B, Al, p, y, a, j) /\ Freed(heap, B, Al, p, y, a, j, J, C, t)
       /\ Stands(g, J, C) /\ g.tag = t /\ g.start = heap.start /\ g.end = heap.end
       /\ f \in [Unit -> Tag]
  BY <1>1, <1>2, <1>7, <1>10, FreeStands
<1>12. heap' = g
  <2>1. x \in HeapState /\ x.tag = f
    BY <1>4, <1>10, <1>11, Retag
  <2>2. [x EXCEPT !.tag[k] = NoTag] = [x EXCEPT !.tag = [f EXCEPT ![k] = NoTag]]
    BY <2>1
  <2>3. [x EXCEPT !.tag = t] = [heap EXCEPT !.tag = t]
    BY <1>4, <1>10 DEF HeapState
  <2> QED BY <1>4, <1>5, <1>9, <2>2, <2>3
<1>13. Kept(g, tree', J, C)
  <2>1. Kept(g, Insert(e, SizeIn(x), j.at), J, C)
    BY ONLY HasRoom, <1>1, <1>7, <1>8, FreeKeeps
  <2> QED BY <1>9, <2>1
<1>14. p \in Nat /\ p + 1 \in Unit /\ Al \subseteq Nat
  BY <1>10 DEF Laid
<1>15. freed' \subseteq Unit
  BY <1>1, <1>9, <1>14 DEF Tidy
<1>16. ASSUME NEW q \in Al, q # p PROVE g.tag[q].size = heap.tag[q].size
  <2>1. q # j.at
    <3>1. CASE JoinsPrev(a)
      <4>1. j.at \notin Al
        BY <1>11, <3>1 DEF Reads
      <4> QED BY <4>1
    <3>2. CASE ~ JoinsPrev(a)
      <4>1. j.at = p
        BY <1>11, <3>2 DEF Reads
      <4> QED BY <1>16, <4>1
    <3> QED BY <3>1, <3>2
  <2>2. t[q].size = heap.tag[q].size
    BY <1>10, <1>11, <2>1 DEF Freed
  <2> QED BY <1>11, <2>2
<1>17. Carried(g, C, ranges')
  <2>1. Without(g, heap, Al, ranges, p, C, ranges')
    BY <1>3, <1>9, <1>16 DEF Without
  <2> QED BY <1>1, <1>14, <2>1, CarriedLess
<1>18. ASSUME \A q \in Al : p <= q PROVE Tracked(g, J, C, p + g.tag[p].size)
  <2>1. t = g.tag
    BY <1>11
  <2> QED BY <1>1, <1>2, <1>3, <1>10, <1>11, <1>18, <2>1, TrackedFree
<1> QED BY <1>12, <1>13, <1>15, <1>17, <1>18

LEMMA FreeSound ==
  ASSUME HasRoom, IInv, NEW x \in ranges, Free(x)
  PROVE  IInv'
<1>1. PICK B, Al : Sound(B, Al)
  BY DEF IInv
<1>2. PICK p : p = x.lo - 1
  OBVIOUS
<1>3. /\ pc = "trace" /\ pc' = pc /\ lst_tracker' = lst_tracker /\ FreeBlock(p)
      /\ alloc_num' = alloc_num /\ first' = first /\ sizes' = sizes
  BY <1>2 DEF Free, history
<1>4. Carried(heap, Al, ranges) /\ Tidy
  BY <1>1, SoundMeans
<1>5. p \in Al
  BY <1>2, <1>4 DEF Carried
<1>6. PICK J, C : Kept(heap', tree', J, C) /\ Carried(heap', C, ranges') /\ freed' \subseteq Unit
  BY <1>1, <1>3, <1>5, FreeBlockSound
<1>7. Grounded(heap', J, C) /\ TreeHolds(tree', J \ C, SizeIn(heap')) /\ tree' \in Tree
  BY <1>6, KeptIs
<1>8. Sound(J, C)'
  BY <1>3, <1>4, <1>6, <1>7 DEF Sound, Tidy
<1> QED BY <1>8 DEF IInv

LEMMA ExitSound == ASSUME HasRoom, IInv, Exit PROVE IInv'
<1>1. PICK B, Al : Sound(B, Al)
  BY DEF IInv
<1>2. /\ pc = "trace" /\ pc' = "exit" /\ lst_tracker' = heap.start
      /\ heap' = heap /\ tree' = tree /\ ranges' = ranges /\ freed' = freed
      /\ alloc_num' = alloc_num /\ first' = first /\ sizes' = sizes
  BY DEF Exit, history
<1>3. /\ Stands(heap, B, Al) /\ heap.start = 1 /\ MaxHeap \in Nat
      /\ Laid(heap.tag, heap.start, heap.end, B) /\ Fits(heap.tag, heap.start, heap.end, B, Al, Al)
  <2>1. Stands(heap, B, Al) /\ heap.start = 1 /\ MaxHeap \in Nat
    BY <1>1, SoundMeans
  <2> QED BY <2>1, StandsMeans
<1>4. Tracked(heap, B, Al, heap.start)
  <2>1. heap.start \in B \cup {heap.end} /\ Al \subseteq B
    BY <1>3 DEF Fits
  <2>2. \A q \in B : heap.start <= q
    BY <1>3 DEF Laid
  <2> QED BY <2>1, <2>2 DEF Tracked
<1>5. heap.start \in 1 .. MaxHeap + 1
  BY <1>3
<1>6. Sound(B, Al)'
  BY <1>1, <1>2, <1>4, <1>5 DEF Sound
<1> QED BY <1>6 DEF IInv

LEMMA ExitStepSound == ASSUME HasRoom, IInv, ExitStep PROVE IInv'
<1>1. PICK B, Al : Sound(B, Al)
  BY DEF IInv
<1>2. /\ pc = "exit" /\ pc' = "exit" /\ lst_tracker < heap.end
      /\ lst_tracker' = lst_tracker + heap'.tag[lst_tracker].size
      /\ alloc_num' = alloc_num /\ first' = first /\ sizes' = sizes
  BY DEF ExitStep, history
<1>3. /\ Stands(heap, B, Al) /\ MaxHeap \in Nat /\ Tidy /\ Tracked(heap, B, Al, lst_tracker)
  <2>1. Stands(heap, B, Al) /\ MaxHeap \in Nat /\ Tidy
    BY <1>1, SoundMeans
  <2> QED BY <1>1, <1>2, <2>1 DEF Sound
<1>4. PICK k : k = lst_tracker
  OBVIOUS
<1>5. /\ k < heap.end /\ IsAllocated(heap, k) => k \in Al /\ \A q \in Al : k <= q
      /\ k < heap.end /\ ~ IsAllocated(heap, k) => Tracked(heap, B, Al, k + heap.tag[k].size)
  <2>1. Tracked(heap, B, Al, k)
    BY <1>3, <1>4
  <2> QED BY <1>3, <2>1, TrackedAt
<1>6. CASE IsAllocated(heap, k)
  <2>1. FreeBlock(k)
    BY <1>4, <1>6 DEF ExitStep
  <2>2. k \in Al /\ \A q \in Al : k <= q
    BY <1>2, <1>4, <1>5, <1>6
  <2>3. PICK J, C : /\ Kept(heap', tree', J, C) /\ Carried(heap', C, ranges') /\ freed' \subseteq Unit
                    /\ (\A q \in Al : k <= q) => Tracked(heap', J, C, k + heap'.tag[k].size)
    BY <1>1, <1>2, <2>1, <2>2, FreeBlockSound
  <2>4. Tracked(heap', J, C, lst_tracker')
    BY <1>2, <1>4, <2>2, <2>3
  <2>5. Grounded(heap', J, C) /\ TreeHolds(tree', J \ C, SizeIn(heap')) /\ tree' \in Tree
    BY <2>3, KeptIs
  <2>6. lst_tracker' \in 1 .. MaxHeap + 1
    BY <1>3, <2>4, <2>5, TrackedAt DEF Grounded
  <2>7. Sound(J, C)'
    BY <1>2, <1>3, <2>3, <2>4, <2>5, <2>6 DEF Sound, Tidy
  <2> QED BY <2>7 DEF IInv
<1>7. CASE ~ IsAllocated(heap, k)
  <2>1. heap' = heap /\ tree' = tree /\ ranges' = ranges /\ freed' = freed
    BY <1>4, <1>7 DEF ExitStep
  <2>2. Tracked(heap, B, Al, lst_tracker')
    BY <1>2, <1>4, <1>5, <1>7, <2>1
  <2>3. lst_tracker' \in 1 .. MaxHeap + 1
    BY <1>3, <2>2, TrackedAt
  <2>4. Sound(B, Al)'
    BY <1>1, <1>2, <2>1, <2>2, <2>3 DEF Sound
  <2> QED BY <2>4 DEF IInv
<1> QED BY <1>6, <1>7

\* When mm_exit returns, nothing is allocated.
LEMMA NothingLeft == ASSUME HasRoom, IInv, ExitReturns PROVE ranges = {}
<1>1. PICK B, Al : Sound(B, Al)
  BY DEF IInv
<1>2. pc = "exit" /\ lst_tracker >= heap.end
  BY DEF ExitReturns
<1>3. /\ Stands(heap, B, Al) /\ Carried(heap, Al, ranges) /\ MaxHeap \in Nat
      /\ Tracked(heap, B, Al, lst_tracker)
  <2>1. Stands(heap, B, Al) /\ Carried(heap, Al, ranges) /\ MaxHeap \in Nat
    BY <1>1, SoundMeans
  <2> QED BY <1>1, <1>2, <2>1 DEF Sound
<1>4. Al = {}
  BY <1>2, <1>3, TrackedAt
<1> QED BY <1>3, <1>4 DEF Carried

LEMMA ExitReturnsSound == ASSUME HasRoom, IInv, ExitReturns PROVE IInv'
<1>1. PICK B, Al : Sound(B, Al)
  BY DEF IInv
<1>2. /\ pc' = "done" /\ alloc_num' = 0 /\ first' = TRUE /\ tree' = EmptyTree /\ lst_tracker' = 1
      /\ heap' = heap /\ ranges' = ranges /\ freed' = freed /\ sizes' = sizes
  BY DEF ExitReturns
<1>3. ranges = {}
  BY NothingLeft
<1>4. EmptyTree \in Tree /\ 1 \in 1 .. MaxHeap + 1 /\ 0 \in 0 .. AllocNumMinInit
  BY FreshSound DEF HasRoom
<1>5. Sound(B, Al)'
  BY <1>1, <1>2, <1>3, <1>4 DEF Sound
<1> QED BY <1>5 DEF IInv

LEMMA BeginSound == ASSUME HasRoom, IInv, Begin PROVE IInv'
<1>1. PICK B, Al : Sound(B, Al)
  BY DEF IInv
<1>2. /\ heap' = Fresh /\ tree' = EmptyTree /\ ranges' = {} /\ freed' = {} /\ pc' = "trace"
      /\ lst_tracker' = lst_tracker /\ alloc_num' = alloc_num /\ first' = first /\ sizes' = sizes
  BY DEF Begin, Fresh, history
<1>3. Grounded(Fresh, {}, {}) /\ TreeHolds(EmptyTree, {} \ {}, SizeIn(Fresh)) /\ EmptyTree \in Tree
  BY FreshSound, KeptIs
<1>4. Carried(Fresh, {}, {})
  BY FreshSound
<1>5. Sound({}, {})'
  BY <1>1, <1>2, <1>3, <1>4 DEF Sound
<1> QED BY <1>5 DEF IInv

LEMMA StutterSound == ASSUME IInv, UNCHANGED vars PROVE IInv'
<1>1. PICK B, Al : Sound(B, Al)
  BY DEF IInv
<1>2. Sound(B, Al)'
  BY <1>1 DEF Sound, vars, history
<1> QED BY <1>2 DEF IInv

LEMMA NextSound == ASSUME HasRoom, IInv, [Next]_vars PROVE IInv'
BY MallocWholeSound, MallocSplitSound, MallocGrowSound, MallocPredictSound, FreeSound,
   ExitSound, ExitStepSound, ExitReturnsSound, BeginSound, StutterSound DEF Next, Malloc

LEMMA AlwaysSound == ASSUME HasRoom PROVE Spec => []IInv
<1>1. Init => IInv
  BY InitSound
<1>2. IInv /\ [Next]_vars => IInv'
  BY NextSound
<1> QED BY <1>1, <1>2, PTL DEF Spec

-----------------------------------------------------------------------------
(* The state is well formed, whatever mm_malloc, mm_free and mm_exit did. *)
THEOREM MmTypes == ASSUME HasRoom PROVE Spec => []TypeOK
<1>1. IInv => TypeOK
  BY DEF IInv, Sound, Grounded, Stands, Carried, Sized2, TypeOK
<1> QED BY <1>1, AlwaysSound, PTL

(* What the tags say of the blocks of Sound. *)
LEMMA SoundBlocks ==
  ASSUME HasRoom, NEW B, NEW Al, Sound(B, Al)
  PROVE  /\ Blocks(heap) = B /\ Astray \notin B /\ B \subseteq Unit /\ Al \subseteq B
         /\ \A p \in B : IsAllocated(heap, p) <=> p \in Al
<1>1. MaxHeap \in Nat /\ Stands(heap, B, Al)
  BY SoundMeans
<1> QED BY <1>1, StandsMeans, StandsBlocks

(* Blocks tile the heap up to the break and their tags tell the truth:     *)
(* splitting, prediction and all nine cases of mm_free keep it so.         *)
THEOREM MmHeapTiled == ASSUME HasRoom PROVE Spec => []HeapTiled
<1>1. ASSUME IInv PROVE Tiled(heap)
  <2>1. PICK B, Al : Sound(B, Al)
    BY <1>1 DEF IInv
  <2>2. MaxHeap \in Nat /\ Stands(heap, B, Al) /\ heap.end = heap.brk
    BY <2>1, SoundMeans
  <2> QED BY <2>2, StandsBlocks
<1>2. IInv => HeapTiled
  BY <1>1 DEF HeapTiled
<1> QED BY <1>2, AlwaysSound, PTL

(* The tree holds exactly the blocks whose tags say free, until mm_exit    *)
(* has returned: each split leaves the rest in it, each block joined with  *)
(* a freed one leaves it under its old size, and predicted blocks enter.   *)
THEOREM MmTreeHoldsFree == ASSUME HasRoom PROVE Spec => []TreeHoldsFree
<1>1. ASSUME IInv, pc # "done"
      PROVE  Below(tree)[tree.root] = {p \in Blocks(heap) \ {Astray} : ~IsAllocated(heap, p)}
  <2>1. PICK B, Al : Sound(B, Al)
    BY <1>1 DEF IInv
  <2>2. PICK F : F = B \ Al
    BY Zenon
  <2>3. TreeHolds(tree, F, SizeIn(heap))
    BY <1>1, <2>1, <2>2, SoundMeans
  <2>4. PICK pos, bd, hi : Framed(tree, F, pos, bd, hi)
    BY <2>3 DEF TreeHolds, Balanced
  <2>5. Below(tree)[tree.root] = F
    BY <2>4, BelowIsBelow, BelowRoot
  <2>6. F = {p \in Blocks(heap) \ {Astray} : ~IsAllocated(heap, p)}
    BY <2>1, <2>2, SoundBlocks
  <2> QED BY <2>5, <2>6
<1>2. IInv => TreeHoldsFree
  BY <1>1 DEF TreeHoldsFree
<1> QED BY <1>2, AlwaysSound, PTL

(* The driver's ranges are the allocated blocks, with room for what was    *)
(* asked for: mm_malloc returns no block that is in use, and a block that  *)
(* mm_free joins with others takes no allocated block with it.             *)
THEOREM MmCarriesRanges == ASSUME HasRoom PROVE Spec => []RangesAreBlocks
<1>1. ASSUME IInv PROVE Carries(heap, ranges)
  <2>1. PICK B, Al : Sound(B, Al)
    BY <1>1 DEF IInv
  <2>2. /\ ranges \subseteq [lo : Unit, bytes : Requests]
        /\ \A x \in ranges : x.lo - 1 \in Al /\ x.bytes <= 8 * (heap.tag[x.lo - 1].size - 2)
        /\ \A p \in Al : \E x \in ranges : x.lo = p + 1
    BY <2>1 DEF Sound, Carried
  <2>3. /\ Blocks(heap) = B /\ Astray \notin B /\ B \subseteq Unit /\ Al \subseteq B
        /\ \A p \in B : IsAllocated(heap, p) <=> p \in Al
    BY <2>1, SoundBlocks
  <2>4. {x.lo - 1 : x \in ranges} = Al
    <3>1. \A p \in Al : p \in Nat
      BY <2>3 DEF Unit
    <3>2. \A p \in Al : \E x \in ranges : x.lo - 1 = p
      BY <2>2, <3>1
    <3> QED BY <2>2, <3>2
  <2>5. {p \in Blocks(heap) \ {Astray} : IsAllocated(heap, p)} = Al
    BY <2>3
  <2> QED BY <2>2, <2>4, <2>5 DEF Carries
<1>2. IInv => RangesAreBlocks
  BY <1>1 DEF RangesAreBlocks
<1> QED BY <1>2, AlwaysSound, PTL

-----------------------------------------------------------------------------
(* Memory is taken from memlib, for the payload or to predict, only when   *)
(* find_block has nothing, and then no free block is large enough.         *)
Reuses == \A p \in Blocks(heap) \ {Astray} :
            heap'.brk > heap.brk /\ ~IsAllocated(heap, p)
              => \A x \in ranges' \ ranges : heap.tag[p].size < Units(x.bytes)

LEMMA TagsOnlyReuses ==
  ASSUME HasRoom, IInv, NEW t, NEW p, NEW r, Return([heap EXCEPT !.tag = t], p, r)
  PROVE  Reuses
<1>1. heap \in HeapState /\ MaxHeap \in Nat
  BY DEF IInv, Sound, Grounded, Stands, HasRoom
<1>2. heap'.brk = heap.brk
  BY <1>1 DEF Return, HeapState
<1>3. heap.brk \in Nat
  BY <1>1 DEF HeapState
<1>4. ~ (heap'.brk > heap.brk)
  BY <1>2, <1>3
<1> QED BY <1>4 DEF Reuses

LEMMA GrowthReuses ==
  ASSUME HasRoom, IInv, NEW r \in Requests, GrowsFor(r), NEW p, NEW h,
         Return(h, p, r) \/ ranges' = ranges
  PROVE  Reuses
<1>1. PICK B, Al : Sound(B, Al)
  BY DEF IInv
<1>2. PICK n, q, g : n = Units(r) /\ q = heap.brk /\ g = Grown(n)
  OBVIOUS
<1>3. Growing(B, Al, r, n, q, g)
  BY ONLY HasRoom, <1>1, <1>2, r \in Requests, GrowsFor(r), GrowsMeans
<1>4. \A y \in B \ Al : heap.tag[y].size < Units(r)
  BY <1>2, <1>3 DEF Growing
<1>5. \A y \in Blocks(heap) \ {Astray} : ~IsAllocated(heap, y) => y \in B \ Al
  BY <1>1, SoundBlocks
<1>6. \A x \in ranges' \ ranges : x.bytes = r
  BY DEF Return
<1> QED BY <1>4, <1>5, <1>6 DEF Reuses

LEMMA StepReuses == ASSUME HasRoom, IInv, [Next]_vars PROVE Reuses
<1>1. ASSUME NEW r \in Requests, MallocWhole(r) PROVE Reuses
  BY <1>1, TagsOnlyReuses DEF MallocWhole
<1>2. ASSUME NEW r \in Requests, MallocSplit(r) PROVE Reuses
  BY <1>2, TagsOnlyReuses DEF MallocSplit
<1>3. ASSUME NEW r \in Requests, MallocGrow(r) PROVE Reuses
  BY <1>3, GrowthReuses DEF MallocGrow
<1>4. ASSUME NEW r \in Requests, MallocPredict(r) PROVE Reuses
  <2>1. PICK n : n = Units(r)
    OBVIOUS
  <2>2. PICK f : Predicts(r, n, heap.brk, f, Count(n))
    BY <1>4, <2>1, MallocPredicts
  <2> QED BY <2>2, GrowthReuses DEF Predicts
<1>5. ASSUME ranges' \subseteq ranges PROVE Reuses
  BY <1>5 DEF Reuses
<1>6. ASSUME NEW p, FreeBlock(p) PROVE Reuses
  <2>1. ranges' \subseteq ranges
    BY <1>6 DEF FreeBlock
  <2> QED BY <1>5, <2>1
<1>7. ASSUME NEW x \in ranges, Free(x) PROVE Reuses
  BY <1>6, <1>7 DEF Free
<1>8. ASSUME ExitStep PROVE Reuses
  <2>1. CASE IsAllocated(heap, lst_tracker)
    BY <1>6, <1>8, <2>1 DEF ExitStep
  <2>2. CASE ~ IsAllocated(heap, lst_tracker)
    <3>1. ranges' = ranges
      BY <1>8, <2>2 DEF ExitStep
    <3> QED BY <1>5, <3>1
  <2> QED BY <2>1, <2>2
<1>9. Exit \/ ExitReturns \/ Begin \/ UNCHANGED vars => Reuses
  <2>1. Exit \/ ExitReturns \/ Begin \/ UNCHANGED vars => ranges' \subseteq ranges
    BY DEF Exit, ExitReturns, Begin, vars
  <2> QED BY <1>5, <2>1
<1> QED BY <1>1, <1>2, <1>3, <1>4, <1>7, <1>8, <1>9 DEF Next, Malloc

(* mm_malloc grows the heap only if no free block would do.                *)
THEOREM MmReusesFirst == ASSUME HasRoom PROVE Spec => ReusesFirst
<1>1. IInv /\ [Next]_vars => [Reuses]_vars
  BY StepReuses
<1> QED BY <1>1, AlwaysSound, PTL DEF Spec, ReusesFirst, Reuses

-----------------------------------------------------------------------------
(* What mdriver demands.                                                   *)

(* A call of mm_malloc is A!Alloc: the new payload overlaps none. *)
LEMMA ReturnAllocates ==
  ASSUME HasRoom, IInv', NEW r \in Requests, NEW h, NEW p, Return(h, p, r),
         pc = "trace", pc' = pc
  PROVE  A!Next \/ UNCHANGED <<ranges, pc = "done">>
<1>1. PICK x : x = [lo |-> p + 1, bytes |-> r]
  OBVIOUS
<1>2. ranges' = ranges \cup {x} /\ x \in ranges' /\ pc # "done" /\ pc' # "done"
  BY <1>1 DEF Return
<1>3. PICK B, Al : Stands(heap', B, Al) /\ Carried(heap', Al, ranges')
  BY DEF IInv, Sound, Grounded
<1>4. /\ x.lo \in Unit /\ A!Last(x) <= MaxHeap
  <2>1. LastUnit(x) = A!Last(x)
    BY DEF LastUnit, A!Last
  <2> QED BY <1>2, <1>3, <2>1, PayloadFits DEF HasRoom
<1>5. CASE x \in ranges
  BY <1>2, <1>5
<1>6. CASE x \notin ranges
  <2>1. ASSUME NEW y \in ranges PROVE ~ A!Overlap(x, y)
    <3>1. y \in ranges' /\ x # y
      BY <1>2, <1>6
    <3>2. ~ (x.lo <= LastUnit(y) /\ y.lo <= LastUnit(x))
      BY <1>2, <1>3, <3>1, PayloadsApart DEF HasRoom
    <3> QED BY <3>2 DEF LastUnit, A!Overlap, A!Last
  <2>2. x.lo >= 1
    BY <1>4 DEF Unit
  <2>3. A!Alloc(x)
    BY <1>2, <1>4, <2>1, <2>2 DEF A!Alloc
  <2>4. p + 1 \in 1 .. MaxHeap /\ A!Alloc([lo |-> p + 1, bytes |-> r])
    BY <1>1, <1>4, <2>3 DEF Unit
  <2> QED BY <2>4 DEF A!Next
<1> QED BY <1>5, <1>6

(* What mm_free gives back is the one payload of that block. *)
LEMMA FreeBlockFrees ==
  ASSUME HasRoom, IInv, NEW x \in ranges, NEW p, p + 1 = x.lo, FreeBlock(p), pc # "done", pc' = pc
  PROVE  A!Next
<1>1. PICK B, Al : Carried(heap, Al, ranges)
  BY DEF IInv, Sound
<1>2. \A y \in ranges : y.lo = x.lo => y = x
  BY <1>1 DEF Carried
<1>3. ranges' = {y \in ranges : y.lo # x.lo}
  BY DEF FreeBlock
<1>4. ranges' = ranges \ {x}
  BY <1>2, <1>3
<1>5. A!Free(x)
  BY <1>4 DEF A!Free
<1> QED BY <1>5 DEF A!Next

LEMMA StepImplements ==
  ASSUME HasRoom, IInv, IInv', [Next]_vars
  PROVE  A!Next \/ UNCHANGED <<ranges, pc = "done">>
<1> DEFINE Goal == A!Next \/ UNCHANGED <<ranges, pc = "done">>
<1>1. ASSUME NEW r \in Requests, MallocWhole(r) \/ MallocSplit(r) \/ MallocGrow(r) PROVE Goal
  <2>1. \E h, p : Return(h, p, r)
    BY <1>1 DEF MallocWhole, MallocSplit, MallocGrow
  <2>2. pc = "trace" /\ pc' = pc
    BY <1>1 DEF MallocWhole, MallocSplit, MallocGrow, GrowsFor
  <2> QED BY <2>1, <2>2, ReturnAllocates
<1>2. ASSUME NEW r \in Requests, MallocPredict(r) PROVE Goal
  <2>1. PICK n : n = Units(r)
    OBVIOUS
  <2>2. PICK f : Predicts(r, n, heap.brk, f, Count(n))
    BY <1>2, <2>1, MallocPredicts
  <2>3. pc = "trace"
    BY <2>2 DEF Predicts, GrowsFor
  <2>4. CASE pc' = pc
    <3>1. \E h, p : Return(h, p, r)
      BY <2>2, <2>3, <2>4 DEF Predicts
    <3> QED BY <2>3, <2>4, <3>1, ReturnAllocates
  <2>5. CASE pc' # pc
    <3>1. pc' = "crashed" /\ ranges' = ranges
      BY <2>2, <2>5 DEF Predicts
    <3> QED BY <2>3, <3>1
  <2> QED BY <2>4, <2>5
<1>3. ASSUME NEW x \in ranges, Free(x) PROVE A!Next
  <2>1. PICK p : p = x.lo - 1
    OBVIOUS
  <2>2. FreeBlock(p) /\ pc # "done" /\ pc' = pc
    BY <1>3, <2>1 DEF Free
  <2>3. p + 1 = x.lo
    BY <2>1 DEF IInv, Sound, Carried, Unit
  <2> QED BY <2>2, <2>3, FreeBlockFrees
<1>4. ASSUME Exit PROVE UNCHANGED <<ranges, pc = "done">>
  BY <1>4 DEF Exit
<1>5. ASSUME ExitStep PROVE Goal
  <2>1. pc = "exit" /\ pc' = pc /\ lst_tracker < heap.end
    BY <1>5 DEF ExitStep
  <2>2. PICK k : k = lst_tracker
    OBVIOUS
  <2>3. CASE IsAllocated(heap, k)
    <3>1. FreeBlock(k)
      BY <1>5, <2>2, <2>3 DEF ExitStep
    <3>2. PICK B, Al : Sound(B, Al)
      BY DEF IInv
    <3>3. k \in Al
      <4>1. Stands(heap, B, Al) /\ MaxHeap \in Nat
        BY <3>2, SoundMeans
      <4>2. Tracked(heap, B, Al, k)
        BY <2>1, <2>2, <3>2 DEF Sound
      <4> QED BY <2>1, <2>2, <2>3, <4>1, <4>2, TrackedAt
    <3>4. PICK x \in ranges : x.lo = k + 1
      BY <3>2, <3>3 DEF Sound, Carried
    <3> QED BY <2>1, <3>1, <3>4, FreeBlockFrees
  <2>4. CASE ~ IsAllocated(heap, k)
    <3>1. ranges' = ranges
      BY <1>5, <2>2, <2>4 DEF ExitStep
    <3> QED BY <2>1, <3>1
  <2> QED BY <2>3, <2>4
<1>6. ASSUME ExitReturns PROVE A!Next
  <2>1. ranges = {}
    BY <1>6, NothingLeft
  <2>2. pc = "exit" /\ pc' = "done" /\ ranges' = ranges
    BY <1>6 DEF ExitReturns
  <2>3. A!End
    BY <2>1, <2>2 DEF A!End
  <2> QED BY <2>3 DEF A!Next
<1>7. ASSUME Begin PROVE A!Next
  <2>1. pc = "done" /\ pc' = "trace" /\ ranges' = {}
    BY <1>7 DEF Begin
  <2>2. ranges = {}
    BY <2>1 DEF IInv, Sound
  <2>3. A!Begin
    BY <2>1, <2>2 DEF A!Begin
  <2> QED BY <2>3 DEF A!Next
<1>8. ASSUME UNCHANGED vars PROVE UNCHANGED <<ranges, pc = "done">>
  BY <1>8 DEF vars
<1> QED BY <1>1, <1>2, <1>3, <1>4, <1>5, <1>6, <1>7, <1>8 DEF Next, Malloc

(* Every behaviour does what mdriver demands: payloads lie in the heap and *)
(* overlap no payload in use, each is given back once, and when mm_exit    *)
(* has returned nothing is in use.  (A call that crashes because memlib    *)
(* has no room for a predicted block returns nothing.)                     *)
THEOREM MmImplementsAllocator == ASSUME HasRoom PROVE Spec => ImplementsAllocator
<1>1. Init => A!Init
  BY DEF Init, A!Init
<1>2. IInv /\ IInv' /\ [Next]_vars => [A!Next]_<<ranges, pc = "done">>
  BY StepImplements
<1> QED BY <1>1, <1>2, AlwaysSound, PTL DEF Spec, ImplementsAllocator, A!Spec

=============================================================================
