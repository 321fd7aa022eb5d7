---------------------------- MODULE MmListProofs ----------------------------
(***************************************************************************)
(* What is proved of the allocator with the explicit list, for every size  *)
(* of the heap that has room for the prologue and all requests.            *)
(***************************************************************************)
EXTENDS MmList, HeapProofs, FiniteSetTheorems

-----------------------------------------------------------------------------
(* The list l leads through F from its head, and back: rank grows along    *)
(* the way.  Blocks outside F have no pointers.                            *)
Linked(l, F, rank) ==
  /\ l \in List /\ F \subseteq Unit /\ l.head \in F \cup {Null}
  /\ \A u \in Unit : u \notin F => l.next[u] = Null /\ l.prev[u] = Null
  /\ \A u \in F : l.next[u] \in F \cup {Null} /\ l.prev[u] \in F \cup {Null}
  /\ \A u, v \in F : l.next[u] = v <=> l.prev[v] = u
  /\ \A u \in F : l.prev[u] = Null <=> u = l.head
  /\ rank \in [Unit -> Nat]
  /\ \A u \in F : l.next[u] # Null => rank[u] < rank[l.next[u]]

LEMMA NullIsNoUnit == \A u \in Unit : u # Null
BY DEF Unit, Null

LEMMA SameList ==
  ASSUME NEW l, NEW m, l \in List, m \in List, l.head = m.head,
         \A u \in Unit : l.next[u] = m.next[u] /\ l.prev[u] = m.prev[u]
  PROVE  l = m
<1>1. l.next = m.next /\ l.prev = m.prev
  BY DEF List
<1> QED BY <1>1 DEF List

LEMMA EmptyLinked == Linked(EmptyList, {}, [u \in Unit |-> 0])
<1>1. EmptyList \in List
  BY DEF EmptyList, List, Link
<1> QED BY <1>1 DEF Linked, EmptyList

(* The operators on lists, pointer by pointer. *)
LEMMA SetNextAt ==
  ASSUME NEW l, NEW q, NEW v, l \in List, q \in Link, v \in Link
  PROVE  /\ SetNext(l, q, v) \in List
         /\ SetNext(l, q, v).head = l.head
         /\ \A u \in Unit : /\ SetNext(l, q, v).next[u] = IF u = q THEN v ELSE l.next[u]
                            /\ SetNext(l, q, v).prev[u] = l.prev[u]
BY NullIsNoUnit DEF SetNext, List, Link

LEMMA SetPrevAt ==
  ASSUME NEW l, NEW q, NEW v, l \in List, q \in Link, v \in Link
  PROVE  /\ SetPrev(l, q, v) \in List
         /\ SetPrev(l, q, v).head = l.head
         /\ \A u \in Unit : /\ SetPrev(l, q, v).prev[u] = IF u = q THEN v ELSE l.prev[u]
                            /\ SetPrev(l, q, v).next[u] = l.next[u]
BY NullIsNoUnit DEF SetPrev, List, Link

LEMMA ForgetAt ==
  ASSUME NEW l, NEW q, l \in List, q \in Unit
  PROVE  /\ Forget(l, q) \in List
         /\ Forget(l, q).head = l.head
         /\ \A u \in Unit : /\ Forget(l, q).prev[u] = IF u = q THEN Null ELSE l.prev[u]
                            /\ Forget(l, q).next[u] = IF u = q THEN Null ELSE l.next[u]
<1> DEFINE m == SetPrev(l, q, Null)
<1>0. q \in Link /\ Null \in Link
  BY DEF Link
<1>1. /\ m \in List /\ m.head = l.head
      /\ \A u \in Unit : /\ m.prev[u] = IF u = q THEN Null ELSE l.prev[u]
                         /\ m.next[u] = l.next[u]
  BY <1>0, SetPrevAt
<1> HIDE DEF m
<1>2. /\ SetNext(m, q, Null) \in List /\ SetNext(m, q, Null).head = m.head
      /\ \A u \in Unit : /\ SetNext(m, q, Null).next[u] = IF u = q THEN Null ELSE m.next[u]
                         /\ SetNext(m, q, Null).prev[u] = m.prev[u]
  BY <1>0, <1>1, SetNextAt
<1>3. Forget(l, q) = SetNext(m, q, Null)
  BY DEF Forget, m
<1> QED BY <1>1, <1>2, <1>3

LEMMA PushAt ==
  ASSUME NEW l, NEW q, l \in List, q \in Unit
  PROVE  /\ Push(l, q) \in List
         /\ Push(l, q).head = q
         /\ \A u \in Unit : /\ Push(l, q).prev[u] = IF u = q THEN Null ELSE IF u = l.head THEN q ELSE l.prev[u]
                            /\ Push(l, q).next[u] = IF u = q THEN l.head ELSE l.next[u]
<1> DEFINE m == SetNext(l, q, l.head)
           o == SetPrev(m, l.head, q)
<1>0. q \in Link /\ l.head \in Link /\ Null \in Link
  BY DEF Link, List
<1>1. /\ m \in List /\ m.head = l.head
      /\ \A u \in Unit : /\ m.next[u] = IF u = q THEN l.head ELSE l.next[u]
                         /\ m.prev[u] = l.prev[u]
  BY <1>0, SetNextAt
<1> HIDE DEF m
<1>2. /\ o \in List /\ o.head = l.head
      /\ \A u \in Unit : /\ o.prev[u] = IF u = l.head THEN q ELSE m.prev[u]
                         /\ o.next[u] = m.next[u]
  BY <1>0, <1>1, SetPrevAt
<1> HIDE DEF o
<1>3. Push(l, q) = [o EXCEPT !.head = q, !.prev[q] = Null]
  BY DEF Push, o, m
<1>4. /\ Push(l, q) \in List /\ Push(l, q).head = q
      /\ \A u \in Unit : /\ Push(l, q).prev[u] = IF u = q THEN Null ELSE o.prev[u]
                         /\ Push(l, q).next[u] = o.next[u]
  <2> DEFINE v == [o.prev EXCEPT ![q] = Null]
  <2>1. Push(l, q) = [head |-> q, next |-> o.next, prev |-> v]
    BY <1>2, <1>3 DEF List
  <2>2. o.next \in [Unit -> Link] /\ o.prev \in [Unit -> Link]
    BY <1>2 DEF List
  <2>3. v \in [Unit -> Link] /\ \A u \in Unit : v[u] = IF u = q THEN Null ELSE o.prev[u]
    BY <1>0, <2>2
  <2> HIDE DEF v
  <2> QED BY <1>0, <2>1, <2>2, <2>3 DEF List
<1> QED BY <1>1, <1>2, <1>4

-----------------------------------------------------------------------------
(* A new head. *)
LEMMA PushLinked ==
  ASSUME NEW l, NEW F, NEW rank, Linked(l, F, rank), NEW q, q \in Unit, q \notin F
  PROVE  \E r : Linked(Push(l, q), F \cup {q}, r)
<1> DEFINE m == Push(l, q)
           G == F \cup {q}
           r == [u \in Unit |-> IF u = q THEN 0 ELSE rank[u] + 1]
<1>1. /\ l \in List /\ F \subseteq Unit /\ l.head \in F \cup {Null}
      /\ \A u \in Unit : u \notin F => l.next[u] = Null /\ l.prev[u] = Null
      /\ \A u \in F : l.next[u] \in F \cup {Null} /\ l.prev[u] \in F \cup {Null}
      /\ \A u, v \in F : l.next[u] = v <=> l.prev[v] = u
      /\ \A u \in F : l.prev[u] = Null <=> u = l.head
      /\ rank \in [Unit -> Nat]
      /\ \A u \in F : l.next[u] # Null => rank[u] < rank[l.next[u]]
  BY DEF Linked
<1>2. /\ m \in List /\ m.head = q
      /\ \A u \in Unit : /\ m.prev[u] = IF u = q THEN Null ELSE IF u = l.head THEN q ELSE l.prev[u]
                         /\ m.next[u] = IF u = q THEN l.head ELSE l.next[u]
  BY <1>1, PushAt
<1> HIDE DEF m
<1>3. G \subseteq Unit /\ m.head \in G \cup {Null} /\ q \in G
  BY <1>1, <1>2
<1>4. \A u \in Unit : u \notin G => m.next[u] = Null /\ m.prev[u] = Null
  BY <1>1, <1>2, NullIsNoUnit
<1>5. \A u \in G : m.next[u] \in G \cup {Null} /\ m.prev[u] \in G \cup {Null}
  BY <1>1, <1>2
<1>6. ASSUME NEW u \in G, NEW v \in G PROVE m.next[u] = v <=> m.prev[v] = u
  <2>1. u \in Unit /\ v \in Unit /\ u # Null /\ v # Null
    BY <1>3, NullIsNoUnit
  <2>2. CASE u = q /\ v = q
    BY <1>1, <1>2, <2>1, <2>2
  <2>3. CASE u = q /\ v # q
    BY <1>1, <1>2, <2>1, <2>3
  <2>4. CASE u # q /\ v = q
    BY <1>1, <1>2, <2>1, <2>4
  <2>5. CASE u # q /\ v # q
    <3>1. u \in F /\ v \in F
      BY <2>5
    <3>2. CASE v = l.head
      BY <1>1, <1>2, <2>1, <2>5, <3>1, <3>2
    <3>3. CASE v # l.head
      BY <1>1, <1>2, <2>1, <2>5, <3>1, <3>3
    <3> QED BY <3>2, <3>3
  <2> QED BY <2>2, <2>3, <2>4, <2>5
<1>7. \A u \in G : m.prev[u] = Null <=> u = m.head
  BY <1>1, <1>2, NullIsNoUnit
<1>8. r \in [Unit -> Nat] /\ \A u \in Unit : r[u] = IF u = q THEN 0 ELSE rank[u] + 1
  BY <1>1
<1> HIDE DEF r
<1>9. ASSUME NEW u \in G, m.next[u] # Null PROVE r[u] < r[m.next[u]]
  <2>1. u \in Unit /\ \A v \in Unit : rank[v] \in Nat
    BY <1>1, <1>3
  <2>2. CASE u = q
    <3>1. m.next[u] \in F /\ m.next[u] \in Unit /\ m.next[u] # q
      BY <1>1, <1>2, <1>9, <2>1, <2>2
    <3> QED BY <1>8, <2>1, <2>2, <3>1
  <2>3. CASE u # q
    <3>1. u \in F /\ m.next[u] = l.next[u] /\ m.next[u] \in F /\ m.next[u] \in Unit /\ m.next[u] # q
      BY <1>1, <1>2, <1>9, <2>1, <2>3
    <3>2. rank[u] < rank[m.next[u]]
      BY <1>1, <1>9, <3>1
    <3> QED BY <1>8, <2>1, <2>3, <3>1, <3>2
  <2> QED BY <2>2, <2>3
<1>10. Linked(m, G, r)
  BY <1>2, <1>3, <1>4, <1>5, <1>6, <1>7, <1>8, <1>9 DEF Linked
<1> QED BY <1>10 DEF m

(* The list without q, whose neighbours are linked to one another. *)
Drop(l, q) ==
  [head |-> IF l.head = q THEN l.next[q] ELSE l.head,
   next |-> [u \in Unit |-> IF u = q THEN Null ELSE IF l.next[u] = q THEN l.next[q] ELSE l.next[u]],
   prev |-> [u \in Unit |-> IF u = q THEN Null ELSE IF l.prev[u] = q THEN l.prev[q] ELSE l.prev[u]]]

LEMMA DropAt ==
  ASSUME NEW l, NEW q, l \in List, q \in Unit
  PROVE  /\ Drop(l, q) \in List
         /\ Drop(l, q).head = IF l.head = q THEN l.next[q] ELSE l.head
         /\ \A u \in Unit :
              /\ Drop(l, q).next[u] = IF u = q THEN Null ELSE IF l.next[u] = q THEN l.next[q] ELSE l.next[u]
              /\ Drop(l, q).prev[u] = IF u = q THEN Null ELSE IF l.prev[u] = q THEN l.prev[q] ELSE l.prev[u]
<1>1. Null \in Link
  BY DEF Link
<1> QED BY <1>1 DEF Drop, List

LEMMA DropLinked ==
  ASSUME NEW l, NEW F, NEW rank, Linked(l, F, rank), NEW q, q \in F
  PROVE  Linked(Drop(l, q), F \ {q}, rank)
<1> DEFINE m == Drop(l, q)
           G == F \ {q}
<1>1. /\ l \in List /\ F \subseteq Unit /\ l.head \in F \cup {Null}
      /\ \A u \in Unit : u \notin F => l.next[u] = Null /\ l.prev[u] = Null
      /\ \A u \in F : l.next[u] \in F \cup {Null} /\ l.prev[u] \in F \cup {Null}
      /\ \A u, v \in F : l.next[u] = v <=> l.prev[v] = u
      /\ \A u \in F : l.prev[u] = Null <=> u = l.head
      /\ rank \in [Unit -> Nat]
      /\ \A u \in F : l.next[u] # Null => rank[u] < rank[l.next[u]]
  BY DEF Linked
<1>2. /\ m \in List /\ m.head = IF l.head = q THEN l.next[q] ELSE l.head
      /\ \A u \in Unit :
           /\ m.next[u] = IF u = q THEN Null ELSE IF l.next[u] = q THEN l.next[q] ELSE l.next[u]
           /\ m.prev[u] = IF u = q THEN Null ELSE IF l.prev[u] = q THEN l.prev[q] ELSE l.prev[u]
  BY <1>1, DropAt
<1> HIDE DEF m
<1>3. q \in Unit /\ q # Null /\ l.next[q] # q /\ l.prev[q] # q
  <2>1. q \in Unit /\ q # Null /\ rank[q] \in Nat
    BY <1>1, NullIsNoUnit
  <2>2. l.next[q] # q
    BY <1>1, <2>1
  <2> QED BY <1>1, <2>1, <2>2
<1>4. G \subseteq Unit /\ m.head \in G \cup {Null}
  BY <1>1, <1>2, <1>3
<1>5. \A u \in Unit : u \notin G => m.next[u] = Null /\ m.prev[u] = Null
  BY <1>1, <1>2, <1>3
<1>6. \A u \in G : m.next[u] \in G \cup {Null} /\ m.prev[u] \in G \cup {Null}
  BY <1>1, <1>2, <1>3
<1>7. ASSUME NEW u \in G, NEW v \in G PROVE m.next[u] = v <=> m.prev[v] = u
  <2>1. u \in Unit /\ v \in Unit /\ u # Null /\ v # Null /\ u \in F /\ v \in F /\ u # q /\ v # q
    BY <1>4, NullIsNoUnit
  <2>2. /\ m.next[u] = IF l.next[u] = q THEN l.next[q] ELSE l.next[u]
        /\ m.prev[v] = IF l.prev[v] = q THEN l.prev[q] ELSE l.prev[v]
    BY <1>2, <2>1
  <2>3. /\ l.next[u] = q <=> l.prev[q] = u
        /\ l.next[q] = v <=> l.prev[v] = q
        /\ l.next[u] = v <=> l.prev[v] = u
    BY <1>1, <2>1
  <2> QED BY <1>3, <2>1, <2>2, <2>3
<1>8. ASSUME NEW u \in G PROVE m.prev[u] = Null <=> u = m.head
  <2>1. u \in Unit /\ u \in F /\ u # q /\ u # Null
    BY <1>4, NullIsNoUnit
  <2>2. /\ l.prev[u] = Null <=> u = l.head
        /\ l.prev[q] = Null <=> q = l.head
        /\ l.next[q] = u <=> l.prev[u] = q
    BY <1>1, <2>1
  <2>3. m.prev[u] = IF l.prev[u] = q THEN l.prev[q] ELSE l.prev[u]
    BY <1>2, <2>1
  <2> QED BY <1>2, <1>3, <2>1, <2>2, <2>3
<1>9. ASSUME NEW u \in G, m.next[u] # Null PROVE rank[u] < rank[m.next[u]]
  <2>1. u \in Unit /\ u \in F /\ u # q /\ \A v \in Unit : rank[v] \in Nat
    BY <1>1, <1>4
  <2>2. m.next[u] = IF l.next[u] = q THEN l.next[q] ELSE l.next[u]
    BY <1>2, <2>1
  <2>3. CASE l.next[u] = q
    <3>1. rank[u] < rank[q] /\ rank[q] < rank[l.next[q]] /\ l.next[q] \in Unit
      BY <1>1, <1>3, <1>9, <2>1, <2>2, <2>3
    <3> QED BY <1>3, <2>1, <2>2, <2>3, <3>1
  <2>4. CASE l.next[u] # q
    BY <1>1, <1>9, <2>1, <2>2, <2>4
  <2> QED BY <2>3, <2>4
<1>10. Linked(m, G, rank)
  BY <1>1, <1>2, <1>4, <1>5, <1>6, <1>7, <1>8, <1>9 DEF Linked
<1> QED BY <1>10 DEF m

(* mm_malloc: the rest q of the block p takes its place in the list. *)
LEMMA SucceedLinked ==
  ASSUME NEW l, NEW F, NEW rank, Linked(l, F, rank), NEW p, p \in F, NEW q, q \in Unit, q \notin F
  PROVE  \E r : Linked(Succeed(l, p, q), (F \ {p}) \cup {q}, r)
<1> DEFINE n == Succeed(l, p, q)
           G == (F \ {p}) \cup {q}
           r == [rank EXCEPT ![q] = rank[p]]
           m == [l EXCEPT !.next[q] = l.next[p], !.prev[q] = l.prev[p],
                          !.head = IF @ = p THEN q ELSE @]
           o == SetNext(m, l.prev[p], q)
           s == SetPrev(o, l.next[p], q)
<1>1. /\ l \in List /\ F \subseteq Unit /\ l.head \in F \cup {Null}
      /\ \A u \in Unit : u \notin F => l.next[u] = Null /\ l.prev[u] = Null
      /\ \A u \in F : l.next[u] \in F \cup {Null} /\ l.prev[u] \in F \cup {Null}
      /\ \A u, v \in F : l.next[u] = v <=> l.prev[v] = u
      /\ \A u \in F : l.prev[u] = Null <=> u = l.head
      /\ rank \in [Unit -> Nat]
      /\ \A u \in F : l.next[u] # Null => rank[u] < rank[l.next[u]]
  BY DEF Linked
<1>2. /\ p \in Unit /\ p # q /\ p # Null /\ q # Null /\ q \in Link
      /\ l.next[p] \in Link /\ l.prev[p] \in Link /\ l.next[p] # q /\ l.prev[p] # q
      /\ l.next[p] # p /\ l.prev[p] # p
  <2>1. p \in Unit /\ p # q /\ p # Null /\ q # Null /\ q \in Link /\ rank[p] \in Nat
    BY <1>1, NullIsNoUnit DEF Link
  <2>2. l.next[p] \in Link /\ l.prev[p] \in Link /\ l.next[p] # q /\ l.prev[p] # q
    BY <1>1, <2>1 DEF Link
  <2>3. l.next[p] # p
    BY <1>1, <2>1
  <2> QED BY <1>1, <2>1, <2>2, <2>3
<1>3. /\ m \in List /\ m.head = IF l.head = p THEN q ELSE l.head
      /\ \A u \in Unit : /\ m.next[u] = IF u = q THEN l.next[p] ELSE l.next[u]
                         /\ m.prev[u] = IF u = q THEN l.prev[p] ELSE l.prev[u]
  <2> DEFINE nn == [l.next EXCEPT ![q] = l.next[p]]
             pp == [l.prev EXCEPT ![q] = l.prev[p]]
             hh == IF l.head = p THEN q ELSE l.head
  <2>1. l.next \in [Unit -> Link] /\ l.prev \in [Unit -> Link] /\ hh \in Link
    BY <1>1, <1>2 DEF List
  <2>2. m = [head |-> hh, next |-> nn, prev |-> pp]
    <3>1. l = [head |-> l.head, next |-> l.next, prev |-> l.prev]
      BY <1>1 DEF List
    <3> DEFINE m1 == [l EXCEPT !.next[q] = l.next[p]]
               m2 == [m1 EXCEPT !.prev[q] = l.prev[p]]
    <3>2. m1 = [head |-> l.head, next |-> nn, prev |-> l.prev]
      BY <3>1
    <3>3. m2 = [head |-> l.head, next |-> nn, prev |-> pp]
      <4> HIDE DEF m1, nn
      <4> QED BY <3>2
    <3>4. m = [m2 EXCEPT !.head = IF l.head = p THEN q ELSE l.head]
      BY <3>1
    <3> HIDE DEF m2, nn, pp, m
    <3> QED BY <3>3, <3>4
  <2>3. /\ nn \in [Unit -> Link] /\ \A u \in Unit : nn[u] = IF u = q THEN l.next[p] ELSE l.next[u]
        /\ pp \in [Unit -> Link] /\ \A u \in Unit : pp[u] = IF u = q THEN l.prev[p] ELSE l.prev[u]
    BY <1>2, <2>1
  <2>4. hh = IF l.head = p THEN q ELSE l.head
    OBVIOUS
  <2> HIDE DEF nn, pp, hh, m
  <2> QED BY <2>1, <2>2, <2>3, <2>4 DEF List
<1>4. n = Forget(s, p)
  BY DEF Succeed
<1> HIDE DEF m, n
<1>5. /\ o \in List /\ o.head = m.head
      /\ \A u \in Unit : /\ o.next[u] = IF u = l.prev[p] THEN q ELSE m.next[u]
                         /\ o.prev[u] = m.prev[u]
  BY <1>2, <1>3, SetNextAt
<1> HIDE DEF o
<1>6. /\ s \in List /\ s.head = o.head
      /\ \A u \in Unit : /\ s.prev[u] = IF u = l.next[p] THEN q ELSE o.prev[u]
                         /\ s.next[u] = o.next[u]
  BY <1>2, <1>5, SetPrevAt
<1> HIDE DEF s
<1>7. /\ n \in List /\ n.head = s.head
      /\ \A u \in Unit : /\ n.prev[u] = IF u = p THEN Null ELSE s.prev[u]
                         /\ n.next[u] = IF u = p THEN Null ELSE s.next[u]
  BY <1>2, <1>4, <1>6, ForgetAt
<1>8. /\ n.head = IF l.head = p THEN q ELSE l.head
      /\ \A u \in Unit :
           /\ n.next[u] = IF u = p THEN Null ELSE IF u = q THEN l.next[p]
                          ELSE IF u = l.prev[p] THEN q ELSE l.next[u]
           /\ n.prev[u] = IF u = p THEN Null ELSE IF u = q THEN l.prev[p]
                          ELSE IF u = l.next[p] THEN q ELSE l.prev[u]
  BY <1>2, <1>3, <1>5, <1>6, <1>7
<1>9. G \subseteq Unit /\ n.head \in G \cup {Null}
  BY <1>1, <1>2, <1>8
<1>10. ASSUME NEW u \in F
       PROVE  /\ u = l.prev[p] <=> l.next[u] = p
              /\ u = l.next[p] <=> l.prev[u] = p
  BY <1>1
<1>11. ASSUME NEW u \in Unit, u \notin G PROVE n.next[u] = Null /\ n.prev[u] = Null
  <2>1. CASE u = p
    BY <1>2, <1>8, <2>1
  <2>2. CASE u # p
    <3>1. u \notin F /\ u # q /\ u # Null
      BY <1>11, <2>2, NullIsNoUnit
    <3>2. u # l.prev[p] /\ u # l.next[p]
      BY <1>1, <3>1
    <3> QED BY <1>1, <1>8, <2>2, <3>1, <3>2
  <2> QED BY <2>1, <2>2
<1>12. ASSUME NEW u \in G PROVE n.next[u] \in G \cup {Null} /\ n.prev[u] \in G \cup {Null}
  <2>1. CASE u = q
    BY <1>1, <1>2, <1>8, <2>1
  <2>2. CASE u # q
    <3>1. u \in F /\ u # p /\ u \in Unit
      BY <1>1, <1>12, <2>2
    <3> QED BY <1>1, <1>8, <1>10, <2>2, <3>1
  <2> QED BY <2>1, <2>2
<1>13. ASSUME NEW u \in G, NEW v \in G PROVE n.next[u] = v <=> n.prev[v] = u
  <2>1. u \in Unit /\ v \in Unit /\ u # p /\ v # p
    BY <1>2, <1>9
  <2>2. CASE u = q /\ v = q
    BY <1>2, <1>8, <2>2
  <2>3. CASE u = q /\ v # q
    <3>1. v \in F
      BY <2>3
    <3>2. n.next[u] = l.next[p] /\ n.prev[v] = IF v = l.next[p] THEN q ELSE l.prev[v]
      BY <1>8, <2>1, <2>3
    <3>3. l.prev[v] # q
      BY <1>1, <3>1, NullIsNoUnit
    <3> QED BY <2>3, <3>2, <3>3
  <2>4. CASE u # q /\ v = q
    <3>1. u \in F
      BY <2>4
    <3>2. n.prev[v] = l.prev[p] /\ n.next[u] = IF u = l.prev[p] THEN q ELSE l.next[u]
      BY <1>8, <2>1, <2>4
    <3>3. l.next[u] # q
      BY <1>1, <3>1, NullIsNoUnit
    <3> QED BY <2>4, <3>2, <3>3
  <2>5. CASE u # q /\ v # q
    <3>1. u \in F /\ v \in F
      BY <2>5
    <3>2. /\ n.next[u] = IF u = l.prev[p] THEN q ELSE l.next[u]
          /\ n.prev[v] = IF v = l.next[p] THEN q ELSE l.prev[v]
      BY <1>8, <2>1, <2>5
    <3>3. l.next[u] = v <=> l.prev[v] = u
      BY <1>1, <3>1
    <3> QED BY <1>10, <2>1, <2>5, <3>1, <3>2, <3>3
  <2> QED BY <2>2, <2>3, <2>4, <2>5
<1>14. ASSUME NEW u \in G PROVE n.prev[u] = Null <=> u = n.head
  <2>1. u \in Unit /\ u # p
    BY <1>2, <1>9
  <2>2. CASE u = q
    <3>1. l.prev[p] = Null <=> p = l.head
      BY <1>1
    <3>2. l.head # q
      BY <1>1, <1>2
    <3> QED BY <1>2, <1>8, <2>2, <3>1, <3>2
  <2>3. CASE u # q
    <3>1. u \in F /\ (l.prev[u] = Null <=> u = l.head)
      BY <1>1, <2>3
    <3>2. u = l.next[p] => l.prev[u] = p
      BY <1>10, <3>1
    <3> QED BY <1>2, <1>8, <2>1, <2>3, <3>1, <3>2
  <2> QED BY <2>2, <2>3
<1>15. r \in [Unit -> Nat] /\ \A u \in Unit : r[u] = IF u = q THEN rank[p] ELSE rank[u]
  BY <1>1, <1>2
<1> HIDE DEF r
<1>16. ASSUME NEW u \in G, n.next[u] # Null PROVE r[u] < r[n.next[u]]
  <2>1. u \in Unit /\ u # p
    BY <1>2, <1>9
  <2>2. CASE u = q
    <3>1. n.next[u] = l.next[p] /\ l.next[p] \in Unit /\ rank[p] < rank[l.next[p]]
      BY <1>1, <1>8, <1>16, <2>1, <2>2
    <3> QED BY <1>2, <1>15, <2>2, <3>1
  <2>3. CASE u # q
    <3>1. u \in F
      BY <2>3
    <3>2. CASE u = l.prev[p]
      <4>1. n.next[u] = q /\ l.next[u] = p /\ rank[u] < rank[p]
        BY <1>1, <1>2, <1>8, <1>10, <2>1, <2>3, <3>1, <3>2
      <4> QED BY <1>2, <1>15, <2>1, <2>3, <4>1
    <3>3. CASE u # l.prev[p]
      <4>1. n.next[u] = l.next[u]
        BY <1>8, <2>1, <2>3, <3>3
      <4>2. l.next[u] \in F /\ rank[u] < rank[l.next[u]]
        BY <1>1, <1>16, <3>1, <4>1
      <4>3. l.next[u] \in Unit /\ l.next[u] # q
        BY <1>1, <4>2
      <4> QED BY <1>15, <2>1, <2>3, <4>1, <4>2, <4>3
    <3> QED BY <3>2, <3>3
  <2> QED BY <2>2, <2>3
<1>17. Linked(n, G, r)
  BY <1>7, <1>9, <1>11, <1>12, <1>13, <1>14, <1>15, <1>16 DEF Linked
<1> QED BY <1>17 DEF n

-----------------------------------------------------------------------------
(* mm_free takes blocks out of the list and leaves their own pointers as   *)
(* they are.  m is like the list d but for the blocks in X.                *)
Like(m, d, X) ==
  m \in List /\ \A u \in Unit : u \notin X => m.next[u] = d.next[u] /\ m.prev[u] = d.prev[u]

Keeps(n, m, X) == \A u \in X : u \in Unit => n.next[u] = m.next[u] /\ n.prev[u] = m.prev[u]
LEMMA BypassLike ==
  ASSUME NEW d, NEW F, NEW rank, Linked(d, F, rank), NEW m, NEW X, Like(m, d, X),
         \A u \in F : u \notin X, NEW q, q \in F
  PROVE  /\ Like(Bypass(m, q), Drop(d, q), X \cup {q})
         /\ Bypass(m, q).head = m.head
         /\ Keeps(Bypass(m, q), m, X \cup {q})
<1> DEFINE o == SetNext(m, m.prev[q], m.next[q])
           n == Bypass(m, q)
<1>1. /\ d \in List /\ F \subseteq Unit
      /\ \A u \in Unit : u \notin F => d.next[u] = Null /\ d.prev[u] = Null
      /\ \A u \in F : d.next[u] \in F \cup {Null} /\ d.prev[u] \in F \cup {Null}
      /\ \A u, v \in F : d.next[u] = v <=> d.prev[v] = u
      /\ rank \in [Unit -> Nat]
      /\ \A u \in F : d.next[u] # Null => rank[u] < rank[d.next[u]]
  BY DEF Linked
<1>2. /\ q \in Unit /\ q # Null /\ m \in List /\ m.next[q] = d.next[q] /\ m.prev[q] = d.prev[q]
      /\ m.next[q] \in Link /\ m.prev[q] \in Link /\ d.next[q] # q /\ d.prev[q] # q
  <2>1. q \in Unit /\ q # Null /\ rank[q] \in Nat
    BY <1>1, NullIsNoUnit
  <2>2. m \in List /\ m.next[q] = d.next[q] /\ m.prev[q] = d.prev[q]
    BY <2>1 DEF Like
  <2>3. d.next[q] # q
    BY <1>1, <2>1
  <2> QED BY <1>1, <2>1, <2>2, <2>3 DEF List
<1>3. /\ o \in List /\ o.head = m.head
      /\ \A u \in Unit : /\ o.next[u] = IF u = m.prev[q] THEN m.next[q] ELSE m.next[u]
                         /\ o.prev[u] = m.prev[u]
  BY <1>2, SetNextAt
<1>4. n = SetPrev(o, m.next[q], m.prev[q])
  BY DEF Bypass
<1> HIDE DEF o, n
<1>5. /\ n \in List /\ n.head = o.head
      /\ \A u \in Unit : /\ n.prev[u] = IF u = m.next[q] THEN m.prev[q] ELSE o.prev[u]
                         /\ n.next[u] = o.next[u]
  BY <1>2, <1>3, <1>4, SetPrevAt
<1>6. ASSUME NEW u \in Unit
      PROVE  /\ n.next[u] = IF u = d.prev[q] THEN d.next[q] ELSE m.next[u]
             /\ n.prev[u] = IF u = d.next[q] THEN d.prev[q] ELSE m.prev[u]
  BY <1>2, <1>3, <1>5
<1>7. ASSUME NEW u \in Unit, u \in X \cup {q} PROVE n.next[u] = m.next[u] /\ n.prev[u] = m.prev[u]
  <2>1. u # d.prev[q] /\ u # d.next[q]
    BY <1>1, <1>2, <1>7, NullIsNoUnit
  <2> QED BY <1>6, <2>1
<1>8. ASSUME NEW u \in Unit, u \notin X \cup {q}
      PROVE  n.next[u] = Drop(d, q).next[u] /\ n.prev[u] = Drop(d, q).prev[u]
  <2>1. m.next[u] = d.next[u] /\ m.prev[u] = d.prev[u] /\ u # q /\ u # Null
    BY <1>8, NullIsNoUnit DEF Like
  <2>2. /\ Drop(d, q).next[u] = IF d.next[u] = q THEN d.next[q] ELSE d.next[u]
        /\ Drop(d, q).prev[u] = IF d.prev[u] = q THEN d.prev[q] ELSE d.prev[u]
    BY <1>1, <1>2, <2>1, DropAt
  <2>3. (u = d.prev[q] <=> d.next[u] = q) /\ (u = d.next[q] <=> d.prev[u] = q)
    <3>1. CASE u \in F
      BY <1>1, <3>1
    <3>2. CASE u \notin F
      BY <1>1, <1>2, <2>1, <3>2
    <3> QED BY <3>1, <3>2
  <2> QED BY <1>6, <2>1, <2>2, <2>3
<1>9. Like(n, Drop(d, q), X \cup {q})
  BY <1>5, <1>8 DEF Like
<1>10. Keeps(n, m, X \cup {q})
  BY <1>7 DEF Keeps
<1> QED BY <1>3, <1>5, <1>9, <1>10 DEF n

Headed(n, d, X) == Like(n, d, X) /\ n.head = d.head

LEMMA PushLike ==
  ASSUME NEW d, NEW m, NEW X, NEW at, d \in List, Like(m, d, X), at \in Unit, m.head = d.head
  PROVE  Headed(Push(m, at), Push(d, at), X \ {at})
<1>1. m \in List /\ \A u \in Unit : u \notin X => m.next[u] = d.next[u] /\ m.prev[u] = d.prev[u]
  BY DEF Like
<1>2. /\ Push(m, at) \in List /\ Push(m, at).head = at
      /\ \A u \in Unit : /\ Push(m, at).prev[u] = IF u = at THEN Null ELSE IF u = m.head THEN at ELSE m.prev[u]
                         /\ Push(m, at).next[u] = IF u = at THEN m.head ELSE m.next[u]
  BY <1>1, PushAt
<1>3. /\ Push(d, at).head = at
      /\ \A u \in Unit : /\ Push(d, at).prev[u] = IF u = at THEN Null ELSE IF u = d.head THEN at ELSE d.prev[u]
                         /\ Push(d, at).next[u] = IF u = at THEN d.head ELSE d.next[u]
  BY PushAt
<1>4. ASSUME NEW u \in Unit, u \notin X \ {at}
      PROVE  Push(m, at).next[u] = Push(d, at).next[u] /\ Push(m, at).prev[u] = Push(d, at).prev[u]
  BY <1>1, <1>2, <1>3, <1>4
<1> QED BY <1>2, <1>3, <1>4 DEF Headed, Like

LEMMA TakeOverLike ==
  ASSUME NEW d, NEW m, NEW X, NEW g, NEW p, d \in List, Like(m, d, X), g.at \in Unit,
         m.head \in Unit, Kept(m, g, p) = d.head, m.head = g.at \/ m.next[m.head] = d.head
  PROVE  Headed(TakeOver(m, g, p), Push(d, g.at), X \ {g.at})
<1> DEFINE at == g.at
           k == SetNext(m, at, d.head)
           s == SetPrev(k, d.head, at)
           n == TakeOver(m, g, p)
<1>1. m \in List /\ \A u \in Unit : u \notin X => m.next[u] = d.next[u] /\ m.prev[u] = d.prev[u]
  BY DEF Like
<1>2. at \in Link /\ d.head \in Link /\ Null \in Link
  BY DEF Link, List
<1>3. /\ k \in List /\ k.head = m.head
      /\ \A u \in Unit : /\ k.next[u] = IF u = at THEN d.head ELSE m.next[u]
                         /\ k.prev[u] = m.prev[u]
  BY <1>1, <1>2, SetNextAt
<1>4. k.next[m.head] = d.head
  BY <1>3
<1>5. n = [s EXCEPT !.head = at, !.prev[at] = Null]
  <2>1. n = [SetPrev(k, k.next[m.head], at) EXCEPT !.head = at, !.prev[at] = Null]
    BY DEF TakeOver
  <2> HIDE DEF k, at, n
  <2> QED BY <1>4, <2>1
<1> HIDE DEF k, n
<1>6. /\ s \in List
      /\ \A u \in Unit : /\ s.prev[u] = IF u = d.head THEN at ELSE k.prev[u]
                         /\ s.next[u] = k.next[u]
  BY <1>2, <1>3, SetPrevAt
<1> HIDE DEF s, at
<1>7. at \in Unit
  BY DEF at
<1>8. /\ n \in List /\ n.head = at
      /\ \A u \in Unit : /\ n.prev[u] = IF u = at THEN Null ELSE s.prev[u]
                         /\ n.next[u] = s.next[u]
  <2> DEFINE v == [s.prev EXCEPT ![at] = Null]
  <2>1. n = [head |-> at, next |-> s.next, prev |-> v]
    BY <1>5, <1>6 DEF List
  <2>2. s.next \in [Unit -> Link] /\ s.prev \in [Unit -> Link]
    BY <1>6 DEF List
  <2>3. v \in [Unit -> Link] /\ \A u \in Unit : v[u] = IF u = at THEN Null ELSE s.prev[u]
    BY <1>2, <2>2
  <2> HIDE DEF v
  <2> QED BY <1>2, <2>1, <2>2, <2>3 DEF List
<1>9. /\ Push(d, at).head = at
      /\ \A u \in Unit : /\ Push(d, at).prev[u] = IF u = at THEN Null ELSE IF u = d.head THEN at ELSE d.prev[u]
                         /\ Push(d, at).next[u] = IF u = at THEN d.head ELSE d.next[u]
  BY <1>7, PushAt
<1>10. ASSUME NEW u \in Unit, u \notin X \ {at}
       PROVE  n.next[u] = Push(d, at).next[u] /\ n.prev[u] = Push(d, at).prev[u]
  BY <1>1, <1>3, <1>6, <1>8, <1>9, <1>10
<1>11. Like(n, Push(d, at), X \ {at})
  BY <1>8, <1>10 DEF Like
<1> QED BY <1>8, <1>9, <1>11 DEF n, at, Headed

(* What mm_free on the list relies on: the joined blocks are in the list,  *)
(* and the ranges of addresses by which it recognises a joined head hold   *)
(* no other free block.                                                    *)
Merged(g, p, F) ==
  /\ p \in Unit /\ p \notin F /\ g.at \in Unit
  /\ g.prev => g.at \in F /\ \A u \in F \cup {Null} : u \in g.at .. p <=> u = g.at
  /\ ~ g.prev => g.at = p
  /\ g.next => /\ g.behind \in F /\ g.behind # g.at
               /\ \A u \in F \cup {Null} : u \in p .. g.last <=> u = g.behind
  /\ ~ g.listed => F = {}

LEMMA FreeListLinked ==
  ASSUME NEW l, NEW F, NEW rank, Linked(l, F, rank), NEW h, NEW p, NEW g, g = Merge(h, p),
         Merged(g, p, F)
  PROVE  \E r : Linked(FreeList(h, l, p),
                       (F \ (IF g.next THEN {g.behind} ELSE {})) \cup {g.at}, r)
<1> DEFINE at == g.at
           y == g.behind
           gone == (IF g.prev THEN {at} ELSE {}) \cup (IF g.next THEN {y} ELSE {})
           n == FreeList(h, l, p)
           rest == Leave(l, g)
           end == IF HeadIsNext(l, g, p) \/ HeadIsPrev(l, g, p) THEN TakeOver(rest, g, p) ELSE Push(rest, at)
<1>1. /\ l \in List /\ F \subseteq Unit /\ l.head \in F \cup {Null}
      /\ \A u \in Unit : u \notin F => l.next[u] = Null /\ l.prev[u] = Null
      /\ \A u \in F : l.next[u] \in F \cup {Null} /\ l.prev[u] \in F \cup {Null}
  BY DEF Linked
<1>2. /\ p \in Unit /\ p \notin F /\ at \in Unit
      /\ g.prev => at \in F /\ \A u \in F \cup {Null} : u \in at .. p <=> u = at
      /\ ~ g.prev => at = p
      /\ g.next => /\ y \in F /\ y # at
                   /\ \A u \in F \cup {Null} : u \in p .. g.last <=> u = y
      /\ ~ g.listed => F = {}
  BY DEF Merged
<1>3. n = IF ~ g.listed THEN [Forget(l, p) EXCEPT !.head = p]
          ELSE IF g.next THEN Forget(end, y) ELSE end
  BY DEF FreeList
<1>4. HeadIsNext(l, g, p) <=> g.next /\ l.head = y
  BY <1>1, <1>2 DEF HeadIsNext
<1>5. HeadIsPrev(l, g, p) <=> g.prev /\ l.head = at
  BY <1>1, <1>2 DEF HeadIsPrev
<1>6. rest = IF g.next THEN Bypass(IF g.prev THEN Bypass(l, at) ELSE l, y)
             ELSE IF g.prev THEN Bypass(l, at) ELSE l
  BY DEF Leave
<1> DEFINE kept == IF HeadIsNext(rest, g, p)
                   THEN IF g.prev /\ rest.next[y] \in at .. p THEN rest.next[at] ELSE rest.next[y]
                   ELSE IF g.next /\ rest.next[at] \in p .. g.last THEN rest.next[rest.next[at]]
                   ELSE rest.next[at]
<1>7. Kept(rest, g, p) = kept
  BY DEF Kept
<1> HIDE DEF n, rest, kept, at, y
<1>8. Like(l, l, {}) /\ \A u \in F : u \notin {}
  BY <1>1 DEF Like
<1>9. CASE ~ g.listed
  <2>1. F = {} /\ l.head = Null /\ ~ g.prev /\ ~ g.next /\ at = p
    BY <1>1, <1>2, <1>9
  <2>2. n = [Forget(l, p) EXCEPT !.head = p]
    BY <1>3, <1>9
  <2>3. /\ Forget(l, p) \in List
        /\ \A u \in Unit : /\ Forget(l, p).prev[u] = IF u = p THEN Null ELSE l.prev[u]
                           /\ Forget(l, p).next[u] = IF u = p THEN Null ELSE l.next[u]
    BY <1>1, <1>2, ForgetAt
  <2>4. p \in Link
    BY <1>2 DEF Link
  <2>5. /\ n \in List /\ n.head = p
        /\ \A u \in Unit : n.prev[u] = Forget(l, p).prev[u] /\ n.next[u] = Forget(l, p).next[u]
    BY <2>2, <2>3, <2>4 DEF List
  <2>6. /\ Push(l, p) \in List /\ Push(l, p).head = p
        /\ \A u \in Unit : /\ Push(l, p).prev[u] = IF u = p THEN Null ELSE IF u = l.head THEN p ELSE l.prev[u]
                           /\ Push(l, p).next[u] = IF u = p THEN l.head ELSE l.next[u]
    BY <1>1, <1>2, PushAt
  <2>7. \A u \in Unit : n.next[u] = Push(l, p).next[u] /\ n.prev[u] = Push(l, p).prev[u]
    BY <2>1, <2>3, <2>5, <2>6, NullIsNoUnit
  <2>8. n = Push(l, p)
    BY <2>5, <2>6, <2>7, SameList
  <2>9. \E r : Linked(Push(l, p), F \cup {p}, r)
    BY <1>2, PushLinked
  <2> QED BY <2>1, <2>8, <2>9 DEF n, at
<1>10. CASE g.listed
  <2>1. \E d : /\ Linked(d, F \ gone, rank) /\ Like(rest, d, gone) /\ rest.head = l.head
               /\ l.head \notin gone => d.head = l.head
               /\ l.head \in gone => kept = d.head /\ (l.head = at \/ rest.next[l.head] = d.head)
    <3>1. CASE ~ g.prev /\ ~ g.next
      <4>1. rest = l /\ gone = {} /\ F \ gone = F
        BY <1>6, <3>1
      <4> QED BY <1>8, <4>1
    <3>2. CASE g.prev /\ ~ g.next
      <4> DEFINE d == Drop(l, at)
      <4>1. rest = Bypass(l, at) /\ gone = {at} /\ at \in F /\ {} \cup {at} = {at}
        BY <1>2, <1>6, <3>2
      <4>2. /\ Like(rest, d, {} \cup {at}) /\ rest.head = l.head
            /\ Keeps(rest, l, {} \cup {at})
        BY <1>8, <4>1, BypassLike
      <4>3. Linked(d, F \ {at}, rank)
        BY <4>1, DropLinked
      <4>4. d.head = IF l.head = at THEN l.next[at] ELSE l.head
        BY <1>1, <1>2, DropAt
      <4>5. kept = l.next[at]
        BY <1>2, <3>2, <4>1, <4>2 DEF kept, HeadIsNext, Keeps
      <4> HIDE DEF d
      <4> QED BY <4>1, <4>2, <4>3, <4>4, <4>5
    <3>3. CASE ~ g.prev /\ g.next
      <4> DEFINE d == Drop(l, y)
      <4>1. rest = Bypass(l, y) /\ gone = {y} /\ y \in F /\ y \in Unit /\ {} \cup {y} = {y}
        BY <1>1, <1>2, <1>6, <3>3
      <4>2. /\ Like(rest, d, {} \cup {y}) /\ rest.head = l.head
            /\ Keeps(rest, l, {} \cup {y})
        BY <1>8, <4>1, BypassLike
      <4>3. Linked(d, F \ {y}, rank)
        BY <4>1, DropLinked
      <4>4. d.head = IF l.head = y THEN l.next[y] ELSE l.head
        BY <1>1, <4>1, DropAt
      <4>5. rest.next[y] = l.next[y]
        BY <4>1, <4>2 DEF Keeps
      <4>6. l.head = y => kept = l.next[y]
        BY <1>2, <3>3, <4>1, <4>2, <4>5 DEF kept, HeadIsNext
      <4> HIDE DEF d
      <4> QED BY <4>1, <4>2, <4>3, <4>4, <4>5, <4>6
    <3>4. CASE g.prev /\ g.next
      <4> DEFINE o == Bypass(l, at)
                 e == Drop(l, at)
                 d == Drop(e, y)
      <4>1. /\ rest = Bypass(o, y) /\ gone = {at} \cup {y} /\ at \in F /\ y \in F /\ y # at
            /\ y \in Unit /\ at \in Unit /\ {} \cup {at} = {at}
        BY <1>1, <1>2, <1>6, <3>4
      <4>2. /\ Like(o, e, {} \cup {at}) /\ o.head = l.head
            /\ Keeps(o, l, {} \cup {at})
        BY <1>8, <4>1, BypassLike
      <4>3. Linked(e, F \ {at}, rank)
        BY <4>1, DropLinked
      <4>4. e \in List /\ e.head = IF l.head = at THEN l.next[at] ELSE l.head
        BY <1>1, <4>1, DropAt
      <4> HIDE DEF o, e
      <4>5. y \in F \ {at} /\ (\A u \in F \ {at} : u \notin {at}) /\ Like(o, e, {at})
        BY <4>1, <4>2
      <4>6. /\ Like(rest, d, {at} \cup {y}) /\ rest.head = o.head
            /\ Keeps(rest, o, {at} \cup {y})
        BY <4>1, <4>3, <4>5, BypassLike
      <4>7. Linked(d, (F \ {at}) \ {y}, rank)
        BY <4>3, <4>5, DropLinked
      <4>8. d.head = IF e.head = y THEN e.next[y] ELSE e.head
        BY <4>1, <4>4, DropAt
      <4>9. rest.next[at] = l.next[at] /\ rest.next[y] = e.next[y]
        <5>1. o.next[y] = e.next[y]
          BY <4>1, <4>5 DEF Like
        <5> QED BY <4>1, <4>2, <4>6, <5>1 DEF Keeps
      <4>10. e.next[y] \in F \cup {Null} /\ e.next[y] # at
        <5>1. e.next[y] \in (F \ {at}) \cup {Null}
          BY <4>3, <4>5 DEF Linked
        <5> QED BY <1>2, <5>1, NullIsNoUnit
      <4>11. l.head = y => kept = e.next[y]
        BY <1>2, <3>4, <4>1, <4>2, <4>6, <4>9, <4>10 DEF kept, HeadIsNext
      <4>12. l.head = at => kept = IF l.next[at] = y THEN e.next[y] ELSE l.next[at]
        <5>1. l.next[at] \in F \cup {Null}
          BY <1>1, <4>1
        <5> QED BY <1>2, <3>4, <4>1, <4>2, <4>6, <4>9, <5>1 DEF kept, HeadIsNext
      <4>13. F \ gone = (F \ {at}) \ {y}
        BY <4>1
      <4> HIDE DEF d, gone
      <4> QED BY <4>1, <4>2, <4>4, <4>6, <4>7, <4>8, <4>9, <4>11, <4>12, <4>13
    <3> QED BY <3>1, <3>2, <3>3, <3>4
  <2>2. PICK d : /\ Linked(d, F \ gone, rank) /\ Like(rest, d, gone) /\ rest.head = l.head
                 /\ l.head \notin gone => d.head = l.head
                 /\ l.head \in gone => kept = d.head /\ (l.head = at \/ rest.next[l.head] = d.head)
    BY <2>1
  <2>3. d \in List
    BY <2>2 DEF Linked
  <2>4. Headed(end, Push(d, at), gone \ {at})
    <3>1. CASE l.head \in gone
      <4>1. end = TakeOver(rest, g, p)
        BY <1>4, <1>5, <3>1
      <4>2. l.head \in Unit /\ g.at \in Unit /\ g.at = at
        BY <1>1, <1>2, <3>1 DEF at
      <4>3. Headed(TakeOver(rest, g, p), Push(d, g.at), gone \ {g.at})
        <5> HIDE DEF gone
        <5>1. /\ Like(rest, d, gone) /\ rest.head \in Unit /\ Kept(rest, g, p) = d.head
              /\ rest.head = g.at \/ rest.next[rest.head] = d.head
          BY <1>7, <2>2, <3>1, <4>2
        <5> QED BY <2>3, <4>2, <5>1, TakeOverLike
      <4> QED BY <4>1, <4>2, <4>3
    <3>2. CASE l.head \notin gone
      <4>1. end = Push(rest, at)
        BY <1>4, <1>5, <3>2
      <4>2. Headed(Push(rest, at), Push(d, at), gone \ {at})
        <5> HIDE DEF gone
        <5>1. Like(rest, d, gone) /\ rest.head = d.head
          BY <2>2, <3>2
        <5> QED BY <1>2, <2>3, <5>1, PushLike
      <4> QED BY <4>1, <4>2
    <3> QED BY <3>1, <3>2
  <2>5. at \notin F \ gone /\ (\A u \in gone : u \in Unit /\ u \notin F \ gone)
        /\ (F \ gone) \cup {at} = (F \ (IF g.next THEN {y} ELSE {})) \cup {at}
    BY <1>1, <1>2
  <2>6. PICK r : Linked(Push(d, at), (F \ gone) \cup {at}, r)
    BY <1>2, <2>2, <2>5, PushLinked
  <2>7. Push(d, at) \in List /\ Push(d, at).head = at
    BY <1>2, <2>3, PushAt
  <2> HIDE DEF end
  <2>8. end \in List /\ end.head = Push(d, at).head /\ \A u \in Unit : u \notin gone \ {at} =>
            end.next[u] = Push(d, at).next[u] /\ end.prev[u] = Push(d, at).prev[u]
    BY <2>4 DEF Like, Headed
  <2>9. n = Push(d, at)
    <3>1. CASE g.next
      <4>1. n = Forget(end, y) /\ y \in Unit /\ y # at /\ \A u \in gone \ {at} : u = y
        BY <1>1, <1>2, <1>3, <1>10, <3>1
      <4>2. /\ n \in List /\ n.head = end.head
            /\ \A u \in Unit : /\ n.prev[u] = IF u = y THEN Null ELSE end.prev[u]
                               /\ n.next[u] = IF u = y THEN Null ELSE end.next[u]
        BY <2>8, <4>1, ForgetAt
      <4>3. Push(d, at).next[y] = Null /\ Push(d, at).prev[y] = Null
        <5>1. y \notin (F \ gone) \cup {at}
          BY <3>1, <4>1
        <5> QED BY <2>6, <4>1, <5>1 DEF Linked
      <4>4. \A u \in Unit : n.next[u] = Push(d, at).next[u] /\ n.prev[u] = Push(d, at).prev[u]
        BY <2>8, <4>1, <4>2, <4>3
      <4> HIDE DEF gone
      <4> QED BY <2>7, <2>8, <4>2, <4>4, SameList
    <3>2. CASE ~ g.next
      <4>1. n = end /\ gone \ {at} = {}
        BY <1>3, <1>10, <3>2
      <4>2. n \in List /\ n.head = Push(d, at).head
            /\ \A u \in Unit : n.next[u] = Push(d, at).next[u] /\ n.prev[u] = Push(d, at).prev[u]
        BY <2>7, <2>8, <4>1
      <4> HIDE DEF gone
      <4> QED BY <2>7, <4>2, SameList
    <3> QED BY <3>1, <3>2
  <2>10. Linked(n, (F \ (IF g.next THEN {y} ELSE {})) \cup {at}, r)
    <3> HIDE DEF gone
    <3> QED BY <2>5, <2>6, <2>9
  <2> QED BY <2>10 DEF n, at, y
<1> QED BY <1>9, <1>10

-----------------------------------------------------------------------------
(* What the search of mm_malloc finds.  FirstFit follows the list by       *)
(* recursion; the ranks show that it ends.                                 *)
LEMMA Bounded ==
  ASSUME NEW N \in Nat, NEW f \in [1 .. N -> Nat]
  PROVE  \E b \in Nat : \A u \in 1 .. N : f[u] <= b
<1> DEFINE Bad == {n \in Nat : n <= N /\ ~ \E b \in Nat : \A u \in 1 .. n : f[u] <= b}
<1>1. Bad = {}
  <2> SUFFICES ASSUME Bad # {} PROVE FALSE
    OBVIOUS
  <2>1. PICK n \in Bad : \A k \in Bad : n <= k
    <3>1. Bad \in SUBSET Nat
      OBVIOUS
    <3> HIDE DEF Bad
    <3> QED BY <3>1, LeastElement
  <2>2. n # 0
    <3>1. \A u \in 1 .. 0 : f[u] <= 0
      OBVIOUS
    <3> QED BY <2>1, <3>1
  <2>3. n \in Nat /\ n <= N /\ n - 1 \in Nat /\ n - 1 <= N /\ n - 1 \notin Bad
    <3>1. n \in Nat /\ n <= N /\ n - 1 \in Nat /\ n - 1 <= N /\ ~ (n <= n - 1)
      BY <2>1, <2>2
    <3> HIDE DEF Bad
    <3> QED BY <2>1, <3>1
  <2>4. PICK b \in Nat : \A u \in 1 .. n - 1 : f[u] <= b
    BY <2>3
  <2>5. n \in 1 .. N /\ f[n] \in Nat
    <3>1. n \in 1 .. N
      <4> HIDE DEF Bad
      <4> QED BY <2>2, <2>3
    <3> HIDE DEF Bad
    <3> QED BY <3>1
  <2>6. b + f[n] \in Nat /\ \A u \in 1 .. n : f[u] <= b + f[n]
    <3> HIDE DEF Bad
    <3>1. ASSUME NEW u \in 1 .. n PROVE f[u] <= b + f[n]
      <4>1. CASE u = n
        BY <2>5, <4>1
      <4>2. CASE u # n
        <5>1. u \in 1 .. n - 1 /\ u \in 1 .. N
          BY <2>3, <3>1, <4>2
        <5>2. f[u] \in Nat /\ f[u] <= b
          BY <2>4, <5>1
        <5> QED BY <2>5, <5>2
      <4> QED BY <4>1, <4>2
    <3> QED BY <2>5, <3>1
  <2> QED BY <2>1, <2>6
<1>2. N \notin Bad
  BY <1>1
<1> QED BY <1>2

(* A search through S that stops in Stop with the value v, or goes on by   *)
(* g, which mu measures: it exists, and finds a value of a place that it   *)
(* may reach.                                                              *)
Step(f, Stop, v, g, q) == IF q \in Stop THEN v[q] ELSE f[g[q]]

Ends(S, Stop, g, mu) ==
  /\ g \in [S -> S] /\ mu \in [S -> Nat]
  /\ \A q \in S : q \notin Stop => mu[g[q]] < mu[q]
AtMost(S, mu, N) == N \in Nat /\ \A q \in S : mu[q] <= N
Searches(f, S, Stop, v, g) == f = [q \in S |-> Step(f, Stop, v, g, q)]
Reaches(P, R, Stop, v, g) == \A q \in P : IF q \in Stop THEN v[q] \in R ELSE g[q] \in P

LEMMA SearchExists ==
  ASSUME NEW S, NEW Stop, NEW v, NEW g, NEW mu, NEW N, Ends(S, Stop, g, mu), AtMost(S, mu, N)
  PROVE  \E f : Searches(f, S, Stop, v, g)
<1> DEFINE Dom(n) == {q \in S : mu[q] <= n}
           Solves(n) == \E f : f = [q \in Dom(n) |-> Step(f, Stop, v, g, q)]
           Bad == {n \in Nat : ~ Solves(n)}
<1>0. \A q \in S : mu[q] \in Nat /\ g[q] \in S /\ (q \notin Stop => mu[g[q]] < mu[q])
  BY DEF Ends
<1>1. Bad = {}
  <2> SUFFICES ASSUME Bad # {} PROVE FALSE
    OBVIOUS
  <2>1. PICK n \in Bad : \A k \in Bad : n <= k
    <3>1. Bad \in SUBSET Nat
      OBVIOUS
    <3> HIDE DEF Bad
    <3> QED BY <3>1, LeastElement
  <2>2. \E e : \A q \in Dom(n) : q \notin Stop =>
                 e[g[q]] = Step(e, Stop, v, g, g[q])
    <3>1. CASE n = 0
      <4>1. \A q \in Dom(n) : q \in Stop
        BY <1>0, <3>1
      <4> QED BY <4>1
    <3>2. CASE n # 0
      <4>1. n \in Nat /\ n - 1 \in Nat /\ n - 1 \notin Bad
        <5>1. n \in Nat /\ n - 1 \in Nat /\ ~ (n <= n - 1)
          BY <3>2
        <5> HIDE DEF Bad
        <5> QED BY <2>1, <5>1
      <4>2. PICK e : e = [q \in Dom(n - 1) |-> Step(e, Stop, v, g, q)]
        BY <4>1
      <4>3. ASSUME NEW q \in Dom(n), q \notin Stop
            PROVE  e[g[q]] = Step(e, Stop, v, g, g[q])
        <5>1. g[q] \in Dom(n - 1)
          BY <1>0, <4>1, <4>3
        <5> HIDE DEF Dom
        <5> QED BY <4>2, <5>1
      <4> QED BY <4>3
    <3> QED BY <3>1, <3>2
  <2>3. PICK e : \A q \in Dom(n) : q \notin Stop => e[g[q]] = Step(e, Stop, v, g, g[q])
    BY <2>2
  <2> DEFINE f == [q \in Dom(n) |-> Step(e, Stop, v, g, q)]
  <2>4. ASSUME NEW q \in Dom(n) PROVE Step(f, Stop, v, g, q) = Step(e, Stop, v, g, q)
    <3>1. CASE q \in Stop
      BY <3>1 DEF Step
    <3>2. CASE q \notin Stop
      <4>1. g[q] \in Dom(n)
        BY <1>0, <2>1, <3>2
      <4>2. f[g[q]] = Step(e, Stop, v, g, g[q])
        <5> HIDE DEF Dom
        <5> QED BY <4>1
      <4>3. f[g[q]] = e[g[q]]
        BY <2>3, <3>2, <4>2
      <4> HIDE DEF f
      <4> QED BY <3>2, <4>3 DEF Step
    <3> QED BY <3>1, <3>2
  <2>5. f = [q \in Dom(n) |-> Step(f, Stop, v, g, q)]
    BY <2>4
  <2>6. Solves(n)
    BY <2>5
  <2> QED BY <2>1, <2>6
<1>2. Solves(N)
  <2>1. N \in Nat
    BY DEF AtMost
  <2> HIDE DEF Solves
  <2> QED BY <1>1, <2>1
<1>3. Dom(N) = S
  BY DEF AtMost
<1> HIDE DEF Dom
<1> QED BY <1>2, <1>3 DEF Searches

LEMMA SearchFinds ==
  ASSUME NEW S, NEW Stop, NEW v, NEW g, NEW mu, Ends(S, Stop, g, mu),
         NEW f, Searches(f, S, Stop, v, g),
         NEW P, NEW R, P \subseteq S, Reaches(P, R, Stop, v, g), NEW p, p \in P
  PROVE  f[p] \in R
<1>0. \A q \in S : mu[q] \in Nat /\ g[q] \in S /\ (q \notin Stop => mu[g[q]] < mu[q])
  BY DEF Ends
<1>f. \A q \in S : f[q] = Step(f, Stop, v, g, q)
  BY DEF Searches
<1>r. \A q \in P : IF q \in Stop THEN v[q] \in R ELSE g[q] \in P
  BY DEF Reaches
<1> DEFINE Bad == {n \in Nat : \E q \in P : n = mu[q] /\ f[q] \notin R}
<1>1. Bad = {}
  <2> SUFFICES ASSUME Bad # {} PROVE FALSE
    OBVIOUS
  <2>1. PICK n \in Bad : \A k \in Bad : n <= k
    <3>1. Bad \in SUBSET Nat
      OBVIOUS
    <3> HIDE DEF Bad
    <3> QED BY <3>1, LeastElement
  <2>2. PICK q \in P : n = mu[q] /\ f[q] \notin R
    BY <2>1
  <2>3. q \in S /\ f[q] = Step(f, Stop, v, g, q)
    BY <1>f
  <2>4. q \notin Stop /\ g[q] \in P
    BY <1>r, <2>2, <2>3 DEF Step
  <2>5. mu[g[q]] < mu[q] /\ mu[g[q]] \in Nat /\ mu[q] \in Nat /\ f[g[q]] \notin R
    BY <1>0, <2>2, <2>3, <2>4 DEF Step
  <2>6. mu[g[q]] \in Bad
    BY <2>4, <2>5
  <2>7. ~ (n <= mu[g[q]])
    BY <2>2, <2>5
  <2> HIDE DEF Bad
  <2> QED BY <2>1, <2>6, <2>7
<1>2. p \in S /\ mu[p] \in Nat
  BY <1>0
<1> QED BY <1>1, <1>2

(* mm_malloc's search ends; it finds a free block with room for n units    *)
(* and a rest, or nothing.                                                 *)
LEMMA FirstFitFinds ==
  ASSUME MaxHeap \in Nat, NEW F, NEW rank, Linked(list, F, rank), NEW n
  PROVE  FirstFit(n) = Null \/ (FirstFit(n) \in F /\ heap.tag[FirstFit(n)].size >= n + 3)
<1>1. /\ list \in List /\ F \subseteq Unit /\ list.head \in F \cup {Null}
      /\ \A u \in Unit : u \notin F => list.next[u] = Null /\ list.prev[u] = Null
      /\ \A u \in F : list.next[u] \in F \cup {Null} /\ list.prev[u] \in F \cup {Null}
      /\ rank \in [Unit -> Nat]
      /\ \A u \in F : list.next[u] # Null => rank[u] < rank[list.next[u]]
  BY DEF Linked
<1>2. PICK b \in Nat : \A u \in Unit : rank[u] <= b
  BY <1>1, Bounded DEF Unit
<1> DEFINE Fits3(q) == heap.tag[q].size >= n + 3
           Stop == {q \in Link : q = Null \/ Fits3(q) \/ (list.next[q] = list.head /\ q # list.head)}
           v == [q \in Link |-> IF q = Null THEN Null ELSE IF Fits3(q) THEN q ELSE Null]
           g == [q \in Link |-> IF q = Null THEN Null ELSE list.next[q]]
           mu == [q \in Link |-> IF q = Null THEN 0 ELSE IF q \in F THEN (b + 2) - rank[q] ELSE 1]
           Body(f, q) == IF q = Null THEN Null
                         ELSE IF heap.tag[q].size >= n + 3 THEN q
                         ELSE IF list.next[q] = list.head /\ q # list.head THEN Null
                         ELSE f[list.next[q]]
<1>3. g \in [Link -> Link] /\ \A q \in Link : g[q] = IF q = Null THEN Null ELSE list.next[q]
  BY <1>1 DEF Link, List
<1>4. /\ mu \in [Link -> Nat] /\ \A q \in Link : mu[q] <= b + 2
      /\ \A q \in Link : mu[q] = IF q = Null THEN 0 ELSE IF q \in F THEN (b + 2) - rank[q] ELSE 1
  <2>1. ASSUME NEW q \in Link PROVE mu[q] \in Nat /\ mu[q] <= b + 2
    <3>1. q \in F => rank[q] \in Nat /\ rank[q] <= b
      BY <1>1, <1>2
    <3> QED BY <3>1
  <2> QED BY <2>1
<1> HIDE DEF g, mu, Fits3
<1>5. ASSUME NEW q \in Link, q \notin Stop PROVE mu[g[q]] < mu[q]
  <2>1. q # Null /\ q \in Unit /\ g[q] = list.next[q]
    BY <1>3, <1>5 DEF Link
  <2>2. CASE q \notin F
    <3>1. g[q] = Null /\ Null \in Link
      BY <1>1, <2>1, <2>2 DEF Link
    <3> QED BY <1>4, <2>1, <2>2, <3>1
  <2>3. CASE q \in F
    <3>1. rank[q] \in Nat /\ rank[q] <= b
      BY <1>1, <1>2, <2>1
    <3>2. CASE g[q] = Null
      <4>1. Null \in Link
        BY DEF Link
      <4> QED BY <1>4, <2>1, <2>3, <3>1, <3>2, <4>1
    <3>3. CASE g[q] # Null
      <4>1. g[q] \in F /\ g[q] \in Link /\ rank[q] < rank[g[q]] /\ rank[g[q]] \in Nat
        BY <1>1, <2>1, <2>3, <3>3 DEF Link
      <4> QED BY <1>4, <2>1, <2>3, <3>1, <3>3, <4>1
    <3> QED BY <3>2, <3>3
  <2> QED BY <2>2, <2>3
<1>6. v = [q \in Link |-> IF q = Null THEN Null ELSE IF Fits3(q) THEN q ELSE Null]
  OBVIOUS
<1>7. \A q \in Link : v[q] = IF q = Null THEN Null ELSE IF Fits3(q) THEN q ELSE Null
  OBVIOUS
<1>s. \A q \in Link : q \in Stop <=> q = Null \/ Fits3(q) \/ (list.next[q] = list.head /\ q # list.head)
  OBVIOUS
<1> HIDE DEF Stop, v
<1>8. \A f, q : q \in Link => Step(f, Stop, v, g, q) = Body(f, q)
  <2> SUFFICES ASSUME NEW f, NEW q, q \in Link PROVE Step(f, Stop, v, g, q) = Body(f, q)
    OBVIOUS
  <2>1. Fits3(q) <=> heap.tag[q].size >= n + 3
    BY DEF Fits3
  <2>2. CASE q \in Stop
    <3>1. Step(f, Stop, v, g, q) = v[q]
      BY <2>2 DEF Step
    <3> QED BY <1>7, <1>s, <2>1, <2>2, <3>1
  <2>3. CASE q \notin Stop
    <3>1. Step(f, Stop, v, g, q) = f[g[q]]
      BY <2>3 DEF Step
    <3> QED BY <1>3, <1>s, <2>1, <2>3, <3>1
  <2> QED BY <2>2, <2>3
<1>e. Ends(Link, Stop, g, mu)
  BY <1>3, <1>4, <1>5 DEF Ends
<1>9. \E f : Searches(f, Link, Stop, v, g)
  <2>1. AtMost(Link, mu, b + 2)
    BY <1>4 DEF AtMost
  <2> QED BY <1>e, <2>1, SearchExists
<1> DEFINE G == CHOOSE f : f = [q \in Link |-> Body(f, q)]
<1>10. G = [q \in Link |-> Body(G, q)]
  <2>1. \E f : f = [q \in Link |-> Body(f, q)]
    <3> HIDE DEF Body
    <3>1. PICK f : f = [q \in Link |-> Step(f, Stop, v, g, q)]
      BY <1>9 DEF Searches
    <3>2. [q \in Link |-> Step(f, Stop, v, g, q)] = [q \in Link |-> Body(f, q)]
      BY <1>8
    <3> QED BY <3>1, <3>2
  <2> HIDE DEF Body
  <2> QED BY <2>1
<1>11. FirstFit(n) = G[list.head]
  BY DEF FirstFit
<1> HIDE DEF G, Body
<1>12. Searches(G, Link, Stop, v, g)
  <2>1. [q \in Link |-> Step(G, Stop, v, g, q)] = [q \in Link |-> Body(G, q)]
    BY <1>8
  <2> QED BY <1>10, <2>1 DEF Searches
<1> DEFINE P == F \cup {Null}
           R == {Null} \cup {q \in F : Fits3(q)}
<1>13. P \subseteq Link /\ list.head \in P
  BY <1>1 DEF Link
<1>14. ASSUME NEW q \in P PROVE IF q \in Stop THEN v[q] \in R ELSE g[q] \in P
  BY <1>1, <1>3, <1>7, <1>13, <1>s
<1>15. G[list.head] \in R
  <2>1. Reaches(P, R, Stop, v, g)
    <3> HIDE DEF P, R
    <3> QED BY <1>14 DEF Reaches
  <2> HIDE DEF P, R
  <2> QED BY <1>e, <1>12, <1>13, <2>1, SearchFinds
<1>16. FirstFit(n) \in R
  BY <1>11, <1>15
<1> QED BY <1>16 DEF Fits3

-----------------------------------------------------------------------------
(* Nth walks from the head along the next pointers; at the end of the list *)
(* it stays there.                                                         *)
Walks(f, l, n) ==
  \A k \in 0 .. n :
    f[k] = IF k = 0 THEN l.head ELSE IF f[k - 1] = Null THEN Null ELSE l.next[f[k - 1]]

LEMMA WalkExists ==
  ASSUME NEW l, NEW N \in Nat
  PROVE  \E f : Walks(f, l, N)
<1> DEFINE Bad == {n \in Nat : ~ \E f : Walks(f, l, n)}
<1>1. Bad = {}
  <2> SUFFICES ASSUME Bad # {} PROVE FALSE
    OBVIOUS
  <2>1. PICK n \in Bad : \A k \in Bad : n <= k
    <3>1. Bad \in SUBSET Nat
      OBVIOUS
    <3> HIDE DEF Bad
    <3> QED BY <3>1, LeastElement
  <2>2. n \in Nat /\ ~ \E f : Walks(f, l, n)
    OBVIOUS
  <2>3. CASE n = 0
    <3> DEFINE f == [k \in 0 .. 0 |-> l.head]
    <3>1. Walks(f, l, 0)
      BY DEF Walks
    <3> QED BY <2>2, <2>3, <3>1
  <2>4. CASE n # 0
    <3>1. n - 1 \in Nat /\ ~ (n <= n - 1)
      BY <2>2, <2>4
    <3>2. n - 1 \notin Bad
      <4> HIDE DEF Bad
      <4> QED BY <2>1, <3>1
    <3>3. PICK e : Walks(e, l, n - 1)
      BY <3>1, <3>2
    <3> DEFINE last == IF e[n - 1] = Null THEN Null ELSE l.next[e[n - 1]]
               f == [k \in 0 .. n |-> IF k = n THEN last ELSE e[k]]
    <3>4. ASSUME NEW k \in 0 .. n
          PROVE  f[k] = IF k = 0 THEN l.head ELSE IF f[k - 1] = Null THEN Null ELSE l.next[f[k - 1]]
      <4>1. CASE k = n
        <5>1. f[k] = last /\ k # 0 /\ f[k - 1] = e[n - 1]
          BY <2>2, <2>4, <4>1
        <5> HIDE DEF f
        <5> QED BY <4>1, <5>1
      <4>2. CASE k # n
        <5>1. k \in 0 .. n - 1 /\ f[k] = e[k]
          BY <2>2, <4>2
        <5>2. e[k] = IF k = 0 THEN l.head ELSE IF e[k - 1] = Null THEN Null ELSE l.next[e[k - 1]]
          BY <3>3, <5>1 DEF Walks
        <5>3. k # 0 => f[k - 1] = e[k - 1]
          BY <2>2, <4>2
        <5> HIDE DEF f
        <5> QED BY <5>1, <5>2, <5>3
      <4> QED BY <4>1, <4>2
    <3>5. Walks(f, l, n)
      <4> HIDE DEF f
      <4> QED BY <3>4 DEF Walks
    <3> QED BY <2>2, <3>5
  <2> QED BY <2>3, <2>4
<1> QED BY <1>1

LEMMA NthWalks ==
  ASSUME MaxHeap \in Nat
  PROVE  Walks(Nth, list, MaxHeap)
<1> DEFINE Body(f, k) ==
      IF k = 0 THEN list.head ELSE IF f[k - 1] = Null THEN Null ELSE list.next[f[k - 1]]
    G == CHOOSE f : f = [k \in 0 .. MaxHeap |-> Body(f, k)]
<1>1. PICK e : Walks(e, list, MaxHeap)
  BY WalkExists
<1> DEFINE f == [k \in 0 .. MaxHeap |-> e[k]]
<1>2. ASSUME NEW k \in 0 .. MaxHeap PROVE f[k] = Body(f, k)
  <2>1. f[k] = e[k] /\ (k # 0 => f[k - 1] = e[k - 1])
    OBVIOUS
  <2>2. e[k] = IF k = 0 THEN list.head ELSE IF e[k - 1] = Null THEN Null ELSE list.next[e[k - 1]]
    BY <1>1 DEF Walks
  <2> HIDE DEF f
  <2> QED BY <2>1, <2>2
<1>3. f = [k \in 0 .. MaxHeap |-> Body(f, k)]
  <2> HIDE DEF Body
  <2>1. f = [k \in 0 .. MaxHeap |-> f[k]]
    OBVIOUS
  <2> HIDE DEF f
  <2>2. [k \in 0 .. MaxHeap |-> f[k]] = [k \in 0 .. MaxHeap |-> Body(f, k)]
    BY <1>2
  <2> QED BY <2>1, <2>2
<1>4. G = [k \in 0 .. MaxHeap |-> Body(G, k)]
  <2> HIDE DEF Body, f
  <2> QED BY <1>3
<1>5. Nth = G
  BY DEF Nth
<1> HIDE DEF G, Body
<1>6. \A k \in 0 .. MaxHeap : Nth[k] = Body(Nth, k)
  BY <1>4, <1>5
<1> QED BY <1>6 DEF Walks, Body

LEMMA NthAt ==
  ASSUME MaxHeap \in Nat, NEW k, k \in 1 .. MaxHeap
  PROVE  Nth[k] = IF Nth[k - 1] = Null THEN Null ELSE list.next[Nth[k - 1]]
<1>1. k \in 0 .. MaxHeap /\ k # 0
  OBVIOUS
<1> QED BY <1>1, NthWalks DEF Walks

LEMMA NthHead ==
  ASSUME MaxHeap \in Nat
  PROVE  Nth[0] = list.head
<1>1. 0 \in 0 .. MaxHeap
  OBVIOUS
<1> QED BY <1>1, NthWalks DEF Walks

(* The walk meets all of F, ends, and could go back.                       *)
LEMMA NthHolds ==
  ASSUME MaxHeap \in Nat, NEW F, NEW rank, Linked(list, F, rank)
  PROVE  /\ {Nth[k] : k \in 0 .. MaxHeap} = F \cup {Null}
         /\ \A k \in 0 .. MaxHeap : Nth[k] # Null =>
              list.prev[Nth[k]] = IF k = 0 THEN Null ELSE Nth[k - 1]
<1> DEFINE D == 0 .. MaxHeap
<1>0. /\ F \subseteq Unit /\ list.head \in F \cup {Null}
      /\ \A u \in F : list.next[u] \in F \cup {Null} /\ list.prev[u] \in F \cup {Null}
      /\ \A u, v \in F : list.next[u] = v <=> list.prev[v] = u
      /\ \A u \in F : list.prev[u] = Null <=> u = list.head
      /\ rank \in [Unit -> Nat]
      /\ \A u \in F : list.next[u] # Null => rank[u] < rank[list.next[u]]
  BY DEF Linked
<1>u. \A u \in F : u # Null /\ rank[u] \in Nat
  BY <1>0, NullIsNoUnit
<1>n. \A k \in D : k # 0 => k - 1 \in D /\ ~ (k <= k - 1)
                            /\ Nth[k] = IF Nth[k - 1] = Null THEN Null ELSE list.next[Nth[k - 1]]
  <2> SUFFICES ASSUME NEW k \in D, k # 0
               PROVE  k - 1 \in D /\ ~ (k <= k - 1)
                      /\ Nth[k] = IF Nth[k - 1] = Null THEN Null ELSE list.next[Nth[k - 1]]
    OBVIOUS
  <2>1. k \in 1 .. MaxHeap
    OBVIOUS
  <2> QED BY <2>1, NthAt
<1>h. Nth[0] = list.head /\ 0 \in D
  BY NthHead
<1>1. \A k \in D : Nth[k] \in F \cup {Null}
  <2> DEFINE Bad == {k \in D : Nth[k] \notin F \cup {Null}}
  <2> SUFFICES ASSUME Bad # {} PROVE FALSE
    OBVIOUS
  <2>1. PICK n \in Bad : \A k \in Bad : n <= k
    <3>1. Bad \in SUBSET Nat
      OBVIOUS
    <3> HIDE DEF Bad
    <3> QED BY <3>1, LeastElement
  <2>2. n \in D /\ n # 0
    BY <1>0, <1>h
  <2>3. n - 1 \in D /\ ~ (n <= n - 1) /\ n - 1 \notin Bad
    <3> HIDE DEF Bad, D
    <3> QED BY <1>n, <2>1, <2>2
  <2> QED BY <1>0, <1>n, <2>2, <2>3
<1>2. ASSUME NEW k \in D, Nth[k] # Null, k # 0
      PROVE  /\ Nth[k - 1] \in F /\ list.next[Nth[k - 1]] = Nth[k] /\ Nth[k] \in F
             /\ list.prev[Nth[k]] = Nth[k - 1] /\ rank[Nth[k - 1]] < rank[Nth[k]]
  <2>1. k - 1 \in D /\ Nth[k - 1] # Null /\ Nth[k] = list.next[Nth[k - 1]]
    <3> HIDE DEF D
    <3> QED BY <1>2, <1>n
  <2>2. Nth[k - 1] \in F /\ Nth[k] \in F
    BY <1>1, <1>2, <2>1
  <2> HIDE DEF D
  <2> QED BY <1>0, <1>2, <2>1, <2>2
<1>3. ASSUME NEW k \in D, Nth[k] # Null
      PROVE  list.prev[Nth[k]] = IF k = 0 THEN Null ELSE Nth[k - 1]
  <2>1. CASE k = 0
    BY <1>0, <1>3, <1>h, <2>1
  <2>2. CASE k # 0
    BY <1>2, <1>3, <2>2
  <2> QED BY <2>1, <2>2
<1>4. \A j \in D : Nth[j] # Null =>
        \A i \in D : i < j => Nth[i] \in F /\ rank[Nth[i]] < rank[Nth[j]]
  <2> DEFINE Grows(j) == Nth[j] # Null => \A i \in D : i < j => Nth[i] \in F /\ rank[Nth[i]] < rank[Nth[j]]
             Bad == {j \in D : ~ Grows(j)}
  <2> SUFFICES ASSUME Bad # {} PROVE FALSE
    OBVIOUS
  <2>1. PICK n \in Bad : \A k \in Bad : n <= k
    <3>1. Bad \in SUBSET Nat
      OBVIOUS
    <3> HIDE DEF Bad
    <3> QED BY <3>1, LeastElement
  <2>2. n \in D /\ Nth[n] # Null
    OBVIOUS
  <2>3. PICK i \in D : i < n /\ ~ (Nth[i] \in F /\ rank[Nth[i]] < rank[Nth[n]])
    BY <2>2
  <2>4. n # 0
    BY <2>3
  <2>5. n - 1 \in D /\ ~ (n <= n - 1) /\ n - 1 \notin Bad
    <3> HIDE DEF Bad, D
    <3> QED BY <1>n, <2>1, <2>2, <2>4
  <2>6. Grows(n - 1)
    BY <2>5
  <2>7. /\ Nth[n - 1] \in F /\ Nth[n] \in F /\ rank[Nth[n - 1]] < rank[Nth[n]]
    BY <1>2, <2>2, <2>4
  <2>8. i # n - 1
    BY <2>3, <2>7
  <2>9. i < n - 1
    BY <2>2, <2>3, <2>8
  <2>10. Nth[i] \in F /\ rank[Nth[i]] < rank[Nth[n - 1]]
    BY <1>u, <2>6, <2>7, <2>9
  <2>11. rank[Nth[i]] \in Nat /\ rank[Nth[n - 1]] \in Nat /\ rank[Nth[n]] \in Nat
    BY <1>u, <2>7, <2>10
  <2>12. rank[Nth[i]] < rank[Nth[n]]
    BY <2>7, <2>10, <2>11
  <2> QED BY <2>3, <2>10, <2>12
<1>5. Nth[MaxHeap] = Null
  <2> SUFFICES ASSUME Nth[MaxHeap] # Null PROVE FALSE
    OBVIOUS
  <2>1. MaxHeap \in D
    OBVIOUS
  <2>2. \A i \in D : i # MaxHeap => i < MaxHeap
    OBVIOUS
  <2>3. \A i \in D : Nth[i] \in F
    BY <1>1, <1>4, <2>1, <2>2
  <2> DEFINE f == [k \in D |-> Nth[k]]
  <2>4. f \in [D -> Unit] /\ \A k \in D : f[k] = Nth[k]
    <3> HIDE DEF D
    <3> QED BY <1>0, <2>3
  <2> HIDE DEF f
  <2>5. /\ IsFiniteSet(D) /\ IsFiniteSet(Unit)
        /\ Cardinality(D) = MaxHeap + 1 /\ Cardinality(Unit) = MaxHeap
    <3>1. IsFiniteSet(0 .. MaxHeap) /\ Cardinality(0 .. MaxHeap) = IF 0 > MaxHeap THEN 0 ELSE MaxHeap - 0 + 1
      BY FS_Interval
    <3>2. IsFiniteSet(1 .. MaxHeap) /\ Cardinality(1 .. MaxHeap) = IF 1 > MaxHeap THEN 0 ELSE MaxHeap - 1 + 1
      BY FS_Interval
    <3> QED BY <3>1, <3>2 DEF Unit
  <2>6. Cardinality(Unit) < Cardinality(D)
    BY <2>5
  <2>7. PICK x, y \in D : x # y /\ f[x] = f[y]
    <3> HIDE DEF D
    <3> QED BY <2>4, <2>5, <2>6, FS_PigeonHole
  <2>8. x < y \/ y < x
    BY <2>7
  <2>9. Nth[x] = Nth[y] /\ Nth[x] \in F
    BY <2>3, <2>4, <2>7
  <2>10. rank[Nth[x]] \in Nat /\ Nth[x] # Null
    BY <1>u, <2>9
  <2>11. CASE x < y
    <3>1. rank[Nth[x]] < rank[Nth[y]]
      <4> HIDE DEF D
      <4> QED BY <1>4, <2>9, <2>10, <2>11
    <3> QED BY <2>9, <2>10, <3>1
  <2>12. CASE y < x
    <3>1. rank[Nth[y]] < rank[Nth[x]]
      <4> HIDE DEF D
      <4> QED BY <1>4, <2>9, <2>10, <2>12
    <3> QED BY <2>9, <2>10, <3>1
  <2> QED BY <2>8, <2>11, <2>12
<1>6. ASSUME NEW u \in F PROVE \E k \in D : Nth[k] = u
  <2> DEFINE Missed(v) == v \in F /\ ~ \E k \in D : Nth[k] = v
             Bad == {n \in Nat : \E v \in F : Missed(v) /\ n = rank[v]}
  <2> SUFFICES ASSUME Missed(u) PROVE FALSE
    OBVIOUS
  <2>1. PICK n \in Bad : \A k \in Bad : n <= k
    <3>1. Bad \in SUBSET Nat /\ Bad # {}
      BY <1>u
    <3> HIDE DEF Bad
    <3> QED BY <3>1, LeastElement
  <2>2. PICK v \in F : Missed(v) /\ n = rank[v]
    BY <2>1
  <2>3. v # list.head
    BY <1>h, <2>2
  <2>4. list.prev[v] \in F /\ list.next[list.prev[v]] = v
    BY <1>0, <2>3
  <2>5. rank[list.prev[v]] < rank[v] /\ rank[list.prev[v]] \in Nat /\ rank[v] \in Nat
    BY <1>0, <1>u, <2>2, <2>4
  <2>6. ~ Missed(list.prev[v])
    <3>1. rank[list.prev[v]] \notin Bad
      <4> HIDE DEF Bad
      <4> QED BY <2>1, <2>2, <2>5
    <3> HIDE DEF Missed
    <3> QED BY <2>4, <2>5, <3>1
  <2>7. PICK k \in D : Nth[k] = list.prev[v]
    BY <2>4, <2>6
  <2>8. k # MaxHeap
    BY <1>5, <1>u, <2>4, <2>7
  <2>9. k + 1 \in D /\ k + 1 # 0 /\ (k + 1) - 1 = k
    BY <2>8
  <2>10. Nth[k + 1] = v
    <3>1. Nth[k + 1] = IF Nth[k] = Null THEN Null ELSE list.next[Nth[k]]
      <4> HIDE DEF D
      <4> QED BY <1>n, <2>9
    <3> QED BY <1>u, <2>4, <2>7, <3>1
  <2> QED BY <2>2, <2>9, <2>10
<1>7. \E k \in D : Nth[k] = Null
  BY <1>5
<1> QED BY <1>1, <1>3, <1>6, <1>7

-----------------------------------------------------------------------------
(* The heap between two calls: blocks at B tile it, those at Al are        *)
(* allocated, and no two free blocks are side by side.  The unit in front  *)
(* of the first block is the footer of the prologue, which TellPrev reads  *)
(* and writes when the first block is allocated.                           *)
Lonely(tag, B, Al) == \A p \in B \ Al : p + tag[p].size \notin B \ Al
Holds(h, B, Al) ==
  /\ Stands(h, B, Al)
  /\ h.start = h.end => h.start = 1 /\ h.brk = 3
  /\ h.start # h.end => h.start = 3 /\ h.end = h.brk
  /\ h.tag[2].size = 2
  /\ Lonely(h.tag, B, Al)

LEMMA SetTagsDomain ==
  ASSUME NEW tag, DOMAIN tag = Unit, NEW p, NEW n, NEW b
  PROVE  DOMAIN SetTags(tag, p, n, b) = Unit
BY DEF SetTags

LEMMA SetTagsHead ==
  ASSUME NEW tag, DOMAIN tag = Unit, NEW p, p \in Unit, NEW n, NEW b
  PROVE  SetTags(tag, p, n, b)[p] = [size |-> n, bits |-> b]
BY DEF SetTags

LEMMA SetTagsElsewhere ==
  ASSUME NEW tag, DOMAIN tag = Unit, NEW p, NEW n, NEW b,
         NEW u, u \in Unit, u # p, u # p + n - 1
  PROVE  SetTags(tag, p, n, b)[u] = tag[u]
BY DEF SetTags

(* The prologue is told of the first block; the blocks do not change.      *)
LEMMA PrologueTold ==
  ASSUME NEW tag, NEW end, NEW B, NEW Al, NEW T, NEW C,
         Span(tag, 3, end), Fits(tag, 3, end, B, Al, T), 2 \in Unit, tag[2].size = 2,
         NEW bit, bit \in {0, 1}, end \notin C, Alike(B, 3, C, T)
  PROVE  /\ TellPrev(tag, 3, bit) \in [Unit -> Tag]
         /\ \A u \in Unit : TellPrev(tag, 3, bit)[u].size = tag[u].size
         /\ Fits(TellPrev(tag, 3, bit), 3, end, B, Al, C)
<1> DEFINE t == TellPrev(tag, 3, bit)
<1>0. Laid(tag, 3, end, B)
  BY LaidOut
<1>1. t \in [Unit -> Tag] /\ \A u \in Unit : t[u] =
           IF u = 1 \/ u = 3 - 1 THEN [size |-> tag[u].size, bits |-> (tag[u].bits % 2) + 2 * bit]
           ELSE tag[u]
  <2>1. 3 - 1 \in Unit /\ 3 - tag[3 - 1].size = 1 /\ 1 < 3 - 1 /\ 1 \in Unit /\ 3 \in Nat /\ 1 \in Nat
    <3>1. 3 - 1 = 2 /\ MaxHeap \in Nat
      BY DEF Span
    <3> QED BY <3>1 DEF Unit
  <2>2. tag \in [Unit -> Tag]
    BY DEF Span
  <2> QED BY <2>1, <2>2, TellPrevAt
<1> HIDE DEF t
<1>2. ASSUME NEW q \in B
      PROVE  t[q] = tag[q] /\ t[q + tag[q].size - 1] = tag[q + tag[q].size - 1]
  <2>1. /\ q \in Nat /\ q \in Unit /\ 3 <= q /\ tag[q].size \in Nat /\ tag[q].size >= 3
        /\ q + tag[q].size - 1 \in Unit
    BY <1>0 DEF Laid
  <2> QED BY <1>1, <2>1
<1>3. Fits(t, 3, end, B, Al, T)
  <2>1. SameTags(t, tag, B)
    BY <1>2 DEF SameTags
  <2> QED BY <2>1, FitsAlike
<1>4. Span(t, 3, end)
  BY <1>1 DEF Span
<1>5. \A q \in B \ {3} : q \in C <=> q \in T
  BY DEF Alike
<1>6. Fits(t, 3, end, B, Al, C)
  BY <1>3, <1>4, <1>5, FitsRetold
<1>7. \A u \in Unit : t[u].size = tag[u].size
  BY <1>1
<1> QED BY <1>1, <1>6, <1>7 DEF t

(* malloc in the front of the free block at p: its sizes, and that no two  *)
(* free blocks are side by side.                                           *)
Prologue(tag, start) == start = 3 /\ tag[2].size = 2

LEMMA SplitTags ==
  ASSUME NEW tag, NEW start, NEW end, NEW B, NEW Al,
         Span(tag, start, end), Fits(tag, start, end, B, Al, Al),
         NEW p, NEW n, NEW m, NEW rest, NEW s, Splits(tag, B, Al, p, n, m, rest, s),
         Prologue(tag, start), Lonely(tag, B, Al)
  PROVE  /\ rest \in Unit /\ rest \notin B /\ s \in [Unit -> Tag]
         /\ Fits(s, start, end, B \cup {rest}, Al \cup {p}, Al)
         /\ s[2].size = 2 /\ SizedLike(s, tag, B, p, n)
         /\ Lonely(s, B \cup {rest}, Al \cup {p})
<1> DEFINE b == tag[p + tag[p].size - 1].bits
<1>s. /\ p \in B /\ p \notin Al /\ n \in Nat /\ n >= 3 /\ m \in Nat /\ m >= 3
      /\ tag[p].size = n + m /\ rest = p + n
      /\ s = SetTags(SetTags(tag, p, n, 1), p + n, m, b)
  BY DEF Splits
<1> HIDE DEF b
<1>p. start = 3 /\ tag[2].size = 2
  BY DEF Prologue
<1>0. Laid(tag, start, end, B)
  BY LaidOut
<1>1. /\ start \in Nat \ {0} /\ end \in Nat /\ end <= MaxHeap + 1 /\ MaxHeap \in Nat
      /\ tag \in [Unit -> Tag]
  BY DEF Span
<1>2. /\ p \in Nat /\ p \in Unit /\ 3 <= p /\ p < end /\ tag[p].size \in Nat
      /\ p + tag[p].size \in B \cup {end} /\ p + tag[p].size <= end
  BY <1>0, <1>p, <1>s DEF Laid
<1>3. rest + m = p + tag[p].size /\ rest \in Nat /\ 2 \in Unit /\ rest # end
  BY <1>1, <1>2, <1>s DEF Unit
<1>4. /\ rest \in Unit /\ rest \notin B
      /\ s \in [Unit -> Tag] /\ SizedLike(s, tag, B, p, n)
      /\ Fits(s, start, end, B \cup {rest}, Al \cup {p}, Al)
  BY SplitFits
<1>5. s[rest].size = m /\ s[2].size = 2
  <2> DEFINE o == SetTags(tag, p, n, 1)
  <2>1. DOMAIN tag = Unit
    BY <1>1
  <2>2. 2 # p /\ 2 # p + n - 1 /\ 2 # rest /\ 2 # rest + m - 1
    BY <1>2, <1>s
  <2>3. DOMAIN o = Unit
    BY <2>1, SetTagsDomain
  <2>4. o[2] = tag[2]
    BY <1>3, <2>1, <2>2, SetTagsElsewhere
  <2>5. s = SetTags(o, rest, m, b)
    BY <1>s
  <2> HIDE DEF o
  <2>6. s[rest] = [size |-> m, bits |-> b]
    <3>1. SetTags(o, rest, m, b)[rest] = [size |-> m, bits |-> b]
      BY <1>4, <2>3, SetTagsHead
    <3> QED BY <2>5, <3>1
  <2>7. s[2] = o[2]
    BY <1>3, <2>2, <2>3, <2>5, SetTagsElsewhere
  <2> QED BY <1>p, <2>4, <2>6, <2>7
<1>6. SizedLike(s, tag, B, p, n)
  BY <1>4
<1>7. ASSUME NEW q \in (B \cup {rest}) \ (Al \cup {p})
      PROVE  q + s[q].size \notin (B \cup {rest}) \ (Al \cup {p})
  <2>1. p + tag[p].size \notin B \ Al
    BY <1>s DEF Lonely
  <2>2. CASE q = rest
    <3>1. q + s[q].size = p + tag[p].size /\ p + tag[p].size # rest
      BY <1>2, <1>s, <1>3, <1>5, <2>2
    <3> QED BY <2>1, <3>1
  <2>3. CASE q # rest
    <3>1. q \in B /\ q \notin Al /\ q # p
      BY <2>3
    <3>2. s[q].size = tag[q].size
      BY <1>6, <3>1 DEF SizedLike
    <3>3. q + tag[q].size \in B \cup {end}
      BY <1>0, <3>1 DEF Laid
    <3>4. q + tag[q].size \notin B \ Al
      BY <3>1 DEF Lonely
    <3> QED BY <1>3, <1>4, <3>2, <3>3, <3>4
  <2> QED BY <2>2, <2>3
<1>8. Lonely(s, B \cup {rest}, Al \cup {p})
  BY <1>7 DEF Lonely
<1> QED BY <1>4, <1>5, <1>6, <1>8

(* The block before an allocated block p is told of it, and the words of   *)
(* its payload are used.                                                   *)
LEMMA TakenTags ==
  ASSUME NEW tag, NEW start, NEW end, NEW B, NEW C, NEW T,
         Span(tag, start, end), Fits(tag, start, end, B, C, T), start = 3, tag[2].size = 2,
         NEW p, p \in C, Alike(B, p, C, T), NEW told, told = TellPrev(tag, p, 1),
         NEW n, n = tag[p].size, NEW t, t = Use(told, p, n)
  PROVE  /\ t \in [Unit -> Tag] /\ Fits(t, start, end, B, C, C)
         /\ t[2].size = 2 /\ SizedLike(t, tag, B, p, n)
<1>0. Laid(tag, start, end, B)
  BY LaidOut
<1>1. /\ p \in B /\ end \notin C
  <2>1. C \subseteq B /\ B \subseteq start .. end - 1
    BY DEF Fits
  <2>2. end \in Nat
    BY DEF Span
  <2> QED BY <2>1, <2>2
<1>2. 3 <= p /\ p < end /\ p \in Nat /\ 2 \in Unit
  <2>1. 3 <= p /\ p < end /\ p \in Nat /\ p \in Unit
    BY <1>0, <1>1 DEF Laid
  <2>2. MaxHeap \in Nat
    BY DEF Span
  <2> QED BY <2>1, <2>2 DEF Unit
<1>3. 1 \in {0, 1} /\ (1 = 1 <=> p \in C)
  OBVIOUS
<1>4. /\ told \in [Unit -> Tag] /\ \A u \in Unit : told[u].size = tag[u].size
      /\ Fits(told, start, end, B, C, C)
  <2>1. CASE p # start
    <3>1. /\ TellPrev(tag, p, 1) \in [Unit -> Tag]
          /\ \A u \in Unit : TellPrev(tag, p, 1)[u].size = tag[u].size
          /\ Fits(TellPrev(tag, p, 1), start, end, B, C, C)
      BY <1>1, <1>3, <2>1, TellFits
    <3> QED BY <3>1
  <2>2. CASE p = start
    <3>1. p = 3 /\ Span(tag, 3, end) /\ Fits(tag, 3, end, B, C, T) /\ Alike(B, 3, C, T)
      BY <2>2
    <3>2. /\ TellPrev(tag, 3, 1) \in [Unit -> Tag]
          /\ \A u \in Unit : TellPrev(tag, 3, 1)[u].size = tag[u].size
          /\ Fits(TellPrev(tag, 3, 1), 3, end, B, C, C)
      BY <1>1, <1>2, <1>3, <3>1, PrologueTold
    <3> QED BY <2>2, <3>1, <3>2
  <2> QED BY <2>1, <2>2
<1>5. /\ t \in [Unit -> Tag] /\ \A q \in B : t[q] = told[q]
      /\ \A u \in Unit : u < p => t[u] = told[u]
      /\ Fits(t, start, end, B, C, C)
  <2>1. Span(told, start, end)
    BY <1>4 DEF Span
  <2>2. t = Use(told, p, told[p].size)
    <3>1. p \in Unit
      BY <1>0, <1>1 DEF Laid
    <3> QED BY <1>4, <3>1
  <2>3. /\ Use(told, p, told[p].size) \in [Unit -> Tag]
        /\ \A q \in B : Use(told, p, told[p].size)[q] = told[q]
        /\ \A u \in Unit : u < p => Use(told, p, told[p].size)[u] = told[u]
        /\ Fits(Use(told, p, told[p].size), start, end, B, C, C)
    BY <1>1, <1>4, <2>1, UseFits
  <2> QED BY <2>2, <2>3
<1>6. t[2].size = 2
  BY <1>2, <1>4, <1>5
<1>7. SizedLike(t, tag, B, p, n)
  <2>1. \A q \in B : q \in Unit
    BY <1>0 DEF Laid
  <2>2. \A q \in B : t[q].size = tag[q].size
    BY <1>4, <1>5, <2>1
  <2> QED BY <2>2 DEF SizedLike
<1> QED BY <1>5, <1>6, <1>7

LEMMA LonelyLike ==
  ASSUME NEW tag, NEW t, NEW B, NEW Al, Lonely(tag, B, Al), \A q \in B : t[q].size = tag[q].size
  PROVE  Lonely(t, B, Al)
BY DEF Lonely

(* What Holds says of the parts of a heap. *)
LEMMA HoldsMeans ==
  ASSUME MaxHeap \in Nat, NEW h, NEW B, NEW Al, Holds(h, B, Al)
  PROVE  /\ h \in HeapState /\ Span(h.tag, h.start, h.end) /\ Laid(h.tag, h.start, h.end, B)
         /\ Fits(h.tag, h.start, h.end, B, Al, Al) /\ h.tag[2].size = 2 /\ Lonely(h.tag, B, Al)
         /\ h.start <= h.end /\ h.tag \in [Unit -> Tag] /\ h.end \in Nat /\ h.start \in Nat
         /\ Stands(h, B, Al)
         /\ B # {} => h.start = 3 /\ h.end = h.brk /\ h.start # h.end
<1>1. /\ Stands(h, B, Al) /\ h.tag[2].size = 2 /\ Lonely(h.tag, B, Al)
      /\ h.start # h.end => h.start = 3 /\ h.end = h.brk
  BY DEF Holds
<1>2. /\ h \in HeapState /\ Span(h.tag, h.start, h.end) /\ Laid(h.tag, h.start, h.end, B)
      /\ Fits(h.tag, h.start, h.end, B, Al, Al) /\ h.start <= h.end /\ h.tag \in [Unit -> Tag]
      /\ h.end \in Nat /\ h.start \in Nat
  BY <1>1, StandsMeans
<1>3. ASSUME B # {} PROVE h.start # h.end
  <2>1. PICK q \in B : TRUE
    BY <1>3
  <2>2. h.start <= q /\ q < h.end /\ q \in Nat
    BY <1>2 DEF Laid
  <2> QED BY <1>2, <2>2
<1> QED BY <1>1, <1>2, <1>3

(* malloc in the front of a free block. *)
LEMMA SplitHolds ==
  ASSUME MaxHeap \in Nat, NEW h, NEW B, NEW Al, Holds(h, B, Al),
         NEW p, NEW n, NEW m, NEW rest, NEW s, Splits(h.tag, B, Al, p, n, m, rest, s),
         NEW g, g = [h EXCEPT !.tag = Use(TellPrev(s, p, 1), p, n)]
  PROVE  /\ rest \in Unit /\ rest \notin B
         /\ Holds(g, B \cup {rest}, Al \cup {p})
         /\ SizedLike(g.tag, h.tag, B, p, n)
<1>p. p \in B /\ p \notin Al /\ B # {}
  BY DEF Splits
<1>1. PICK tag, start, end : tag = h.tag /\ start = h.start /\ end = h.end
  OBVIOUS
<1>2. /\ h \in HeapState /\ Span(tag, start, end) /\ Laid(tag, start, end, B)
      /\ Fits(tag, start, end, B, Al, Al) /\ tag[2].size = 2 /\ Lonely(tag, B, Al)
      /\ h.end = h.brk /\ start = 3 /\ start # end /\ start <= end
  BY <1>1, <1>p, HoldsMeans
<1>3. Splits(tag, B, Al, p, n, m, rest, s)
  BY <1>1
<1>4. /\ rest \in Unit /\ rest \notin B /\ s \in [Unit -> Tag]
      /\ Fits(s, start, end, B \cup {rest}, Al \cup {p}, Al)
      /\ s[2].size = 2 /\ SizedLike(s, tag, B, p, n)
      /\ Lonely(s, B \cup {rest}, Al \cup {p})
  <2>1. Prologue(tag, start)
    BY <1>2 DEF Prologue
  <2>2. Span(tag, start, end) /\ Fits(tag, start, end, B, Al, Al) /\ Lonely(tag, B, Al)
    BY <1>2
  <2> QED BY <1>3, <2>1, <2>2, SplitTags
<1>5. PICK X, C, told, t : /\ X = B \cup {rest} /\ C = Al \cup {p}
                           /\ told = TellPrev(s, p, 1) /\ t = Use(told, p, n)
  OBVIOUS
<1>6. Span(s, start, end) /\ Fits(s, start, end, X, C, Al) /\ p \in C /\ Alike(X, p, C, Al)
      /\ n = s[p].size
  BY <1>2, <1>4, <1>5, <1>p DEF Span, Alike, SizedLike
<1>7. /\ t \in [Unit -> Tag] /\ Fits(t, start, end, X, C, C)
      /\ t[2].size = 2 /\ SizedLike(t, s, X, p, n)
  BY <1>2, <1>4, <1>5, <1>6, TakenTags
<1>8. \A q \in X : t[q].size = s[q].size
  BY <1>6, <1>7 DEF SizedLike
<1>9. Lonely(t, X, C)
  <2>1. Lonely(s, X, C)
    BY <1>4, <1>5
  <2> QED BY <1>8, <2>1, LonelyLike
<1>10. SizedLike(t, tag, B, p, n)
  BY <1>4, <1>5, <1>8 DEF SizedLike
<1>11. g = [h EXCEPT !.tag = t]
  BY <1>5
<1>12. g \in HeapState /\ g.tag = t /\ g.brk = h.brk /\ g.start = start /\ g.end = end
  BY <1>1, <1>2, <1>7, <1>11 DEF HeapState
<1>13. Holds(g, X, C)
  BY <1>1, <1>2, <1>7, <1>9, <1>12 DEF Holds, Stands
<1> QED BY <1>1, <1>4, <1>5, <1>10, <1>12, <1>13

(* malloc at the end of the heap, of the first block or of another. *)
Grown(h, n, p, e, f, g) ==
  /\ n \in Nat /\ n >= 3 /\ Room(h, n) /\ p = h.brk /\ e = Extend(h, n, 1)
  /\ f = IF h.start = h.end THEN [e EXCEPT !.start = p]
          ELSE [e EXCEPT !.tag = TellPrev(@, p, 1)]
  /\ g = [f EXCEPT !.tag = Use(@, p, n)]

LEMMA GrowHolds ==
  ASSUME MaxHeap \in Nat, NEW h, NEW B, NEW Al, Holds(h, B, Al),
         NEW n, NEW p, NEW e, NEW f, NEW g, Grown(h, n, p, e, f, g)
  PROVE  /\ p \in Unit /\ p \notin B
         /\ Holds(g, B \cup {p}, Al \cup {p})
         /\ g.tag[p].size = n /\ SizedLike(g.tag, h.tag, B, p, n)
<1> /\ n \in Nat /\ n >= 3 /\ Room(h, n) /\ p = h.brk /\ e = Extend(h, n, 1)
    /\ f = IF h.start = h.end THEN [e EXCEPT !.start = p]
            ELSE [e EXCEPT !.tag = TellPrev(@, p, 1)]
    /\ g = [f EXCEPT !.tag = Use(@, p, n)]
  BY DEF Grown
<1>1. PICK tag : tag = h.tag
  OBVIOUS
<1>2. PICK start : start = 3
  OBVIOUS
<1>3. /\ h \in HeapState /\ p \in 1 .. MaxHeap + 1 /\ p + n <= MaxHeap + 1 /\ p \in Nat
      /\ tag \in [Unit -> Tag] /\ tag[2].size = 2 /\ Lonely(tag, B, Al)
  <2>1. h \in HeapState /\ tag \in [Unit -> Tag] /\ tag[2].size = 2 /\ Lonely(tag, B, Al)
    BY <1>1, HoldsMeans
  <2> QED BY <2>1 DEF HeapState, Room
<1>4. Span(tag, start, p) /\ Fits(tag, start, p, B, Al, Al)
  <2>1. CASE h.start = h.end
    <3>1. p = 3 /\ h.start = 1 /\ h.end = 1
      BY <2>1 DEF Holds
    <3>2. B = {} /\ Al = {}
      <4>1. B \subseteq 1 .. 1 - 1 /\ Al \subseteq B
        BY <3>1 DEF Holds, Stands, Fits
      <4> QED BY <4>1
    <3>3. Fits(tag, 3, 3, B, Al, Al)
      BY <3>2 DEF Fits
    <3> QED BY <1>2, <1>3, <3>1, <3>3 DEF Span
  <2>2. CASE h.start # h.end
    <3>1. h.start = 3 /\ h.end = p
      BY <2>2 DEF Holds
    <3> QED BY <1>1, <1>2, <3>1, HoldsMeans
  <2> QED BY <2>1, <2>2
<1>5. PICK s, end : s = SetTags(tag, p, n, 1) /\ end = p + n
  OBVIOUS
<1>6. PICK X, C : X = B \cup {p} /\ C = Al \cup {p}
  OBVIOUS
<1>7. /\ Span(s, start, end) /\ Fits(s, start, end, X, C, Al)
      /\ s[p].size = n /\ \A q \in B : s[q].size = tag[q].size
  <2>1. PICK bit \in {0, 1} : bit = 1
    OBVIOUS
  <2>2. s = SetTags(tag, p, n, bit) /\ C = IF bit = 1 THEN Al \cup {p} ELSE Al
    BY <1>5, <1>6, <2>1
  <2>3. Appends(tag, p, B, Al, n, bit, end, s, X, C)
    BY <1>3, <1>5, <1>6, <2>2 DEF Appends
  <2> QED BY ONLY <1>4, <2>3, AppendFits
<1>d. DOMAIN tag = Unit
  BY <1>3
<1>8. Laid(tag, start, p, B) /\ p \notin B /\ p >= 3
  <2>1. Laid(tag, start, p, B)
    BY <1>4, LaidOut
  <2>2. p >= 3
    BY <1>2, <1>3, <1>4 DEF Span
  <2>3. p \notin B
    BY <1>3, <2>1 DEF Laid
  <2> QED BY <2>1, <2>2, <2>3
<1>9. s[2].size = 2 /\ s[p].size = n /\ p \in Unit
  <2>1. 2 \in Unit /\ p \in Unit /\ 2 # p /\ 2 # p + n - 1
    BY <1>3, <1>8 DEF Unit
  <2>2. s[2] = tag[2]
    BY <1>5, <1>d, <2>1, SetTagsElsewhere
  <2> QED BY <1>3, <1>7, <2>1, <2>2
<1>11. PICK told, t : told = TellPrev(s, p, 1) /\ t = Use(told, p, n)
  OBVIOUS
<1>12. p \in C /\ Alike(X, p, C, Al)
  BY <1>6 DEF Alike
<1>13. PICK w : /\ w = (IF h.start = h.end THEN Use(s, p, n) ELSE t)
  OBVIOUS
<1>14. /\ w \in [Unit -> Tag] /\ Fits(w, start, end, X, C, C)
       /\ w[2].size = 2 /\ SizedLike(w, s, X, p, n)
  <2>1. CASE h.start # h.end
    <3>1. /\ t \in [Unit -> Tag] /\ Fits(t, start, end, X, C, C)
          /\ t[2].size = 2 /\ SizedLike(t, s, X, p, n)
      BY <1>2, <1>7, <1>9, <1>11, <1>12, TakenTags
    <3> QED BY <1>13, <2>1, <3>1
  <2>2. CASE h.start = h.end
    <3>1. p = start
      BY <1>2, <2>2 DEF Holds
    <3>2. w = Use(s, p, s[p].size) /\ p \in X
      BY <1>6, <1>9, <1>13, <2>2
    <3>3. Fits(s, start, end, X, C, C)
      <4>1. \A q \in X \ {start} : q \in C <=> q \in Al
        BY <1>12, <3>1 DEF Alike
      <4>2. end \notin C
        <5>1. end \in Nat /\ C \subseteq X /\ X \subseteq start .. end - 1
          BY <1>3, <1>5, <1>7 DEF Fits
        <5> QED BY <5>1
      <4> QED BY <1>7, <4>1, <4>2, FitsRetold
    <3>4. /\ Use(s, p, s[p].size) \in [Unit -> Tag]
          /\ \A q \in X : Use(s, p, s[p].size)[q] = s[q]
          /\ \A u \in Unit : u < p => Use(s, p, s[p].size)[u] = s[u]
          /\ Fits(Use(s, p, s[p].size), start, end, X, C, C)
      BY <1>7, <3>2, <3>3, UseFits
    <3>5. 2 \in Unit /\ 2 < p
      BY <1>3, <1>8 DEF Unit
    <3> QED BY <1>9, <3>2, <3>4, <3>5 DEF SizedLike
  <2> QED BY <2>1, <2>2
<1>15. /\ w[p].size = n /\ \A q \in B : w[q].size = tag[q].size
  BY <1>6, <1>7, <1>8, <1>9, <1>14 DEF SizedLike
<1>16. Lonely(w, X, C)
  <2>1. X \ C = B \ Al
    BY <1>4, <1>6, <1>8 DEF Fits
  <2> QED BY <1>3, <1>15, <2>1 DEF Lonely
<1>17. /\ g \in HeapState /\ g.tag = w /\ g.brk = end /\ g.end = end /\ g.start = start
  <2>1. end \in 1 .. MaxHeap + 1 /\ start \in 1 .. MaxHeap + 1 /\ s \in [Unit -> Tag]
    BY <1>2, <1>3, <1>5, <1>7, <1>8 DEF Span
  <2>2. /\ e.tag = s /\ e.brk = end /\ e.end = end /\ e.start = h.start
        /\ e = [tag |-> s, brk |-> end, start |-> h.start, end |-> end]
    BY <1>1, <1>3, <1>5 DEF Extend, HeapState
  <2>3. CASE h.start = h.end
    <3>1. f = [tag |-> s, brk |-> end, start |-> p, end |-> end] /\ p = start
      BY <1>2, <2>2, <2>3 DEF Holds
    <3>0. w = Use(s, p, n)
      BY <1>13, <2>3
    <3>2. g = [tag |-> w, brk |-> end, start |-> start, end |-> end]
      <4>1. g = [f EXCEPT !.tag = Use(f.tag, p, n)] /\ f.tag = s
        BY <3>1
      <4>2. g = [f EXCEPT !.tag = w]
        BY <3>0, <4>1
      <4> QED BY <3>1, <4>2
    <3> QED BY <1>14, <2>1, <3>2 DEF HeapState
  <2>4. CASE h.start # h.end
    <3>1. f = [tag |-> told, brk |-> end, start |-> start, end |-> end]
      BY <1>2, <1>11, <2>2, <2>4 DEF Holds
    <3>0. w = Use(told, p, n)
      BY <1>11, <1>13, <2>4
    <3>2. g = [tag |-> w, brk |-> end, start |-> start, end |-> end]
      <4>1. g = [f EXCEPT !.tag = Use(f.tag, p, n)] /\ f.tag = told
        BY <3>1
      <4>2. g = [f EXCEPT !.tag = w]
        BY <3>0, <4>1
      <4> QED BY <3>1, <4>2
    <3> QED BY <1>14, <2>1, <3>2 DEF HeapState
  <2> QED BY <2>3, <2>4
<1>18. start <= end /\ start # end
  BY <1>2, <1>3, <1>5, <1>8
<1>19. Holds(g, X, C)
  BY <1>2, <1>14, <1>16, <1>17, <1>18 DEF Holds, Stands
<1>20. SizedLike(w, tag, B, p, n)
  BY <1>8, <1>15 DEF SizedLike
<1> QED BY <1>1, <1>6, <1>8, <1>9, <1>15, <1>17, <1>19, <1>20

(* free of an allocated block: the tags. *)
LEMMA FreeTagsBelow ==
  ASSUME MaxHeap \in Nat, NEW h, NEW B, NEW Al, Holds(h, B, Al), NEW p, p \in Al,
         NEW y, y = p + h.tag[p].size, NEW a, a = Around(h, p), NEW j, j = Joined(h, p),
         Reads(h, B, Al, p, y, a, j), NEW n, n = j.size, n \in Nat, n >= 3
  PROVE  FreeTags(h, p)[2] = h.tag[2]
<1>1. /\ Span(h.tag, h.start, h.end) /\ Laid(h.tag, h.start, h.end, B)
      /\ Fits(h.tag, h.start, h.end, B, Al, Al)
      /\ h.tag \in [Unit -> Tag] /\ h.end \in Nat /\ h.start \in Nat
      /\ B # {} => h.start = 3
  BY HoldsMeans
<1>2. p \in B
  BY <1>1 DEF Fits
<1>3. h.start = 3 /\ 3 <= p /\ p \in Nat /\ p \in Unit
  BY <1>1, <1>2 DEF Laid
<1>4. j.at \in B
  BY <1>2 DEF Reads
<1>5. 3 <= j.at /\ j.at \in Nat
  BY <1>1, <1>3, <1>4 DEF Laid
<1>6. 2 \in Unit
  BY <1>1, <1>3 DEF Unit
<1> DEFINE told == IF Listed(a) /\ a.prev = 3 THEN TellPrev(h.tag, p, 0) ELSE h.tag
<1>7. DOMAIN told = Unit /\ told[2] = h.tag[2]
  <2>1. CASE Listed(a) /\ a.prev = 3
    <3>1. p # h.start
      BY <2>1 DEF Reads
    <3>2. PICK q \in B : q + h.tag[q].size = p
      BY <1>1, <1>2, <3>1, BlockBefore
    <3>3. q \in Nat /\ q \in Unit /\ 3 <= q /\ h.tag[q].size \in Nat /\ h.tag[q].size >= 3
      BY <1>1, <1>3 DEF Laid
    <3>4. h.tag[q + h.tag[q].size - 1] = h.tag[q] /\ q + h.tag[q].size - 1 = p - 1
      <4>1. h.tag[q + h.tag[q].size - 1] = h.tag[q]
        BY <1>1 DEF Fits
      <4> QED BY <3>2, <3>3, <4>1
    <3>5. /\ p - 1 \in Unit /\ p - h.tag[p - 1].size = q /\ q < p - 1
      <4>1. p - h.tag[q].size = q /\ q < p - 1 /\ p - 1 \in Nat
        BY <1>3, <3>2, <3>3
      <4>2. p - 1 \in Unit
        BY <1>3, <1>1, <4>1 DEF Unit
      <4> QED BY <3>4, <4>1, <4>2
    <3>6. /\ TellPrev(h.tag, p, 0) \in [Unit -> Tag]
          /\ \A u \in Unit : TellPrev(h.tag, p, 0)[u] =
               IF u = q \/ u = p - 1
               THEN [size |-> h.tag[u].size, bits |-> (h.tag[u].bits % 2) + 2 * 0] ELSE h.tag[u]
      <4>1. 0 \in {0, 1}
        OBVIOUS
      <4> QED BY <1>1, <1>3, <3>3, <3>5, <4>1, TellPrevAt
    <3>7. 2 # q /\ 2 # p - 1
      BY <3>2, <3>3
    <3> QED BY <1>6, <2>1, <3>6, <3>7
  <2>2. CASE ~ (Listed(a) /\ a.prev = 3)
    BY <1>1, <2>2
  <2> QED BY <2>1, <2>2
<1>8. FreeTags(h, p) = SetTags(told, j.at, n, j.bits)
  BY DEF FreeTags
<1>9. 2 # j.at /\ 2 # j.at + n - 1
  BY <1>5
<1> HIDE DEF told
<1>10. SetTags(told, j.at, n, j.bits)[2] = told[2]
  BY <1>6, <1>7, <1>9, SetTagsElsewhere
<1> QED BY <1>7, <1>8, <1>10

LEMMA FreeHolds ==
  ASSUME MaxHeap \in Nat, NEW h, NEW B, NEW Al, Holds(h, B, Al), NEW p, NEW y, NEW a, NEW j,
         NEW J, NEW C, NEW k, NEW t, NEW g, Releases(h, B, Al, p, y, a, j, J, C, k, t, g)
  PROVE  /\ Reads(h, B, Al, p, y, a, j) /\ Freed(h, B, Al, p, y, a, j, J, C, t)
         /\ Holds(g, J, C) /\ g.tag = t /\ g.start = h.start /\ g.end = h.end
<1>1. /\ Stands(h, B, Al) /\ Laid(h.tag, h.start, h.end, B)
      /\ h.tag[2].size = 2 /\ Lonely(h.tag, B, Al)
      /\ h.tag \in [Unit -> Tag] /\ h.end \in Nat
      /\ B # {} => h.start = 3 /\ h.end = h.brk /\ h.start # h.end
  BY HoldsMeans
<1>3. PICK f : f = FreeTags(h, p)
  OBVIOUS
<1>2. /\ Reads(h, B, Al, p, y, a, j) /\ Freed(h, B, Al, p, y, a, j, J, C, t)
      /\ Stands(g, J, C) /\ g.tag = t /\ g.start = h.start /\ g.end = h.end /\ g.brk = h.brk
      /\ j.at \in B /\ k \in Unit /\ j.size \in Nat /\ j.size >= 3
      /\ \A u \in Unit : u # k => t[u] = f[u]
  BY <1>1, <1>3, FreeStands
<1>6. h.start = 3 /\ h.end = h.brk /\ h.start # h.end
  BY <1>1, <1>2
<1>8. j.at \in Nat /\ 3 <= j.at /\ k = j.at + 1
  BY <1>1, <1>2, <1>6 DEF Laid, Releases
<1>11. p \in Al /\ y = p + h.tag[p].size /\ a = Around(h, p) /\ j = Joined(h, p) /\ p \in B
  <2>1. Al \subseteq B
    BY <1>1, StandsMeans
  <2> QED BY <2>1 DEF Releases
<1>17. t[2].size = 2
  <2>1. FreeTags(h, p)[2] = h.tag[2]
    BY <1>1, <1>2, <1>11, FreeTagsBelow
  <2>2. 2 \in Unit /\ 2 # k
    BY <1>2, <1>8 DEF Unit
  <2> QED BY <1>1, <1>2, <1>3, <2>1, <2>2
<1>18. Lonely(t, J, C)
  <2>1. \A q : q \in J /\ q \notin C <=> q = j.at \/ (q \in B /\ q \notin Al /\ ~ (JoinsNext(a) /\ q = y))
    BY <1>2 DEF Freed
  <2>2. \A q \in B : q \notin Al => ~ (q + h.tag[q].size \in B /\ q + h.tag[q].size \notin Al)
    BY <1>1 DEF Lonely
  <2>3. ASSUME NEW q, q \in J, q \notin C
        PROVE  ~ (q + t[q].size \in J /\ q + t[q].size \notin C)
    <3>1. CASE q = j.at
      <4>1. q + t[q].size = IF JoinsNext(a) THEN y + h.tag[y].size ELSE y
        BY <1>2, <3>1 DEF Freed
      <4>2. q + t[q].size # j.at
        BY <1>2, <1>8, <3>1 DEF Freed
      <4>3. JoinsNext(a) <=> y \in B /\ y \notin Al
        BY <1>2 DEF Reads
      <4> QED BY <2>1, <2>2, <4>1, <4>2, <4>3
    <3>2. CASE q # j.at
      <4>1. q \in B /\ q \notin Al /\ t[q].size = h.tag[q].size
        BY <1>2, <2>1, <2>3, <3>2 DEF Freed
      <4>2. ~ (q + h.tag[q].size \in B /\ q + h.tag[q].size \notin Al)
        BY <2>2, <4>1
      <4>3. q + h.tag[q].size # j.at
        <5>1. CASE JoinsPrev(a)
          <6>1. j.at \in B /\ j.at \notin Al
            BY <1>2, <5>1 DEF Reads
          <6> QED BY <4>2, <6>1
        <5>2. CASE ~ JoinsPrev(a)
          <6>1. j.at = p /\ \A r \in B : r + h.tag[r].size = p => r \in Al
            BY <1>2, <5>2 DEF Reads
          <6> QED BY <4>1, <6>1
        <5> QED BY <5>1, <5>2
      <4> QED BY <2>1, <4>1, <4>2, <4>3
    <3> QED BY <3>1, <3>2
  <2> QED BY <2>3 DEF Lonely
<1> QED BY <1>1, <1>2, <1>6, <1>17, <1>18 DEF Holds

(* free of an allocated block: the list. *)
LEMMA FreeMerges ==
  ASSUME MaxHeap \in Nat, NEW h, NEW B, NEW Al, Holds(h, B, Al), NEW p, p \in Al,
         NEW y, y = p + h.tag[p].size, NEW a, a = Around(h, p), NEW j, Reads(h, B, Al, p, y, a, j),
         NEW g, g = Merge(h, p), NEW F, F = B \ Al
  PROVE  Merged(g, p, F) /\ g.at = j.at /\ g.next = JoinsNext(a) /\ g.behind = y
<1>1. /\ Laid(h.tag, h.start, h.end, B) /\ Fits(h.tag, h.start, h.end, B, Al, Al)
      /\ Lonely(h.tag, B, Al) /\ h.end \in Nat /\ h.start \in Nat
  BY HoldsMeans
<1>2. Al \subseteq B /\ p \in B /\ h.end \notin B
  <2>1. Al \subseteq B /\ B \subseteq h.start .. h.end - 1
    BY <1>1 DEF Fits
  <2> QED BY <1>1, <2>1
<1>3. /\ p \in Nat /\ p \in Unit /\ h.tag[p].size \in Nat /\ h.tag[p].size >= 3
      /\ y \in Nat /\ p < y /\ y \in B \cup {h.end}
  BY <1>1, <1>2 DEF Laid
<1>4. PICK size : size = h.tag
  OBVIOUS
<1>5. \A u \in B : u \in Nat /\ u \in Unit /\ size[u].size \in Nat /\ size[u].size >= 3
  BY <1>1, <1>4 DEF Laid
<1>6. \A u, v \in B : u < v => u + size[u].size <= v
  BY <1>1, <1>4 DEF Laid
<1>7. \A u \in F : u \in B /\ u \notin Al /\ u \in Nat
  BY <1>5
<1>8. /\ g.listed = Listed(a) /\ g.prev = JoinsPrev(a) /\ g.next = JoinsNext(a) /\ g.behind = y
      /\ g.at = IF JoinsPrev(a) THEN p - h.tag[p - 1].size ELSE p
      /\ g.last = IF JoinsNext(a) THEN y + size[y].size ELSE p
  BY <1>4 DEF Merge
<1>9. /\ JoinsPrev(a) => /\ j.at \in B /\ j.at \notin Al /\ j.at + size[j.at].size = p
                         /\ j.at = p - h.tag[p - 1].size
      /\ ~ JoinsPrev(a) => j.at = p
      /\ JoinsNext(a) <=> y \in B /\ y \notin Al
      /\ Listed(a) <=> ~ (p = h.start /\ y = h.end)
  BY <1>4 DEF Reads
<1>10. g.at = j.at /\ j.at \in B
  BY <1>2, <1>8, <1>9
<1>11. g.prev => g.at \in F /\ \A u \in F \cup {Null} : u \in g.at .. p <=> u = g.at
  <2> SUFFICES ASSUME JoinsPrev(a)
      PROVE  g.at \in F /\ \A u \in F \cup {Null} : u \in g.at .. p <=> u = g.at
    BY <1>8
  <2>1. g.at \in F /\ g.at \in Nat /\ g.at + size[g.at].size = p /\ g.at # 0 /\ size[g.at].size \in Nat
        /\ g.at \in B
    BY <1>5, <1>9, <1>10 DEF Unit
  <2>2. ASSUME NEW u, u \in F, u \in g.at .. p PROVE u = g.at
    <3>1. u \in B /\ u \in Nat /\ u # p
      BY <1>7, <2>2
    <3>2. g.at < u => p <= u
      BY <1>6, <2>1, <3>1
    <3> QED BY <1>3, <2>1, <2>2, <3>1, <3>2
  <2>3. Null \notin g.at .. p
    BY <2>1 DEF Null
  <2>4. g.at \in g.at .. p
    BY <1>3, <2>1
  <2> QED BY <2>1, <2>2, <2>3, <2>4
<1>12. ~ g.prev => g.at = p
  BY <1>8
<1>13. g.next => /\ g.behind \in F /\ g.behind # g.at
                 /\ \A u \in F \cup {Null} : u \in p .. g.last <=> u = g.behind
  <2> SUFFICES ASSUME JoinsNext(a)
      PROVE  /\ y \in F /\ y # g.at
             /\ \A u \in F \cup {Null} : u \in p .. g.last <=> u = y
    BY <1>8
  <2>1. y \in F /\ y \in B /\ size[y].size \in Nat /\ size[y].size >= 3
    BY <1>5, <1>9
  <2>2. y # g.at
    <3>1. CASE JoinsPrev(a)
      BY <1>3, <1>5, <1>9, <1>10, <3>1
    <3>2. CASE ~ JoinsPrev(a)
      BY <1>3, <1>9, <1>10, <3>2
    <3> QED BY <3>1, <3>2
  <2>3. g.last = y + size[y].size
    BY <1>8
  <2>4. ASSUME NEW u, u \in F, u \in p .. g.last PROVE u = y
    <3>1. u \in B /\ u \in Nat /\ u # p
      BY <1>7, <2>4
    <3>2. p < u
      BY <1>3, <2>4, <3>1
    <3>3. y <= u
      BY <1>2, <1>4, <1>6, <3>1, <3>2
    <3>4. y < u => u = y + size[y].size
      BY <1>3, <1>6, <2>1, <2>3, <2>4, <3>1
    <3>5. u # y + size[y].size
      <4>1. y + size[y].size \notin B \ Al
        BY <1>1, <1>4, <1>7, <2>1 DEF Lonely
      <4> QED BY <2>4, <4>1
    <3> QED BY <1>3, <3>1, <3>3, <3>4, <3>5
  <2>5. Null \notin p .. g.last
    BY <1>3, <2>1, <2>3 DEF Null, Unit
  <2>6. y \in p .. g.last
    BY <1>3, <2>1, <2>3
  <2> QED BY <2>1, <2>2, <2>4, <2>5, <2>6
<1>14. ~ g.listed => F = {}
  <2> SUFFICES ASSUME p = h.start, y = h.end, NEW u \in F PROVE FALSE
    BY <1>8, <1>9
  <2>1. h.start <= u /\ u < h.end /\ u \in Nat /\ u \in B /\ u # p
    BY <1>1, <1>7 DEF Laid
  <2>2. y <= u
    BY <1>2, <1>3, <1>4, <1>6, <2>1
  <2> QED BY <1>1, <2>1, <2>2
<1>15. g.at \in Unit /\ p \notin F
  BY <1>5, <1>10
<1>16. Merged(g, p, F)
  BY <1>3, <1>11, <1>12, <1>13, <1>14, <1>15 DEF Merged
<1> QED BY <1>8, <1>10, <1>16

LEMMA FreeLinks ==
  ASSUME MaxHeap \in Nat, NEW h, NEW B, NEW Al, Holds(h, B, Al), NEW p, p \in Al,
         NEW y, y = p + h.tag[p].size, NEW a, a = Around(h, p), NEW j, Reads(h, B, Al, p, y, a, j),
         NEW J, NEW C, NEW t, Freed(h, B, Al, p, y, a, j, J, C, t),
         NEW l, NEW rank, NEW F, F = B \ Al, Linked(l, F, rank), NEW E, E = J \ C
  PROVE  \E r : Linked(FreeList(h, l, p), E, r)
<1>1. PICK g : g = Merge(h, p)
  OBVIOUS
<1>2. Merged(g, p, F) /\ g.at = j.at /\ g.next = JoinsNext(a) /\ g.behind = y
  BY <1>1, FreeMerges
<1>3. \E r : Linked(FreeList(h, l, p), (F \ (IF g.next THEN {g.behind} ELSE {})) \cup {g.at}, r)
  BY <1>1, <1>2, FreeListLinked
<1>4. (F \ (IF g.next THEN {g.behind} ELSE {})) \cup {g.at} = E
  <2>1. \A q : q \in J /\ q \notin C <=>
              q = j.at \/ (q \in B /\ q \notin Al /\ ~ (JoinsNext(a) /\ q = y))
    BY DEF Freed
  <2> QED BY <1>2, <2>1
<1> QED BY <1>3, <1>4

-----------------------------------------------------------------------------
(* The inductive invariant: all of the above of some blocks B, of which Al *)
(* are allocated, the others in the list.                                  *)
HasRoom == MaxHeap \in Nat /\ MaxHeap >= 2 /\ Requests \subseteq Nat \ {0}

Sound(B, Al) ==
  /\ Holds(heap, B, Al) /\ Carried(heap, Al, ranges) /\ list \in List
  /\ pc # "done" => \E r : Linked(list, B \ Al, r)
  /\ pc = "exit" => Tracked(heap, B, Al, lst_tracker)
  /\ pc = "done" => ranges = {}
  /\ pc \in {"trace", "exit", "done"} /\ lst_tracker \in 1 .. MaxHeap + 1
IInv == \E B, Al : Sound(B, Al)

LEMMA FreshSound ==
  ASSUME HasRoom
  PROVE  /\ Holds(FreshHeap, {}, {}) /\ Carried(FreshHeap, {}, {}) /\ EmptyList \in List
         /\ \E r : Linked(EmptyList, {} \ {}, r)
<1>1. MaxHeap \in Nat /\ 1 \in Unit /\ 2 \in Unit /\ 2 \in 0 .. MaxHeap /\ 3 \in 1 .. MaxHeap + 1
      /\ 1 \in 1 .. MaxHeap + 1
  BY DEF HasRoom, Unit
<1>2. PICK t : t = [u \in Unit |-> NoTag]
  OBVIOUS
<1>3. t \in [Unit -> Tag]
  <2>1. NoTag \in Tag
    BY <1>1 DEF NoTag, Tag
  <2> QED BY <1>2, <2>1
<1>4. PICK s : s = SetTags(t, 1, 2, 1)
  OBVIOUS
<1>5. s \in [Unit -> Tag] /\ s[2].size = 2
  <2>1. 1 \in 0 .. 3 /\ 2 = 1 + 2 - 1
    OBVIOUS
  <2>2. /\ SetTags(t, 1, 2, 1) \in [Unit -> Tag]
        /\ \A u \in Unit : SetTags(t, 1, 2, 1)[u] =
              IF u = 1 \/ u = 2 THEN [size |-> 2, bits |-> 1] ELSE t[u]
    BY <1>1, <1>3, <2>1, SetTagsAt
  <2> QED BY <1>1, <1>4, <2>2
<1>6. FreshHeap = [tag |-> s, brk |-> 3, start |-> 1, end |-> 1]
  BY <1>2, <1>4 DEF FreshHeap
<1>7. FreshHeap \in HeapState
  BY <1>1, <1>5, <1>6 DEF HeapState
<1>8. Fits(s, 1, 1, {}, {}, {})
  BY DEF Fits
<1>9. Holds(FreshHeap, {}, {})
  BY <1>5, <1>6, <1>7, <1>8 DEF Holds, Stands, Lonely
<1>10. Carried(FreshHeap, {}, {})
  BY DEF Carried
<1>11. EmptyList \in List /\ {} \ {} = {}
  BY EmptyLinked DEF Linked
<1> QED BY <1>9, <1>10, <1>11, EmptyLinked

LEMMA InitSound == ASSUME HasRoom, Init PROVE IInv
<1>1. /\ heap = FreshHeap /\ list = EmptyList /\ ranges = {} /\ pc = "trace" /\ lst_tracker = 1
      /\ lst_tracker \in 1 .. MaxHeap + 1
  BY DEF Init, HasRoom
<1>2. Sound({}, {})
  BY <1>1, FreshSound DEF Sound
<1> QED BY <1>2 DEF IInv

LEMMA MallocFrontSound ==
  ASSUME HasRoom, IInv, NEW r \in Requests, MallocFront(r)
  PROVE  IInv'
<1>1. PICK B, Al : Sound(B, Al)
  BY DEF IInv
<1>2. PICK n, p : n = Units(r) /\ p = FirstFit(n)
  OBVIOUS
<1>3. PICK m, rest, s : /\ m = heap.tag[p].size - n /\ rest = p + n
        /\ s = SetTags(SetTags(heap.tag, p, n, 1), p + n, m, heap.tag[p + heap.tag[p].size - 1].bits)
  OBVIOUS
<1>4. /\ pc = "trace" /\ p # Null
      /\ Return([heap EXCEPT !.tag = TellPrev(s, p, 1)], p, n, r)
      /\ list' = Succeed(list, p, rest) /\ pc' = pc /\ lst_tracker' = lst_tracker
  BY <1>2, <1>3 DEF MallocFront
<1>5. /\ Holds(heap, B, Al) /\ Carried(heap, Al, ranges) /\ lst_tracker \in 1 .. MaxHeap + 1
      /\ MaxHeap \in Nat
  BY <1>1 DEF Sound, HasRoom
<1>6. PICK F, rank : F = B \ Al /\ Linked(list, F, rank)
  BY <1>1, <1>4 DEF Sound
<1>7. n \in Nat /\ n >= 3 /\ r <= 8 * (n - 2) /\ r \in Nat
  BY <1>2, UnitsRoom DEF HasRoom
<1>8. p \in F /\ heap.tag[p].size >= n + 3
  BY <1>2, <1>4, <1>5, <1>6, FirstFitFinds
<1>9. /\ Laid(heap.tag, heap.start, heap.end, B) /\ Fits(heap.tag, heap.start, heap.end, B, Al, Al)
      /\ heap \in HeapState
  BY <1>5, HoldsMeans
<1>10. p \in Nat /\ p \in Unit /\ p + 1 \in Unit /\ heap.tag[p].size \in Nat /\ p \in B /\ p \notin Al
  BY <1>6, <1>8, <1>9 DEF Laid
<1>11. Splits(heap.tag, B, Al, p, n, m, rest, s)
  <2>1. m \in Nat /\ m >= 3 /\ heap.tag[p].size = n + m
    BY <1>3, <1>7, <1>8, <1>10
  <2> QED BY <1>3, <1>7, <1>10, <2>1 DEF Splits
<1>12. PICK g, x : g = [heap EXCEPT !.tag = Use(TellPrev(s, p, 1), p, n)]
                   /\ x = [lo |-> p + 1, bytes |-> r]
  OBVIOUS
<1>13. heap' = g /\ ranges' = ranges \cup {x}
  BY <1>4, <1>9, <1>12 DEF Return, HeapState
<1>14. PICK X, C : X = B \cup {rest} /\ C = Al \cup {p}
  OBVIOUS
<1>15. rest \in Unit /\ rest \notin B /\ Holds(g, X, C) /\ SizedLike(g.tag, heap.tag, B, p, n)
  BY <1>5, <1>11, <1>12, <1>14, SplitHolds
<1>16. g.tag[p].size = n /\ Al \subseteq B
  <2>1. Al \subseteq B
    BY <1>9 DEF Fits
  <2> QED BY <1>10, <1>15, <2>1 DEF SizedLike
<1>17. Carried(g, C, ranges')
  BY <1>5, <1>7, <1>10, <1>12, <1>13, <1>14, <1>15, <1>16, CarriedMore
<1>18. \E k : Linked(list', X \ C, k)
  <2>1. \E k : Linked(Succeed(list, p, rest), (F \ {p}) \cup {rest}, k)
    BY <1>6, <1>8, <1>15, SucceedLinked
  <2>2. (F \ {p}) \cup {rest} = X \ C
    BY <1>6, <1>8, <1>14, <1>15, <1>16
  <2> QED BY <1>4, <2>1, <2>2
<1>19. list' \in List
  BY <1>18 DEF Linked
<1>20. Sound(X, C)'
  BY <1>4, <1>5, <1>13, <1>15, <1>17, <1>18, <1>19 DEF Sound
<1> QED BY <1>20 DEF IInv

LEMMA MallocGrowSound ==
  ASSUME HasRoom, IInv, NEW r \in Requests, MallocGrow(r)
  PROVE  IInv'
<1>1. PICK B, Al : Sound(B, Al)
  BY DEF IInv
<1>2. PICK n, p, e : n = Units(r) /\ p = heap.brk /\ e = Extend(heap, n, 1)
  OBVIOUS
<1>3. PICK f : f = IF heap.start = heap.end THEN [e EXCEPT !.start = p]
                   ELSE [e EXCEPT !.tag = TellPrev(@, p, 1)]
  OBVIOUS
<1>4. /\ pc = "trace" /\ Room(heap, n) /\ Return(f, p, n, r)
      /\ list' = list /\ pc' = pc /\ lst_tracker' = lst_tracker
  BY <1>2, <1>3 DEF MallocGrow
<1>5. /\ Holds(heap, B, Al) /\ Carried(heap, Al, ranges) /\ lst_tracker \in 1 .. MaxHeap + 1
      /\ MaxHeap \in Nat /\ list \in List
  BY <1>1 DEF Sound, HasRoom
<1>6. PICK rank : Linked(list, B \ Al, rank)
  BY <1>1, <1>4 DEF Sound
<1>7. n \in Nat /\ n >= 3 /\ r <= 8 * (n - 2) /\ r \in Nat
  BY <1>2, UnitsRoom DEF HasRoom
<1>8. PICK g, x : g = [f EXCEPT !.tag = Use(@, p, n)] /\ x = [lo |-> p + 1, bytes |-> r]
  OBVIOUS
<1>9. heap' = g /\ ranges' = ranges \cup {x}
  BY <1>4, <1>8 DEF Return
<1>10. PICK X, C : X = B \cup {p} /\ C = Al \cup {p}
  OBVIOUS
<1>11. /\ p \in Unit /\ p \notin B /\ Holds(g, X, C)
       /\ g.tag[p].size = n /\ SizedLike(g.tag, heap.tag, B, p, n)
  <2>1. Grown(heap, n, p, e, f, g)
    BY <1>2, <1>3, <1>4, <1>7, <1>8 DEF Grown
  <2> QED BY <1>5, <1>10, <2>1, GrowHolds
<1>12. Al \subseteq B
  <2>1. Fits(heap.tag, heap.start, heap.end, B, Al, Al)
    BY <1>5, HoldsMeans
  <2> QED BY <2>1 DEF Fits
<1>13. p \in Nat /\ p + 1 \in Unit
  <2>1. Laid(g.tag, g.start, g.end, X) /\ p \in X
    BY <1>5, <1>10, <1>11, HoldsMeans
  <2> QED BY <2>1 DEF Laid
<1>14. Carried(g, C, ranges')
  BY <1>5, <1>7, <1>8, <1>9, <1>10, <1>11, <1>12, <1>13, CarriedMore
<1>15. X \ C = B \ Al
  BY <1>10, <1>11, <1>12
<1>16. Sound(X, C)'
  BY <1>4, <1>5, <1>6, <1>9, <1>11, <1>14, <1>15 DEF Sound
<1> QED BY <1>16 DEF IInv

LEMMA FreeBlockSound ==
  ASSUME HasRoom, NEW B, NEW Al, Sound(B, Al), pc # "done", NEW p, p \in Al, FreeBlock(p)
  PROVE  \E J, C : /\ Holds(heap', J, C) /\ Carried(heap', C, ranges') /\ list' \in List
                   /\ \E r : Linked(list', J \ C, r)
                   /\ (\A q \in Al : p <= q) => Tracked(heap', J, C, p + heap'.tag[p].size)
<1>1. Holds(heap, B, Al) /\ Carried(heap, Al, ranges) /\ MaxHeap \in Nat
  BY DEF Sound, HasRoom
<1>2. PICK F, rank : F = B \ Al /\ Linked(list, F, rank)
  BY DEF Sound
<1>3. PICK y, a, j : y = p + heap.tag[p].size /\ a = Around(heap, p) /\ j = Joined(heap, p)
  OBVIOUS
<1>4. PICK J, C, k : /\ J = {q \in B : q <= j.at \/ j.at + j.size <= q} /\ C = Al \ {p}
                     /\ k = j.at + 1
  OBVIOUS
<1>5. PICK t, g : t = [FreeTags(heap, p) EXCEPT ![k] = NoTag] /\ g = [heap EXCEPT !.tag = t]
  OBVIOUS
<1>6. /\ heap' = g /\ list' = FreeList(heap, list, p)
      /\ ranges' = {x \in ranges : x.lo # p + 1}
  BY <1>3, <1>4, <1>5 DEF FreeBlock
<1>7. /\ Reads(heap, B, Al, p, y, a, j) /\ Freed(heap, B, Al, p, y, a, j, J, C, t)
      /\ Holds(g, J, C) /\ g.tag = t /\ g.start = heap.start /\ g.end = heap.end
  <2>1. Releases(heap, B, Al, p, y, a, j, J, C, k, t, g)
    BY <1>3, <1>4, <1>5 DEF Releases
  <2> QED BY <1>1, <2>1, FreeHolds
<1>8. \E r : Linked(list', J \ C, r)
  <2>1. PICK E : E = J \ C
    OBVIOUS
  <2>2. \E r : Linked(FreeList(heap, list, p), E, r)
    BY <1>1, <1>2, <1>3, <1>7, <2>1, FreeLinks
  <2> QED BY <1>6, <2>1, <2>2
<1>9. list' \in List
  BY <1>8 DEF Linked
<1>10. Al \subseteq B /\ Al \subseteq Nat
  <2>1. Al \subseteq B
    <3>1. Fits(heap.tag, heap.start, heap.end, B, Al, Al)
      BY <1>1, HoldsMeans
    <3> QED BY <3>1 DEF Fits
  <2>2. \A q \in B : q \in Nat
    <3>1. Laid(heap.tag, heap.start, heap.end, B)
      BY <1>1, HoldsMeans
    <3> QED BY <3>1 DEF Laid
  <2> QED BY <2>1, <2>2
<1>11. ASSUME NEW q \in Al, q # p PROVE g.tag[q].size = heap.tag[q].size
  <2>1. q # j.at
    <3>1. CASE JoinsPrev(a)
      <4>1. j.at \notin Al
        BY <1>7, <3>1 DEF Reads
      <4> QED BY <4>1
    <3>2. CASE ~ JoinsPrev(a)
      <4>1. j.at = p
        BY <1>7, <3>2 DEF Reads
      <4> QED BY <1>11, <4>1
    <3> QED BY <3>1, <3>2
  <2>2. t[q].size = heap.tag[q].size
    BY <1>7, <1>10, <2>1 DEF Freed
  <2> QED BY <1>7, <2>2
<1>12. Carried(g, C, ranges')
  <2>1. Without(g, heap, Al, ranges, p, C, ranges')
    BY <1>4, <1>6, <1>11 DEF Without
  <2>2. p \in Nat
    BY <1>10
  <2> QED BY <1>1, <1>10, <2>1, <2>2, CarriedLess
<1>13. ASSUME \A q \in Al : p <= q PROVE Tracked(g, J, C, p + g.tag[p].size)
  <2>1. t = g.tag
    BY <1>7
  <2> QED BY <1>1, <1>3, <1>4, <1>7, <1>13, <2>1, TrackedFree DEF Holds
<1> QED BY <1>6, <1>7, <1>8, <1>9, <1>12, <1>13

LEMMA FreeSound ==
  ASSUME HasRoom, IInv, NEW x \in ranges, Free(x)
  PROVE  IInv'
<1>1. PICK B, Al : Sound(B, Al)
  BY DEF IInv
<1>2. PICK p : p = x.lo - 1
  OBVIOUS
<1>3. pc = "trace" /\ pc' = pc /\ lst_tracker' = lst_tracker /\ FreeBlock(p)
  BY <1>2 DEF Free
<1>4. p \in Al
  BY <1>1, <1>2 DEF Sound, Carried
<1>5. PICK J, C : /\ Holds(heap', J, C) /\ Carried(heap', C, ranges') /\ list' \in List
                  /\ \E r : Linked(list', J \ C, r)
  BY <1>1, <1>3, <1>4, FreeBlockSound
<1>6. lst_tracker \in 1 .. MaxHeap + 1
  BY <1>1 DEF Sound
<1>7. Sound(J, C)'
  BY <1>3, <1>5, <1>6 DEF Sound
<1> QED BY <1>7 DEF IInv

LEMMA ExitSound == ASSUME HasRoom, IInv, Exit PROVE IInv'
<1>1. PICK B, Al : Sound(B, Al)
  BY DEF IInv
<1>2. /\ pc = "trace" /\ pc' = "exit" /\ lst_tracker' = heap.start
      /\ heap' = heap /\ list' = list /\ ranges' = ranges
  BY DEF Exit
<1>3. /\ Holds(heap, B, Al) /\ Carried(heap, Al, ranges) /\ list \in List /\ MaxHeap \in Nat
      /\ \E r : Linked(list, B \ Al, r)
  BY <1>1, <1>2 DEF Sound, HasRoom
<1>4. /\ Laid(heap.tag, heap.start, heap.end, B)
      /\ Fits(heap.tag, heap.start, heap.end, B, Al, Al) /\ heap \in HeapState
  BY <1>3, HoldsMeans
<1>5. Tracked(heap, B, Al, heap.start)
  <2>1. heap.start \in B \cup {heap.end} /\ Al \subseteq B
    BY <1>4 DEF Fits
  <2>2. \A q \in B : heap.start <= q
    BY <1>4 DEF Laid
  <2> QED BY <2>1, <2>2 DEF Tracked
<1>6. heap.start \in 1 .. MaxHeap + 1
  BY <1>4 DEF HeapState
<1>7. Sound(B, Al)'
  BY <1>2, <1>3, <1>5, <1>6 DEF Sound
<1> QED BY <1>7 DEF IInv

LEMMA ExitStepSound == ASSUME HasRoom, IInv, ExitStep PROVE IInv'
<1>1. PICK B, Al : Sound(B, Al)
  BY DEF IInv
<1>2. /\ pc = "exit" /\ pc' = "exit" /\ lst_tracker < heap.end
      /\ lst_tracker' = lst_tracker + heap'.tag[lst_tracker].size
  BY DEF ExitStep
<1>3. /\ Holds(heap, B, Al) /\ Carried(heap, Al, ranges) /\ list \in List /\ MaxHeap \in Nat
      /\ Tracked(heap, B, Al, lst_tracker) /\ \E r : Linked(list, B \ Al, r)
  BY <1>1, <1>2 DEF Sound, HasRoom
<1>4. PICK k : k = lst_tracker
  OBVIOUS
<1>5. /\ k < heap.end /\ IsAllocated(heap, k) => k \in Al /\ \A q \in Al : k <= q
      /\ k < heap.end /\ ~ IsAllocated(heap, k) => Tracked(heap, B, Al, k + heap.tag[k].size)
  <2>1. Tracked(heap, B, Al, k)
    BY <1>3, <1>4
  <2> QED BY <1>3, <2>1, TrackedAt DEF Holds
<1>6. CASE IsAllocated(heap, k)
  <2>1. FreeBlock(k)
    BY <1>4, <1>6 DEF ExitStep
  <2>2. k \in Al /\ \A q \in Al : k <= q
    BY <1>2, <1>4, <1>5, <1>6
  <2>3. PICK J, C : /\ Holds(heap', J, C) /\ Carried(heap', C, ranges') /\ list' \in List
                    /\ \E r : Linked(list', J \ C, r)
                    /\ (\A q \in Al : k <= q) => Tracked(heap', J, C, k + heap'.tag[k].size)
    BY <1>1, <1>2, <2>1, <2>2, FreeBlockSound
  <2>4. Tracked(heap', J, C, lst_tracker')
    BY <1>2, <1>4, <2>2, <2>3
  <2>5. lst_tracker' \in 1 .. MaxHeap + 1
    BY <1>3, <2>3, <2>4, TrackedAt DEF Holds
  <2>6. Sound(J, C)'
    BY <1>2, <2>3, <2>4, <2>5 DEF Sound
  <2> QED BY <2>6 DEF IInv
<1>7. CASE ~ IsAllocated(heap, k)
  <2>1. heap' = heap /\ list' = list /\ ranges' = ranges
    BY <1>4, <1>7 DEF ExitStep
  <2>2. Tracked(heap, B, Al, lst_tracker')
    BY <1>2, <1>4, <1>5, <1>7, <2>1
  <2>3. lst_tracker' \in 1 .. MaxHeap + 1
    BY <1>3, <2>2, TrackedAt DEF Holds
  <2>4. Sound(B, Al)'
    BY <1>2, <1>3, <2>1, <2>2, <2>3 DEF Sound
  <2> QED BY <2>4 DEF IInv
<1> QED BY <1>6, <1>7

\* When mm_exit returns, nothing is allocated.
LEMMA NothingLeft == ASSUME HasRoom, IInv, ExitReturns PROVE ranges = {}
<1>1. PICK B, Al : Sound(B, Al)
  BY DEF IInv
<1>2. pc = "exit" /\ lst_tracker >= heap.end
  BY DEF ExitReturns
<1>3. /\ Holds(heap, B, Al) /\ Carried(heap, Al, ranges) /\ MaxHeap \in Nat
      /\ Tracked(heap, B, Al, lst_tracker)
  BY <1>1, <1>2 DEF Sound, HasRoom
<1>4. Al = {}
  BY <1>2, <1>3, TrackedAt DEF Holds
<1> QED BY <1>3, <1>4 DEF Carried

LEMMA ExitReturnsSound == ASSUME HasRoom, IInv, ExitReturns PROVE IInv'
<1>1. PICK B, Al : Sound(B, Al)
  BY DEF IInv
<1>2. /\ pc' = "done" /\ list' = EmptyList /\ lst_tracker' = 1 /\ heap' = heap /\ ranges' = ranges
  BY DEF ExitReturns
<1>3. ranges = {}
  BY NothingLeft
<1>4. Holds(heap, B, Al) /\ Carried(heap, Al, ranges) /\ EmptyList \in List /\ 1 \in 1 .. MaxHeap + 1
  BY <1>1, FreshSound DEF Sound, HasRoom
<1>5. Sound(B, Al)'
  BY <1>2, <1>3, <1>4 DEF Sound
<1> QED BY <1>5 DEF IInv

LEMMA BeginSound == ASSUME HasRoom, IInv, Begin PROVE IInv'
<1>1. PICK B, Al : Sound(B, Al)
  BY DEF IInv
<1>2. /\ heap' = FreshHeap /\ list' = EmptyList /\ ranges' = {} /\ pc' = "trace"
      /\ lst_tracker' = lst_tracker
  BY DEF Begin
<1>3. lst_tracker \in 1 .. MaxHeap + 1
  BY <1>1 DEF Sound
<1>4. Sound({}, {})'
  BY <1>2, <1>3, FreshSound DEF Sound
<1> QED BY <1>4 DEF IInv

LEMMA StutterSound == ASSUME IInv, UNCHANGED vars PROVE IInv'
<1>1. PICK B, Al : Sound(B, Al)
  BY DEF IInv
<1>2. Sound(B, Al)'
  BY <1>1 DEF Sound, vars
<1> QED BY <1>2 DEF IInv

LEMMA NextSound == ASSUME HasRoom, IInv, [Next]_vars PROVE IInv'
BY MallocFrontSound, MallocGrowSound, FreeSound, ExitSound, ExitStepSound, ExitReturnsSound,
   BeginSound, StutterSound DEF Next

LEMMA AlwaysSound == ASSUME HasRoom PROVE Spec => []IInv
<1>1. Init => IInv
  BY InitSound
<1>2. IInv /\ [Next]_vars => IInv'
  BY NextSound
<1> QED BY <1>1, <1>2, PTL DEF Spec

-----------------------------------------------------------------------------
(* The state is well formed, whatever mm_malloc, mm_free and mm_exit did. *)
THEOREM ListTypes == ASSUME HasRoom PROVE Spec => []TypeOK
<1>1. IInv => TypeOK
  BY DEF IInv, Sound, Holds, Stands, Carried, TypeOK
<1> QED BY <1>1, AlwaysSound, PTL

(* Blocks tile the heap up to the break and their tags tell the truth: the *)
(* splits of mm_malloc and all nine cases of mm_free keep it so.           *)
THEOREM ListHeapTiled == ASSUME HasRoom PROVE Spec => []HeapTiled
<1>1. ASSUME IInv, heap.start # heap.end PROVE Tiled(heap)
  <2>1. PICK B, Al : Holds(heap, B, Al)
    BY <1>1 DEF IInv, Sound
  <2>2. Stands(heap, B, Al) /\ heap.end = heap.brk
    BY <1>1, <2>1 DEF Holds
  <2> QED BY <2>2, StandsBlocks DEF HasRoom
<1>2. IInv => HeapTiled
  BY <1>1 DEF HeapTiled
<1> QED BY <1>2, AlwaysSound, PTL

(* What the tags say of the blocks of Sound. *)
LEMMA SoundBlocks ==
  ASSUME HasRoom, NEW B, NEW Al, Sound(B, Al)
  PROVE  /\ Blocks(heap) = B /\ Astray \notin B /\ B \subseteq Unit /\ Al \subseteq B
         /\ \A p \in B : IsAllocated(heap, p) <=> p \in Al
<1>1. MaxHeap \in Nat /\ Stands(heap, B, Al)
  BY DEF Sound, Holds, HasRoom
<1> QED BY <1>1, StandsMeans, StandsBlocks

(* The driver's ranges are the allocated blocks, with room for what was    *)
(* asked for: mm_malloc returns no block that is in use, and a block that  *)
(* mm_free joins with others takes no allocated block with it.             *)
THEOREM ListCarriesRanges == ASSUME HasRoom PROVE Spec => []RangesAreBlocks
<1>1. ASSUME IInv PROVE Carries(heap, ranges)
  <2>1. PICK B, Al : Sound(B, Al)
    BY <1>1 DEF IInv
  <2>2. /\ ranges \subseteq [lo : Unit, bytes : Requests]
        /\ \A x \in ranges : x.lo - 1 \in Al /\ x.bytes <= 8 * (heap.tag[x.lo - 1].size - 2)
        /\ \A p \in Al : \E x \in ranges : x.lo = p + 1
    BY <2>1 DEF Sound, Carried
  <2>3. /\ Blocks(heap) = B /\ Astray \notin B /\ B \subseteq Unit /\ Al \subseteq B
        /\ \A p \in B : IsAllocated(heap, p) <=> p \in Al
    BY <2>1, SoundBlocks
  <2>4. {x.lo - 1 : x \in ranges} = Al
    <3>1. \A p \in Al : p \in Nat
      BY <2>3 DEF Unit
    <3>2. \A p \in Al : \E x \in ranges : x.lo - 1 = p
      BY <2>2, <3>1
    <3> QED BY <2>2, <3>2
  <2>5. {p \in Blocks(heap) \ {Astray} : IsAllocated(heap, p)} = Al
    BY <2>3
  <2> QED BY <2>2, <2>4, <2>5 DEF Carries
<1>2. IInv => RangesAreBlocks
  BY <1>1 DEF RangesAreBlocks
<1> QED BY <1>2, AlwaysSound, PTL

(* The free blocks of Sound. *)
LEMMA SoundFree ==
  ASSUME HasRoom, NEW B, NEW Al, Sound(B, Al), NEW p
  PROVE  IsFree(p) <=> p \in B \ Al
BY SoundBlocks DEF IsFree

(* No two free blocks are side by side: mm_free joins what it can. *)
THEOREM ListCoalesces == ASSUME HasRoom PROVE Spec => []Coalesced
<1>1. ASSUME IInv, NEW p \in Unit, IsFree(p) PROVE ~ IsFree(p + heap.tag[p].size)
  <2>1. PICK B, Al : Sound(B, Al)
    BY <1>1 DEF IInv
  <2>2. p \in B \ Al
    BY <1>1, <2>1, SoundFree
  <2>3. p + heap.tag[p].size \notin B \ Al
    BY <2>1, <2>2 DEF Sound, Holds, Lonely
  <2> QED BY <2>1, <2>3, SoundFree
<1>2. IInv => Coalesced
  BY <1>1 DEF Coalesced
<1> QED BY <1>2, AlwaysSound, PTL

(* The list leads through exactly the free blocks, forwards and backwards, *)
(* and ends, until mm_exit has returned.                                   *)
THEOREM ListIsWhole == ASSUME HasRoom PROVE Spec => []ListHoldsFree
<1>1. ASSUME IInv, pc # "done"
      PROVE  /\ {Nth[k] : k \in 0 .. MaxHeap} = {p \in Unit : IsFree(p)} \cup {Null}
             /\ \A k \in 0 .. MaxHeap : Nth[k] # Null =>
                  list.prev[Nth[k]] = IF k = 0 THEN Null ELSE Nth[k - 1]
  <2>1. PICK B, Al : Sound(B, Al)
    BY <1>1 DEF IInv
  <2>2. PICK F, rank : F = B \ Al /\ Linked(list, F, rank)
    BY <1>1, <2>1 DEF Sound
  <2>3. /\ {Nth[k] : k \in 0 .. MaxHeap} = F \cup {Null}
        /\ \A k \in 0 .. MaxHeap : Nth[k] # Null =>
             list.prev[Nth[k]] = IF k = 0 THEN Null ELSE Nth[k - 1]
    BY <2>2, NthHolds DEF HasRoom
  <2>4. {p \in Unit : IsFree(p)} = F
    <3>1. \A p \in Unit : IsFree(p) <=> p \in F
      BY <2>1, <2>2, SoundFree
    <3>2. F \subseteq Unit
      BY <2>2 DEF Linked
    <3> QED BY <3>1, <3>2
  <2> QED BY <2>3, <2>4
<1>2. IInv => ListHoldsFree
  BY <1>1 DEF ListHoldsFree
<1> QED BY <1>2, AlwaysSound, PTL

-----------------------------------------------------------------------------
(* What mdriver demands.                                                   *)

(* A call of mm_malloc is A!Alloc: the new payload overlaps none. *)
LEMMA ReturnAllocates ==
  ASSUME HasRoom, IInv', NEW r \in Requests, NEW h, NEW p, NEW n, Return(h, p, n, r),
         pc = "trace", pc' = pc
  PROVE  A!Next \/ UNCHANGED <<ranges, pc = "done">>
<1>1. PICK x : x = [lo |-> p + 1, bytes |-> r]
  OBVIOUS
<1>2. ranges' = ranges \cup {x} /\ x \in ranges' /\ pc # "done" /\ pc' # "done"
  BY <1>1 DEF Return
<1>3. PICK B, Al : Holds(heap', B, Al) /\ Carried(heap', Al, ranges')
  BY DEF IInv, Sound
<1>4. /\ x.lo \in Unit /\ A!Last(x) <= MaxHeap
  <2>1. LastUnit(x) = A!Last(x)
    BY DEF LastUnit, A!Last
  <2>2. Stands(heap', B, Al)
    BY <1>3 DEF Holds
  <2> QED BY <1>2, <1>3, <2>1, <2>2, PayloadFits DEF HasRoom
<1>5. CASE x \in ranges
  BY <1>2, <1>5
<1>6. CASE x \notin ranges
  <2>1. ASSUME NEW y \in ranges PROVE ~ A!Overlap(x, y)
    <3>1. y \in ranges' /\ x # y
      BY <1>2, <1>6
    <3>2. ~ (x.lo <= LastUnit(y) /\ y.lo <= LastUnit(x))
      BY <1>2, <1>3, <3>1, PayloadsApart DEF HasRoom, Holds
    <3> QED BY <3>2 DEF LastUnit, A!Overlap, A!Last
  <2>2. x.lo >= 1
    BY <1>4 DEF Unit
  <2>3. A!Alloc(x)
    BY <1>2, <1>4, <2>1, <2>2 DEF A!Alloc
  <2>4. p + 1 \in 1 .. MaxHeap /\ A!Alloc([lo |-> p + 1, bytes |-> r])
    BY <1>1, <1>4, <2>3 DEF Unit
  <2> QED BY <2>4 DEF A!Next
<1> QED BY <1>5, <1>6

(* What mm_free gives back is the one payload of that block. *)
LEMMA FreeBlockFrees ==
  ASSUME HasRoom, IInv, NEW x \in ranges, NEW p, p + 1 = x.lo, FreeBlock(p), pc # "done", pc' = pc
  PROVE  A!Next
<1>1. PICK B, Al : Carried(heap, Al, ranges)
  BY DEF IInv, Sound
<1>2. \A y \in ranges : y.lo = x.lo => y = x
  BY <1>1 DEF Carried
<1>3. ranges' = {y \in ranges : y.lo # x.lo}
  BY DEF FreeBlock
<1>4. ranges' = ranges \ {x}
  BY <1>2, <1>3
<1>5. A!Free(x)
  BY <1>4 DEF A!Free
<1> QED BY <1>5 DEF A!Next

LEMMA StepImplements ==
  ASSUME HasRoom, IInv, IInv', [Next]_vars
  PROVE  A!Next \/ UNCHANGED <<ranges, pc = "done">>
<1>1. ASSUME NEW r \in Requests, MallocFront(r) PROVE A!Next \/ UNCHANGED <<ranges, pc = "done">>
  <2>1. \E h, p, n : Return(h, p, n, r)
    BY <1>1 DEF MallocFront
  <2>2. pc = "trace" /\ pc' = pc
    BY <1>1 DEF MallocFront
  <2> QED BY <2>1, <2>2, ReturnAllocates
<1>2. ASSUME NEW r \in Requests, MallocGrow(r) PROVE A!Next \/ UNCHANGED <<ranges, pc = "done">>
  <2>1. \E h, p, n : Return(h, p, n, r)
    BY <1>2 DEF MallocGrow
  <2>2. pc = "trace" /\ pc' = pc
    BY <1>2 DEF MallocGrow
  <2> QED BY <2>1, <2>2, ReturnAllocates
<1>3. ASSUME NEW x \in ranges, Free(x) PROVE A!Next
  <2>1. PICK p : p = x.lo - 1
    OBVIOUS
  <2>2. FreeBlock(p) /\ pc # "done" /\ pc' = pc
    BY <1>3, <2>1 DEF Free
  <2>3. p + 1 = x.lo
    BY <2>1 DEF IInv, Sound, Carried, Unit
  <2> QED BY <2>2, <2>3, FreeBlockFrees
<1>4. ASSUME Exit PROVE UNCHANGED <<ranges, pc = "done">>
  BY <1>4 DEF Exit
<1>5. ASSUME ExitStep PROVE A!Next \/ UNCHANGED <<ranges, pc = "done">>
  <2>1. pc = "exit" /\ pc' = pc /\ lst_tracker < heap.end
    BY <1>5 DEF ExitStep
  <2>2. PICK k : k = lst_tracker
    OBVIOUS
  <2>3. CASE IsAllocated(heap, k)
    <3>1. FreeBlock(k)
      BY <1>5, <2>2, <2>3 DEF ExitStep
    <3>2. PICK B, Al : Sound(B, Al)
      BY DEF IInv
    <3>3. k \in Al
      <4>1. Holds(heap, B, Al) /\ Tracked(heap, B, Al, k) /\ MaxHeap \in Nat
        BY <2>1, <2>2, <3>2 DEF Sound, HasRoom
      <4> QED BY <2>1, <2>2, <2>3, <4>1, TrackedAt DEF Holds
    <3>4. PICK x \in ranges : x.lo = k + 1
      BY <3>2, <3>3 DEF Sound, Carried
    <3> QED BY <2>1, <3>1, <3>4, FreeBlockFrees
  <2>4. CASE ~ IsAllocated(heap, k)
    <3>1. ranges' = ranges
      BY <1>5, <2>2, <2>4 DEF ExitStep
    <3> QED BY <2>1, <3>1
  <2> QED BY <2>3, <2>4
<1>6. ASSUME ExitReturns PROVE A!Next
  <2>1. ranges = {}
    BY <1>6, NothingLeft
  <2>2. pc = "exit" /\ pc' = "done" /\ ranges' = ranges
    BY <1>6 DEF ExitReturns
  <2>3. A!End
    BY <2>1, <2>2 DEF A!End
  <2> QED BY <2>3 DEF A!Next
<1>7. ASSUME Begin PROVE A!Next
  <2>1. pc = "done" /\ pc' = "trace" /\ ranges' = {}
    BY <1>7 DEF Begin
  <2>2. ranges = {}
    BY <2>1 DEF IInv, Sound
  <2>3. A!Begin
    BY <2>1, <2>2 DEF A!Begin
  <2> QED BY <2>3 DEF A!Next
<1>8. ASSUME UNCHANGED vars PROVE UNCHANGED <<ranges, pc = "done">>
  BY <1>8 DEF vars
<1> QED BY <1>1, <1>2, <1>3, <1>4, <1>5, <1>6, <1>7, <1>8 DEF Next

(* Every behaviour does what mdriver demands: payloads lie in the heap and *)
(* overlap no payload in use, each is given back once, and when mm_exit    *)
(* has returned nothing is in use, whatever was still allocated before.    *)
THEOREM ListImplementsAllocator == ASSUME HasRoom PROVE Spec => ImplementsAllocator
<1>1. Init => A!Init
  BY DEF Init, A!Init
<1>2. IInv /\ IInv' /\ [Next]_vars => [A!Next]_<<ranges, pc = "done">>
  BY StepImplements
<1> QED BY <1>1, <1>2, AlwaysSound, PTL DEF Spec, ImplementsAllocator, A!Spec

-----------------------------------------------------------------------------
(* What a behaviour that implements Allocator gives its caller.            *)
LEMMA OverlapSymmetric ==
  ASSUME NEW x, NEW y PROVE A!Overlap(x, y) <=> A!Overlap(y, x)
BY DEF A!Overlap

LEMMA AllocApart ==
  ASSUME A!Disjoint, NEW lo \in 1 .. MaxHeap, NEW r \in Requests, A!Alloc([lo |-> lo, bytes |-> r])
  PROVE  A!Disjoint'
<1> DEFINE x == [lo |-> lo, bytes |-> r]
<1>1. /\ x \in A!Payload /\ A!Last(x) <= MaxHeap /\ ranges' = ranges \cup {x}
      /\ \A y \in ranges : ~ A!Overlap(x, y)
      /\ pc # "done" /\ pc' # "done"
  BY DEF A!Alloc, A!Payload
<1> HIDE DEF x
<1>2. ASSUME NEW y \in ranges', NEW z \in ranges', y # z PROVE ~ A!Overlap(y, z)
  <2>1. CASE y \in ranges /\ z \in ranges
    BY <1>2, <2>1 DEF A!Disjoint
  <2>2. CASE y = x
    BY <1>1, <1>2, <2>2
  <2>3. CASE z = x
    BY <1>1, <1>2, <2>3, OverlapSymmetric
  <2> QED BY <1>1, <2>1, <2>2, <2>3
<1> QED BY <1>1, <1>2 DEF A!Disjoint

(* It never has two payloads in use that overlap.                          *)
LEMMA PayloadsDisjoint == A!Spec => []A!Disjoint
<1>1. A!Init => A!Disjoint
  BY DEF A!Init, A!Disjoint
<1>2. A!Disjoint /\ [A!Next]_<<ranges, pc = "done">> => A!Disjoint'
  <2>1. ASSUME A!Disjoint, NEW x \in ranges, A!Free(x) PROVE A!Disjoint'
    BY <2>1 DEF A!Free, A!Disjoint
  <2>2. ASSUME A!Disjoint, A!End PROVE A!Disjoint'
    BY <2>2 DEF A!End, A!Disjoint
  <2>3. ASSUME A!Disjoint, A!Begin PROVE A!Disjoint'
    BY <2>3 DEF A!Begin, A!Disjoint
  <2>4. ASSUME A!Disjoint, UNCHANGED <<ranges, pc = "done">> PROVE A!Disjoint'
    BY <2>4 DEF A!Disjoint
  <2> QED BY AllocApart, <2>1, <2>2, <2>3, <2>4 DEF A!Next
<1> QED BY <1>1, <1>2, PTL DEF A!Spec

(* The payloads that the list allocator has handed out lie in the heap and *)
(* no two of them share a unit of it, however blocks are split and joined, *)
(* and none is in use after mm_exit.                                       *)
THEOREM ListPayloadsDisjoint == ASSUME HasRoom PROVE Spec => []A!Disjoint
<1>1. Spec => A!Spec
  BY ListImplementsAllocator DEF ImplementsAllocator
<1> QED BY <1>1, PayloadsDisjoint
=============================================================================
