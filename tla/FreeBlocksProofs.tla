-------------------------- MODULE FreeBlocksProofs --------------------------
(***************************************************************************)
(* That the tree of mm.c is a red-black search tree of the free blocks,    *)
(* for every set of blocks, all sizes and all sequences of insertions and  *)
(* deletions, and that find_block finds the best fit in it.                *)
(*                                                                         *)
(* The tree is described without recursion: an order of all nodes (pos),   *)
(* for each node the bounds between which its subtree lies (bd), and its   *)
(* black height (bh).  Each is a condition on a node and its two kids.     *)
(***************************************************************************)
EXTENDS FreeBlocks, FiniteSetTheorems, WellFoundedInduction, TLAPS

-----------------------------------------------------------------------------
(* Trees in which every node lies between bounds.                          *)

(* There are two sides, and each is the other of the other.                *)
LEMMA Sides ==
  /\ \A s \in Side : Other(s) \in Side /\ Other(s) # s /\ Other(Other(s)) = s
  /\ \A s, a \in Side : a = s \/ a = Other(s)
  /\ "left" \in Side /\ "right" \in Side
  /\ Other("left") = "right" /\ Other("right") = "left"
BY DEF Side, Other

KidFits(t, F, pos, bd, q, s) ==
  /\ t[s][q] \in F \cup {Null}
  /\ t[s][q] # Null => /\ t.parent[t[s][q]] = q
                       /\ bd[s][t[s][q]] = bd[s][q]
                       /\ bd[Other(s)][t[s][q]] = pos[q]
Placed(t, F, q) ==
  /\ t.parent[q] = Null => q = t.root
  /\ t.parent[q] # Null => t.parent[q] \in F /\ \E s \in Side : t[s][t.parent[q]] = q
Spaced(pos, bd, hi, q) ==
  /\ bd["left"][q] < pos[q] /\ pos[q] < bd["right"][q] /\ bd["right"][q] <= hi
Unlinked1(t, q) == t.parent[q] = Null /\ \A s \in Side : t[s][q] = Null

Framed(t, F, pos, bd, hi) ==
  /\ Null \notin Node /\ t \in Tree /\ F \subseteq Node /\ t.red \subseteq F
  /\ pos \in [Node -> Nat] /\ bd \in [Side -> [Node -> Nat]] /\ hi \in Nat
  /\ t.root \in F \cup {Null} /\ (t.root # Null => t.parent[t.root] = Null)
  /\ \A q \in Node \ F : Unlinked1(t, q)
  /\ \A q \in F : Spaced(pos, bd, hi, q) /\ Placed(t, F, q)
  /\ \A q \in F, s \in Side : KidFits(t, F, pos, bd, q, s)

(* What Framed says of types.                                              *)
LEMMA FramedTypes ==
  ASSUME NEW t, NEW F, NEW pos, NEW bd, NEW hi, Framed(t, F, pos, bd, hi)
  PROVE  /\ \A s \in Side, q \in Node : t[s][q] \in Link /\ bd[s][q] \in Nat
         /\ \A q \in Node : t.parent[q] \in Link /\ pos[q] \in Nat
         /\ Null \notin F /\ \A q \in F : q # Null /\ q \in Node
         /\ hi \in Nat
<1>1. \A s \in Side : t[s] \in [Node -> Link] /\ bd[s] \in [Node -> Nat]
  BY DEF Framed, Side, Tree
<1>2. t.parent \in [Node -> Link]
  BY DEF Framed, Tree
<1> QED BY <1>1, <1>2 DEF Framed

(* A kid lies on its side. *)
LEMMA KidSide ==
  ASSUME NEW t, NEW F, NEW pos, NEW bd, NEW hi, Framed(t, F, pos, bd, hi),
         NEW q, q \in F, NEW s, s \in Side, t[s][q] # Null
  PROVE  /\ t[s][q] \in F /\ t[s][q] \in Node /\ t[s][q] # q
         /\ t.parent[t[s][q]] = q
         /\ bd[s][t[s][q]] = bd[s][q] /\ bd[Other(s)][t[s][q]] = pos[q]
         /\ s = "left" => pos[t[s][q]] < pos[q] /\ bd["left"][q] < pos[t[s][q]]
         /\ s = "right" => pos[q] < pos[t[s][q]] /\ pos[t[s][q]] < bd["right"][q]
<1> DEFINE c == t[s][q]
<1>1. c \in F /\ c \in Node /\ t.parent[c] = q /\ bd[s][c] = bd[s][q] /\ bd[Other(s)][c] = pos[q]
  BY DEF Framed, KidFits
<1>2. /\ bd["left"][c] < pos[c] /\ pos[c] < bd["right"][c]
      /\ pos[c] \in Nat /\ pos[q] \in Nat
  BY <1>1, FramedTypes DEF Framed, Spaced
<1> HIDE DEF c
<1>3. CASE s = "left"
  BY <1>1, <1>2, <1>3, Sides DEF c
<1>4. CASE s = "right"
  BY <1>1, <1>2, <1>4, Sides DEF c
<1> QED BY <1>1, <1>3, <1>4 DEF c, Side

(* The two kids differ, and SideOf finds a kid's side. *)
LEMMA SideOfKid ==
  ASSUME NEW t, NEW F, NEW pos, NEW bd, NEW hi, Framed(t, F, pos, bd, hi),
         NEW q, q \in F, NEW s, s \in Side, t[s][q] # Null
  PROVE  /\ t[Other(s)][q] # t[s][q]
         /\ SideOf(t, t[s][q]) = s
         /\ Sibling(t, t[s][q]) = t[Other(s)][q]
<1>1. pos[q] \in Nat /\ pos[t[s][q]] \in Nat /\ t.parent[t[s][q]] = q /\ q # Null
  BY KidSide, FramedTypes
<1>2. t[Other(s)][q] # t[s][q]
  <2> SUFFICES ASSUME t[Other(s)][q] = t[s][q] PROVE FALSE
    OBVIOUS
  <2>1. CASE s = "left"
    BY <1>1, <2>1, KidSide, Sides
  <2>2. CASE s = "right"
    BY <1>1, <2>2, KidSide, Sides
  <2> QED BY <2>1, <2>2 DEF Side
<1>3. SideOf(t, t[s][q]) = s
  BY <1>1, <1>2 DEF SideOf, Side, Other
<1> QED BY <1>1, <1>2, <1>3 DEF Sibling

-----------------------------------------------------------------------------
(* What a rotation does to links.                                          *)

(* r is t with p turned down to side s below its other kid n. *)
Turned(t, s, p, n, r) ==
  /\ r \in Tree
  /\ r.root = IF p = t.root THEN n ELSE t.root
  /\ \A a \in Side, q \in Node :
       r[a][q] = IF q = n THEN (IF a = s THEN p ELSE t[a][n])
                 ELSE IF q = p THEN (IF a = s THEN t[s][p] ELSE t[s][n])
                 ELSE IF t[a][q] = p THEN n ELSE t[a][q]
  /\ \A q \in Node :
       r.parent[q] = IF q = p THEN n ELSE IF q = n THEN t.parent[p]
                     ELSE IF q = t[s][n] THEN p ELSE t.parent[q]

(* The changes that Hang and Rotate make, as operators of their own. *)
PutKid(t, s, g, n) == [t EXCEPT ![s][g] = n]
PutParent(t, g, n) == [t EXCEPT !.parent[g] = n]
PutRoot(t, n) == [t EXCEPT !.root = n]
PutTurn(v, s, p, n, m, g) ==
  [v EXCEPT ![Other(s)][p] = m, !.parent[p] = n, ![s][n] = p, !.parent[n] = g]

(* What the assignments of a rotation change.                              *)
LEMMA PutKidAt ==
  ASSUME NEW t, t \in Tree, NEW s, s \in Side, NEW g, g \in Node, NEW n, n \in Link
  PROVE  /\ PutKid(t, s, g, n) \in Tree
         /\ PutKid(t, s, g, n).red = t.red
         /\ PutKid(t, s, g, n).root = t.root
         /\ PutKid(t, s, g, n).parent = t.parent
         /\ \A a \in Side, q \in Node :
              PutKid(t, s, g, n)[a][q] = IF a = s /\ q = g THEN n ELSE t[a][q]
BY DEF Side, Tree, PutKid

LEMMA PutParentAt ==
  ASSUME NEW t, t \in Tree, NEW g, g \in Node, NEW n, n \in Link
  PROVE  /\ PutParent(t, g, n) \in Tree
         /\ PutParent(t, g, n).red = t.red
         /\ PutParent(t, g, n).root = t.root
         /\ \A q \in Node : PutParent(t, g, n).parent[q] = IF q = g THEN n ELSE t.parent[q]
         /\ \A a \in Side, q \in Node : PutParent(t, g, n)[a][q] = t[a][q]
BY DEF Side, Tree, PutParent

LEMMA PutRootAt ==
  ASSUME NEW t, t \in Tree, NEW n, n \in Link
  PROVE  /\ PutRoot(t, n) \in Tree
         /\ PutRoot(t, n).red = t.red
         /\ PutRoot(t, n).root = n
         /\ PutRoot(t, n).parent = t.parent
         /\ \A a \in Side, q \in Node : PutRoot(t, n)[a][q] = t[a][q]
BY DEF Side, Tree, PutRoot

LEMMA PutTurnAt ==
  ASSUME NEW v, v \in Tree, NEW s, s \in Side, NEW p, p \in Node, NEW n, n \in Node,
         NEW m, m \in Link, NEW g, g \in Link, p # n,
         NEW u, u = PutTurn(v, s, p, n, m, g)
  PROVE  /\ u \in Tree /\ u.root = v.root /\ u.red = v.red
         /\ \A a \in Side, q \in Node :
              u[a][q] = IF a = s /\ q = n THEN p ELSE IF a = Other(s) /\ q = p THEN m ELSE v[a][q]
         /\ \A q \in Node : u.parent[q] = IF q = p THEN n ELSE IF q = n THEN g ELSE v.parent[q]
<1>1. /\ u \in Tree
      /\ u[s] = [v[s] EXCEPT ![n] = p] /\ u[Other(s)] = [v[Other(s)] EXCEPT ![p] = m]
      /\ u.parent = [v.parent EXCEPT ![p] = n, ![n] = g] /\ u.root = v.root /\ u.red = v.red
  BY DEF Side, Tree, Other, Link, PutTurn
<1>2. \A a \in Side : v[a] \in [Node -> Link]
  BY DEF Side, Tree
<1>3. v.parent \in [Node -> Link]
  BY DEF Tree
<1>4. ASSUME NEW a \in Side, NEW q \in Node
      PROVE u[a][q] = IF a = s /\ q = n THEN p ELSE IF a = Other(s) /\ q = p THEN m ELSE v[a][q]
  <2>1. CASE a = s
    BY <1>1, <1>2, <2>1, Sides
  <2>2. CASE a = Other(s)
    BY <1>1, <1>2, <2>2, Sides
  <2> QED BY <2>1, <2>2, Sides
<1>5. ASSUME NEW q \in Node
      PROVE u.parent[q] = IF q = p THEN n ELSE IF q = n THEN g ELSE v.parent[q]
  BY <1>1, <1>3
<1> QED BY <1>1, <1>4, <1>5

(* Hang replaces p by n below p's parent, or at the root. *)
LEMMA HangAt ==
  ASSUME NEW t, NEW F, NEW pos, NEW bd, NEW hi, Framed(t, F, pos, bd, hi),
         NEW p, p \in F, NEW n, n \in Link, NEW u, u = Hang(t, t.parent[p], p, n)
  PROVE  /\ u \in Tree /\ u.red = t.red /\ u.parent = t.parent
         /\ u.root = IF p = t.root THEN n ELSE t.root
         /\ \A a \in Side, q \in Node : u[a][q] = IF t[a][q] = p THEN n ELSE t[a][q]
<1>1. t \in Tree /\ p # Null /\ Null \notin Node /\ F \subseteq Node
  BY DEF Framed
<1>2. ASSUME NEW a \in Side, NEW q \in Node, t[a][q] = p PROVE q \in F /\ t.parent[p] = q /\ SideOf(t, p) = a
  <2>1. q \in F
    BY <1>1, <1>2 DEF Framed, Unlinked1
  <2> QED BY <1>1, <1>2, <2>1, KidSide, SideOfKid
<1>3. CASE t.parent[p] = Null
  <2>1. p = t.root
    BY <1>3 DEF Framed, Placed
  <2>2. u = PutRoot(t, n)
    BY <1>3 DEF Hang, PutRoot
  <2>3. \A a \in Side, q \in Node : t[a][q] # p
    BY <1>1, <1>2, <1>3, FramedTypes
  <2> QED BY <1>1, <2>1, <2>2, <2>3, PutRootAt
<1>4. CASE t.parent[p] # Null
  <2>1. t.parent[p] \in Node /\ p # t.root
    BY <1>1, <1>4 DEF Framed, Placed
  <2>2. PICK s \in Side : t[s][t.parent[p]] = p
    BY <1>4 DEF Framed, Placed
  <2>3. SideOf(t, p) = s
    BY <1>2, <2>1, <2>2
  <2>4. u = PutKid(t, s, t.parent[p], n)
    BY <1>4, <2>3 DEF Hang, PutKid
  <2>5. \A a \in Side, q \in Node : t[a][q] = p <=> a = s /\ q = t.parent[p]
    BY <1>2, <2>2, <2>3
  <2> QED BY <1>1, <2>1, <2>4, <2>5, PutKidAt
<1> QED BY <1>3, <1>4

(* A rotation, pointer by pointer.                                         *)
LEMMA RotateAt ==
  ASSUME NEW t, NEW F, NEW pos, NEW bd, NEW hi, Framed(t, F, pos, bd, hi),
         NEW s, s \in Side, NEW p, p \in F, NEW n, n = t[Other(s)][p], n # Null
  PROVE  Turned(t, s, p, n, Rotate(t, s, p)) /\ Rotate(t, s, p).red = t.red
<1> DEFINE m == t[s][n]
           g == t.parent[p]
           u == Hang(t, g, p, n)
           v == IF m = Null THEN u ELSE PutParent(u, m, p)
           r == PutTurn(v, s, p, n, m, g)
<1>0. Rotate(t, s, p) = r
  BY DEF Rotate, PutParent, PutTurn
<1>1. /\ Other(s) \in Side /\ Other(s) # s /\ Other(Other(s)) = s
      /\ \A a \in Side : a = s \/ a = Other(s)
  BY Sides
<1>2. /\ n \in F /\ n \in Node /\ n # p /\ p \in Node /\ t.parent[n] = p
      /\ g \in Link /\ m \in Link /\ n \in Link /\ p \in Link
  BY <1>1, KidSide, FramedTypes DEF Link
<1>3. m # Null => m \in Node /\ t.parent[m] = n /\ m # n
  BY <1>2, KidSide
<1>4. m # p
  <2> SUFFICES ASSUME m = p PROVE FALSE
    OBVIOUS
  <2>1. p # Null /\ pos[p] \in Nat /\ pos[n] \in Nat
    BY <1>2, FramedTypes
  <2>2. bd[Other(s)][n] = bd[Other(s)][p] /\ bd[Other(s)][p] = pos[n]
    BY <1>1, <1>2, <2>1, KidSide
  <2>3. bd["left"][n] < pos[n] /\ pos[n] < bd["right"][n]
    BY <1>2 DEF Framed, Spaced
  <2>4. bd["left"][n] \in Nat /\ bd["right"][n] \in Nat
    BY <1>2, FramedTypes, Sides
  <2>5. Other(s) = "left" \/ Other(s) = "right"
    BY <1>1 DEF Side
  <2> QED BY <2>1, <2>2, <2>3, <2>4, <2>5
<1>5. /\ u \in Tree /\ u.red = t.red /\ u.parent = t.parent
      /\ u.root = IF p = t.root THEN n ELSE t.root
      /\ \A a \in Side, q \in Node : u[a][q] = IF t[a][q] = p THEN n ELSE t[a][q]
  <2> HIDE DEF m, r, v
  <2> QED BY <1>2, HangAt
<1> HIDE DEF u
<1>6. /\ v \in Tree /\ v.red = t.red /\ v.root = u.root
      /\ \A q \in Node : v.parent[q] = IF q = m THEN p ELSE t.parent[q]
      /\ \A a \in Side, q \in Node : v[a][q] = u[a][q]
  <2>1. CASE m = Null
    <3>1. \A q \in Node : q # m
      BY <2>1 DEF Framed
    <3> QED BY <1>5, <2>1, <3>1
  <2>2. CASE m # Null
    <3>1. v = PutParent(u, m, p)
      BY <2>2
    <3>2. u \in Tree /\ m \in Node /\ p \in Link
      BY <1>2, <1>3, <1>5, <2>2
    <3> HIDE DEF m, v
    <3>3. /\ v \in Tree /\ v.red = u.red /\ v.root = u.root
          /\ \A q \in Node : v.parent[q] = IF q = m THEN p ELSE u.parent[q]
          /\ \A a \in Side, q \in Node : v[a][q] = u[a][q]
      BY <3>1, <3>2, PutParentAt
    <3> QED BY <1>5, <3>3
  <2> QED BY <2>1, <2>2
<1> HIDE DEF v
<1>7. /\ r \in Tree /\ r.root = v.root /\ r.red = v.red
      /\ \A a \in Side, q \in Node :
           r[a][q] = IF a = s /\ q = n THEN p ELSE IF a = Other(s) /\ q = p THEN m ELSE v[a][q]
      /\ \A q \in Node : r.parent[q] = IF q = p THEN n ELSE IF q = n THEN g ELSE v.parent[q]
  <2>1. v \in Tree /\ p \in Node /\ n \in Node /\ m \in Link /\ g \in Link /\ p # n
    BY <1>2, <1>6
  <2> HIDE DEF m, g
  <2>2. r = PutTurn(v, s, p, n, m, g)
    OBVIOUS
  <2> HIDE DEF r
  <2>3. s \in Side
    OBVIOUS
  <2> HIDE DEF v
  <2> QED BY ONLY Z3, <2>1, <2>2, <2>3, PutTurnAt
<1> HIDE DEF r
<1>8. ASSUME NEW a \in Side, NEW q \in Node
      PROVE  r[a][q] = IF q = n THEN (IF a = s THEN p ELSE t[a][n])
                       ELSE IF q = p THEN (IF a = s THEN t[s][p] ELSE t[s][n])
                       ELSE IF t[a][q] = p THEN n ELSE t[a][q]
  <2>1. r[a][q] = IF a = s /\ q = n THEN p ELSE IF a = Other(s) /\ q = p THEN m
                  ELSE IF t[a][q] = p THEN n ELSE t[a][q]
    BY <1>5, <1>6, <1>7
  <2>2. t[a][n] # p
    <3> SUFFICES ASSUME t[a][n] = p PROVE FALSE
      OBVIOUS
    <3>1. a = Other(s)
      BY <1>1, <1>4
    <3>2. p # Null /\ pos[n] \in Nat
      BY <1>2, FramedTypes
    <3>3. bd[s][p] = pos[n] /\ bd[s][n] = pos[p] /\ bd[Other(s)][n] = bd[Other(s)][p] /\ t.parent[p] = n
      BY <1>1, <1>2, <3>1, <3>2, KidSide
    <3>4. bd["left"][p] < pos[p] /\ pos[p] < bd["right"][p] /\ bd["left"][n] < pos[n] /\ pos[n] < bd["right"][n]
      BY <1>2 DEF Framed, Spaced
    <3>5. s = "left" \/ s = "right"
      BY DEF Side
    <3>6. pos[n] \in Nat /\ pos[p] \in Nat
      BY <1>2, FramedTypes
    <3> QED BY <3>3, <3>4, <3>5, <3>6
  <2>3. t[s][p] # p
    <3>1. p # Null
      BY <1>2, FramedTypes
    <3> QED BY KidSide, <3>1
  <2> QED BY <1>1, <1>2, <2>1, <2>2, <2>3 DEF m
<1>9. ASSUME NEW q \in Node
      PROVE  r.parent[q] = IF q = p THEN n ELSE IF q = n THEN t.parent[p]
                           ELSE IF q = t[s][n] THEN p ELSE t.parent[q]
  BY <1>6, <1>7 DEF m, g
<1>10. r.root = IF p = t.root THEN n ELSE t.root
  BY <1>5, <1>6, <1>7
<1>11. r \in Tree /\ r.red = t.red
  BY <1>6, <1>7
<1>12. Turned(t, s, p, n, r)
  BY <1>8, <1>9, <1>10, <1>11 DEF Turned
<1> QED BY <1>0, <1>11, <1>12

-----------------------------------------------------------------------------
(* Rotations keep bounds.                                                  *)

(* The bounds after p was turned down to side s below n. *)
Raised(bd, pos, s, p, n) ==
  [a \in Side |-> [q \in Node |-> IF q = n THEN bd[a][p]
                                  ELSE IF q = p /\ a = Other(s) THEN pos[n] ELSE bd[a][q]]]

(* The nodes that a turn moves are different ones. *)
LEMMA TurnApart ==
  ASSUME NEW t, NEW F, NEW pos, NEW bd, NEW hi, Framed(t, F, pos, bd, hi),
         NEW s, s \in Side, NEW p, p \in F, NEW n, n = t[Other(s)][p], n # Null
  PROVE  /\ n \in F /\ n # p /\ t.parent[n] = p
         /\ \A a \in Side : t[a][n] # p /\ t[a][n] # n /\ t[a][p] # p
         /\ t[s][p] # n
         /\ \A q \in F, a \in Side : t[a][q] = n => q = p
         /\ \A q \in F, a \in Side : t[a][q] # Null /\ t[a][q] = t[s][n] => q = n
         /\ t[s][n] # Null => t[Other(s)][n] # t[s][n]
<1>1. /\ Other(s) \in Side /\ Other(s) # s /\ Other(Other(s)) = s
      /\ \A a \in Side : a = s \/ a = Other(s)
  BY Sides
<1>2. /\ n \in F /\ n # p /\ t.parent[n] = p /\ p # Null
      /\ bd[Other(s)][n] = bd[Other(s)][p] /\ bd[s][n] = pos[p]
  BY <1>1, KidSide, FramedTypes
<1>3. \A a \in Side : t[a][n] # n /\ t[a][p] # p
  BY <1>2, KidSide
<1>4. ASSUME NEW a \in Side, t[a][n] = p PROVE FALSE
  <2>1. pos[n] \in Nat /\ pos[p] \in Nat
    BY <1>2, FramedTypes
  <2>2. bd[a][p] = bd[a][n] /\ bd[Other(a)][p] = pos[n]
    BY <1>2, <1>4, KidSide
  <2>3. bd["left"][p] < pos[p] /\ pos[p] < bd["right"][p] /\ bd["left"][n] < pos[n] /\ pos[n] < bd["right"][n]
    BY <1>2 DEF Framed, Spaced
  <2>4. Other(s) = "left" \/ Other(s) = "right"
    BY <1>1 DEF Side
  <2>5. CASE a = s
    BY <1>1, <1>2, <2>1, <2>2, <2>3, <2>4, <2>5
  <2>6. CASE a = Other(s)
    <3>1. s = "left" \/ s = "right"
      BY DEF Side
    <3>2. bd[s][p] = pos[n] /\ bd[s][n] = pos[p]
      BY <1>1, <1>2, <2>2, <2>6
    <3> QED BY <2>1, <2>3, <3>1, <3>2
  <2> QED BY <1>1, <2>5, <2>6
<1>5. t[s][p] # n
  BY <1>1, <1>2, SideOfKid
<1>6. \A q \in F, a \in Side : t[a][q] = n => q = p
  BY <1>2, KidSide
<1>7. \A q \in F, a \in Side : t[a][q] # Null /\ t[a][q] = t[s][n] => q = n
  BY <1>2, KidSide
<1>8. t[s][n] # Null => t[Other(s)][n] # t[s][n]
  BY <1>2, SideOfKid
<1> QED BY <1>2, <1>3, <1>4, <1>5, <1>6, <1>7, <1>8

(* A rotation keeps all nodes, linked and between bounds: only the bounds  *)
(* of p and n change.                                                      *)
LEMMA TurnedFramed ==
  ASSUME NEW t, NEW F, NEW pos, NEW bd, NEW hi, Framed(t, F, pos, bd, hi),
         NEW s, s \in Side, NEW p, p \in F, NEW n, n = t[Other(s)][p], n # Null,
         NEW r, Turned(t, s, p, n, r), r.red \subseteq F
  PROVE  Framed(r, F, pos, Raised(bd, pos, s, p, n), hi)
<1> DEFINE e == Raised(bd, pos, s, p, n)
           m == t[s][n]
<1>1. /\ Other(s) \in Side /\ Other(s) # s /\ Other(Other(s)) = s
      /\ \A a \in Side : a = s \/ a = Other(s)
      /\ \A a \in Side : Other(a) \in Side
  BY Sides
<1>2. /\ n \in F /\ n # p /\ t.parent[n] = p
      /\ \A a \in Side : t[a][n] # p /\ t[a][n] # n /\ t[a][p] # p
      /\ t[s][p] # n
      /\ \A q \in F, a \in Side : t[a][q] = n => q = p
      /\ \A q \in F, a \in Side : t[a][q] # Null /\ t[a][q] = m => q = n
      /\ m # Null => t[Other(s)][n] # m
  BY TurnApart
<1>3. /\ Null \notin Node /\ t \in Tree /\ F \subseteq Node /\ t.red \subseteq F
      /\ t.root \in F \cup {Null} /\ (t.root # Null => t.parent[t.root] = Null)
  BY DEF Framed
<1>4. /\ \A a \in Side, q \in Node : t[a][q] \in Link /\ bd[a][q] \in Nat
      /\ \A q \in Node : t.parent[q] \in Link /\ pos[q] \in Nat
      /\ Null \notin F /\ n \in Node /\ p \in Node
  BY <1>2, <1>3, FramedTypes
<1>e. /\ e \in [Side -> [Node -> Nat]]
      /\ \A a \in Side, q \in Node :
           e[a][q] = IF q = n THEN bd[a][p]
                     ELSE IF q = p /\ a = Other(s) THEN pos[n] ELSE bd[a][q]
  BY <1>4 DEF Raised
<1>r. /\ r \in Tree
      /\ r.root = IF p = t.root THEN n ELSE t.root
      /\ \A a \in Side, q \in Node :
           r[a][q] = IF q = n THEN (IF a = s THEN p ELSE t[a][n])
                     ELSE IF q = p THEN (IF a = s THEN t[s][p] ELSE m)
                     ELSE IF t[a][q] = p THEN n ELSE t[a][q]
      /\ \A q \in Node :
           r.parent[q] = IF q = p THEN n ELSE IF q = n THEN t.parent[p]
                         ELSE IF q = m THEN p ELSE t.parent[q]
  BY DEF Turned
<1>k. \A q \in F, a \in Side : t[a][q] # Null =>
        /\ t[a][q] \in F /\ t.parent[t[a][q]] = q
        /\ bd[a][t[a][q]] = bd[a][q] /\ bd[Other(a)][t[a][q]] = pos[q]
  BY KidSide
<1>n. bd[Other(s)][n] = bd[Other(s)][p] /\ bd[s][n] = pos[p]
  BY <1>1, <1>k
<1> HIDE DEF e
<1>5. ASSUME NEW q \in F, NEW a \in Side PROVE KidFits(r, F, pos, e, q, a)
  <2>0. q \in Node /\ q # Null /\ Null \notin F
    BY <1>3, <1>4
  <2>1. CASE q = n /\ a = s
    <3>1. r[a][q] = p /\ r.parent[p] = n
      BY <1>4, <1>r, <2>0, <2>1
    <3>2. e[s][p] = bd[s][p] /\ e[Other(s)][p] = pos[n] /\ e[s][n] = bd[s][p]
      BY <1>1, <1>2, <1>4, <1>e
    <3> QED BY <2>1, <3>1, <3>2 DEF KidFits
  <2>2. CASE q = n /\ a = Other(s)
    <3> DEFINE c == t[Other(s)][n]
    <3>1. r[a][q] = c
      BY <1>1, <1>4, <1>r, <2>0, <2>2
    <3>2. c # Null => c \in F /\ c \in Node /\ c # p /\ c # n /\ c # m
      BY <1>1, <1>2, <1>3, <1>k, <2>2
    <3>3. c # Null => r.parent[c] = n
      BY <1>1, <1>2, <1>r, <1>k, <3>2
    <3>4. c # Null => e[a][c] = e[a][n] /\ e[s][c] = pos[n]
      BY <1>1, <1>2, <1>4, <1>e, <1>k, <1>n, <2>2, <3>2
    <3> HIDE DEF c
    <3>5. Other(a) = s
      BY <1>1, <2>2
    <3> QED BY <2>2, <3>1, <3>2, <3>3, <3>4, <3>5 DEF KidFits
  <2>3. CASE q = p /\ a = s
    <3> DEFINE c == t[s][p]
    <3>1. r[a][q] = c
      BY <1>2, <1>4, <1>r, <2>3
    <3>2. c # Null => c \in F /\ c \in Node /\ c # p /\ c # n /\ c # m
      BY <1>1, <1>2, <1>3, <1>k, <2>3
    <3>3. c # Null => r.parent[c] = p
      BY <1>r, <1>k, <2>3, <3>2
    <3>4. c # Null => e[s][c] = e[s][p] /\ e[Other(s)][c] = pos[p]
      BY <1>1, <1>2, <1>4, <1>e, <1>k, <2>3, <3>2
    <3> HIDE DEF c
    <3> QED BY <2>3, <3>1, <3>2, <3>3, <3>4 DEF KidFits
  <2>4. CASE q = p /\ a = Other(s)
    <3>1. r[a][q] = m
      BY <1>1, <1>2, <1>4, <1>r, <2>4
    <3>2. m # Null => m \in F /\ m \in Node /\ m # p /\ m # n
      BY <1>2, <1>3, <1>k
    <3>3. m # Null => r.parent[m] = p
      BY <1>r, <3>2
    <3>4. m # Null => e[Other(s)][m] = e[Other(s)][p] /\ e[s][m] = pos[p]
      <4> SUFFICES ASSUME m # Null PROVE e[Other(s)][m] = e[Other(s)][p] /\ e[s][m] = pos[p]
        OBVIOUS
      <4>1. bd[s][m] = bd[s][n] /\ bd[Other(s)][m] = pos[n]
        BY <1>2, <1>k
      <4> HIDE DEF m
      <4>2. e[Other(s)][m] = bd[Other(s)][m] /\ e[s][m] = bd[s][m] /\ e[Other(s)][p] = pos[n]
        BY <1>1, <1>2, <1>4, <1>e, <3>2
      <4> QED BY <1>n, <4>1, <4>2
    <3>5. Other(a) = s
      BY <1>1, <2>4
    <3> HIDE DEF m
    <3> QED BY <2>4, <3>1, <3>2, <3>3, <3>4, <3>5 DEF KidFits
  <2>5. CASE q # n /\ q # p /\ t[a][q] = p
    <3>1. r[a][q] = n
      BY <1>r, <2>0, <2>5
    <3>2. r.parent[n] = q
      BY <1>2, <1>4, <1>r, <1>k, <2>5
    <3>3. e[a][n] = e[a][q] /\ e[Other(a)][n] = pos[q]
      BY <1>1, <1>4, <1>e, <1>k, <2>0, <2>5
    <3> QED BY <1>2, <3>1, <3>2, <3>3 DEF KidFits
  <2>6. CASE q # n /\ q # p /\ t[a][q] # p
    <3> DEFINE c == t[a][q]
    <3>1. r[a][q] = c
      BY <1>r, <2>0, <2>6
    <3>2. c # Null => c \in F /\ c \in Node /\ c # p /\ c # n /\ c # m
      BY <1>2, <1>3, <1>k, <2>6
    <3>3. c # Null => r.parent[c] = q
      BY <1>r, <1>k, <3>2
    <3>4. c # Null => e[a][c] = e[a][q] /\ e[Other(a)][c] = pos[q]
      BY <1>1, <1>e, <1>k, <2>0, <2>6, <3>2
    <3> HIDE DEF c
    <3>5. c \in F \cup {Null}
      BY <3>2
    <3> QED BY <3>1, <3>2, <3>3, <3>4, <3>5 DEF KidFits
  <2> QED BY <1>1, <2>1, <2>2, <2>3, <2>4, <2>5, <2>6
<1>6. ASSUME NEW q \in F PROVE Spaced(pos, e, hi, q)
  <2>0. q \in Node /\ "left" \in Side /\ "right" \in Side /\ hi \in Nat
    BY <1>3, Sides DEF Framed
  <2>1. \A x \in F : bd["left"][x] < pos[x] /\ pos[x] < bd["right"][x] /\ bd["right"][x] <= hi
    BY DEF Framed, Spaced
  <2>2. /\ Other(s) = "left" => pos[n] < pos[p] /\ bd["left"][p] < pos[n]
        /\ Other(s) = "right" => pos[p] < pos[n] /\ pos[n] < bd["right"][p]
    BY <1>1, KidSide
  <2>3. Other(s) = "left" \/ Other(s) = "right"
    BY <1>1 DEF Side
  <2>n. /\ bd["left"][p] \in Nat /\ bd["right"][p] \in Nat /\ pos[p] \in Nat /\ pos[n] \in Nat
        /\ bd["left"][q] \in Nat /\ bd["right"][q] \in Nat /\ pos[q] \in Nat
    BY <1>4, <2>0
  <2>4. CASE q = n
    <3>1. e["left"][q] = bd["left"][p] /\ e["right"][q] = bd["right"][p]
      BY <1>e, <2>0, <2>4
    <3> QED BY <2>0, <2>1, <2>2, <2>3, <2>4, <2>n, <3>1 DEF Spaced
  <2>5. CASE q = p
    <3>1. /\ e["left"][q] = IF Other(s) = "left" THEN pos[n] ELSE bd["left"][p]
          /\ e["right"][q] = IF Other(s) = "right" THEN pos[n] ELSE bd["right"][p]
      BY <1>2, <1>e, <2>0, <2>5
    <3> QED BY <2>0, <2>1, <2>2, <2>3, <2>5, <2>n, <3>1 DEF Spaced
  <2>6. CASE q # n /\ q # p
    <3>1. e["left"][q] = bd["left"][q] /\ e["right"][q] = bd["right"][q]
      BY <1>e, <2>0, <2>6
    <3> QED BY <2>1, <3>1 DEF Spaced
  <2> QED BY <2>4, <2>5, <2>6
<1>7. ASSUME NEW q \in F PROVE Placed(r, F, q)
  <2>0. q \in Node /\ q # Null /\ Null \notin F
    BY <1>3, <1>4
  <2>1. \A x \in F : /\ t.parent[x] = Null => x = t.root
                     /\ t.parent[x] # Null => t.parent[x] \in F /\ \E a \in Side : t[a][t.parent[x]] = x
    BY DEF Framed, Placed
  <2>2. CASE q = p
    <3>1. r.parent[q] = n /\ r[s][n] = p
      BY <1>4, <1>r, <2>2
    <3> QED BY <1>2, <2>2, <3>1 DEF Placed
  <2>3. CASE q = n
    <3>1. r.parent[q] = t.parent[p]
      BY <1>2, <1>4, <1>r, <2>3
    <3>2. CASE t.parent[p] = Null
      <4>1. p = t.root /\ r.root = n
        BY <1>r, <2>1, <3>2
      <4> QED BY <2>3, <3>1, <3>2, <4>1 DEF Placed
    <3>3. CASE t.parent[p] # Null
      <4>1. PICK a \in Side : t[a][t.parent[p]] = p
        BY <2>1, <3>3
      <4>2. t.parent[p] \in F /\ t.parent[p] \in Node /\ t.parent[p] # n /\ t.parent[p] # p
        BY <1>2, <1>3, <2>1, <3>3, <4>1
      <4>3. r[a][t.parent[p]] = n
        BY <1>r, <4>1, <4>2
      <4> QED BY <2>3, <3>1, <3>3, <4>2, <4>3 DEF Placed
    <3> QED BY <3>2, <3>3
  <2>4. CASE q = m
    <3>1. q # p /\ q # n
      BY <1>2, <2>4
    <3>2. r.parent[q] = p /\ r[Other(s)][p] = m
      BY <1>1, <1>2, <1>4, <1>r, <2>0, <2>4, <3>1
    <3> QED BY <1>1, <2>0, <2>4, <3>2 DEF Placed
  <2>5. CASE q # p /\ q # n /\ q # m
    <3>1. r.parent[q] = t.parent[q]
      BY <1>r, <2>0, <2>5
    <3>2. CASE t.parent[q] = Null
      <4>1. q = t.root /\ r.root = q
        BY <1>r, <2>1, <2>5, <3>2
      <4> QED BY <3>1, <3>2, <4>1 DEF Placed
    <3>3. CASE t.parent[q] # Null
      <4>1. PICK a \in Side : t[a][t.parent[q]] = q
        BY <2>1, <3>3
      <4>2. t.parent[q] \in F /\ t.parent[q] \in Node
        BY <1>3, <2>1, <3>3
      <4>3. CASE t.parent[q] = p
        <5>1. a = s
          BY <1>1, <2>5, <4>1, <4>3
        <5>2. r[s][p] = q
          BY <1>2, <1>4, <1>r, <4>1, <4>3, <5>1
        <5> QED BY <3>1, <3>3, <4>2, <4>3, <5>2 DEF Placed
      <4>4. CASE t.parent[q] = n
        <5>1. a = Other(s)
          BY <1>1, <2>5, <4>1, <4>4
        <5>2. r[a][n] = q
          BY <1>1, <1>4, <1>r, <4>1, <4>4, <5>1
        <5> QED BY <3>1, <3>3, <4>2, <4>4, <5>2 DEF Placed
      <4>5. CASE t.parent[q] # p /\ t.parent[q] # n
        <5>1. r[a][t.parent[q]] = q
          BY <1>r, <2>5, <4>1, <4>2, <4>5
        <5> QED BY <3>1, <3>3, <4>2, <5>1 DEF Placed
      <4> QED BY <4>3, <4>4, <4>5
    <3> QED BY <3>2, <3>3
  <2> QED BY <2>2, <2>3, <2>4, <2>5
<1>8. ASSUME NEW q \in Node \ F PROVE Unlinked1(r, q)
  <2>1. t.parent[q] = Null /\ \A a \in Side : t[a][q] = Null
    BY DEF Framed, Unlinked1
  <2>2. q # n /\ q # p /\ q # Null /\ q \in Node
    BY <1>2, <1>3
  <2>3. q # m
    <3>1. m # Null => m \in F
      BY <1>2, <1>k
    <3> QED BY <2>2, <3>1
  <2>4. r.parent[q] = Null
    BY <1>r, <2>1, <2>2, <2>3
  <2>5. \A a \in Side : r[a][q] = Null
    BY <1>3, <1>4, <1>r, <2>1, <2>2
  <2> QED BY <2>4, <2>5 DEF Unlinked1
<1>9. r.root \in F \cup {Null} /\ (r.root # Null => r.parent[r.root] = Null)
  <2>1. CASE p = t.root
    <3>1. r.root = n /\ r.parent[n] = t.parent[p] /\ t.parent[p] = Null
      BY <1>2, <1>3, <1>4, <1>r, <2>1
    <3> QED BY <1>2, <3>1
  <2>2. CASE p # t.root
    <3>1. r.root = t.root
      BY <1>r, <2>2
    <3>2. t.root # Null => t.root \in Node /\ t.root # n /\ t.root # m
      <4>1. m # Null => t.parent[m] = n
        BY <1>2, <1>k
      <4>2. p # Null /\ n # Null
        BY <1>4
      <4> QED BY <1>2, <1>3, <4>1, <4>2
    <3>3. t.root # Null => r.parent[t.root] = Null
      BY <1>3, <1>r, <2>2, <3>2
    <3> QED BY <1>3, <3>1, <3>3
  <2> QED BY <2>1, <2>2
<1>10. pos \in [Node -> Nat] /\ hi \in Nat /\ r \in Tree /\ r.red \subseteq F
  BY <1>3, <1>r DEF Framed
<1> QED BY <1>3, <1>e, <1>5, <1>6, <1>7, <1>8, <1>9, <1>10 DEF Framed, e

-----------------------------------------------------------------------------
(* Colours and black heights.                                              *)

One(b) == IF b THEN 1 ELSE 0

(* q's kid on side a is as high as q wants it. *)
Level(t, bh, W, S, q, a) ==
  bh[q] = bh[t[a][q]] + One(t[a][q] \in S) + One(q \notin W)
(* Black heights: equally many nodes outside W on all paths down from a    *)
(* node, where the subtrees of S miss one.                                 *)
Even(t, F, bh, W, S) ==
  /\ bh \in [Link -> Nat] /\ bh[Null] = 0
  /\ \A q \in F, a \in Side : Level(t, bh, W, S, q, a)

(* u is t but for colours. *)
SameLinks(t, u) ==
  /\ u \in Tree /\ u.root = t.root
  /\ \A q \in Node : u.parent[q] = t.parent[q]
  /\ \A a \in Side, q \in Node : u[a][q] = t[a][q]

(* Colouring changes no link.                                              *)
LEMMA ReddenAt ==
  ASSUME NEW t, t \in Tree, NEW p, p \in Link
  PROVE  SameLinks(t, Redden(t, p)) /\ Redden(t, p).red = t.red \cup ({p} \ {Null})
<1>1. t.red \cup ({p} \ {Null}) \subseteq Node
  BY DEF Tree, Link
<1> QED BY <1>1 DEF SameLinks, Redden, Tree, Side

LEMMA BlackenAt ==
  ASSUME NEW t, t \in Tree, NEW p
  PROVE  SameLinks(t, Blacken(t, p)) /\ Blacken(t, p).red = t.red \ {p}
<1>1. t.red \ {p} \subseteq Node
  BY DEF Tree
<1> QED BY <1>1 DEF SameLinks, Blacken, Tree, Side

LEMMA SameLinksTrans ==
  ASSUME NEW t, NEW u, NEW v, SameLinks(t, u), SameLinks(u, v)
  PROVE  SameLinks(t, v)
BY DEF SameLinks

(* What is not about colours is kept by colouring.                         *)
LEMMA RecolouredFramed ==
  ASSUME NEW t, NEW F, NEW pos, NEW bd, NEW hi, Framed(t, F, pos, bd, hi),
         NEW u, SameLinks(t, u), u.red \subseteq F
  PROVE  Framed(u, F, pos, bd, hi)
<1>1. F \subseteq Node /\ Null \notin Node /\ t.root \in F \cup {Null}
  BY DEF Framed
<1>2. ASSUME NEW q \in F, NEW a \in Side PROVE KidFits(u, F, pos, bd, q, a)
  <2>1. q \in Node /\ KidFits(t, F, pos, bd, q, a)
    BY <1>1 DEF Framed
  <2> QED BY <1>1, <2>1 DEF KidFits, SameLinks
<1>3. ASSUME NEW q \in F PROVE Placed(u, F, q)
  <2>1. q \in Node /\ Placed(t, F, q)
    BY <1>1 DEF Framed
  <2> QED BY <1>1, <2>1 DEF Placed, SameLinks
<1>4. ASSUME NEW q \in Node \ F PROVE Unlinked1(u, q)
  BY DEF Framed, Unlinked1, SameLinks
<1> QED BY <1>1, <1>2, <1>3, <1>4 DEF Framed, SameLinks

LEMMA RecolouredEven ==
  ASSUME NEW t, NEW F, NEW pos, NEW bd, NEW hi, Framed(t, F, pos, bd, hi),
         NEW u, SameLinks(t, u), NEW bh, NEW W, NEW S, Even(t, F, bh, W, S)
  PROVE  Even(u, F, bh, W, S)
<1>1. F \subseteq Node
  BY DEF Framed
<1> QED BY <1>1 DEF Even, Level, SameLinks

(* A turn of a tree with other colours. *)
LEMMA RotateSame ==
  ASSUME NEW t, NEW F, NEW pos, NEW bd, NEW hi, Framed(t, F, pos, bd, hi),
         NEW u, SameLinks(t, u), u.red \subseteq F,
         NEW s, s \in Side, NEW p, p \in F, NEW n, n = t[Other(s)][p], n # Null
  PROVE  /\ Turned(t, s, p, n, Rotate(u, s, p))
         /\ Rotate(u, s, p).red = u.red
         /\ Framed(Rotate(u, s, p), F, pos, Raised(bd, pos, s, p, n), hi)
<1>1. Framed(u, F, pos, bd, hi)
  BY RecolouredFramed
<1>2. p \in Node /\ Other(s) \in Side /\ n \in Node
  <2>1. Other(s) \in Side
    BY Sides
  <2>2. n \in Node
    BY <2>1, KidSide
  <2> QED BY <2>1, <2>2 DEF Framed
<1>3. n = u[Other(s)][p]
  BY <1>2 DEF SameLinks
<1>4. Turned(u, s, p, n, Rotate(u, s, p)) /\ Rotate(u, s, p).red = u.red
  BY <1>1, <1>3, RotateAt
<1> DEFINE r == Rotate(u, s, p)
<1> HIDE DEF r
<1>5. Turned(u, s, p, n, r) => Turned(t, s, p, n, r)
  BY <1>2 DEF Turned, SameLinks
<1>6. Turned(t, s, p, n, r)
  BY <1>4, <1>5 DEF r
<1>7. Framed(r, F, pos, Raised(bd, pos, s, p, n), hi)
  BY <1>4, <1>6, TurnedFramed DEF r
<1> QED BY <1>4, <1>6, <1>7 DEF r

(* A red node is turned up over a black one, and they exchange colours. *)
LEMMA ExchangeEven ==
  ASSUME NEW t, NEW F, NEW pos, NEW bd, NEW hi, Framed(t, F, pos, bd, hi),
         NEW s, s \in Side, NEW p, p \in F, NEW n, n = t[Other(s)][p], n # Null,
         NEW r, Turned(t, s, p, n, r),
         NEW bh, NEW W, NEW S, Even(t, F, bh, W, S), p \notin W, n \in W, p \notin S, n \notin S
  PROVE  Even(r, F, [bh EXCEPT ![n] = bh[p], ![p] = bh[n]], (W \ {n}) \cup {p}, S)
<1> DEFINE b == [bh EXCEPT ![n] = bh[p], ![p] = bh[n]]
           V == (W \ {n}) \cup {p}
           m == t[s][n]
<1>1. /\ Other(s) \in Side /\ Other(s) # s /\ Other(Other(s)) = s
      /\ \A a \in Side : a = s \/ a = Other(s)
  BY Sides
<1>2. /\ n \in F /\ n # p /\ t.parent[n] = p
      /\ \A a \in Side : t[a][n] # p /\ t[a][n] # n /\ t[a][p] # p
      /\ t[s][p] # n
      /\ \A q \in F, a \in Side : t[a][q] = n => q = p
  BY TurnApart
<1>3. /\ Null \notin F /\ F \subseteq Node /\ n \in Node /\ p \in Node
      /\ \A a \in Side, q \in Node : t[a][q] \in Link
  BY <1>2, FramedTypes DEF Framed
<1>4. /\ bh \in [Link -> Nat] /\ bh[Null] = 0
      /\ \A q \in F, a \in Side : bh[q] = bh[t[a][q]] + One(t[a][q] \in S) + One(q \notin W)
  BY DEF Even, Level
<1>5. /\ b \in [Link -> Nat] /\ b[Null] = 0 /\ b[n] = bh[p] /\ b[p] = bh[n]
      /\ \A q \in Link : q # n /\ q # p => b[q] = bh[q]
  <2>1. n \in Link /\ p \in Link /\ Null \in Link /\ n # Null /\ p # Null
    BY <1>2, <1>3 DEF Link
  <2> QED BY <1>2, <1>4, <2>1
<1>6. p \in V /\ n \notin V /\ \A q : q # n /\ q # p => (q \in V <=> q \in W)
  BY <1>2
<1> HIDE DEF b, V
<1>r. \A a \in Side, q \in Node :
           r[a][q] = IF q = n THEN (IF a = s THEN p ELSE t[a][n])
                     ELSE IF q = p THEN (IF a = s THEN t[s][p] ELSE m)
                     ELSE IF t[a][q] = p THEN n ELSE t[a][q]
  BY DEF Turned
<1>7. /\ bh[p] = bh[n] + 1 /\ bh[p] \in Nat /\ bh[n] \in Nat
      /\ \A a \in Side : bh[n] = bh[t[a][n]] + One(t[a][n] \in S)
      /\ \A a \in Side : bh[p] = bh[t[a][p]] + One(t[a][p] \in S) + 1
  <2>1. bh[p] \in Nat /\ bh[n] \in Nat /\ \A a \in Side : bh[t[a][n]] \in Nat /\ bh[t[a][p]] \in Nat
    BY <1>2, <1>3, <1>4 DEF Link
  <2>2. bh[p] = bh[n] + One(n \in S) + One(p \notin W)
    BY <1>1, <1>4
  <2>3. \A a \in Side : bh[n] = bh[t[a][n]] + One(t[a][n] \in S) + One(n \notin W)
    BY <1>2, <1>4
  <2>4. \A a \in Side : bh[p] = bh[t[a][p]] + One(t[a][p] \in S) + One(p \notin W)
    BY <1>4
  <2> QED BY <2>1, <2>2, <2>3, <2>4 DEF One
<1>8. ASSUME NEW q \in F, NEW a \in Side PROVE Level(r, b, V, S, q, a)
  <2>0. q \in Node /\ r[a][q] = IF q = n THEN (IF a = s THEN p ELSE t[a][n])
                     ELSE IF q = p THEN (IF a = s THEN t[s][p] ELSE m)
                     ELSE IF t[a][q] = p THEN n ELSE t[a][q]
    BY <1>3, <1>r
  <2>1. CASE q = n /\ a = s
    BY <1>5, <1>6, <1>7, <2>0, <2>1 DEF Level, One
  <2>2. CASE q = n /\ a = Other(s)
    <3>1. r[a][q] = t[a][n] /\ t[a][n] \in Link /\ b[t[a][n]] = bh[t[a][n]] /\ bh[t[a][n]] \in Nat
      BY <1>1, <1>2, <1>3, <1>4, <1>5, <2>0, <2>2
    <3>2. bh[n] = bh[t[a][n]] + One(t[a][n] \in S)
      BY <1>7
    <3>3. One(q \notin V) = 1 /\ b[q] = bh[n] + 1
      BY <1>5, <1>6, <1>7, <2>2 DEF One
    <3>4. One(t[a][n] \in S) \in Nat
      BY DEF One
    <3> QED BY <1>7, <3>1, <3>2, <3>3, <3>4 DEF Level
  <2>3. CASE q = p /\ a = s
    <3>1. r[a][q] = t[a][p] /\ t[a][p] \in Link /\ b[t[a][p]] = bh[t[a][p]] /\ bh[t[a][p]] \in Nat
      BY <1>1, <1>2, <1>3, <1>4, <1>5, <2>0, <2>3
    <3>2. bh[p] = bh[t[a][p]] + One(t[a][p] \in S) + 1
      BY <1>7
    <3> QED BY <1>5, <1>6, <1>7, <2>3, <3>1, <3>2 DEF Level, One
  <2>4. CASE q = p /\ a = Other(s)
    <3>1. r[a][q] = m /\ m \in Link /\ b[m] = bh[m] /\ bh[m] \in Nat
      BY <1>1, <1>2, <1>3, <1>4, <1>5, <2>0, <2>4
    <3>2. bh[n] = bh[m] + One(m \in S)
      BY <1>7
    <3> HIDE DEF m
    <3> QED BY <1>5, <1>6, <1>7, <2>4, <3>1, <3>2 DEF Level, One
  <2>5. CASE q # n /\ q # p
    <3>1. b[q] = bh[q] /\ (q \in V <=> q \in W)
      BY <1>3, <1>5, <1>6, <2>5 DEF Link
    <3>2. bh[q] = bh[t[a][q]] + One(t[a][q] \in S) + One(q \notin W)
      BY <1>4
    <3>3. CASE t[a][q] = p
      <4>1. r[a][q] = n
        BY <2>0, <2>5, <3>3
      <4> QED BY <1>5, <3>1, <3>2, <3>3, <4>1 DEF Level, One
    <3>4. CASE t[a][q] # p
      <4>1. r[a][q] = t[a][q] /\ t[a][q] # n /\ t[a][q] \in Link
        BY <1>2, <1>3, <2>0, <2>5, <3>4
      <4> QED BY <1>5, <3>1, <3>2, <3>4, <4>1 DEF Level, One
    <3> QED BY <3>3, <3>4
  <2> QED BY <1>1, <2>1, <2>2, <2>3, <2>4, <2>5
<1> QED BY <1>5, <1>8 DEF Even, b, V

(* A red node is turned up over a red one. *)
LEMMA RedTurnEven ==
  ASSUME NEW t, NEW F, NEW pos, NEW bd, NEW hi, Framed(t, F, pos, bd, hi),
         NEW s, s \in Side, NEW p, p \in F, NEW n, n = t[Other(s)][p], n # Null,
         NEW r, Turned(t, s, p, n, r),
         NEW bh, NEW W, Even(t, F, bh, W, {}), p \in W, n \in W
  PROVE  Even(r, F, bh, W, {})
<1>1. /\ Other(s) \in Side /\ Other(s) # s /\ Other(Other(s)) = s
      /\ \A a \in Side : a = s \/ a = Other(s)
  BY Sides
<1>2. n \in F
  BY TurnApart
<1>3. /\ Null \notin F /\ F \subseteq Node /\ n \in Node /\ p \in Node
      /\ \A a \in Side, q \in Node : t[a][q] \in Link
  BY <1>2, FramedTypes DEF Framed
<1>4. /\ bh \in [Link -> Nat] /\ bh[Null] = 0
      /\ \A q \in F, a \in Side : bh[q] = bh[t[a][q]] + One(q \notin W)
  <2>1. \A q \in F, a \in Side : bh[q] = bh[t[a][q]] + 0 + One(q \notin W)
    BY DEF Even, Level, One
  <2>2. bh \in [Link -> Nat] /\ bh[Null] = 0
    BY DEF Even
  <2>3. \A q \in F, a \in Side : bh[t[a][q]] \in Nat
    BY <1>3, <2>2
  <2> QED BY <2>1, <2>2, <2>3
<1>5. /\ bh[p] = bh[n] /\ \A a \in Side : bh[t[a][n]] = bh[n] /\ bh[t[a][p]] = bh[n]
  <2>1. \A a \in Side : bh[t[a][n]] \in Nat /\ bh[t[a][p]] \in Nat
    BY <1>3, <1>4
  <2>2. \A a \in Side : bh[n] = bh[t[a][n]] + 0 /\ bh[p] = bh[t[a][p]] + 0
    BY <1>2, <1>4 DEF One
  <2>3. bh[p] = bh[n] + 0
    BY <1>1, <2>2
  <2> QED BY <1>1, <2>1, <2>2, <2>3
<1>6. ASSUME NEW q \in F, NEW a \in Side PROVE Level(r, bh, W, {}, q, a)
  <2>1. r[a][q] = IF q = n THEN (IF a = s THEN p ELSE t[a][n])
                     ELSE IF q = p THEN (IF a = s THEN t[s][p] ELSE t[s][n])
                     ELSE IF t[a][q] = p THEN n ELSE t[a][q]
    BY <1>3 DEF Turned
  <2>2. bh[r[a][q]] = bh[t[a][q]]
    BY <1>1, <1>5, <2>1
  <2>3. bh[q] = bh[t[a][q]] + One(q \notin W) /\ bh[t[a][q]] \in Nat
    BY <1>3, <1>4
  <2> QED BY <2>2, <2>3 DEF Level, One
<1> QED BY <1>4, <1>6 DEF Even

-----------------------------------------------------------------------------
(* Balanced trees; insert_case5 and insert_case4.                          *)

(* No red node below a red one and a black root, but for bad.              *)
Colors(t, bad) ==
  /\ t.root \notin t.red \ bad
  /\ \A q \in t.red \ bad : t.parent[q] \notin t.red

(* A balanced tree of F. *)
Balanced(t, F, pos, hi) ==
  \E bd, bh : /\ Framed(t, F, pos, bd, hi) /\ Even(t, F, bh, t.red, {})
              /\ Colors(t, {})

LEMMA KidOfParent ==
  ASSUME NEW t, NEW F, NEW pos, NEW bd, NEW hi, Framed(t, F, pos, bd, hi),
         NEW x, x \in F, t.parent[x] # Null
  PROVE  /\ t.parent[x] \in F /\ t.parent[x] # x
         /\ SideOf(t, x) \in Side /\ t[SideOf(t, x)][t.parent[x]] = x
<1>1. x # Null
  BY FramedTypes
<1>2. PICK s \in Side : t[s][t.parent[x]] = x
  BY DEF Framed, Placed
<1>3. t.parent[x] \in F
  BY DEF Framed, Placed
<1> QED BY <1>1, <1>2, <1>3, KidSide, SideOfKid

(* insert_case5: the red node x below the red parent is on the outer side. *)
(* The parent, then black, takes the red grandparent's place.              *)
LEMMA InsertCase5Balances ==
  ASSUME NEW t, NEW F, NEW pos, NEW bd, NEW hi, Framed(t, F, pos, bd, hi),
         NEW bh, Even(t, F, bh, t.red, {}),
         NEW x, x \in t.red, Colors(t, {x}),
         NEW q, q = t.parent[x], q \in t.red, NEW g, g = t.parent[q],
         NEW a, a \in Side, t[a][q] = x, t[a][g] = q, t[Other(a)][g] \notin t.red
  PROVE  Balanced(InsertCase5(t, x), F, pos, hi)
<1> DEFINE u == Redden(Blacken(t, q), g)
           s == Other(a)
           r == Rotate(u, s, g)
<1>1. /\ t \in Tree /\ F \subseteq Node /\ Null \notin F /\ t.red \subseteq F
      /\ x \in F /\ q \in F /\ q # Null /\ x # Null
      /\ \A y \in F : t.parent[y] = Null => y = t.root
      /\ t.root # Null => t.parent[t.root] = Null
  BY FramedTypes DEF Framed, Placed
<1>2. q # x
  BY <1>1, KidOfParent
<1>3. q # t.root /\ g # Null /\ g \notin t.red
  BY <1>1, <1>2 DEF Colors
<1>4. g \in F /\ g # q /\ g # x
  BY <1>1, <1>3, KidOfParent
<1>5. SideOf(t, x) = a
  BY <1>1, SideOfKid
<1>6. s \in Side /\ Other(s) = a /\ s # a /\ \A y \in Side : y = s \/ y = a
  BY Sides
<1>7. InsertCase5(t, x) = r
  BY <1>5 DEF InsertCase5
<1>8. SameLinks(t, u) /\ u.red = (t.red \ {q}) \cup {g}
  <2>1. SameLinks(t, Blacken(t, q)) /\ Blacken(t, q).red = t.red \ {q}
    BY <1>1, BlackenAt
  <2>2. Blacken(t, q) \in Tree /\ g \in Link
    BY <1>1, <1>4, <2>1 DEF SameLinks, Link
  <2>3. SameLinks(Blacken(t, q), u) /\ u.red = Blacken(t, q).red \cup ({g} \ {Null})
    BY <2>2, ReddenAt
  <2> HIDE DEF u
  <2> QED BY <1>3, <2>1, <2>3, SameLinksTrans
<1> HIDE DEF u, s
<1>9. u.red \subseteq F
  BY <1>1, <1>4, <1>8
<1>10. /\ Turned(t, s, g, q, r) /\ r.red = u.red
       /\ Framed(r, F, pos, Raised(bd, pos, s, g, q), hi)
  BY <1>1, <1>4, <1>6, <1>8, <1>9, RotateSame
<1> HIDE DEF r
<1>11. \E b : Even(r, F, b, r.red, {})
  <2>1. Even(r, F, [bh EXCEPT ![q] = bh[g], ![g] = bh[q]], (t.red \ {q}) \cup {g}, {})
    BY <1>1, <1>3, <1>4, <1>6, <1>10, ExchangeEven
  <2> QED BY <1>8, <1>10, <2>1
<1>12. Colors(r, {})
  <2>1. /\ r.root = IF g = t.root THEN q ELSE t.root
        /\ \A y \in Node :
             r.parent[y] = IF y = g THEN q ELSE IF y = q THEN t.parent[g]
                           ELSE IF y = t[s][q] THEN g ELSE t.parent[y]
    BY <1>10 DEF Turned
  <2>2. r.root \notin r.red
    BY <1>1, <1>2, <1>3, <1>4, <1>8, <1>10, <2>1 DEF Colors
  <2>3. ASSUME NEW y \in r.red PROVE r.parent[y] \notin r.red
    <3>1. y \in F /\ y \in Node /\ y # q
      BY <1>1, <1>4, <1>8, <1>9, <1>10
    <3>2. CASE y = g
      BY <1>4, <1>8, <1>10, <2>1, <3>1, <3>2
    <3>3. CASE y # g
      <4>1. y \in t.red
        BY <1>8, <1>10, <3>3
      <4>2. y # t[s][q]
        <5> SUFFICES ASSUME y = t[s][q] PROVE FALSE
          OBVIOUS
        <5>1. t.parent[y] = q /\ y # x
          BY <1>1, <1>6, <3>1, KidSide, SideOfKid
        <5> QED BY <4>1, <5>1 DEF Colors
      <4>3. r.parent[y] = t.parent[y]
        BY <2>1, <3>1, <3>3, <4>2
      <4>4. t.parent[y] # g
        <5> SUFFICES ASSUME t.parent[y] = g PROVE FALSE
          OBVIOUS
        <5>1. SideOf(t, y) \in Side /\ t[SideOf(t, y)][g] = y
          BY <1>3, <3>1, KidOfParent
        <5> QED BY <1>6, <3>1, <4>1, <5>1 DEF s
      <4> QED BY <1>8, <1>10, <4>1, <4>3, <4>4 DEF Colors
    <3> QED BY <3>2, <3>3
  <2> QED BY <2>2, <2>3 DEF Colors
<1> QED BY <1>7, <1>10, <1>11, <1>12 DEF Balanced

(* insert_case4 turns the inner x up first.                                *)
LEMMA InsertCase4Balances ==
  ASSUME NEW t, NEW F, NEW pos, NEW bd, NEW hi, Framed(t, F, pos, bd, hi),
         NEW bh, Even(t, F, bh, t.red, {}),
         NEW x, x \in t.red, Colors(t, {x}),
         NEW q, q = t.parent[x], q \in t.red, Sibling(t, q) \notin t.red
  PROVE  Balanced(InsertCase4(t, x), F, pos, hi)
<1> DEFINE g == t.parent[q]
           s == SideOf(t, q)
<1>1. /\ t \in Tree /\ F \subseteq Node /\ Null \notin F /\ t.red \subseteq F
      /\ x \in F /\ q \in F /\ q # Null /\ x # Null /\ q \in Node /\ x \in Node
      /\ \A y \in F : t.parent[y] = Null => y = t.root
      /\ t.root # Null => t.parent[t.root] = Null
  BY FramedTypes DEF Framed, Placed
<1>2. q # x
  BY <1>1, KidOfParent
<1>3. q # t.root /\ g # Null /\ g \notin t.red
  BY <1>1, <1>2 DEF Colors
<1>4. g \in F /\ g # q /\ g # x /\ s \in Side /\ t[s][g] = q
  BY <1>1, <1>3, KidOfParent
<1>5. t[Other(s)][g] \notin t.red
  BY <1>3 DEF Sibling
<1>6. SideOf(t, x) \in Side /\ t[SideOf(t, x)][q] = x
  BY <1>1, KidOfParent
<1> HIDE DEF s
<1>7. CASE SideOf(t, x) = s
  <2>1. InsertCase4(t, x) = InsertCase5(t, x)
    BY <1>7 DEF InsertCase4, s
  <2> HIDE DEF g
  <2>2. Balanced(InsertCase5(t, x), F, pos, hi)
    BY <1>4, <1>5, <1>6, <1>7, InsertCase5Balances DEF g
  <2> QED BY <2>1, <2>2
<1>8. CASE SideOf(t, x) # s
  <2> DEFINE u == Rotate(t, s, q)
  <2>1. InsertCase4(t, x) = InsertCase5(u, q)
    BY <1>8 DEF InsertCase4, s
  <2>2. x = t[Other(s)][q]
    BY <1>4, <1>6, <1>8, Sides
  <2>4. /\ Turned(t, s, q, x, u) /\ u.red = t.red
        /\ Framed(u, F, pos, Raised(bd, pos, s, q, x), hi)
    <3>1. s \in Side /\ q \in F /\ x # Null /\ t.red \subseteq F
      BY <1>1, <1>4
    <3>2. Turned(t, s, q, x, Rotate(t, s, q)) /\ Rotate(t, s, q).red = t.red
      BY <2>2, <3>1, RotateAt
    <3> HIDE DEF u
    <3>3. Turned(t, s, q, x, u) /\ u.red = t.red
      BY <3>2 DEF u
    <3>4. u.red \subseteq F
      BY <3>1, <3>3
    <3> QED BY <2>2, <3>1, <3>3, <3>4, TurnedFramed
  <2> HIDE DEF u
  <2>5. Even(u, F, bh, u.red, {})
    <3>1. Even(u, F, bh, t.red, {})
      <4>1. s \in Side /\ q \in F /\ x # Null /\ Turned(t, s, q, x, u)
        BY <1>1, <1>4, <2>4
      <4>2. Even(t, F, bh, t.red, {}) /\ q \in t.red /\ x \in t.red
        OBVIOUS
      <4>3. x = t[Other(s)][q]
        BY <2>2
      <4> QED BY ONLY Framed(t, F, pos, bd, hi), <4>1, <4>2, <4>3, RedTurnEven
    <3> QED BY <2>4, <3>1
  <2>6. /\ u.root = t.root
        /\ \A y \in Node : u.parent[y] = IF y = q THEN x ELSE IF y = x THEN g
                             ELSE IF y = t[s][x] THEN q ELSE t.parent[y]
        /\ \A a \in Side, y \in Node :
             u[a][y] = IF y = x THEN (IF a = s THEN q ELSE t[a][x])
                       ELSE IF y = q THEN (IF a = s THEN t[s][q] ELSE t[s][x])
                       ELSE IF t[a][y] = q THEN x ELSE t[a][y]
    BY <1>3, <2>4 DEF Turned
  <2>7. u.parent[q] = x /\ u.parent[x] = g
    BY <1>1, <1>2, <2>6
  <2>8. /\ Other(s) \in Side /\ Other(s) # s /\ g \in Node
        /\ u[s][x] = q /\ u[s][g] = x /\ u[Other(s)][g] = t[Other(s)][g]
    <3>1. Other(s) \in Side /\ Other(s) # s /\ g \in Node
      BY <1>1, <1>4, Sides
    <3>2. t[Other(s)][g] # q
      BY <1>1, <1>4, SideOfKid
    <3> QED BY <1>1, <1>4, <2>6, <3>1, <3>2
  <2>9. Colors(u, {q})
    <3>1. u.root \notin u.red \ {q}
      BY <1>1, <2>4, <2>6 DEF Colors
    <3>2. ASSUME NEW y \in u.red, y # q PROVE u.parent[y] \notin u.red
      <4>1. y \in F /\ y \in Node /\ y \in t.red
        BY <1>1, <2>4
      <4>2. CASE y = x
        BY <1>3, <2>4, <2>7, <4>2
      <4>3. CASE y # x
        <5>1. y # t[s][x]
          <6> SUFFICES ASSUME y = t[s][x] PROVE FALSE
            OBVIOUS
          <6>1. t.parent[y] = x
            BY <1>1, <1>4, <4>1, KidSide
          <6> QED BY <4>1, <4>3, <6>1 DEF Colors
        <5>2. u.parent[y] = t.parent[y]
          BY <2>6, <3>2, <4>1, <4>3, <5>1
        <5> QED BY <2>4, <4>1, <4>3, <5>2 DEF Colors
      <4> QED BY <4>2, <4>3
    <3> QED BY <3>1, <3>2 DEF Colors
  <2>10. Balanced(InsertCase5(u, q), F, pos, hi)
    <3>1. q \in u.red /\ x \in u.red /\ u[Other(s)][g] \notin u.red
      BY <1>5, <2>4, <2>8
    <3> HIDE DEF g
    <3> QED BY <1>4, <2>4, <2>5, <2>7, <2>8, <2>9, <3>1, InsertCase5Balances
  <2> QED BY <2>1, <2>10
<1> QED BY <1>7, <1>8

-----------------------------------------------------------------------------
(* Recursive functions: climbs, walks and folds.                           *)

LEMMA LessOnNat ==
  OpToRel(<, Nat) = {ss \in Nat \X Nat : ss[1] < ss[2]}
BY DEF OpToRel

(* A set of numbers has a least element.                                   *)
LEMMA LeastNumber ==
  ASSUME NEW T \in SUBSET Nat, T # {}
  PROVE  \E x \in T : \A y \in T : x <= y
<1> DEFINE R == {ss \in Nat \X Nat : ss[1] < ss[2]}
<1>1. IsWellFoundedOn(R, Nat)
  BY LessOnNat, NatLessThanWellFounded
<1>2. T \subseteq Nat
  OBVIOUS
<1>3. \E x \in T : \A y \in T : ~ (<<y, x>> \in R)
  <2> HIDE DEF R
  <2> QED BY <1>1, <1>2, WFMin
<1>4. PICK x \in T : \A y \in T : ~ (<<y, x>> \in R)
  BY <1>3
<1>5. ASSUME NEW y \in T PROVE x <= y
  <2>1. x \in Nat /\ y \in Nat
    BY <1>2
  <2>2. ~ (<<y, x>> \in R)
    BY <1>4
  <2> QED BY <2>1, <2>2
<1> QED BY <1>5

(* A climb or a walk: f passes its argument on by g until it is in Stop,   *)
(* where the result is v.                                                  *)
Step(f, Stop, v, g, x) == IF x \in Stop THEN v[x] ELSE f[g[x]]
Climbs(f, S, Stop, v, g) == f = [x \in S |-> Step(f, Stop, v, g, x)]
Closed(Z, S, Stop, g) == Z \subseteq S /\ \A x \in Z : x \notin Stop => g[x] \in Z

(* There is such a function, even where the climb does not end.            *)
LEMMA ClimbExists ==
  ASSUME NEW S, NEW Stop, NEW v, NEW g, Closed(S, S, Stop, g)
  PROVE  \E f : Climbs(f, S, Stop, v, g)
<1> DEFINE Way(x) == {y \in S : \A Z \in SUBSET S : Closed(Z, S, Stop, g) /\ x \in Z => y \in Z}
           Ends(x) == {y \in Way(x) : y \in Stop}
           Val(x) == v[CHOOSE y : y \in Ends(x)]
           f == [x \in S |-> Val(x)]
<1>1. ASSUME NEW x \in S, x \in Stop PROVE Ends(x) = {x}
  <2>1. x \in Way(x)
    OBVIOUS
  <2>2. {x} \in SUBSET S /\ Closed({x}, S, Stop, g)
    BY <1>1 DEF Closed
  <2>3. \A y \in Way(x) : y = x
    BY <2>2
  <2> HIDE DEF Way
  <2> QED BY <1>1, <2>1, <2>3
<1>2. ASSUME NEW x \in S, x \notin Stop PROVE g[x] \in S /\ Ends(x) = Ends(g[x])
  <2>1. g[x] \in S
    BY <1>2 DEF Closed
  <2>2. ASSUME NEW y \in Way(g[x]) PROVE y \in Way(x)
    BY <1>2 DEF Closed
  <2>3. ASSUME NEW y \in Way(x), y # x PROVE y \in Way(g[x])
    <3>1. Way(g[x]) \in SUBSET S /\ g[x] \in Way(g[x])
      BY <2>1
    <3>2. ASSUME NEW z \in Way(g[x]), z \notin Stop PROVE g[z] \in Way(g[x])
      BY <3>2 DEF Closed
    <3> DEFINE Z == Way(g[x]) \cup {x}
    <3> HIDE DEF Way
    <3>3. Closed(Z, S, Stop, g)
      BY <3>1, <3>2 DEF Closed
    <3>4. Z \in SUBSET S /\ x \in Z
      BY <3>1
    <3>5. y \in Z
      <4> HIDE DEF Z
      <4> QED BY <3>3, <3>4 DEF Way
    <3> QED BY <2>3, <3>5
  <2> HIDE DEF Way
  <2> QED BY <1>2, <2>1, <2>2, <2>3
<1> HIDE DEF Ends
<1>3. ASSUME NEW x \in S PROVE Val(x) = Step(f, Stop, v, g, x)
  <2>1. CASE x \in Stop
    <3>1. (CHOOSE y : y \in Ends(x)) = x
      BY <1>1, <2>1
    <3>2. Val(x) = v[x]
      BY <3>1
    <3> HIDE DEF f
    <3>3. Step(f, Stop, v, g, x) = v[x]
      BY <2>1 DEF Step
    <3> QED BY <3>2, <3>3
  <2>2. CASE x \notin Stop
    <3>1. g[x] \in S /\ Ends(x) = Ends(g[x])
      BY <1>2, <2>2
    <3>2. Val(x) = Val(g[x])
      BY <3>1
    <3>3. f[g[x]] = Val(g[x])
      BY <3>1
    <3> DEFINE w == Val(x)
    <3>4. f[g[x]] = w
      BY <3>2, <3>3
    <3> HIDE DEF f, w
    <3>5. Step(f, Stop, v, g, x) = w
      BY <2>2, <3>4 DEF Step
    <3> QED BY <3>5 DEF w
  <2> QED BY <2>1, <2>2
<1>4. f = [x \in S |-> Step(f, Stop, v, g, x)]
  BY <1>3
<1> HIDE DEF f
<1> QED BY <1>4 DEF Climbs

(* On P, where mu decreases, the climb ends with a result in R.            *)
Leads(P, R, Stop, v, g, mu) ==
  \A x \in P : /\ mu[x] \in Nat
               /\ x \in Stop => v[x] \in R
               /\ x \notin Stop => g[x] \in P /\ mu[g[x]] < mu[x]

LEMMA ClimbEnds ==
  ASSUME NEW S, NEW Stop, NEW v, NEW g, NEW f, Climbs(f, S, Stop, v, g),
         NEW P, NEW R, NEW mu, P \subseteq S, Leads(P, R, Stop, v, g, mu), NEW p, p \in P
  PROVE  f[p] \in R
<1>f. \A q \in S : f[q] = Step(f, Stop, v, g, q)
  BY DEF Climbs
<1>r. \A x \in P : /\ mu[x] \in Nat
                   /\ x \in Stop => v[x] \in R
                   /\ x \notin Stop => g[x] \in P /\ mu[g[x]] < mu[x]
  BY DEF Leads
<1> DEFINE Bad == {n \in Nat : \E q \in P : n = mu[q] /\ f[q] \notin R}
<1>1. Bad = {}
  <2> SUFFICES ASSUME Bad # {} PROVE FALSE
    OBVIOUS
  <2>1. PICK n \in Bad : \A k \in Bad : n <= k
    <3>1. Bad \in SUBSET Nat
      OBVIOUS
    <3> HIDE DEF Bad
    <3> QED BY <3>1, LeastNumber
  <2>2. PICK q \in P : n = mu[q] /\ f[q] \notin R
    BY <2>1
  <2>3. q \in S /\ f[q] = Step(f, Stop, v, g, q)
    BY <1>f
  <2>4. q \notin Stop /\ g[q] \in P
    BY <1>r, <2>2, <2>3 DEF Step
  <2>5. mu[g[q]] < mu[q] /\ mu[g[q]] \in Nat /\ mu[q] \in Nat /\ f[g[q]] \notin R
    BY <1>r, <2>2, <2>3, <2>4 DEF Step
  <2>6. mu[g[q]] \in Bad
    BY <2>4, <2>5
  <2>7. ~ (n <= mu[g[q]])
    BY <2>2, <2>5
  <2> HIDE DEF Bad
  <2> QED BY <2>1, <2>6, <2>7
<1>2. p \in S /\ mu[p] \in Nat
  BY <1>r
<1> QED BY <1>1, <1>2

(* A function of a tree that is computed from the values of both kids.     *)
Folds2(f, t, v, B) ==
  \A q \in Link : f[q] = IF q = Null THEN v ELSE B[<<q, f[t.left[q]], f[t.right[q]]>>]
(* mu decreases from every node to its kids.                               *)
Falls(t, mu, N) ==
  /\ N \in Nat
  /\ \A q \in Link : mu[q] \in Nat /\ mu[q] <= N
  /\ \A q \in Node, s \in Side : t[s][q] \in Link /\ mu[t[s][q]] < mu[q]

(* There is such a function if the tree is finite: by the least mu at      *)
(* which there would be none.                                              *)
LEMMA FoldExists ==
  ASSUME NEW t, NEW mu, NEW N, Falls(t, mu, N), Null \notin Node,
         NEW V, NEW v, v \in V, NEW B, B \in [(Node \X V \X V) -> V]
  PROVE  \E f : f \in [Link -> V] /\ Folds2(f, t, v, B)
<1> DEFINE Dom(n) == {q \in Link : mu[q] <= n}
           Good(f, n) == /\ f \in [Link -> V]
                         /\ \A q \in Dom(n) :
                              f[q] = IF q = Null THEN v ELSE B[<<q, f[t.left[q]], f[t.right[q]]>>]
           Bad == {n \in Nat : ~ \E f : Good(f, n)}
<1>0. /\ N \in Nat
      /\ \A q \in Link : mu[q] \in Nat /\ mu[q] <= N
      /\ \A q \in Node : /\ t.left[q] \in Link /\ mu[t.left[q]] < mu[q]
                         /\ t.right[q] \in Link /\ mu[t.right[q]] < mu[q]
  BY Sides DEF Falls
<1>1. Bad = {}
  <2> SUFFICES ASSUME Bad # {} PROVE FALSE
    OBVIOUS
  <2>1. PICK n \in Bad : \A k \in Bad : n <= k
    <3>1. Bad \in SUBSET Nat
      OBVIOUS
    <3> HIDE DEF Bad
    <3> QED BY <3>1, LeastNumber
  <2>2. n \in Nat /\ ~ \E f : Good(f, n)
    BY <2>1
  <2>3. \E e : e \in [Link -> V] /\ \A q \in Link : mu[q] < n =>
                 e[q] = IF q = Null THEN v ELSE B[<<q, e[t.left[q]], e[t.right[q]]>>]
    <3>1. CASE n = 0
      <4> DEFINE e == [q \in Link |-> v]
      <4>1. e \in [Link -> V] /\ \A q \in Link : ~ (mu[q] < n)
        BY <1>0, <3>1
      <4> HIDE DEF e
      <4> QED BY <4>1
    <3>2. CASE n # 0
      <4>1. n - 1 \in Nat /\ ~ (n <= n - 1)
        BY <2>2, <3>2
      <4>2. n - 1 \notin Bad
        <5> HIDE DEF Bad
        <5> QED BY <2>1, <4>1
      <4>3. PICK e : Good(e, n - 1)
        <5> HIDE DEF Good
        <5> QED BY <4>1, <4>2
      <4>4. \A q \in Link : mu[q] < n => q \in Dom(n - 1)
        BY <1>0, <2>2
      <4> HIDE DEF Dom
      <4> QED BY <4>3, <4>4
    <3> QED BY <3>1, <3>2
  <2>4. PICK e : e \in [Link -> V] /\ \A q \in Link : mu[q] < n =>
                 e[q] = IF q = Null THEN v ELSE B[<<q, e[t.left[q]], e[t.right[q]]>>]
    BY <2>3
  <2> DEFINE f == [q \in Link |-> IF mu[q] < n THEN e[q]
                                  ELSE IF q = Null THEN v ELSE B[<<q, e[t.left[q]], e[t.right[q]]>>]]
  <2>5. \A q \in Link : q # Null => q \in Node
    BY DEF Link
  <2>6. f \in [Link -> V]
    <3>1. ASSUME NEW q \in Link, q # Null PROVE B[<<q, e[t.left[q]], e[t.right[q]]>>] \in V
      BY <1>0, <2>4, <2>5, <3>1
    <3> QED BY <2>4, <3>1
  <2>7. \A q \in Link : mu[q] < n => f[q] = e[q]
    OBVIOUS
  <2>8. \A q \in Link : ~ (mu[q] < n) => f[q] = IF q = Null THEN v ELSE B[<<q, e[t.left[q]], e[t.right[q]]>>]
    OBVIOUS
  <2> HIDE DEF f
  <2>9. ASSUME NEW q \in Link, mu[q] <= n
        PROVE  f[q] = IF q = Null THEN v ELSE B[<<q, f[t.left[q]], f[t.right[q]]>>]
    <3>1. f[q] = IF q = Null THEN v ELSE B[<<q, e[t.left[q]], e[t.right[q]]>>]
      BY <2>4, <2>7, <2>8
    <3>2. CASE q = Null
      BY <3>1, <3>2
    <3>3. CASE q # Null
      <4>1. /\ t.left[q] \in Link /\ mu[t.left[q]] < mu[q]
            /\ t.right[q] \in Link /\ mu[t.right[q]] < mu[q]
        BY <1>0, <2>5, <3>3
      <4>2. mu[t.left[q]] < n /\ mu[t.right[q]] < n
        BY <1>0, <2>2, <2>9, <4>1
      <4>3. f[t.left[q]] = e[t.left[q]] /\ f[t.right[q]] = e[t.right[q]]
        BY <2>7, <4>1, <4>2
      <4> QED BY <3>1, <3>3, <4>3
    <3> QED BY <3>2, <3>3
  <2>10. Good(f, n)
    BY <2>6, <2>9
  <2> HIDE DEF Good
  <2> QED BY <2>2, <2>10
<1>2. PICK f : Good(f, N)
  <2> HIDE DEF Good
  <2> QED BY <1>0, <1>1
<1>3. \A q \in Link : q \in Dom(N)
  BY <1>0
<1>4. Folds2(f, t, v, B)
  <2> HIDE DEF Dom
  <2> QED BY <1>2, <1>3 DEF Folds2
<1> QED BY <1>2, <1>4

-----------------------------------------------------------------------------
(* Case 3 of insert climbs.                                                *)

(* How far the bounds of p are from 0 .. hi: less for p's parent.          *)
Depth(bd, hi, p) == (hi + bd["left"][p]) - bd["right"][p]

(* Depth is a number up to hi that grows downwards.                        *)
LEMMA DepthOf ==
  ASSUME NEW t, NEW F, NEW pos, NEW bd, NEW hi, Framed(t, F, pos, bd, hi), NEW p, p \in F
  PROVE  /\ Depth(bd, hi, p) \in Nat /\ Depth(bd, hi, p) <= hi
         /\ t.parent[p] # Null => Depth(bd, hi, t.parent[p]) < Depth(bd, hi, p)
         /\ \A s \in Side : t[s][p] # Null => Depth(bd, hi, p) < Depth(bd, hi, t[s][p])
<1>1. \A q \in F : bd["left"][q] < pos[q] /\ pos[q] < bd["right"][q] /\ bd["right"][q] <= hi
  BY DEF Framed, Spaced
<1>2. \A q \in F : bd["left"][q] \in Nat /\ bd["right"][q] \in Nat /\ pos[q] \in Nat /\ hi \in Nat
  BY FramedTypes, Sides
<1>3. ASSUME NEW q \in F, NEW s \in Side, t[s][q] # Null
      PROVE  Depth(bd, hi, q) < Depth(bd, hi, t[s][q])
  <2> DEFINE c == t[s][q]
  <2>1. c \in F /\ bd[s][c] = bd[s][q] /\ bd[Other(s)][c] = pos[q]
    BY <1>3, KidSide
  <2> HIDE DEF c
  <2>2. CASE s = "left"
    BY <1>1, <1>2, <2>1, <2>2, Sides DEF Depth, c
  <2>3. CASE s = "right"
    BY <1>1, <1>2, <2>1, <2>3, Sides DEF Depth, c
  <2> QED BY <2>2, <2>3 DEF Side
<1>4. Depth(bd, hi, p) \in Nat /\ Depth(bd, hi, p) <= hi
  BY <1>1, <1>2 DEF Depth
<1>5. ASSUME t.parent[p] # Null PROVE Depth(bd, hi, t.parent[p]) < Depth(bd, hi, p)
  <2>1. t.parent[p] \in F /\ SideOf(t, p) \in Side /\ t[SideOf(t, p)][t.parent[p]] = p /\ p # Null
    BY <1>5, KidOfParent, FramedTypes
  <2>2. \A q \in F, s \in Side : t[s][q] # Null => Depth(bd, hi, q) < Depth(bd, hi, t[s][q])
    BY <1>3
  <2> HIDE DEF Depth
  <2> QED BY <2>1, <2>2
<1> QED BY <1>3, <1>4, <1>5

(* insert_case1 to insert_case3. *)
Places == [t : Tree, p : Node]
Uncle(t, p) == Sibling(t, t.parent[p])
Grand(t, p) == t.parent[t.parent[p]]
RedFamily(t, p) == t.parent[p] # Null /\ t.parent[p] \in t.red /\ Uncle(t, p) \in t.red
Case3(t, p) ==
  Redden(Blacken(Blacken(t, t.parent[p]), Uncle(t, p)), Grand(t, p))
Settled(t, p) ==
  IF t.parent[p] = Null THEN Blacken(t, p)
  ELSE IF t.parent[p] \notin t.red THEN t ELSE InsertCase4(t, p)

(* The arguments of the recursions of insert and delete are trees with one *)
(* of their nodes.                                                         *)
LEMMA PlaceOf ==
  /\ \A t \in Tree, p \in Node : At(t, p) \in Places /\ At(t, p).t = t /\ At(t, p).p = p
  /\ \A x \in Places : x.t \in Tree /\ x.p \in Node
BY DEF Places, At

(* insert_case3 goes on at the grandparent, where the recursion is         *)
(* defined.                                                                *)
LEMMA Case3Place ==
  ASSUME NEW t, t \in Tree, NEW p, p \in Node, RedFamily(t, p), Null \notin Node
  PROVE  /\ Grand(t, p) \in Node /\ Case3(t, p) \in Tree
         /\ SameLinks(t, Case3(t, p))
         /\ Case3(t, p).red = (t.red \ {t.parent[p], Uncle(t, p)}) \cup {Grand(t, p)}
<1> DEFINE q == t.parent[p]
           u == Uncle(t, p)
           g == Grand(t, p)
           a == Blacken(t, q)
           b == Blacken(a, u)
           c == Redden(b, g)
<1>1. q # Null /\ q \in t.red /\ u \in t.red /\ t.red \subseteq Node
  BY DEF RedFamily, Tree
<1>2. u # Null
  BY <1>1
<1>3. g # Null
  BY <1>2 DEF Uncle, Sibling, Grand
<1>4. g \in Node
  BY <1>1, <1>3 DEF Tree, Link, Grand
<1>5. SameLinks(t, a) /\ a.red = t.red \ {q}
  BY BlackenAt
<1>6. SameLinks(a, b) /\ b.red = a.red \ {u}
  <2>1. a \in Tree
    BY <1>5 DEF SameLinks
  <2> HIDE DEF a
  <2> QED BY <2>1, BlackenAt
<1>7. SameLinks(b, c) /\ c.red = b.red \cup ({g} \ {Null})
  <2>1. b \in Tree /\ g \in Link
    BY <1>4, <1>6 DEF SameLinks, Link
  <2> HIDE DEF b
  <2> QED BY <2>1, ReddenAt
<1>8. Case3(t, p) = c
  BY DEF Case3, Grand
<1> HIDE DEF a, b, c, q, u, g
<1>9. SameLinks(t, c)
  BY <1>5, <1>6, <1>7, SameLinksTrans
<1>10. c.red = (t.red \ {q, u}) \cup {g}
  BY <1>3, <1>5, <1>6, <1>7
<1> QED BY <1>4, <1>8, <1>9, <1>10 DEF q, u, g, SameLinks

(* Colouring parent and uncle black and the grandparent red keeps the      *)
(* heights and leaves only the grandparent in doubt.                       *)
LEMMA Case3Rises ==
  ASSUME NEW t, NEW F, NEW pos, NEW bd, NEW hi, Framed(t, F, pos, bd, hi),
         NEW bh, Even(t, F, bh, t.red, {}),
         NEW p, p \in t.red, Colors(t, {p}), RedFamily(t, p),
         NEW r, r = Case3(t, p), NEW g, g = Grand(t, p)
  PROVE  /\ Framed(r, F, pos, bd, hi) /\ g \in r.red /\ Colors(r, {g})
         /\ \E b : Even(r, F, b, r.red, {})
         /\ Depth(bd, hi, g) < Depth(bd, hi, p)
<1> DEFINE q == t.parent[p]
           u == Uncle(t, p)
<1>1. /\ t \in Tree /\ F \subseteq Node /\ Null \notin F /\ t.red \subseteq F /\ Null \notin Node
      /\ p \in F /\ p \in Node
      /\ \A y \in F : t.parent[y] = Null => y = t.root
      /\ t.root # Null => t.parent[t.root] = Null
  BY FramedTypes DEF Framed, Placed
<1>2. q # Null /\ q \in t.red /\ u \in t.red /\ q \in F /\ u \in F /\ q # p /\ u # Null
  BY <1>1, KidOfParent DEF RedFamily
<1>3. g = t.parent[q]
  BY DEF Grand
<1>4. g # Null
  BY <1>2, <1>3 DEF Uncle, Sibling
<1>5. g \in F /\ g # q
  BY <1>2, <1>3, <1>4, KidOfParent
<1>6. g \notin t.red /\ t.root # p
  BY <1>1, <1>2, <1>3 DEF Colors
<1>7. PICK s \in Side : t[s][g] = q /\ t[Other(s)][g] = u
  <2>1. SideOf(t, q) \in Side /\ t[SideOf(t, q)][g] = q
    BY <1>2, <1>3, <1>4, KidOfParent
  <2>2. u = t[Other(SideOf(t, q))][g]
    BY <1>2, <1>3, <1>4 DEF Uncle, Sibling
  <2> QED BY <2>1, <2>2
<1>8. t.parent[u] = g /\ \A a \in Side : t[a][g] = q \/ t[a][g] = u
  BY <1>2, <1>5, <1>7, KidSide, Sides
<1>u. u # q /\ u # p
  <2>1. u # q
    BY <1>2, <1>5, <1>7, SideOfKid
  <2> QED BY <1>3, <1>5, <1>8, <2>1
<1>9. SameLinks(t, r) /\ r.red = (t.red \ {q, u}) \cup {g}
  BY <1>1, Case3Place
<1>10. Framed(r, F, pos, bd, hi)
  <2>1. r.red \subseteq F
    BY <1>1, <1>5, <1>9
  <2> QED BY <1>9, <2>1, RecolouredFramed
<1>11. Depth(bd, hi, g) < Depth(bd, hi, p)
  <2>1. Depth(bd, hi, q) < Depth(bd, hi, p) /\ Depth(bd, hi, g) < Depth(bd, hi, q)
    BY <1>1, <1>2, <1>3, <1>4, DepthOf
  <2>2. Depth(bd, hi, q) \in Nat /\ Depth(bd, hi, p) \in Nat /\ Depth(bd, hi, g) \in Nat
    BY <1>1, <1>2, <1>5, DepthOf
  <2> QED BY <2>1, <2>2
<1> HIDE DEF q, u
<1>12. Colors(r, {g})
  <2>1. r.root \notin r.red \ {g}
    <3>1. r.root = t.root /\ t.root \notin t.red \ {p}
      BY <1>9 DEF Colors, SameLinks
    <3> QED BY <1>6, <1>9, <3>1
  <2>2. ASSUME NEW y \in r.red, y # g PROVE r.parent[y] \notin r.red
    <3>1. y \in t.red /\ y # q /\ y # u /\ y \in F /\ y \in Node
      BY <1>1, <1>9, <2>2
    <3>2. r.parent[y] = t.parent[y]
      BY <1>9, <3>1 DEF SameLinks
    <3>3. t.parent[y] # g
      <4> SUFFICES ASSUME t.parent[y] = g PROVE FALSE
        OBVIOUS
      <4>1. SideOf(t, y) \in Side /\ t[SideOf(t, y)][g] = y
        BY <1>4, <3>1, KidOfParent
      <4> QED BY <1>8, <3>1, <4>1
    <3>4. CASE y = p
      BY <1>9, <3>2, <3>3, <3>4 DEF q
    <3>5. CASE y # p
      BY <1>9, <3>1, <3>2, <3>3, <3>5 DEF Colors
    <3> QED BY <3>4, <3>5
  <2> QED BY <2>1, <2>2 DEF Colors
<1>13. \E b : Even(r, F, b, r.red, {})
  <2> DEFINE b == [bh EXCEPT ![q] = bh[q] + 1, ![u] = bh[u] + 1]
  <2>1. /\ bh \in [Link -> Nat] /\ bh[Null] = 0
        /\ \A y \in F, a \in Side : bh[y] = bh[t[a][y]] + One(t[a][y] \in {}) + One(y \notin t.red)
    BY DEF Even, Level
  <2>2. \A y \in F : y \in Link /\ y \in Node /\ y # Null
    BY <1>1 DEF Link
  <2>3. /\ b \in [Link -> Nat] /\ b[q] = bh[q] + 1 /\ b[u] = bh[u] + 1
        /\ \A y \in Link : y # q /\ y # u => b[y] = bh[y]
    BY <1>2, <1>u, <2>1, <2>2
  <2> HIDE DEF b
  <2>4. \A a \in Side, y \in Node : t[a][y] \in Link
    BY FramedTypes
  <2>5. ASSUME NEW y \in F, NEW a \in Side PROVE Level(r, b, r.red, {}, y, a)
    <3>0. /\ r[a][y] = t[a][y] /\ t[a][y] \in Link /\ bh[t[a][y]] \in Nat /\ bh[y] \in Nat
          /\ bh[y] = bh[t[a][y]] + One(t[a][y] \in {}) + One(y \notin t.red)
      BY <1>9, <2>1, <2>2, <2>4 DEF SameLinks
    <3>1. CASE y = g
      <4>1. b[y] = bh[y] /\ b[t[a][y]] = bh[t[a][y]] + 1 /\ y \notin t.red /\ y \in r.red
        BY <1>2, <1>5, <1>6, <1>8, <1>9, <2>2, <2>3, <3>1
      <4> QED BY <3>0, <4>1 DEF Level, One
    <3>2. CASE y # g
      <4>1. t[a][y] # q /\ t[a][y] # u
        BY <1>2, <1>3, <1>8, <3>2, KidSide
      <4>2. b[t[a][y]] = bh[t[a][y]]
        BY <2>3, <3>0, <4>1
      <4>3. CASE y = q \/ y = u
        <5>1. b[y] = bh[y] + 1 /\ y \in t.red /\ y \notin r.red
          BY <1>2, <1>9, <2>3, <3>2, <4>3
        <5> QED BY <3>0, <4>2, <5>1 DEF Level, One
      <4>4. CASE y # q /\ y # u
        <5>1. b[y] = bh[y] /\ (y \in t.red <=> y \in r.red)
          BY <1>9, <2>2, <2>3, <3>2, <4>4
        <5> QED BY <3>0, <4>2, <5>1 DEF Level, One
      <4> QED BY <4>3, <4>4
    <3> QED BY <3>1, <3>2
  <2>6. b[Null] = 0
    BY <1>2, <2>1, <2>3 DEF Link
  <2>7. Even(r, F, b, r.red, {})
    BY <2>3, <2>5, <2>6 DEF Even
  <2> QED BY <2>7
<1> QED BY <1>9, <1>10, <1>11, <1>12, <1>13

-----------------------------------------------------------------------------
(* insert_case1: the climb ends.                                           *)

(* Cases 1, 2, 4 and 5 end the climb with a balanced tree.                 *)
LEMMA SettledBalances ==
  ASSUME NEW t, NEW F, NEW pos, NEW bd, NEW hi, Framed(t, F, pos, bd, hi),
         NEW bh, Even(t, F, bh, t.red, {}),
         NEW p, p \in t.red, Colors(t, {p}), ~ RedFamily(t, p)
  PROVE  Balanced(Settled(t, p), F, pos, hi)
<1>1. /\ t \in Tree /\ F \subseteq Node /\ Null \notin F /\ t.red \subseteq F /\ Null \notin Node
      /\ p \in F /\ p \in Node
      /\ \A y \in F : t.parent[y] = Null => y = t.root
      /\ t.root # Null => t.parent[t.root] = Null
  BY FramedTypes DEF Framed, Placed
<1>2. CASE t.parent[p] = Null
  <2> DEFINE u == Blacken(t, p)
  <2>1. Settled(t, p) = u
    BY <1>2 DEF Settled
  <2>2. SameLinks(t, u) /\ u.red = t.red \ {p}
    BY <1>1, BlackenAt
  <2> HIDE DEF u
  <2>3. Framed(u, F, pos, bd, hi)
    <3>1. u.red \subseteq F
      BY <1>1, <2>2
    <3> QED BY <2>2, <3>1, RecolouredFramed
  <2>4. Colors(u, {})
    <3>1. u.root \notin u.red
      BY <1>1, <1>2, <2>2 DEF SameLinks
    <3>2. ASSUME NEW y \in u.red PROVE u.parent[y] \notin u.red
      <4>1. y \in t.red /\ y # p /\ y \in Node
        BY <1>1, <2>2
      <4> QED BY <2>2, <4>1 DEF Colors, SameLinks
    <3> QED BY <3>1, <3>2 DEF Colors
  <2>5. \E b : Even(u, F, b, u.red, {})
    <3> DEFINE b == [bh EXCEPT ![p] = bh[p] + 1]
    <3>1. /\ bh \in [Link -> Nat] /\ bh[Null] = 0
          /\ \A y \in F, a \in Side : bh[y] = bh[t[a][y]] + One(t[a][y] \in {}) + One(y \notin t.red)
      BY DEF Even, Level
    <3>2. \A y \in F : y \in Link /\ y \in Node /\ y # Null
      BY <1>1 DEF Link
    <3>3. /\ b \in [Link -> Nat] /\ b[p] = bh[p] + 1 /\ b[Null] = 0
          /\ \A y \in Link : y # p => b[y] = bh[y]
      <4>1. p \in Link /\ Null \in Link /\ p # Null
        BY <1>1, <3>2 DEF Link
      <4> QED BY <3>1, <4>1
    <3> HIDE DEF b
    <3>4. \A a \in Side, y \in Node : t[a][y] \in Link
      BY FramedTypes
    <3>5. ASSUME NEW y \in F, NEW a \in Side PROVE Level(u, b, u.red, {}, y, a)
      <4>0. /\ u[a][y] = t[a][y] /\ t[a][y] \in Link /\ bh[t[a][y]] \in Nat /\ bh[y] \in Nat
            /\ bh[y] = bh[t[a][y]] + One(t[a][y] \in {}) + One(y \notin t.red)
        BY <2>2, <3>1, <3>2, <3>4 DEF SameLinks
      <4>1. t[a][y] # p
        <5>1. p # Null /\ y # Null
          BY <1>1, <3>2
        <5> QED BY <1>2, <5>1, KidSide
      <4>2. b[t[a][y]] = bh[t[a][y]]
        BY <3>3, <4>0, <4>1
      <4>3. CASE y = p
        BY <1>1, <2>2, <3>3, <4>0, <4>2, <4>3 DEF Level, One
      <4>4. CASE y # p
        <5>1. b[y] = bh[y] /\ (y \in u.red <=> y \in t.red)
          BY <2>2, <3>2, <3>3, <4>4
        <5> QED BY <4>0, <4>2, <5>1 DEF Level, One
      <4> QED BY <4>3, <4>4
    <3>6. Even(u, F, b, u.red, {})
      BY <3>3, <3>5 DEF Even
    <3> QED BY <3>6
  <2> QED BY <2>1, <2>3, <2>4, <2>5 DEF Balanced
<1>3. CASE t.parent[p] # Null /\ t.parent[p] \notin t.red
  <2>1. Settled(t, p) = t
    BY <1>3 DEF Settled
  <2>2. Colors(t, {})
    <3>1. p # t.root
      BY <1>1, <1>3
    <3> QED BY <1>3, <3>1 DEF Colors
  <2> QED BY <2>1, <2>2 DEF Balanced
<1>4. CASE t.parent[p] # Null /\ t.parent[p] \in t.red
  <2>1. Settled(t, p) = InsertCase4(t, p)
    BY <1>4 DEF Settled
  <2>2. Sibling(t, t.parent[p]) \notin t.red
    BY <1>4 DEF RedFamily, Uncle
  <2> QED BY <1>4, <2>1, <2>2, InsertCase4Balances
<1> QED BY <1>2, <1>3, <1>4

(* The climb of insert_case1. *)
RiseStop == {x \in Places : ~ RedFamily(x.t, x.p)}
RiseEnd == [x \in Places |-> Settled(x.t, x.p)]
RiseOn == [x \in Places |-> At(Case3(x.t, x.p), Grand(x.t, x.p))]

(* The climb of insert_case1 is one of those above.                        *)
LEMMA RiseIsClosed ==
  ASSUME Null \notin Node
  PROVE  Closed(Places, Places, RiseStop, RiseOn)
<1> SUFFICES ASSUME NEW x \in Places, x \notin RiseStop PROVE RiseOn[x] \in Places
  BY DEF Closed
<1>1. x.t \in Tree /\ x.p \in Node /\ RedFamily(x.t, x.p)
  BY PlaceOf DEF RiseStop
<1>2. Grand(x.t, x.p) \in Node /\ Case3(x.t, x.p) \in Tree
  BY <1>1, Case3Place
<1> QED BY <1>2, PlaceOf DEF RiseOn

LEMMA InsertCase1Climbs ==
  ASSUME Null \notin Node, NEW t0, NEW node
  PROVE  \E f : Climbs(f, Places, RiseStop, RiseEnd, RiseOn)
                /\ InsertCase1(t0, node) = f[At(t0, node)]
<1> DEFINE Body(f, x) ==
      LET t == x.t
          q == t.parent[x.p]
          g == t.parent[q]
          u == Sibling(t, q)
      IN IF q = Null THEN Blacken(t, x.p)
         ELSE IF q \notin t.red THEN t
         ELSE IF u \in t.red THEN f[At(Redden(Blacken(Blacken(t, q), u), g), g)]
         ELSE InsertCase4(t, x.p)
<1>1. ASSUME NEW f, NEW x \in Places
      PROVE  Body(f, x) = Step(f, RiseStop, RiseEnd, RiseOn, x)
  <2>1. CASE x \in RiseStop
    <3>1. ~ RedFamily(x.t, x.p)
      BY <2>1 DEF RiseStop
    <3>2. Step(f, RiseStop, RiseEnd, RiseOn, x) = Settled(x.t, x.p)
      BY <2>1 DEF Step, RiseEnd
    <3>3. Body(f, x) = Settled(x.t, x.p)
      BY <3>1 DEF RedFamily, Uncle, Settled
    <3> QED BY <3>2, <3>3
  <2>2. CASE x \notin RiseStop
    <3>1. RedFamily(x.t, x.p)
      BY <2>2 DEF RiseStop
    <3>2. Step(f, RiseStop, RiseEnd, RiseOn, x) = f[At(Case3(x.t, x.p), Grand(x.t, x.p))]
      BY <2>2 DEF Step, RiseOn
    <3>3. Body(f, x) = f[At(Case3(x.t, x.p), Grand(x.t, x.p))]
      BY <3>1 DEF RedFamily, Uncle, Case3, Grand
    <3> QED BY <3>2, <3>3
  <2> QED BY <2>1, <2>2
<1> DEFINE f == CHOOSE h : h = [x \in Places |-> Body(h, x)]
<1>2. \E h : h = [x \in Places |-> Body(h, x)]
  <2> HIDE DEF Body
  <2>1. PICK h : h = [x \in Places |-> Step(h, RiseStop, RiseEnd, RiseOn, x)]
    <3>1. \E h : Climbs(h, Places, RiseStop, RiseEnd, RiseOn)
      BY RiseIsClosed, ClimbExists
    <3> QED BY <3>1 DEF Climbs
  <2>2. [x \in Places |-> Step(h, RiseStop, RiseEnd, RiseOn, x)] = [x \in Places |-> Body(h, x)]
    BY <1>1
  <2> QED BY <2>1, <2>2
<1>3. f = [x \in Places |-> Body(f, x)]
  <2> HIDE DEF Body
  <2> QED BY <1>2
<1>4. InsertCase1(t0, node) = f[At(t0, node)]
  BY DEF InsertCase1, Places
<1> HIDE DEF f, Body
<1>5. Climbs(f, Places, RiseStop, RiseEnd, RiseOn)
  <2>1. [x \in Places |-> Step(f, RiseStop, RiseEnd, RiseOn, x)] = [x \in Places |-> Body(f, x)]
    BY <1>1
  <2> QED BY <1>3, <2>1 DEF Climbs
<1> QED BY <1>4, <1>5

(* Reddening a node that hangs balanced is repaired by the climb.          *)
LEMMA InsertCase1Balances ==
  ASSUME NEW t0, NEW F, NEW pos, NEW bd, NEW hi, Framed(t0, F, pos, bd, hi),
         NEW bh, Even(t0, F, bh, t0.red, {}),
         NEW node, node \in t0.red, Colors(t0, {node})
  PROVE  Balanced(InsertCase1(t0, node), F, pos, hi)
<1>1. Null \notin Node /\ t0 \in Tree /\ node \in Node
  BY DEF Framed
<1>2. PICK f : Climbs(f, Places, RiseStop, RiseEnd, RiseOn)
               /\ InsertCase1(t0, node) = f[At(t0, node)]
  BY <1>1, InsertCase1Climbs
<1> DEFINE Rising(x) == /\ Framed(x.t, F, pos, bd, hi) /\ x.p \in x.t.red /\ Colors(x.t, {x.p})
                        /\ \E b : Even(x.t, F, b, x.t.red, {})
           P == {x \in Places : Rising(x)}
           R == {r \in {InsertCase1(t0, node)} \cup {RiseEnd[x] : x \in Places} : Balanced(r, F, pos, hi)}
           mu == [x \in Places |-> Depth(bd, hi, x.p)]
<1>3. At(t0, node) \in P
  <2>1. At(t0, node) \in Places /\ At(t0, node).t = t0 /\ At(t0, node).p = node
    BY <1>1, PlaceOf
  <2> QED BY <2>1
<1>4. Leads(P, R, RiseStop, RiseEnd, RiseOn, mu)
  <2> SUFFICES ASSUME NEW x \in P
               PROVE  /\ mu[x] \in Nat
                      /\ x \in RiseStop => RiseEnd[x] \in R
                      /\ x \notin RiseStop => RiseOn[x] \in P /\ mu[RiseOn[x]] < mu[x]
    BY DEF Leads
  <2>1. x \in Places /\ x.t \in Tree /\ x.p \in Node /\ x.p \in F
    BY PlaceOf DEF Framed
  <2>2. /\ Framed(x.t, F, pos, bd, hi) /\ x.p \in x.t.red /\ Colors(x.t, {x.p})
        /\ \E b : Even(x.t, F, b, x.t.red, {})
    OBVIOUS
  <2>3. mu[x] = Depth(bd, hi, x.p) /\ Depth(bd, hi, x.p) \in Nat
    BY <2>1, <2>2, DepthOf
  <2>4. ASSUME x \in RiseStop PROVE RiseEnd[x] \in R
    <3>1. ~ RedFamily(x.t, x.p) /\ RiseEnd[x] = Settled(x.t, x.p)
      BY <2>1, <2>4 DEF RiseStop, RiseEnd
    <3>2. Balanced(Settled(x.t, x.p), F, pos, hi)
      BY <2>2, <3>1, SettledBalances
    <3> QED BY <2>1, <3>1, <3>2
  <2>5. ASSUME x \notin RiseStop PROVE RiseOn[x] \in P /\ mu[RiseOn[x]] < mu[x]
    <3>1. RedFamily(x.t, x.p) /\ RiseOn[x] = At(Case3(x.t, x.p), Grand(x.t, x.p))
      BY <2>1, <2>5 DEF RiseStop, RiseOn
    <3> DEFINE y == RiseOn[x]
    <3>2. Case3(x.t, x.p) \in Tree /\ Grand(x.t, x.p) \in Node
      BY <1>1, <2>1, <3>1, Case3Place
    <3>3. y \in Places /\ y.t = Case3(x.t, x.p) /\ y.p = Grand(x.t, x.p)
      BY <3>1, <3>2, PlaceOf
    <3>4. /\ Framed(y.t, F, pos, bd, hi) /\ y.p \in y.t.red /\ Colors(y.t, {y.p})
          /\ \E b : Even(y.t, F, b, y.t.red, {})
          /\ Depth(bd, hi, y.p) < Depth(bd, hi, x.p)
      <4> HIDE DEF y
      <4> QED BY <2>2, <3>1, <3>3, Case3Rises
    <3>5. mu[y] = Depth(bd, hi, y.p)
      BY <3>3
    <3> HIDE DEF y, mu
    <3> QED BY <2>3, <3>3, <3>4, <3>5 DEF y
  <2> QED BY <2>3, <2>4, <2>5
<1>5. f[At(t0, node)] \in R
  <2>1. P \subseteq Places
    OBVIOUS
  <2> HIDE DEF P, R, mu
  <2> QED BY <1>2, <1>3, <1>4, <2>1, ClimbEnds
<1> QED BY <1>2, <1>5

-----------------------------------------------------------------------------
(* What lies below a node.                                                 *)

(* f is the function Below of the tree t. *)
IsBelow(f, t) ==
  \A q \in Link : f[q] = IF q = Null THEN {} ELSE {q} \cup f[t.left[q]] \cup f[t.right[q]]

(* r lies between the bounds of q. *)
Inside(pos, bd, r, q) == bd["left"][q] < pos[r] /\ pos[r] < bd["right"][q]

Extent(F, bd, hi, q) == IF q \in F THEN (hi + 1) - Depth(bd, hi, q) ELSE IF q = Null THEN 0 ELSE 1

(* Extent decreases from a node to its kids.                               *)
LEMMA ExtentFalls ==
  ASSUME NEW t, NEW F, NEW pos, NEW bd, NEW hi, Framed(t, F, pos, bd, hi)
  PROVE  Falls(t, [q \in Link |-> Extent(F, bd, hi, q)], hi + 1)
<1> DEFINE mu == [q \in Link |-> Extent(F, bd, hi, q)]
<1>1. hi \in Nat /\ Null \notin F /\ F \subseteq Node /\ Null \notin Node
  BY FramedTypes DEF Framed
<1>2. \A q \in F : /\ Depth(bd, hi, q) \in Nat /\ Depth(bd, hi, q) <= hi
                   /\ \A s \in Side : t[s][q] # Null =>
                        t[s][q] \in F /\ Depth(bd, hi, q) < Depth(bd, hi, t[s][q])
  BY DepthOf, KidSide
<1>3. \A q \in Node \ F, s \in Side : t[s][q] = Null
  BY DEF Framed, Unlinked1
<1>4. \A q \in Node, s \in Side : t[s][q] \in Link
  BY FramedTypes
<1> HIDE DEF Depth
<1>5. \A q \in Link : Extent(F, bd, hi, q) \in Nat /\ Extent(F, bd, hi, q) <= hi + 1
  BY <1>1, <1>2 DEF Extent
<1>6. ASSUME NEW q \in Node, NEW s \in Side PROVE Extent(F, bd, hi, t[s][q]) < Extent(F, bd, hi, q)
  <2>1. CASE q \notin F
    BY <1>1, <1>3, <2>1 DEF Extent
  <2>2. CASE q \in F /\ t[s][q] = Null
    <3>1. Extent(F, bd, hi, t[s][q]) = 0
      BY <1>1, <2>2 DEF Extent
    <3>2. Extent(F, bd, hi, q) = (hi + 1) - Depth(bd, hi, q)
      BY <2>2 DEF Extent
    <3> QED BY <1>1, <1>2, <2>2, <3>1, <3>2
  <2>3. CASE q \in F /\ t[s][q] # Null
    <3> DEFINE c == t[s][q]
    <3>1. c \in F /\ Depth(bd, hi, q) < Depth(bd, hi, c) /\ Depth(bd, hi, c) \in Nat
      BY <1>2, <2>3
    <3> HIDE DEF c
    <3>2. Extent(F, bd, hi, c) = (hi + 1) - Depth(bd, hi, c) /\ Extent(F, bd, hi, q) = (hi + 1) - Depth(bd, hi, q)
      BY <2>3, <3>1 DEF Extent
    <3>3. Extent(F, bd, hi, c) < Extent(F, bd, hi, q)
      BY <1>1, <1>2, <2>3, <3>1, <3>2
    <3> QED BY <3>3 DEF c
  <2> QED BY <2>1, <2>2, <2>3
<1>7. \A q \in Link : mu[q] = Extent(F, bd, hi, q)
  OBVIOUS
<1>8. \A q \in Node : q \in Link
  BY DEF Link
<1> HIDE DEF mu, Extent
<1>9. Falls(t, mu, hi + 1)
  BY <1>1, <1>4, <1>5, <1>6, <1>7, <1>8 DEF Falls
<1> QED BY <1>9 DEF mu

(* Below is defined on every tree.                                         *)
LEMMA BelowExists ==
  ASSUME NEW t, NEW F, NEW pos, NEW bd, NEW hi, Framed(t, F, pos, bd, hi)
  PROVE  \E f : f \in [Link -> SUBSET Node] /\ IsBelow(f, t)
<1> DEFINE V == SUBSET Node
           B == [x \in Node \X V \X V |-> {x[1]} \cup x[2] \cup x[3]]
<1>1. {} \in V /\ B \in [(Node \X V \X V) -> V]
  OBVIOUS
<1>2. Null \notin Node
  BY DEF Framed
<1>3. PICK f : f \in [Link -> V] /\ Folds2(f, t, {}, B)
  <2> HIDE DEF V, B
  <2> QED BY <1>1, <1>2, ExtentFalls, FoldExists
<1>4. ASSUME NEW q \in Link, q # Null PROVE f[q] = {q} \cup f[t.left[q]] \cup f[t.right[q]]
  <2>1. q \in Node
    BY <1>4 DEF Link
  <2>2. f[t.left[q]] \in V /\ f[t.right[q]] \in V
    <3>1. t.left[q] \in Link /\ t.right[q] \in Link
      BY <2>1, FramedTypes, Sides
    <3> HIDE DEF V
    <3> QED BY <1>3, <3>1
  <2>3. f[q] = B[<<q, f[t.left[q]], f[t.right[q]]>>]
    BY <1>3, <1>4 DEF Folds2
  <2>4. <<q, f[t.left[q]], f[t.right[q]]>> \in Node \X V \X V
    <3> HIDE DEF V
    <3> QED BY <2>1, <2>2
  <2> HIDE DEF V
  <2> QED BY <2>3, <2>4
<1>5. f[Null] = {}
  BY <1>3 DEF Folds2, Link
<1>6. IsBelow(f, t)
  BY <1>4, <1>5 DEF IsBelow
<1> QED BY <1>3, <1>6

LEMMA BelowEq ==
  ASSUME NEW t, NEW F, NEW pos, NEW bd, NEW hi, Framed(t, F, pos, bd, hi),
         NEW f, IsBelow(f, t)
  PROVE  /\ f[Null] = {}
         /\ \A q \in Node : /\ q \in f[q]
                            /\ \A s \in Side : f[t[s][q]] \subseteq f[q]
                            /\ \A r \in f[q] : r = q \/ \E s \in Side : t[s][q] # Null /\ r \in f[t[s][q]]
<1>1. Null \notin Node /\ \A q \in Node : q \in Link /\ q # Null
  BY DEF Framed, Link
<1>2. f[Null] = {}
  BY DEF IsBelow, Link
<1>3. \A q \in Node : f[q] = {q} \cup f[t.left[q]] \cup f[t.right[q]]
  BY <1>1 DEF IsBelow
<1>4. ASSUME NEW q \in Node, NEW r \in f[q], r # q
      PROVE  \E s \in Side : t[s][q] # Null /\ r \in f[t[s][q]]
  <2>1. \E s \in Side : r \in f[t[s][q]]
    BY <1>3, <1>4, Sides
  <2> QED BY <1>2, <2>1
<1>5. ASSUME NEW q \in Node, NEW s \in Side PROVE f[t[s][q]] \subseteq f[q]
  BY <1>3 DEF Side
<1> QED BY <1>2, <1>3, <1>4, <1>5

(* What lies below q lies between its bounds, and with a node its kids.    *)
LEMMA BelowWithin ==
  ASSUME NEW t, NEW F, NEW pos, NEW bd, NEW hi, Framed(t, F, pos, bd, hi),
         NEW f, IsBelow(f, t)
  PROVE  \A q \in F : \A r \in f[q] :
           /\ r \in F /\ Inside(pos, bd, r, q)
           /\ \A s \in Side : t[s][r] # Null => t[s][r] \in f[q]
<1> DEFINE Good(q, r) == /\ r \in F /\ Inside(pos, bd, r, q)
                         /\ \A s \in Side : t[s][r] # Null => t[s][r] \in f[q]
           mu == [q \in Link |-> Extent(F, bd, hi, q)]
           Bad == {n \in Nat : \E x \in F : n = mu[x] /\ \E y \in f[x] : ~ Good(x, y)}
<1>1. /\ \A q \in Node, s \in Side : mu[t[s][q]] < mu[q]
      /\ \A q \in F : q \in Node /\ q \in Link /\ mu[q] \in Nat
  <2>1. F \subseteq Node /\ \A q \in Node : q \in Link
    BY DEF Framed, Link
  <2>2. Falls(t, mu, hi + 1)
    BY ExtentFalls
  <2> HIDE DEF mu
  <2> QED BY <2>1, <2>2 DEF Falls
<1> HIDE DEF mu
<1>2. Bad = {}
  <2> SUFFICES ASSUME Bad # {} PROVE FALSE
    OBVIOUS
  <2>1. PICK n \in Bad : \A k \in Bad : n <= k
    <3>1. Bad \in SUBSET Nat
      OBVIOUS
    <3> HIDE DEF Bad
    <3> QED BY <3>1, LeastNumber
  <2>2. PICK q \in F : n = mu[q] /\ \E r \in f[q] : ~ Good(q, r)
    BY <2>1
  <2>3. PICK r \in f[q] : ~ Good(q, r)
    BY <2>2
  <2>4. ASSUME NEW c \in F, mu[c] < mu[q], NEW x \in f[c] PROVE Good(c, x)
    <3>1. ~ Good(c, x) => mu[c] \in Bad
      BY <1>1, <2>4
    <3>2. mu[c] \in Nat /\ ~ (n <= mu[c])
      BY <1>1, <2>2, <2>4
    <3> HIDE DEF Bad, Good
    <3> QED BY <2>1, <3>1, <3>2
  <2> HIDE DEF Bad
  <2>5. /\ q \in Node /\ bd["left"][q] < pos[q] /\ pos[q] < bd["right"][q]
        /\ bd["left"][q] \in Nat /\ bd["right"][q] \in Nat /\ pos[q] \in Nat
    BY <1>1, FramedTypes, Sides DEF Framed, Spaced
  <2>6. CASE r = q
    <3>1. ASSUME NEW s \in Side, t[s][q] # Null PROVE t[s][q] \in f[q]
      <4>1. t[s][q] \in Node
        BY <3>1, KidSide
      <4> QED BY <2>5, <4>1, BelowEq
    <3> QED BY <2>3, <2>5, <2>6, <3>1 DEF Inside
  <2>7. CASE r # q
    <3>1. PICK s \in Side : t[s][q] # Null /\ r \in f[t[s][q]]
      BY <2>3, <2>5, <2>7, BelowEq
    <3> DEFINE c == t[s][q]
    <3>2. c \in F /\ c \in Node /\ bd[s][c] = bd[s][q] /\ bd[Other(s)][c] = pos[q]
      BY <3>1, KidSide
    <3>3. Good(c, r)
      <4>1. mu[c] < mu[q]
        BY <1>1, <2>5
      <4> HIDE DEF c, Good
      <4> QED BY <2>4, <3>1, <3>2, <4>1 DEF c
    <3>4. f[c] \subseteq f[q]
      BY <2>5, BelowEq
    <3> HIDE DEF c
    <3>5. pos[r] \in Nat
      BY <3>3, FramedTypes
    <3>6. Inside(pos, bd, r, q)
      <4>1. CASE s = "left"
        BY <2>5, <3>2, <3>3, <3>5, <4>1, Sides DEF Inside
      <4>2. CASE s = "right"
        BY <2>5, <3>2, <3>3, <3>5, <4>2, Sides DEF Inside
      <4> QED BY <4>1, <4>2 DEF Side
    <3> QED BY <2>3, <3>3, <3>4, <3>6
  <2> QED BY <2>6, <2>7
<1>3. \A q \in F : \A r \in f[q] : Good(q, r)
  <2> SUFFICES ASSUME NEW q \in F, NEW r \in f[q], ~ Good(q, r) PROVE FALSE
    OBVIOUS
  <2>1. mu[q] \in Nat
    BY <1>1
  <2>2. mu[q] \in Bad
    BY <2>1
  <2> HIDE DEF Bad
  <2> QED BY <1>2, <2>2
<1> QED BY <1>3

(* Below the root lie all nodes. *)
LEMMA BelowRoot ==
  ASSUME NEW t, NEW F, NEW pos, NEW bd, NEW hi, Framed(t, F, pos, bd, hi),
         NEW f, IsBelow(f, t)
  PROVE  f[t.root] = F
<1>1. F \subseteq Node /\ t.root \in F \cup {Null} /\ Null \notin F
  BY FramedTypes DEF Framed
<1>2. f[t.root] \subseteq F
  BY <1>1, BelowEq, BelowWithin
<1> DEFINE Bad == {n \in Nat : \E r \in F : n = Depth(bd, hi, r) /\ r \notin f[t.root]}
<1>3. Bad = {}
  <2> SUFFICES ASSUME Bad # {} PROVE FALSE
    OBVIOUS
  <2>1. PICK n \in Bad : \A k \in Bad : n <= k
    <3>1. Bad \in SUBSET Nat
      OBVIOUS
    <3> HIDE DEF Bad
    <3> QED BY <3>1, LeastNumber
  <2>2. PICK r \in F : n = Depth(bd, hi, r) /\ r \notin f[t.root]
    BY <2>1
  <2>3. CASE t.parent[r] = Null
    <3>1. r = t.root
      BY <2>3 DEF Framed, Placed
    <3> QED BY <1>1, <2>2, <3>1, BelowEq
  <2>4. CASE t.parent[r] # Null
    <3> DEFINE p == t.parent[r]
    <3>1. p \in F /\ SideOf(t, r) \in Side /\ t[SideOf(t, r)][p] = r /\ r # Null
      BY <1>1, <2>4, KidOfParent
    <3>2. Depth(bd, hi, p) < n /\ Depth(bd, hi, p) \in Nat /\ n \in Nat
      BY <2>2, <2>4, <3>1, DepthOf
    <3> HIDE DEF p
    <3>3. p \in f[t.root]
      <4> SUFFICES ASSUME p \notin f[t.root] PROVE FALSE
        OBVIOUS
      <4>1. Depth(bd, hi, p) \in Bad
        BY <3>1, <3>2
      <4> HIDE DEF Bad
      <4> QED BY <2>1, <3>2, <4>1
    <3>4. t.root \in F
      BY <1>1, <3>3, BelowEq
    <3> QED BY <2>2, <3>1, <3>3, <3>4, BelowWithin
  <2> QED BY <2>3, <2>4
<1>4. ASSUME NEW r \in F, r \notin f[t.root] PROVE FALSE
  <2>1. Depth(bd, hi, r) \in Nat
    BY DepthOf
  <2>2. Depth(bd, hi, r) \in Bad
    BY <1>4, <2>1
  <2> HIDE DEF Bad
  <2> QED BY <1>3, <2>2
<1> QED BY <1>2, <1>4

(* All that lies between the bounds of q lies below q. *)
LEMMA InsideIsBelow ==
  ASSUME NEW t, NEW F, NEW pos, NEW bd, NEW hi, Framed(t, F, pos, bd, hi),
         NEW f, IsBelow(f, t)
  PROVE  \A q, r \in F : Inside(pos, bd, r, q) => r \in f[q]
<1>1. F \subseteq Node /\ t.root \in F \cup {Null} /\ Null \notin F
  BY FramedTypes DEF Framed
<1> DEFINE Bad == {n \in Nat : \E q, r \in F : n = Depth(bd, hi, q) /\ Inside(pos, bd, r, q) /\ r \notin f[q]}
<1>2. Bad = {}
  <2> SUFFICES ASSUME Bad # {} PROVE FALSE
    OBVIOUS
  <2>1. PICK n \in Bad : \A k \in Bad : n <= k
    <3>1. Bad \in SUBSET Nat
      OBVIOUS
    <3> HIDE DEF Bad
    <3> QED BY <3>1, LeastNumber
  <2>2. PICK q \in F, r \in F : n = Depth(bd, hi, q) /\ Inside(pos, bd, r, q) /\ r \notin f[q]
    BY <2>1
  <2>3. CASE t.parent[q] = Null
    <3>1. q = t.root
      BY <2>3 DEF Framed, Placed
    <3> QED BY <2>2, <3>1, BelowRoot
  <2>4. CASE t.parent[q] # Null
    <3> DEFINE p == t.parent[q]
               s == SideOf(t, q)
    <3>1. p \in F /\ s \in Side /\ t[s][p] = q /\ q # Null /\ p \in Node
      BY <1>1, <2>4, KidOfParent
    <3>2. Depth(bd, hi, p) < n /\ Depth(bd, hi, p) \in Nat /\ n \in Nat
      BY <2>2, <2>4, <3>1, DepthOf
    <3> HIDE DEF p, s
    <3>3. bd[s][q] = bd[s][p] /\ bd[Other(s)][q] = pos[p]
      BY <3>1, KidSide
    <3>4. /\ pos[r] \in Nat /\ pos[p] \in Nat /\ bd["left"][p] < pos[p] /\ pos[p] < bd["right"][p]
          /\ bd["left"][p] \in Nat /\ bd["right"][p] \in Nat
          /\ bd["left"][q] \in Nat /\ bd["right"][q] \in Nat
          /\ bd["left"][q] < pos[r] /\ pos[r] < bd["right"][q]
      BY <1>1, <2>2, <3>1, FramedTypes, Sides DEF Framed, Spaced, Inside
    <3>5. Inside(pos, bd, r, p) /\ r # p
      <4>1. CASE s = "left"
        BY <3>3, <3>4, <4>1, Sides DEF Inside
      <4>2. CASE s = "right"
        BY <3>3, <3>4, <4>2, Sides DEF Inside
      <4> QED BY <3>1, <4>1, <4>2 DEF Side
    <3>6. r \in f[p]
      <4> SUFFICES ASSUME r \notin f[p] PROVE FALSE
        OBVIOUS
      <4>1. Depth(bd, hi, p) \in Bad
        BY <3>1, <3>2, <3>5
      <4> HIDE DEF Bad
      <4> QED BY <2>1, <3>2, <4>1
    <3>7. PICK a \in Side : t[a][p] # Null /\ r \in f[t[a][p]]
      BY <3>1, <3>5, <3>6, BelowEq
    <3> DEFINE c == t[a][p]
    <3>8. c \in F /\ Inside(pos, bd, r, c) /\ bd[Other(a)][c] = pos[p]
      BY <3>1, <3>7, KidSide, BelowWithin
    <3>9. a # s
      BY <2>2, <3>1, <3>7
    <3> HIDE DEF c
    <3>10. CASE s = "left"
      <4>1. a = "right" /\ Other(a) = "left" /\ Other(s) = "right"
        BY <3>9, <3>10, Sides DEF Side
      <4> QED BY <3>3, <3>4, <3>8, <4>1 DEF Inside
    <3>11. CASE s = "right"
      <4>1. a = "left" /\ Other(a) = "right" /\ Other(s) = "left"
        BY <3>9, <3>11, Sides DEF Side
      <4> QED BY <3>3, <3>4, <3>8, <4>1 DEF Inside
    <3> QED BY <3>1, <3>10, <3>11 DEF Side
  <2> QED BY <2>3, <2>4
<1>3. ASSUME NEW q \in F, NEW r \in F, Inside(pos, bd, r, q), r \notin f[q] PROVE FALSE
  <2>1. Depth(bd, hi, q) \in Nat
    BY DepthOf
  <2>2. Depth(bd, hi, q) \in Bad
    BY <1>3, <2>1
  <2> HIDE DEF Bad
  <2> QED BY <1>2, <2>2
<1> QED BY <1>3

(* Where a kid is missing there is a gap between the nodes. *)
LEMMA Gap ==
  ASSUME NEW t, NEW F, NEW pos, NEW bd, NEW hi, Framed(t, F, pos, bd, hi)
  PROVE  /\ \A q, r \in F : Inside(pos, bd, r, q) =>
              \/ r = q
              \/ pos[r] < pos[q] /\ t.left[q] # Null
              \/ pos[r] > pos[q] /\ t.right[q] # Null
         /\ \A r \in F : t.root \in F /\ Inside(pos, bd, r, t.root)
<1>1. PICK f : IsBelow(f, t)
  BY BelowExists
<1>2. F \subseteq Node /\ t.root \in F \cup {Null} /\ Null \notin F
  BY FramedTypes DEF Framed
<1>3. ASSUME NEW q \in F, NEW r \in F, Inside(pos, bd, r, q), r # q
      PROVE  \/ pos[r] < pos[q] /\ t.left[q] # Null
             \/ pos[r] > pos[q] /\ t.right[q] # Null
  <2>1. r \in f[q]
    BY <1>1, <1>3, InsideIsBelow
  <2>2. PICK s \in Side : t[s][q] # Null /\ r \in f[t[s][q]]
    BY <1>1, <1>2, <1>3, <2>1, BelowEq
  <2> DEFINE c == t[s][q]
  <2>3. c \in F /\ Inside(pos, bd, r, c) /\ bd[Other(s)][c] = pos[q]
    BY <1>1, <2>2, KidSide, BelowWithin
  <2>4. pos[r] \in Nat /\ pos[q] \in Nat
    BY FramedTypes
  <2> HIDE DEF c
  <2>5. CASE s = "left"
    BY <2>2, <2>3, <2>4, <2>5, Sides DEF Inside
  <2>6. CASE s = "right"
    BY <2>2, <2>3, <2>4, <2>6, Sides DEF Inside
  <2> QED BY <2>5, <2>6 DEF Side
<1>4. ASSUME NEW r \in F PROVE t.root \in F /\ Inside(pos, bd, r, t.root)
  <2>1. r \in f[t.root]
    BY <1>1, BelowRoot
  <2>2. t.root \in F
    BY <1>1, <1>2, <2>1, BelowEq
  <2> QED BY <1>1, <2>1, <2>2, BelowWithin
<1> QED BY <1>3, <1>4

-----------------------------------------------------------------------------
(* insert_bst.                                                             *)

Sorted(F, pos, key) == \A q, r \in F : pos[q] < pos[r] => key[q] <= key[r]

(* A search for the place of x has come to q. *)
Seeks(F, pos, bd, key, x, q) ==
  \A r \in F : /\ pos[r] <= bd["left"][q] => key[r] <= key[x]
               /\ pos[r] >= bd["right"][q] => key[x] <= key[r]
WayTo(key, x, q) == IF key[x] >= key[q] THEN "right" ELSE "left"

(* The nodes on one side of q do not lie on the wrong side of x. *)
LEMMA SeekSplits ==
  ASSUME NEW t, NEW F, NEW pos, NEW bd, NEW hi, Framed(t, F, pos, bd, hi),
         NEW key, key \in [Node -> Nat], Sorted(F, pos, key),
         NEW x, x \in Node, NEW q, q \in F, Seeks(F, pos, bd, key, x, q)
  PROVE  \A r \in F : /\ WayTo(key, x, q) = "right" /\ pos[r] <= pos[q] => key[r] <= key[x]
                      /\ WayTo(key, x, q) = "left" /\ pos[r] >= pos[q] => key[x] <= key[r]
<1> SUFFICES ASSUME NEW r \in F
             PROVE  /\ WayTo(key, x, q) = "right" /\ pos[r] <= pos[q] => key[r] <= key[x]
                    /\ WayTo(key, x, q) = "left" /\ pos[r] >= pos[q] => key[x] <= key[r]
  OBVIOUS
<1>1. /\ F \subseteq Node /\ key[r] \in Nat /\ key[q] \in Nat /\ key[x] \in Nat
      /\ pos[r] \in Nat /\ pos[q] \in Nat
  BY FramedTypes DEF Framed
<1>2. pos[r] = pos[q] => r = q
  <2> SUFFICES ASSUME pos[r] = pos[q] PROVE r = q
    OBVIOUS
  <2>1. Inside(pos, bd, r, q)
    BY DEF Framed, Spaced, Inside
  <2> QED BY <1>1, <2>1, Gap
<1>3. pos[r] < pos[q] => key[r] <= key[q]
  BY DEF Sorted
<1>4. pos[q] < pos[r] => key[q] <= key[r]
  BY DEF Sorted
<1>5. CASE WayTo(key, x, q) = "right"
  <2>1. key[x] >= key[q]
    BY <1>5 DEF WayTo
  <2> QED BY <1>1, <1>2, <1>3, <1>5, <2>1
<1>6. CASE WayTo(key, x, q) = "left"
  <2>1. key[x] < key[q]
    BY <1>1, <1>6 DEF WayTo
  <2> QED BY <1>1, <1>2, <1>4, <1>6, <2>1
<1> QED BY <1>5, <1>6

(* insert_bst's way down ends at a node with no kid on the way. *)
DownStop(t, key, x) == {q \in Node : t[WayTo(key, x, q)][q] = Null}
DownOn(t, key, x) == [q \in Node |-> t[WayTo(key, x, q)][q]]
Itself == [q \in Node |-> q]

(* It ends, and where x belongs.                                           *)
LEMMA DownEnds ==
  ASSUME NEW t, NEW F, NEW pos, NEW bd, NEW hi, Framed(t, F, pos, bd, hi),
         NEW key, key \in [Node -> Nat], Sorted(F, pos, key),
         NEW x, x \in Node, F # {},
         NEW f, Climbs(f, Node, DownStop(t, key, x), Itself, DownOn(t, key, x))
  PROVE  f[t.root] \in {q \in F : Seeks(F, pos, bd, key, x, q) /\ t[WayTo(key, x, q)][q] = Null}
<1> DEFINE P == {q \in F : Seeks(F, pos, bd, key, x, q)}
           R == {q \in F : Seeks(F, pos, bd, key, x, q) /\ t[WayTo(key, x, q)][q] = Null}
           mu == [q \in Link |-> Extent(F, bd, hi, q)]
           Stop == DownStop(t, key, x)
           g == DownOn(t, key, x)
<1>0. F \subseteq Node /\ \A q : WayTo(key, x, q) \in Side
  BY Sides DEF Framed, WayTo
<1>1. t.root \in P
  <2>1. PICK r \in F : TRUE
    OBVIOUS
  <2>2. t.root \in F /\ \A y \in F : Inside(pos, bd, y, t.root)
    BY <2>1, Gap
  <2>3. \A y \in F : pos[y] \in Nat
    BY FramedTypes
  <2>4. bd["left"][t.root] \in Nat /\ bd["right"][t.root] \in Nat
    BY <1>0, <2>2, FramedTypes, Sides
  <2>5. Seeks(F, pos, bd, key, x, t.root)
    BY <2>2, <2>3, <2>4 DEF Seeks, Inside
  <2> QED BY <2>2, <2>5
<1>m. /\ \A q \in F : mu[q] \in Nat
      /\ \A q \in F, s \in Side : mu[t[s][q]] < mu[q]
  <2>1. Falls(t, mu, hi + 1)
    BY ExtentFalls
  <2>2. \A q \in F : q \in Node /\ q \in Link
    BY <1>0 DEF Link
  <2> HIDE DEF mu
  <2> QED BY <2>1, <2>2 DEF Falls
<1> HIDE DEF mu
<1>2. ASSUME NEW q \in P
      PROVE  /\ mu[q] \in Nat
             /\ q \in Stop => Itself[q] \in R
             /\ q \notin Stop => g[q] \in P /\ mu[g[q]] < mu[q]
  <2> DEFINE w == WayTo(key, x, q)
             c == t[w][q]
  <2>1. q \in F /\ q \in Node /\ Seeks(F, pos, bd, key, x, q) /\ w \in Side
    BY <1>0
  <2>2. q \in Stop => Itself[q] \in R
    BY <2>1 DEF DownStop, Itself
  <2>3. ASSUME q \notin Stop PROVE g[q] \in P /\ mu[g[q]] < mu[q]
    <3>1. g[q] = c /\ c # Null
      BY <2>1, <2>3 DEF DownOn, DownStop
    <3>2. c \in F /\ bd[w][c] = bd[w][q] /\ bd[Other(w)][c] = pos[q]
      BY <2>1, <3>1, KidSide
    <3>3. \A r \in F : /\ w = "right" /\ pos[r] <= pos[q] => key[r] <= key[x]
                       /\ w = "left" /\ pos[r] >= pos[q] => key[x] <= key[r]
      BY <2>1, SeekSplits
    <3>4. mu[c] < mu[q]
      BY <1>m, <2>1
    <3> HIDE DEF w, c
    <3>5. Seeks(F, pos, bd, key, x, c)
      <4>1. CASE w = "right"
        BY <2>1, <3>2, <3>3, <4>1, Sides DEF Seeks
      <4>2. CASE w = "left"
        BY <2>1, <3>2, <3>3, <4>2, Sides DEF Seeks
      <4> QED BY <2>1, <4>1, <4>2 DEF Side
    <3> QED BY <3>1, <3>2, <3>4, <3>5
  <2> QED BY <1>m, <2>1, <2>2, <2>3
<1>3. Leads(P, R, Stop, Itself, g, mu)
  <2> HIDE DEF P, R, Stop, g
  <2> QED BY <1>2 DEF Leads
<1>4. P \subseteq Node
  BY <1>0
<1> HIDE DEF P
<1>5. f[t.root] \in R
  <2> HIDE DEF R
  <2> QED BY <1>1, <1>3, <1>4, ClimbEnds
<1> QED BY <1>5

PutLeaf(t, w, q, x) == [t EXCEPT ![w][q] = x, !.parent[x] = q]

LEMMA PutLeafAt ==
  ASSUME NEW t, t \in Tree, NEW w, w \in Side, NEW q, q \in Node, NEW x, x \in Node
  PROVE  /\ PutLeaf(t, w, q, x) \in Tree
         /\ PutLeaf(t, w, q, x).red = t.red
         /\ PutLeaf(t, w, q, x).root = t.root
         /\ \A a \in Side, y \in Node :
              PutLeaf(t, w, q, x)[a][y] = IF a = w /\ y = q THEN x ELSE t[a][y]
         /\ \A y \in Node : PutLeaf(t, w, q, x).parent[y] = IF y = x THEN q ELSE t.parent[y]
BY DEF Side, Tree, PutLeaf, Link

(* insert_bst puts x as a leaf where it belongs in the order.              *)
LEMMA InsertBstFinds ==
  ASSUME NEW t, NEW F, NEW pos, NEW bd, NEW hi, Framed(t, F, pos, bd, hi),
         NEW key, key \in [Node -> Nat], Sorted(F, pos, key),
         NEW x, x \in Node, F # {}
  PROVE  \E q \in F : /\ Seeks(F, pos, bd, key, x, q) /\ t[WayTo(key, x, q)][q] = Null
                      /\ InsertBst(t, key, x) = PutLeaf(Redden(t, x), WayTo(key, x, q), q, x)
<1> DEFINE Way(q) == IF key[x] >= key[q] THEN "right" ELSE "left"
           Body(f, q) == IF t[Way(q)][q] = Null THEN q ELSE f[t[Way(q)][q]]
           Stop == DownStop(t, key, x)
           g == DownOn(t, key, x)
           Last == CHOOSE h : h = [q \in Node |-> Body(h, q)]
<1>1. \A q : Way(q) = WayTo(key, x, q) /\ Way(q) \in Side
  BY Sides DEF WayTo
<1>2. Closed(Node, Node, Stop, g)
  <2> SUFFICES ASSUME NEW q \in Node, q \notin Stop PROVE g[q] \in Node
    BY DEF Closed
  <2>1. g[q] = t[Way(q)][q] /\ t[Way(q)][q] # Null
    BY <1>1 DEF DownStop, DownOn
  <2>2. t[Way(q)][q] \in Link
    <3> HIDE DEF Way
    <3> QED BY <1>1, FramedTypes
  <2> QED BY <2>1, <2>2 DEF Link
<1>3. ASSUME NEW f, NEW q \in Node PROVE Body(f, q) = Step(f, Stop, Itself, g, q)
  <2> HIDE DEF Way
  <2> QED BY <1>1 DEF Step, DownStop, DownOn, Itself
<1>4. \E h : h = [q \in Node |-> Body(h, q)]
  <2> HIDE DEF Body, Stop, g
  <2>1. \E h : Climbs(h, Node, Stop, Itself, g)
    BY <1>2, ClimbExists
  <2>2. PICK h : h = [q \in Node |-> Step(h, Stop, Itself, g, q)]
    BY <2>1 DEF Climbs
  <2>3. [q \in Node |-> Step(h, Stop, Itself, g, q)] = [q \in Node |-> Body(h, q)]
    BY <1>3
  <2> QED BY <2>2, <2>3
<1>5. Last = [q \in Node |-> Body(Last, q)]
  <2> HIDE DEF Body
  <2> QED BY <1>4
<1>6. t.root # Null
  BY Gap, FramedTypes
<1>7. LET q == Last[t.root]
      IN InsertBst(t, key, x) = [Redden(t, x) EXCEPT ![Way(q)][q] = x, !.parent[x] = q]
  BY <1>6 DEF InsertBst
<1> DEFINE q == Last[t.root]
<1>8. InsertBst(t, key, x) = PutLeaf(Redden(t, x), WayTo(key, x, q), q, x)
  <2>1. InsertBst(t, key, x) = PutLeaf(Redden(t, x), Way(q), q, x)
    <3> HIDE DEF Last, Way
    <3> QED BY <1>7 DEF PutLeaf
  <2>2. Way(q) = WayTo(key, x, q)
    BY <1>1
  <2> HIDE DEF q, Way
  <2> QED BY <2>1, <2>2
<1> HIDE DEF Last, Body
<1>9. Climbs(Last, Node, Stop, Itself, g)
  <2> HIDE DEF Stop, g
  <2>1. [y \in Node |-> Step(Last, Stop, Itself, g, y)] = [y \in Node |-> Body(Last, y)]
    BY <1>3
  <2> QED BY <1>5, <2>1 DEF Climbs
<1>10. q \in {y \in F : Seeks(F, pos, bd, key, x, y) /\ t[WayTo(key, x, y)][y] = Null}
  BY <1>9, DownEnds
<1> HIDE DEF q
<1> QED BY <1>8, <1>10

-----------------------------------------------------------------------------
(* A new leaf.                                                             *)

(* t is a red-black search tree of F by key. *)
TreeHolds(t, F, key) ==
  \E pos, hi : Balanced(t, F, pos, hi) /\ Sorted(F, pos, key)

(* Positions are doubled to make room for x next to q. *)
PosWith(pos, w, q, x) ==
  [y \in Node |-> IF y = x THEN (IF w = "left" THEN 2 * pos[q] - 1 ELSE 2 * pos[q] + 1)
                  ELSE 2 * pos[y]]
BdWith(bd, pos, w, q, x) ==
  [a \in Side |-> [y \in Node |-> IF y = x THEN (IF a = w THEN 2 * bd[a][q] ELSE 2 * pos[q])
                                  ELSE 2 * bd[a][y]]]

(* r is t with the red leaf x on side w of q. *)
Leafed(t, w, q, x, r) ==
  /\ r \in Tree /\ r.root = t.root /\ r.red = t.red \cup {x}
  /\ \A a \in Side, y \in Node : r[a][y] = IF a = w /\ y = q THEN x ELSE t[a][y]
  /\ \A y \in Node : r.parent[y] = IF y = x THEN q ELSE t.parent[y]

LEMMA LeafAt ==
  ASSUME NEW t, t \in Tree, Null \notin Node, NEW w, w \in Side, NEW q, q \in Node,
         NEW x, x \in Node
  PROVE  Leafed(t, w, q, x, PutLeaf(Redden(t, x), w, q, x))
<1> DEFINE u == Redden(t, x)
           v == PutLeaf(u, w, q, x)
<1>1. SameLinks(t, u) /\ u.red = t.red \cup ({x} \ {Null})
  BY ReddenAt DEF Link
<1> HIDE DEF u
<1>2. u \in Tree /\ x # Null
  BY <1>1 DEF SameLinks
<1>3. /\ v \in Tree /\ v.red = u.red /\ v.root = u.root
      /\ \A a \in Side, y \in Node : v[a][y] = IF a = w /\ y = q THEN x ELSE u[a][y]
      /\ \A y \in Node : v.parent[y] = IF y = x THEN q ELSE u.parent[y]
  BY <1>2, PutLeafAt
<1> HIDE DEF v
<1>4. Leafed(t, w, q, x, v)
  BY <1>1, <1>2, <1>3 DEF Leafed, SameLinks
<1> QED BY <1>4 DEF u, v

(* A new leaf is linked and between bounds.                                *)
LEMMA LeafFramed ==
  ASSUME NEW t, NEW F, NEW pos, NEW bd, NEW hi, Framed(t, F, pos, bd, hi),
         NEW w, w \in Side, NEW q, q \in F, t[w][q] = Null,
         NEW x, x \in Node, x \notin F,
         NEW r, Leafed(t, w, q, x, r)
  PROVE  Framed(r, F \cup {x}, PosWith(pos, w, q, x), BdWith(bd, pos, w, q, x), 2 * hi)
<1> DEFINE G == F \cup {x}
           p1 == PosWith(pos, w, q, x)
           b1 == BdWith(bd, pos, w, q, x)
<1>1. /\ t \in Tree /\ F \subseteq Node /\ Null \notin F /\ t.red \subseteq F /\ Null \notin Node
      /\ hi \in Nat /\ t.root \in F \cup {Null} /\ (t.root # Null => t.parent[t.root] = Null)
      /\ x # Null /\ q \in Node /\ q # x /\ q # Null
  BY FramedTypes DEF Framed
<1>2. /\ \A a \in Side, y \in Node : t[a][y] \in Link /\ bd[a][y] \in Nat
      /\ \A y \in Node : t.parent[y] \in Link /\ pos[y] \in Nat
  BY FramedTypes
<1>3. \A y \in F : bd["left"][y] < pos[y] /\ pos[y] < bd["right"][y] /\ bd["right"][y] <= hi
  BY DEF Framed, Spaced
<1>r. /\ r \in Tree /\ r.root = t.root /\ r.red = t.red \cup {x}
      /\ \A a \in Side, y \in Node : r[a][y] = IF a = w /\ y = q THEN x ELSE t[a][y]
      /\ \A y \in Node : r.parent[y] = IF y = x THEN q ELSE t.parent[y]
  BY DEF Leafed
<1>4. \A y \in Node \ F : t.parent[y] = Null /\ \A a \in Side : t[a][y] = Null
  BY DEF Framed, Unlinked1
<1>5. /\ \A y \in Node : y # x => p1[y] = 2 * pos[y]
      /\ p1[x] = IF w = "left" THEN 2 * pos[q] - 1 ELSE 2 * pos[q] + 1
  BY DEF PosWith
<1>6. \A a \in Side : /\ \A y \in Node : y # x => b1[a][y] = 2 * bd[a][y]
                      /\ b1[a][x] = IF a = w THEN 2 * bd[a][q] ELSE 2 * pos[q]
  BY DEF BdWith
<1>7. pos[q] >= 1 /\ pos[q] \in Nat /\ \A a \in Side : bd[a][q] \in Nat
  <2>1. bd["left"][q] < pos[q] /\ bd["left"][q] \in Nat /\ pos[q] \in Nat
    BY <1>1, <1>2, <1>3, Sides
  <2> QED BY <1>1, <1>2, <2>1
<1>8. p1 \in [Node -> Nat]
  <2>1. \A y \in Node : p1[y] \in Nat
    <3> HIDE DEF p1
    <3>1. \A y \in Node : pos[y] \in Nat
      BY <1>2
    <3>2. p1[x] \in Nat
      BY <1>5, <1>7
    <3>3. ASSUME NEW y \in Node, y # x PROVE p1[y] \in Nat
      <4>1. pos[y] \in Nat /\ p1[y] = 2 * pos[y]
        BY <1>5, <3>1, <3>3
      <4> QED BY <4>1
    <3> QED BY <3>2, <3>3
  <2> QED BY <2>1 DEF PosWith
<1>9. b1 \in [Side -> [Node -> Nat]]
  <2>1. \A a \in Side, y \in Node : b1[a][y] \in Nat
    <3> HIDE DEF b1
    <3>1. \A a \in Side : b1[a][x] \in Nat
      BY <1>6, <1>7
    <3>2. \A a \in Side, y \in Node : bd[a][y] \in Nat
      BY <1>2
    <3> QED BY <1>6, <3>1, <3>2
  <2> QED BY <2>1 DEF BdWith
<1> HIDE DEF p1, b1
<1>10. ASSUME NEW y \in G, NEW a \in Side PROVE KidFits(r, G, p1, b1, y, a)
  <2>0. y \in Node
    BY <1>1
  <2>1. CASE y = q /\ a = w
    <3>1. r[a][y] = x /\ r.parent[x] = q
      BY <1>1, <1>r, <2>1
    <3>2. b1[a][x] = 2 * bd[a][q] /\ b1[a][q] = 2 * bd[a][q] /\ b1[Other(a)][x] = 2 * pos[q] /\ p1[q] = 2 * pos[q]
      <4>1. Other(a) \in Side /\ Other(a) # w
        BY <2>1, Sides
      <4> QED BY <1>1, <1>5, <1>6, <2>1, <4>1
    <3> QED BY <2>1, <3>1, <3>2 DEF KidFits
  <2>2. CASE ~ (y = q /\ a = w)
    <3> DEFINE c == t[a][y]
    <3>1. r[a][y] = c
      BY <1>r, <2>0, <2>2
    <3>2. c # Null => y \in F
      BY <1>4, <2>0
    <3>3. c # Null => /\ c \in F /\ c \in Node /\ t.parent[c] = y
                      /\ bd[a][c] = bd[a][y] /\ bd[Other(a)][c] = pos[y]
      BY <3>2, KidSide
    <3> HIDE DEF c
    <3>4. c # Null => /\ c # x /\ y # x /\ r.parent[c] = y
      BY <1>r, <3>2, <3>3
    <3>5. Other(a) \in Side
      BY Sides
    <3>6. c # Null => b1[a][c] = b1[a][y] /\ b1[Other(a)][c] = p1[y]
      BY <1>5, <1>6, <2>0, <3>3, <3>4, <3>5
    <3> QED BY <3>1, <3>3, <3>4, <3>6 DEF KidFits
  <2> QED BY <2>1, <2>2
<1>11. ASSUME NEW y \in G PROVE Spaced(p1, b1, 2 * hi, y)
  <2>0. /\ y \in Node /\ "left" \in Side /\ "right" \in Side
        /\ bd["left"][y] \in Nat /\ bd["right"][y] \in Nat /\ pos[y] \in Nat
        /\ bd["left"][q] \in Nat /\ bd["right"][q] \in Nat /\ pos[q] \in Nat
        /\ bd["left"][q] < pos[q] /\ pos[q] < bd["right"][q] /\ bd["right"][q] <= hi
    BY <1>1, <1>2, <1>3, Sides
  <2>1. CASE y = x
    <3>1. /\ b1["left"][x] = IF w = "left" THEN 2 * bd["left"][q] ELSE 2 * pos[q]
          /\ b1["right"][x] = IF w = "right" THEN 2 * bd["right"][q] ELSE 2 * pos[q]
      BY <1>6, <2>0
    <3>2. w = "left" \/ w = "right"
      BY DEF Side
    <3> QED BY <1>1, <1>5, <2>0, <2>1, <3>1, <3>2 DEF Spaced
  <2>2. CASE y # x
    <3>1. y \in F /\ b1["left"][y] = 2 * bd["left"][y] /\ b1["right"][y] = 2 * bd["right"][y] /\ p1[y] = 2 * pos[y]
      BY <1>5, <1>6, <2>0, <2>2
    <3>2. bd["left"][y] < pos[y] /\ pos[y] < bd["right"][y] /\ bd["right"][y] <= hi
      BY <1>3, <3>1
    <3> QED BY <1>1, <2>0, <3>1, <3>2 DEF Spaced
  <2> QED BY <2>1, <2>2
<1>12. ASSUME NEW y \in G PROVE Placed(r, G, y)
  <2>1. CASE y = x
    <3>1. r.parent[y] = q /\ r[w][q] = x
      BY <1>1, <1>r, <2>1
    <3> QED BY <1>1, <2>1, <3>1 DEF Placed
  <2>2. CASE y # x
    <3>1. y \in F /\ y \in Node /\ r.parent[y] = t.parent[y] /\ y # Null
      BY <1>1, <1>r, <2>2
    <3>2. /\ t.parent[y] = Null => y = t.root
          /\ t.parent[y] # Null => t.parent[y] \in F /\ \E a \in Side : t[a][t.parent[y]] = y
      BY <3>1 DEF Framed, Placed
    <3>3. ASSUME NEW a \in Side, t.parent[y] \in F, t[a][t.parent[y]] = y PROVE r[a][t.parent[y]] = y
      BY <1>1, <1>r, <3>1, <3>3
    <3> QED BY <1>r, <3>1, <3>2, <3>3 DEF Placed
  <2> QED BY <2>1, <2>2
<1>13. ASSUME NEW y \in Node \ G PROVE Unlinked1(r, y)
  <2>1. y \in Node \ F /\ y # x /\ y # q
    OBVIOUS
  <2> QED BY <1>4, <1>r, <2>1 DEF Unlinked1
<1>14. G \subseteq Node /\ r.red \subseteq G /\ 2 * hi \in Nat /\ r.root \in G \cup {Null}
       /\ (r.root # Null => r.parent[r.root] = Null)
  BY <1>1, <1>r
<1>15. Framed(r, G, p1, b1, 2 * hi)
  <2> HIDE DEF G
  <2> QED BY <1>1, <1>r, <1>8, <1>9, <1>10, <1>11, <1>12, <1>13, <1>14 DEF Framed
<1> QED BY <1>15 DEF G, p1, b1

(* A red leaf changes no black height.                                     *)
LEMMA LeafEven ==
  ASSUME NEW t, NEW F, NEW pos, NEW bd, NEW hi, Framed(t, F, pos, bd, hi),
         NEW w, w \in Side, NEW q, q \in F, t[w][q] = Null,
         NEW x, x \in Node, x \notin F, NEW r, Leafed(t, w, q, x, r),
         NEW bh, Even(t, F, bh, t.red, {})
  PROVE  Even(r, F \cup {x}, [bh EXCEPT ![x] = 0], r.red, {})
<1> DEFINE b == [bh EXCEPT ![x] = 0]
<1>r. /\ r.red = t.red \cup {x}
      /\ \A a \in Side, y \in Node : r[a][y] = IF a = w /\ y = q THEN x ELSE t[a][y]
  BY DEF Leafed
<1>1. /\ F \subseteq Node /\ Null \notin F /\ t.red \subseteq F /\ Null \notin Node /\ x \in Link
      /\ \A a \in Side : t[a][x] = Null
      /\ \A y \in F, a \in Side : t[a][y] \in F \cup {Null}
  BY FramedTypes DEF Framed, Unlinked1, KidFits, Link
<1>2. /\ bh \in [Link -> Nat] /\ bh[Null] = 0
      /\ \A y \in F, a \in Side : bh[y] = bh[t[a][y]] + One(t[a][y] \in {}) + One(y \notin t.red)
  BY DEF Even, Level
<1>3. /\ b \in [Link -> Nat] /\ b[x] = 0 /\ \A y \in Link : y # x => b[y] = bh[y]
  BY <1>1, <1>2
<1>4. b[Null] = 0
  BY <1>1, <1>2, <1>3 DEF Link
<1> HIDE DEF b
<1>5. \A y \in F \cup {Null} : y \in Link /\ y # x
  BY <1>1 DEF Link
<1>6. ASSUME NEW y \in F \cup {x}, NEW a \in Side PROVE Level(r, b, r.red, {}, y, a)
  <2>1. CASE y = x
    <3>0. y # q /\ y \in Node
      BY <1>1, <2>1
    <3>1. r[a][y] = Null
      BY <1>1, <1>r, <2>1, <3>0
    <3>2. y \in r.red
      BY <1>r, <2>1
    <3>3. b[y] = 0 /\ b[r[a][y]] = 0
      BY <1>3, <1>4, <2>1, <3>1
    <3> QED BY <3>2, <3>3 DEF Level, One
  <2>2. CASE y # x
    <3>1. y \in F /\ y \in Node /\ b[y] = bh[y] /\ (y \in r.red <=> y \in t.red)
      BY <1>1, <1>3, <1>5, <1>r, <2>2
    <3>2. bh[y] = bh[t[a][y]] + One(t[a][y] \in {}) + One(y \notin t.red)
      BY <1>2, <3>1
    <3>3. b[r[a][y]] = bh[t[a][y]]
      <4>1. CASE y = q /\ a = w
        BY <1>2, <1>3, <1>r, <3>1, <4>1
      <4>2. CASE ~ (y = q /\ a = w)
        <5>1. r[a][y] = t[a][y]
          BY <1>r, <3>1, <4>2
        <5> QED BY <1>1, <1>3, <1>5, <3>1, <5>1
      <4> QED BY <4>1, <4>2
    <3> QED BY <3>1, <3>2, <3>3 DEF Level, One
  <2> QED BY <2>1, <2>2
<1> QED BY <1>3, <1>4, <1>6 DEF Even, b

(* It is in order.                                                         *)
LEMMA LeafSorted ==
  ASSUME NEW t, NEW F, NEW pos, NEW bd, NEW hi, Framed(t, F, pos, bd, hi),
         NEW key, key \in [Node -> Nat], Sorted(F, pos, key),
         NEW x, x \in Node, x \notin F, NEW q, q \in F,
         Seeks(F, pos, bd, key, x, q), t[WayTo(key, x, q)][q] = Null
  PROVE  Sorted(F \cup {x}, PosWith(pos, WayTo(key, x, q), q, x), key)
<1> DEFINE w == WayTo(key, x, q)
           p1 == PosWith(pos, w, q, x)
<1>1. /\ F \subseteq Node /\ q \in Node
      /\ \A y \in F : pos[y] \in Nat /\ y \in Node /\ y # x
      /\ bd["left"][q] \in Nat /\ bd["right"][q] \in Nat /\ pos[q] \in Nat
      /\ bd["left"][q] < pos[q] /\ pos[q] < bd["right"][q]
  BY FramedTypes, Sides DEF Framed, Spaced
<1>2. w \in Side /\ (w = "left" \/ w = "right")
  BY Sides DEF WayTo
<1>3. \A r \in F : /\ w = "right" /\ pos[r] <= pos[q] => key[r] <= key[x]
                   /\ w = "left" /\ pos[r] >= pos[q] => key[x] <= key[r]
  BY SeekSplits
<1>4. \A r \in F : /\ pos[r] <= bd["left"][q] => key[r] <= key[x]
                   /\ pos[r] >= bd["right"][q] => key[x] <= key[r]
  BY DEF Seeks
<1>5. \A r \in F : /\ w = "right" /\ pos[r] > pos[q] => pos[r] >= bd["right"][q]
                   /\ w = "left" /\ pos[r] < pos[q] => pos[r] <= bd["left"][q]
  <2> SUFFICES ASSUME NEW r \in F
               PROVE  /\ w = "right" /\ pos[r] > pos[q] => pos[r] >= bd["right"][q]
                      /\ w = "left" /\ pos[r] < pos[q] => pos[r] <= bd["left"][q]
    OBVIOUS
  <2>1. Inside(pos, bd, r, q) => \/ r = q
                                 \/ pos[r] < pos[q] /\ t.left[q] # Null
                                 \/ pos[r] > pos[q] /\ t.right[q] # Null
    BY Gap
  <2>2. pos[r] \in Nat
    BY <1>1
  <2>3. t[w][q] = Null
    OBVIOUS
  <2> HIDE DEF w
  <2> QED BY <1>1, <2>1, <2>2, <2>3 DEF Inside
<1>6. /\ \A y \in F : p1[y] = 2 * pos[y]
      /\ p1[x] = IF w = "left" THEN 2 * pos[q] - 1 ELSE 2 * pos[q] + 1
  BY <1>1 DEF PosWith
<1> HIDE DEF p1, w
<1>7. ASSUME NEW y \in F \cup {x}, NEW z \in F \cup {x}, p1[y] < p1[z] PROVE key[y] <= key[z]
  <2>1. CASE y = x /\ z = x
    <3>1. key[x] \in Nat
      OBVIOUS
    <3> QED BY <2>1, <3>1
  <2>2. CASE y \in F /\ z \in F
    <3>1. pos[y] < pos[z]
      BY <1>1, <1>6, <1>7, <2>2
    <3> QED BY <2>2, <3>1 DEF Sorted
  <2>3. CASE y = x /\ z \in F
    <3>1. pos[z] \in Nat /\ p1[z] = 2 * pos[z]
      BY <1>1, <1>6, <2>3
    <3>2. CASE w = "right"
      <4>1. pos[z] > pos[q]
        BY <1>1, <1>6, <1>7, <2>3, <3>1, <3>2
      <4> QED BY <1>4, <1>5, <2>3, <3>2, <4>1
    <3>3. CASE w = "left"
      <4>1. pos[z] >= pos[q]
        BY <1>1, <1>6, <1>7, <2>3, <3>1, <3>3
      <4> QED BY <1>3, <2>3, <3>3, <4>1
    <3> QED BY <1>2, <3>2, <3>3
  <2>4. CASE y \in F /\ z = x
    <3>1. pos[y] \in Nat /\ p1[y] = 2 * pos[y]
      BY <1>1, <1>6, <2>4
    <3>2. CASE w = "right"
      <4>1. pos[y] <= pos[q]
        BY <1>1, <1>6, <1>7, <2>4, <3>1, <3>2
      <4> QED BY <1>3, <2>4, <3>2, <4>1
    <3>3. CASE w = "left"
      <4>1. pos[y] < pos[q]
        BY <1>1, <1>6, <1>7, <2>4, <3>1, <3>3
      <4> QED BY <1>4, <1>5, <2>4, <3>3, <4>1
    <3> QED BY <1>2, <3>2, <3>3
  <2> QED BY <2>1, <2>2, <2>3, <2>4
<1> QED BY <1>7 DEF Sorted, p1, w

-----------------------------------------------------------------------------
(* insert.                                                                 *)

(* Insertion below a node of the tree. *)
LEMMA InsertGrows ==
  ASSUME NEW t, NEW F, NEW key, key \in [Node -> Nat], TreeHolds(t, F, key), F # {},
         NEW x, x \in Node, x \notin F
  PROVE  TreeHolds(Insert(t, key, x), F \cup {x}, key)
<1>1. PICK pos, hi : Balanced(t, F, pos, hi) /\ Sorted(F, pos, key)
  BY DEF TreeHolds
<1>2. PICK bd, bh : Framed(t, F, pos, bd, hi) /\ Even(t, F, bh, t.red, {}) /\ Colors(t, {})
  BY <1>1 DEF Balanced
<1>3. PICK q \in F : /\ Seeks(F, pos, bd, key, x, q) /\ t[WayTo(key, x, q)][q] = Null
                     /\ InsertBst(t, key, x) = PutLeaf(Redden(t, x), WayTo(key, x, q), q, x)
  BY <1>1, <1>2, InsertBstFinds
<1> DEFINE w == WayTo(key, x, q)
           r == PutLeaf(Redden(t, x), w, q, x)
           G == F \cup {x}
           p1 == PosWith(pos, w, q, x)
           b1 == BdWith(bd, pos, w, q, x)
<1>4. w \in Side
  BY Sides DEF WayTo
<1>5. Sorted(G, p1, key)
  BY <1>1, <1>2, <1>3, LeafSorted
<1>6. Insert(t, key, x) = InsertCase1(r, x)
  BY <1>3 DEF Insert
<1> HIDE DEF w, r
<1>l. Leafed(t, w, q, x, r)
  <2>1. t \in Tree /\ Null \notin Node /\ q \in Node
    BY <1>2 DEF Framed
  <2> HIDE DEF w
  <2>2. Leafed(t, w, q, x, PutLeaf(Redden(t, x), w, q, x))
    BY <1>4, <2>1, LeafAt
  <2> QED BY <2>2 DEF r
<1>q. q \in F /\ t[w][q] = Null
  BY <1>3 DEF w
<1>7. /\ r.root = t.root /\ r.red = t.red \cup {x}
      /\ \A y \in Node : r.parent[y] = IF y = x THEN q ELSE t.parent[y]
  BY <1>l DEF Leafed
<1>f. Framed(r, G, p1, b1, 2 * hi)
  BY <1>2, <1>4, <1>l, <1>q, LeafFramed
<1>8. Even(r, G, [bh EXCEPT ![x] = 0], r.red, {})
  BY <1>2, <1>4, <1>l, <1>q, LeafEven
<1> HIDE DEF G, p1, b1
<1>9. Colors(r, {x})
  <2>1. /\ F \subseteq Node /\ Null \notin Node /\ t.root \in F \cup {Null} /\ t.red \subseteq F
        /\ \A y \in F : t.parent[y] \in F \cup {Null}
    BY <1>2 DEF Framed, Placed
  <2>2. x # Null /\ x \notin F
    BY <2>1
  <2>3. ASSUME NEW y \in r.red \ {x} PROVE r.parent[y] \notin r.red
    <3>1. y \in t.red /\ y \in F /\ y \in Node /\ r.parent[y] = t.parent[y]
      BY <1>7, <2>1, <2>3
    <3>2. t.parent[y] \notin t.red /\ t.parent[y] # x
      BY <1>2, <2>1, <2>2, <3>1 DEF Colors
    <3> QED BY <1>7, <3>1, <3>2
  <2>4. r.root \notin r.red \ {x}
    BY <1>2, <1>7 DEF Colors
  <2> QED BY <2>3, <2>4 DEF Colors
<1>10. Balanced(InsertCase1(r, x), G, p1, 2 * hi)
  <2>1. x \in r.red
    BY <1>7
  <2> QED BY <1>f, <1>8, <1>9, <2>1, InsertCase1Balances
<1> QED BY <1>5, <1>6, <1>10 DEF TreeHolds, G

(* Insertion into an empty tree. *)
LEMMA InsertFirst ==
  ASSUME NEW t, NEW key, key \in [Node -> Nat], TreeHolds(t, {}, key), NEW x, x \in Node
  PROVE  TreeHolds(Insert(t, key, x), {x}, key)
<1>1. PICK pos0, hi0, bd0 : Framed(t, {}, pos0, bd0, hi0)
  BY DEF TreeHolds, Balanced
<1>2. /\ Null \notin Node /\ t \in Tree /\ t.red = {} /\ t.root = Null
      /\ \A y \in Node : t.parent[y] = Null /\ \A a \in Side : t[a][y] = Null
  BY <1>1 DEF Framed, Unlinked1
<1> DEFINE r == PutRoot(t, x)
           u == Blacken(r, x)
<1>3. InsertBst(t, key, x) = r
  BY <1>2 DEF InsertBst, PutRoot
<1>4. /\ r \in Tree /\ r.red = {} /\ r.root = x
      /\ \A y \in Node : r.parent[y] = Null /\ \A a \in Side : r[a][y] = Null
  <2>1. x \in Link
    BY DEF Link
  <2>2. /\ r \in Tree /\ r.red = t.red /\ r.root = x /\ r.parent = t.parent
        /\ \A a \in Side, y \in Node : r[a][y] = t[a][y]
    BY <1>2, <2>1, PutRootAt
  <2> HIDE DEF r
  <2> QED BY <1>2, <2>2
<1>5. Insert(t, key, x) = InsertCase1(r, x)
  BY <1>3 DEF Insert
<1> HIDE DEF r
<1>6. InsertCase1(r, x) = u
  <2>1. PICK f : Climbs(f, Places, RiseStop, RiseEnd, RiseOn) /\ InsertCase1(r, x) = f[At(r, x)]
    BY <1>2, InsertCase1Climbs
  <2>2. At(r, x) \in Places /\ At(r, x).t = r /\ At(r, x).p = x
    BY <1>4, PlaceOf
  <2>3. ~ RedFamily(r, x)
    BY <1>4 DEF RedFamily
  <2>4. At(r, x) \in RiseStop
    BY <2>2, <2>3 DEF RiseStop
  <2>5. f[At(r, x)] = Step(f, RiseStop, RiseEnd, RiseOn, At(r, x))
    BY <2>1, <2>2 DEF Climbs
  <2>6. RiseEnd[At(r, x)] = Settled(r, x)
    BY <2>2 DEF RiseEnd
  <2>7. Settled(r, x) = u
    BY <1>4 DEF Settled
  <2> HIDE DEF u
  <2> QED BY <2>1, <2>4, <2>5, <2>6, <2>7 DEF Step
<1>7. SameLinks(r, u) /\ u.red = {}
  BY <1>4, BlackenAt
<1> HIDE DEF u
<1>8. /\ u \in Tree /\ u.red = {} /\ u.root = x
      /\ \A y \in Node : u.parent[y] = Null /\ \A a \in Side : u[a][y] = Null
  BY <1>4, <1>7 DEF SameLinks
<1> DEFINE pos == [y \in Node |-> 1]
           bd == [a \in Side |-> [y \in Node |-> IF a = "left" THEN 0 ELSE 2]]
           bh == [y \in Link |-> IF y = Null THEN 0 ELSE 1]
<1>9. x \in Node /\ Null \notin {x}
  BY <1>2
<1>10. Framed(u, {x}, pos, bd, 2)
  <2>1. pos \in [Node -> Nat] /\ bd \in [Side -> [Node -> Nat]] /\ 2 \in Nat
    OBVIOUS
  <2>2. pos[x] = 1 /\ bd["left"][x] = 0 /\ bd["right"][x] = 2
    BY Sides
  <2> HIDE DEF pos, bd
  <2>3. Spaced(pos, bd, 2, x)
    BY <2>2 DEF Spaced
  <2>4. Placed(u, {x}, x)
    BY <1>8 DEF Placed
  <2>5. \A s \in Side : KidFits(u, {x}, pos, bd, x, s)
    BY <1>8 DEF KidFits
  <2>6. \A y \in Node : Unlinked1(u, y)
    BY <1>8 DEF Unlinked1
  <2> QED BY <1>2, <1>8, <1>9, <2>1, <2>3, <2>4, <2>5, <2>6 DEF Framed
<1>11. Even(u, {x}, bh, u.red, {})
  <2>1. bh \in [Link -> Nat] /\ bh[Null] = 0 /\ bh[x] = 1
    BY <1>9 DEF Link
  <2> HIDE DEF bh
  <2>2. \A a \in Side : Level(u, bh, u.red, {}, x, a)
    BY <1>8, <2>1 DEF Level, One
  <2> QED BY <2>1, <2>2 DEF Even
<1>12. Colors(u, {})
  BY <1>8 DEF Colors
<1>13. Sorted({x}, pos, key)
  <2>1. pos[x] = 1
    OBVIOUS
  <2> HIDE DEF pos
  <2> QED BY <2>1 DEF Sorted
<1> HIDE DEF pos, bd, bh
<1>14. Balanced(u, {x}, pos, 2)
  BY <1>10, <1>11, <1>12 DEF Balanced
<1> QED BY <1>5, <1>6, <1>13, <1>14 DEF TreeHolds

(* insert keeps a red-black search tree, of the nodes it had and x.        *)
LEMMA InsertHolds ==
  ASSUME NEW t, NEW F, NEW key, key \in [Node -> Nat], TreeHolds(t, F, key),
         NEW x, x \in Node, x \notin F
  PROVE  TreeHolds(Insert(t, key, x), F \cup {x}, key)
<1>1. CASE F = {}
  <2>1. F \cup {x} = {x}
    BY <1>1
  <2> QED BY <1>1, <2>1, InsertFirst
<1>2. CASE F # {}
  BY <1>2, InsertGrows
<1> QED BY <1>1, <1>2

-----------------------------------------------------------------------------
(* Taking out a leaf.                                                      *)

IsLeaf(t, z) == \A a \in Side : t[a][z] = Null

(* r is t without the leaf p. *)
Plucked(t, p, r) ==
  /\ r \in Tree /\ r.red = t.red \ {p}
  /\ r.root = IF p = t.root THEN Null ELSE t.root
  /\ \A a \in Side, q \in Node : r[a][q] = IF t[a][q] = p THEN Null ELSE t[a][q]
  /\ \A q \in Node : r.parent[q] = IF q = p THEN Null ELSE t.parent[q]

PutOff(u, p) == [u EXCEPT !.parent[p] = Null, !.red = @ \ {p}]

LEMMA PutOffAt ==
  ASSUME NEW u, u \in Tree, NEW p, p \in Node
  PROVE  /\ PutOff(u, p) \in Tree /\ PutOff(u, p).root = u.root
         /\ PutOff(u, p).red = u.red \ {p}
         /\ \A a \in Side, q \in Node : PutOff(u, p)[a][q] = u[a][q]
         /\ \A q \in Node : PutOff(u, p).parent[q] = IF q = p THEN Null ELSE u.parent[q]
BY DEF Side, Tree, PutOff, Link

LEMMA CutAt ==
  ASSUME NEW t, NEW F, NEW pos, NEW bd, NEW hi, Framed(t, F, pos, bd, hi), NEW p, p \in F
  PROVE  Plucked(t, p, Cut(t, p))
<1> DEFINE u == Hang(t, t.parent[p], p, Null)
           r == PutOff(u, p)
<1>1. Cut(t, p) = r
  BY DEF Cut, PutOff
<1>2. p \in Node /\ Null \in Link
  BY DEF Framed, Link
<1>3. /\ u \in Tree /\ u.red = t.red /\ u.parent = t.parent
      /\ u.root = IF p = t.root THEN Null ELSE t.root
      /\ \A a \in Side, q \in Node : u[a][q] = IF t[a][q] = p THEN Null ELSE t[a][q]
  BY <1>2, HangAt
<1> HIDE DEF u
<1>4. /\ r \in Tree /\ r.root = u.root /\ r.red = u.red \ {p}
      /\ \A a \in Side, q \in Node : r[a][q] = u[a][q]
      /\ \A q \in Node : r.parent[q] = IF q = p THEN Null ELSE u.parent[q]
  BY <1>2, <1>3, PutOffAt
<1> HIDE DEF r
<1>5. Plucked(t, p, r)
  BY <1>3, <1>4 DEF Plucked
<1> QED BY <1>1, <1>5

(* What is left after a leaf is taken out is linked and between bounds.    *)
LEMMA PluckedFramed ==
  ASSUME NEW t, NEW F, NEW pos, NEW bd, NEW hi, Framed(t, F, pos, bd, hi),
         NEW p, p \in F, IsLeaf(t, p), NEW r, Plucked(t, p, r)
  PROVE  Framed(r, F \ {p}, pos, bd, hi)
<1>1. /\ Null \notin Node /\ t \in Tree /\ F \subseteq Node /\ t.red \subseteq F
      /\ pos \in [Node -> Nat] /\ bd \in [Side -> [Node -> Nat]] /\ hi \in Nat
      /\ t.root \in F \cup {Null} /\ (t.root # Null => t.parent[t.root] = Null)
      /\ Null \notin F /\ p # Null
  BY FramedTypes DEF Framed
<1>r. /\ r \in Tree /\ r.red = t.red \ {p}
      /\ r.root = IF p = t.root THEN Null ELSE t.root
      /\ \A a \in Side, q \in Node : r[a][q] = IF t[a][q] = p THEN Null ELSE t[a][q]
      /\ \A q \in Node : r.parent[q] = IF q = p THEN Null ELSE t.parent[q]
  BY DEF Plucked
<1>l. \A a \in Side : t[a][p] = Null
  BY DEF IsLeaf
<1>2. \A y \in Node \ F : t.parent[y] = Null /\ \A a \in Side : t[a][y] = Null
  BY DEF Framed, Unlinked1
<1>3. ASSUME NEW y \in F \ {p}, NEW a \in Side PROVE KidFits(r, F \ {p}, pos, bd, y, a)
  <2>1. KidFits(t, F, pos, bd, y, a) /\ y \in Node
    BY <1>1 DEF Framed
  <2>2. r[a][y] = IF t[a][y] = p THEN Null ELSE t[a][y]
    BY <1>r, <2>1
  <2>3. t[a][y] \in F /\ t[a][y] # p => r.parent[t[a][y]] = t.parent[t[a][y]]
    BY <1>1, <1>r
  <2> QED BY <1>1, <2>1, <2>2, <2>3 DEF KidFits
<1>4. ASSUME NEW y \in F \ {p} PROVE Placed(r, F \ {p}, y)
  <2>1. Placed(t, F, y) /\ y \in Node /\ r.parent[y] = t.parent[y]
    BY <1>1, <1>r DEF Framed
  <2>2. t.parent[y] # Null => /\ t.parent[y] \in F /\ t.parent[y] \in Node /\ t.parent[y] # p
                              /\ \E a \in Side : t[a][t.parent[y]] = y
    BY <1>1, <1>l, <2>1 DEF Placed
  <2>3. t.parent[y] # Null => \E a \in Side : r[a][t.parent[y]] = y
    BY <1>r, <2>2
  <2>4. t.parent[y] = Null => y = r.root
    BY <1>r, <2>1 DEF Placed
  <2> QED BY <2>1, <2>2, <2>3, <2>4 DEF Placed
<1>5. ASSUME NEW y \in F \ {p} PROVE Spaced(pos, bd, hi, y)
  BY DEF Framed
<1>6. ASSUME NEW y \in Node \ (F \ {p}) PROVE Unlinked1(r, y)
  <2>1. CASE y = p
    BY <1>1, <1>l, <1>r, <2>1 DEF Unlinked1
  <2>2. CASE y # p
    BY <1>2, <1>r, <2>2 DEF Unlinked1
  <2> QED BY <2>1, <2>2
<1>7. /\ r.root \in (F \ {p}) \cup {Null} /\ r.red \subseteq F \ {p} /\ F \ {p} \subseteq Node
      /\ (r.root # Null => r.parent[r.root] = Null)
  BY <1>1, <1>r
<1> QED BY <1>1, <1>r, <1>3, <1>4, <1>5, <1>6, <1>7 DEF Framed

(* A leaf outside the count of black nodes is cut off. *)
LEMMA CutBalances ==
  ASSUME NEW t, NEW F, NEW pos, NEW bd, NEW hi, Framed(t, F, pos, bd, hi),
         NEW p, p \in F, IsLeaf(t, p),
         NEW bh, Even(t, F, bh, t.red \cup {p}, {}), Colors(t, {})
  PROVE  Balanced(Cut(t, p), F \ {p}, pos, hi)
<1> DEFINE r == Cut(t, p)
<1>1. Plucked(t, p, r)
  BY CutAt
<1> HIDE DEF r
<1>2. Framed(r, F \ {p}, pos, bd, hi)
  BY <1>1, PluckedFramed
<1>3. /\ Null \notin Node /\ F \subseteq Node /\ t.red \subseteq F /\ p \in Node
      /\ \A y \in F, a \in Side : t[a][y] \in F \cup {Null}
  BY DEF Framed, KidFits
<1>r. /\ r.red = t.red \ {p}
      /\ r.root = IF p = t.root THEN Null ELSE t.root
      /\ \A a \in Side, q \in Node : r[a][q] = IF t[a][q] = p THEN Null ELSE t[a][q]
      /\ \A q \in Node : r.parent[q] = IF q = p THEN Null ELSE t.parent[q]
  BY <1>1 DEF Plucked
<1>4. Even(r, F \ {p}, bh, r.red, {})
  <2>1. /\ bh \in [Link -> Nat] /\ bh[Null] = 0
        /\ \A y \in F, a \in Side : bh[y] = bh[t[a][y]] + One(t[a][y] \in {}) + One(y \notin t.red \cup {p})
    BY DEF Even, Level
  <2>2. bh[p] = 0
    <3>1. "left" \in Side /\ t["left"][p] = Null
      BY Sides DEF IsLeaf
    <3>2. bh[p] = bh[Null] + One(Null \in {}) + One(p \notin t.red \cup {p})
      BY <2>1, <3>1
    <3> QED BY <2>1, <3>2 DEF One
  <2>3. ASSUME NEW y \in F \ {p}, NEW a \in Side PROVE Level(r, bh, r.red, {}, y, a)
    <3>1. bh[y] = bh[t[a][y]] + One(t[a][y] \in {}) + One(y \notin t.red \cup {p})
      BY <2>1
    <3>2. bh[r[a][y]] = bh[t[a][y]] /\ y \in Node
      BY <1>3, <1>r, <2>1, <2>2
    <3>3. y \notin t.red \cup {p} <=> y \notin r.red
      BY <1>r
    <3> QED BY <3>1, <3>2, <3>3 DEF Level, One
  <2> QED BY <2>1, <2>3 DEF Even
<1>5. Colors(r, {})
  <2>1. r.root \notin r.red
    BY <1>3, <1>r DEF Colors
  <2>2. ASSUME NEW y \in r.red PROVE r.parent[y] \notin r.red
    <3>1. y \in t.red /\ y # p /\ y \in Node
      BY <1>3, <1>r
    <3> QED BY <1>r, <3>1 DEF Colors
  <2> QED BY <2>1, <2>2 DEF Colors
<1>6. Balanced(r, F \ {p}, pos, hi)
  BY <1>2, <1>4, <1>5 DEF Balanced
<1> QED BY <1>6 DEF r

-----------------------------------------------------------------------------
(* delete_case1 to delete_case6 on a tree that misses a black node.        *)

(* A tree of which the leaf z is to be taken out does not count z; the     *)
(* subtrees of S miss a black node for that.                               *)
Sunken(t, F, z, S) ==
  /\ z \in F /\ z \notin t.red /\ IsLeaf(t, z) /\ Colors(t, {})
  /\ \E bh : Even(t, F, bh, t.red \cup {z}, S)

(* The surroundings of a node whose subtree misses one. *)
Beneath(t, F, z, x, bh, q, d, s) ==
  /\ q = t.parent[x] /\ q \in F /\ q # x /\ q # z /\ q # Null
  /\ d \in Side /\ d = SideOf(t, x) /\ t[d][q] = x
  /\ s = t[Other(d)][q] /\ s = Sibling(t, x) /\ t.parent[s] = q
  /\ s \in F /\ s # Null /\ s # x /\ s # q /\ s # z
  /\ bh[s] = bh[x] + 1 /\ bh[q] = bh[s] + One(q \notin t.red)
  /\ bh \in [Link -> Nat] /\ bh[Null] = 0
  /\ \A y \in F : y \in Node /\ y \in Link /\ y # Null

LEMMA SinkAround ==
  ASSUME NEW t, NEW F, NEW pos, NEW bd, NEW hi, Framed(t, F, pos, bd, hi),
         NEW z, z \in F, z \notin t.red, IsLeaf(t, z), NEW x, x \in F,
         NEW bh, Even(t, F, bh, t.red \cup {z}, {x}), t.parent[x] # Null
  PROVE  Beneath(t, F, z, x, bh, t.parent[x], SideOf(t, x), Sibling(t, x))
<1> DEFINE q == t.parent[x]
           d == SideOf(t, x)
           s == Sibling(t, x)
           W == t.red \cup {z}
<1>1. /\ F \subseteq Node /\ Null \notin F /\ Null \notin Node
      /\ \A y \in F : y \in Node /\ y \in Link /\ y # Null
      /\ \A a \in Side, y \in Node : t[a][y] \in Link
  <2>1. \A y \in Node : y \in Link
    BY DEF Link
  <2> QED BY <2>1, FramedTypes DEF Framed
<1>2. q \in F /\ q # x /\ d \in Side /\ t[d][q] = x
  BY KidOfParent
<1>3. q # z
  BY <1>1, <1>2 DEF IsLeaf
<1>4. s = t[Other(d)][q] /\ Other(d) \in Side /\ s # x
  <2>1. t[d][q] # Null
    BY <1>1, <1>2
  <2> HIDE DEF q, d
  <2>2. t[Other(d)][q] # t[d][q] /\ Sibling(t, t[d][q]) = t[Other(d)][q]
    BY <1>2, <2>1, SideOfKid
  <2> QED BY <1>2, <2>2, Sides
<1> HIDE DEF q, d, s
<1>5. /\ bh \in [Link -> Nat] /\ bh[Null] = 0
      /\ \A y \in F, a \in Side : bh[y] = bh[t[a][y]] + One(t[a][y] \in {x}) + One(y \notin W)
  BY DEF Even, Level
<1>6. bh[x] \in Nat /\ bh[s] \in Nat /\ bh[q] \in Nat
  BY <1>1, <1>2, <1>4, <1>5
<1>7. bh[q] = bh[x] + 1 + One(q \notin W)
  <2>1. bh[q] = bh[t[d][q]] + One(t[d][q] \in {x}) + One(q \notin W)
    BY <1>2, <1>5
  <2> QED BY <1>2, <2>1 DEF One
<1>8. bh[q] = bh[s] + One(q \notin W)
  <2>1. bh[q] = bh[s] + One(s \in {x}) + One(q \notin W)
    BY <1>2, <1>4, <1>5
  <2> QED BY <1>4, <1>6, <2>1 DEF One
<1>9. One(q \notin W) = One(q \notin t.red) /\ One(q \notin W) \in Nat
  BY <1>3 DEF One
<1>10. bh[s] = bh[x] + 1
  BY <1>6, <1>7, <1>8, <1>9
<1>11. s # Null
  BY <1>5, <1>6, <1>10
<1>12. s \in F /\ s # q /\ t.parent[s] = q
  BY <1>2, <1>4, <1>11, KidSide
<1>13. s # z
  <2>1. bh[z] = 0
    <3>1. "left" \in Side /\ t["left"][z] = Null
      BY Sides DEF IsLeaf
    <3>2. bh[z] = bh[Null] + One(Null \in {x}) + One(z \notin W)
      BY <1>5, <3>1
    <3> QED BY <1>1, <1>5, <3>2 DEF One
  <2> QED BY <1>6, <1>10, <2>1
<1>14. Beneath(t, F, z, x, bh, q, d, s)
  <2>1. bh[q] = bh[s] + One(q \notin t.red)
    BY <1>8, <1>9
  <2>2. q = t.parent[x] /\ d = SideOf(t, x) /\ s = Sibling(t, x)
    BY DEF q, d, s
  <2> HIDE DEF W
  <2>3. q # Null
    BY <1>1, <1>2
  <2> QED BY <1>1, <1>2, <1>3, <1>4, <1>5, <1>10, <1>11, <1>12, <1>13, <2>1, <2>2, <2>3 DEF Beneath
<1> QED BY <1>14 DEF q, d, s

(* delete_case2. *)
LEMMA Case2Sinks ==
  ASSUME NEW t, NEW F, NEW pos, NEW bd, NEW hi, Framed(t, F, pos, bd, hi),
         NEW z, NEW x, x \in F, x \notin t.red, Sunken(t, F, z, {x}), t.parent[x] # Null,
         NEW r, r = DeleteCase2(t, x)
  PROVE  /\ \E b : Framed(r, F, pos, b, hi)
         /\ Sunken(r, F, z, {x}) /\ x \notin r.red
         /\ r.parent[x] = t.parent[x]
         /\ Sibling(r, x) \notin r.red
         /\ r.parent[x] \notin r.red => r = t
<1> DEFINE q == t.parent[x]
           d == SideOf(t, x)
           s == Sibling(t, x)
<1>1. CASE s \notin t.red
  BY <1>1 DEF DeleteCase2
<1>2. CASE s \in t.red
  <2>0. PICK bh : Even(t, F, bh, t.red \cup {z}, {x})
    BY DEF Sunken
  <2>z. z \in F /\ z \notin t.red /\ IsLeaf(t, z) /\ Colors(t, {})
    BY DEF Sunken
  <2>1. Beneath(t, F, z, x, bh, q, d, s)
    BY <2>0, <2>z, SinkAround
  <2> DEFINE u == Blacken(Redden(t, q), s)
             v == Rotate(u, d, q)
             W == t.red \cup {z}
  <2>2. r = v
    BY <1>2 DEF DeleteCase2
  <2> HIDE DEF q, d, s
  <2>3. /\ q = t.parent[x] /\ q \in F /\ q # x /\ q # z /\ q # Null
        /\ d \in Side /\ d = SideOf(t, x) /\ t[d][q] = x
        /\ s = t[Other(d)][q] /\ s = Sibling(t, x) /\ t.parent[s] = q
        /\ s \in F /\ s # Null /\ s # x /\ s # q /\ s # z
        /\ \A y \in F : y \in Node /\ y \in Link /\ y # Null
    BY <2>1 DEF Beneath
  <2>4. t \in Tree /\ t.red \subseteq F /\ Null \notin F /\ F \subseteq Node
    BY FramedTypes DEF Framed
  <2>5. q \notin t.red
    <3>1. t.parent[s] \notin t.red
      BY <1>2, <2>z DEF Colors
    <3> QED BY <2>3, <3>1
  <2>6. SameLinks(t, u) /\ u.red = (t.red \cup {q}) \ {s}
    <3>1. SameLinks(t, Redden(t, q)) /\ Redden(t, q).red = t.red \cup ({q} \ {Null})
      BY <2>3, <2>4, ReddenAt
    <3> DEFINE a == Redden(t, q)
    <3>2. a \in Tree
      BY <3>1 DEF SameLinks
    <3> HIDE DEF a
    <3>3. SameLinks(a, Blacken(a, s)) /\ Blacken(a, s).red = a.red \ {s}
      BY <3>2, BlackenAt
    <3>4. u = Blacken(a, s)
      BY DEF a
    <3> HIDE DEF u
    <3> QED BY <2>3, <3>1, <3>3, <3>4, SameLinksTrans DEF a
  <2> HIDE DEF u
  <2>7. u.red \subseteq F
    BY <2>3, <2>4, <2>6
  <2>8. /\ Turned(t, d, q, s, v) /\ v.red = u.red
        /\ Framed(v, F, pos, Raised(bd, pos, d, q, s), hi)
    <3>1. d \in Side /\ q \in F /\ s = t[Other(d)][q] /\ s # Null
      BY <2>3
    <3>2. SameLinks(t, u)
      BY <2>6
    <3> QED BY <2>7, <3>1, <3>2, RotateSame
  <2> HIDE DEF v
  <2>9. Even(v, F, [bh EXCEPT ![s] = bh[q], ![q] = bh[s]], (W \ {s}) \cup {q}, {x})
    <3>1. q \notin W /\ s \in W /\ q \notin {x} /\ s \notin {x}
      BY <1>2, <2>3, <2>5
    <3>2. Even(t, F, bh, W, {x})
      BY <2>0
    <3> HIDE DEF W
    <3> QED BY <2>3, <2>8, <3>1, <3>2, ExchangeEven
  <2>10. (W \ {s}) \cup {q} = v.red \cup {z}
    BY <2>3, <2>6, <2>8
  <2> HIDE DEF W
  <2>11. /\ v.root = IF q = t.root THEN s ELSE t.root
         /\ \A a \in Side, y \in Node :
              v[a][y] = IF y = s THEN (IF a = d THEN q ELSE t[a][s])
                        ELSE IF y = q THEN (IF a = d THEN t[d][q] ELSE t[d][s])
                        ELSE IF t[a][y] = q THEN s ELSE t[a][y]
         /\ \A y \in Node :
              v.parent[y] = IF y = q THEN s ELSE IF y = s THEN t.parent[q]
                            ELSE IF y = t[d][s] THEN q ELSE t.parent[y]
    BY <2>8 DEF Turned
  <2>12. Other(d) \in Side /\ Other(d) # d
    BY <2>3, Sides
  <2>13. t[d][s] # Null => t.parent[t[d][s]] = s /\ t[d][s] # s
    BY <2>3, KidSide
  <2>14. v.parent[x] = q
    <3>1. x # t[d][s]
      BY <2>3, <2>4, <2>13
    <3> QED BY <2>3, <2>11, <3>1
  <2>15. v[d][q] = x /\ v[Other(d)][q] = t[d][s]
    BY <2>3, <2>11, <2>12
  <2>16. Sibling(v, x) = t[d][s]
    BY <2>3, <2>8, <2>15, SideOfKid
  <2>17. t[d][s] \notin v.red
    <3> SUFFICES ASSUME t[d][s] \in v.red PROVE FALSE
      OBVIOUS
    <3>0. t[d][s] # Null
      BY <2>4, <2>7, <2>8
    <3>1. t[d][s] \in t.red
      <4>1. d \in Side /\ q \in F /\ s = t[Other(d)][q] /\ s # Null
        BY <2>3
      <4>2. t[d][s] # q
        BY <4>1, TurnApart
      <4> QED BY <2>6, <2>8, <4>2
    <3> QED BY <1>2, <2>13, <2>z, <3>0, <3>1 DEF Colors
  <2>18. Colors(v, {})
    <3>1. v.root \notin v.red
      BY <2>3, <2>6, <2>8, <2>11, <2>z DEF Colors
    <3>2. ASSUME NEW y \in v.red PROVE v.parent[y] \notin v.red
      <4>1. y \in F /\ y \in Node /\ y # s
        BY <2>3, <2>6, <2>7, <2>8
      <4>2. CASE y = q
        BY <2>3, <2>6, <2>8, <2>11, <4>1, <4>2
      <4>3. CASE y # q
        <5>1. y \in t.red /\ y # t[d][s] /\ y # x
          BY <2>6, <2>8, <2>17, <4>3
        <5>2. v.parent[y] = t.parent[y]
          BY <2>11, <4>1, <4>3, <5>1
        <5>3. t.parent[y] # q
          <6> SUFFICES ASSUME t.parent[y] = q PROVE FALSE
            OBVIOUS
          <6>1. SideOf(t, y) \in Side /\ t[SideOf(t, y)][q] = y
            BY <2>3, <4>1, KidOfParent
          <6> QED BY <2>3, <4>1, <5>1, <6>1, Sides
        <5> QED BY <2>6, <2>8, <2>z, <5>1, <5>2, <5>3 DEF Colors
      <4> QED BY <4>2, <4>3
    <3> QED BY <3>1, <3>2 DEF Colors
  <2>19. IsLeaf(v, z) /\ z \notin v.red
    <3>1. \A a \in Side : t[a][z] = Null
      BY <2>z DEF IsLeaf
    <3>2. z \in Node /\ z # s /\ z # q
      BY <2>3, <2>z
    <3>3. \A a \in Side : v[a][z] = Null
      BY <2>3, <2>11, <3>1, <3>2
    <3> QED BY <2>6, <2>8, <2>z, <3>2, <3>3 DEF IsLeaf
  <2>20. Sunken(v, F, z, {x})
    BY <2>9, <2>10, <2>18, <2>19, <2>z DEF Sunken
  <2>21. q \in v.red /\ x \notin v.red
    BY <2>3, <2>6, <2>8
  <2> QED BY <2>2, <2>8, <2>14, <2>16, <2>17, <2>20, <2>21 DEF q
<1> QED BY <1>1, <1>2

-----------------------------------------------------------------------------
(* delete_case3 and delete_case4.                                          *)

(* The black sibling and its kids allow it to become red. *)
Drops(t, s) == s # Null /\ s \notin t.red /\ BlackKids(t, s)

LEMMA KidsAreBlack ==
  ASSUME NEW t, NEW s, BlackKids(t, s) PROVE \A a \in Side : t[a][s] \notin t.red
BY DEF BlackKids, Side

(* What delete_case3 and delete_case4 have found.                          *)
LEMMA DropFacts ==
  ASSUME NEW t, NEW F, NEW pos, NEW bd, NEW hi, Framed(t, F, pos, bd, hi),
         NEW z, NEW x, x \in F, Sunken(t, F, z, {x}), t.parent[x] # Null,
         NEW s, s = Sibling(t, x), Drops(t, s)
  PROVE  /\ SameLinks(t, Redden(t, s)) /\ Redden(t, s).red = t.red \cup {s}
         /\ Framed(Redden(t, s), F, pos, bd, hi)
<1>1. t \in Tree /\ s # Null /\ t.red \subseteq F
  BY DEF Framed, Drops
<1>2. s \in F
  <2>1. PICK bh : Even(t, F, bh, t.red \cup {z}, {x})
    BY DEF Sunken
  <2>2. Beneath(t, F, z, x, bh, t.parent[x], SideOf(t, x), Sibling(t, x))
    BY <2>1, SinkAround DEF Sunken
  <2> QED BY <2>2 DEF Beneath
<1>3. s \in Link
  BY <1>2 DEF Framed, Link
<1>4. SameLinks(t, Redden(t, s)) /\ Redden(t, s).red = t.red \cup ({s} \ {Null})
  BY <1>1, <1>3, ReddenAt
<1> DEFINE u == Redden(t, s)
<1> HIDE DEF u
<1>5. Framed(u, F, pos, bd, hi)
  <2>1. SameLinks(t, u) /\ u.red = t.red \cup {s}
    BY <1>1, <1>4 DEF u
  <2>2. u.red \subseteq F
    BY <1>1, <1>2, <2>1
  <2> QED BY <2>1, <2>2, RecolouredFramed
<1> QED BY <1>1, <1>4, <1>5 DEF u

(* delete_case3: the sibling's subtree misses one now, too. *)
LEMMA Case3Sinks ==
  ASSUME NEW t, NEW F, NEW pos, NEW bd, NEW hi, Framed(t, F, pos, bd, hi),
         NEW z, NEW x, x \in F, Sunken(t, F, z, {x}), t.parent[x] # Null,
         NEW s, s = Sibling(t, x), Drops(t, s),
         NEW q, q = t.parent[x], q \notin t.red, NEW r, r = Redden(t, s)
  PROVE  Framed(r, F, pos, bd, hi) /\ Sunken(r, F, z, {q}) /\ q \in F /\ q \notin r.red
<1>0. PICK bh : Even(t, F, bh, t.red \cup {z}, {x})
  BY DEF Sunken
<1>z. z \in F /\ z \notin t.red /\ IsLeaf(t, z) /\ Colors(t, {})
  BY DEF Sunken
<1> DEFINE d == SideOf(t, x)
           W == t.red \cup {z}
           V == r.red \cup {z}
           b == [bh EXCEPT ![s] = bh[s] - 1, ![q] = bh[q] - 1]
<1>1. Beneath(t, F, z, x, bh, q, d, s)
  BY <1>0, <1>z, SinkAround
<1>2. /\ q \in F /\ q # x /\ q # z /\ q # Null /\ q = t.parent[x]
      /\ d \in Side /\ t[d][q] = x
      /\ s = t[Other(d)][q] /\ t.parent[s] = q
      /\ s \in F /\ s # Null /\ s # x /\ s # q /\ s # z
      /\ bh[s] = bh[x] + 1 /\ bh[q] = bh[s] + One(q \notin t.red)
      /\ bh \in [Link -> Nat] /\ bh[Null] = 0
      /\ \A y \in F : y \in Node /\ y \in Link /\ y # Null
  BY <1>1 DEF Beneath
<1>3. SameLinks(t, r) /\ r.red = t.red \cup {s} /\ Framed(r, F, pos, bd, hi)
  BY DropFacts
<1>4. s \notin t.red /\ \A a \in Side : t[a][s] \notin t.red
  BY KidsAreBlack DEF Drops
<1>5. \A y \in F, a \in Side : bh[y] = bh[t[a][y]] + One(t[a][y] \in {x}) + One(y \notin W)
  BY <1>0 DEF Even, Level
<1>6. /\ bh[x] \in Nat /\ bh[s] \in Nat /\ bh[q] \in Nat
      /\ bh[s] - 1 = bh[x] /\ bh[q] = bh[s] + 1 /\ bh[q] - 1 = bh[s]
  BY <1>2 DEF One
<1>7. /\ b \in [Link -> Nat] /\ b[s] = bh[x] /\ b[q] = bh[s]
      /\ \A y \in Link : y # s /\ y # q => b[y] = bh[y]
  BY <1>2, <1>6
<1>8. b[Null] = 0
  BY <1>2, <1>7 DEF Link
<1> HIDE DEF b, d
<1>9. Even(r, F, b, V, {q})
  <2>1. ASSUME NEW y \in F, NEW a \in Side PROVE Level(r, b, V, {q}, y, a)
    <3> DEFINE c == t[a][y]
    <3>1. /\ bh[y] = bh[c] + One(c \in {x}) + One(y \notin W)
          /\ r[a][y] = c /\ y \in Node /\ y \in Link
      BY <1>2, <1>3, <1>5 DEF SameLinks
    <3>2. c \in Link
      BY <3>1, FramedTypes
    <3>3. c # Null => t.parent[c] = y /\ c # y
      BY KidSide
    <3>n. bh[c] \in Nat /\ bh[y] \in Nat
      BY <1>2, <3>1, <3>2
    <3>d. c = x \/ c = s <=> y = q
      <4>1. y = q => c = x \/ c = s
        BY <1>2, Sides
      <4> HIDE DEF c
      <4> QED BY <1>2, <3>3, <4>1
    <3> HIDE DEF c, W, V
    <3>4. CASE y = q
      <4>1. q \notin V /\ c # q
        BY <1>2, <1>3, <3>3, <3>d, <3>4 DEF V
      <4>2. b[c] + 1 = b[q]
        <5>1. CASE c = x
          BY <1>2, <1>6, <1>7, <5>1
        <5>2. CASE c = s
          BY <1>6, <1>7, <5>2
        <5> QED BY <3>d, <3>4, <5>1, <5>2
      <4>3. b[c] \in Nat
        BY <1>7, <3>2
      <4> QED BY <3>1, <3>4, <4>1, <4>2, <4>3 DEF Level, One
    <3>5. CASE y = s
      <4>1. y \in V /\ y \notin W
        BY <1>2, <1>3, <1>4, <3>5 DEF V, W
      <4>2. c # q /\ c # s /\ c # x
        <5>1. c # s /\ c # x
          BY <1>2, <3>d, <3>5
        <5>2. c # q
          <6> SUFFICES ASSUME c = q PROVE FALSE
            OBVIOUS
          <6>1. t.parent[q] = s
            BY <1>2, <3>3, <3>5
          <6>2. Depth(bd, hi, q) < Depth(bd, hi, s) /\ Depth(bd, hi, s) < Depth(bd, hi, q)
            BY <1>2, <6>1, DepthOf
          <6>3. Depth(bd, hi, q) \in Nat /\ Depth(bd, hi, s) \in Nat
            BY <1>2, DepthOf
          <6> QED BY <6>2, <6>3
        <5> QED BY <5>1, <5>2
      <4>3. b[c] = bh[c] /\ b[s] = bh[x]
        BY <1>7, <3>2, <4>2
      <4>4. bh[s] = bh[c] + 0 + 1
        BY <3>1, <3>5, <4>1, <4>2 DEF One
      <4> QED BY <1>6, <3>1, <3>n, <3>5, <4>1, <4>2, <4>3, <4>4 DEF Level, One
    <3>6. CASE y # q /\ y # s
      <4>1. c # x /\ c # s /\ (y \in V <=> y \in W) /\ b[y] = bh[y]
        BY <1>3, <1>7, <3>1, <3>d, <3>6 DEF V, W
      <4>2. CASE c = q
        BY <1>6, <1>7, <3>1, <4>1, <4>2 DEF Level, One
      <4>3. CASE c # q
        <5>1. b[c] = bh[c]
          BY <1>7, <3>2, <4>1, <4>3
        <5> QED BY <3>1, <4>1, <4>3, <5>1 DEF Level, One
      <4> QED BY <4>2, <4>3
    <3> QED BY <3>4, <3>5, <3>6
  <2> HIDE DEF V
  <2> QED BY <1>7, <1>8, <2>1 DEF Even
<1>10. Colors(r, {})
  <2>1. r.root \notin r.red
    <3>1. t.root # Null => t.parent[t.root] = Null
      BY DEF Framed
    <3>2. t.root # s
      BY <1>2, <3>1
    <3> QED BY <1>3, <1>z, <3>2 DEF Colors, SameLinks
  <2>2. ASSUME NEW y \in r.red PROVE r.parent[y] \notin r.red
    <3>0. y \in Node /\ y \in F /\ r.parent[y] = t.parent[y]
      BY <1>2, <1>3 DEF Framed, SameLinks
    <3>1. CASE y = s
      BY <1>2, <1>3, <3>0, <3>1
    <3>2. CASE y # s
      <4>1. y \in t.red /\ t.parent[y] \notin t.red
        BY <1>3, <1>z, <3>2 DEF Colors
      <4>2. t.parent[y] # s
        <5> SUFFICES ASSUME t.parent[y] = s PROVE FALSE
          OBVIOUS
        <5>1. SideOf(t, y) \in Side /\ t[SideOf(t, y)][s] = y
          <6>1. t.parent[y] # Null
            BY <1>2
          <6> QED BY <3>0, <6>1, KidOfParent
        <5> QED BY <1>4, <4>1, <5>1
      <4> QED BY <1>3, <3>0, <4>1, <4>2
    <3> QED BY <3>1, <3>2
  <2> QED BY <2>1, <2>2 DEF Colors
<1>11. IsLeaf(r, z) /\ z \notin r.red
  <2>1. z \in Node /\ z # s
    BY <1>2, <1>z
  <2>2. IsLeaf(t, z) /\ z \notin t.red
    BY <1>z
  <2>3. \A a \in Side : r[a][z] = t[a][z]
    BY <1>3, <2>1 DEF SameLinks
  <2>4. IsLeaf(r, z)
    BY <2>2, <2>3 DEF IsLeaf
  <2> QED BY <1>3, <2>1, <2>2, <2>4
<1> QED BY <1>2, <1>3, <1>9, <1>10, <1>11, <1>z DEF Sunken

(* delete_case4: a red parent makes up for it. *)
LEMMA Case4Settles ==
  ASSUME NEW t, NEW F, NEW pos, NEW bd, NEW hi, Framed(t, F, pos, bd, hi),
         NEW z, NEW x, x \in F, Sunken(t, F, z, {x}), t.parent[x] # Null,
         NEW s, s = Sibling(t, x), Drops(t, s),
         NEW q, q = t.parent[x], q \in t.red, NEW r, r = Blacken(Redden(t, s), q)
  PROVE  Framed(r, F, pos, bd, hi) /\ Sunken(r, F, z, {})
<1>0. PICK bh : Even(t, F, bh, t.red \cup {z}, {x})
  BY DEF Sunken
<1>z. z \in F /\ z \notin t.red /\ IsLeaf(t, z) /\ Colors(t, {})
  BY DEF Sunken
<1> DEFINE d == SideOf(t, x)
           W == t.red \cup {z}
           V == r.red \cup {z}
           b == [bh EXCEPT ![s] = bh[s] - 1]
<1>1. Beneath(t, F, z, x, bh, q, d, s)
  BY <1>0, <1>z, SinkAround
<1>2. /\ q \in F /\ q # x /\ q # z /\ q # Null /\ q = t.parent[x]
      /\ d \in Side /\ t[d][q] = x
      /\ s = t[Other(d)][q] /\ t.parent[s] = q
      /\ s \in F /\ s # Null /\ s # x /\ s # q /\ s # z
      /\ bh[s] = bh[x] + 1 /\ bh[q] = bh[s] + One(q \notin t.red)
      /\ bh \in [Link -> Nat] /\ bh[Null] = 0
      /\ \A y \in F : y \in Node /\ y \in Link /\ y # Null
  BY <1>1 DEF Beneath
<1>3. SameLinks(t, r) /\ r.red = (t.red \cup {s}) \ {q} /\ Framed(r, F, pos, bd, hi)
  <2> DEFINE u == Redden(t, s)
  <2>1. SameLinks(t, u) /\ u.red = t.red \cup {s} /\ Framed(u, F, pos, bd, hi)
    BY DropFacts
  <2> HIDE DEF u
  <2>2. u \in Tree /\ r = Blacken(u, q) /\ u.red \subseteq F
    BY <2>1 DEF Framed, u
  <2>3. SameLinks(u, r) /\ r.red = u.red \ {q}
    BY <2>2, BlackenAt
  <2>4. r.red \subseteq F
    BY <2>2, <2>3
  <2>5. Framed(r, F, pos, bd, hi)
    BY <2>1, <2>3, <2>4, RecolouredFramed
  <2> QED BY <2>1, <2>3, <2>5, SameLinksTrans
<1>4. s \notin t.red /\ \A a \in Side : t[a][s] \notin t.red
  BY KidsAreBlack DEF Drops
<1>5. \A y \in F, a \in Side : bh[y] = bh[t[a][y]] + One(t[a][y] \in {x}) + One(y \notin W)
  BY <1>0 DEF Even, Level
<1>6. /\ bh[x] \in Nat /\ bh[s] \in Nat /\ bh[q] \in Nat
      /\ bh[s] - 1 = bh[x] /\ bh[q] = bh[s]
  BY <1>2 DEF One
<1>7. /\ b \in [Link -> Nat] /\ b[s] = bh[x]
      /\ \A y \in Link : y # s => b[y] = bh[y]
  BY <1>2, <1>6
<1>8. b[Null] = 0
  BY <1>2, <1>7 DEF Link
<1> HIDE DEF b, d
<1>9. Even(r, F, b, V, {})
  <2>1. ASSUME NEW y \in F, NEW a \in Side PROVE Level(r, b, V, {}, y, a)
    <3> DEFINE c == t[a][y]
    <3>1. /\ bh[y] = bh[c] + One(c \in {x}) + One(y \notin W)
          /\ r[a][y] = c /\ y \in Node /\ y \in Link
      BY <1>2, <1>3, <1>5 DEF SameLinks
    <3>2. c \in Link
      BY <3>1, FramedTypes
    <3>3. c # Null => t.parent[c] = y /\ c # y
      BY KidSide
    <3>n. bh[c] \in Nat /\ bh[y] \in Nat
      BY <1>2, <3>1, <3>2
    <3>d. c = x \/ c = s <=> y = q
      <4>1. y = q => c = x \/ c = s
        BY <1>2, Sides
      <4> HIDE DEF c
      <4> QED BY <1>2, <3>3, <4>1
    <3> HIDE DEF c, W, V
    <3>4. CASE y = q
      <4>1. q \notin V
        BY <1>2, <1>3 DEF V
      <4>2. b[c] + 1 = b[q]
        <5>1. CASE c = x
          BY <1>2, <1>6, <1>7, <5>1
        <5>2. CASE c = s
          BY <1>2, <1>6, <1>7, <5>2
        <5> QED BY <3>d, <3>4, <5>1, <5>2
      <4>3. b[c] \in Nat
        BY <1>7, <3>2
      <4> QED BY <3>1, <3>4, <4>1, <4>2, <4>3 DEF Level, One
    <3>5. CASE y = s
      <4>1. y \in V /\ y \notin W
        BY <1>2, <1>3, <1>4, <3>5 DEF V, W
      <4>2. c # s /\ c # x
        BY <1>2, <3>d, <3>5
      <4>3. b[c] = bh[c] /\ b[s] = bh[x]
        BY <1>7, <3>2, <4>2
      <4>4. bh[s] = bh[c] + 0 + 1
        BY <3>1, <3>5, <4>1, <4>2 DEF One
      <4> QED BY <1>6, <3>1, <3>n, <3>5, <4>1, <4>3, <4>4 DEF Level, One
    <3>6. CASE y # q /\ y # s
      <4>1. c # x /\ c # s /\ (y \in V <=> y \in W) /\ b[y] = bh[y] /\ b[c] = bh[c]
        BY <1>3, <1>7, <3>1, <3>2, <3>d, <3>6 DEF V, W
      <4> QED BY <3>1, <4>1 DEF Level, One
    <3> QED BY <3>4, <3>5, <3>6
  <2> HIDE DEF V
  <2> QED BY <1>7, <1>8, <2>1 DEF Even
<1>10. Colors(r, {})
  <2>1. r.root \notin r.red
    <3>1. t.root # Null => t.parent[t.root] = Null
      BY DEF Framed
    <3>2. t.root # s
      BY <1>2, <3>1
    <3> QED BY <1>3, <1>z, <3>2 DEF Colors, SameLinks
  <2>2. ASSUME NEW y \in r.red PROVE r.parent[y] \notin r.red
    <3>0. y \in Node /\ y \in F /\ r.parent[y] = t.parent[y]
      BY <1>2, <1>3 DEF Framed, SameLinks
    <3>1. CASE y = s
      BY <1>2, <1>3, <3>0, <3>1
    <3>2. CASE y # s
      <4>1. y \in t.red /\ t.parent[y] \notin t.red
        BY <1>3, <1>z, <3>2 DEF Colors
      <4>2. t.parent[y] # s
        <5> SUFFICES ASSUME t.parent[y] = s PROVE FALSE
          OBVIOUS
        <5>1. SideOf(t, y) \in Side /\ t[SideOf(t, y)][s] = y
          <6>1. t.parent[y] # Null
            BY <1>2
          <6> QED BY <3>0, <6>1, KidOfParent
        <5> QED BY <1>4, <4>1, <5>1
      <4> QED BY <1>3, <3>0, <4>1, <4>2
    <3> QED BY <3>1, <3>2
  <2> QED BY <2>1, <2>2 DEF Colors
<1>11. IsLeaf(r, z) /\ z \notin r.red
  <2>1. z \in Node /\ z # s
    BY <1>2, <1>z
  <2>2. IsLeaf(t, z) /\ z \notin t.red
    BY <1>z
  <2>3. \A a \in Side : r[a][z] = t[a][z]
    BY <1>3, <2>1 DEF SameLinks
  <2>4. IsLeaf(r, z)
    BY <2>2, <2>3 DEF IsLeaf
  <2> QED BY <1>3, <2>1, <2>2, <2>4
<1> QED BY <1>3, <1>9, <1>10, <1>11, <1>z DEF Sunken

-----------------------------------------------------------------------------
(* delete_case5 and delete_case6.                                          *)

(* delete_case5: the red kid of the black sibling comes to the far side.   *)
LEMMA Case5Sinks ==
  ASSUME NEW t, NEW F, NEW pos, NEW bd, NEW hi, Framed(t, F, pos, bd, hi),
         NEW z, NEW x, x \in F, x \notin t.red, Sunken(t, F, z, {x}), t.parent[x] # Null,
         Sibling(t, x) \notin t.red, ~ BlackKids(t, Sibling(t, x)),
         NEW r, r = DeleteCase5(t, x)
  PROVE  /\ \E b : Framed(r, F, pos, b, hi)
         /\ Sunken(r, F, z, {x}) /\ x \notin r.red
         /\ r.parent[x] # Null /\ Sibling(r, x) \notin r.red
         /\ r[Other(SideOf(r, x))][Sibling(r, x)] \in r.red
<1> DEFINE q == t.parent[x]
           d == SideOf(t, x)
           s == Sibling(t, x)
           near == t[d][s]
           far == t[Other(d)][s]
<1>0. PICK bh : Even(t, F, bh, t.red \cup {z}, {x})
  BY DEF Sunken
<1>z. z \in F /\ z \notin t.red /\ IsLeaf(t, z) /\ Colors(t, {})
  BY DEF Sunken
<1>1. Beneath(t, F, z, x, bh, q, d, s)
  BY <1>0, <1>z, SinkAround
<1>2. /\ q = t.parent[x] /\ q \in F /\ q # x /\ q # z /\ q # Null
      /\ d \in Side /\ d = SideOf(t, x) /\ t[d][q] = x
      /\ s = t[Other(d)][q] /\ s = Sibling(t, x) /\ t.parent[s] = q
      /\ s \in F /\ s # Null /\ s # x /\ s # q /\ s # z
      /\ \A y \in F : y \in Node /\ y \in Link /\ y # Null
  BY <1>1 DEF Beneath
<1>3. near \in t.red \/ far \in t.red
  <2>1. t["left"][s] \in t.red \/ t["right"][s] \in t.red
    BY DEF BlackKids
  <2>2. d = "left" \/ d = "right"
    BY <1>2 DEF Side
  <2> HIDE DEF d, s
  <2> QED BY <2>1, <2>2, Sides
<1>4. CASE far \in t.red
  <2>1. r = t
    BY <1>4 DEF DeleteCase5
  <2> QED BY <1>2, <1>4, <2>1
<1>5. CASE far \notin t.red
  <2> DEFINE u == Blacken(Redden(t, s), near)
             v == Rotate(u, Other(d), s)
             W == t.red \cup {z}
             e == Other(d)
  <2>1. near \in t.red
    BY <1>3, <1>5
  <2>2. r = v
    BY <1>2, <1>5, <2>1 DEF DeleteCase5
  <2> HIDE DEF q, d, s
  <2>3. e \in Side /\ Other(e) = d /\ e # d /\ \A a \in Side : a = d \/ a = e
    BY <1>2, Sides
  <2>4. t \in Tree /\ t.red \subseteq F /\ Null \notin F /\ F \subseteq Node
    BY FramedTypes DEF Framed
  <2>5. near \in F /\ near # Null /\ t.parent[near] = s /\ near # s /\ near # x /\ near # z /\ near # q
    <3>1. near \in F /\ near # Null
      BY <2>1, <2>4
    <3>2. t.parent[near] = s /\ near # s
      BY <1>2, <3>1, KidSide
    <3>3. near # q
      <4> HIDE DEF near
      <4> SUFFICES ASSUME near = q PROVE FALSE
        OBVIOUS
      <4>1. Depth(bd, hi, q) < Depth(bd, hi, s) /\ Depth(bd, hi, s) < Depth(bd, hi, q)
        BY <1>2, <3>2, DepthOf
      <4>2. Depth(bd, hi, q) \in Nat /\ Depth(bd, hi, s) \in Nat
        BY <1>2, DepthOf
      <4> QED BY <4>1, <4>2
    <3> QED BY <1>2, <1>z, <2>1, <3>1, <3>2, <3>3
  <2>n. near = t[d][s]
    OBVIOUS
  <2>f. far = t[e][s]
    OBVIOUS
  <2> HIDE DEF near, far
  <2>6. SameLinks(t, u) /\ u.red = (t.red \cup {s}) \ {near}
    <3> DEFINE a == Redden(t, s)
    <3>1. SameLinks(t, a) /\ a.red = t.red \cup ({s} \ {Null})
      BY <1>2, <2>4, ReddenAt
    <3>2. a \in Tree
      BY <3>1 DEF SameLinks
    <3>4. u = Blacken(a, near)
      OBVIOUS
    <3> HIDE DEF a, u
    <3>3. SameLinks(a, Blacken(a, near)) /\ Blacken(a, near).red = a.red \ {near}
      BY <3>2, BlackenAt
    <3> QED BY <1>2, <3>1, <3>3, <3>4, SameLinksTrans
  <2>v. v = Rotate(u, e, s)
    OBVIOUS
  <2> HIDE DEF u, v, e
  <2>7. u.red \subseteq F
    BY <1>2, <2>4, <2>6
  <2>8. /\ Turned(t, e, s, near, v) /\ v.red = u.red
        /\ Framed(v, F, pos, Raised(bd, pos, e, s, near), hi)
    <3>1. e \in Side /\ s \in F /\ near = t[Other(e)][s] /\ near # Null
      BY <1>2, <2>3, <2>5, <2>n
    <3>2. SameLinks(t, u)
      BY <2>6
    <3> QED BY <2>7, <2>v, <3>1, <3>2, RotateSame
  <2>9. Even(v, F, [bh EXCEPT ![near] = bh[s], ![s] = bh[near]], (W \ {near}) \cup {s}, {x})
    <3>1. s \notin W /\ near \in W /\ s \notin {x} /\ near \notin {x}
      BY <1>2, <2>1, <2>5
    <3>2. Even(t, F, bh, W, {x})
      BY <1>0
    <3>3. e \in Side /\ s \in F /\ near = t[Other(e)][s] /\ near # Null
      BY <1>2, <2>3, <2>5, <2>n
    <3> HIDE DEF W
    <3> QED BY <2>8, <3>1, <3>2, <3>3, ExchangeEven
  <2>10. (W \ {near}) \cup {s} = v.red \cup {z}
    BY <2>5, <2>6, <2>8
  <2> HIDE DEF W
  <2>11. /\ v.root = IF s = t.root THEN near ELSE t.root
         /\ \A a \in Side, y \in Node :
              v[a][y] = IF y = near THEN (IF a = e THEN s ELSE t[a][near])
                        ELSE IF y = s THEN (IF a = e THEN t[e][s] ELSE t[e][near])
                        ELSE IF t[a][y] = s THEN near ELSE t[a][y]
         /\ \A y \in Node :
              v.parent[y] = IF y = s THEN near ELSE IF y = near THEN t.parent[s]
                            ELSE IF y = t[e][near] THEN s ELSE t.parent[y]
    BY <2>8 DEF Turned
  <2>12. t[e][near] # Null => t.parent[t[e][near]] = near /\ t[e][near] # near
    BY <2>3, <2>5, KidSide
  <2>13. v.parent[x] = q
    <3>1. x # t[e][near]
      BY <1>2, <2>4, <2>5, <2>12
    <3> QED BY <1>2, <2>5, <2>11, <3>1
  <2>14. v[d][q] = x /\ v[e][q] = near /\ v[e][near] = s
    <3>1. t[e][q] = s
      BY <1>2, <2>3 DEF e
    <3> QED BY <1>2, <2>3, <2>5, <2>11, <3>1
  <2>15. SideOf(v, x) = d /\ Sibling(v, x) = near
    <3>1. d \in Side /\ q \in F /\ v[d][q] # Null
      BY <1>2, <2>14
    <3>2. SideOf(v, v[d][q]) = d /\ Sibling(v, v[d][q]) = v[Other(d)][q]
      BY <2>8, <3>1, SideOfKid
    <3> QED BY <2>14, <3>2 DEF e
  <2>16. Colors(v, {})
    <3>1. v.root \notin v.red
      <4>1. t.root # Null => t.parent[t.root] = Null
        BY DEF Framed
      <4>2. t.root # s
        BY <1>2, <4>1
      <4> QED BY <1>z, <2>6, <2>8, <2>11, <4>2 DEF Colors
    <3>2. ASSUME NEW y \in v.red PROVE v.parent[y] \notin v.red
      <4>1. y \in F /\ y \in Node /\ y # near
        BY <1>2, <2>6, <2>7, <2>8
      <4>2. CASE y = s
        BY <2>5, <2>6, <2>8, <2>11, <4>1, <4>2
      <4>3. CASE y # s
        <5>1. y \in t.red
          BY <2>6, <2>8, <4>3
        <5>2. y # t[e][near]
          <6> SUFFICES ASSUME y = t[e][near] PROVE FALSE
            OBVIOUS
          <6>1. t.parent[y] = near
            BY <1>2, <2>12, <4>1
          <6> QED BY <1>z, <2>1, <5>1, <6>1 DEF Colors
        <5>3. v.parent[y] = t.parent[y]
          BY <2>11, <4>1, <4>3, <5>2
        <5>4. t.parent[y] # s
          <6> SUFFICES ASSUME t.parent[y] = s PROVE FALSE
            OBVIOUS
          <6>1. SideOf(t, y) \in Side /\ t[SideOf(t, y)][s] = y
            BY <1>2, <4>1, KidOfParent
          <6> QED BY <1>5, <2>3, <2>n, <2>f, <4>1, <5>1, <6>1
        <5> QED BY <1>z, <2>6, <2>8, <5>1, <5>3, <5>4 DEF Colors
      <4> QED BY <4>2, <4>3
    <3> QED BY <3>1, <3>2 DEF Colors
  <2>17. IsLeaf(v, z) /\ z \notin v.red
    <3>1. \A a \in Side : t[a][z] = Null
      BY <1>z DEF IsLeaf
    <3>2. z \in Node /\ z # s /\ z # near
      BY <1>2, <1>z, <2>5
    <3>3. \A a \in Side : v[a][z] = Null
      BY <1>2, <2>11, <3>1, <3>2
    <3> QED BY <1>z, <2>6, <2>8, <3>2, <3>3 DEF IsLeaf
  <2>18. Sunken(v, F, z, {x})
    BY <1>z, <2>9, <2>10, <2>16, <2>17 DEF Sunken
  <2>19. x \notin v.red /\ near \notin v.red /\ s \in v.red
    BY <1>2, <2>5, <2>6, <2>8
  <2>20. v[Other(SideOf(v, x))][Sibling(v, x)] = s
    BY <2>14, <2>15 DEF e
  <2>21. v.parent[x] # Null /\ Sibling(v, x) \notin v.red
    BY <1>2, <2>13, <2>15, <2>19
  <2> QED BY <2>2, <2>8, <2>18, <2>19, <2>20, <2>21
<1> QED BY <1>4, <1>5

(* delete_case6. *)
LEMMA Case6Settles ==
  ASSUME NEW t, NEW F, NEW pos, NEW bd, NEW hi, Framed(t, F, pos, bd, hi),
         NEW z, NEW x, x \in F, x \notin t.red, Sunken(t, F, z, {x}), t.parent[x] # Null,
         Sibling(t, x) \notin t.red, t[Other(SideOf(t, x))][Sibling(t, x)] \in t.red,
         NEW r, r = DeleteCase6(t, x)
  PROVE  /\ \E b : Framed(r, F, pos, b, hi)
         /\ Sunken(r, F, z, {})
<1> DEFINE q == t.parent[x]
           d == SideOf(t, x)
           e == Other(d)
           s == Sibling(t, x)
           far == t[e][s]
           near == t[d][s]
           Q == IF q \in t.red THEN {s} ELSE {}
           u == IF q \in t.red THEN Redden(t, s) ELSE Blacken(t, s)
           v == Blacken(Blacken(u, q), far)
           w == Rotate(v, d, q)
           W == t.red \cup {z}
           V == w.red \cup {z}
<1>0. PICK bh : Even(t, F, bh, t.red \cup {z}, {x})
  BY DEF Sunken
<1>z. z \in F /\ z \notin t.red /\ IsLeaf(t, z) /\ Colors(t, {})
  BY DEF Sunken
<1>1. Beneath(t, F, z, x, bh, q, d, s)
  BY <1>0, <1>z, SinkAround
<1>2. /\ q = t.parent[x] /\ q \in F /\ q # x /\ q # z /\ q # Null
      /\ d \in Side /\ d = SideOf(t, x) /\ t[d][q] = x
      /\ s = t[Other(d)][q] /\ s = Sibling(t, x) /\ t.parent[s] = q
      /\ s \in F /\ s # Null /\ s # x /\ s # q /\ s # z
      /\ bh[s] = bh[x] + 1 /\ bh[q] = bh[s] + One(q \notin t.red)
      /\ bh \in [Link -> Nat] /\ bh[Null] = 0
      /\ \A y \in F : y \in Node /\ y \in Link /\ y # Null
  BY <1>1 DEF Beneath
<1>3. e \in Side /\ Other(e) = d /\ e # d /\ \A a \in Side : a = d \/ a = e
  BY <1>2, Sides
<1>4. t \in Tree /\ t.red \subseteq F /\ Null \notin F /\ F \subseteq Node
  BY FramedTypes DEF Framed
<1>5. s \notin t.red /\ far \in t.red
  OBVIOUS
<1>r. r = w
  BY DEF DeleteCase6
<1>f. far = t[e][s] /\ near = t[d][s] /\ s = t[e][q]
  BY <1>2
<1> HIDE DEF q, d, e, s, far, near
<1>6. far \in F /\ far # Null /\ t.parent[far] = s /\ far # s /\ far # x /\ far # z /\ far # q
  <2>1. far \in F /\ far # Null
    BY <1>4, <1>5
  <2>2. t.parent[far] = s /\ far # s
    <3>1. s \in F /\ e \in Side /\ far = t[e][s] /\ t[e][s] # Null
      BY <1>2, <1>3, <1>f, <2>1
    <3>2. t.parent[t[e][s]] = s /\ t[e][s] # s
      BY <3>1, KidSide
    <3> QED BY <3>1, <3>2
  <2>3. far # q
    <3> SUFFICES ASSUME far = q PROVE FALSE
      OBVIOUS
    <3>1. Depth(bd, hi, q) < Depth(bd, hi, s) /\ Depth(bd, hi, s) < Depth(bd, hi, q)
      BY <1>2, <2>2, DepthOf
    <3>2. Depth(bd, hi, q) \in Nat /\ Depth(bd, hi, s) \in Nat
      BY <1>2, DepthOf
    <3> QED BY <3>1, <3>2
  <2> QED BY <1>2, <1>5, <1>z, <2>1, <2>2, <2>3
<1>7. SameLinks(t, v) /\ v.red = (t.red \ {q, far}) \cup Q
  <2>1. SameLinks(t, u) /\ u.red = t.red \cup Q
    <3>1. CASE q \in t.red
      <4>1. SameLinks(t, Redden(t, s)) /\ Redden(t, s).red = t.red \cup ({s} \ {Null})
        BY <1>2, <1>4, ReddenAt
      <4> QED BY <1>2, <3>1, <4>1
    <3>2. CASE q \notin t.red
      <4>1. SameLinks(t, Blacken(t, s)) /\ Blacken(t, s).red = t.red \ {s}
        BY <1>4, BlackenAt
      <4> QED BY <1>5, <3>2, <4>1
    <3> QED BY <3>1, <3>2
  <2> HIDE DEF u
  <2> DEFINE a == Blacken(u, q)
  <2>2. SameLinks(u, a) /\ a.red = u.red \ {q}
    <3>1. u \in Tree
      BY <2>1 DEF SameLinks
    <3> QED BY <3>1, BlackenAt
  <2>a. v = Blacken(a, far)
    OBVIOUS
  <2> HIDE DEF a, v
  <2>3. SameLinks(a, v) /\ v.red = a.red \ {far}
    <3>1. a \in Tree
      BY <2>2 DEF SameLinks
    <3> QED BY <2>a, <3>1, BlackenAt
  <2>4. SameLinks(t, v)
    BY <2>1, <2>2, <2>3, SameLinksTrans
  <2>5. q \notin Q /\ far \notin Q
    BY <1>2, <1>6
  <2> HIDE DEF Q
  <2> QED BY <2>1, <2>2, <2>3, <2>4, <2>5
<1> HIDE DEF u, v
<1>8. v.red \subseteq F /\ Q \subseteq {s} /\ (s \in Q <=> q \in t.red)
  <2>1. Q \subseteq {s} /\ (s \in Q <=> q \in t.red)
    OBVIOUS
  <2> HIDE DEF Q
  <2> QED BY <1>2, <1>4, <1>7, <2>1
<1> HIDE DEF Q, w
<1>9. /\ Turned(t, d, q, s, w) /\ w.red = v.red
      /\ Framed(w, F, pos, Raised(bd, pos, d, q, s), hi)
  <2>1. d \in Side /\ q \in F /\ s = t[Other(d)][q] /\ s # Null
    BY <1>2
  <2>2. SameLinks(t, v)
    BY <1>7
  <2> QED BY <1>8, <2>1, <2>2, RotateSame DEF w
<1>10. /\ w.root = IF q = t.root THEN s ELSE t.root
       /\ \A a \in Side, y \in Node :
            w[a][y] = IF y = s THEN (IF a = d THEN q ELSE t[a][s])
                      ELSE IF y = q THEN (IF a = d THEN t[d][q] ELSE t[d][s])
                      ELSE IF t[a][y] = q THEN s ELSE t[a][y]
       /\ \A y \in Node :
            w.parent[y] = IF y = q THEN s ELSE IF y = s THEN t.parent[q]
                          ELSE IF y = t[d][s] THEN q ELSE t.parent[y]
  BY <1>9 DEF Turned
<1>11. \A y \in Node : /\ y # s => (y \in w.red <=> y \in t.red /\ y # q /\ y # far)
                       /\ y = s => (y \in w.red <=> q \in t.red)
  BY <1>5, <1>7, <1>8, <1>9
<1> DEFINE b == [bh EXCEPT ![q] = bh[s], ![s] = bh[q], ![far] = bh[far] + 1]
<1>12. /\ b \in [Link -> Nat] /\ b[q] = bh[s] /\ b[s] = bh[q] /\ b[far] = bh[far] + 1
       /\ \A y \in Link : y # q /\ y # s /\ y # far => b[y] = bh[y]
  <2>1. q \in Link /\ s \in Link /\ far \in Link
    BY <1>2, <1>6
  <2>2. q # s /\ far # s /\ far # q
    BY <1>2, <1>6
  <2> QED BY <1>2, <2>1, <2>2
<1>13. b[Null] = 0
  BY <1>2, <1>6, <1>12 DEF Link
<1> HIDE DEF b
<1>14. \A y \in F, a \in Side : bh[y] = bh[t[a][y]] + One(t[a][y] \in {x}) + One(y \notin W)
  BY <1>0 DEF Even, Level
<1>15. /\ near \in Link /\ bh[near] \in Nat /\ bh[far] \in Nat /\ bh[x] \in Nat /\ bh[s] \in Nat /\ bh[q] \in Nat
       /\ near # x /\ near # s /\ near # q /\ near # far
       /\ bh[near] = bh[x] /\ bh[far] = bh[x]
  <2>1. near \in Link
    <3>1. s \in Node
      BY <1>2
    <3> QED BY <1>2, <1>f, <3>1, FramedTypes
  <2>2. near # Null => t.parent[near] = s /\ near # s
    <3>1. s \in F /\ d \in Side /\ near = t[d][s]
      BY <1>2, <1>f
    <3>2. t[d][s] # Null => t.parent[t[d][s]] = s /\ t[d][s] # s
      BY <3>1, KidSide
    <3> QED BY <3>1, <3>2
  <2>3. near # q
    <3> SUFFICES ASSUME near = q PROVE FALSE
      OBVIOUS
    <3>0. t.parent[q] = s
      BY <1>2, <2>2
    <3>1. Depth(bd, hi, q) < Depth(bd, hi, s) /\ Depth(bd, hi, s) < Depth(bd, hi, q)
      BY <1>2, <3>0, DepthOf
    <3>2. Depth(bd, hi, q) \in Nat /\ Depth(bd, hi, s) \in Nat
      BY <1>2, DepthOf
    <3> QED BY <3>1, <3>2
  <2>4. near # x /\ near # s
    BY <1>2, <2>2
  <2>5. near # far
    <3>1. e \in Side /\ s \in F /\ t[e][s] # Null
      BY <1>2, <1>3, <1>6, <1>f
    <3>2. t[Other(e)][s] # t[e][s]
      BY <3>1, SideOfKid
    <3> QED BY <1>3, <1>f, <3>2
  <2>6. bh[near] \in Nat /\ bh[far] \in Nat /\ bh[x] \in Nat /\ bh[s] \in Nat /\ bh[q] \in Nat
    BY <1>2, <1>6, <2>1
  <2>7. s \notin W
    BY <1>2, <1>5
  <2>8. bh[s] = bh[near] + One(near \in {x}) + One(s \notin W)
    BY <1>2, <1>14, <1>f
  <2>9. bh[s] = bh[far] + One(far \in {x}) + One(s \notin W)
    BY <1>2, <1>3, <1>14, <1>f
  <2>10. One(near \in {x}) = 0 /\ One(far \in {x}) = 0 /\ One(s \notin W) = 1
    <3> HIDE DEF W
    <3> QED BY <1>6, <2>4, <2>7 DEF One
  <2>11. bh[s] = bh[x] + 1
    BY <1>2
  <2> HIDE DEF W
  <2> QED BY <2>1, <2>3, <2>4, <2>5, <2>6, <2>8, <2>9, <2>10, <2>11
<1>16. Even(w, F, b, V, {})
  <2>1. ASSUME NEW y \in F, NEW a \in Side PROVE Level(w, b, V, {}, y, a)
    <3> DEFINE c == t[a][y]
    <3>1. /\ bh[y] = bh[c] + One(c \in {x}) + One(y \notin W) /\ y \in Node /\ y \in Link
          /\ w[a][y] = IF y = s THEN (IF a = d THEN q ELSE c)
                       ELSE IF y = q THEN (IF a = d THEN x ELSE near)
                       ELSE IF c = q THEN s ELSE c
      <4>1. bh[y] = bh[c] + One(c \in {x}) + One(y \notin W) /\ y \in Node /\ y \in Link
        BY <1>2, <1>14
      <4>2. w[a][y] = IF y = s THEN (IF a = d THEN q ELSE t[a][s])
                      ELSE IF y = q THEN (IF a = d THEN t[d][q] ELSE t[d][s])
                      ELSE IF t[a][y] = q THEN s ELSE t[a][y]
        BY <1>10, <4>1
      <4> QED BY <1>2, <1>f, <4>1, <4>2
    <3>2. c \in Link
      BY <3>1, FramedTypes
    <3>3. c # Null => t.parent[c] = y /\ c # y
      BY KidSide
    <3>n. bh[c] \in Nat /\ bh[y] \in Nat
      BY <1>2, <3>1, <3>2
    <3>d. /\ c = x \/ c = s => y = q
          /\ c = far => y = s
          /\ y = s /\ a = e => c = far
      BY <1>2, <1>3, <1>6, <1>f, <3>3
    <3> HIDE DEF c, W
    <3>4. CASE y = q
      <4>1. q \notin V
        BY <1>2, <1>11
      <4>2. b[x] = bh[x] /\ b[near] = bh[near]
        BY <1>2, <1>6, <1>12, <1>15
      <4>3. w[a][y] = x \/ w[a][y] = near
        BY <1>2, <3>1, <3>4
      <4> HIDE DEF V
      <4> QED BY <1>2, <1>12, <1>15, <3>4, <4>1, <4>2, <4>3 DEF Level, One
    <3>5. CASE y = s
      <4>1. y \notin V <=> q \notin t.red
        BY <1>2, <1>11, <3>5
      <4>2. w[a][y] = q \/ w[a][y] = far
        BY <1>2, <1>3, <3>1, <3>5, <3>d
      <4>3. b[w[a][y]] = bh[s]
        BY <1>2, <1>12, <1>15, <4>2
      <4>4. b[y] = bh[s] + One(y \notin V)
        <5> HIDE DEF V
        <5> QED BY <1>2, <1>12, <3>5, <4>1 DEF One
      <4> HIDE DEF V
      <4> QED BY <1>15, <4>3, <4>4 DEF Level, One
    <3>6. CASE y = far
      <4>1. y \notin V /\ y \in W
        BY <1>2, <1>5, <1>6, <1>11, <3>6 DEF W
      <4>2. c # x /\ c # s /\ c # far /\ c # q
        <5>1. c # x /\ c # s /\ c # far
          BY <1>6, <3>6, <3>d
        <5>2. c # q
          <6> SUFFICES ASSUME c = q PROVE FALSE
            OBVIOUS
          <6>1. t.parent[q] = far /\ t.parent[far] = s /\ t.parent[s] = q
            BY <1>2, <1>6, <3>3, <3>6
          <6>2. /\ Depth(bd, hi, q) < Depth(bd, hi, s) /\ Depth(bd, hi, s) < Depth(bd, hi, far)
                /\ Depth(bd, hi, far) < Depth(bd, hi, q)
            BY <1>2, <1>6, <6>1, DepthOf
          <6>3. Depth(bd, hi, q) \in Nat /\ Depth(bd, hi, s) \in Nat /\ Depth(bd, hi, far) \in Nat
            BY <1>2, <1>6, DepthOf
          <6> HIDE DEF Depth
          <6> QED BY <6>2, <6>3
        <5> QED BY <5>1, <5>2
      <4>3. w[a][y] = c /\ b[c] = bh[c] /\ b[y] = bh[y] + 1
        BY <1>6, <1>12, <3>1, <3>2, <3>6, <4>2
      <4>4. bh[y] = bh[c] + 0 + 0
        BY <3>1, <4>1, <4>2 DEF One
      <4> HIDE DEF V
      <4> QED BY <3>n, <4>1, <4>3, <4>4 DEF Level, One
    <3>7. CASE y # q /\ y # s /\ y # far
      <4>1. b[y] = bh[y] /\ (y \in V <=> y \in W)
        BY <1>11, <1>12, <3>1, <3>7 DEF W
      <4>2. c # x /\ c # s /\ c # far
        BY <3>7, <3>d
      <4>3. b[w[a][y]] = bh[c]
        <5>1. CASE c = q
          BY <1>12, <3>1, <3>7, <5>1
        <5>2. CASE c # q
          BY <1>12, <3>1, <3>2, <3>7, <4>2, <5>2
        <5> QED BY <5>1, <5>2
      <4> HIDE DEF V
      <4> QED BY <3>1, <4>1, <4>2, <4>3 DEF Level, One
    <3> QED BY <3>4, <3>5, <3>6, <3>7
  <2> HIDE DEF V
  <2> QED BY <1>12, <1>13, <2>1 DEF Even
<1>17. Colors(w, {})
  <2>0. t.root \notin t.red
    BY <1>z DEF Colors
  <2>1. w.root \notin w.red
    <3>1. t.root # Null => t.parent[t.root] = Null
      BY DEF Framed
    <3>2. t.root # s /\ t.root \in F \cup {Null} /\ w.red \subseteq F
      BY <1>2, <1>8, <1>9, <3>1 DEF Framed
    <3> QED BY <1>2, <1>4, <1>10, <1>11, <2>0, <3>2
  <2>2. ASSUME NEW y \in w.red PROVE w.parent[y] \notin w.red
    <3>1. y \in F /\ y \in Node /\ y # q
      BY <1>2, <1>4, <1>8, <1>9, <1>11
    <3>n. Null \notin w.red
      BY <1>4, <1>8, <1>9
    <3>q. q \notin w.red
      BY <1>2, <1>11
    <3>2. CASE y = s
      <4>1. w.parent[y] = t.parent[q] /\ q \in t.red
        BY <1>2, <1>10, <1>11, <3>2
      <4>2. t.parent[q] \notin t.red
        BY <1>z, <4>1 DEF Colors
      <4>3. t.parent[q] # s /\ t.parent[q] \in Link
        <5>1. t.parent[q] # s
          <6> SUFFICES ASSUME t.parent[q] = s PROVE FALSE
            OBVIOUS
          <6>1. Depth(bd, hi, q) < Depth(bd, hi, s) /\ Depth(bd, hi, s) < Depth(bd, hi, q)
            BY <1>2, DepthOf
          <6>2. Depth(bd, hi, q) \in Nat /\ Depth(bd, hi, s) \in Nat
            BY <1>2, DepthOf
          <6> QED BY <6>1, <6>2
        <5>2. q \in Node
          BY <1>2
        <5> QED BY <5>1, <5>2, FramedTypes
      <4> QED BY <1>11, <3>n, <4>1, <4>2, <4>3 DEF Link
    <3>3. CASE y # s
      <4>1. y \in t.red /\ y # far
        BY <1>11, <3>1, <3>3
      <4>2. CASE y = t[d][s]
        BY <1>10, <3>1, <3>3, <3>q, <4>2
      <4>3. CASE y # t[d][s]
        <5>1. w.parent[y] = t.parent[y]
          BY <1>10, <3>1, <3>3, <4>3
        <5>2. t.parent[y] \notin t.red
          BY <1>z, <4>1 DEF Colors
        <5>3. t.parent[y] # s
          <6> SUFFICES ASSUME t.parent[y] = s PROVE FALSE
            OBVIOUS
          <6>1. SideOf(t, y) \in Side /\ t[SideOf(t, y)][s] = y
            BY <1>2, <3>1, KidOfParent
          <6> QED BY <1>3, <1>f, <4>1, <4>3, <6>1
        <5>4. t.parent[y] \in Link
          BY <3>1, FramedTypes
        <5> QED BY <1>11, <3>n, <5>1, <5>2, <5>3, <5>4 DEF Link
      <4> QED BY <4>2, <4>3
    <3> QED BY <3>2, <3>3
  <2> QED BY <2>1, <2>2 DEF Colors
<1>18. IsLeaf(w, z) /\ z \notin w.red
  <2>1. \A a \in Side : t[a][z] = Null
    BY <1>z DEF IsLeaf
  <2>2. z \in Node /\ z # s /\ z # q
    BY <1>2, <1>z
  <2>3. \A a \in Side : w[a][z] = Null
    BY <1>2, <1>10, <2>1, <2>2
  <2> QED BY <1>11, <1>z, <2>2, <2>3 DEF IsLeaf
<1>19. Sunken(w, F, z, {})
  BY <1>16, <1>17, <1>18, <1>z DEF Sunken
<1> QED BY <1>9, <1>19, <1>r

-----------------------------------------------------------------------------
(* delete_case1: the climb ends.                                           *)

(* The steps of the climb stay within its domain, whatever the tree.       *)
LEMMA RotateTree ==
  ASSUME NEW t, t \in Tree, NEW s, s \in Side, NEW p, p \in Node, t[Other(s)][p] \in Node
  PROVE  Rotate(t, s, p) \in Tree
<1> DEFINE n == t[Other(s)][p]
           m == t[s][n]
           g == t.parent[p]
           d == SideOf(t, p)
           u == Hang(t, g, p, n)
           v == IF m = Null THEN u ELSE PutParent(u, m, p)
           r == PutTurn(v, s, p, n, m, g)
<1>0. Rotate(t, s, p) = r
  BY DEF Rotate, PutParent, PutTurn
<1>1. n \in Node /\ n \in Link /\ p \in Link
  BY DEF Link
<1> HIDE DEF n
<1>2. m \in Link /\ g \in Link /\ d \in Side
  BY <1>1 DEF Tree, Side, SideOf
<1> HIDE DEF m, g
<1>3. u \in Tree
  <2>1. CASE g = Null
    <3>1. u = PutRoot(t, n)
      BY <2>1 DEF Hang, PutRoot
    <3> HIDE DEF u
    <3> QED BY <1>1, <3>1, PutRootAt
  <2>2. CASE g # Null
    <3>1. u = PutKid(t, d, g, n) /\ g \in Node
      BY <1>2, <2>2 DEF Hang, PutKid, Link
    <3> HIDE DEF u, d
    <3> QED BY <1>1, <1>2, <3>1, PutKidAt
  <2> QED BY <2>1, <2>2
<1> HIDE DEF u
<1>4. v \in Tree
  <2>1. CASE m = Null
    BY <1>3, <2>1
  <2>2. CASE m # Null
    <3>1. v = PutParent(u, m, p) /\ m \in Node
      BY <1>2, <2>2 DEF Link
    <3> HIDE DEF v
    <3> QED BY <1>1, <1>3, <3>1, PutParentAt
  <2> QED BY <2>1, <2>2
<1> HIDE DEF v
<1>5. r \in Tree
  BY <1>1, <1>2, <1>4 DEF Side, Tree, Other, PutTurn
<1> QED BY <1>0, <1>5

LEMMA DeleteCase2Tree ==
  ASSUME NEW t, t \in Tree, NEW p, p \in Node, Null \notin Node
  PROVE  DeleteCase2(t, p) \in Tree
<1> DEFINE q == t.parent[p]
           d == SideOf(t, p)
           s == Sibling(t, p)
           u == Blacken(Redden(t, q), s)
<1>1. CASE s \notin t.red
  BY <1>1 DEF DeleteCase2
<1>2. CASE s \in t.red
  <2>1. DeleteCase2(t, p) = Rotate(u, d, q)
    BY <1>2 DEF DeleteCase2
  <2>2. s \in Node /\ q \in Link /\ d \in Side
    BY <1>2 DEF Tree, Side, SideOf
  <2>3. q # Null
    BY <2>2 DEF Sibling
  <2>4. s = t[Other(d)][q] /\ q \in Node
    BY <2>2, <2>3 DEF Sibling, Link
  <2> HIDE DEF q, d, s
  <2>5. SameLinks(t, u)
    <3> DEFINE a == Redden(t, q)
    <3>1. SameLinks(t, a)
      BY <2>2, ReddenAt
    <3>2. a \in Tree
      BY <3>1 DEF SameLinks
    <3>3. u = Blacken(a, s)
      OBVIOUS
    <3> HIDE DEF a, u
    <3>4. SameLinks(a, Blacken(a, s))
      BY <3>2, BlackenAt
    <3> QED BY <3>1, <3>3, <3>4, SameLinksTrans
  <2> HIDE DEF u
  <2>6. u \in Tree /\ u[Other(d)][q] \in Node
    BY <2>2, <2>4, <2>5, Sides DEF SameLinks
  <2> QED BY <2>1, <2>2, <2>4, <2>6, RotateTree
<1> QED BY <1>1, <1>2

(* delete_case1 to delete_case4 as a climb. *)
SinksOn(t, p) ==
  LET r == DeleteCase2(t, p)
  IN t.parent[p] # Null /\ Drops(r, Sibling(r, p)) /\ r.parent[p] \notin r.red
Sunk(t, p) ==
  LET r == DeleteCase2(t, p)
      s == Sibling(r, p)
  IN IF t.parent[p] = Null THEN t
     ELSE IF Drops(r, s) THEN Blacken(Redden(r, s), r.parent[p])
     ELSE DeleteCase6(DeleteCase5(r, p), p)
Dropped(t, p) ==
  LET r == DeleteCase2(t, p) IN At(Redden(r, Sibling(r, p)), r.parent[p])
SinkStop == {x \in Places : ~ SinksOn(x.t, x.p)}
SinkEnd == [x \in Places |-> Sunk(x.t, x.p)]
SinkOn == [x \in Places |-> Dropped(x.t, x.p)]

LEMMA SinkIsClosed ==
  ASSUME Null \notin Node
  PROVE  Closed(Places, Places, SinkStop, SinkOn)
<1> SUFFICES ASSUME NEW x \in Places, x \notin SinkStop PROVE SinkOn[x] \in Places
  BY DEF Closed
<1> DEFINE r == DeleteCase2(x.t, x.p)
           s == Sibling(r, x.p)
           q == r.parent[x.p]
<1>1. x.t \in Tree /\ x.p \in Node /\ SinksOn(x.t, x.p)
  BY PlaceOf DEF SinkStop
<1>2. r \in Tree
  BY <1>1, DeleteCase2Tree
<1>3. Drops(r, s) /\ SinkOn[x] = At(Redden(r, s), q)
  BY <1>1 DEF SinksOn, SinkOn, Dropped
<1> HIDE DEF r
<1>4. q \in Link /\ q # Null
  BY <1>1, <1>2, <1>3 DEF Drops, Sibling, Tree
<1>5. s \in Link
  BY <1>1, <1>2, <1>4 DEF Sibling, Tree, Side, Link, Other, SideOf
<1> HIDE DEF s, q
<1>6. Redden(r, s) \in Tree
  BY <1>2, <1>5, ReddenAt DEF SameLinks
<1>7. q \in Node
  BY <1>4 DEF Link
<1> QED BY <1>3, <1>6, <1>7, PlaceOf

LEMMA DeleteCase1Climbs ==
  ASSUME Null \notin Node, NEW t0, NEW node
  PROVE  \E f : Climbs(f, Places, SinkStop, SinkEnd, SinkOn)
                /\ DeleteCase1(t0, node) = f[At(t0, node)]
<1> DEFINE Body(f, x) ==
      LET t == DeleteCase2(x.t, x.p)
          q == t.parent[x.p]
          s == Sibling(t, x.p)
      IN IF x.t.parent[x.p] = Null THEN x.t
         ELSE IF s # Null /\ s \notin t.red /\ BlackKids(t, s)
         THEN IF q \in t.red THEN Blacken(Redden(t, s), q) ELSE f[At(Redden(t, s), q)]
         ELSE DeleteCase6(DeleteCase5(t, x.p), x.p)
<1>1. ASSUME NEW f, NEW x \in Places
      PROVE  Body(f, x) = Step(f, SinkStop, SinkEnd, SinkOn, x)
  <2>1. CASE x \in SinkStop
    <3>1. ~ SinksOn(x.t, x.p)
      BY <2>1 DEF SinkStop
    <3>2. Step(f, SinkStop, SinkEnd, SinkOn, x) = Sunk(x.t, x.p)
      BY <2>1 DEF Step, SinkEnd
    <3>3. Body(f, x) = Sunk(x.t, x.p)
      BY <3>1 DEF SinksOn, Sunk, Drops
    <3> QED BY <3>2, <3>3
  <2>2. CASE x \notin SinkStop
    <3>1. SinksOn(x.t, x.p)
      BY <2>2 DEF SinkStop
    <3>2. Step(f, SinkStop, SinkEnd, SinkOn, x) = f[Dropped(x.t, x.p)]
      BY <2>2 DEF Step, SinkOn
    <3>3. Body(f, x) = f[Dropped(x.t, x.p)]
      BY <3>1 DEF SinksOn, Dropped, Drops
    <3> QED BY <3>2, <3>3
  <2> QED BY <2>1, <2>2
<1> DEFINE f == CHOOSE h : h = [x \in Places |-> Body(h, x)]
<1>2. \E h : h = [x \in Places |-> Body(h, x)]
  <2> HIDE DEF Body
  <2>1. PICK h : h = [x \in Places |-> Step(h, SinkStop, SinkEnd, SinkOn, x)]
    <3>1. \E h : Climbs(h, Places, SinkStop, SinkEnd, SinkOn)
      BY SinkIsClosed, ClimbExists
    <3> QED BY <3>1 DEF Climbs
  <2>2. [x \in Places |-> Step(h, SinkStop, SinkEnd, SinkOn, x)] = [x \in Places |-> Body(h, x)]
    BY <1>1
  <2> QED BY <2>1, <2>2
<1>3. f = [x \in Places |-> Body(f, x)]
  <2> HIDE DEF Body
  <2> QED BY <1>2
<1>4. DeleteCase1(t0, node) = f[At(t0, node)]
  BY DEF DeleteCase1, Places
<1> HIDE DEF f, Body
<1>5. Climbs(f, Places, SinkStop, SinkEnd, SinkOn)
  <2>1. [x \in Places |-> Step(f, SinkStop, SinkEnd, SinkOn, x)] = [x \in Places |-> Body(f, x)]
    BY <1>1
  <2> QED BY <1>3, <2>1 DEF Climbs
<1> QED BY <1>4, <1>5

(* The climb goes on with the parent, without a rotation. *)
LEMMA DroppedSinks ==
  ASSUME NEW t, NEW F, NEW pos, NEW bd, NEW hi, Framed(t, F, pos, bd, hi),
         NEW z, NEW x, x \in F, x \notin t.red, Sunken(t, F, z, {x}), SinksOn(t, x),
         NEW y, y = Dropped(t, x)
  PROVE  /\ y \in Places /\ Framed(y.t, F, pos, bd, hi)
         /\ y.p \in F /\ y.p \notin y.t.red /\ Sunken(y.t, F, z, {y.p})
         /\ Depth(bd, hi, y.p) < Depth(bd, hi, x)
<1> DEFINE r == DeleteCase2(t, x)
           s == Sibling(t, x)
           q == t.parent[x]
           v == Redden(t, s)
<1>1. q # Null /\ Drops(r, Sibling(r, x)) /\ r.parent[x] \notin r.red
  BY DEF SinksOn
<1>2. r = t
  <2> HIDE DEF r
  <2>1. t.parent[x] # Null /\ r = DeleteCase2(t, x)
    BY <1>1 DEF r
  <2>2. /\ \E b : Framed(r, F, pos, b, hi)
        /\ Sunken(r, F, z, {x}) /\ x \notin r.red
        /\ r.parent[x] = t.parent[x]
        /\ Sibling(r, x) \notin r.red
        /\ r.parent[x] \notin r.red => r = t
    BY <2>1, Case2Sinks
  <2> QED BY <1>1, <2>2
<1>3. y = At(v, q) /\ Drops(t, s) /\ q \notin t.red
  BY <1>1, <1>2 DEF Dropped
<1>4. Framed(v, F, pos, bd, hi) /\ Sunken(v, F, z, {q}) /\ q \in F /\ q \notin v.red
  <2>1. q # Null /\ Drops(t, s) /\ q \notin t.red
    BY <1>1, <1>3
  <2> HIDE DEF v
  <2>2. v = Redden(t, s)
    BY DEF v
  <2> QED BY <2>1, <2>2, Case3Sinks
<1>5. v \in Tree /\ q \in Node
  BY <1>4 DEF Framed
<1>6. Depth(bd, hi, q) < Depth(bd, hi, x)
  BY <1>1, DepthOf
<1> HIDE DEF v, q
<1>7. y \in Places /\ y.t = v /\ y.p = q
  BY <1>3, <1>5, PlaceOf
<1> QED BY <1>4, <1>6, <1>7

(* Where the climb ends nothing is missing. *)
LEMMA SunkSettles ==
  ASSUME NEW t, NEW F, NEW pos, NEW bd, NEW hi, Framed(t, F, pos, bd, hi),
         NEW z, NEW x, x \in F, x \notin t.red, Sunken(t, F, z, {x}), ~ SinksOn(t, x)
  PROVE  /\ \E b : Framed(Sunk(t, x), F, pos, b, hi)
         /\ Sunken(Sunk(t, x), F, z, {})
<1>1. CASE t.parent[x] = Null
  <2>1. Sunk(t, x) = t
    BY <1>1 DEF Sunk
  <2>2. PICK bh : Even(t, F, bh, t.red \cup {z}, {x})
    BY DEF Sunken
  <2>3. Even(t, F, bh, t.red \cup {z}, {})
    <3>1. ASSUME NEW y \in F, NEW a \in Side PROVE Level(t, bh, t.red \cup {z}, {}, y, a)
      <4>1. t[a][y] # x
        <5> SUFFICES ASSUME t[a][y] = x PROVE FALSE
          OBVIOUS
        <5>1. x # Null /\ y # Null
          BY FramedTypes
        <5>2. t.parent[x] = y
          BY <5>1, KidSide
        <5> QED BY <1>1, <5>1, <5>2
      <4>2. Level(t, bh, t.red \cup {z}, {x}, y, a)
        BY <2>2 DEF Even
      <4> QED BY <4>1, <4>2 DEF Level, One
    <3> QED BY <2>2, <3>1 DEF Even
  <2> QED BY <2>1, <2>3 DEF Sunken
<1>2. CASE t.parent[x] # Null
  <2> DEFINE r == DeleteCase2(t, x)
             s == Sibling(r, x)
             q == r.parent[x]
             w == DeleteCase5(r, x)
  <2>1. /\ \E b : Framed(r, F, pos, b, hi)
        /\ Sunken(r, F, z, {x}) /\ x \notin r.red
        /\ q # Null /\ s \notin r.red
    <3> HIDE DEF r
    <3>1. r = DeleteCase2(t, x)
      BY DEF r
    <3>2. /\ \E b : Framed(r, F, pos, b, hi)
          /\ Sunken(r, F, z, {x}) /\ x \notin r.red
          /\ r.parent[x] = t.parent[x]
          /\ Sibling(r, x) \notin r.red
      BY <1>2, <3>1, Case2Sinks
    <3> QED BY <1>2, <3>2
  <2>2. PICK b0 : Framed(r, F, pos, b0, hi)
    BY <2>1
  <2>3. /\ Drops(r, s) => q \in r.red /\ Sunk(t, x) = Blacken(Redden(r, s), q)
        /\ ~ Drops(r, s) => Sunk(t, x) = DeleteCase6(w, x)
    BY <1>2 DEF SinksOn, Sunk
  <2>4. CASE Drops(r, s)
    <3> DEFINE v == Blacken(Redden(r, s), q)
    <3> HIDE DEF r, s, q, v
    <3>1. Framed(v, F, pos, b0, hi) /\ Sunken(v, F, z, {})
      <4>1. q \in r.red /\ q = r.parent[x] /\ s = Sibling(r, x) /\ v = Blacken(Redden(r, s), q)
        BY <2>3, <2>4 DEF q, s, v
      <4>2. r.parent[x] # Null
        BY <2>1 DEF q
      <4> QED BY <2>1, <2>2, <2>4, <4>1, <4>2, Case4Settles
    <3> QED BY <2>3, <2>4, <3>1 DEF v
  <2>5. CASE ~ Drops(r, s)
    <3>1. ~ BlackKids(r, s)
      <4>1. PICK bh : Even(r, F, bh, r.red \cup {z}, {x})
        BY <2>1 DEF Sunken
      <4>2. Beneath(r, F, z, x, bh, r.parent[x], SideOf(r, x), Sibling(r, x))
        <5>1. z \in F /\ z \notin r.red /\ IsLeaf(r, z) /\ r.parent[x] # Null
          BY <2>1 DEF Sunken
        <5> HIDE DEF r
        <5> QED BY <2>2, <4>1, <5>1, SinkAround
      <4>3. s # Null
        BY <4>2 DEF Beneath
      <4> HIDE DEF r, s
      <4> QED BY <2>1, <2>5, <4>3 DEF Drops
    <3>0. /\ Sunken(r, F, z, {x}) /\ x \notin r.red /\ r.parent[x] # Null
          /\ Sibling(r, x) \notin r.red /\ ~ BlackKids(r, Sibling(r, x)) /\ w = DeleteCase5(r, x)
      BY <2>1, <3>1
    <3> HIDE DEF r, s, q, w
    <3>2. /\ \E b : Framed(w, F, pos, b, hi)
          /\ Sunken(w, F, z, {x}) /\ x \notin w.red
          /\ w.parent[x] # Null /\ Sibling(w, x) \notin w.red
          /\ w[Other(SideOf(w, x))][Sibling(w, x)] \in w.red
      BY <2>2, <3>0, Case5Sinks
    <3>3. PICK b1 : Framed(w, F, pos, b1, hi)
      BY <3>2
    <3> DEFINE v == DeleteCase6(w, x)
    <3> HIDE DEF v
    <3>4. (\E b : Framed(v, F, pos, b, hi)) /\ Sunken(v, F, z, {})
      <4>1. v = DeleteCase6(w, x)
        BY DEF v
      <4> QED BY <3>2, <3>3, <4>1, Case6Settles
    <3> QED BY <2>3, <2>5, <3>4 DEF v
  <2> QED BY <2>4, <2>5
<1> QED BY <1>1, <1>2

(* After delete_case1 the tree is balanced without z: the climb ends at    *)
(* the root at the latest.                                                 *)
LEMMA DeleteCase1Settles ==
  ASSUME NEW t0, NEW F, NEW pos, NEW bd, NEW hi, Framed(t0, F, pos, bd, hi),
         NEW z, NEW node, node \in F, node \notin t0.red, Sunken(t0, F, z, {node})
  PROVE  /\ \E b : Framed(DeleteCase1(t0, node), F, pos, b, hi)
         /\ Sunken(DeleteCase1(t0, node), F, z, {})
<1>1. Null \notin Node /\ t0 \in Tree /\ node \in Node
  BY DEF Framed
<1>2. PICK f : Climbs(f, Places, SinkStop, SinkEnd, SinkOn)
               /\ DeleteCase1(t0, node) = f[At(t0, node)]
  BY <1>1, DeleteCase1Climbs
<1> DEFINE Sinking(x) == /\ Framed(x.t, F, pos, bd, hi) /\ x.p \in F /\ x.p \notin x.t.red
                         /\ Sunken(x.t, F, z, {x.p})
           Settles(r) == (\E b : Framed(r, F, pos, b, hi)) /\ Sunken(r, F, z, {})
           P == {x \in Places : Sinking(x)}
           R == {r \in {DeleteCase1(t0, node)} \cup {SinkEnd[x] : x \in Places} : Settles(r)}
           mu == [x \in Places |-> Depth(bd, hi, x.p)]
<1>3. At(t0, node) \in P
  <2>1. At(t0, node) \in Places /\ At(t0, node).t = t0 /\ At(t0, node).p = node
    BY <1>1, PlaceOf
  <2> QED BY <2>1
<1>4. Leads(P, R, SinkStop, SinkEnd, SinkOn, mu)
  <2> SUFFICES ASSUME NEW x \in P
               PROVE  /\ mu[x] \in Nat
                      /\ x \in SinkStop => SinkEnd[x] \in R
                      /\ x \notin SinkStop => SinkOn[x] \in P /\ mu[SinkOn[x]] < mu[x]
    BY DEF Leads
  <2>1. x \in Places
    OBVIOUS
  <2>2. /\ Framed(x.t, F, pos, bd, hi) /\ x.p \in F /\ x.p \notin x.t.red
        /\ Sunken(x.t, F, z, {x.p})
    OBVIOUS
  <2>3. mu[x] = Depth(bd, hi, x.p) /\ Depth(bd, hi, x.p) \in Nat
    BY <2>1, <2>2, DepthOf
  <2>4. ASSUME x \in SinkStop PROVE SinkEnd[x] \in R
    <3>1. ~ SinksOn(x.t, x.p) /\ SinkEnd[x] = Sunk(x.t, x.p)
      BY <2>1, <2>4 DEF SinkStop, SinkEnd
    <3>2. Settles(Sunk(x.t, x.p))
      BY <2>2, <3>1, SunkSettles
    <3> HIDE DEF Settles
    <3> QED BY <2>1, <3>1, <3>2
  <2>5. ASSUME x \notin SinkStop PROVE SinkOn[x] \in P /\ mu[SinkOn[x]] < mu[x]
    <3>1. SinksOn(x.t, x.p) /\ SinkOn[x] = Dropped(x.t, x.p)
      BY <2>1, <2>5 DEF SinkStop, SinkOn
    <3> DEFINE y == SinkOn[x]
    <3>2. /\ y \in Places /\ Framed(y.t, F, pos, bd, hi)
          /\ y.p \in F /\ y.p \notin y.t.red /\ Sunken(y.t, F, z, {y.p})
          /\ Depth(bd, hi, y.p) < Depth(bd, hi, x.p)
      <4> HIDE DEF y
      <4>1. y = Dropped(x.t, x.p)
        BY <3>1 DEF y
      <4> QED BY <2>2, <3>1, <4>1, DroppedSinks
    <3>3. mu[y] = Depth(bd, hi, y.p)
      BY <3>2
    <3> HIDE DEF y, mu
    <3> QED BY <2>3, <3>2, <3>3 DEF y
  <2> QED BY <2>3, <2>4, <2>5
<1>5. f[At(t0, node)] \in R
  <2>1. P \subseteq Places
    OBVIOUS
  <2> HIDE DEF P, R, mu
  <2> QED BY <1>2, <1>3, <1>4, <2>1, ClimbEnds
<1> QED BY <1>2, <1>5

-----------------------------------------------------------------------------
(* copy_node.                                                              *)

(* p and q exchange their places. *)
Sw(p, q, x) == IF x = p THEN q ELSE IF x = q THEN p ELSE x
Swapped(t, p, q, r) ==
  /\ r \in Tree /\ r.root = Sw(p, q, t.root)
  /\ \A a \in Side, y \in Node : r[a][y] = Sw(p, q, t[a][Sw(p, q, y)])
  /\ \A y \in Node : r.parent[y] = Sw(p, q, t.parent[Sw(p, q, y)])
SwPos(pos, p, q) == [x \in Node |-> pos[Sw(p, q, x)]]
SwBd(bd, p, q) == [a \in Side |-> [x \in Node |-> bd[a][Sw(p, q, x)]]]
SwBh(bh, p, q) == [x \in Link |-> bh[Sw(p, q, x)]]

(* copy_node exchanges two nodes.                                          *)
LEMMA CopyAt ==
  ASSUME NEW t, t \in Tree, Null \notin Node, NEW p, p \in Node, NEW q, q \in Node
  PROVE  Swapped(t, p, q, CopyNode(t, p, q)) /\ CopyNode(t, p, q).red = t.red
<1> DEFINE M(f) == [x \in Node |-> Sw(p, q, f[Sw(p, q, x)])]
           r == [t EXCEPT !.root = Sw(p, q, @), !.left = M(@), !.right = M(@), !.parent = M(@)]
<1>1. CopyNode(t, p, q) = r
  BY DEF CopyNode, Sw
<1>2. \A x \in Link : Sw(p, q, x) \in Link
  BY DEF Sw, Link
<1>3. \A x \in Node : Sw(p, q, x) \in Node
  BY DEF Sw
<1>4. ASSUME NEW f \in [Node -> Link] PROVE M(f) \in [Node -> Link]
  BY <1>2, <1>3
<1>5. /\ t.left \in [Node -> Link] /\ t.right \in [Node -> Link] /\ t.parent \in [Node -> Link]
      /\ t.root \in Link
  BY DEF Tree
<1> HIDE DEF M
<1>6. /\ r.root = Sw(p, q, t.root) /\ r.left = M(t.left) /\ r.right = M(t.right)
      /\ r.parent = M(t.parent) /\ r.red = t.red
  BY DEF Tree
<1>7. r \in Tree
  <2>1. M(t.left) \in [Node -> Link] /\ M(t.right) \in [Node -> Link] /\ M(t.parent) \in [Node -> Link]
    BY <1>4, <1>5
  <2>2. Sw(p, q, t.root) \in Link
    BY <1>2, <1>5
  <2> QED BY <2>1, <2>2 DEF Tree
<1> HIDE DEF r
<1>8. \A y \in Node : r.parent[y] = Sw(p, q, t.parent[Sw(p, q, y)])
  BY <1>6 DEF M
<1>9. \A y \in Node : r.left[y] = Sw(p, q, t.left[Sw(p, q, y)])
  BY <1>6 DEF M
<1>10. \A y \in Node : r.right[y] = Sw(p, q, t.right[Sw(p, q, y)])
  BY <1>6 DEF M
<1>11. ASSUME NEW a \in Side PROVE \A y \in Node : r[a][y] = Sw(p, q, t[a][Sw(p, q, y)])
  BY <1>9, <1>10 DEF Side
<1> QED BY <1>1, <1>6, <1>7, <1>8, <1>11 DEF Swapped

(* Bounds and black heights go with the places.                            *)
LEMMA SwappedFramed ==
  ASSUME NEW t, NEW F, NEW pos, NEW bd, NEW hi, Framed(t, F, pos, bd, hi),
         NEW p, p \in F, NEW q, q \in F, NEW r, Swapped(t, p, q, r), r.red \subseteq F
  PROVE  Framed(r, F, SwPos(pos, p, q), SwBd(bd, p, q), hi)
<1> DEFINE S(x) == Sw(p, q, x)
           p1 == SwPos(pos, p, q)
           b1 == SwBd(bd, p, q)
<1>1. /\ Null \notin Node /\ F \subseteq Node /\ hi \in Nat /\ Null \notin F
      /\ t.root \in F \cup {Null} /\ (t.root # Null => t.parent[t.root] = Null)
  BY FramedTypes DEF Framed
<1>2. /\ \A x : S(S(x)) = x
      /\ S(Null) = Null /\ \A x : S(x) = Null => x = Null
      /\ \A x \in F : S(x) \in F
      /\ \A x \in Node : S(x) \in Node
      /\ \A x \in Node \ F : S(x) = x
  BY <1>1 DEF Sw, Link
<1>t. /\ \A s \in Side, y \in Node : t[s][y] \in Link /\ bd[s][y] \in Nat
      /\ \A y \in Node : t.parent[y] \in Link /\ pos[y] \in Nat
  BY FramedTypes
<1>3. /\ \A y \in Node : p1[y] = pos[S(y)]
      /\ \A a \in Side, y \in Node : b1[a][y] = bd[a][S(y)]
  BY DEF SwPos, SwBd
<1>4. p1 \in [Node -> Nat]
  BY <1>2, <1>t DEF SwPos
<1>5. b1 \in [Side -> [Node -> Nat]]
  BY <1>2, <1>t DEF SwBd
<1> HIDE DEF p1, b1
<1>r. /\ r \in Tree /\ r.root = S(t.root)
      /\ \A a \in Side, y \in Node : r[a][y] = S(t[a][S(y)])
      /\ \A y \in Node : r.parent[y] = S(t.parent[S(y)])
  BY DEF Swapped
<1> HIDE DEF S
<1>6. ASSUME NEW y \in F, NEW a \in Side PROVE KidFits(r, F, p1, b1, y, a)
  <2> DEFINE z == S(y)
             c == t[a][z]
  <2>1. z \in F /\ z \in Node /\ y \in Node /\ S(z) = y
    BY <1>1, <1>2
  <2>2. r[a][y] = S(c)
    BY <1>r, <2>1
  <2>3. c \in F \cup {Null} /\ (c # Null => t.parent[c] = z /\ bd[a][c] = bd[a][z] /\ bd[Other(a)][c] = pos[z])
    BY <2>1 DEF Framed, KidFits
  <2> HIDE DEF z, c
  <2>4. S(c) \in F \cup {Null} /\ (S(c) # Null => c # Null /\ S(c) \in F /\ S(c) \in Node)
    BY <1>1, <1>2, <2>3
  <2>5. ASSUME S(c) # Null PROVE r.parent[S(c)] = y
    <3>1. r.parent[S(c)] = S(t.parent[S(S(c))])
      BY <1>r, <2>4, <2>5
    <3>2. S(S(c)) = c
      BY <1>2
    <3> QED BY <2>1, <2>3, <2>4, <2>5, <3>1, <3>2
  <2>6. ASSUME S(c) # Null PROVE b1[a][S(c)] = b1[a][y] /\ b1[Other(a)][S(c)] = p1[y]
    <3>1. b1[a][S(c)] = bd[a][S(S(c))] /\ b1[Other(a)][S(c)] = bd[Other(a)][S(S(c))]
      BY <1>3, <2>4, <2>6, Sides
    <3>2. S(S(c)) = c
      BY <1>2
    <3>3. b1[a][y] = bd[a][z] /\ p1[y] = pos[z]
      BY <1>3, <2>1 DEF z
    <3> QED BY <2>3, <2>4, <2>6, <3>1, <3>2, <3>3
  <2> QED BY <2>2, <2>4, <2>5, <2>6 DEF KidFits
<1>7. ASSUME NEW y \in F PROVE Placed(r, F, y)
  <2> DEFINE z == S(y)
             g == t.parent[z]
  <2>1. z \in F /\ z \in Node /\ y \in Node /\ S(z) = y
    BY <1>1, <1>2
  <2>2. r.parent[y] = S(g)
    BY <1>r, <2>1
  <2>3. (g = Null => z = t.root) /\ (g # Null => g \in F /\ \E s \in Side : t[s][g] = z)
    BY <2>1 DEF Framed, Placed
  <2> HIDE DEF z, g
  <2>4. S(g) = Null => y = r.root
    BY <1>2, <1>r, <2>1, <2>3
  <2>5. ASSUME S(g) # Null PROVE S(g) \in F /\ \E s \in Side : r[s][S(g)] = y
    <3>1. g # Null /\ g \in F /\ S(g) \in F /\ S(g) \in Node
      BY <1>1, <1>2, <2>3, <2>5
    <3>2. PICK s \in Side : t[s][g] = z
      BY <2>3, <3>1
    <3>3. r[s][S(g)] = S(t[s][S(S(g))])
      BY <1>r, <3>1
    <3>4. S(S(g)) = g
      BY <1>2
    <3> QED BY <2>1, <3>1, <3>2, <3>3, <3>4
  <2> QED BY <2>2, <2>4, <2>5 DEF Placed
<1>8. ASSUME NEW y \in F PROVE Spaced(p1, b1, hi, y)
  <2>1. S(y) \in F /\ y \in Node /\ Spaced(pos, bd, hi, S(y))
    BY <1>1, <1>2 DEF Framed
  <2> QED BY <1>3, <2>1, Sides DEF Spaced
<1>9. ASSUME NEW y \in Node \ F PROVE Unlinked1(r, y)
  <2>1. S(y) = y /\ Unlinked1(t, y)
    BY <1>2 DEF Framed
  <2> QED BY <1>2, <1>r, <2>1 DEF Unlinked1
<1>10. r.root \in F \cup {Null} /\ (r.root # Null => r.parent[r.root] = Null)
  <2>1. r.root \in F \cup {Null}
    BY <1>1, <1>2, <1>r
  <2>2. ASSUME r.root # Null PROVE r.parent[r.root] = Null
    <3>1. t.root # Null /\ t.root \in F /\ r.root \in Node /\ S(r.root) = t.root
      BY <1>1, <1>2, <1>r, <2>1, <2>2
    <3>2. r.parent[r.root] = S(t.parent[t.root])
      BY <1>r, <3>1
    <3> QED BY <1>1, <1>2, <3>1, <3>2
  <2> QED BY <2>1, <2>2
<1>11. Framed(r, F, p1, b1, hi)
  BY <1>1, <1>4, <1>5, <1>6, <1>7, <1>8, <1>9, <1>10, <1>r DEF Framed
<1> QED BY <1>11 DEF p1, b1

LEMMA SwappedEven ==
  ASSUME NEW t, NEW F, NEW pos, NEW bd, NEW hi, Framed(t, F, pos, bd, hi),
         NEW p, p \in F, NEW q, q \in F, NEW r, Swapped(t, p, q, r),
         NEW bh, NEW W, Even(t, F, bh, W, {}),
         NEW V, \A x \in F : x \in V <=> Sw(p, q, x) \in W
  PROVE  Even(r, F, SwBh(bh, p, q), V, {})
<1> DEFINE S(x) == Sw(p, q, x)
           b == SwBh(bh, p, q)
<1>1. /\ Null \notin Node /\ F \subseteq Node /\ \A x \in F : x \in Node /\ x \in Link
  BY DEF Framed, Link
<1>2. /\ \A x : S(S(x)) = x
      /\ S(Null) = Null
      /\ \A x \in F : S(x) \in F
      /\ \A x \in Node : S(x) \in Node
      /\ \A x \in Link : S(x) \in Link
  BY <1>1 DEF Sw, Link
<1>3. /\ bh \in [Link -> Nat] /\ bh[Null] = 0
      /\ \A y \in F, a \in Side : bh[y] = bh[t[a][y]] + One(t[a][y] \in {}) + One(y \notin W)
  BY DEF Even, Level
<1>4. \A y \in Link : b[y] = bh[S(y)]
  BY DEF SwBh
<1>5. b \in [Link -> Nat]
  BY <1>2, <1>3 DEF SwBh
<1> HIDE DEF b
<1>6. b[Null] = 0
  BY <1>2, <1>3, <1>4 DEF Link
<1>v. \A x \in F : x \in V <=> S(x) \in W
  OBVIOUS
<1>r. \A a \in Side, y \in Node : r[a][y] = S(t[a][S(y)])
  BY DEF Swapped
<1> HIDE DEF S
<1>7. ASSUME NEW y \in F, NEW a \in Side PROVE Level(r, b, V, {}, y, a)
  <2> DEFINE z == S(y)
             c == t[a][z]
  <2>1. z \in F /\ z \in Node /\ y \in Node /\ y \in Link
    BY <1>1, <1>2
  <2>2. c \in Link
    BY <2>1, FramedTypes
  <2>3. r[a][y] = S(c)
    BY <1>r, <2>1
  <2>4. bh[z] = bh[c] + One(c \in {}) + One(z \notin W)
    BY <1>3, <2>1
  <2>5. b[y] = bh[z]
    BY <1>4, <2>1
  <2>6. y \in V <=> z \in W
    BY <1>v
  <2> HIDE DEF z, c
  <2>7. b[S(c)] = bh[c]
    <3>1. S(c) \in Link /\ S(S(c)) = c
      BY <1>2, <2>2
    <3> QED BY <1>4, <3>1
  <2> QED BY <2>3, <2>4, <2>5, <2>6, <2>7 DEF Level, One
<1>8. Even(r, F, b, V, {})
  BY <1>5, <1>6, <1>7 DEF Even
<1> QED BY <1>8 DEF b

(* No node lies between p and its neighbour q. *)
Beside(F, pos, p, q) ==
  \A r \in F \ {p, q} : /\ pos[r] < pos[p] => pos[r] < pos[q]
                        /\ pos[r] > pos[p] => pos[r] > pos[q]

LEMMA BesideKid ==
  ASSUME NEW t, NEW F, NEW pos, NEW bd, NEW hi, Framed(t, F, pos, bd, hi),
         NEW p, p \in F, NEW q, q \in F, q # p, NEW a, a \in Side,
         bd[Other(a)][q] = pos[p], t[Other(a)][q] = Null
  PROVE  Beside(F, pos, p, q)
<1> SUFFICES ASSUME NEW r \in F \ {p, q}
             PROVE  /\ pos[r] < pos[p] => pos[r] < pos[q]
                    /\ pos[r] > pos[p] => pos[r] > pos[q]
  BY DEF Beside
<1>1. /\ pos[r] \in Nat /\ pos[p] \in Nat /\ pos[q] \in Nat
      /\ bd["left"][q] < pos[q] /\ pos[q] < bd["right"][q]
      /\ bd["left"][q] \in Nat /\ bd["right"][q] \in Nat
  BY FramedTypes, Sides DEF Framed, Spaced
<1>2. Inside(pos, bd, r, q) => \/ pos[r] < pos[q] /\ t.left[q] # Null
                               \/ pos[r] > pos[q] /\ t.right[q] # Null
  BY Gap
<1>3. CASE a = "left"
  <2>1. bd["right"][q] = pos[p] /\ t.right[q] = Null
    BY <1>3, Sides
  <2>2. pos[r] # pos[q]
    <3>1. pos[r] = pos[q] => Inside(pos, bd, r, q)
      BY <1>1 DEF Inside
    <3> QED BY <1>1, <1>2, <3>1
  <2> QED BY <1>1, <1>2, <2>1, <2>2 DEF Inside
<1>4. CASE a = "right"
  <2>1. bd["left"][q] = pos[p] /\ t.left[q] = Null
    BY <1>4, Sides
  <2>2. pos[r] # pos[q]
    <3>1. pos[r] = pos[q] => Inside(pos, bd, r, q)
      BY <1>1 DEF Inside
    <3> QED BY <1>1, <1>2, <3>1
  <2> QED BY <1>1, <1>2, <2>1, <2>2 DEF Inside
<1> QED BY <1>3, <1>4 DEF Side

(* Next to each other, p and q exchange places without p being missed. *)
LEMMA SwappedSorted ==
  ASSUME NEW F, F \subseteq Node, NEW pos, NEW key, NEW p, p \in F, NEW q, q \in F, q # p,
         Sorted(F \ {p}, pos, key), Beside(F, pos, p, q), key \in [Node -> Nat],
         pos \in [Node -> Nat]
  PROVE  Sorted(F \ {p}, SwPos(pos, p, q), key)
<1> DEFINE p1 == SwPos(pos, p, q)
<1>1. p1[q] = pos[p] /\ \A y \in F : y # p /\ y # q => p1[y] = pos[y]
  BY DEF SwPos, Sw
<1> HIDE DEF p1
<1>2. \A y, z \in F \ {p} : pos[y] < pos[z] => key[y] <= key[z]
  BY DEF Sorted
<1>3. \A y \in F \ {p, q} : /\ pos[y] < pos[p] => pos[y] < pos[q]
                            /\ pos[y] > pos[p] => pos[y] > pos[q]
  BY DEF Beside
<1>4. \A y \in F : pos[y] \in Nat /\ key[y] \in Nat
  OBVIOUS
<1>5. ASSUME NEW y \in F \ {p}, NEW z \in F \ {p}, p1[y] < p1[z] PROVE key[y] <= key[z]
  <2>1. CASE y = q /\ z = q
    BY <1>4, <2>1
  <2>2. CASE y = q /\ z # q
    <3>1. pos[z] > pos[p]
      BY <1>1, <1>4, <1>5, <2>2
    <3>2. pos[q] < pos[z]
      BY <1>3, <1>4, <2>2, <3>1
    <3> QED BY <1>2, <2>2, <3>2
  <2>3. CASE y # q /\ z = q
    <3>1. pos[y] < pos[p]
      BY <1>1, <1>4, <1>5, <2>3
    <3>2. pos[y] < pos[q]
      BY <1>3, <1>4, <2>3, <3>1
    <3> QED BY <1>2, <2>3, <3>2
  <2>4. CASE y # q /\ z # q
    BY <1>1, <1>2, <1>5, <2>4
  <2> QED BY <2>1, <2>2, <2>3, <2>4
<1> QED BY <1>5 DEF Sorted, p1

-----------------------------------------------------------------------------
(* delete_one_child and delete.                                            *)

(* A node that lacks a kid has at most a red leaf below it, and none if it *)
(* is red itself.                                                          *)
LEMMA LoneKid ==
  ASSUME NEW t, NEW F, NEW pos, NEW bd, NEW hi, Framed(t, F, pos, bd, hi),
         NEW bh, Even(t, F, bh, t.red, {}), Colors(t, {}),
         NEW p, p \in F, NEW a, a \in Side, t[Other(a)][p] = Null,
         NEW c, c = t[a][p]
  PROVE  /\ c \in F \cup {Null}
         /\ c \notin t.red => c = Null
         /\ c \in t.red => c # p /\ p \notin t.red /\ IsLeaf(t, c) /\ bd[Other(a)][c] = pos[p]
<1>1. /\ bh \in [Link -> Nat] /\ bh[Null] = 0
      /\ \A y \in F, s \in Side : bh[y] = bh[t[s][y]] + One(t[s][y] \in {}) + One(y \notin t.red)
  BY DEF Even, Level
<1>2. /\ Null \notin F /\ F \subseteq Node /\ t.red \subseteq F
      /\ \A y \in F, s \in Side : t[s][y] \in F \cup {Null}
      /\ \A y \in F \cup {Null} : y \in Link
  BY FramedTypes DEF Framed, KidFits, Link
<1>3. \A y \in F \cup {Null} : bh[y] \in Nat
  BY <1>1, <1>2
<1>4. \A y \in F, s \in Side : bh[y] = bh[t[s][y]] + One(y \notin t.red) /\ bh[t[s][y]] \in Nat
  BY <1>1, <1>2, <1>3 DEF One
<1>5. \A y \in F \ t.red : bh[y] # 0
  <2> SUFFICES ASSUME NEW y \in F \ t.red PROVE bh[y] # 0
    OBVIOUS
  <2>1. bh[y] = bh[t["left"][y]] + 1 /\ bh[t["left"][y]] \in Nat
    BY <1>4, Sides DEF One
  <2> QED BY <2>1
<1>6. c \in F \cup {Null} /\ bh[c] = 0
  <2>1. bh[p] = One(p \notin t.red)
    BY <1>1, <1>4, Sides DEF One
  <2>2. bh[p] = bh[c] + One(p \notin t.red) /\ bh[c] \in Nat
    BY <1>4
  <2> QED BY <1>2, <2>1, <2>2 DEF One
<1>7. c \notin t.red => c = Null
  BY <1>5, <1>6
<1>8. ASSUME c \in t.red PROVE c # p /\ p \notin t.red /\ IsLeaf(t, c) /\ bd[Other(a)][c] = pos[p]
  <2>1. c \in F /\ c # Null
    BY <1>2, <1>8
  <2>2. t.parent[c] = p /\ c # p /\ bd[Other(a)][c] = pos[p]
    BY <2>1, KidSide
  <2>3. p \notin t.red
    BY <1>8, <2>2 DEF Colors
  <2>4. ASSUME NEW s \in Side PROVE t[s][c] = Null
    <3>1. bh[t[s][c]] = 0
      <4>1. bh[c] = bh[t[s][c]] + 0 /\ bh[t[s][c]] \in Nat
        BY <1>4, <1>8, <2>1 DEF One
      <4> QED BY <1>6, <4>1
    <3>2. t[s][c] # Null => t.parent[t[s][c]] = c
      BY <2>1, KidSide
    <3>3. t[s][c] \notin t.red
      BY <1>2, <1>8, <3>2 DEF Colors
    <3> QED BY <1>2, <1>5, <2>1, <3>1, <3>3
  <2> QED BY <2>2, <2>3, <2>4 DEF IsLeaf
<1> QED BY <1>6, <1>7, <1>8

(* The red kid c takes p's place and colour, and p is cut off in c's.      *)
LEMMA KidTakesOver ==
  ASSUME NEW t, NEW F, NEW pos, NEW bd, NEW hi, Framed(t, F, pos, bd, hi),
         NEW bh, Even(t, F, bh, t.red, {}), Colors(t, {}),
         NEW p, p \in F, p \notin t.red, NEW c, c \in t.red, c # p, IsLeaf(t, c)
  PROVE  Balanced(Cut(CopyNode(Blacken(t, c), p, c), p), F \ {p}, SwPos(pos, p, c), hi)
<1> DEFINE u == Blacken(t, c)
           v == CopyNode(u, p, c)
<1>1. /\ t \in Tree /\ F \subseteq Node /\ Null \notin Node /\ Null \notin F /\ t.red \subseteq F
      /\ c \in F /\ p \in Node /\ c \in Node
  BY FramedTypes DEF Framed
<1>2. SameLinks(t, u) /\ u.red = t.red \ {c}
  BY <1>1, BlackenAt
<1> HIDE DEF u
<1>3. Framed(u, F, pos, bd, hi) /\ Even(u, F, bh, t.red, {})
  <2>1. u.red \subseteq F
    BY <1>1, <1>2
  <2> QED BY <1>2, <2>1, RecolouredFramed, RecolouredEven
<1>4. Swapped(u, p, c, v) /\ v.red = u.red
  BY <1>1, <1>2, CopyAt DEF SameLinks
<1> HIDE DEF v
<1>5. v.red \subseteq F /\ p \notin v.red /\ c \notin v.red
  BY <1>1, <1>2, <1>4
<1>6. Framed(v, F, SwPos(pos, p, c), SwBd(bd, p, c), hi)
  BY <1>1, <1>3, <1>4, <1>5, SwappedFramed
<1>7. Even(v, F, SwBh(bh, p, c), v.red \cup {p}, {})
  <2>1. \A x \in F : x \in v.red \cup {p} <=> Sw(p, c, x) \in t.red
    BY <1>2, <1>4 DEF Sw
  <2>2. c \in F
    BY <1>1
  <2> DEFINE V == v.red \cup {p}
  <2> HIDE DEF V
  <2>3. \A x \in F : x \in V <=> Sw(p, c, x) \in t.red
    BY <2>1 DEF V
  <2>4. Even(v, F, SwBh(bh, p, c), V, {})
    BY <1>3, <1>4, <2>2, <2>3, SwappedEven
  <2> QED BY <2>4 DEF V
<1>8. \A y \in Node : /\ v.parent[y] = Sw(p, c, t.parent[Sw(p, c, y)])
                      /\ \A a \in Side : v[a][y] = Sw(p, c, t[a][Sw(p, c, y)])
  <2>1. ASSUME NEW y \in Node
        PROVE  /\ v.parent[y] = Sw(p, c, t.parent[Sw(p, c, y)])
               /\ \A a \in Side : v[a][y] = Sw(p, c, t[a][Sw(p, c, y)])
    <3> DEFINE z == Sw(p, c, y)
    <3>1. z \in Node
      BY <1>1 DEF Sw
    <3>2. v.parent[y] = Sw(p, c, u.parent[z]) /\ \A a \in Side : v[a][y] = Sw(p, c, u[a][z])
      BY <1>4 DEF Swapped
    <3> HIDE DEF z
    <3>3. u.parent[z] = t.parent[z]
      BY <1>2, <3>1 DEF SameLinks
    <3>4. \A a \in Side : u[a][z] = t[a][z]
      BY <1>2, <3>1 DEF SameLinks
    <3>5. v.parent[y] = Sw(p, c, t.parent[z]) /\ \A a \in Side : v[a][y] = Sw(p, c, t[a][z])
      BY <3>2, <3>3, <3>4
    <3> QED BY <3>5 DEF z
  <2> QED BY <2>1
<1>9. v.root = Sw(p, c, t.root)
  BY <1>2, <1>4 DEF Swapped, SameLinks
<1>10. IsLeaf(v, p)
  <2>1. \A a \in Side : v[a][p] = Sw(p, c, t[a][c])
    BY <1>1, <1>8 DEF Sw
  <2>2. Sw(p, c, Null) = Null
    BY <1>1 DEF Sw
  <2> QED BY <2>1, <2>2 DEF IsLeaf
<1>11. Colors(v, {})
  <2>1. v.root \notin v.red
    BY <1>2, <1>4, <1>5, <1>9 DEF Colors, Sw
  <2>2. ASSUME NEW y \in v.red PROVE v.parent[y] \notin v.red
    <3>1. y \in t.red /\ y # c /\ y # p /\ y \in Node
      BY <1>1, <1>2, <1>4, <1>5
    <3>2. v.parent[y] = Sw(p, c, t.parent[y])
      BY <1>8, <3>1 DEF Sw
    <3>3. t.parent[y] \notin t.red
      BY <3>1 DEF Colors
    <3> QED BY <1>2, <1>4, <1>5, <3>2, <3>3 DEF Sw
  <2> QED BY <2>1, <2>2 DEF Colors
<1>12. Balanced(Cut(v, p), F \ {p}, SwPos(pos, p, c), hi)
  BY <1>6, <1>7, <1>10, <1>11, CutBalances
<1> QED BY <1>12 DEF v, u

(* delete_one_child takes a node out that has a kid at most.               *)
LEMMA DeleteOneChildHolds ==
  ASSUME NEW t, NEW F, NEW pos, NEW hi, Balanced(t, F, pos, hi),
         NEW p, p \in F, t.left[p] = Null \/ t.right[p] = Null,
         NEW key, key \in [Node -> Nat], Sorted(F \ {p}, pos, key)
  PROVE  TreeHolds(DeleteOneChild(t, p), F \ {p}, key)
<1>1. PICK bd, bh : Framed(t, F, pos, bd, hi) /\ Even(t, F, bh, t.red, {}) /\ Colors(t, {})
  BY DEF Balanced
<1>2. /\ F \subseteq Node /\ Null \notin Node /\ pos \in [Node -> Nat] /\ t.red \subseteq F /\ p \in Node
  BY <1>1 DEF Framed
<1> DEFINE c == IF t.left[p] # Null THEN t.left[p] ELSE t.right[p]
<1>3. PICK a \in Side : c = t[a][p] /\ t[Other(a)][p] = Null
  <2>1. CASE t.left[p] # Null
    <3>1. "left" \in Side /\ c = t["left"][p] /\ t[Other("left")][p] = Null
      BY <2>1, Sides
    <3> QED BY <3>1
  <2>2. CASE t.left[p] = Null
    <3>1. "right" \in Side /\ c = t["right"][p] /\ t[Other("right")][p] = Null
      BY <2>2, Sides
    <3> QED BY <3>1
  <2> QED BY <2>1, <2>2
<1>4. DeleteOneChild(t, p) = IF p \in t.red THEN Cut(t, p)
                             ELSE IF c \in t.red THEN Cut(CopyNode(Blacken(t, c), p, c), p)
                             ELSE Cut(DeleteCase1(t, p), p)
  BY DEF DeleteOneChild
<1> HIDE DEF c
<1>a. a \in Side /\ c = t[a][p] /\ t[Other(a)][p] = Null
  BY <1>3
<1>5. /\ c \in F \cup {Null}
      /\ c \notin t.red => c = Null
      /\ c \in t.red => c # p /\ p \notin t.red /\ IsLeaf(t, c) /\ bd[Other(a)][c] = pos[p]
  BY <1>1, <1>a, LoneKid
<1>6. c \notin t.red => IsLeaf(t, p)
  BY <1>5, <1>a, Sides DEF IsLeaf
<1>7. CASE p \in t.red
  <2>1. c \notin t.red /\ t.red \cup {p} = t.red
    BY <1>5, <1>7
  <2>2. Even(t, F, bh, t.red \cup {p}, {})
    BY <1>1, <2>1
  <2>3. Balanced(Cut(t, p), F \ {p}, pos, hi)
    BY <1>1, <1>6, <2>1, <2>2, CutBalances
  <2> QED BY <1>4, <1>7, <2>3 DEF TreeHolds
<1>8. CASE p \notin t.red /\ c \in t.red
  <2> DEFINE r == Cut(CopyNode(Blacken(t, c), p, c), p)
  <2>1. Balanced(r, F \ {p}, SwPos(pos, p, c), hi)
    BY <1>1, <1>5, <1>8, KidTakesOver
  <2>2. c \in F /\ c # p
    BY <1>2, <1>5, <1>8
  <2>3. Beside(F, pos, p, c)
    <3>1. bd[Other(a)][c] = pos[p] /\ t[Other(a)][c] = Null
      BY <1>5, <1>8, <1>a, Sides DEF IsLeaf
    <3> QED BY <1>1, <1>a, <2>2, <3>1, BesideKid
  <2>4. Sorted(F \ {p}, SwPos(pos, p, c), key)
    BY <1>2, <2>2, <2>3, SwappedSorted
  <2>5. DeleteOneChild(t, p) = r
    BY <1>4, <1>8
  <2> HIDE DEF r
  <2> QED BY <2>1, <2>4, <2>5 DEF TreeHolds
<1>9. CASE p \notin t.red /\ c \notin t.red
  <2> DEFINE r == DeleteCase1(t, p)
             b == [bh EXCEPT ![p] = 0]
  <2>1. IsLeaf(t, p)
    BY <1>6, <1>9
  <2>2. /\ bh \in [Link -> Nat] /\ bh[Null] = 0
        /\ \A y \in F, s \in Side : bh[y] = bh[t[s][y]] + One(t[s][y] \in {}) + One(y \notin t.red)
    BY <1>1 DEF Even, Level
  <2>3. p \in Link /\ p # Null /\ Null \in Link /\ \A y \in F : y \in Link /\ y \in Node
    BY <1>2 DEF Link
  <2>4. /\ b \in [Link -> Nat] /\ b[p] = 0 /\ b[Null] = 0
        /\ \A y \in Link : y # p => b[y] = bh[y]
    BY <2>2, <2>3
  <2> HIDE DEF b
  <2>5. bh[p] = 1
    <3>1. "left" \in Side /\ t["left"][p] = Null
      BY <2>1, Sides DEF IsLeaf
    <3>2. bh[p] = bh[Null] + One(Null \in {}) + One(p \notin t.red)
      BY <2>2, <3>1
    <3> QED BY <1>9, <2>2, <3>2 DEF One
  <2>6. Even(t, F, b, t.red \cup {p}, {p})
    <3>1. ASSUME NEW y \in F, NEW s \in Side PROVE Level(t, b, t.red \cup {p}, {p}, y, s)
      <4>0. /\ bh[y] = bh[t[s][y]] + One(t[s][y] \in {}) + One(y \notin t.red)
            /\ t[s][y] \in Link /\ bh[t[s][y]] \in Nat /\ y \in Link
        BY <1>1, <2>2, <2>3, FramedTypes
      <4>1. CASE y = p
        <5>1. t[s][y] = Null
          BY <2>1, <4>1 DEF IsLeaf
        <5> QED BY <2>3, <2>4, <4>1, <5>1 DEF Level, One
      <4>2. CASE y # p
        <5>1. b[y] = bh[y] /\ (y \in t.red \cup {p} <=> y \in t.red)
          BY <2>4, <4>0, <4>2
        <5>2. CASE t[s][y] = p
          BY <2>4, <2>5, <4>0, <5>1, <5>2 DEF Level, One
        <5>3. CASE t[s][y] # p
          <6>1. b[t[s][y]] = bh[t[s][y]]
            BY <2>4, <4>0, <5>3
          <6> QED BY <4>0, <5>1, <5>3, <6>1 DEF Level, One
        <5> QED BY <5>2, <5>3
      <4> QED BY <4>1, <4>2
    <3> QED BY <2>4, <3>1 DEF Even
  <2>7. Sunken(t, F, p, {p})
    BY <1>1, <1>9, <2>1, <2>6 DEF Sunken
  <2>8. (\E b1 : Framed(r, F, pos, b1, hi)) /\ Sunken(r, F, p, {})
    BY <1>1, <1>9, <2>7, DeleteCase1Settles
  <2> HIDE DEF r
  <2>9. PICK b1 : Framed(r, F, pos, b1, hi)
    BY <2>8
  <2>10. PICK bh1 : Even(r, F, bh1, r.red \cup {p}, {})
    BY <2>8 DEF Sunken
  <2>11. Balanced(Cut(r, p), F \ {p}, pos, hi)
    <3>1. IsLeaf(r, p) /\ Colors(r, {})
      BY <2>8 DEF Sunken
    <3> QED BY <2>9, <2>10, <3>1, CutBalances
  <2> QED BY <1>4, <1>9, <2>11 DEF TreeHolds, r
<1> QED BY <1>7, <1>8, <1>9

(* find_inorder_pred finds p's neighbour, which has no right kid. *)
PredStop(t) == {q \in Node : t.right[q] = Null}
PredOn(t) == [q \in Node |-> t.right[q]]

(* find_inorder_pred finds the node next in order.                         *)
LEMMA PredIsBeside ==
  ASSUME NEW t, NEW F, NEW pos, NEW bd, NEW hi, Framed(t, F, pos, bd, hi),
         NEW p, p \in F, t.left[p] # Null
  PROVE  FindInorderPred(t, p) \in {q \in F : q # p /\ bd["right"][q] = pos[p] /\ t.right[q] = Null}
<1> DEFINE Body(f, q) == IF t.right[q] = Null THEN q ELSE f[t.right[q]]
           f == CHOOSE h : h = [q \in Node |-> Body(h, q)]
           Stop == PredStop(t)
           g == PredOn(t)
           P == {q \in F : bd["right"][q] = pos[p]}
           R == {q \in F : q # p /\ bd["right"][q] = pos[p] /\ t.right[q] = Null}
           mu == [q \in Link |-> Extent(F, bd, hi, q)]
<1>1. ASSUME NEW h, NEW q \in Node PROVE Body(h, q) = Step(h, Stop, Itself, g, q)
  BY DEF Step, PredStop, PredOn, Itself
<1>t. /\ F \subseteq Node /\ p \in Node
      /\ \A q \in Node : t.right[q] \in Link
  BY FramedTypes, Sides DEF Framed
<1>2. Closed(Node, Node, Stop, g)
  BY <1>t DEF Closed, PredStop, PredOn, Link
<1>3. \E h : h = [q \in Node |-> Body(h, q)]
  <2> HIDE DEF Body, Stop, g
  <2>1. \E h : Climbs(h, Node, Stop, Itself, g)
    BY <1>2, ClimbExists
  <2>2. PICK h : h = [q \in Node |-> Step(h, Stop, Itself, g, q)]
    BY <2>1 DEF Climbs
  <2>3. [q \in Node |-> Step(h, Stop, Itself, g, q)] = [q \in Node |-> Body(h, q)]
    BY <1>1
  <2> QED BY <2>2, <2>3
<1>4. f = [q \in Node |-> Body(f, q)]
  <2> HIDE DEF Body
  <2> QED BY <1>3
<1>5. FindInorderPred(t, p) = f[t.left[p]]
  BY DEF FindInorderPred
<1> HIDE DEF f, Body
<1>6. Climbs(f, Node, Stop, Itself, g)
  <2> HIDE DEF Stop, g
  <2>1. [y \in Node |-> Step(f, Stop, Itself, g, y)] = [y \in Node |-> Body(f, y)]
    BY <1>1
  <2> QED BY <1>4, <2>1 DEF Climbs
<1>7. t.left[p] \in P
  <2>1. "left" \in Side /\ t["left"][p] # Null /\ Other("left") = "right"
    BY Sides
  <2>2. t["left"][p] \in F /\ bd[Other("left")][t["left"][p]] = pos[p]
    BY <2>1, KidSide
  <2> QED BY <2>1, <2>2
<1>m. /\ \A q \in F : mu[q] \in Nat
      /\ \A q \in F, s \in Side : mu[t[s][q]] < mu[q]
  <2>1. Falls(t, mu, hi + 1)
    BY ExtentFalls
  <2>2. \A q \in F : q \in Node /\ q \in Link
    BY <1>t DEF Link
  <2> HIDE DEF mu
  <2> QED BY <2>1, <2>2 DEF Falls
<1> HIDE DEF mu
<1>8. ASSUME NEW q \in P
      PROVE  /\ mu[q] \in Nat
             /\ q \in Stop => Itself[q] \in R
             /\ q \notin Stop => g[q] \in P /\ mu[g[q]] < mu[q]
  <2>1. q \in F /\ q \in Node /\ bd["right"][q] = pos[p] /\ "right" \in Side
    BY <1>t, Sides
  <2>2. q # p
    <3>1. Spaced(pos, bd, hi, q) /\ pos[q] \in Nat
      BY <2>1, FramedTypes DEF Framed
    <3> QED BY <2>1, <3>1 DEF Spaced
  <2>3. q \in Stop => Itself[q] \in R
    BY <2>1, <2>2 DEF PredStop, Itself
  <2>4. ASSUME q \notin Stop PROVE g[q] \in P /\ mu[g[q]] < mu[q]
    <3>1. g[q] = t["right"][q] /\ t["right"][q] # Null
      BY <2>1, <2>4 DEF PredStop, PredOn
    <3>2. t["right"][q] \in F /\ bd["right"][t["right"][q]] = bd["right"][q]
      BY <2>1, <3>1, KidSide
    <3>3. mu[t["right"][q]] < mu[q]
      BY <1>m, <2>1
    <3> QED BY <2>1, <3>1, <3>2, <3>3
  <2> QED BY <1>m, <2>1, <2>3, <2>4
<1>9. Leads(P, R, Stop, Itself, g, mu)
  <2> HIDE DEF P, R, Stop, g
  <2> QED BY <1>8 DEF Leads
<1>10. P \subseteq Node
  BY <1>t
<1> HIDE DEF P
<1>11. f[t.left[p]] \in R
  <2> HIDE DEF R
  <2> QED BY <1>6, <1>7, <1>9, <1>10, ClimbEnds
<1> QED BY <1>5, <1>11

PutRed(t, R) == [t EXCEPT !.red = R]

LEMMA PutRedAt ==
  ASSUME NEW t, t \in Tree, NEW R, R \subseteq Node
  PROVE  SameLinks(t, PutRed(t, R)) /\ PutRed(t, R).red = R
BY DEF SameLinks, PutRed, Tree, Side

(* delete keeps a red-black search tree, of the nodes it had without p.    *)
LEMMA DeleteHolds ==
  ASSUME NEW t, NEW F, NEW key, key \in [Node -> Nat], TreeHolds(t, F, key), NEW p, p \in F
  PROVE  TreeHolds(Delete(t, p), F \ {p}, key)
<1>1. PICK pos, hi : Balanced(t, F, pos, hi) /\ Sorted(F, pos, key)
  BY DEF TreeHolds
<1>2. PICK bd, bh : Framed(t, F, pos, bd, hi) /\ Even(t, F, bh, t.red, {}) /\ Colors(t, {})
  BY <1>1 DEF Balanced
<1>3. Sorted(F \ {p}, pos, key)
  BY <1>1 DEF Sorted
<1>4. CASE t.left[p] = Null \/ t.right[p] = Null
  <2>1. Delete(t, p) = DeleteOneChild(t, p)
    BY <1>4 DEF Delete
  <2>2. TreeHolds(DeleteOneChild(t, p), F \ {p}, key)
    BY <1>1, <1>3, <1>4, DeleteOneChildHolds
  <2> QED BY <2>1, <2>2
<1>5. CASE t.left[p] # Null /\ t.right[p] # Null
  <2> DEFINE q == FindInorderPred(t, p)
             R == {x \in Node : Sw(p, q, x) \in t.red}
             R1 == {x \in Node : IF x = p THEN q \in t.red
                                 ELSE IF x = q THEN p \in t.red ELSE x \in t.red}
             v == CopyNode(t, p, q)
             w == PutRed(v, R)
  <2>1. q \in F /\ q # p /\ bd["right"][q] = pos[p] /\ t.right[q] = Null
    BY <1>2, <1>5, PredIsBeside
  <2>2. /\ t \in Tree /\ Null \notin Node /\ F \subseteq Node /\ t.red \subseteq F
        /\ pos \in [Node -> Nat] /\ p \in Node /\ q \in Node
    BY <1>2, <2>1 DEF Framed
  <2> HIDE DEF q
  <2>3. Swapped(t, p, q, v) /\ v.red = t.red
    BY <2>2, CopyAt
  <2>4. R1 = R
    BY DEF Sw
  <2>5. Delete(t, p) = DeleteOneChild([CopyNode(t, p, q) EXCEPT !.red = R1], p)
    <3>1. Delete(t, p) =
            DeleteOneChild([CopyNode(t, p, q) EXCEPT
               !.red = {x \in Node : IF x = p THEN q \in @ ELSE IF x = q THEN p \in @ ELSE x \in @}], p)
      BY <1>5 DEF Delete, q
    <3>2. [CopyNode(t, p, q) EXCEPT
             !.red = {x \in Node : IF x = p THEN q \in @ ELSE IF x = q THEN p \in @ ELSE x \in @}]
          = [CopyNode(t, p, q) EXCEPT !.red = R1]
      BY <2>3
    <3> QED BY <3>1, <3>2
  <2>6. Delete(t, p) = DeleteOneChild(w, p)
    <3> HIDE DEF R, R1
    <3> QED BY <2>4, <2>5 DEF PutRed
  <2> HIDE DEF v
  <2>7. R \subseteq F /\ R \subseteq Node
    BY <2>1, <2>2 DEF Sw
  <2>8. SameLinks(v, w) /\ w.red = R
    <3> HIDE DEF R
    <3> QED BY <2>3, <2>7, PutRedAt DEF Swapped
  <2>r. \A x \in Node : x \in R <=> Sw(p, q, x) \in t.red
    OBVIOUS
  <2> HIDE DEF R, w
  <2>9. Swapped(t, p, q, w)
    BY <2>3, <2>8 DEF Swapped, SameLinks
  <2>10. Framed(w, F, SwPos(pos, p, q), SwBd(bd, p, q), hi)
    <3>1. w.red \subseteq F
      BY <2>7, <2>8
    <3> QED BY <1>2, <2>1, <2>9, <3>1, SwappedFramed
  <2>11. Even(w, F, SwBh(bh, p, q), w.red, {})
    <3>1. \A x \in F : x \in w.red <=> Sw(p, q, x) \in t.red
      BY <2>2, <2>8, <2>r
    <3> QED BY <1>2, <2>1, <2>9, <3>1, SwappedEven
  <2>12. Colors(w, {})
    <3>0. /\ \A x : Sw(p, q, Sw(p, q, x)) = x
          /\ \A x \in Link : Sw(p, q, x) \in Link /\ (Sw(p, q, x) = Null => x = Null)
          /\ \A x \in Node : Sw(p, q, x) \in Node
      BY <2>2 DEF Sw, Link
    <3>1. w.root \notin w.red
      <4>1. w.root = Sw(p, q, t.root) /\ t.root \notin t.red
        BY <1>2, <2>9 DEF Swapped, Colors
      <4> QED BY <2>2, <2>7, <2>8, <2>r, <3>0, <4>1
    <3>2. ASSUME NEW y \in w.red PROVE w.parent[y] \notin w.red
      <4>1. y \in Node /\ Sw(p, q, y) \in t.red
        BY <2>7, <2>8, <2>r
      <4>2. w.parent[y] = Sw(p, q, t.parent[Sw(p, q, y)])
        BY <2>9, <4>1 DEF Swapped
      <4>3. t.parent[Sw(p, q, y)] \notin t.red
        BY <1>2, <4>1 DEF Colors
      <4> QED BY <2>7, <2>8, <2>r, <3>0, <4>2, <4>3
    <3> QED BY <3>1, <3>2 DEF Colors
  <2>13. Balanced(w, F, SwPos(pos, p, q), hi)
    BY <2>10, <2>11, <2>12 DEF Balanced
  <2>14. w.right[p] = Null
    <3>1. w["right"][p] = Sw(p, q, t["right"][Sw(p, q, p)])
      BY <2>2, <2>9, Sides DEF Swapped
    <3> QED BY <2>1, <2>2, <3>1 DEF Sw
  <2>15. Sorted(F \ {p}, SwPos(pos, p, q), key)
    <3>1. "left" \in Side /\ bd[Other("left")][q] = pos[p] /\ t[Other("left")][q] = Null
      BY <2>1, Sides
    <3>2. Beside(F, pos, p, q)
      BY <1>2, <2>1, <3>1, BesideKid
    <3> QED BY <1>3, <2>1, <2>2, <3>2, SwappedSorted
  <2>16. TreeHolds(DeleteOneChild(w, p), F \ {p}, key)
    BY <2>13, <2>14, <2>15, DeleteOneChildHolds
  <2> QED BY <2>6, <2>16
<1> QED BY <1>4, <1>5

-----------------------------------------------------------------------------
(* find_block.                                                             *)

(* What lies below the kids of q, and how large it is. *)
LEMMA BelowSorted ==
  ASSUME NEW t, NEW F, NEW pos, NEW bd, NEW hi, Framed(t, F, pos, bd, hi),
         NEW f, IsBelow(f, t), NEW key, Sorted(F, pos, key)
  PROVE  \A q \in F : /\ f[q] = {q} \cup f[t.left[q]] \cup f[t.right[q]]
                      /\ f[t.left[q]] \subseteq F /\ f[t.right[q]] \subseteq F
                      /\ \A r \in f[t.left[q]] : key[r] <= key[q]
                      /\ \A r \in f[t.right[q]] : key[q] <= key[r]
<1> SUFFICES ASSUME NEW q \in F
             PROVE  /\ f[q] = {q} \cup f[t.left[q]] \cup f[t.right[q]]
                    /\ f[t.left[q]] \subseteq F /\ f[t.right[q]] \subseteq F
                    /\ \A r \in f[t.left[q]] : key[r] <= key[q]
                    /\ \A r \in f[t.right[q]] : key[q] <= key[r]
  OBVIOUS
<1>1. q \in Link /\ q # Null
  BY FramedTypes DEF Link
<1>2. f[q] = {q} \cup f[t.left[q]] \cup f[t.right[q]]
  BY <1>1 DEF IsBelow
<1>3. ASSUME NEW s \in Side, NEW r \in f[t[s][q]]
      PROVE  /\ r \in F
             /\ s = "left" => key[r] <= key[q]
             /\ s = "right" => key[q] <= key[r]
  <2> DEFINE c == t[s][q]
  <2>1. c # Null
    BY <1>3, BelowEq
  <2>2. c \in F /\ bd[Other(s)][c] = pos[q]
    BY <2>1, KidSide
  <2>3. r \in f[c]
    OBVIOUS
  <2> HIDE DEF c
  <2>4. r \in F /\ Inside(pos, bd, r, c)
    BY <2>2, <2>3, BelowWithin
  <2>5. s = "left" => pos[r] < pos[q]
    BY <2>2, <2>4, Sides DEF Inside
  <2>6. s = "right" => pos[q] < pos[r]
    BY <2>2, <2>4, Sides DEF Inside
  <2> QED BY <2>4, <2>5, <2>6 DEF Sorted
<1>4. /\ \A r \in f[t.left[q]] : r \in F /\ key[r] <= key[q]
      /\ \A r \in f[t.right[q]] : r \in F /\ key[q] <= key[r]
  BY <1>3, Sides
<1> QED BY <1>2, <1>4

(* find_block's choice between q and the choices below its kids. *)
Pick3(key, size, q, l, r) ==
  IF key[q] < size THEN r
  ELSE IF key[q] <= size + Slack THEN q
  ELSE IF l = Null THEN q ELSE l
PickSet(key, size) == [x \in Node \X Link \X Link |-> Pick3(key, size, x[1], x[2], x[3])]

(* p is a best fit in D: Null if nothing is large enough, and else a block *)
(* that need not be split or the smallest that is large enough.            *)
BestIn(key, size, D, p) ==
  IF \A q \in D : key[q] < size THEN p = Null
  ELSE /\ p \in D /\ key[p] >= size
       /\ key[p] <= size + Slack \/ \A q \in D : key[q] >= size => key[p] <= key[q]

(* A choice between best fits is a best fit.                               *)
LEMMA PickFits ==
  ASSUME NEW key, NEW size, size \in Nat, NEW q, NEW L, NEW R,
         key[q] \in Nat, \A y \in L \cup R : key[y] \in Nat,
         q # Null, Null \notin L, Null \notin R,
         \A y \in L : key[y] <= key[q], \A y \in R : key[q] <= key[y],
         NEW l, BestIn(key, size, L, l), NEW r, BestIn(key, size, R, r)
  PROVE  BestIn(key, size, {q} \cup L \cup R, Pick3(key, size, q, l, r))
<1>1. Slack \in Nat
  BY DEF Slack
<1>2. CASE key[q] < size
  <2>1. Pick3(key, size, q, l, r) = r
    BY <1>2 DEF Pick3
  <2>2. \A y \in L : key[y] < size
    BY <1>2
  <2>3. CASE \A y \in R : key[y] < size
    <3>1. r = Null
      BY <2>3 DEF BestIn
    <3>2. \A y \in {q} \cup L \cup R : key[y] < size
      BY <1>2, <2>2, <2>3
    <3> QED BY <2>1, <3>1, <3>2 DEF BestIn
  <2>4. CASE ~ \A y \in R : key[y] < size
    <3>1. /\ r \in R /\ key[r] >= size
          /\ key[r] <= size + Slack \/ \A y \in R : key[y] >= size => key[r] <= key[y]
      BY <2>4 DEF BestIn
    <3>2. ~ \A y \in {q} \cup L \cup R : key[y] < size
      BY <2>4
    <3>3. \A y \in {q} \cup L : ~ (key[y] >= size)
      BY <1>2, <2>2
    <3> QED BY <2>1, <3>1, <3>2, <3>3 DEF BestIn
  <2> QED BY <2>3, <2>4
<1>3. CASE ~ (key[q] < size)
  <2>0. ~ \A y \in {q} \cup L \cup R : key[y] < size
    BY <1>3
  <2>1. key[q] >= size
    BY <1>3
  <2>2. CASE key[q] <= size + Slack
    <3>1. Pick3(key, size, q, l, r) = q
      BY <1>3, <2>2 DEF Pick3
    <3> QED BY <2>0, <2>1, <2>2, <3>1 DEF BestIn
  <2>3. CASE ~ (key[q] <= size + Slack) /\ \A y \in L : key[y] < size
    <3>1. l = Null
      BY <2>3 DEF BestIn
    <3>2. Pick3(key, size, q, l, r) = q
      BY <1>3, <2>3, <3>1 DEF Pick3
    <3>3. \A y \in {q} \cup L \cup R : key[y] >= size => key[q] <= key[y]
      BY <2>3
    <3> QED BY <2>0, <2>1, <3>2, <3>3 DEF BestIn
  <2>4. CASE ~ (key[q] <= size + Slack) /\ ~ \A y \in L : key[y] < size
    <3>1. /\ l \in L /\ key[l] >= size
          /\ key[l] <= size + Slack \/ \A y \in L : key[y] >= size => key[l] <= key[y]
      BY <2>4 DEF BestIn
    <3>2. l # Null
      BY <3>1
    <3>3. Pick3(key, size, q, l, r) = l
      BY <1>3, <2>4, <3>2 DEF Pick3
    <3>4. \A y \in {q} \cup R : key[l] <= key[y]
      <4>1. key[l] <= key[q] /\ key[l] \in Nat
        BY <3>1
      <4> QED BY <4>1
    <3> QED BY <2>0, <3>1, <3>3, <3>4 DEF BestIn
  <2> QED BY <2>2, <2>3, <2>4
<1> QED BY <1>2, <1>3

(* By the least subtree for which it would not be so.                      *)
LEMMA FoldFits ==
  ASSUME NEW t, NEW F, NEW pos, NEW bd, NEW hi, Framed(t, F, pos, bd, hi),
         NEW f, IsBelow(f, t), NEW key, key \in [Node -> Nat], Sorted(F, pos, key),
         NEW size, size \in Nat,
         NEW h, \A q \in Link : h[q] = IF q = Null THEN Null
                                       ELSE Pick3(key, size, q, h[t.left[q]], h[t.right[q]])
  PROVE  BestIn(key, size, F, h[t.root])
<1> DEFINE mu == [q \in Link |-> Extent(F, bd, hi, q)]
           Good(q) == BestIn(key, size, f[q], h[q])
           Bad == {n \in Nat : \E x \in F \cup {Null} : n = mu[x] /\ ~ Good(x)}
<1>1. /\ \A q \in Node, s \in Side : mu[t[s][q]] < mu[q]
      /\ \A q \in F \cup {Null} : q \in Link /\ mu[q] \in Nat
  <2>1. \A q \in F \cup {Null} : q \in Link
    BY DEF Framed, Link
  <2>2. Falls(t, mu, hi + 1)
    BY ExtentFalls
  <2> HIDE DEF mu
  <2> QED BY <2>1, <2>2 DEF Falls
<1>2. Null \notin F /\ F \subseteq Node /\ t.root \in F \cup {Null}
  BY FramedTypes DEF Framed
<1>3. h[Null] = Null /\ f[Null] = {} /\ Good(Null)
  <2>1. h[Null] = Null
    BY DEF Link
  <2>2. f[Null] = {}
    BY BelowEq
  <2> QED BY <2>1, <2>2 DEF BestIn
<1> HIDE DEF mu
<1>4. Bad = {}
  <2> SUFFICES ASSUME Bad # {} PROVE FALSE
    OBVIOUS
  <2>1. PICK n \in Bad : \A k \in Bad : n <= k
    <3>1. Bad \in SUBSET Nat
      OBVIOUS
    <3> HIDE DEF Bad
    <3> QED BY <3>1, LeastNumber
  <2>2. PICK q \in F \cup {Null} : n = mu[q] /\ ~ Good(q)
    BY <2>1
  <2>3. q \in F /\ q \in Node /\ q # Null /\ q \in Link
    BY <1>1, <1>2, <1>3, <2>2
  <2>4. ASSUME NEW c \in F \cup {Null}, mu[c] < mu[q] PROVE Good(c)
    <3>1. ~ Good(c) => mu[c] \in Bad
      BY <1>1, <2>4
    <3>2. mu[c] \in Nat /\ ~ (n <= mu[c])
      BY <1>1, <2>2, <2>4
    <3> HIDE DEF Bad, Good
    <3> QED BY <2>1, <3>1, <3>2
  <2> HIDE DEF Bad
  <2>5. Good(t.left[q]) /\ Good(t.right[q])
    <3>1. ASSUME NEW s \in Side PROVE t[s][q] \in F \cup {Null} /\ mu[t[s][q]] < mu[q]
      BY <1>1, <2>3 DEF Framed, KidFits
    <3>2. \A s \in Side : Good(t[s][q])
      <4> HIDE DEF Good
      <4> QED BY <2>4, <3>1
    <3> HIDE DEF Good
    <3> QED BY <3>2, Sides
  <2> DEFINE L == f[t.left[q]]
             R == f[t.right[q]]
             l == h[t.left[q]]
             r == h[t.right[q]]
  <2>6. /\ f[q] = {q} \cup L \cup R /\ L \subseteq F /\ R \subseteq F
        /\ \A y \in L : key[y] <= key[q]
        /\ \A y \in R : key[q] <= key[y]
    BY <2>3, BelowSorted
  <2>7. BestIn(key, size, L, l) /\ BestIn(key, size, R, r)
    BY <2>5
  <2>8. h[q] = Pick3(key, size, q, l, r)
    BY <2>3
  <2> HIDE DEF L, R, l, r
  <2>9. /\ key[q] \in Nat /\ \A y \in L \cup R : key[y] \in Nat
        /\ Null \notin L /\ Null \notin R
    BY <1>2, <2>3, <2>6
  <2>10. BestIn(key, size, {q} \cup L \cup R, Pick3(key, size, q, l, r))
    BY <2>3, <2>6, <2>7, <2>9, PickFits
  <2> QED BY <2>2, <2>6, <2>8, <2>10
<1>5. Good(t.root)
  <2>1. mu[t.root] \in Nat
    BY <1>1, <1>2
  <2>2. ~ Good(t.root) => mu[t.root] \in Bad
    BY <1>2, <2>1
  <2> HIDE DEF Bad, Good
  <2> QED BY <1>4, <2>2
<1>6. f[t.root] = F
  BY BelowRoot
<1> QED BY <1>5, <1>6

(* find_block's result is a best fit. *)
LEMMA FindBlockFits ==
  ASSUME NEW t, NEW F, NEW key, key \in [Node -> Nat], TreeHolds(t, F, key),
         NEW size, size \in Nat
  PROVE  BestIn(key, size, F, FindBlock(t, key, size))
<1>1. PICK pos, hi : Balanced(t, F, pos, hi) /\ Sorted(F, pos, key)
  BY DEF TreeHolds
<1>2. PICK bd : Framed(t, F, pos, bd, hi)
  BY <1>1 DEF Balanced
<1>3. PICK f : IsBelow(f, t)
  BY <1>2, BelowExists
<1>4. /\ Null \notin Node /\ \A q \in Node : t.left[q] \in Link /\ t.right[q] \in Link
  <2>1. \A s \in Side, q \in Node : t[s][q] \in Link
    BY <1>2, FramedTypes
  <2> QED BY <1>2, <2>1, Sides DEF Framed
<1> DEFINE Body(h, q) == IF q = Null THEN Null
                         ELSE IF key[q] < size THEN h[t.right[q]]
                         ELSE IF key[q] <= size + Slack THEN q
                         ELSE LET smaller == h[t.left[q]]
                              IN IF smaller = Null THEN q ELSE smaller
           Best == CHOOSE h : h = [q \in Link |-> Body(h, q)]
<1>5. ASSUME NEW h, NEW q
      PROVE  Body(h, q) = IF q = Null THEN Null
                          ELSE Pick3(key, size, q, h[t.left[q]], h[t.right[q]])
  BY DEF Pick3
<1>6. \E h : h = [q \in Link |-> Body(h, q)]
  <2> DEFINE B == PickSet(key, size)
  <2>1. B \in [(Node \X Link \X Link) -> Link]
    BY DEF PickSet, Pick3, Link
  <2>2. Null \in Link
    BY DEF Link
  <2>b. \A q \in Node, l \in Link, r \in Link : B[<<q, l, r>>] = Pick3(key, size, q, l, r)
    BY DEF PickSet
  <2> HIDE DEF B
  <2>3. PICK h : h \in [Link -> Link] /\ Folds2(h, t, Null, B)
    BY <1>2, <1>4, <2>1, <2>2, ExtentFalls, FoldExists
  <2>4. ASSUME NEW q \in Link PROVE h[q] = Body(h, q)
    <3>1. CASE q = Null
      BY <2>3, <3>1 DEF Folds2
    <3>2. CASE q # Null
      <4>1. q \in Node
        BY <3>2 DEF Link
      <4>2. h[t.left[q]] \in Link /\ h[t.right[q]] \in Link
        BY <1>4, <2>3, <4>1
      <4>3. h[q] = B[<<q, h[t.left[q]], h[t.right[q]]>>]
        BY <2>3, <3>2 DEF Folds2
      <4>4. h[q] = Pick3(key, size, q, h[t.left[q]], h[t.right[q]])
        BY <2>b, <4>1, <4>2, <4>3
      <4> HIDE DEF Body
      <4> QED BY <1>5, <3>2, <4>4
    <3> QED BY <3>1, <3>2
  <2> HIDE DEF Body
  <2>5. h = [q \in Link |-> h[q]]
    BY <2>3
  <2>6. h = [q \in Link |-> Body(h, q)]
    BY <2>4, <2>5
  <2> QED BY <2>6
<1>7. Best = [q \in Link |-> Body(Best, q)]
  <2> HIDE DEF Body
  <2> QED BY <1>6
<1>8. FindBlock(t, key, size) = Best[t.root]
  BY DEF FindBlock
<1> HIDE DEF Best
<1>9. \A q \in Link : Best[q] = IF q = Null THEN Null
                      ELSE Pick3(key, size, q, Best[t.left[q]], Best[t.right[q]])
  <2>1. \A q \in Link : Best[q] = Body(Best, q)
    <3> HIDE DEF Body
    <3> QED BY <1>7
  <2> HIDE DEF Body
  <2> QED BY <1>5, <2>1
<1>10. BestIn(key, size, F, Best[t.root])
  <2> HIDE DEF Body
  <2> QED BY <1>1, <1>2, <1>3, <1>9, FoldFits
<1> QED BY <1>8, <1>10

-----------------------------------------------------------------------------
(* The state machine.                                                      *)

Sized == Null \notin Node /\ Size \in [Node -> Nat] /\ Wanted \subseteq Nat

(* The state: a red-black search tree of the free blocks. *)
BlocksInv == TreeHolds(rbtree, free, Size)

(* The empty tree is one.                                                  *)
LEMMA EmptyHolds ==
  ASSUME Null \notin Node, NEW key PROVE TreeHolds(EmptyTree, {}, key)
<1> DEFINE pos == [y \in Node |-> 0]
           bd == [a \in Side |-> [y \in Node |-> 0]]
           bh == [y \in Link |-> 0]
<1>1. /\ EmptyTree \in Tree /\ EmptyTree.root = Null /\ EmptyTree.red = {}
      /\ \A y \in Node, s \in Side : EmptyTree[s][y] = Null
      /\ \A y \in Node : EmptyTree.parent[y] = Null
  BY DEF EmptyTree, Tree, Unlinked, Link, Side
<1>2. pos \in [Node -> Nat] /\ bd \in [Side -> [Node -> Nat]] /\ bh \in [Link -> Nat] /\ bh[Null] = 0
  BY DEF Link
<1> HIDE DEF pos, bd, bh
<1>3. Framed(EmptyTree, {}, pos, bd, 0)
  BY <1>1, <1>2, Sides DEF Framed, Unlinked1
<1>4. Even(EmptyTree, {}, bh, EmptyTree.red, {}) /\ Colors(EmptyTree, {})
  BY <1>1, <1>2 DEF Even, Colors
<1>5. Balanced(EmptyTree, {}, pos, 0)
  BY <1>3, <1>4 DEF Balanced
<1> QED BY <1>5 DEF TreeHolds, Sorted

(* Every step keeps the invariant.                                         *)
LEMMA TakeHolds ==
  ASSUME Sized, BlocksInv, NEW size, size \in Wanted, Take(size) PROVE BlocksInv'
<1> DEFINE p == FindBlock(rbtree, Size, size)
<1>1. p # Null /\ rbtree' = Delete(rbtree, p) /\ free' = free \ {p}
  BY DEF Take
<1>2. BestIn(Size, size, free, p)
  BY FindBlockFits DEF BlocksInv, Sized
<1> HIDE DEF p
<1>3. p \in free
  BY <1>1, <1>2 DEF BestIn
<1>4. TreeHolds(Delete(rbtree, p), free \ {p}, Size)
  BY <1>3, DeleteHolds DEF BlocksInv, Sized
<1> QED BY <1>1, <1>4 DEF BlocksInv

LEMMA PutBackHolds ==
  ASSUME Sized, BlocksInv, NEW p, p \in Node, PutBack(p) PROVE BlocksInv'
<1>1. p \notin free /\ rbtree' = Insert(rbtree, Size, p) /\ free' = free \cup {p}
  BY DEF PutBack
<1>2. TreeHolds(Insert(rbtree, Size, p), free \cup {p}, Size)
  BY <1>1, InsertHolds DEF BlocksInv, Sized
<1> QED BY <1>1, <1>2 DEF BlocksInv

LEMMA JoinHolds ==
  ASSUME Sized, BlocksInv, NEW p, Join(p) PROVE BlocksInv'
<1>1. p \in free /\ rbtree' = Delete(rbtree, p) /\ free' = free \ {p}
  BY DEF Join
<1>2. TreeHolds(Delete(rbtree, p), free \ {p}, Size)
  BY <1>1, DeleteHolds DEF BlocksInv, Sized
<1> QED BY <1>1, <1>2 DEF BlocksInv

LEMMA AlwaysHolds == ASSUME Sized PROVE BlocksSpec => []BlocksInv
<1>1. BlocksInit => BlocksInv
  <2>1. ASSUME BlocksInit PROVE TreeHolds(rbtree, free, Size)
    <3>1. rbtree = EmptyTree /\ free = {}
      BY <2>1 DEF BlocksInit
    <3>2. TreeHolds(EmptyTree, {}, Size)
      BY EmptyHolds DEF Sized
    <3> QED BY <3>1, <3>2
  <2> QED BY <2>1 DEF BlocksInv
<1>2. BlocksInv /\ [BlocksNext]_blocks_vars => BlocksInv'
  <2>1. ASSUME BlocksInv, UNCHANGED blocks_vars PROVE BlocksInv'
    BY <2>1 DEF BlocksInv, blocks_vars
  <2> QED BY <2>1, TakeHolds, PutBackHolds, JoinHolds DEF BlocksNext
<1> QED BY <1>1, <1>2, PTL DEF BlocksSpec

(* The state is well formed, and insert and delete leave no link or colour *)
(* on a block that is not in the tree, whatever was taken, put back and    *)
(* joined.                                                                 *)
THEOREM BlocksTypes == ASSUME Sized PROVE BlocksSpec => []BlocksTypeOK
<1>1. ASSUME BlocksInv PROVE BlocksTypeOK
  <2>1. PICK pos, bd, hi : Framed(rbtree, free, pos, bd, hi)
    BY <1>1 DEF BlocksInv, TreeHolds, Balanced
  <2>2. ASSUME NEW p \in Node \ free
        PROVE  rbtree["left"][p] = Null /\ rbtree["right"][p] = Null /\ rbtree.parent[p] = Null
    BY <2>1, <2>2, Sides DEF Framed, Unlinked1
  <2> QED BY <2>1, <2>2 DEF BlocksTypeOK, Framed
<1>2. BlocksInv => BlocksTypeOK
  BY <1>1
<1> QED BY <1>2, AlwaysHolds, PTL

(* Below is well defined. *)
LEMMA BelowIsBelow ==
  ASSUME NEW t, NEW F, NEW pos, NEW bd, NEW hi, Framed(t, F, pos, bd, hi)
  PROVE  IsBelow(Below(t), t)
<1> DEFINE Body(f, q) == IF q = Null THEN {} ELSE {q} \cup f[t.left[q]] \cup f[t.right[q]]
<1>1. PICK f : f \in [Link -> SUBSET Node] /\ IsBelow(f, t)
  BY BelowExists
<1>2. f = [q \in Link |-> Body(f, q)]
  <2>1. \A q \in Link : f[q] = Body(f, q)
    BY <1>1 DEF IsBelow
  <2> HIDE DEF Body
  <2>2. f = [q \in Link |-> f[q]]
    BY <1>1
  <2> QED BY <2>1, <2>2
<1> DEFINE B == Below(t)
<1>3. B = CHOOSE g : g = [q \in Link |-> Body(g, q)]
  BY DEF Below
<1> HIDE DEF B
<1>4. B = [q \in Link |-> Body(B, q)]
  <2> HIDE DEF Body
  <2> QED BY <1>2, <1>3
<1>5. \A q \in Link : B[q] = Body(B, q)
  <2> HIDE DEF Body
  <2> QED BY <1>4
<1> QED BY <1>5 DEF IsBelow, B

(* No block is lost or kept by the rotations and exchanges: the tree holds *)
(* exactly the free blocks, each linked to its parent in both directions.  *)
THEOREM BlocksKept == ASSUME Sized PROVE BlocksSpec => []HoldsFree
<1>1. ASSUME BlocksInv PROVE HoldsFree
  <2>1. PICK pos, bd, hi : Framed(rbtree, free, pos, bd, hi)
    BY <1>1 DEF BlocksInv, TreeHolds, Balanced
  <2>2. Below(rbtree)[rbtree.root] = free
    BY <2>1, BelowIsBelow, BelowRoot
  <2>3. rbtree.root # Null => rbtree.parent[rbtree.root] = Null
    BY <2>1 DEF Framed
  <2>4. ASSUME NEW p \in free, NEW s \in Side, rbtree[s][p] # Null
        PROVE  rbtree.parent[rbtree[s][p]] = p /\ SideOf(rbtree, rbtree[s][p]) = s
    BY <2>1, <2>4, KidSide, SideOfKid
  <2> QED BY <2>2, <2>3, <2>4 DEF HoldsFree
<1>2. BlocksInv => HoldsFree
  BY <1>1
<1> QED BY <1>2, AlwaysHolds, PTL

(* The tree is a search tree: insertion, which goes right at equal sizes,  *)
(* and the exchange with the predecessor keep the order.                   *)
THEOREM BlocksOrdered == ASSUME Sized PROVE BlocksSpec => []Ordered
<1>1. ASSUME Sized, BlocksInv PROVE Ordered
  <2>1. PICK pos, hi : Balanced(rbtree, free, pos, hi) /\ Sorted(free, pos, Size)
    BY <1>1 DEF BlocksInv, TreeHolds
  <2>2. PICK bd : Framed(rbtree, free, pos, bd, hi)
    BY <2>1 DEF Balanced
  <2>3. \A p \in free : /\ Below(rbtree)[rbtree.left[p]] \subseteq free /\ Below(rbtree)[rbtree.right[p]] \subseteq free
                        /\ \A q \in Below(rbtree)[rbtree.left[p]] : Size[q] <= Size[p]
                        /\ \A q \in Below(rbtree)[rbtree.right[p]] : Size[p] <= Size[q]
    BY <2>1, <2>2, BelowIsBelow, BelowSorted
  <2>4. \A q \in free : Size[q] \in Nat
    BY <1>1, <2>2 DEF Sized, Framed
  <2>5. \A p \in free : \A q \in Below(rbtree)[rbtree.right[p]] : Size[q] >= Size[p]
    BY <2>3, <2>4
  <2> QED BY <2>3, <2>5 DEF Ordered
<1>2. Sized /\ BlocksInv => Ordered
  BY <1>1
<1> QED BY <1>2, AlwaysHolds, PTL

(* The black depths of all paths down from q are its black height. *)
LEMMA DepthsAreHeights ==
  ASSUME NEW pos, NEW bd, NEW hi, Framed(rbtree, free, pos, bd, hi),
         NEW bh, Even(rbtree, free, bh, rbtree.red, {})
  PROVE  BlackDepths[rbtree.root] = {bh[rbtree.root]}
<1> DEFINE Own(q) == IF q \in rbtree.red THEN 0 ELSE 1
           More(q, l, r) == {Own(q) + d : d \in l \cup r}
           Body(f, q) == IF q = Null THEN {0} ELSE More(q, f[rbtree.left[q]], f[rbtree.right[q]])
           V == SUBSET Nat
           B == [x \in Node \X V \X V |-> More(x[1], x[2], x[3])]
<1>0. /\ Null \notin Node /\ Null \notin free /\ free \subseteq Node /\ rbtree.root \in free \cup {Null}
      /\ \A q \in Node : rbtree.left[q] \in Link /\ rbtree.right[q] \in Link
  <2>1. \A s \in Side, q \in Node : rbtree[s][q] \in Link
    BY FramedTypes
  <2> QED BY <2>1, FramedTypes, Sides DEF Framed
<1>1. \E f : f = [q \in Link |-> Body(f, q)]
  <2>1. B \in [(Node \X V \X V) -> V] /\ {0} \in V
    OBVIOUS
  <2>b. \A q \in Node, l \in V, r \in V : B[<<q, l, r>>] = More(q, l, r)
    <3> HIDE DEF More, V
    <3> QED OBVIOUS
  <2> HIDE DEF B, V, More
  <2>2. PICK f : f \in [Link -> V] /\ Folds2(f, rbtree, {0}, B)
    BY <1>0, <2>1, ExtentFalls, FoldExists
  <2>3. ASSUME NEW q \in Link PROVE f[q] = Body(f, q)
    <3>1. CASE q = Null
      BY <2>2, <3>1 DEF Folds2
    <3>2. CASE q # Null
      <4>1. q \in Node
        BY <3>2 DEF Link
      <4>2. f[rbtree.left[q]] \in V /\ f[rbtree.right[q]] \in V
        BY <1>0, <2>2, <4>1
      <4>3. f[q] = B[<<q, f[rbtree.left[q]], f[rbtree.right[q]]>>]
        BY <2>2, <3>2 DEF Folds2
      <4>4. f[q] = More(q, f[rbtree.left[q]], f[rbtree.right[q]])
        BY <2>b, <4>1, <4>2, <4>3
      <4> QED BY <3>2, <4>4
    <3> QED BY <3>1, <3>2
  <2> HIDE DEF Body
  <2>4. f = [q \in Link |-> f[q]]
    BY <2>2
  <2> QED BY <2>3, <2>4
<1>2. BlackDepths = CHOOSE f : f = [q \in Link |-> Body(f, q)]
  BY DEF BlackDepths
<1>3. \A q \in Link : BlackDepths[q] = Body(BlackDepths, q)
  <2> HIDE DEF Body
  <2>1. BlackDepths = [q \in Link |-> Body(BlackDepths, q)]
    BY <1>1, <1>2
  <2> QED BY <2>1
<1> DEFINE mu == [q \in Link |-> Extent(free, bd, hi, q)]
           Good(q) == BlackDepths[q] = {bh[q]}
           Bad == {n \in Nat : \E x \in free \cup {Null} : n = mu[x] /\ ~ Good(x)}
<1>4. /\ \A q \in Node, s \in Side : mu[rbtree[s][q]] < mu[q]
      /\ \A q \in free \cup {Null} : q \in Link /\ mu[q] \in Nat
  <2>1. \A q \in free \cup {Null} : q \in Link
    BY <1>0 DEF Link
  <2>2. Falls(rbtree, mu, hi + 1)
    BY ExtentFalls
  <2> HIDE DEF mu
  <2> QED BY <2>1, <2>2 DEF Falls
<1>5. /\ bh \in [Link -> Nat] /\ bh[Null] = 0
      /\ \A q \in free, s \in Side : bh[q] = bh[rbtree[s][q]] + Own(q)
  <2>1. /\ bh \in [Link -> Nat] /\ bh[Null] = 0
        /\ \A q \in free, s \in Side : Level(rbtree, bh, rbtree.red, {}, q, s)
    BY DEF Even
  <2>2. ASSUME NEW q \in free, NEW s \in Side PROVE bh[q] = bh[rbtree[s][q]] + Own(q)
    <3>1. bh[rbtree[s][q]] \in Nat
      BY <1>0, <2>1, FramedTypes
    <3>2. bh[q] = bh[rbtree[s][q]] + One(rbtree[s][q] \in {}) + One(q \notin rbtree.red)
      BY <2>1 DEF Level
    <3> QED BY <3>1, <3>2 DEF One
  <2> QED BY <2>1, <2>2
<1>6. Good(Null)
  BY <1>3, <1>5 DEF Link
<1> HIDE DEF mu
<1>7. Bad = {}
  <2> SUFFICES ASSUME Bad # {} PROVE FALSE
    OBVIOUS
  <2>1. PICK n \in Bad : \A k \in Bad : n <= k
    <3>1. Bad \in SUBSET Nat
      OBVIOUS
    <3> HIDE DEF Bad
    <3> QED BY <3>1, LeastNumber
  <2>2. PICK q \in free \cup {Null} : n = mu[q] /\ ~ Good(q)
    BY <2>1
  <2>3. q \in free /\ q \in Node /\ q # Null /\ q \in Link
    BY <1>0, <1>4, <1>6, <2>2
  <2>4. ASSUME NEW c \in free \cup {Null}, mu[c] < mu[q] PROVE Good(c)
    <3>1. ~ Good(c) => mu[c] \in Bad
      BY <1>4, <2>4
    <3>2. mu[c] \in Nat /\ ~ (n <= mu[c])
      BY <1>4, <2>2, <2>4
    <3> HIDE DEF Bad, Good
    <3> QED BY <2>1, <3>1, <3>2
  <2> HIDE DEF Bad
  <2>5. ASSUME NEW s \in Side PROVE Good(rbtree[s][q]) /\ bh[rbtree[s][q]] \in Nat
    <3>1. rbtree[s][q] \in free \cup {Null} /\ mu[rbtree[s][q]] < mu[q]
      BY <1>4, <2>3 DEF Framed, KidFits
    <3> HIDE DEF Good
    <3> QED BY <1>4, <1>5, <2>4, <3>1
  <2>6. /\ BlackDepths[rbtree.left[q]] = {bh[rbtree.left[q]]} /\ bh[rbtree.left[q]] \in Nat
        /\ BlackDepths[rbtree.right[q]] = {bh[rbtree.right[q]]} /\ bh[rbtree.right[q]] \in Nat
    BY <2>5, Sides
  <2>7. bh[q] = bh[rbtree.left[q]] + Own(q) /\ bh[q] = bh[rbtree.right[q]] + Own(q) /\ Own(q) \in Nat
    BY <1>5, <2>3, Sides
  <2> DEFINE l == bh[rbtree.left[q]]
             r == bh[rbtree.right[q]]
             w == Own(q)
  <2>8. BlackDepths[q] = {w + d : d \in {l} \cup {r}}
    <3>1. BlackDepths[q] = Body(BlackDepths, q)
      BY <1>3, <2>3
    <3> QED BY <2>3, <2>6, <3>1
  <2>9. l \in Nat /\ r \in Nat /\ w \in Nat /\ bh[q] = l + w /\ bh[q] = r + w
    BY <2>6, <2>7
  <2> HIDE DEF l, r, w
  <2>10. BlackDepths[q] = {bh[q]}
    <3>1. l = r /\ w + l = bh[q]
      BY <2>9
    <3> QED BY <2>8, <3>1
  <2> QED BY <2>2, <2>10
<1>8. Good(rbtree.root)
  <2>1. mu[rbtree.root] \in Nat
    BY <1>0, <1>4
  <2>2. ~ Good(rbtree.root) => mu[rbtree.root] \in Bad
    BY <1>0, <2>1
  <2> HIDE DEF Bad, Good
  <2> QED BY <1>7, <2>2
<1> QED BY <1>8

(* A well coloured tree has a black root and no red child of a red node.   *)
LEMMA ColorsMean ==
  ASSUME NEW t, NEW F, NEW pos, NEW bd, NEW hi, Framed(t, F, pos, bd, hi), Colors(t, {})
  PROVE  t.root \notin t.red /\ \A p \in t.red : BlackKids(t, p)
<1>1. t.root \notin t.red
  BY DEF Colors
<1>2. ASSUME NEW p \in t.red PROVE BlackKids(t, p)
  <2>1. ASSUME NEW s \in Side, t[s][p] \in t.red PROVE FALSE
    <3>1. p \in F /\ t[s][p] # Null
      BY <2>1, FramedTypes DEF Framed
    <3>2. t.parent[t[s][p]] = p
      BY <3>1, KidSide
    <3> QED BY <2>1, <3>2 DEF Colors
  <2> QED BY <2>1, Sides DEF BlackKids
<1> QED BY <1>1, <1>2

(* Insertion and deletion keep a black root, no red block below a red one  *)
(* and equally many black blocks on all paths (lines 385 and 942).         *)
THEOREM BlocksBalanced == ASSUME Sized PROVE BlocksSpec => []RedBlack
<1>1. ASSUME BlocksInv PROVE RedBlack
  <2>1. PICK pos, hi : Balanced(rbtree, free, pos, hi)
    BY <1>1 DEF BlocksInv, TreeHolds
  <2>2. PICK bd, bh : /\ Framed(rbtree, free, pos, bd, hi) /\ Even(rbtree, free, bh, rbtree.red, {})
                      /\ Colors(rbtree, {})
    BY <2>1 DEF Balanced
  <2>3. rbtree.root \notin rbtree.red /\ \A p \in rbtree.red : BlackKids(rbtree, p)
    BY <2>2, ColorsMean
  <2>5. BlackDepths[rbtree.root] = {bh[rbtree.root]}
    BY <2>2, DepthsAreHeights
  <2>6. Cardinality(BlackDepths[rbtree.root]) = 1
    BY <2>5, FS_Singleton
  <2> QED BY <2>3, <2>6 DEF RedBlack
<1>2. BlocksInv => RedBlack
  BY <1>1
<1> QED BY <1>2, AlwaysHolds, PTL

(* find_block finds a block that need not be split, or the smallest that   *)
(* is large enough, and none only if there is none (lines 1297-1298).      *)
THEOREM BlocksBestFit == ASSUME Sized PROVE BlocksSpec => []BestFit
<1>1. ASSUME Sized, BlocksInv, NEW size \in Wanted, NEW p, p = FindBlock(rbtree, Size, size),
             NEW enough, enough = {q \in free : Size[q] >= size},
             NEW good, good = {q \in enough : Size[q] <= size + Slack}
      PROVE  IF enough = {} THEN p = Null
             ELSE IF good # {} THEN p \in good
             ELSE p \in enough /\ \A q \in enough : Size[p] <= Size[q]
  <2>1. size \in Nat /\ Size \in [Node -> Nat] /\ Slack \in Nat
    BY <1>1 DEF Sized, Slack
  <2>2. BestIn(Size, size, free, p)
    BY <1>1, <2>1, FindBlockFits DEF BlocksInv
  <2>3. \A q \in free : Size[q] \in Nat
    BY <1>1, <2>1 DEF BlocksInv, TreeHolds, Balanced, Framed
  <2>4. CASE \A q \in free : Size[q] < size
    BY <1>1, <2>1, <2>2, <2>3, <2>4 DEF BestIn
  <2>5. CASE ~ \A q \in free : Size[q] < size
    <3>1. /\ p \in free /\ Size[p] >= size
          /\ Size[p] <= size + Slack \/ \A q \in free : Size[q] >= size => Size[p] <= Size[q]
      BY <2>2, <2>5 DEF BestIn
    <3>2. p \in enough
      BY <1>1, <3>1
    <3>3. CASE good # {}
      <4>1. PICK g \in good : TRUE
        BY <3>3
      <4>2. g \in free /\ Size[g] >= size /\ Size[g] <= size + Slack /\ Size[g] \in Nat /\ Size[p] \in Nat
        BY <1>1, <2>3, <3>1, <4>1
      <4>3. Size[p] <= size + Slack
        BY <2>1, <3>1, <4>2
      <4> QED BY <1>1, <3>2, <3>3, <4>3
    <3>4. CASE good = {}
      BY <1>1, <3>1, <3>2, <3>4
    <3> QED BY <3>3, <3>4
  <2> QED BY <2>4, <2>5
<1>2. Sized /\ BlocksInv => BestFit
  BY <1>1 DEF BestFit
<1> QED BY <1>2, AlwaysHolds, PTL

-----------------------------------------------------------------------------
(* tree_checker.  How its call for a node with black blocks above it goes  *)
(* on to the node's kids.                                                  *)
CheckArgs == [node : Node, black : Nat]
Here(t, p, black) == IF p \in t.red THEN black ELSE black + 1
Kids(t, f, p, black) == UNION {f[[node |-> c, black |-> black]] : c \in Children(t, p)}
CheckStep(t, n, f, x) ==
  IF x.node \in t.red /\ ~BlackKids(t, x.node) THEN {"red node has child which is not black"}
  ELSE IF Children(t, x.node) # {} THEN Kids(t, f, x.node, Here(t, x.node, x.black))
  ELSE IF Here(t, x.node, x.black) = n THEN {}
  ELSE {"black node number to leafs are different"}
Checks(t, n, f) == \A p \in Node, b \in Nat :
                     f[[node |-> p, black |-> b]] = CheckStep(t, n, f, [node |-> p, black |-> b])

LEMMA CheckExists ==
  ASSUME NEW t, NEW F, NEW pos, NEW bd, NEW hi, Framed(t, F, pos, bd, hi), NEW n
  PROVE  \E f : f = [x \in CheckArgs |-> CheckStep(t, n, f, x)]
<1> DEFINE Said == {"red node has child which is not black", "black node number to leafs are different"}
           V == [Nat -> SUBSET Said]
           Value(p, l, r, b) ==
             IF p \in t.red /\ ~BlackKids(t, p) THEN {"red node has child which is not black"}
             ELSE IF Children(t, p) # {} THEN l[Here(t, p, b)] \cup r[Here(t, p, b)]
             ELSE IF Here(t, p, b) = n THEN {} ELSE {"black node number to leafs are different"}
           None0 == [b \in Nat |-> {}]
           B == [y \in Node \X V \X V |-> [b \in Nat |-> Value(y[1], y[2], y[3], b)]]
<1>0. /\ Null \notin Node /\ Null \in Link
      /\ \A p \in Node, s \in Side : t[s][p] \in Link
      /\ \A p \in Node : t.left[p] \in Link /\ t.right[p] \in Link
  <2>1. \A p \in Node, s \in Side : t[s][p] \in Link
    BY FramedTypes
  <2>2. Null \notin Node
    BY DEF Framed
  <2> QED BY <2>1, <2>2, Sides DEF Link
<1>h. \A p, b : b \in Nat => Here(t, p, b) \in Nat
  BY DEF Here
<1>1. None0 \in V
  OBVIOUS
<1>2. ASSUME NEW p \in Node, NEW l \in V, NEW r \in V PROVE [b \in Nat |-> Value(p, l, r, b)] \in V
  <2>1. \A b \in Nat : Value(p, l, r, b) \in SUBSET Said
    <3> SUFFICES ASSUME NEW b \in Nat PROVE Value(p, l, r, b) \in SUBSET Said
      OBVIOUS
    <3>1. l[Here(t, p, b)] \in SUBSET Said /\ r[Here(t, p, b)] \in SUBSET Said
      BY <1>h
    <3> QED BY <3>1
  <2> HIDE DEF Value, Said
  <2> QED BY <2>1
<1>3. B \in [(Node \X V \X V) -> V]
  <2> HIDE DEF Value, V
  <2> QED BY <1>2
<1>b. \A p \in Node, l \in V, r \in V, b \in Nat : B[<<p, l, r>>][b] = Value(p, l, r, b)
  <2> HIDE DEF Value, V
  <2> QED OBVIOUS
<1> HIDE DEF B, V, None0
<1>4. PICK c : c \in [Link -> V] /\ Folds2(c, t, None0, B)
  BY <1>0, <1>1, <1>3, ExtentFalls, FoldExists
<1>5. \A b \in Nat : c[Null][b] = {}
  BY <1>0, <1>4 DEF Folds2, None0
<1>6. \A p \in Node, b \in Nat : c[p][b] = Value(p, c[t.left[p]], c[t.right[p]], b)
  <2> HIDE DEF Value
  <2> SUFFICES ASSUME NEW p \in Node, NEW b \in Nat
               PROVE  c[p][b] = Value(p, c[t.left[p]], c[t.right[p]], b)
    OBVIOUS
  <2>1. c[t.left[p]] \in V /\ c[t.right[p]] \in V
    BY <1>0, <1>4
  <2>2. c[p] = B[<<p, c[t.left[p]], c[t.right[p]]>>]
    BY <1>0, <1>4 DEF Folds2, Link
  <2> QED BY <1>b, <2>1, <2>2
<1> DEFINE f == [x \in CheckArgs |-> c[x.node][x.black]]
<1>7. \A p \in Node, b \in Nat : f[[node |-> p, black |-> b]] = c[p][b]
  BY DEF CheckArgs
<1>8. ASSUME NEW p \in Node, NEW b \in Nat PROVE Kids(t, f, p, b) = c[t.left[p]][b] \cup c[t.right[p]][b]
  <2> DEFINE k == Children(t, p)
             l == t.left[p]
             r == t.right[p]
  <2>1. l \in Node \cup {Null} /\ r \in Node \cup {Null} /\ k = {l, r} \ {Null}
    BY <1>0 DEF Link, Children
  <2>2. \A q \in k : f[[node |-> q, black |-> b]] = c[q][b]
    BY <1>7, <2>1
  <2>3. Kids(t, f, p, b) = UNION {c[q][b] : q \in k}
    <3> HIDE DEF f
    <3> QED BY <2>2 DEF Kids
  <2> HIDE DEF k, l, r
  <2>4. UNION {c[q][b] : q \in k} = c[l][b] \cup c[r][b]
    BY <1>5, <2>1
  <2> QED BY <2>3, <2>4 DEF l, r
<1> HIDE DEF f
<1>9. ASSUME NEW x \in CheckArgs PROVE f[x] = CheckStep(t, n, f, x)
  <2>1. PICK p \in Node, b \in Nat : x = [node |-> p, black |-> b]
    BY DEF CheckArgs
  <2>2. x.node = p /\ x.black = b
    BY <2>1
  <2>3. f[x] = Value(p, c[t.left[p]], c[t.right[p]], b)
    <3> HIDE DEF Value
    <3> QED BY <1>6, <1>7, <2>1
  <2>4. Kids(t, f, p, Here(t, p, b)) = c[t.left[p]][Here(t, p, b)] \cup c[t.right[p]][Here(t, p, b)]
    BY <1>8, <1>h
  <2> QED BY <2>2, <2>3, <2>4 DEF CheckStep
<1>10. f = [x \in CheckArgs |-> f[x]]
  BY DEF f
<1> QED BY <1>9, <1>10

(* What black depths the nodes without kids below a node have.             *)
LeafStep(t, f, q) ==
  {(IF q \in t.red THEN 0 ELSE 1) + d :
     d \in IF Children(t, q) = {} THEN {0} ELSE UNION {f[c] : c \in Children(t, q)}}

LEMMA LeavesExist ==
  ASSUME NEW t, NEW F, NEW pos, NEW bd, NEW hi, Framed(t, F, pos, bd, hi)
  PROVE  \E f : f = [q \in Node |-> LeafStep(t, f, q)]
<1> DEFINE V == SUBSET Nat
           Value(p, l, r) ==
             {(IF p \in t.red THEN 0 ELSE 1) + d : d \in IF Children(t, p) = {} THEN {0} ELSE l \cup r}
           B == [y \in Node \X V \X V |-> Value(y[1], y[2], y[3])]
<1>0. /\ Null \notin Node /\ Null \in Link
      /\ \A p \in Node : t.left[p] \in Link /\ t.right[p] \in Link
  <2>1. \A p \in Node, s \in Side : t[s][p] \in Link
    BY FramedTypes
  <2>2. Null \notin Node
    BY DEF Framed
  <2> QED BY <2>1, <2>2, Sides DEF Link
<1>2. ASSUME NEW p \in Node, NEW l \in V, NEW r \in V PROVE Value(p, l, r) \in V
  OBVIOUS
<1>3. B \in [(Node \X V \X V) -> V] /\ {} \in V
  <2> HIDE DEF Value
  <2> QED BY <1>2
<1>b. \A p \in Node, l \in V, r \in V : B[<<p, l, r>>] = Value(p, l, r)
  <2> HIDE DEF Value, V
  <2> QED OBVIOUS
<1> HIDE DEF B, V
<1>4. PICK c : c \in [Link -> V] /\ Folds2(c, t, {}, B)
  BY <1>0, <1>3, ExtentFalls, FoldExists
<1>5. c[Null] = {}
  BY <1>0, <1>4 DEF Folds2
<1> DEFINE f == [q \in Node |-> c[q]]
<1>6. ASSUME NEW p \in Node PROVE c[p] = LeafStep(t, f, p)
  <2> DEFINE k == Children(t, p)
             l == t.left[p]
             r == t.right[p]
  <2>1. l \in Node \cup {Null} /\ r \in Node \cup {Null} /\ k = {l, r} \ {Null}
    BY <1>0 DEF Link, Children
  <2>2. \A q \in k : f[q] = c[q]
    BY <2>1
  <2>3. c[p] = Value(p, c[l], c[r])
    <3>1. c[l] \in V /\ c[r] \in V
      BY <1>0, <1>4
    <3>2. c[p] = B[<<p, c[l], c[r]>>]
      BY <1>0, <1>4 DEF Folds2, Link
    <3> HIDE DEF Value
    <3> QED BY <1>b, <3>1, <3>2
  <2>4. UNION {f[q] : q \in k} = c[l] \cup c[r]
    <3>1. UNION {f[q] : q \in k} = UNION {c[q] : q \in k}
      <4> HIDE DEF f
      <4> QED BY <2>2
    <3> HIDE DEF k, l, r, f
    <3> QED BY <1>5, <2>1, <3>1
  <2> HIDE DEF f, l, r
  <2> QED BY <2>3, <2>4 DEF LeafStep
<1>7. f = [q \in Node |-> LeafStep(t, f, q)]
  <2> DEFINE g == f
  <2>1. \A q \in Node : f[q] = LeafStep(t, g, q)
    BY <1>6
  <2> HIDE DEF g
  <2>2. f = [q \in Node |-> LeafStep(t, g, q)]
    BY <2>1
  <2> QED BY <2>2 DEF g
<1> HIDE DEF f
<1> QED BY <1>7

(* A call says nothing if the node is not red with a red kid and the calls *)
(* for its kids say nothing or, if it has none, its black depth is right.  *)
LEMMA CheckBelow ==
  ASSUME NEW t, NEW n, NEW f, Checks(t, n, f), NEW q \in Node, NEW b \in Nat
  PROVE  f[[node |-> q, black |-> b]] = {} <=>
           /\ q \in t.red => BlackKids(t, q)
           /\ Children(t, q) # {} => \A c \in Children(t, q) : f[[node |-> c, black |-> Here(t, q, b)]] = {}
           /\ Children(t, q) = {} => Here(t, q, b) = n
<1> DEFINE r == [node |-> q, black |-> b]
           k == Children(t, q)
           here == Here(t, q, b)
           below == Kids(t, f, q, here)
<1>1. r.node = q /\ r.black = b
  OBVIOUS
<1>2. f[r] = CheckStep(t, n, f, r)
  BY Zenon DEF Checks
<1>3. CheckStep(t, n, f, r) =
        IF q \in t.red /\ ~BlackKids(t, q) THEN {"red node has child which is not black"}
        ELSE IF k # {} THEN below
        ELSE IF here = n THEN {} ELSE {"black node number to leafs are different"}
  BY <1>1 DEF CheckStep
<1>4. below = {} <=> \A c \in k : f[[node |-> c, black |-> here]] = {}
  BY Zenon DEF Kids
<1> HIDE DEF r, here, below, k
<1>5. f[r] = {} <=> /\ q \in t.red => BlackKids(t, q)
                    /\ k # {} => below = {}
                    /\ k = {} => here = n
  BY <1>2, <1>3, Zenon
<1> QED BY <1>4, <1>5 DEF r, k, here

(* What holds of the root and passes to kids holds of all nodes.           *)
LEMMA DownFromRoot ==
  ASSUME NEW t, NEW F, NEW pos, NEW bd, NEW hi, Framed(t, F, pos, bd, hi),
         NEW Z, t.root \in Z, \A q \in F : q \in Z => Children(t, q) \subseteq Z
  PROVE  F \subseteq Z
<1> DEFINE Bad == {k \in Nat : \E y \in F \ Z : k = Depth(bd, hi, y)}
<1> SUFFICES ASSUME NEW x \in F, x \notin Z PROVE FALSE
  OBVIOUS
<1>1. Depth(bd, hi, x) \in Bad
  BY DepthOf
<1>2. PICK k \in Bad : \A j \in Bad : k <= j
  <2>1. Bad \in SUBSET Nat
    OBVIOUS
  <2> HIDE DEF Bad
  <2> QED BY <1>1, <2>1, LeastNumber
<1>3. PICK y \in F \ Z : k = Depth(bd, hi, y)
  OBVIOUS
<1>4. t.parent[y] \in F /\ y \in Children(t, t.parent[y])
  <2>1. Placed(t, F, y) /\ y # Null
    BY DEF Framed
  <2> QED BY <1>3, <2>1 DEF Placed, Children, Side
<1>5. t.parent[y] \notin Z
  BY <1>3, <1>4
<1>6. /\ Depth(bd, hi, t.parent[y]) \in Nat /\ Depth(bd, hi, y) \in Nat
      /\ Depth(bd, hi, t.parent[y]) < Depth(bd, hi, y)
  <2>1. t.parent[y] # Null
    BY <1>4 DEF Framed
  <2> QED BY <1>3, <1>4, <2>1, DepthOf
<1>7. Depth(bd, hi, t.parent[y]) \in Bad /\ ~ (k <= Depth(bd, hi, t.parent[y]))
  BY <1>3, <1>4, <1>5, <1>6
<1> HIDE DEF Bad
<1> QED BY <1>2, <1>7

Plus(q, red) == IF q \in red THEN 0 ELSE 1
\* What f, the checker, says of the nodes below q if g are the black depths.
Tells(t, n, f, g, q) ==
  /\ g[q] \subseteq Nat /\ g[q] # {}
  /\ \A b \in Nat :
       LET same == \A d \in g[q] : b + d = n
       IN /\ f[[node |-> q, black |-> b]] = {} => same
          /\ same /\ (\A p \in t.red : BlackKids(t, p)) => f[[node |-> q, black |-> b]] = {}

(* It tells of a node what it tells of its kids.                           *)
LEMMA TellsAbove ==
  ASSUME NEW t, NEW n, NEW f, NEW g, NEW q \in Node, t.red \subseteq Node, Children(t, q) \subseteq Node,
         Checks(t, n, f), g[q] = LeafStep(t, g, q), \A c \in Children(t, q) : Tells(t, n, f, g, c)
  PROVE  Tells(t, n, f, g, q)
<1> DEFINE own == Plus(q, t.red)
           k == Children(t, q)
<1>1. own \in Nat /\ \A b \in Nat : Here(t, q, b) = b + own /\ b + own \in Nat
  BY DEF Here, Plus
<1>2. ASSUME NEW b \in Nat
      PROVE  f[[node |-> q, black |-> b]] = {} <=>
               /\ q \in t.red => BlackKids(t, q)
               /\ k # {} => \A c \in k : f[[node |-> c, black |-> b + own]] = {}
               /\ k = {} => b + own = n
  <2> HIDE DEF own
  <2>1. Here(t, q, b) = b + own
    BY <1>1
  <2> QED BY <2>1, CheckBelow
<1>3. CASE k = {}
  <2>1. g[q] = {own}
    <3>1. g[q] = {own + d : d \in {0}}
      BY <1>3 DEF LeafStep, Plus
    <3> HIDE DEF own
    <3> QED BY <1>1, <3>1
  <2> HIDE DEF own
  <2> QED BY <1>1, <1>2, <1>3, <2>1 DEF Tells
<1>4. CASE k # {}
  <2>1. g[q] = {own + d : d \in UNION {g[c] : c \in k}}
    BY <1>4 DEF LeafStep, Plus
  <2>2. \A c \in k : /\ g[c] \subseteq Nat /\ g[c] # {}
                    /\ \A b \in Nat : f[[node |-> c, black |-> b]] = {} => \A d \in g[c] : b + d = n
    BY DEF Tells
  <2>3. \A c \in k, b \in Nat :
          (\A d \in g[c] : b + d = n) /\ (\A p \in t.red : BlackKids(t, p)) => f[[node |-> c, black |-> b]] = {}
    BY DEF Tells
  <2> HIDE DEF own, k
  <2>5. g[q] \subseteq Nat /\ g[q] # {}
    BY <1>1, <1>4, <2>1, <2>2
  <2>6. ASSUME NEW b \in Nat, f[[node |-> q, black |-> b]] = {}, NEW d \in g[q] PROVE b + d = n
    <3>0. PICK c \in k : \E e \in g[c] : d = own + e
      BY <2>1
    <3>1. PICK e \in g[c] : d = own + e
      BY <3>0
    <3>3. f[[node |-> c, black |-> b + own]] = {}
      BY <1>2, <1>4, <2>6
    <3>4. (b + own) + e = n /\ e \in Nat
      BY <1>1, <2>2, <3>3
    <3> QED BY <1>1, <3>1, <3>4
  <2>7. ASSUME NEW b \in Nat, \A d \in g[q] : b + d = n, \A p \in t.red : BlackKids(t, p)
        PROVE  f[[node |-> q, black |-> b]] = {}
    <3>1. ASSUME NEW c \in k PROVE f[[node |-> c, black |-> b + own]] = {}
      <4>1. ASSUME NEW e \in g[c] PROVE (b + own) + e = n
        <5>1. own + e \in g[q] /\ e \in Nat
          BY <2>1, <2>2
        <5>2. b + (own + e) = n
          BY <2>7, <5>1
        <5> QED BY <1>1, <5>1, <5>2
      <4> QED BY <1>1, <2>3, <2>7, <4>1
    <3> QED BY <1>2, <1>4, <2>7, <3>1
  <2> QED BY <2>5, <2>6, <2>7 DEF Tells
<1> QED BY <1>3, <1>4

(* tree_checker complains exactly of what CheckerSees names, whatever the  *)
(* colours are.                                                            *)
LEMMA CheckerComplains ==
  ASSUME NEW t, NEW F, NEW pos, NEW bd, NEW hi, Framed(t, F, pos, bd, hi), t.root # Null
  PROVE  (tree_checker(t) # {}) <=> CheckerSees(t)
<1> DEFINE n == BlackOnTheLeft(t)
           f == CHOOSE h : h = [x \in CheckArgs |-> CheckStep(t, n, h, x)]
           g == CHOOSE h : h = [q \in Node |-> LeafStep(t, h, q)]
           mu == [q \in Link |-> Extent(F, bd, hi, q)]
<1>1. tree_checker(t) = IF t.root \in t.red THEN {"root is not black"} ELSE f[[node |-> t.root, black |-> 0]]
  <2>1. tree_checker(t) = IF ~Black(t, t.root) THEN {"root is not black"}
                          ELSE f[[node |-> t.root, black |-> 0]]
    BY DEF tree_checker, tree_check, CheckArgs, CheckStep, Here, Kids
  <2> HIDE DEF f
  <2> QED BY <2>1 DEF Black
<1>2. LeafDepths(t) = g[t.root]
  BY DEF LeafDepths, LeafStep
<1>3. f = [x \in CheckArgs |-> CheckStep(t, n, f, x)]
  <2> HIDE DEF n
  <2>1. \E h : h = [x \in CheckArgs |-> CheckStep(t, n, h, x)]
    BY CheckExists
  <2> QED BY <2>1
<1>4. g = [q \in Node |-> LeafStep(t, g, q)]
  <2>1. \E h : h = [q \in Node |-> LeafStep(t, h, q)]
    BY LeavesExist
  <2> QED BY <2>1, Zenon
<1> HIDE DEF n, f, g
<1>5. Checks(t, n, f)
  BY <1>3 DEF Checks, CheckArgs
<1>6. \A q \in Node : g[q] = LeafStep(t, g, q)
  BY <1>4, Zenon
<1>7. /\ F \subseteq Node /\ t.red \subseteq F /\ t.root \in F
      /\ \A q \in F : Children(t, q) \subseteq F
      /\ \A q \in F : t.parent[q] = Null => q = t.root
      /\ \A q \in F : t.parent[q] # Null => t.parent[q] \in F /\ q \in Children(t, t.parent[q])
  <2>1. F \subseteq Node /\ t.red \subseteq F /\ t.root \in F /\ Null \notin Node
    BY DEF Framed
  <2>2. \A q \in F, s \in Side : t[s][q] \in F \cup {Null}
    BY DEF Framed, KidFits
  <2>3. \A q \in F : Children(t, q) \subseteq F
    BY <2>2, Sides DEF Children
  <2>4. \A q \in F : Placed(t, F, q)
    BY Zenon DEF Framed
  <2>5. \A q \in F, s \in Side : t[s][t.parent[q]] = q => q \in Children(t, t.parent[q])
    BY <2>1 DEF Side, Children
  <2> QED BY <2>1, <2>3, <2>4, <2>5 DEF Placed
<1>8. ASSUME NEW q \in F PROVE Tells(t, n, f, g, q)
  <2>1. /\ \A y \in F : mu[y] \in Nat
        /\ \A y \in F : \A c \in Children(t, y) : mu[c] < mu[y]
    <3>1. Falls(t, mu, hi + 1)
      BY ExtentFalls
    <3>2. \A y \in F : y \in Link /\ y \in Node
      BY <1>7 DEF Link
    <3> HIDE DEF mu
    <3> QED BY <3>1, <3>2, Sides DEF Falls, Children
  <2> HIDE DEF mu
  <2> DEFINE Bad == {k \in Nat : \E y \in F : k = mu[y] /\ ~ Tells(t, n, f, g, y)}
  <2>2. Bad = {}
    <3> SUFFICES ASSUME Bad # {} PROVE FALSE
      OBVIOUS
    <3>1. PICK k \in Bad : \A j \in Bad : k <= j
      <4>1. Bad \in SUBSET Nat
        OBVIOUS
      <4> HIDE DEF Bad
      <4> QED BY <4>1, LeastNumber
    <3>2. PICK y \in F : k = mu[y] /\ ~ Tells(t, n, f, g, y)
      BY <3>1
    <3>3. ASSUME NEW c \in Children(t, y) PROVE Tells(t, n, f, g, c)
      <4>1. c \in F /\ mu[c] \in Nat /\ ~ (k <= mu[c])
        BY <1>7, <2>1, <3>2
      <4>2. mu[c] \notin Bad
        <5> HIDE DEF Bad
        <5> QED BY <3>1, <4>1
      <4> QED BY <4>1, <4>2
    <3>4. y \in Node /\ Children(t, y) \subseteq Node /\ t.red \subseteq Node
      BY <1>7
    <3>5. Tells(t, n, f, g, y)
      <4> HIDE DEF Bad
      <4> QED BY <1>5, <1>6, <3>3, <3>4, TellsAbove
    <3> QED BY <3>2, <3>5
  <2> QED BY <2>1, <2>2
<1> DEFINE root == [node |-> t.root, black |-> 0]
           Peace == \A p \in t.red : BlackKids(t, p)
<1>9. /\ g[t.root] \subseteq Nat /\ g[t.root] # {}
      /\ f[root] = {} => \A d \in g[t.root] : 0 + d = n
      /\ (\A d \in g[t.root] : 0 + d = n) /\ Peace => f[root] = {}
  <2>1. Tells(t, n, f, g, t.root)
    BY <1>7, <1>8
  <2> QED BY <2>1 DEF Tells
<1>10. (\A d \in g[t.root] : 0 + d = n) <=> g[t.root] = {n}
  <2> HIDE DEF root, Peace
  <2> QED BY <1>9
<1>11. f[root] = {} => Peace
  <2> SUFFICES ASSUME f[root] = {} PROVE Peace
    OBVIOUS
  <2> DEFINE Z == {q \in F : \E b \in Nat : f[[node |-> q, black |-> b]] = {}}
  <2>1. t.root \in Z
    BY <1>7
  <2>2. ASSUME NEW q \in F, q \in Z PROVE (q \in t.red => BlackKids(t, q)) /\ Children(t, q) \subseteq Z
    <3>1. PICK b \in Nat : f[[node |-> q, black |-> b]] = {}
      BY <2>2
    <3>2. /\ q \in t.red => BlackKids(t, q)
          /\ \A c \in Children(t, q) : f[[node |-> c, black |-> Here(t, q, b)]] = {}
      BY <1>5, <1>7, <3>1, CheckBelow
    <3>3. Here(t, q, b) \in Nat
      BY DEF Here
    <3> QED BY <1>7, <3>2, <3>3
  <2> HIDE DEF Z
  <2>3. F \subseteq Z
    BY <2>1, <2>2, DownFromRoot
  <2> QED BY <1>7, <2>2, <2>3
<1> HIDE DEF root, Peace
<1>12. CheckerSees(t) <=> t.root \in t.red \/ ~ Peace \/ g[t.root] # {n}
  BY <1>2 DEF CheckerSees, Peace, n
<1> QED BY <1>1, <1>9, <1>10, <1>11, <1>12, Zenon DEF root

(* In a tree with equally many black blocks on all paths, these numbers    *)
(* are the black height of the root.                                       *)
LEMMA LevelMeans ==
  ASSUME NEW t, NEW F, NEW pos, NEW bd, NEW hi, Framed(t, F, pos, bd, hi),
         NEW bh, Even(t, F, bh, t.red, {})
  PROVE  /\ bh \in [Link -> Nat] /\ bh[Null] = 0
         /\ \A q \in F, s \in Side : bh[t[s][q]] \in Nat /\ bh[q] = bh[t[s][q]] + Plus(q, t.red)
<1>1. /\ bh \in [Link -> Nat] /\ bh[Null] = 0
      /\ \A q \in F, s \in Side : Level(t, bh, t.red, {}, q, s)
  BY DEF Even
<1>2. ASSUME NEW q \in F, NEW s \in Side
      PROVE  bh[t[s][q]] \in Nat /\ bh[q] = bh[t[s][q]] + Plus(q, t.red)
  <2>1. bh[t[s][q]] \in Nat
    BY <1>1, FramedTypes DEF Framed
  <2>2. bh[q] = bh[t[s][q]] + One(t[s][q] \in {}) + One(q \notin t.red)
    BY <1>1 DEF Level
  <2> QED BY <2>1, <2>2 DEF One, Plus
<1> QED BY <1>1, <1>2

LEMMA LeftIsHeight ==
  ASSUME NEW t, NEW F, NEW pos, NEW bd, NEW hi, Framed(t, F, pos, bd, hi),
         NEW bh, Even(t, F, bh, t.red, {})
  PROVE  BlackOnTheLeft(t) = bh[t.root]
<1> DEFINE Body(f, q) == IF q = Null THEN 0 ELSE f[t.left[q]] + Plus(q, t.red)
           Value(q, l, r) == l + Plus(q, t.red)
           B == [y \in Node \X Nat \X Nat |-> Value(y[1], y[2], y[3])]
           mu == [q \in Link |-> Extent(F, bd, hi, q)]
<1>0. /\ Null \notin Node /\ Null \in Link /\ F \subseteq Node /\ t.root \in F \cup {Null}
      /\ \A p \in Node : t.left[p] \in Link /\ t.right[p] \in Link
      /\ \A p \in F : t.left[p] \in F \cup {Null}
  <2>1. \A p \in Node, s \in Side : t[s][p] \in Link
    BY FramedTypes
  <2>2. Null \notin Node /\ F \subseteq Node /\ t.root \in F \cup {Null}
    BY DEF Framed
  <2>3. \A p \in F, s \in Side : t[s][p] \in F \cup {Null}
    BY DEF Framed, KidFits
  <2> QED BY <2>1, <2>2, <2>3, Sides DEF Link
<1>p. \A q : Plus(q, t.red) \in Nat
  BY DEF Plus
<1>1. \E f : f = [q \in Link |-> Body(f, q)]
  <2>a. \A q \in Node, l \in Nat, r \in Nat : Value(q, l, r) \in Nat
    BY <1>p
  <2>b. B \in [(Node \X Nat \X Nat) -> Nat]
    <3> HIDE DEF Value
    <3> QED BY <2>a
  <2>1. \A q \in Node, l \in Nat, r \in Nat : B[<<q, l, r>>] = l + Plus(q, t.red)
    <3>1. \A q \in Node, l \in Nat, r \in Nat : B[<<q, l, r>>] = Value(q, l, r)
      <4> HIDE DEF Value
      <4> QED OBVIOUS
    <3> QED BY <3>1
  <2>c. 0 \in Nat
    OBVIOUS
  <2> HIDE DEF B
  <2>2. PICK f : f \in [Link -> Nat] /\ Folds2(f, t, 0, B)
    BY <1>0, <2>b, <2>c, ExtentFalls, FoldExists
  <2>3. ASSUME NEW q \in Link PROVE f[q] = Body(f, q)
    <3>1. CASE q = Null
      BY <2>2, <3>1 DEF Folds2
    <3>2. CASE q # Null
      <4>1. q \in Node
        BY <3>2 DEF Link
      <4>2. f[t.left[q]] \in Nat /\ f[t.right[q]] \in Nat
        BY <1>0, <2>2, <4>1
      <4>3. f[q] = B[<<q, f[t.left[q]], f[t.right[q]]>>]
        BY <2>2, <3>2 DEF Folds2
      <4> QED BY <2>1, <3>2, <4>1, <4>2, <4>3
    <3> QED BY <3>1, <3>2
  <2> HIDE DEF Body
  <2>4. f = [q \in Link |-> f[q]]
    BY <2>2
  <2> QED BY <2>3, <2>4
<1> DEFINE c == CHOOSE f : f = [q \in Link |-> Body(f, q)]
<1>2. BlackOnTheLeft(t) = c[t.root]
  BY DEF BlackOnTheLeft, Plus
<1>3. \A q \in Link : c[q] = Body(c, q)
  <2> HIDE DEF Body
  <2>1. c = [q \in Link |-> Body(c, q)]
    BY <1>1, Zenon
  <2> HIDE DEF c
  <2> QED BY <2>1, Zenon
<1> HIDE DEF c
<1>4. ASSUME NEW q \in F \cup {Null} PROVE c[q] = bh[q]
  <2>1. /\ \A y \in F \cup {Null} : mu[y] \in Nat
        /\ \A y \in F : mu[t.left[y]] < mu[y]
    <3>1. Falls(t, mu, hi + 1)
      BY ExtentFalls
    <3>2. (\A y \in F : y \in Node) /\ \A y \in F \cup {Null} : y \in Link
      BY <1>0 DEF Link
    <3> HIDE DEF mu
    <3> QED BY <3>1, <3>2, Sides DEF Falls
  <2> HIDE DEF mu
  <2> DEFINE Bad == {k \in Nat : \E y \in F \cup {Null} : k = mu[y] /\ c[y] # bh[y]}
  <2>2. Bad = {}
    <3> SUFFICES ASSUME Bad # {} PROVE FALSE
      OBVIOUS
    <3>1. PICK k \in Bad : \A j \in Bad : k <= j
      <4>1. Bad \in SUBSET Nat
        OBVIOUS
      <4> HIDE DEF Bad
      <4> QED BY <4>1, LeastNumber
    <3>2. PICK y \in F \cup {Null} : k = mu[y] /\ c[y] # bh[y]
      BY <3>1
    <3>3. CASE y = Null
      BY <1>0, <1>3, <3>2, <3>3, LevelMeans
    <3>4. CASE y # Null
      <4>1. y \in F /\ y \in Link /\ t.left[y] \in F \cup {Null}
        BY <1>0, <3>4 DEF Link
      <4>2. mu[t.left[y]] \in Nat /\ ~ (k <= mu[t.left[y]])
        BY <2>1, <3>2, <4>1
      <4>3. mu[t.left[y]] \notin Bad
        <5> HIDE DEF Bad
        <5> QED BY <3>1, <4>2
      <4>4. c[t.left[y]] = bh[t.left[y]]
        BY <4>1, <4>2, <4>3
      <4>5. c[y] = c[t.left[y]] + Plus(y, t.red)
        BY <1>3, <3>4, <4>1
      <4>6. bh[y] = bh[t.left[y]] + Plus(y, t.red)
        BY <4>1, LevelMeans, Sides
      <4> QED BY <3>2, <4>4, <4>5, <4>6
    <3> QED BY <3>3, <3>4
  <2> QED BY <2>1, <2>2
<1> QED BY <1>0, <1>2, <1>4

LEMMA LeavesAreEven ==
  ASSUME NEW t, NEW F, NEW pos, NEW bd, NEW hi, Framed(t, F, pos, bd, hi), t.root # Null,
         NEW bh, Even(t, F, bh, t.red, {})
  PROVE  LeafDepths(t) = {bh[t.root]}
<1> DEFINE g == CHOOSE h : h = [q \in Node |-> LeafStep(t, h, q)]
           mu == [q \in Link |-> Extent(F, bd, hi, q)]
<1>1. LeafDepths(t) = g[t.root]
  BY DEF LeafDepths, LeafStep
<1>2. \A q \in Node : g[q] = LeafStep(t, g, q)
  <2>1. \E h : h = [q \in Node |-> LeafStep(t, h, q)]
    BY LeavesExist
  <2>2. g = [q \in Node |-> LeafStep(t, g, q)]
    BY <2>1, Zenon
  <2> HIDE DEF g
  <2> QED BY <2>2, Zenon
<1> HIDE DEF g
<1>3. /\ F \subseteq Node /\ t.root \in F /\ Null \notin F
      /\ \A q \in F : Children(t, q) \subseteq F
      /\ \A q \in F, c \in Link : c \in Children(t, q) => \E s \in Side : c = t[s][q]
  <2>1. F \subseteq Node /\ t.root \in F /\ Null \notin Node
    BY DEF Framed
  <2>2. \A q \in F, s \in Side : t[s][q] \in F \cup {Null}
    BY DEF Framed, KidFits
  <2> QED BY <2>1, <2>2, Sides DEF Children
<1>4. ASSUME NEW q \in F, \A c \in Children(t, q) : g[c] = {bh[c]} PROVE g[q] = {bh[q]}
  <2> DEFINE own == Plus(q, t.red)
             k == Children(t, q)
  <2>1. own \in Nat
    BY DEF Plus
  <2>2. \A s \in Side : bh[t[s][q]] \in Nat /\ bh[q] = bh[t[s][q]] + own
    BY LevelMeans
  <2>3. CASE k = {}
    <3>1. g[q] = {own + d : d \in {0}}
      BY <1>2, <1>3, <2>3 DEF LeafStep, Plus
    <3>2. t.left[q] = Null
      BY <2>3 DEF Children
    <3>3. bh[q] = own
      BY <2>1, <2>2, <3>2, LevelMeans, Sides
    <3> HIDE DEF own
    <3> QED BY <2>1, <3>1, <3>3
  <2>4. CASE k # {}
    <3>1. g[q] = {own + d : d \in UNION {g[c] : c \in k}}
      BY <1>2, <1>3, <2>4 DEF LeafStep, Plus
    <3>2. \A c \in k : bh[c] \in Nat /\ bh[q] = bh[c] + own /\ g[c] = {bh[c]}
      <4>1. \A c \in k : c \in Link
        BY <1>3 DEF Link
      <4> QED BY <1>3, <1>4, <2>2, <4>1
    <3> HIDE DEF own, k
    <3>3. \A d \in UNION {g[c] : c \in k} : own + d = bh[q]
      BY <2>1, <3>2
    <3>4. UNION {g[c] : c \in k} # {}
      BY <2>4, <3>2
    <3> QED BY <3>1, <3>3, <3>4
  <2> QED BY <2>3, <2>4
<1>5. /\ \A y \in F : mu[y] \in Nat
      /\ \A y \in F : \A c \in Children(t, y) : mu[c] < mu[y]
  <2>1. Falls(t, mu, hi + 1)
    BY ExtentFalls
  <2>2. \A y \in F : y \in Link /\ y \in Node
    BY <1>3 DEF Link
  <2> HIDE DEF mu
  <2> QED BY <2>1, <2>2, Sides DEF Falls, Children
<1> HIDE DEF mu
<1> DEFINE Bad == {k \in Nat : \E y \in F : k = mu[y] /\ g[y] # {bh[y]}}
<1>6. Bad = {}
  <2> SUFFICES ASSUME Bad # {} PROVE FALSE
    OBVIOUS
  <2>1. PICK k \in Bad : \A j \in Bad : k <= j
    <3>1. Bad \in SUBSET Nat
      OBVIOUS
    <3> HIDE DEF Bad
    <3> QED BY <3>1, LeastNumber
  <2>2. PICK y \in F : k = mu[y] /\ g[y] # {bh[y]}
    BY <2>1
  <2>3. ASSUME NEW c \in Children(t, y) PROVE g[c] = {bh[c]}
    <3>1. c \in F /\ mu[c] \in Nat /\ ~ (k <= mu[c])
      BY <1>3, <1>5, <2>2
    <3>2. mu[c] \notin Bad
      <4> HIDE DEF Bad
      <4> QED BY <2>1, <3>1
    <3> QED BY <3>1, <3>2
  <2> QED BY <1>4, <2>2, <2>3
<1> QED BY <1>1, <1>3, <1>5, <1>6

(* "verify given RB tree" (line 1409): after every insertion and deletion  *)
(* tree_checker has nothing to say of the tree, unless it is empty: then   *)
(* it misses a black root.  Of a tree with one wrong colour it says        *)
(* something exactly if CheckerSees.                                       *)
THEOREM BlocksChecked == ASSUME Sized PROVE BlocksSpec => []Checked
<1>1. ASSUME BlocksInv PROVE Checked
  <2>1. PICK pos, hi : Balanced(rbtree, free, pos, hi)
    BY <1>1 DEF BlocksInv, TreeHolds
  <2>2. PICK bd, bh : /\ Framed(rbtree, free, pos, bd, hi) /\ Even(rbtree, free, bh, rbtree.red, {})
                      /\ Colors(rbtree, {})
    BY <2>1 DEF Balanced
  <2>3. rbtree.root = Null <=> free = {}
    <3>1. ASSUME rbtree.root = Null PROVE free = {}
      <4>1. free \subseteq Node /\ Null \notin Node
        BY <2>2 DEF Framed
      <4>2. \A q \in free : q \in {Null} => Children(rbtree, q) \subseteq {Null}
        BY <4>1
      <4>3. free \subseteq {Null}
        <5>1. rbtree.root \in {Null}
          BY <3>1
        <5> QED BY <2>2, <4>2, <5>1, DownFromRoot
      <4> QED BY <4>1, <4>3
    <3>2. rbtree.root # Null => rbtree.root \in free
      BY <2>2 DEF Framed
    <3> QED BY <3>1, <3>2
  <2>4. ASSUME rbtree.root = Null PROVE tree_checker(rbtree) # {}
    BY <2>4 DEF tree_checker, tree_check, Black
  <2>5. ASSUME rbtree.root # Null PROVE tree_checker(rbtree) = {}
    <3>1. rbtree.root \notin rbtree.red /\ \A p \in rbtree.red : BlackKids(rbtree, p)
      BY <2>2, ColorsMean
    <3>2. LeafDepths(rbtree) = {BlackOnTheLeft(rbtree)}
      BY <2>2, <2>5, LeftIsHeight, LeavesAreEven
    <3>3. ~ CheckerSees(rbtree)
      BY <2>5, <3>1, <3>2 DEF CheckerSees
    <3> QED BY <2>2, <2>5, <3>3, CheckerComplains
  <2>6. ASSUME NEW p \in free, NEW t, t = [rbtree EXCEPT !.red = (@ \ {p}) \cup ({p} \ @)]
        PROVE  (tree_checker(t) # {}) = CheckerSees(t)
    <3>1. free \subseteq Node /\ rbtree \in Tree /\ rbtree.red \subseteq free /\ rbtree.root # Null
      BY <2>2, <2>3, <2>6 DEF Framed
    <3>2. t.red \subseteq free /\ t.root # Null
      BY <2>6, <3>1 DEF Tree
    <3>3. SameLinks(rbtree, t)
      BY <2>6, <3>1, <3>2 DEF SameLinks, Tree, Side
    <3>4. Framed(t, free, pos, bd, hi)
      BY <2>2, <3>2, <3>3, RecolouredFramed
    <3>5. (tree_checker(t) # {}) <=> CheckerSees(t)
      BY <3>2, <3>4, CheckerComplains
    <3>6. CheckerSees(t) \in BOOLEAN
      BY DEF CheckerSees
    <3> HIDE DEF CheckerSees
    <3> QED BY <3>5, <3>6, Zenon
  <2> HIDE DEF tree_checker
  <2>7. tree_checker(rbtree) = {} <=> free # {}
    BY <2>3, <2>4, <2>5
  <2> QED BY <2>6, <2>7, Zenon DEF Checked
<1>2. BlocksInv => Checked
  BY <1>1
<1> QED BY <1>2, AlwaysHolds, PTL
=============================================================================
