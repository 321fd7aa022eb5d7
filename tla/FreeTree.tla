------------------------------ MODULE FreeTree ------------------------------
(***************************************************************************)
(* The red-black tree of free blocks of Memory_Lab/malloclab-handout/mm.c  *)
(* as functions on trees.  The C code keeps the tree inside the blocks     *)
(* (left child at +4, parent at +8, right child in the last word, colour   *)
(* in bit 2 of the header); here a tree is a record of these fields for    *)
(* every address, Null where a block is not in the tree.  The pointers of  *)
(* blocks outside the tree are not kept: nothing reads them.               *)
(*                                                                         *)
(* The size of a block is key[p].  The code's recursions are recursive     *)
(* functions; its pairs of mirrored branches are one, with a side.         *)
(***************************************************************************)
EXTENDS Naturals

CONSTANT Node      \* addresses of blocks
Null == 0

Link == Node \cup {Null}
Side == {"left", "right"}
Tree == [root : Link, left : [Node -> Link], right : [Node -> Link],
         parent : [Node -> Link], red : SUBSET Node]
Unlinked == [p \in Node |-> Null]
EmptyTree == [root |-> Null, left |-> Unlinked, right |-> Unlinked,
              parent |-> Unlinked, red |-> {}]

Other(s) == IF s = "left" THEN "right" ELSE "left"
\* The side of p below its parent.
SideOf(t, p) == IF p = t.left[t.parent[p]] THEN "left" ELSE "right"
Sibling(t, p) ==
  IF t.parent[p] = Null THEN Null ELSE t[Other(SideOf(t, p))][t.parent[p]]

\* Nothing happens to the colour of NULL, which is neither red nor black.
Redden(t, p) == [t EXCEPT !.red = @ \cup ({p} \ {Null})]
Blacken(t, p) == [t EXCEPT !.red = @ \ {p}]
BlackKids(t, p) == t.left[p] \notin t.red /\ t.right[p] \notin t.red

\* The blocks in the subtree of every block.
Below(t) ==
  LET From[q \in Link] ==
        IF q = Null THEN {} ELSE {q} \cup From[t.left[q]] \cup From[t.right[q]]
  IN From

-----------------------------------------------------------------------------
\* Let g's pointer to p, or the root, point to n.
Hang(t, g, p, n) ==
  IF g = Null THEN [t EXCEPT !.root = n] ELSE [t EXCEPT ![SideOf(t, p)][g] = n]

\* left_rotation and right_rotation: p goes down to side s, its other child
\* takes its place.
Rotate(t, s, p) ==
  LET n == t[Other(s)][p]
      m == t[s][n]
      u == Hang(t, t.parent[p], p, n)
      v == IF m = Null THEN u ELSE [u EXCEPT !.parent[m] = p]
  IN [v EXCEPT ![Other(s)][p] = m, !.parent[p] = n,
               ![s][n] = p, !.parent[n] = t.parent[p]]

-----------------------------------------------------------------------------
(* insert                                                                  *)

\* insert_bst walks down, to the right for equal sizes.
InsertBst(t, key, p) ==
  LET Way(q) == IF key[p] >= key[q] THEN "right" ELSE "left"
      Last[q \in Node] == IF t[Way(q)][q] = Null THEN q ELSE Last[t[Way(q)][q]]
  IN IF t.root = Null THEN [t EXCEPT !.root = p]
     ELSE LET q == Last[t.root]
          IN [Redden(t, p) EXCEPT ![Way(q)][q] = p, !.parent[p] = q]

\* Straighten a zig-zag of p, its parent and its grandparent, then turn the
\* grandparent down.
InsertCase5(t, p) ==
  LET q == t.parent[p]
      g == t.parent[q]
  IN Rotate(Redden(Blacken(t, q), g), Other(SideOf(t, p)), g)

InsertCase4(t, p) ==
  LET q == t.parent[p]
      s == SideOf(t, q)
  IN IF SideOf(t, p) = s THEN InsertCase5(t, p)
     ELSE InsertCase5(Rotate(t, s, q), q)

\* Cases 1 to 3 climb while parent and uncle are red.
At(t, p) == [t |-> t, p |-> p]
InsertCase1(tree, node) ==
  LET Climb[x \in [t : Tree, p : Node]] ==
        LET t == x.t
            q == t.parent[x.p]
            g == t.parent[q]
            u == Sibling(t, q)
        IN IF q = Null THEN Blacken(t, x.p)
           ELSE IF q \notin t.red THEN t
           ELSE IF u \in t.red THEN Climb[At(Redden(Blacken(Blacken(t, q), u), g), g)]
           ELSE InsertCase4(t, x.p)
  IN Climb[At(tree, node)]

Insert(t, key, p) == InsertCase1(InsertBst(t, key, p), p)

-----------------------------------------------------------------------------
(* delete                                                                  *)

\* copy_node: p and q exchange their places, not their colours.  It is only
\* called for a node and one of its descendants.
CopyNode(t, p, q) ==
  LET Swap(x) == IF x = p THEN q ELSE IF x = q THEN p ELSE x
      Moved(f) == [x \in Node |-> Swap(f[Swap(x)])]
  IN [t EXCEPT !.root = Swap(@), !.left = Moved(@), !.right = Moved(@), !.parent = Moved(@)]

\* Mutant: p keeps its parent pointer.
CutKeepsParent(t, p) ==
  [Hang(t, t.parent[p], p, Null) EXCEPT !.red = @ \ {p}]

\* Take p, which has no child, out of the tree.
Cut(t, p) ==
  [Hang(t, t.parent[p], p, Null) EXCEPT !.parent[p] = Null, !.red = @ \ {p}]

\* Mutant: rotate without changing colours.
DeleteCase2Colourless(t, p) ==
  IF Sibling(t, p) \in t.red THEN Rotate(t, SideOf(t, p), t.parent[p]) ELSE t

\* A red sibling comes up, so that p has a black one.
DeleteCase2(t, p) ==
  LET q == t.parent[p]
      s == Sibling(t, p)
  IN IF s \in t.red THEN Rotate(Blacken(Redden(t, q), s), SideOf(t, p), q) ELSE t

\* A red child on p's side of its black sibling is turned to the far side.
DeleteCase5(t, p) ==
  LET d == SideOf(t, p)
      s == Sibling(t, p)
      near == t[d][s]
  IN IF s # Null /\ s \notin t.red /\ near \in t.red /\ t[Other(d)][s] \notin t.red
     THEN Rotate(Blacken(Redden(t, s), near), Other(d), s) ELSE t

\* The sibling takes the parent's colour and place.
DeleteCase6(t, p) ==
  LET d == SideOf(t, p)
      q == t.parent[p]
      s == Sibling(t, p)
      u == IF q \in t.red THEN Redden(t, s) ELSE Blacken(t, s)
  IN Rotate(Blacken(Blacken(u, q), t[Other(d)][s]), d, q)

\* Cases 1 to 4: the node's subtree misses one black node.
DeleteCase1(tree, node) ==
  LET Climb[x \in [t : Tree, p : Node]] ==
        LET t == DeleteCase2(x.t, x.p)
            q == t.parent[x.p]
            s == Sibling(t, x.p)
        IN IF x.t.parent[x.p] = Null THEN x.t
           ELSE IF s # Null /\ s \notin t.red /\ BlackKids(t, s)
           THEN IF q \in t.red THEN Blacken(Redden(t, s), q) ELSE Climb[At(Redden(t, s), q)]
           ELSE DeleteCase6(DeleteCase5(t, x.p), x.p)
  IN Climb[At(tree, node)]

\* p has at most one child, which is red then.
DeleteOneChild(t, p) ==
  LET c == IF t.left[p] # Null THEN t.left[p] ELSE t.right[p]
  IN IF p \in t.red THEN Cut(t, p)
     ELSE IF c \in t.red THEN Cut(CopyNode(Blacken(t, c), p, c), p)
     ELSE Cut(DeleteCase1(t, p), p)

FindInorderPred(t, p) ==
  LET Rightmost[q \in Node] == IF t.right[q] = Null THEN q ELSE Rightmost[t.right[q]]
  IN Rightmost[t.left[p]]

\* A block with two children changes place and colour with its predecessor.
Delete(t, p) ==
  IF t.left[p] = Null \/ t.right[p] = Null THEN DeleteOneChild(t, p)
  ELSE LET q == FindInorderPred(t, p)
           SwapRed(red) == {x \in Node : IF x = p THEN q \in red
                                         ELSE IF x = q THEN p \in red ELSE x \in red}
       IN DeleteOneChild([CopyNode(t, p, q) EXCEPT !.red = SwapRed(@)], p)

-----------------------------------------------------------------------------
\* find_block: on the way down, the last block that is too large is kept.
\* Sizes count units of 8 bytes: a rest of up to 24 bytes is not split off.
Slack == 3

\* Mutant: take the first block that is large enough.
FindFirst(t, key, size) ==
  LET Fit[q \in Link] ==
        IF q = Null THEN Null ELSE IF key[q] < size THEN Fit[t.right[q]] ELSE q
  IN Fit[t.root]

FindBlock(t, key, size) ==
  LET Best[q \in Link] ==
        IF q = Null THEN Null
        ELSE IF key[q] < size THEN Best[t.right[q]]
        ELSE IF key[q] <= size + Slack THEN q
        ELSE LET smaller == Best[t.left[q]] IN IF smaller = Null THEN q ELSE smaller
  IN Best[t.root]

-----------------------------------------------------------------------------
(* tree_checker, which the programmer calls to look at the tree: the       *)
(* messages it prints.  It compares the black blocks on the way to every   *)
(* block without children with those on the way to the leftmost block.     *)
(* NULL is neither red nor black: an empty tree has no black root.         *)
BlackOnTheLeft(t) ==
  LET Count[q \in Link] ==
        IF q = Null THEN 0 ELSE Count[t.left[q]] + IF q \in t.red THEN 0 ELSE 1
  IN Count[t.root]

Black(t, p) == p # Null /\ p \notin t.red
Children(t, p) == {t.left[p], t.right[p]} \ {Null}
tree_check(t, black_num) ==
  LET Check[x \in [node : Node, black : Nat]] ==
        LET p == x.node
            here == IF p \in t.red THEN x.black ELSE x.black + 1
        IN IF p \in t.red /\ ~BlackKids(t, p) THEN {"red node has child which is not black"}
           ELSE IF Children(t, p) # {}
           THEN UNION {Check[[node |-> c, black |-> here]] : c \in Children(t, p)}
           ELSE IF here = black_num THEN {} ELSE {"black node number to leafs are different"}
  IN IF ~Black(t, t.root) THEN {"root is not black"} ELSE Check[[node |-> t.root, black |-> 0]]

tree_checker(t) == tree_check(t, BlackOnTheLeft(t))
=============================================================================
