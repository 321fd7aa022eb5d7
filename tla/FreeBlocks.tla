----------------------------- MODULE FreeBlocks -----------------------------
(***************************************************************************)
(* The free blocks of mm.c as its tree sees them: mm_malloc takes the      *)
(* block that find_block chooses, mm_free puts blocks in and takes the     *)
(* neighbours of a freed block out.  Blocks keep their sizes here; Mm has  *)
(* the heap around the tree, and its splitting and coalescing.             *)
(***************************************************************************)
EXTENDS FreeTree, FiniteSets

CONSTANTS Size,      \* Size[p]: size of block p, in units of 8 bytes
          Wanted     \* block sizes asked for

VARIABLES rbtree,    \* the tree of tree_root
          free       \* the blocks put into it and not yet taken out
blocks_vars == <<rbtree, free>>

BlocksInit == rbtree = EmptyTree /\ free = {}

\* mm_malloc: find_block finds a block and deletes it.
Take(size) ==
  LET p == FindBlock(rbtree, Size, size)
  IN p # Null /\ rbtree' = Delete(rbtree, p) /\ free' = free \ {p}

\* mm_free: insert the freed block.
PutBack(p) == p \notin free /\ rbtree' = Insert(rbtree, Size, p) /\ free' = free \cup {p}

\* mm_free: delete a neighbour that is free.
Join(p) == p \in free /\ rbtree' = Delete(rbtree, p) /\ free' = free \ {p}

BlocksNext == \/ \E size \in Wanted : Take(size)
              \/ \E p \in Node : PutBack(p) \/ Join(p)
BlocksSpec == BlocksInit /\ [][BlocksNext]_blocks_vars

-----------------------------------------------------------------------------
(* The state is well formed, and a block outside the tree has no links     *)
(* left (lines 821-823, 839-841, 866-868 reset them) and no colour.        *)
BlocksTypeOK ==
  /\ rbtree \in Tree /\ free \subseteq Node /\ rbtree.red \subseteq free
  /\ \A p \in Node \ free :
       rbtree.left[p] = Null /\ rbtree.right[p] = Null /\ rbtree.parent[p] = Null

(* No block is lost or kept by the rotations and exchanges of insert and   *)
(* delete: the tree holds exactly the free blocks, each below its parent.  *)
HoldsFree ==
  /\ Below(rbtree)[rbtree.root] = free
  /\ rbtree.root # Null => rbtree.parent[rbtree.root] = Null
  /\ \A p \in free, s \in Side :
       rbtree[s][p] # Null => rbtree.parent[rbtree[s][p]] = p /\ SideOf(rbtree, rbtree[s][p]) = s

(* Search order.  Insertion goes right at equal sizes, but a rotation may  *)
(* bring them to the left.                                                 *)
Ordered == \A p \in free : /\ \A q \in Below(rbtree)[rbtree.left[p]] : Size[q] <= Size[p]
                           /\ \A q \in Below(rbtree)[rbtree.right[p]] : Size[q] >= Size[p]

(* "Insert block ... (Red Black property does not break.)" (line 385) and  *)
(* "perform red black property restoration" (line 942): a black root, no   *)
(* red block below a red one, equally many black blocks on all paths.      *)
BlackDepths[q \in Link] ==
  IF q = Null THEN {0}
  ELSE LET own == IF q \in rbtree.red THEN 0 ELSE 1
       IN {own + d : d \in BlackDepths[rbtree.left[q]] \cup BlackDepths[rbtree.right[q]]}
RedBlack == /\ rbtree.root \notin rbtree.red
            /\ \A p \in rbtree.red : BlackKids(rbtree, p)
            /\ Cardinality(BlackDepths[rbtree.root]) = 1

(* "verify given RB tree" (line 1409): of the trees that insert and delete *)
(* leave, tree_checker complains of the empty one, whose root it takes for *)
(* not black (get_color(NULL) is -1), and of no other.  If one block of a  *)
(* tree has the wrong colour, it sees a red root, a red block below a red  *)
(* one, and blocks without children at different black depths; it is blind *)
(* to a path that ends at a block with one child.                          *)
LeafDepths(t) ==
  LET Depths[q \in Node] ==
        LET own == IF q \in t.red THEN 0 ELSE 1
            kids == Children(t, q)
        IN {own + d : d \in IF kids = {} THEN {0} ELSE UNION {Depths[c] : c \in kids}}
  IN Depths[t.root]
CheckerSees(t) ==
  \/ t.root = Null \/ t.root \in t.red
  \/ \E p \in t.red : ~BlackKids(t, p)
  \/ LeafDepths(t) # {BlackOnTheLeft(t)}
Checked ==
  /\ tree_checker(rbtree) = {} <=> free # {}
  /\ \A p \in free : LET t == [rbtree EXCEPT !.red = (@ \ {p}) \cup ({p} \ @)]
                     IN (tree_checker(t) # {}) = CheckerSees(t)

(* The comment of find_block (lines 1297-1298): a block that need not be   *)
(* split if there is one, else the smallest that is large enough; none     *)
(* only if none is large enough.                                           *)
BestFit == \A size \in Wanted :
  LET p == FindBlock(rbtree, Size, size)
      enough == {q \in free : Size[q] >= size}
      good == {q \in enough : Size[q] <= size + Slack}
  IN IF enough = {} THEN p = Null
     ELSE IF good # {} THEN p \in good
     ELSE p \in enough /\ \A q \in enough : Size[p] <= Size[q]

=============================================================================
