----------------------------- MODULE RadixTree ------------------------------
(***************************************************************************)
(* The radix backend of the prefix cache (engine/prefix_cache.py,          *)
(* RadixTreeBackend).  An edge carries a segment of one or more block ids; *)
(* it is split when a branch starts inside it and shrinks when its last    *)
(* block is removed, and edges are never merged.  Beside the edges the     *)
(* backend keeps where each block is and which blocks are leaves.  A node  *)
(* is named by the first block of its segment, the key under which its     *)
(* parent keeps it.                                                        *)
(***************************************************************************)
EXTENDS Naturals, Sequences, FiniteSets, SequencesExt

CONSTANTS
  Blocks,    \* every block id that can occur
  ParentOf,  \* the parent of each (its id hashes the parent's id)
  Root

ASSUME RadixTreeAssumption ==
  /\ IsFiniteSet(Blocks) /\ Root \notin Blocks
  /\ ParentOf \in [Blocks -> Blocks \cup {Root}]

VARIABLE tree

Empty == [n \in {} |-> <<>>]
RootKids == [n \in {Root} |-> {}]

Init == tree = [seg |-> Empty, par |-> Empty, kids |-> RootKids, loc |-> Empty, leaves |-> {}]

Abs == INSTANCE PrefixTree WITH live <- DOMAIN tree.loc

\* f with g laid over it.
Over(f, g) == [x \in DOMAIN f \cup DOMAIN g |-> IF x \in DOMAIN g THEN g[x] ELSE f[x]]

\* _index_segment
IndexSegment(loc, n, s) ==
  Over(loc, [b \in ToSet(s) |-> [node |-> n, index |-> CHOOSE i \in DOMAIN s : s[i] = b]])

\* _add_leaf
AddLeaf(t, n) ==
  IF n # Root /\ t.kids[n] = {} THEN [t EXCEPT !.leaves = @ \cup {Last(t.seg[n])}] ELSE t

\* _discard_leaf
DiscardLeaf(t, n) == IF n = Root THEN t ELSE [t EXCEPT !.leaves = @ \ {Last(t.seg[n])}]

\* A new node below n, indexed and a leaf.
NewChild(t, n, s) ==
  LET m == s[1]
  IN  AddLeaf([t EXCEPT !.seg = Over(@, [k \in {m} |-> s]),
                        !.par = Over(@, [k \in {m} |-> n]),
                        !.kids = Over(@, [k \in {m, n} |-> IF k = m THEN {} ELSE @[n] \cup {m}]),
                        !.loc = IndexSegment(@, m, s)], m)

\* Mutant: the second half of a split edge is not indexed again.
SplitKeepsIndex(t, n, i) ==
  IF i = Len(t.seg[n]) THEN t
  ELSE LET suffix == SubSeq(t.seg[n], i + 1, Len(t.seg[n]))
           m == suffix[1]
       IN  [t EXCEPT !.seg = Over(@, [k \in {m, n} |-> IF k = m THEN suffix ELSE SubSeq(@[n], 1, i)]),
                     !.par = [k \in DOMAIN @ \cup {m} |->
                                IF k = m THEN n ELSE IF k \in t.kids[n] THEN m ELSE @[k]],
                     !.kids = Over(@, [k \in {m, n} |-> IF k = m THEN @[n] ELSE {m}])]

\* _split_after, and the split inside insert: n keeps the first i blocks, a
\* node below it takes the rest and the children.
SplitAfter(t, n, i) ==
  IF i = Len(t.seg[n]) THEN t
  ELSE LET suffix == SubSeq(t.seg[n], i + 1, Len(t.seg[n]))
           m == suffix[1]
       IN  [t EXCEPT !.seg = Over(@, [k \in {m, n} |-> IF k = m THEN suffix ELSE SubSeq(@[n], 1, i)]),
                     !.par = [k \in DOMAIN @ \cup {m} |->
                                IF k = m THEN n ELSE IF k \in t.kids[n] THEN m ELSE @[k]],
                     !.kids = Over(@, [k \in {m, n} |-> IF k = m THEN @[n] ELSE {m}]),
                     !.loc = IndexSegment(@, m, suffix)]

-----------------------------------------------------------------------------
(* Operations that change the tree                                         *)

\* insert_child.  The index has checked that the parent is present.
InsertChild(b) ==
  /\ b \notin DOMAIN tree.loc
  /\ ParentOf[b] \in DOMAIN tree.loc \cup {Root}
  /\ tree' =
       IF ParentOf[b] = Root THEN NewChild(tree, Root, <<b>>)
       ELSE LET at == tree.loc[ParentOf[b]]
                split == SplitAfter(tree, at.node, at.index)
            IN  NewChild(IF split.kids[at.node] = {} THEN DiscardLeaf(split, at.node) ELSE split,
                         at.node, <<b>>)

\* Where the walk down along path leaves the tree: the last node reached, how
\* many blocks of the path match, and how many of them in the next segment.
RECURSIVE Walk(_, _, _, _)
Walk(t, n, path, hit) ==
  IF hit = Len(path) \/ path[hit + 1] \notin t.kids[n]
  THEN [node |-> n, hit |-> hit, common |-> 0]
  ELSE LET m == path[hit + 1]
           common == Len(LongestCommonPrefix({t.seg[m], SubSeq(path, hit + 1, Len(path))}))
       IN  IF common = Len(t.seg[m]) THEN Walk(t, m, path, hit + common)
           ELSE [node |-> n, hit |-> hit, common |-> common]

\* insert: the path is followed, the edge it leaves is split, and what remains
\* of it becomes one new edge.
InsertPath(path) ==
  LET w == Walk(tree, Root, path, 0)
      m == path[w.hit + 1]
      done == w.hit + w.common
      split == IF w.common = 0 THEN tree ELSE SplitAfter(tree, m, w.common)
      at == IF w.common = 0 THEN w.node ELSE m
  IN  /\ w.hit < Len(path)
      /\ tree' = IF done = Len(path) THEN split
                 ELSE NewChild(IF split.kids[at] = {} THEN DiscardLeaf(split, at) ELSE split,
                               at, SubSeq(path, done + 1, Len(path)))

\* Mutant: the block before the removed one never becomes a leaf again.
RemoveForgetsLeaf(b) ==
  /\ b \in DOMAIN tree.loc
  /\ LET at == tree.loc[b]
         s == tree.seg[at.node]
         gone == [tree EXCEPT !.loc = [k \in DOMAIN @ \ {b} |-> @[k]], !.leaves = @ \ {b}]
     IN  /\ at.index = Len(s) /\ tree.kids[at.node] = {}
         /\ tree' = IF Len(s) > 1 THEN [gone EXCEPT !.seg[at.node] = Front(s)]
                    ELSE [gone EXCEPT !.seg = [k \in DOMAIN @ \ {at.node} |-> @[k]],
                                      !.par = [k \in DOMAIN @ \ {at.node} |-> @[k]],
                                      !.kids = [k \in DOMAIN @ \ {at.node} |-> @[k] \ {at.node}]]

\* Mutant: the last block of a segment is removed although edges start below it.
RemoveInnerBlock(b) ==
  /\ b \in DOMAIN tree.loc
  /\ LET at == tree.loc[b]
         s == tree.seg[at.node]
     IN  /\ at.index = Len(s) /\ Len(s) > 1
         /\ tree' = [tree EXCEPT !.loc = [k \in DOMAIN @ \ {b} |-> @[k]], !.leaves = @ \ {b},
                                 !.seg[at.node] = Front(s)]

\* remove_block: raises, and changes nothing, unless the block is a leaf.
RemoveBlock(b) ==
  /\ b \in DOMAIN tree.loc
  /\ LET at == tree.loc[b]
         s == tree.seg[at.node]
         up == tree.par[at.node]
         gone == [tree EXCEPT !.loc = [k \in DOMAIN @ \ {b} |-> @[k]], !.leaves = @ \ {b}]
     IN  /\ at.index = Len(s) /\ tree.kids[at.node] = {}
         /\ tree' = IF Len(s) > 1 THEN AddLeaf([gone EXCEPT !.seg[at.node] = Front(s)], at.node)
                    ELSE AddLeaf([gone EXCEPT !.seg = [k \in DOMAIN @ \ {at.node} |-> @[k]],
                                              !.par = [k \in DOMAIN @ \ {at.node} |-> @[k]],
                                              !.kids = [k \in DOMAIN @ \ {at.node} |-> @[k] \ {at.node}]],
                                 up)

Next ==
  \E b \in Blocks :
    \/ InsertChild(b)
    \/ InsertPath(Abs!PathOf[b])
    \/ RemoveBlock(b)

Spec == Init /\ [][Next]_tree

-----------------------------------------------------------------------------
(* What callers read                                                       *)

\* Mutant: a path that ends inside a segment counts the whole segment.
LookupWholeSegment(t, path) ==
  LET w == Walk(t, Root, path, 0)
  IN  w.hit + (IF w.common > 0 THEN Len(t.seg[path[w.hit + 1]]) ELSE 0)

\* lookup: how many blocks of the path are held.
Lookup(t, path) == LET w == Walk(t, Root, path, 0) IN w.hit + w.common

\* path_to_block
RECURSIVE PathToNode(_, _)
PathToNode(t, n) == IF n = Root THEN <<>> ELSE PathToNode(t, t.par[n]) \o t.seg[n]

PathToBlock(t, b) ==
  PathToNode(t, t.par[t.loc[b].node]) \o SubSeq(t.seg[t.loc[b].node], 1, t.loc[b].index)

\* subtree_block_ids
RECURSIVE BelowNode(_, _)
BelowNode(t, n) == ToSet(t.seg[n]) \cup UNION {BelowNode(t, m) : m \in t.kids[n]}

SubtreeBlockIds(t, b) ==
  LET at == t.loc[b]
  IN  {t.seg[at.node][i] : i \in at.index..Len(t.seg[at.node])}
      \cup UNION {BelowNode(t, m) : m \in t.kids[at.node]}

\* child_block_ids
ChildBlockIds(t, b) ==
  LET at == t.loc[b]
  IN  IF at.index < Len(t.seg[at.node]) THEN {t.seg[at.node][at.index + 1]}
      ELSE {t.seg[m][1] : m \in t.kids[at.node]}

\* child_count
ChildCount(t, b) ==
  LET at == t.loc[b]
  IN  IF at.index < Len(t.seg[at.node]) THEN 1 ELSE Cardinality(t.kids[at.node])

-----------------------------------------------------------------------------
(* Properties                                                              *)

Held == DOMAIN tree.loc

\* Every node is reached from its parent and only from it, and the location of
\* a block is where the block is (the fields RadixTreeBackend keeps in step).
TypeOK ==
  /\ DOMAIN tree.seg = DOMAIN tree.par /\ DOMAIN tree.kids = DOMAIN tree.seg \cup {Root}
  /\ \A n \in DOMAIN tree.seg : tree.seg[n] # <<>> /\ tree.seg[n][1] = n
  /\ \A n \in DOMAIN tree.kids : tree.kids[n] = {m \in DOMAIN tree.par : tree.par[m] = n}
  /\ \A b \in Held : LET s == tree.seg[tree.loc[b].node]
                        i == tree.loc[b].index
                    IN  i \in DOMAIN s /\ s[i] = b

\* lookup finds the longest prefix of a prompt of which every block is held,
\* however the edges were cut and in whatever order they came and went.
LookupIsLongest ==
  \A b \in Blocks :
    LET path == Abs!PathOf[b]
        hit == Lookup(tree, path)
    IN  /\ hit <= Len(path) /\ \A i \in 1..hit : path[i] \in Held
        /\ hit < Len(path) => path[hit + 1] \notin Held

\* The views eviction, deletion and attach work from (leaf_block_ids,
\* child_block_ids, child_count, path_to_block, subtree_block_ids) are those
\* of the tree of held blocks.
ViewsExact ==
  /\ tree.leaves = {b \in Held : Abs!Children(Held, b) = {}}
  /\ \A b \in Held :
       /\ ChildBlockIds(tree, b) = Abs!Children(Held, b)
       /\ ChildCount(tree, b) = Cardinality(Abs!Children(Held, b))
       /\ PathToBlock(tree, b) = Abs!PathOf[b]
       /\ SubtreeBlockIds(tree, b) = {c \in Held : b \in Abs!Ancestry(c)}

\* The backend implements PrefixTree: blocks enter below blocks that are there
\* and leave from the leaves.
ImplementsPrefixTree == Abs!Spec

\* Edges, locations and leaves describe one tree, that of the held blocks.
TreeExact == TypeOK /\ ViewsExact

=============================================================================
