----------------------------- MODULE PrefixTree -----------------------------
(***************************************************************************)
(* What the radix backend of the prefix cache promises                     *)
(* (engine/prefix_cache.py, RadixTreeBackend): the set of blocks it holds  *)
(* is closed under parents; a block enters with its ancestors present, and *)
(* only a block without children leaves.  A block id hashes its tokens and *)
(* its parent's id, so a block has one parent, whatever the tree holds.    *)
(***************************************************************************)
EXTENDS Naturals, Sequences, FiniteSets

CONSTANTS
  Blocks,    \* every block id that can occur
  ParentOf,  \* the parent of each; Root for the first block of a prompt
  Root

VARIABLE live

\* Depth of a block: its ancestors up to the root, itself included.
PathOf ==
  LET path[n \in 0..Cardinality(Blocks), b \in Blocks] ==
        IF ParentOf[b] = Root \/ n = 0 THEN <<b>> ELSE Append(path[n - 1, ParentOf[b]], b)
  IN  [b \in Blocks |-> path[Cardinality(Blocks), b]]

Ancestry(b) == {PathOf[b][i] : i \in 1..Len(PathOf[b])}

Children(B, p) == {b \in B : ParentOf[b] = p}

Init == live = {}

\* insert, insert_child: b is present and so is every block before it.
Add(b) == live' = live \cup Ancestry(b)

\* remove_block: only a block without children can go.
Drop(b) ==
  /\ b \in live /\ Children(live, b) = {}
  /\ live' = live \ {b}

Next == \E b \in Blocks : Add(b) \/ Drop(b)

Spec == Init /\ [][Next]_live

=============================================================================
