------------------------- MODULE RoutingMembership --------------------------
(***************************************************************************)
(* The set of live prefix blocks that routers read                         *)
(* (engine/prefix_cache.py, _PrefixCacheRoutingMembership and              *)
(* routing_snapshot): an immutable balanced search tree, of which each     *)
(* insertion or removal makes a new version that shares the rest with the  *)
(* old one, and a snapshot cached until the next change.  Block ids are    *)
(* numbers, as only their order matters.                                   *)
(***************************************************************************)
EXTENDS Integers, FiniteSets, FiniteSetsExt

CONSTANT Ids

ASSUME RoutingMembershipAssumption == Ids \subseteq Nat /\ IsFiniteSet(Ids)

VARIABLES
  live,        \* ids in the index's blocks
  membership,  \* root and live_blocks of the current tree
  snapshot,    \* _routing_snapshot, NoSnapshot when dropped
  routed       \* the snapshot a router took last, and the ids live at that time

membershipVars == <<live, membership, snapshot, routed>>

Nil == [height |-> 0]
NoSnapshot == [live_blocks |-> -1]

MembershipInit ==
  /\ live = {}
  /\ membership = [root |-> Nil, live_blocks |-> 0]
  /\ snapshot = NoSnapshot
  /\ routed = [tree |-> [root |-> Nil, live_blocks |-> 0], ids |-> {}]

\* _make_routing_membership_node
Node(b, left, right) ==
  [id |-> b, left |-> left, right |-> right, height |-> 1 + Max({left.height, right.height})]

RotateLeft(n) == Node(n.right.id, Node(n.id, n.left, n.right.left), n.right.right)
RotateRight(n) == Node(n.left.id, n.left.left, Node(n.id, n.left.right, n.right))

\* Mutant: the inner grandchild is not rotated out first.
BalanceSingle(n) ==
  CASE n.left.height - n.right.height > 1 -> RotateRight(n)
    [] n.left.height - n.right.height < -1 -> RotateLeft(n)
    [] OTHER -> n

\* _balance_routing_membership
Balance(n) ==
  LET left == IF n.left.left.height < n.left.right.height THEN RotateLeft(n.left) ELSE n.left
      right == IF n.right.right.height < n.right.left.height THEN RotateRight(n.right) ELSE n.right
  IN  CASE n.left.height - n.right.height > 1 -> RotateRight(Node(n.id, left, n.right))
        [] n.left.height - n.right.height < -1 -> RotateLeft(Node(n.id, n.left, right))
        [] OTHER -> n

\* _insert_routing_membership
RECURSIVE Inserted(_, _)
Inserted(n, b) ==
  IF n = Nil THEN Node(b, Nil, Nil)
  ELSE CASE b = n.id -> n
         [] b < n.id -> Balance(Node(n.id, Inserted(n.left, b), n.right))
         [] b > n.id -> Balance(Node(n.id, n.left, Inserted(n.right, b)))

\* _minimum_routing_membership_node
RECURSIVE Minimum(_)
Minimum(n) == IF n.left = Nil THEN n.id ELSE Minimum(n.left)

\* _remove_routing_membership: a node with two children is replaced by its
\* successor.
RECURSIVE Removed(_, _)
Removed(n, b) ==
  IF n = Nil THEN Nil
  ELSE CASE b < n.id -> Balance(Node(n.id, Removed(n.left, b), n.right))
         [] b > n.id -> Balance(Node(n.id, n.left, Removed(n.right, b)))
         [] b = n.id /\ n.left = Nil -> n.right
         [] b = n.id /\ n.left # Nil /\ n.right = Nil -> n.left
         [] OTHER -> LET s == Minimum(n.right) IN Balance(Node(s, n.left, Removed(n.right, s)))

\* contains
RECURSIVE HasId(_, _)
HasId(n, b) ==
  n # Nil /\ (b = n.id \/ HasId(IF b < n.id THEN n.left ELSE n.right, b))

\* Mutant: the cached snapshot outlives an insertion.
InsertKeepsSnapshot(b) ==
  /\ b \notin live
  /\ live' = live \cup {b}
  /\ membership' = [root |-> Inserted(membership.root, b), live_blocks |-> membership.live_blocks + 1]
  /\ UNCHANGED <<snapshot, routed>>

\* insert_block, as far as routing goes (_record_routing_insert).
InsertId(b) ==
  /\ b \notin live
  /\ live' = live \cup {b}
  /\ membership' = [root |-> Inserted(membership.root, b), live_blocks |-> membership.live_blocks + 1]
  /\ snapshot' = NoSnapshot
  /\ UNCHANGED routed

\* Mutant: the successor takes the removed id's place and stays below as well.
RemoveKeepsSuccessor(b) ==
  /\ b \in live
  /\ live' = live \ {b}
  /\ membership' = [root |-> IF membership.root.id = b /\ membership.root.left # Nil
                                /\ membership.root.right # Nil
                             THEN Balance(Node(Minimum(membership.root.right), membership.root.left,
                                               membership.root.right))
                             ELSE Removed(membership.root, b),
                    live_blocks |-> membership.live_blocks - 1]
  /\ snapshot' = NoSnapshot
  /\ UNCHANGED routed

\* _remove_block_from_index (_record_routing_remove).
RemoveId(b) ==
  /\ b \in live
  /\ live' = live \ {b}
  /\ membership' = [root |-> Removed(membership.root, b), live_blocks |-> membership.live_blocks - 1]
  /\ snapshot' = NoSnapshot
  /\ UNCHANGED routed

\* routing_snapshot: built when there is none, then handed out as it is.
RoutingSnapshot ==
  /\ snapshot' = IF snapshot = NoSnapshot THEN membership ELSE snapshot
  /\ routed' = [tree |-> snapshot', ids |-> live]
  /\ UNCHANGED <<live, membership>>

MembershipNext ==
  \/ \E b \in Ids : InsertId(b) \/ RemoveId(b)
  \/ RoutingSnapshot

MembershipSpec == MembershipInit /\ [][MembershipNext]_membershipVars

-----------------------------------------------------------------------------
RECURSIVE NodesOf(_)
NodesOf(n) == IF n = Nil THEN {} ELSE {n} \cup NodesOf(n.left) \cup NodesOf(n.right)

\* The tree stays balanced through any mix of insertions and removals, so a
\* lookup takes logarithmic time (_balance_routing_membership), and the height
\* a node records is its height.
Balanced ==
  \A n \in NodesOf(membership.root) :
    /\ n.height = 1 + Max({n.left.height, n.right.height})
    /\ n.left.height - n.right.height \in -1..1

\* The tree holds the live ids, all of them and once each: contains answers
\* for the index, and the count routing_snapshot compares never makes it raise.
MembershipExact ==
  /\ {b \in Ids : HasId(membership.root, b)} = live
  /\ {n.id : n \in NodesOf(membership.root)} = live
  /\ membership.live_blocks = Cardinality(live)
  /\ Cardinality(NodesOf(membership.root)) = Cardinality(live)

\* What a router got answers for the blocks that were live when it asked, not
\* for an earlier set, and keeps doing so whatever happens to the index after.
SnapshotExact == {b \in Ids : HasId(routed.tree.root, b)} = routed.ids

\* Routers see the live blocks of the moment they asked, through a tree that
\* stays balanced (routing_snapshot, _record_routing_insert and _remove).
RoutingExact == Balanced /\ MembershipExact /\ SnapshotExact

=============================================================================
