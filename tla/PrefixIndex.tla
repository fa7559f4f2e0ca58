---------------------------- MODULE PrefixIndex -----------------------------
(***************************************************************************)
(* The index of the prefix cache (engine/prefix_cache.py,                  *)
(* RadixPrefixIndex): cached KV blocks in a tree, each with the references *)
(* of the requests that use it, an eviction priority, and a payload on the *)
(* device, on the host, or on its way between them.  The index keeps the   *)
(* set of freeable blocks incrementally, and answers capacity questions    *)
(* from views cached under an epoch.  The tree is the set of live blocks   *)
(* closed under parents, which RadixTree implements.                       *)
(*                                                                         *)
(* The callers of the index are requests.  A request holds references      *)
(* along its own prompt from the root down: attach takes the blocks that   *)
(* are there, publishing adds the next one (already referenced) or takes   *)
(* the one another request has published, finishing gives all back.        *)
(***************************************************************************)
EXTENDS Integers, Sequences, FiniteSets, SequencesExt

CONSTANTS
  Blocks,     \* every block id that can occur
  ParentOf,   \* its parent, Root for the first block of a prompt
  Root,
  PathOf,     \* the blocks from the root to each block
  Requests,
  PromptOf,   \* the last block of each request's prompt
  MaxBlocks,  \* max_blocks
  Offload,    \* blocks may be backed up to the host
  Queries     \* the capacity views the configuration asks for

ViewNames == {"freeable", "evictable", "device_freeable", "device_reclaimable"}

ASSUME PrefixIndexAssumption ==
  /\ Root \notin Blocks /\ IsFiniteSet(Requests)
  /\ ParentOf \in [Blocks -> Blocks \cup {Root}]
  /\ PathOf \in [Blocks -> Seq(Blocks)]
  /\ PromptOf \in [Requests -> Blocks]
  /\ MaxBlocks \in Nat /\ Offload \in BOOLEAN /\ Queries \subseteq ViewNames

\* The path of a block goes through its parent.
ASSUME PathAssumption ==
  \A b \in Blocks :
    /\ PathOf[b] # <<>> /\ PathOf[b][Len(PathOf[b])] = b
    /\ IF ParentOf[b] = Root THEN Len(PathOf[b]) = 1
       ELSE PathOf[b] = Append(PathOf[ParentOf[b]], b)

VARIABLES
  blocks,  \* ids in the index
  meta,    \* reference count, priority and residency of each block
  frees,   \* _freeable_ids and _blocked_freeable_children, once built
  views,   \* capacity views: fresh ones have the epoch of the index
  held,    \* blocks each request holds a reference on
  memo     \* the hit count each request's lookup memo remembers, -1 for none

vars == <<blocks, meta, frees, views, held, memo>>

Gone == [ref |-> 0, pinned |-> FALSE, dev |-> FALSE, host |-> FALSE, xfer |-> "none"]

NoView == [fresh |-> FALSE, ids |-> {}]
Stale == [v \in ViewNames |-> NoView]

Init ==
  /\ blocks = {}
  /\ meta = [b \in Blocks |-> Gone]
  /\ frees = [built |-> FALSE, ids |-> {}, kids |-> [b \in Blocks |-> 0]]
  /\ views = Stale
  /\ held = [r \in Requests |-> {}]
  /\ memo = [r \in Requests |-> -1]

-----------------------------------------------------------------------------
Ancestry(b) == {PathOf[b][i] : i \in DOMAIN PathOf[b]}
Kids(b) == {c \in blocks : ParentOf[c] = b}
DeviceKids(b) == {c \in Kids(b) : meta[c].dev}

\* Nothing about the block itself keeps it in the cache.
Free(m) == m.ref = 0 /\ ~m.pinned /\ m.xfer = "none"

\* Mutant: a change stops at the block itself.
RefreshBlockOnly(f, m, b) ==
  LET is == f.kids[b] = 0 /\ Free(m[b])
  IN  IF ~f.built THEN f
      ELSE [f EXCEPT !.ids = IF is THEN @ \cup {b} ELSE @ \ {b}]

\* One round of _refresh_freeable_path, at block c.
Climb(m, acc, c) ==
  LET was == c \in acc.ids
      is == acc.kids[c] = 0 /\ Free(m[c])
  IN  IF acc.stop \/ is = was THEN [acc EXCEPT !.stop = TRUE]
      ELSE [stop |-> FALSE,
            ids |-> IF is THEN acc.ids \cup {c} ELSE acc.ids \ {c},
            kids |-> IF ParentOf[c] = Root THEN acc.kids
                     ELSE [acc.kids EXCEPT ![ParentOf[c]] = IF is THEN @ - 1 ELSE @ + 1]]

\* _refresh_freeable_path: from b up, as long as something changes.
Refresh(f, m, b) ==
  LET up == FoldLeft(LAMBDA acc, c : Climb(m, acc, c),
                     [stop |-> FALSE, ids |-> f.ids, kids |-> f.kids], Reverse(PathOf[b]))
  IN  IF f.built THEN [f EXCEPT !.ids = up.ids, !.kids = up.kids] ELSE f

\* A change to one block that can move capacity: the freeable set follows and
\* every view is out of date (_refresh_freeable_path, _mark_capacity_mutated).
Change(b, m) ==
  /\ meta' = [meta EXCEPT ![b] = m]
  /\ frees' = Refresh(frees, meta', b)
  /\ views' = Stale

-----------------------------------------------------------------------------
(* References                                                              *)

\* set_block_ref_count: only the first and the last reference move capacity.
SetRefCount(b, n) ==
  /\ IF (meta[b].ref = 0) # (n = 0) THEN Change(b, [meta[b] EXCEPT !.ref = n])
     ELSE meta' = [meta EXCEPT ![b].ref = n] /\ UNCHANGED <<frees, views>>
  /\ UNCHANGED blocks

\* The next block of r's prompt: r holds every block before it and no other.
NextBlock(r, b) ==
  /\ b \in Ancestry(PromptOf[r])
  /\ held[r] = Ancestry(b) \ {b}

\* acquire_block_ref, by an attach or by a request that computed the block again.
Acquire(r, b) ==
  /\ NextBlock(r, b) /\ b \in blocks
  /\ SetRefCount(b, meta[b].ref + 1)
  /\ held' = [held EXCEPT ![r] = @ \cup {b}]
  /\ UNCHANGED memo

\* release_block_ref; the lookup memo of a released request is discarded.
Release(r, b) ==
  /\ b \in held[r]
  /\ SetRefCount(b, meta[b].ref - 1)
  /\ held' = [held EXCEPT ![r] = @ \ {b}]
  /\ memo' = [memo EXCEPT ![r] = -1]

-----------------------------------------------------------------------------
(* Insertion and removal                                                   *)

\* insert_block: what was counted as freeable may not be any more.  The new
\* block carries a reference, so only its parent's state matters.
CapacityChanged(b) == ParentOf[b] # Root /\ Free(meta[ParentOf[b]])

\* The freeable set learns of a new child, absent from the set.
FreesWith(b, m) ==
  LET p == ParentOf[b]
      counted == IF p = Root THEN frees ELSE [frees EXCEPT !.kids[p] = @ + 1]
      self == Refresh(counted, m, b)
  IN  IF ~frees.built THEN frees ELSE IF p = Root THEN self ELSE Refresh(self, m, p)

\* insert_block of a new device block; raises when the index is full, the
\* parent is missing or only the host has it.
InsertBlock(r, b) ==
  /\ NextBlock(r, b) /\ b \notin blocks
  /\ Cardinality(blocks) < MaxBlocks
  /\ ParentOf[b] # Root => ParentOf[b] \in blocks /\ meta[ParentOf[b]].dev
  /\ blocks' = blocks \cup {b}
  /\ meta' = [meta EXCEPT ![b] = [Gone EXCEPT !.ref = 1, !.dev = TRUE]]
  /\ frees' = FreesWith(b, meta')
  /\ views' = IF CapacityChanged(b) THEN Stale ELSE views
  /\ held' = [held EXCEPT ![r] = @ \cup {b}]
  /\ UNCHANGED memo

\* The freeable set forgets a block.
FreesWithout(b, m) ==
  LET p == ParentOf[b]
      out == [frees EXCEPT !.ids = @ \ {b}, !.kids[b] = 0]
  IN  IF ~frees.built THEN frees
      ELSE IF b \in frees.ids \/ p = Root THEN out
      ELSE Refresh([out EXCEPT !.kids[p] = @ - 1], m, p)

\* can_evict, and the checks of _remove_block_from_index.
Removable(b) == b \in blocks /\ Free(meta[b]) /\ Kids(b) = {}

\* Mutant: a block is removed without looking at its references.
RemoveReferenced(b) ==
  /\ b \in blocks /\ ~meta[b].pinned /\ meta[b].xfer = "none" /\ Kids(b) = {}
  /\ blocks' = blocks \ {b}
  /\ meta' = [meta EXCEPT ![b] = Gone]
  /\ frees' = FreesWithout(b, meta')
  /\ views' = Stale
  /\ UNCHANGED <<held, memo>>

\* _remove_block_from_index: one round of evict_until_weight, of
\* evict_host_until_weight or of safe_delete_subtree, or rollback_inserted_leaf.
RemoveBlock(b) ==
  /\ Removable(b)
  /\ blocks' = blocks \ {b}
  /\ meta' = [meta EXCEPT ![b] = Gone]
  /\ frees' = FreesWithout(b, meta')
  /\ views' = Stale
  /\ UNCHANGED <<held, memo>>

-----------------------------------------------------------------------------
(* Residency                                                               *)

\* begin_d2h: the host keeps whole prefixes, so the parent is there or coming.
BeginD2H(b) ==
  /\ Offload /\ b \in blocks
  /\ meta[b].ref = 0 /\ ~meta[b].host /\ meta[b].xfer = "none"
  /\ ParentOf[b] # Root => meta[ParentOf[b]].host \/ meta[ParentOf[b]].xfer = "D2H"
  /\ Change(b, [meta[b] EXCEPT !.xfer = "D2H"])
  /\ UNCHANGED <<blocks, held, memo>>

\* finish_d2h; raises when the parent is not on the host.
FinishD2H(b) ==
  /\ b \in blocks /\ meta[b].xfer = "D2H"
  /\ ParentOf[b] # Root => meta[ParentOf[b]].host
  /\ Change(b, [meta[b] EXCEPT !.host = TRUE, !.xfer = "none"])
  /\ UNCHANGED <<blocks, held, memo>>

\* Mutant: the capacity views survive an aborted backup.
AbortD2HQuietly(b) ==
  /\ b \in blocks /\ meta[b].xfer = "D2H"
  /\ meta' = [meta EXCEPT ![b].xfer = "none"]
  /\ frees' = Refresh(frees, meta', b)
  /\ UNCHANGED <<blocks, views, held, memo>>

\* abort_d2h
AbortD2H(b) ==
  /\ b \in blocks /\ meta[b].xfer = "D2H"
  /\ Change(b, [meta[b] EXCEPT !.xfer = "none"])
  /\ UNCHANGED <<blocks, held, memo>>

\* begin_h2d, for a block an attach has taken a reference on.
BeginH2D(b) ==
  /\ b \in blocks /\ \E r \in Requests : b \in held[r]
  /\ ~meta[b].dev /\ meta[b].host /\ meta[b].xfer = "none"
  /\ ParentOf[b] # Root => meta[ParentOf[b]].dev
  /\ Change(b, [meta[b] EXCEPT !.dev = TRUE, !.xfer = "H2D"])
  /\ UNCHANGED <<blocks, held, memo>>

\* finish_h2d
FinishH2D(b) ==
  /\ b \in blocks /\ meta[b].xfer = "H2D"
  /\ Change(b, [meta[b] EXCEPT !.xfer = "none"])
  /\ UNCHANGED <<blocks, held, memo>>

\* abort_h2d; raises when a child on the device depends on the block.
AbortH2D(b) ==
  /\ b \in blocks /\ meta[b].xfer = "H2D" /\ DeviceKids(b) = {}
  /\ Change(b, [meta[b] EXCEPT !.dev = FALSE, !.xfer = "none"])
  /\ UNCHANGED <<blocks, held, memo>>

\* Mutant: a block leaves the device before its children.
DemoteInner(b) ==
  /\ b \in blocks /\ Free(meta[b]) /\ meta[b].dev /\ meta[b].host
  /\ meta' = [meta EXCEPT ![b].dev = FALSE]
  /\ views' = Stale
  /\ UNCHANGED <<blocks, frees, held, memo>>

\* One round of demote_device_until_weight: the block keeps its host payload.
Demote(b) ==
  /\ b \in blocks /\ Free(meta[b]) /\ meta[b].dev /\ meta[b].host /\ DeviceKids(b) = {}
  /\ meta' = [meta EXCEPT ![b].dev = FALSE]
  /\ views' = Stale
  /\ UNCHANGED <<blocks, frees, held, memo>>

-----------------------------------------------------------------------------
(* Priorities                                                              *)

Subtree(b) == {c \in blocks : b \in Ancestry(c)}

\* subtree_block_ids gives parents before children, siblings in any order.
TopDown(order) ==
  \A i, j \in DOMAIN order : order[i] \in Ancestry(order[j]) => i <= j

\* One round of set_subtree_eviction_priority: block c is pinned or unpinned,
\* and the freeable set follows before the next block changes.
Reprioritise(acc, c, pin) ==
  LET m == [acc.meta EXCEPT ![c].pinned = pin]
  IN  [meta |-> m, frees |-> Refresh(acc.frees, m, c)]

\* set_subtree_eviction_priority: negative priorities pin, others do not; a
\* block whose pin does not change is not refreshed.
SetPriority(b, pin) ==
  /\ b \in blocks
  /\ LET moved == {c \in Subtree(b) : meta[c].pinned # pin}
     IN  /\ moved # {}
         /\ \E order \in SetToSeqs(moved) :
              /\ TopDown(order)
              /\ LET all == FoldLeft(LAMBDA acc, c : Reprioritise(acc, c, pin),
                                     [meta |-> meta, frees |-> frees], order)
                 IN  meta' = all.meta /\ frees' = all.frees
  /\ views' = Stale
  /\ UNCHANGED <<blocks, held, memo>>

-----------------------------------------------------------------------------
(* Questions                                                               *)

\* Blocks removable by repeated removal of leaves.
FreeableIds == {b \in blocks : \A c \in Subtree(b) : Free(meta[c])}

\* evictable_block_ids
EvictableIds == {b \in blocks : Free(meta[b]) /\ Kids(b) = {}}

\* _device_reclaimable_block_ids: blocks repeated demotion can take off the
\* device, now or (pending) after the backups in flight.
DeviceIds(pending) ==
  {b \in blocks :
     meta[b].dev /\ \A c \in Subtree(b) :
       meta[c].dev => /\ meta[c].ref = 0 /\ ~meta[c].pinned
                      /\ \/ meta[c].host /\ meta[c].xfer = "none"
                         \/ pending /\ meta[c].xfer = "D2H"}

ViewOf(v) ==
  CASE v = "freeable" -> FreeableIds
    [] v = "evictable" -> EvictableIds
    [] v = "device_freeable" -> DeviceIds(FALSE)
    [] v = "device_reclaimable" -> DeviceIds(TRUE)

\* The first scan of freeable_block_ids builds the set and the counts.
Built ==
  [built |-> TRUE, ids |-> FreeableIds,
   kids |-> [b \in Blocks |-> IF b \in blocks THEN Cardinality(Kids(b) \ FreeableIds) ELSE 0]]

\* evictable_block_ids, freeable_block_ids, device_freeable_block_ids,
\* device_reclaimable_block_ids: computed unless the cached view has the epoch
\* of the index; freeable copies the incremental set.
Query(v) ==
  /\ ~views[v].fresh
  /\ frees' = IF v = "freeable" /\ ~frees.built THEN Built ELSE frees
  /\ views' = [views EXCEPT ![v] =
                 [fresh |-> TRUE, ids |-> IF v = "freeable" THEN frees'.ids ELSE ViewOf(v)]]
  /\ UNCHANGED <<blocks, meta, held, memo>>

\* lookup_longest_block_ids: the blocks of r's prompt that are live, from the
\* first on.
LongestHit(r) ==
  LET path == PathOf[PromptOf[r]]
  IN  CHOOSE n \in 0..Len(path) :
        /\ \A i \in 1..n : path[i] \in blocks
        /\ n < Len(path) => path[n + 1] \notin blocks

\* Mutant: the memo is trusted as long as its last block is live.
MemoTrusted(r) ==
  LET path == PathOf[PromptOf[r]]
  IN  memo[r] = 0 \/ path[memo[r]] \in blocks

\* lookup_prefix_cache_hit: the memo is used when its last block is live and
\* the one after it is not.
MemoIsCurrent(r) ==
  LET path == PathOf[PromptOf[r]]
  IN  /\ memo[r] = 0 \/ path[memo[r]] \in blocks
      /\ memo[r] = Len(path) \/ path[memo[r] + 1] \notin blocks

\* lookup_prefix_cache_hit, for a request that has not been prefilled.
Lookup(r) ==
  /\ held[r] = {}
  /\ memo[r] # -1 => ~MemoIsCurrent(r)
  /\ memo' = [memo EXCEPT ![r] = LongestHit(r)]
  /\ UNCHANGED <<blocks, meta, frees, views, held>>

Next ==
  \/ \E r \in Requests, b \in Blocks : Acquire(r, b) \/ Release(r, b) \/ InsertBlock(r, b)
  \/ \E b \in Blocks :
       \/ RemoveBlock(b)
       \/ BeginD2H(b) \/ FinishD2H(b) \/ AbortD2H(b)
       \/ BeginH2D(b) \/ FinishH2D(b) \/ AbortH2D(b)
       \/ Demote(b)
       \/ \E pin \in BOOLEAN : SetPriority(b, pin)
  \/ \E v \in Queries : Query(v)
  \/ \E r \in Requests : Lookup(r)

Spec == Init /\ [][Next]_vars

-----------------------------------------------------------------------------
(* Properties                                                              *)

TypeOK ==
  /\ blocks \subseteq Blocks
  /\ meta \in [Blocks -> [ref : Nat, pinned : BOOLEAN, dev : BOOLEAN, host : BOOLEAN,
                          xfer : {"none", "D2H", "H2D"}]]
  /\ \A b \in Blocks \ blocks : meta[b] = Gone
  /\ held \in [Requests -> SUBSET Blocks]

\* A live block has a live parent; what the device holds is a set of whole
\* prefixes and so is what the host holds (a block is inserted, backed up and
\* promoted below its parent, demoted and removed before it).  No live block
\* is without a payload, and a transfer has the payloads it copies between
\* (PrefixBlockResidency.validate never raises).
ResidencyContiguous ==
  \A b \in blocks :
    /\ meta[b].dev \/ meta[b].host
    /\ meta[b].xfer = "D2H" => meta[b].dev /\ ~meta[b].host
    /\ meta[b].xfer = "H2D" => meta[b].dev /\ meta[b].host
    /\ ParentOf[b] # Root => /\ ParentOf[b] \in blocks
                             /\ meta[b].dev => meta[ParentOf[b]].dev
                             /\ meta[b].host => meta[ParentOf[b]].host

\* A block a request holds stays in the index, and its count is the number of
\* requests that hold it (set_block_ref_count never goes negative, no reference
\* leaks).
HeldBlocksLive ==
  /\ \A r \in Requests : held[r] \subseteq blocks
  /\ \A b \in Blocks : meta[b].ref = Cardinality({r \in Requests : b \in held[r]})

\* The incrementally kept set is the set of blocks repeated leaf removal could
\* remove, and the count of each block that of its children outside it,
\* although _refresh_freeable_path stops at the first block that stays as it is.
FreeableExact ==
  frees.built => frees = Built

\* A view the index would answer from without computing it is what computing
\* it would give: admission never counts capacity that is gone, or misses any.
ViewsCurrent ==
  \A v \in ViewNames : views[v].fresh => views[v].ids = ViewOf(v)

\* Whatever came and went since, a memo that passes the two membership tests
\* of lookup_prefix_cache_hit is the longest hit.
MemoSound ==
  \A r \in Requests : memo[r] # -1 /\ MemoIsCurrent(r) => memo[r] = LongestHit(r)

\* What the index answers about capacity is what computing it anew would give
\* (_refresh_freeable_path, the views cached by epoch).
CapacityExact == FreeableExact /\ ViewsCurrent

=============================================================================
