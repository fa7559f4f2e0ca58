----------------------------- MODULE ChainIndex -----------------------------
(***************************************************************************)
(* The chain cache of one engine (engine/chain_cache.py, ChainCacheIndex): *)
(* a chain is a conversation whose KV stays resident between turns, with   *)
(* one writer at a time.  An index is a record: rec, the chains it holds;  *)
(* lru, the same chains by last access; tomb, the ids of chains that are   *)
(* gone, oldest first and bounded.  Token histories and slots are left     *)
(* out: capacity is the number of resident rows.                           *)
(***************************************************************************)
EXTENDS Integers, Sequences, FiniteSets, SequencesExt

CONSTANTS
  MaxTombstones,  \* chain_cache_max_tombstones
  MaxRows         \* chains that can be resident at once (max_num_seqs_in_gpu)

NewIndex == [rec |-> <<>>, lru |-> <<>>, tomb |-> <<>>]

\* c moved to the end, or added there: it is the most recent one now.
Touch(s, c) == Append(RemoveFirst(s, c), c)
Drop(f, S) == [k \in DOMAIN f \ S |-> f[k]]

InState(i, state) == {c \in DOMAIN i.rec : i.rec[c].state = state}

\* The chains a routing snapshot names.
Known(i) == DOMAIN i.rec \cup Range(i.tomb)

\* routing_snapshot
Snapshot(i) == [active |-> InState(i, "active"), idle |-> InState(i, "idle"), tomb |-> Range(i.tomb)]

\* Mutant: no bound.
TombstonesKept(tomb, c) == Touch(tomb, c)

\* _add_tombstone
AddTombstone(tomb, c) ==
  LET longer == Touch(tomb, c)
  IN  IF Len(longer) > MaxTombstones THEN Tail(longer) ELSE longer

\* invalidate, and evict of an idle chain
Invalidate(i, c) ==
  [rec |-> Drop(i.rec, {c}), lru |-> RemoveFirst(i.lru, c), tomb |-> AddTombstone(i.tomb, c)]

\* Mutant: chains in use are candidates too.
AnyResident(i) == DOMAIN i.rec

\* What may be evicted, and the first of it by last access (idle_resident_lru)
IdleResident(i) == InState(i, "idle")
LeastRecent(i) == i.lru[Min({k \in DOMAIN i.lru : i.lru[k] \in IdleResident(i)})]

\* One idle chain reclaimed for capacity (chain_reclaim_idle).
Reclaimed(i) == Invalidate(i, LeastRecent(i))

\* Whether _plan_admission finds a row for a new chain, and the chain evicted
\* for it.
HasRow(i) == Cardinality(DOMAIN i.rec) < MaxRows
CanAdmit(i) == HasRow(i) \/ IdleResident(i) # {}
Evicted(i) == IF HasRow(i) THEN i ELSE Reclaimed(i)

\* _set_record_state and last_access
SetState(i, c, state) ==
  [rec |-> [i.rec EXCEPT ![c].state = state], lru |-> Touch(i.lru, c), tomb |-> i.tomb]

\* finish, for the chains of a sequence, one after the other
Idled(i, order) ==
  [rec |-> [c \in DOMAIN i.rec |-> IF c \in Range(order) THEN [i.rec[c] EXCEPT !.state = "idle"] ELSE i.rec[c]],
   lru |-> FoldLeft(Touch, i.lru, order), tomb |-> i.tomb]

\* apply_admission of a plan with status created
Create(i, c, seq) ==
  LET j == Evicted(i)
  IN  [j EXCEPT !.rec = [d \in DOMAIN @ \cup {c} |-> IF d = c THEN [seq |-> seq, state |-> "active"] ELSE @[d]],
                !.lru = Append(@, c)]

\* seq_id_to_chain_id, and what becomes of the chain when its request is aborted
ChainsOf(i, seq) == {c \in DOMAIN i.rec : i.rec[c].seq = seq}
InvalidateOf(i, seq) ==
  IF ChainsOf(i, seq) = {} THEN i ELSE Invalidate(i, CHOOSE c \in ChainsOf(i, seq) : TRUE)

=============================================================================
