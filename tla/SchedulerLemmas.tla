--------------------------- MODULE SchedulerLemmas ---------------------------
(***************************************************************************)
(* Facts about the operators of Scheduler that the proofs rest on: queues, *)
(* minima, and the sets of token positions whose sizes the KV ledger adds  *)
(* up.                                                                     *)
(***************************************************************************)
EXTENDS Scheduler, FiniteSetTheorems, SequenceTheorems, TLAPS

-----------------------------------------------------------------------------
(* Minima and queues.                                                      *)

\* A non-empty set of naturals has a least element, the one Min chooses.
LEMMA MinOfNaturals ==
  ASSUME NEW S, S \subseteq Nat, S # {}
  PROVE  Min(S) \in S /\ \A x \in S : Min(S) <= x
<1> DEFINE Less == {p \in Nat \X Nat : p[1] < p[2]}
<1>1. IsWellFoundedOn(Less, Nat)
  BY NatLessThanWellFounded, Zenon DEF OpToRel
<1>2. PICK m \in S : \A x \in S : ~(<<x, m>> \in Less)
  <2> HIDE DEF Less
  <2> QED BY <1>1, WFMin, Zenon
<1>3. \A x \in S : m <= x
  <2> SUFFICES ASSUME NEW x \in S, ~(m <= x) PROVE FALSE
    OBVIOUS
  <2>1. x \in Nat /\ m \in Nat /\ x < m OBVIOUS
  <2>2. <<x, m>> \in Less BY <2>1
  <2> QED BY <1>2, <2>2
<1> QED BY <1>3 DEF Min

\* min() of three, as in _eligible_decode_batch.
LEMMA MinOfThree ==
  ASSUME NEW a \in Int, NEW b \in Int, NEW c \in Int
  PROVE  /\ Min({a, b, c}) \in {a, b, c}
         /\ Min({a, b, c}) <= a /\ Min({a, b, c}) <= b /\ Min({a, b, c}) <= c
<1>1. \E m \in {a, b, c} : \A x \in {a, b, c} : m <= x
  <2>1. CASE a <= b /\ a <= c BY <2>1
  <2>2. CASE b <= a /\ b <= c BY <2>2
  <2>3. CASE c <= a /\ c <= b BY <2>3
  <2> QED BY <2>1, <2>2, <2>3
<1> QED BY <1>1 DEF Min

\* min() of four, as in _prefill_step_tokens.
LEMMA MinOfFour ==
  ASSUME NEW a \in Int, NEW b \in Int, NEW c \in Int, NEW d \in Int
  PROVE  /\ Min({a, b, c, d}) \in {a, b, c, d}
         /\ Min({a, b, c, d}) <= a /\ Min({a, b, c, d}) <= b
         /\ Min({a, b, c, d}) <= c /\ Min({a, b, c, d}) <= d
<1>1. \E m \in {a, b, c, d} : \A x \in {a, b, c, d} : m <= x
  <2>1. CASE a <= b /\ a <= c /\ a <= d BY <2>1
  <2>2. CASE b <= a /\ b <= c /\ b <= d BY <2>2
  <2>3. CASE c <= a /\ c <= b /\ c <= d BY <2>3
  <2>4. CASE d <= a /\ d <= b /\ d <= c BY <2>4
  <2> QED BY <2>1, <2>2, <2>3, <2>4
<1> QED BY <1>1 DEF Min

\* deque.remove leaves a queue of requests a queue of requests.
LEMMA RemoveFirstType ==
  ASSUME NEW s \in Seq(Req), NEW e
  PROVE  RemoveFirst(s, e) \in Seq(Req)
<1>1. CASE \E i \in 1..Len(s) : s[i] = e
  <2> DEFINE I == {i \in 1..Len(s) : s[i] = e}
  <2>1. I # {} /\ I \subseteq Nat BY <1>1
  <2>2. Min(I) \in 1..Len(s) BY <2>1, MinOfNaturals
  <2>3. RemoveFirst(s, e) = RemoveAt(s, Min(I))
    BY <1>1, <2>1 DEF RemoveFirst, SelectInSeq
  <2> HIDE DEF I
  <2>4. RemoveAt(s, Min(I)) \in Seq(Req)
    BY <2>2, SubSeqProperties, ConcatProperties DEF RemoveAt
  <2> QED BY <2>3, <2>4
<1>2. CASE ~\E i \in 1..Len(s) : s[i] = e
  BY <1>2 DEF RemoveFirst
<1> QED BY <1>1, <1>2

\* The elements of a queue of requests are requests, at most as many as it is
\* long.
LEMMA ToSetType ==
  ASSUME NEW s \in Seq(Req)
  PROVE  /\ ToSet(s) \subseteq Req /\ IsFiniteSet(ToSet(s))
         /\ Cardinality(ToSet(s)) <= Len(s)
<1>1. ToSet(s) \subseteq Req BY DEF ToSet
<1>2. ExistsSurjection(1..Len(s), ToSet(s))
  BY DEF ToSet, ExistsSurjection, Surjection
<1>3. Len(s) \in Nat OBVIOUS
<1> QED BY <1>1, <1>2, <1>3, FS_NatSurjection, FS_SurjCardinalityBound

-----------------------------------------------------------------------------
(* Sets of token positions.                                                *)

\* There are finitely many token positions.
LEMMA TokensFinite == IsFiniteSet(Tokens)
<1>1. MaxModelLen \in Nat /\ IsFiniteSet(Req)
  BY ReqAssumption, SizeAssumption
<1>2. IsFiniteSet(1..MaxModelLen) BY <1>1, FS_Interval
<1> QED BY <1>1, <1>2, FS_Product DEF Tokens

\* Every amount the ledger counts is the size of a finite set.
LEMMA AmountType ==
  ASSUME NEW T, T \subseteq Tokens
  PROVE  IsFiniteSet(T) /\ Cardinality(T) \in Nat
BY TokensFinite, FS_Subset, FS_CardinalityType

\* The amounts themselves, in any state.
LEMMA AmountsType ==
  /\ Outstanding \in Nat /\ ReservedPrefill \in Nat
  /\ IsFiniteSet(Held) /\ Cardinality(Held) \in Nat
  /\ FreeRows \in Int
  /\ \A S : IsFiniteSet(Writes(S)) /\ Cardinality(Writes(S)) \in Nat
<1>1. Outstanding \in Nat
  BY AmountType DEF Outstanding, WindowPromise
<1>2. ReservedPrefill \in Nat
  BY AmountType DEF ReservedPrefill, PrefillPromise
<1>3. IsFiniteSet(Held) /\ Cardinality(Held) \in Nat
  BY AmountType DEF Held
<1>4. FreeRows \in Int
  <2>1. Cardinality({r \in Req : kv[r] > 0}) \in Nat
    BY ReqAssumption, FS_Subset, FS_CardinalityType
  <2> QED BY <2>1, SizeAssumption DEF FreeRows
<1>5. ASSUME NEW S PROVE IsFiniteSet(Writes(S)) /\ Cardinality(Writes(S)) \in Nat
  BY AmountType DEF Writes
<1> QED BY <1>1, <1>2, <1>3, <1>4, <1>5

\* An empty batch writes nothing.
LEMMA NoBatchNoWrites ==
  ASSUME NEW S, S = {}
  PROVE  Cardinality(Writes(S)) = 0
<1>1. Writes(S) = {} BY DEF Writes
<1> QED BY <1>1, FS_EmptySet

\* A batch writes at least what any part of it does.
LEMMA WritesMonotonic ==
  ASSUME NEW S, NEW T, S \subseteq T
  PROVE  Cardinality(Writes(S)) <= Cardinality(Writes(T))
<1>1. Writes(S) \subseteq Writes(T) BY DEF Writes
<1> QED BY <1>1, AmountsType, FS_Subset

\* Positions of pairwise different requests are no more than the requests.
LEMMA OnePositionEach ==
  ASSUME NEW S, IsFiniteSet(S), NEW W, IsFiniteSet(W),
         \A t \in W : t[1] \in S,
         \A t, u \in W : t[1] = u[1] => t = u
  PROVE  Cardinality(W) <= Cardinality(S)
<1> DEFINE f == [t \in W |-> t[1]]
<1>1. f \in Injection(W, S) BY DEF Injection, IsInjective
<1> QED BY <1>1, FS_Injection

\* One more request with n tokens adds at most n positions.
LEMMA AddedPositions ==
  ASSUME NEW W, IsFiniteSet(W), NEW V, NEW r, NEW a \in Nat, NEW n \in Nat,
         V \subseteq W \cup ({r} \X ((a + 1)..(a + n)))
  PROVE  Cardinality(V) <= Cardinality(W) + n
<1> DEFINE I == (a + 1)..(a + n)
<1>1. IsFiniteSet(I) /\ Cardinality(I) = n BY FS_Interval
<1>2. IsFiniteSet({r}) /\ Cardinality({r}) = 1 BY FS_Singleton
<1> HIDE DEF I
<1>3. IsFiniteSet({r} \X I) /\ Cardinality({r} \X I) = 1 * n
  BY <1>1, <1>2, FS_Product
<1> DEFINE P == {r} \X I
<1>4. IsFiniteSet(P) /\ Cardinality(P) = n BY <1>3
<1>5. V \subseteq W \cup P BY DEF I
<1> HIDE DEF P
<1>6. IsFiniteSet(W \cup P) /\ Cardinality(W \cup P) <= Cardinality(W) + n
  <2>1. /\ IsFiniteSet(W \cup P)
        /\ Cardinality(W \cup P) = Cardinality(W) + Cardinality(P) - Cardinality(W \cap P)
    BY <1>4, FS_Union
  <2>2. Cardinality(W \cap P) \in Nat /\ Cardinality(W) \in Nat
    BY FS_Intersection, FS_CardinalityType
  <2> QED BY <1>4, <2>1, <2>2
<1>7. IsFiniteSet(V) /\ Cardinality(V) <= Cardinality(W \cup P)
  BY <1>5, <1>6, FS_Subset
<1>8. Cardinality(V) \in Nat /\ Cardinality(W \cup P) \in Nat /\ Cardinality(W) \in Nat
  BY <1>6, <1>7, FS_CardinalityType
<1> QED BY <1>6, <1>7, <1>8

\* free_seq: a release returns to the pool exactly what the rows held.
LEMMA ReleaseLedger ==
  ASSUME kv \in [Req -> Nat], window \in [Req -> Nat], resident \subseteq Req,
         free \in Int, NEW S, Release(S)
  PROVE  /\ kv' \in [Req -> Nat] /\ window' \in [Req -> Nat]
         /\ resident' \subseteq Req
         /\ free' \in Int /\ free <= free'
         /\ free' + Cardinality(Held)' = free + Cardinality(Held)
<1> DEFINE A == {t \in Held : t[1] \in S}
<1>1. kv' \in [Req -> Nat] /\ window' \in [Req -> Nat] /\ resident' \subseteq Req
  BY DEF Release
<1>2. Held' = Held \ A
  <2>1. ASSUME NEW t \in Tokens PROVE t \in Held' <=> t \in Held \ A
    BY DEF Release, Held, Tokens
  <2>2. Held' \subseteq Tokens /\ Held \subseteq Tokens BY DEF Held, Tokens
  <2> HIDE DEF A
  <2> QED BY <2>1, <2>2
<1>3. A \subseteq Held /\ Held \subseteq Tokens BY DEF Held
<1>4. free' = free + Cardinality(A) BY DEF Release
<1> HIDE DEF A
<1>5. Cardinality(Held \ A) = Cardinality(Held) - Cardinality(A)
  <2>1. Held \cap A = A BY <1>3
  <2> QED BY <2>1, AmountsType, FS_Difference
<1>6. Cardinality(A) \in Nat /\ Cardinality(Held) \in Nat
  BY <1>3, AmountType, AmountsType
<1> QED BY <1>1, <1>2, <1>4, <1>5, <1>6

-----------------------------------------------------------------------------
(* Types of the operators of schedule().                                   *)

\* The locals of _schedule_impl before a selection.
LEMMA NoScanType == NoScan \in ScanState
BY DEF NoScan, ScanState

\* The counters of a Sequence.
LEMMA SequenceFields ==
  ASSUME sq \in [Req -> SequenceState], NEW r \in Req
  PROVE  /\ sq[r] \in SequenceState
         /\ sq[r].prefilled \in Nat /\ sq[r].chunk \in Nat /\ sq[r].done \in Nat
         /\ sq[r].pend \in Nat /\ sq[r].checkpoint \in Nat
         /\ sq[r].cursor \in Nat \cup {NotReplaying}
         /\ Submitted(r) \in Nat
<1>1. sq[r] \in SequenceState OBVIOUS
<1> QED BY <1>1 DEF SequenceState, Submitted

\* What postprocess assigns to a Sequence.
LEMMA SequenceUpdates ==
  ASSUME NEW s \in SequenceState
  PROVE  /\ s.done \in Nat /\ s.status \in {"NEW", "WAITING", "RUNNING", "FINISHED"}
         /\ \A n \in Nat : [s EXCEPT !.prefilled = n] \in SequenceState
         /\ \A n \in Nat, x \in {"NEW", "WAITING", "RUNNING", "FINISHED"} :
              [s EXCEPT !.done = n, !.status = x] \in SequenceState
<1>1. s.done \in Nat /\ s.status \in {"NEW", "WAITING", "RUNNING", "FINISHED"}
  BY DEF SequenceState
<1>2. ASSUME NEW n \in Nat PROVE [s EXCEPT !.prefilled = n] \in SequenceState
  BY DEF SequenceState
<1>3. ASSUME NEW n \in Nat, NEW x \in {"NEW", "WAITING", "RUNNING", "FINISHED"}
      PROVE  [s EXCEPT !.done = n, !.status = x] \in SequenceState
  BY DEF SequenceState
<1> QED BY <1>1, <1>2, <1>3

\* A function on 1..n into requests is a queue.
LEMMA FunctionIsQueue ==
  ASSUME NEW n \in Nat, NEW S, S \subseteq Req, NEW t \in [1..n -> S]
  PROVE  t \in Seq(Req) /\ Len(t) = n
<1>1. t \in [1..n -> Req] OBVIOUS
<1> QED BY <1>1, SeqDef

\* setdefault on _prefill_wait_since.
LEMMA NotedType ==
  ASSUME waitSince \in Seq(Req), NEW r \in Req
  PROVE  Noted(r) \in Seq(Req)
BY DEF Noted

\* The budgets of a step, whatever has been promised.
LEMMA BudgetsType ==
  ASSUME free \in Int
  PROVE  StepFree \in Nat /\ AdmissionFree \in Nat /\ FreeRows \in Int /\ Max0(free) \in Nat
BY AmountsType DEF StepFree, AdmissionFree, Max0

\* The locals of _schedule_impl, one by one.
LEMMA ScanFields ==
  ASSUME scan \in ScanState
  PROVE  /\ scan.failed \in Req \cup {NoReq} /\ scan.blocked \in Req \cup {NoReq}
         /\ scan.bucket \in Nat /\ scan.left \in Nat /\ scan.room \in Nat
         /\ scan.slots \in Nat /\ scan.rows \in Int /\ scan.tokens \in Nat
         /\ scan.skipped \in Seq(Req)
BY DEF ScanState

\* The locals at the start of _schedule_impl ...
LEMMA ScanStart ==
  ASSUME NEW s \in ScanState, NEW f \in Req \cup {NoReq}, NEW p \in BOOLEAN,
         NEW m \in Nat, NEW n \in Nat, NEW k \in Int
  PROVE  [s EXCEPT !.failed = f, !.replay = p, !.room = m, !.slots = n, !.rows = k]
           \in ScanState
BY DEF ScanState

\* ... at the start of the first pass over waiting,
LEMMA ScanBucket ==
  ASSUME NEW s \in ScanState, NEW b \in 0..3, NEW l \in Nat
  PROVE  [s EXCEPT !.bucket = b, !.left = l] \in ScanState
BY DEF ScanState

\* of a further pass over waiting,
LEMMA ScanNextBucket ==
  ASSUME NEW s \in ScanState, NEW b \in 0..3, NEW l \in Nat, NEW e \in Seq(Req)
  PROVE  [s EXCEPT !.bucket = b, !.left = l, !.skipped = e] \in ScanState
BY DEF ScanState

\* of the pass over decoding,
LEMMA ScanDecode ==
  ASSUME NEW s \in ScanState, NEW l \in Nat, NEW m \in Nat, NEW e \in Seq(Req),
         NEW b \in 0..3, NEW f \in Req \cup {NoReq}
  PROVE  [s EXCEPT !.left = l, !.room = m, !.skipped = e, !.bucket = b, !.blocked = f]
           \in ScanState
BY DEF ScanState

\* after a prefill was taken,
LEMMA ScanTaken ==
  ASSUME NEW s \in ScanState, NEW l \in Nat, NEW n \in Nat, NEW k \in Int, NEW t \in Nat,
         NEW m \in Nat
  PROVE  [s EXCEPT !.left = l, !.slots = n, !.rows = k, !.tokens = t, !.room = m]
           \in ScanState
BY DEF ScanState

\* and after a request was put aside or a decode taken.
LEMMA ScanAside ==
  ASSUME NEW s \in ScanState
  PROVE  /\ \A e \in Seq(Req) : [s EXCEPT !.skipped = e] \in ScanState
         /\ \A l \in Nat : [s EXCEPT !.left = l] \in ScanState
         /\ \A l, m \in Nat : [s EXCEPT !.left = l, !.room = m] \in ScanState
         /\ \A l \in Nat, d \in BOOLEAN : [s EXCEPT !.left = l, !.deferred = d] \in ScanState
<1>1. ASSUME NEW e \in Seq(Req) PROVE [s EXCEPT !.skipped = e] \in ScanState
  BY DEF ScanState
<1>2. ASSUME NEW l \in Nat PROVE [s EXCEPT !.left = l] \in ScanState
  BY DEF ScanState
<1>3. ASSUME NEW l \in Nat, NEW d \in BOOLEAN
      PROVE  [s EXCEPT !.left = l, !.deferred = d] \in ScanState
  BY DEF ScanState
<1>4. ASSUME NEW l \in Nat, NEW m \in Nat
      PROVE  [s EXCEPT !.left = l, !.room = m] \in ScanState
  BY DEF ScanState
<1> QED BY <1>1, <1>2, <1>3, <1>4

\* The decode pass starts from well-typed locals.
LEMMA DecodeScanType ==
  ASSUME free \in Int, decoding \in Seq(Req), NEW s \in ScanState
  PROVE  DecodeScan(s) \in ScanState
<1>1. /\ Len(decoding) \in Nat /\ Max0(free) \in Nat
      /\ <<>> \in Seq(Req) /\ 0 \in 0..3 /\ NoReq \in Req \cup {NoReq}
  BY BudgetsType
<1>2. [s EXCEPT !.left = Len(decoding), !.room = Max0(free), !.skipped = <<>>,
                !.bucket = 0, !.blocked = NoReq] \in ScanState
  BY <1>1, ScanDecode, Zenon
<1> QED BY <1>2, Zenon DEF DecodeScan

\* The next bucket is one of the four priorities.
LEMMA BucketType ==
  ASSUME NEW q, NEW replay, NEW b \in Nat, Buckets(q, replay, b) # {}
  PROVE  Min(Buckets(q, replay, b)) \in 0..3
<1>1. Buckets(q, replay, b) \subseteq b..3 BY DEF Buckets
<1>2. Buckets(q, replay, b) \subseteq Nat BY <1>1
<1>3. Min(Buckets(q, replay, b)) \in b..3 BY <1>1, <1>2, MinOfNaturals
<1> QED BY <1>3

\* _prefill_step_tokens: a chunk that is scheduled fits what is left.
LEMMA ChunkType ==
  ASSUME sq \in [Req -> SequenceState], scan \in ScanState, NEW r \in Req,
         ChunkFor(r) > 0
  PROVE  ChunkFor(r) \in Nat /\ ChunkFor(r) <= scan.room
<1> DEFINE a == Prompt[r] - sq[r].prefilled
           b == MaxBatchedTokens - scan.tokens
<1>1. a \in Int BY SequenceFields, RequestAssumption
<1>2. scan.tokens \in Nat /\ scan.room \in Nat BY DEF ScanState
<1>3. b \in Int /\ ChunkSize \in Int /\ scan.room \in Int BY <1>2, SizeAssumption
<1>4. ChunkFor(r) = Min({a, ChunkSize, b, scan.room}) BY DEF ChunkFor
<1> HIDE DEF a, b
<1>5. ChunkFor(r) \in {a, ChunkSize, b, scan.room} /\ ChunkFor(r) <= scan.room
  <2>1. \A w, x, y, z \in Int : Min({w, x, y, z}) \in {w, x, y, z} /\ Min({w, x, y, z}) <= z
    BY MinOfFour
  <2> QED BY <1>1, <1>3, <1>4, <2>1
<1> QED BY <1>1, <1>3, <1>5

\* _eligible_decode_batch takes no more requests than slots are free.
LEMMA AffinitySizeType ==
  ASSUME free \in Int, decoding \in Seq(Req)
  PROVE  AffinitySize \in Nat /\ AffinitySize <= Max0(free)
<1>1. LiveDecodes \subseteq ToSet(decoding) BY DEF LiveDecodes
<1>2. Cardinality(LiveDecodes) \in Nat
  BY <1>1, ToSetType, FS_Subset, FS_CardinalityType
<1>3. Max0(free) \in Nat /\ MaxDecoding \in Nat BY BudgetsType, SizeAssumption
<1> DEFINE c == Cardinality(LiveDecodes)
           m == Max0(free)
<1>4. AffinitySize = Min({c, m, MaxDecoding}) BY DEF AffinitySize
<1>5. c \in Nat /\ m \in Nat BY <1>2, <1>3
<1> HIDE DEF c, m
<1>6. c \in Int /\ m \in Int /\ MaxDecoding \in Int BY <1>3, <1>5
<1>7. AffinitySize \in {c, m, MaxDecoding} /\ AffinitySize <= m
  BY <1>4, <1>6, MinOfThree, Zenon
<1> QED BY <1>3, <1>5, <1>7 DEF m

\* start_recompute_replay and finish_recompute_replay.
LEMMA ReplayTypes ==
  ASSUME NEW s \in SequenceState
  PROVE  /\ Restarted(s) \in SequenceState
         /\ [s EXCEPT !.checkpoint = s.done] \in SequenceState
         /\ \A c \in Nat : ReplayUpTo(s, c) \in SequenceState
<1>1. Restarted(s) \in SequenceState BY DEF Restarted, SequenceState
<1>2. [s EXCEPT !.checkpoint = s.done] \in SequenceState BY DEF SequenceState
<1>3. \A c \in Nat : ReplayUpTo(s, c) \in SequenceState BY DEF ReplayUpTo, SequenceState
<1> QED BY <1>1, <1>2, <1>3
=============================================================================
