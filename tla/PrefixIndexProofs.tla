------------------------- MODULE PrefixIndexProofs --------------------------
(***************************************************************************)
(* Proofs about PrefixIndex, for every tree of blocks and every set of     *)
(* requests.  Residency, types and reference counts are proved together:   *)
(* residency is inductive with the type invariant, and a removed block has *)
(* no holder because its count is the number of its holders.  On top of    *)
(* them come the lookup memos, whose two membership tests decide because   *)
(* the live blocks are closed under parents, and the freeable set: a climb *)
(* up a path leaves at most one block unsettled, the next one to visit,    *)
(* and a set that is settled everywhere is the set a scan would find.      *)
(* Induction over paths, folds and trees is by least counterexample.       *)
(***************************************************************************)
EXTENDS PrefixIndex, FiniteSetTheorems, WellFoundedInduction, TLAPS

-----------------------------------------------------------------------------
(* Induction over data: least counterexamples.                             *)

\* A nonempty set of naturals has a least element.
LEMMA LeastNat ==
  ASSUME NEW T, T \subseteq Nat, T # {}
  PROVE  \E n \in T : \A m \in T : n <= m
<1> DEFINE R == OpToRel(<, Nat)
<1>1. IsWellFoundedOn(R, Nat) BY NatLessThanWellFounded
<1>2. \A i, j \in Nat : i < j => <<i, j>> \in R BY DEF OpToRel
<1> HIDE DEF R
<1>3. PICK x \in T : \A y \in T : ~ (<<y, x>> \in R) BY <1>1, WFMin
<1>4. \A y \in T : ~(y < x) BY <1>2, <1>3
<1>5. \A y \in T : x <= y BY <1>4
<1> QED BY <1>5

\* A nonempty family of subsets of a finite set has a minimal member.
LEMMA LeastSubset ==
  ASSUME NEW S, IsFiniteSet(S), NEW T, T \subseteq SUBSET S, T # {}
  PROVE  \E X \in T : \A Y \in T : Y \subseteq X => Y = X
<1> DEFINE R == StrictSubsetOrdering(S)
<1>1. IsWellFoundedOn(R, SUBSET S)
  BY FS_StrictSubsetOrderingWellFounded, FS_FiniteSubsetsOfFinite
<1>2. \A X, Y \in SUBSET S : Y \subseteq X /\ Y # X => <<Y, X>> \in R
  BY DEF StrictSubsetOrdering
<1> HIDE DEF R
<1>3. PICK X \in T : \A Y \in T : ~ (<<Y, X>> \in R)
  BY <1>1, WFMin
<1> QED BY <1>2, <1>3

\* Induction over 0..N: a set of indices with 0 and with k+1 for every k of it
\* has all of them.
LEMMA Upto ==
  ASSUME NEW N \in Nat, NEW P, 0 \in P, \A k \in 0..(N - 1) : k \in P => k + 1 \in P
  PROVE  \A k \in 0..N : k \in P
<1> DEFINE T == {k \in 0..N : k \notin P}
<1> SUFFICES ASSUME T # {} PROVE FALSE
  OBVIOUS
<1>1. T \subseteq Nat OBVIOUS
<1>2. PICK n \in T : \A k \in T : n <= k BY <1>1, LeastNat
<1>3. n \in 0..N /\ n \notin P BY <1>2
<1>4. n # 0 BY <1>3
<1>5. n - 1 \in 0..(N - 1) /\ n - 1 \in 0..N BY <1>3, <1>4
<1>6. n - 1 \in P BY <1>2, <1>3, <1>5
<1>7. n \in P BY <1>3, <1>5, <1>6
<1> QED BY <1>3, <1>7

-----------------------------------------------------------------------------
(* The tree of blocks.                                                     *)

\* A block is not its own parent: its path is longer than its parent's.
LEMMA NotOwnParent == \A b \in Blocks : ParentOf[b] # b
<1> SUFFICES ASSUME NEW b \in Blocks, ParentOf[b] = b PROVE FALSE
  OBVIOUS
<1>1. PathOf[b] = Append(PathOf[b], b) /\ PathOf[b] \in Seq(Blocks)
  BY PathAssumption, PrefixIndexAssumption
<1>2. Len(Append(PathOf[b], b)) = Len(PathOf[b]) + 1 /\ Len(PathOf[b]) \in Nat
  BY <1>1
<1> QED BY <1>1, <1>2

\* The path of a block: its parents, one after the other, from the root.
LEMMA PathSteps ==
  \A b \in Blocks :
    /\ Len(PathOf[b]) \in Nat /\ DOMAIN PathOf[b] = 1..Len(PathOf[b]) /\ Len(PathOf[b]) # 0
    /\ PathOf[b][Len(PathOf[b])] = b
    /\ \A i \in 1..Len(PathOf[b]) :
         /\ PathOf[b][i] \in Blocks
         /\ ParentOf[PathOf[b][i]] = IF i = 1 THEN Root ELSE PathOf[b][i - 1]
         /\ Len(PathOf[PathOf[b][i]]) = i
<1> DEFINE Good(b) ==
      \A i \in 1..Len(PathOf[b]) :
         /\ PathOf[b][i] \in Blocks
         /\ ParentOf[PathOf[b][i]] = IF i = 1 THEN Root ELSE PathOf[b][i - 1]
         /\ Len(PathOf[PathOf[b][i]]) = i
           L(b) == Len(PathOf[b])
<1>1. \A b \in Blocks : /\ PathOf[b] \in Seq(Blocks) /\ L(b) \in Nat /\ DOMAIN PathOf[b] = 1..L(b)
                        /\ L(b) # 0 /\ PathOf[b][L(b)] = b
  BY PathAssumption, PrefixIndexAssumption
<1> HIDE DEF Good
<1> DEFINE Bad == {b \in Blocks : ~Good(b)}
           T == {L(b) : b \in Bad}
<1>2. ASSUME Bad # {} PROVE FALSE
  <2>1. T \subseteq Nat /\ T # {} BY <1>1, <1>2
  <2>2. PICK n \in T : \A k \in T : n <= k BY <2>1, LeastNat
  <2>3. PICK b \in Bad : n = L(b) BY <2>2
  <2>4. b \in Blocks /\ ~Good(b) BY <2>3
  <2>5. CASE ParentOf[b] = Root
    <3>1. L(b) = 1 /\ PathOf[b][1] = b BY <1>1, <2>4, <2>5, PathAssumption
    <3>2. Good(b) BY <3>1, <2>4, <2>5 DEF Good
    <3> QED BY <2>4, <3>2
  <2>6. CASE ParentOf[b] # Root
    <3> DEFINE p == ParentOf[b]
    <3>1. p \in Blocks BY <2>4, <2>6, PrefixIndexAssumption
    <3>2. PathOf[b] = Append(PathOf[p], b) BY <2>4, <2>6, PathAssumption
    <3> HIDE DEF p
    <3>3. L(b) = L(p) + 1 /\ \A i \in 1..L(p) : PathOf[b][i] = PathOf[p][i]
      BY <1>1, <2>4, <3>1, <3>2
    <3>4. Good(p)
      <4>1. L(p) < n BY <1>1, <2>3, <3>1, <3>3
      <4>2. ASSUME p \in Bad PROVE FALSE
        <5>1. L(p) \in T BY <4>2
        <5>2. n <= L(p) /\ n \in Nat /\ L(p) \in Nat BY <5>1, <1>1, <2>1, <2>2, <3>1
        <5> QED BY <4>1, <5>2
      <4> QED BY <3>1, <4>2
    <3>5. L(p) \in Nat /\ L(p) # 0 /\ PathOf[p][L(p)] = p /\ PathOf[b][L(p) + 1] = b
      BY <1>1, <2>4, <3>1, <3>3
    <3>6. ASSUME NEW i \in 1..L(b)
          PROVE  /\ PathOf[b][i] \in Blocks
                 /\ ParentOf[PathOf[b][i]] = IF i = 1 THEN Root ELSE PathOf[b][i - 1]
                 /\ Len(PathOf[PathOf[b][i]]) = i
      <4>1. CASE i = L(p) + 1
        BY <2>4, <3>3, <3>5, <4>1 DEF p
      <4>2. CASE i # L(p) + 1
        <5>1. i \in 1..L(p) /\ (i # 1 => i - 1 \in 1..L(p)) BY <3>3, <3>5, <4>2
        <5> QED BY <3>3, <3>4, <5>1 DEF Good
      <4> QED BY <4>1, <4>2
    <3>7. Good(b) BY <3>6 DEF Good
    <3> QED BY <2>4, <3>7
  <2> QED BY <2>5, <2>6
<1>3. \A b \in Blocks : Good(b) BY <1>2
<1> QED BY <1>1, <1>3 DEF Good

\* A set of blocks closed under parents.
Closed(B) == B \subseteq Blocks /\ \A b \in B : ParentOf[b] = Root \/ ParentOf[b] \in B

\* It has the whole path of each of its blocks, up to any block of the path it has.
LEMMA ClosedPath ==
  ASSUME NEW B, Closed(B), NEW b \in Blocks,
         NEW i \in 1..Len(PathOf[b]), PathOf[b][i] \in B
  PROVE  \A j \in 1..i : PathOf[b][j] \in B
<1> DEFINE P == {k \in 0..(i - 1) : PathOf[b][i - k] \in B}
<1>0. i \in Nat /\ i - 1 \in Nat /\ Len(PathOf[b]) \in Nat BY PathSteps
<1>1. 0 \in P BY <1>0
<1>2. ASSUME NEW k \in 0..(i - 1 - 1), k \in P PROVE k + 1 \in P
  <2>1. i - k \in 1..Len(PathOf[b]) /\ i - k # 1 BY <1>0, <1>2
  <2>2. ParentOf[PathOf[b][i - k]] = PathOf[b][i - k - 1] BY <2>1, PathSteps
  <2>3. PathOf[b][i - k - 1] \in Blocks BY <2>1, PathSteps, <1>0
  <2>4. PathOf[b][i - k - 1] \in B BY <1>2, <2>2, <2>3, PrefixIndexAssumption DEF Closed
  <2>5. i - k - 1 = i - (k + 1) /\ k + 1 \in 0..(i - 1) BY <1>0, <1>2
  <2> QED BY <2>4, <2>5
<1> HIDE DEF P
<1>3. \A k \in 0..(i - 1) : k \in P BY <1>0, <1>1, <1>2, Upto
<1>4. ASSUME NEW j \in 1..i PROVE PathOf[b][j] \in B
  <2>1. j \in Int /\ 1 <= j /\ j <= i BY <1>0
  <2>a. i - j \in 0..(i - 1) /\ i - (i - j) = j BY <1>0, <2>1
  <2>2. i - j \in P BY <2>a, <1>3
  <2> QED BY <2>a, <2>2 DEF P
<1> QED BY <1>4

\* A block of Ancestry(c) other than c has a child in Ancestry(c).
LEMMA AncestryStep ==
  ASSUME NEW c \in Blocks, NEW x
  PROVE  /\ c \in Ancestry(c)
         /\ x \in Ancestry(c) => x \in Blocks
         /\ x \in Ancestry(c) /\ ParentOf[x] # Root => ParentOf[x] \in Ancestry(c)
         /\ x \in Ancestry(c) /\ x # c => \E k \in Ancestry(c) : ParentOf[k] = x
<1> DEFINE n == Len(PathOf[c])
<1>1. n \in Nat /\ n # 0 /\ DOMAIN PathOf[c] = 1..n /\ PathOf[c][n] = c BY PathSteps
<1>2. \A i \in 1..n : /\ PathOf[c][i] \in Blocks
                      /\ ParentOf[PathOf[c][i]] = IF i = 1 THEN Root ELSE PathOf[c][i - 1]
  BY PathSteps
<1> HIDE DEF n
<1>3. c \in Ancestry(c) BY <1>1 DEF Ancestry
<1>4. ASSUME x \in Ancestry(c)
      PROVE  /\ x \in Blocks
             /\ ParentOf[x] # Root => ParentOf[x] \in Ancestry(c)
             /\ x # c => \E k \in Ancestry(c) : ParentOf[k] = x
  <2>1. PICK i \in 1..n : x = PathOf[c][i] BY <1>1, <1>4 DEF Ancestry
  <2>2. x \in Blocks BY <1>2, <2>1
  <2>3. ASSUME ParentOf[x] # Root PROVE ParentOf[x] \in Ancestry(c)
    <3>1. i # 1 /\ ParentOf[x] = PathOf[c][i - 1] BY <1>2, <2>1, <2>3
    <3>2. i - 1 \in 1..n BY <3>1, <1>1
    <3> QED BY <1>1, <3>1, <3>2 DEF Ancestry
  <2>4. ASSUME x # c PROVE \E k \in Ancestry(c) : ParentOf[k] = x
    <3>1. i + 1 \in 1..n BY <1>1, <2>1, <2>4
    <3>2. ParentOf[PathOf[c][i + 1]] = x BY <1>1, <1>2, <2>1, <3>1
    <3>3. PathOf[c][i + 1] \in Ancestry(c) BY <1>1, <3>1 DEF Ancestry
    <3> QED BY <3>2, <3>3
  <2> QED BY <2>2, <2>3, <2>4
<1> QED BY <1>3, <1>4

-----------------------------------------------------------------------------
(* The lookup memo.                                                        *)

MemoType == /\ memo \in [Requests -> Int]
            /\ \A r \in Requests : memo[r] \in -1..Len(PathOf[PromptOf[r]])

\* The longest hit is the one number of live blocks that the next one ends.
LEMMA LongestHitIs ==
  ASSUME NEW r \in Requests
  PROVE  LET path == PathOf[PromptOf[r]]
         IN  /\ LongestHit(r) \in 0..Len(path)
             /\ \A n \in 0..Len(path) :
                  (\A i \in 1..n : path[i] \in blocks) /\ (n < Len(path) => path[n + 1] \notin blocks)
                  => n = LongestHit(r)
<1> DEFINE path == PathOf[PromptOf[r]]
           Hit(n) == (\A i \in 1..n : path[i] \in blocks)
                     /\ (n < Len(path) => path[n + 1] \notin blocks)
           T == {i \in 1..Len(path) : path[i] \notin blocks}
<1>1. Len(path) \in Nat BY PathSteps, PrefixIndexAssumption
<1> HIDE DEF path
<1>2. \E n \in 0..Len(path) : Hit(n)
  <2>1. CASE T = {}
    <3>1. Hit(Len(path)) /\ Len(path) \in 0..Len(path) BY <1>1, <2>1
    <3> QED BY <3>1
  <2>2. CASE T # {}
    <3>1. T \subseteq Nat OBVIOUS
    <3>2. PICK n \in T : \A k \in T : n <= k BY <2>2, <3>1, LeastNat
    <3>3. n \in 1..Len(path) /\ path[n] \notin blocks BY <3>2
    <3>4. n - 1 \in 0..Len(path) /\ n - 1 + 1 = n BY <1>1, <3>3
    <3>5. \A i \in 1..(n - 1) : path[i] \in blocks
      <4> SUFFICES ASSUME NEW i \in 1..(n - 1), path[i] \notin blocks PROVE FALSE
        OBVIOUS
      <4>1. i \in T /\ i < n BY <1>1, <3>3
      <4> QED BY <3>2, <3>3, <4>1
    <3>6. Hit(n - 1) BY <3>3, <3>4, <3>5
    <3> QED BY <3>4, <3>6
  <2> QED BY <2>1, <2>2
<1>3. ASSUME NEW m \in 0..Len(path), NEW n \in 0..Len(path), Hit(m), Hit(n), m < n PROVE FALSE
  <2>1. m + 1 \in 1..n /\ m < Len(path) BY <1>1, <1>3
  <2> QED BY <1>3, <2>1
<1>4. LongestHit(r) = CHOOSE n \in 0..Len(path) : Hit(n) BY DEF LongestHit, path
<1>5. LongestHit(r) \in 0..Len(path) /\ Hit(LongestHit(r)) BY <1>2, <1>4
<1>6. \A n \in 0..Len(path) : Hit(n) => n = LongestHit(r)
  <2> SUFFICES ASSUME NEW n \in 0..Len(path), Hit(n) PROVE n = LongestHit(r)
    OBVIOUS
  <2> DEFINE l == LongestHit(r)
  <2>1. l \in 0..Len(path) /\ Hit(l) BY <1>5
  <2> HIDE DEF l, Hit
  <2>2. ~(n < l) /\ ~(l < n) BY <1>3, <2>1
  <2>3. n = l BY <1>1, <2>1, <2>2
  <2> QED BY <2>3 DEF l
<1> QED BY <1>5, <1>6 DEF path

\* The two membership tests decide for the whole path, because the live blocks
\* are closed under parents.
LEMMA MemoIsSound ==
  ASSUME Closed(blocks), MemoType, NEW r \in Requests, memo[r] # -1, MemoIsCurrent(r)
  PROVE  memo[r] = LongestHit(r)
<1> DEFINE path == PathOf[PromptOf[r]]
<1>1. Len(path) \in Nat /\ PromptOf[r] \in Blocks BY PathSteps, PrefixIndexAssumption
<1>2. memo[r] \in 0..Len(path) BY <1>1 DEF MemoType
<1>3. memo[r] = 0 \/ path[memo[r]] \in blocks BY DEF MemoIsCurrent
<1>4. memo[r] < Len(path) => path[memo[r] + 1] \notin blocks
  BY <1>1, <1>2 DEF MemoIsCurrent
<1>5. \A i \in 1..memo[r] : path[i] \in blocks
  <2>1. CASE memo[r] = 0 BY <2>1
  <2>2. CASE memo[r] # 0
    <3>1. memo[r] \in 1..Len(path) BY <1>1, <1>2, <2>2
    <3> QED BY <1>1, <1>3, <2>2, <3>1, ClosedPath
  <2> QED BY <2>1, <2>2
<1> QED BY <1>2, <1>4, <1>5, LongestHitIs

\* Memos hold lengths of prefixes of the prompt.
LEMMA InitMemo == Init => MemoType
<1>1. \A r \in Requests : Len(PathOf[PromptOf[r]]) \in Nat BY PathSteps, PrefixIndexAssumption
<1> QED BY <1>1 DEF Init, MemoType

\* Every step keeps them so.
LEMMA StepMemo == MemoType /\ [Next]_vars => MemoType'
<1> SUFFICES ASSUME MemoType, [Next]_vars PROVE MemoType'
  OBVIOUS
<1>1. \A r \in Requests : Len(PathOf[PromptOf[r]]) \in Nat BY PathSteps, PrefixIndexAssumption
<1>2. ASSUME NEW r \in Requests, NEW n \in -1..Len(PathOf[PromptOf[r]]),
             memo' = [memo EXCEPT ![r] = n]
      PROVE  MemoType'
  BY <1>1, <1>2 DEF MemoType
<1>3. CASE UNCHANGED memo BY <1>3 DEF MemoType
<1>4. ASSUME NEW r \in Requests, NEW b \in Blocks, Release(r, b) PROVE MemoType'
  <2>1. -1 \in -1..Len(PathOf[PromptOf[r]]) BY <1>1
  <2> QED BY <1>2, <1>4, <2>1 DEF Release
<1>5. ASSUME NEW r \in Requests, Lookup(r) PROVE MemoType'
  <2>1. LongestHit(r) \in -1..Len(PathOf[PromptOf[r]]) BY <1>1, LongestHitIs
  <2> QED BY <1>2, <1>5, <2>1 DEF Lookup
<1>6. ASSUME NEW r \in Requests, NEW b \in Blocks, Acquire(r, b) \/ InsertBlock(r, b)
      PROVE  MemoType'
  BY <1>3, <1>6 DEF Acquire, InsertBlock
<1>7. ASSUME NEW b \in Blocks, RemoveBlock(b) PROVE MemoType'
  BY <1>3, <1>7 DEF RemoveBlock
<1>8. ASSUME NEW b \in Blocks,
             \/ BeginD2H(b) \/ FinishD2H(b) \/ AbortD2H(b)
             \/ BeginH2D(b) \/ FinishH2D(b) \/ AbortH2D(b) \/ Demote(b)
      PROVE  MemoType'
  BY <1>3, <1>8 DEF BeginD2H, FinishD2H, AbortD2H, BeginH2D, FinishH2D, AbortH2D, Demote
<1>9. ASSUME NEW b \in Blocks, NEW pin \in BOOLEAN, SetPriority(b, pin) PROVE MemoType'
  BY <1>3, <1>9 DEF SetPriority
<1>10. ASSUME NEW v \in Queries, Query(v) PROVE MemoType'
  BY <1>3, <1>10 DEF Query
<1>11. CASE UNCHANGED vars BY <1>3, <1>11 DEF vars
<1> QED BY <1>4, <1>5, <1>6, <1>7, <1>8, <1>9, <1>10, <1>11 DEF Next

-----------------------------------------------------------------------------
(* Folds, unrolled: a fold over a sequence is the last of a chain of        *)
(* accumulators, each one step on from the one before.                     *)

\* The largest of the first n positions.
LEMMA MaxUpto ==
  ASSUME NEW n \in Nat, NEW s, s \subseteq 1..n, n \in s
  PROVE  Max(s) = n
<1>1. \A y \in s : n >= y OBVIOUS
<1>2. \A x \in s : (\A y \in s : x >= y) => x = n OBVIOUS
<1> QED BY <1>1, <1>2 DEF Max

\* _refresh_freeable_path as a chain of rounds.
Climbed(m, base, seq) == FoldLeft(LAMBDA acc, c : Climb(m, acc, c), base, seq)

ClimbedBy(m, base, seq, N, h) ==
  /\ h[0] = base
  /\ \A k \in 1..N : h[k] = Climb(m, h[k-1], seq[k])
  /\ Climbed(m, base, seq) = h[N]

\* The rounds of a climb form such a chain.
LEMMA ClimbChain ==
  ASSUME NEW m, NEW base, NEW seq, NEW N \in Nat, DOMAIN seq = 1..N
  PROVE  \E h : ClimbedBy(m, base, seq, N, h)
<1> DEFINE Op(acc, c) == Climb(m, acc, c)
           Sol(it, n) == it = [s \in SUBSET (1..n) |->
                                 IF s = {} THEN base ELSE Op(it[s \ {Max(s)}], seq[Max(s)])]
           Solved(n) == \E it : Sol(it, n)
           P == {n \in 0..N : Solved(n)}
<1> HIDE DEF Solved, Op
<1>1. \A n \in 0..N : n \in P
  <2>1. 0 \in P
    <3>1. SUBSET (1..0) = {{}} OBVIOUS
    <3>2. Sol([s \in {{}} |-> base], 0) BY <3>1
    <3>3. Solved(0) BY <3>2 DEF Solved
    <3> QED BY <3>3
  <2>2. ASSUME NEW j \in 0..(N - 1), j \in P PROVE j + 1 \in P
    <3> DEFINE n == j + 1
    <3>0. n \in Nat /\ n \in 0..N /\ j \in Nat BY <2>2
    <3>1. Solved(j) BY <2>2
    <3>2. PICK it : Sol(it, j) BY <3>1 DEF Solved
    <3> DEFINE nt == [s \in SUBSET (1..n) |-> IF n \in s THEN Op(it[s \ {n}], seq[n]) ELSE it[s]]
    <3>3. ASSUME NEW s \in SUBSET (1..n)
          PROVE  nt[s] = IF s = {} THEN base ELSE Op(nt[s \ {Max(s)}], seq[Max(s)])
      <4>1. CASE n \in s
        <5>1. s \subseteq 1..n OBVIOUS
        <5>2. Max(s) = n BY <3>0, <4>1, <5>1, MaxUpto
        <5>3. s \ {n} \in SUBSET (1..n) OBVIOUS
        <5>4. nt[s \ {n}] = it[s \ {n}] BY <5>3
        <5> QED BY <5>2, <5>4, <4>1
      <4>2. CASE n \notin s /\ s # {}
        <5>1. s \in SUBSET (1..j) BY <3>0, <4>2
        <5>2. s \ {Max(s)} \in SUBSET (1..j) BY <5>1
        <5>3. nt[s \ {Max(s)}] = it[s \ {Max(s)}] BY <5>2, <4>2
        <5>4. it[s] = Op(it[s \ {Max(s)}], seq[Max(s)]) BY <5>1, <3>2, <4>2
        <5> QED BY <4>2, <5>3, <5>4
      <4>3. CASE s = {} BY <4>3, <3>2
      <4> QED BY <4>1, <4>2, <4>3
    <3> HIDE DEF nt
    <3>4. nt = [s \in SUBSET (1..n) |-> nt[s]] BY DEF nt
    <3>5. Sol(nt, n) BY <3>3, <3>4
    <3>6. Solved(n) BY <3>5 DEF Solved
    <3> QED BY <3>0, <3>6
  <2> HIDE DEF P
  <2> QED BY <2>1, <2>2, Upto
<1> HIDE DEF P
<1>2. Solved(N)
  <2>1. N \in P BY <1>1
  <2> QED BY <2>1 DEF P
<1>3. PICK it0 : Sol(it0, N) BY <1>2 DEF Solved
<1> DEFINE it == CHOOSE i : Sol(i, N)
<1>4. Sol(it, N) BY <1>3
<1>5. Climbed(m, base, seq) = it[1..N]
  BY DEF Climbed, FoldLeft, MapThenFoldSet, Op
<1> HIDE DEF it
<1>6. ASSUME NEW k \in 1..N PROVE it[1..k] = Op(it[1..(k-1)], seq[k])
  <2> DEFINE s == 1..k
  <2>0. k \in Nat BY <1>6
  <2>1. s \subseteq 1..N /\ k \in s BY <1>6, <2>0
  <2>2. Max(s) = k BY <2>0, <2>1, MaxUpto
  <2>3. s \ {k} = 1..(k-1) BY <2>0
  <2> HIDE DEF s
  <2>4. it[s] = Op(it[s \ {Max(s)}], seq[Max(s)]) BY <1>4, <2>1
  <2> QED BY <2>2, <2>3, <2>4 DEF s
<1>7. it[{}] = base BY <1>4
<1> DEFINE h == [k \in 0..N |-> it[1..k]]
<1>8. h[0] = base /\ h[N] = it[1..N] BY <1>7
<1>9. \A k \in 1..N : h[k] = Op(h[k-1], seq[k]) BY <1>6
<1> QED BY <1>5, <1>8, <1>9 DEF Op, ClimbedBy

-----------------------------------------------------------------------------
(* The freeable set.                                                       *)

Acc == [stop : BOOLEAN, ids : SUBSET Blocks, kids : [Blocks -> Int]]

KidsIn(B, x) == {c \in B : ParentOf[c] = x}

\* The counts are those of the children outside the set.
Counted(B, ids, kids) ==
  /\ ids \subseteq B
  /\ \A x \in Blocks : kids[x] = IF x \in B THEN Cardinality(KidsIn(B, x) \ ids) ELSE 0

\* Block x is in the set when its count and its own state say so.
Local(m, ids, kids, x) == x \in ids <=> kids[x] = 0 /\ Free(m[x])

\* The set a scan finds.
FreeableIn(B, m) == {b \in B : \A c \in B : b \in Ancestry(c) => Free(m[c])}

\* A block is freeable when it is free and all its children are.
LEMMA FreeableStep ==
  ASSUME NEW B, Closed(B), NEW m, NEW x \in B
  PROVE  x \in FreeableIn(B, m) <=> Free(m[x]) /\ KidsIn(B, x) \subseteq FreeableIn(B, m)
<1>0. B \subseteq Blocks BY DEF Closed
<1>1. ASSUME x \in FreeableIn(B, m) PROVE Free(m[x]) /\ KidsIn(B, x) \subseteq FreeableIn(B, m)
  <2>1. Free(m[x]) BY <1>0, <1>1, AncestryStep DEF FreeableIn
  <2>2. ASSUME NEW k \in KidsIn(B, x), NEW c \in B, k \in Ancestry(c) PROVE Free(m[c])
    <3>1. ParentOf[k] = x /\ x # Root BY <1>0, PrefixIndexAssumption DEF KidsIn
    <3>2. x \in Ancestry(c) BY <1>0, <2>2, <3>1, AncestryStep
    <3> QED BY <1>1, <3>2 DEF FreeableIn
  <2>3. KidsIn(B, x) \subseteq B BY DEF KidsIn
  <2> QED BY <2>1, <2>2, <2>3 DEF FreeableIn
<1>2. ASSUME Free(m[x]), KidsIn(B, x) \subseteq FreeableIn(B, m) PROVE x \in FreeableIn(B, m)
  <2> SUFFICES ASSUME NEW c \in B, x \in Ancestry(c) PROVE Free(m[c])
    BY DEF FreeableIn
  <2>1. CASE c = x BY <1>2, <2>1
  <2>2. CASE c # x
    <3>1. PICK k \in Ancestry(c) : ParentOf[k] = x BY <1>0, <2>2, AncestryStep
    <3>2. k \in B
      <4> DEFINE n == Len(PathOf[c])
      <4>1. n \in Nat /\ n # 0 /\ PathOf[c][n] = c /\ DOMAIN PathOf[c] = 1..n BY <1>0, PathSteps
      <4>2. PICK i \in 1..n : k = PathOf[c][i] BY <3>1, <4>1 DEF Ancestry
      <4>3. n \in 1..n /\ i \in 1..n BY <4>1
      <4> QED BY <1>0, <4>1, <4>2, <4>3, ClosedPath
    <3>3. k \in KidsIn(B, x) BY <3>1, <3>2 DEF KidsIn
    <3> QED BY <1>2, <3>1, <3>3 DEF FreeableIn
  <2> QED BY <2>1, <2>2
<1> QED BY <1>1, <1>2

\* What the local equations determine: on a finite tree, exactly that set.
LEMMA LocalIsGlobal ==
  ASSUME NEW B, Closed(B), IsFiniteSet(B), NEW m, NEW ids, NEW kids,
         Counted(B, ids, kids), \A x \in B : Local(m, ids, kids, x)
  PROVE  ids = FreeableIn(B, m)
<1>0. B \subseteq Blocks /\ ids \subseteq B BY DEF Closed, Counted
<1>1. \A x \in B : x \in ids <=> Free(m[x]) /\ KidsIn(B, x) \subseteq ids
  <2> SUFFICES ASSUME NEW x \in B PROVE x \in ids <=> Free(m[x]) /\ KidsIn(B, x) \subseteq ids
    OBVIOUS
  <2>1. kids[x] = Cardinality(KidsIn(B, x) \ ids) BY <1>0 DEF Counted
  <2>2. IsFiniteSet(KidsIn(B, x) \ ids)
    <3>1. KidsIn(B, x) \ ids \subseteq B BY DEF KidsIn
    <3> QED BY <3>1, FS_Subset
  <2>3. kids[x] = 0 <=> KidsIn(B, x) \ ids = {} BY <2>1, <2>2, FS_EmptySet
  <2> QED BY <2>3 DEF Local
<1> DEFINE Sub(x) == {c \in B : x \in Ancestry(c)}
           Diff == {x \in B : ~(x \in ids <=> x \in FreeableIn(B, m))}
           T == {Sub(x) : x \in Diff}
<1>2. ASSUME Diff # {} PROVE FALSE
  <2>1. T \subseteq SUBSET B /\ T # {} BY <1>2
  <2>2. PICK X \in T : \A Y \in T : Y \subseteq X => Y = X
    <3> HIDE DEF T
    <3> QED BY <2>1, LeastSubset
  <2>3. PICK x \in Diff : X = Sub(x) BY <2>2
  <2>4. PICK k \in KidsIn(B, x) : k \in Diff
    <3>1. x \in B /\ ~(x \in ids <=> x \in FreeableIn(B, m)) BY <2>3
    <3>2. KidsIn(B, x) \subseteq B BY DEF KidsIn
    <3>3. ~(KidsIn(B, x) \subseteq ids <=> KidsIn(B, x) \subseteq FreeableIn(B, m))
      BY <1>1, <3>1, FreeableStep
    <3> QED BY <3>2, <3>3
  <2>5. k \in B /\ ParentOf[k] = x /\ x \in Blocks /\ x # Root
    BY <1>0, <2>3, <2>4, PrefixIndexAssumption DEF KidsIn
  <2>6. Sub(k) \subseteq Sub(x)
    BY <1>0, <2>5, AncestryStep
  <2>7. Sub(k) = Sub(x)
    <3>1. Sub(k) \in T BY <2>4
    <3> HIDE DEF T, Sub
    <3> QED BY <2>2, <2>3, <2>6, <3>1
  <2>8. x \in Sub(x) BY <1>0, <2>3, AncestryStep
  <2>9. k \in Ancestry(x) BY <2>7, <2>8
  <2>10. PICK i \in 1..Len(PathOf[x]) : k = PathOf[x][i] BY <2>5, <2>9, PathSteps DEF Ancestry
  <2>11. Len(PathOf[k]) = i /\ Len(PathOf[x]) \in Nat BY <2>5, <2>10, PathSteps
  <2>12. PathOf[k] = Append(PathOf[x], k) BY <1>0, <2>5, PathAssumption
  <2>13. Len(PathOf[k]) = Len(PathOf[x]) + 1 BY <2>5, <2>12, PrefixIndexAssumption
  <2> QED BY <2>10, <2>11, <2>13
<1>3. FreeableIn(B, m) \subseteq B BY DEF FreeableIn
<1> QED BY <1>0, <1>2, <1>3

FreesType(f) == f \in [built : BOOLEAN, ids : SUBSET Blocks, kids : [Blocks -> Int]]

\* The freeable set and its counts agree with the tree B in state m.
Settled(B, m, f) ==
  f.built => Counted(B, f.ids, f.kids) /\ \A x \in B : Local(m, f.ids, f.kids, x)

\* The same but for block b.
SettledBut(B, m, f, b) ==
  f.built => Counted(B, f.ids, f.kids) /\ \A x \in B \ {b} : Local(m, f.ids, f.kids, x)

\* One round keeps the counts, and moves the one unsettled block to its parent.
LEMMA ClimbStep ==
  ASSUME NEW B, Closed(B), IsFiniteSet(B), NEW m, NEW acc \in Acc, NEW c \in B,
         Counted(B, acc.ids, acc.kids),
         IF acc.stop THEN \A x \in B : Local(m, acc.ids, acc.kids, x)
         ELSE \A x \in B \ {c} : Local(m, acc.ids, acc.kids, x)
  PROVE  LET new == Climb(m, acc, c)
         IN  /\ new \in Acc
             /\ Counted(B, new.ids, new.kids)
             /\ new.stop => \A x \in B : Local(m, new.ids, new.kids, x)
             /\ ~new.stop => \A x \in B \ {ParentOf[c]} : Local(m, new.ids, new.kids, x)
<1>0. B \subseteq Blocks /\ c \in Blocks BY DEF Closed
<1> DEFINE was == c \in acc.ids
           is == acc.kids[c] = 0 /\ Free(m[c])
           new == Climb(m, acc, c)
           p == ParentOf[c]
<1>1. CASE acc.stop \/ is = was
  <2>1. new = [acc EXCEPT !.stop = TRUE] BY <1>1 DEF Climb
  <2>2. new \in Acc /\ new.stop = TRUE /\ new.ids = acc.ids /\ new.kids = acc.kids BY <2>1 DEF Acc
  <2>3. \A x \in B : Local(m, acc.ids, acc.kids, x) BY <1>1 DEF Local
  <2> HIDE DEF new
  <2> QED BY <2>2, <2>3 DEF new
<1>2. CASE ~acc.stop /\ is # was
  <2> DEFINE ids == IF is THEN acc.ids \cup {c} ELSE acc.ids \ {c}
             kids == IF p = Root THEN acc.kids
                     ELSE [acc.kids EXCEPT ![p] = IF is THEN @ - 1 ELSE @ + 1]
  <2>1. new = [stop |-> FALSE, ids |-> ids, kids |-> kids] BY <1>2 DEF Climb
  <2>2. acc.ids \in SUBSET Blocks /\ acc.kids \in [Blocks -> Int] /\ acc.stop = FALSE
    BY <1>2 DEF Acc
  <2>3. p # Root => p \in B BY DEF Closed
  <2>4. p # c BY <1>0, NotOwnParent
  <2>a. acc.ids \subseteq B BY DEF Counted
  <2>5. ids \in SUBSET Blocks /\ kids \in [Blocks -> Int] /\ ids \subseteq B
    BY <1>0, <2>2, <2>3, <2>a
  <2>6. new \in Acc /\ new.ids = ids /\ new.kids = kids /\ new.stop = FALSE
    BY <2>1, <2>2, <2>5 DEF Acc
  <2>7. \A x \in Blocks : kids[x] = IF x \in B THEN Cardinality(KidsIn(B, x) \ ids) ELSE 0
    <3> SUFFICES ASSUME NEW x \in Blocks
                 PROVE  kids[x] = IF x \in B THEN Cardinality(KidsIn(B, x) \ ids) ELSE 0
      OBVIOUS
    <3>1. acc.kids[x] = IF x \in B THEN Cardinality(KidsIn(B, x) \ acc.ids) ELSE 0
      BY DEF Counted
    <3>2. CASE x # p
      <4>1. c \notin KidsIn(B, x) BY <3>2 DEF KidsIn
      <4>2. KidsIn(B, x) \ ids = KidsIn(B, x) \ acc.ids BY <4>1
      <4>3. kids[x] = acc.kids[x] BY <2>2, <3>2
      <4> QED BY <3>1, <4>2, <4>3
    <3>3. CASE x = p
      <4>1. p # Root /\ p \in B BY <2>3, <3>3, PrefixIndexAssumption
      <4>2. c \in KidsIn(B, p) BY DEF KidsIn
      <4>3. IsFiniteSet(KidsIn(B, p) \ acc.ids) /\ IsFiniteSet(KidsIn(B, p) \ ids)
        <5>1. KidsIn(B, p) \ acc.ids \subseteq B /\ KidsIn(B, p) \ ids \subseteq B BY DEF KidsIn
        <5> QED BY <5>1, FS_Subset
      <4>4. CASE is
        <5>1. KidsIn(B, p) \ ids = (KidsIn(B, p) \ acc.ids) \ {c} BY <4>4
        <5>2. c \in KidsIn(B, p) \ acc.ids BY <1>2, <4>2, <4>4
        <5>3. Cardinality(KidsIn(B, p) \ ids) = Cardinality(KidsIn(B, p) \ acc.ids) - 1
          <6> DEFINE S == KidsIn(B, p) \ acc.ids
                     R == KidsIn(B, p) \ ids
          <6>1. IsFiniteSet(S) /\ c \in S /\ R = S \ {c} BY <4>3, <5>1, <5>2
          <6> HIDE DEF S, R
          <6>2. Cardinality(R) = Cardinality(S) - 1 BY <6>1, FS_RemoveElement
          <6> QED BY <6>2 DEF S, R
        <5>4. kids[p] = acc.kids[p] - 1 BY <2>2, <3>3, <4>1, <4>4
        <5> QED BY <3>1, <3>3, <4>1, <5>3, <5>4
      <4>5. CASE ~is
        <5>1. KidsIn(B, p) \ acc.ids = (KidsIn(B, p) \ ids) \ {c} BY <1>2, <4>5
        <5>2. c \in KidsIn(B, p) \ ids BY <4>2, <4>5
        <5>3. Cardinality(KidsIn(B, p) \ acc.ids) = Cardinality(KidsIn(B, p) \ ids) - 1
          <6> DEFINE S == KidsIn(B, p) \ acc.ids
                     R == KidsIn(B, p) \ ids
          <6>1. IsFiniteSet(R) /\ c \in R /\ S = R \ {c} BY <4>3, <5>1, <5>2
          <6> HIDE DEF S, R
          <6>2. Cardinality(S) = Cardinality(R) - 1 BY <6>1, FS_RemoveElement
          <6> QED BY <6>2 DEF S, R
        <5>4. Cardinality(KidsIn(B, p) \ ids) \in Nat BY <4>3, FS_CardinalityType
        <5>5. kids[p] = acc.kids[p] + 1 BY <2>2, <3>3, <4>1, <4>5
        <5> QED BY <3>1, <3>3, <4>1, <5>3, <5>4, <5>5
      <4> QED BY <4>4, <4>5
    <3> QED BY <3>2, <3>3
  <2>8. ASSUME NEW x \in B, x # p PROVE Local(m, ids, kids, x)
    <3>1. kids[x] = acc.kids[x] BY <1>0, <2>2, <2>8
    <3>2. CASE x = c
      BY <1>2, <3>1, <3>2 DEF Local
    <3>3. CASE x # c
      <4>1. Local(m, acc.ids, acc.kids, x) BY <1>2, <3>3
      <4>2. x \in ids <=> x \in acc.ids BY <3>3
      <4> HIDE DEF ids, kids
      <4> QED BY <3>1, <4>1, <4>2 DEF Local
    <3> QED BY <3>2, <3>3
  <2> HIDE DEF new, ids, kids
  <2>9. Counted(B, ids, kids) BY <2>5, <2>7 DEF Counted
  <2> QED BY <2>6, <2>8, <2>9 DEF new
<1> QED BY <1>1, <1>2

\* A path from a block to the root, as _refresh_freeable_path walks it.
LEMMA UpPath ==
  ASSUME NEW B, Closed(B), NEW b \in B
  PROVE  LET N == Len(PathOf[b])
             up == Reverse(PathOf[b])
         IN  /\ N \in Nat /\ N # 0 /\ DOMAIN up = 1..N
             /\ up[1] = b
             /\ \A k \in 1..N : up[k] \in B
             /\ \A k \in 1..(N - 1) : ParentOf[up[k]] = up[k + 1]
             /\ ParentOf[up[N]] = Root
<1> DEFINE N == Len(PathOf[b])
           up == Reverse(PathOf[b])
<1>1. b \in Blocks BY DEF Closed
<1>2. N \in Nat /\ N # 0 /\ PathOf[b][N] = b BY <1>1, PathSteps
<1>3. up = [i \in 1..N |-> PathOf[b][(N - i) + 1]] BY DEF Reverse
<1>4. \A i \in 1..N : /\ PathOf[b][i] \in B
                      /\ ParentOf[PathOf[b][i]] = IF i = 1 THEN Root ELSE PathOf[b][i - 1]
  BY <1>1, <1>2, PathSteps, ClosedPath
<1> HIDE DEF N, up
<1>5. DOMAIN up = 1..N BY <1>3
<1>6. \A k \in 1..N : up[k] = PathOf[b][N - k + 1] /\ N - k + 1 \in 1..N BY <1>2, <1>3
<1>7. up[1] = b BY <1>2, <1>6
<1>8. \A k \in 1..N : up[k] \in B BY <1>4, <1>6
<1>9. \A k \in 1..(N - 1) : ParentOf[up[k]] = up[k + 1]
  <2> SUFFICES ASSUME NEW k \in 1..(N - 1) PROVE ParentOf[up[k]] = up[k + 1]
    OBVIOUS
  <2>1. k \in 1..N /\ k + 1 \in 1..N /\ N - k + 1 # 1 /\ N - (k + 1) + 1 = N - k
        /\ N - k + 1 - 1 = N - k
    BY <1>2
  <2>2. up[k] = PathOf[b][N - k + 1] /\ N - k + 1 \in 1..N /\ up[k + 1] = PathOf[b][N - k]
    BY <1>6, <2>1
  <2>3. ParentOf[PathOf[b][N - k + 1]] = PathOf[b][N - k]
    <3> DEFINE i == N - k + 1
    <3>1. i \in 1..N /\ i # 1 /\ i - 1 = N - k BY <1>2, <2>1, <2>2
    <3> HIDE DEF i
    <3>2. ParentOf[PathOf[b][i]] = PathOf[b][i - 1] BY <1>4, <3>1
    <3> QED BY <3>1, <3>2 DEF i
  <2> QED BY <2>2, <2>3
<1>10. ParentOf[up[N]] = Root
  <2>1. N \in 1..N /\ N - N + 1 = 1 BY <1>2
  <2> QED BY <1>4, <1>6, <2>1
<1> QED BY <1>2, <1>5, <1>7, <1>8, <1>9, <1>10 DEF N, up

\* _refresh_freeable_path settles the set when only the block it starts from
\* was not, although it stops at the first block that stays as it is.
LEMMA RefreshSettles ==
  ASSUME NEW B, Closed(B), IsFiniteSet(B), NEW m, NEW f, FreesType(f), NEW b \in B,
         SettledBut(B, m, f, b)
  PROVE  /\ FreesType(Refresh(f, m, b))
         /\ Settled(B, m, Refresh(f, m, b))
         /\ Refresh(f, m, b).built = f.built
<1>1. CASE ~f.built
  BY <1>1 DEF Refresh, Settled
<1>2. CASE f.built
  <2> DEFINE N == Len(PathOf[b])
             up == Reverse(PathOf[b])
             base == [stop |-> FALSE, ids |-> f.ids, kids |-> f.kids]
  <2>1. /\ N \in Nat /\ N # 0 /\ DOMAIN up = 1..N /\ up[1] = b
        /\ \A k \in 1..N : up[k] \in B
        /\ \A k \in 1..(N - 1) : ParentOf[up[k]] = up[k + 1]
        /\ ParentOf[up[N]] = Root
    BY UpPath
  <2>0. base \in Acc /\ base.stop = FALSE /\ base.ids = f.ids /\ base.kids = f.kids
    BY DEF FreesType, Acc
  <2> HIDE DEF N, up, base
  <2>c. N \in Nat /\ DOMAIN up = 1..N BY <2>1
  <2>h. PICK h : ClimbedBy(m, base, up, N, h) BY <2>c, ClimbChain
  <2>2. /\ h[0] = base
        /\ \A k \in 1..N : h[k] = Climb(m, h[k-1], up[k])
        /\ Climbed(m, base, up) = h[N]
    BY <2>h DEF ClimbedBy
  <2> DEFINE Ok(k) == /\ h[k] \in Acc
                      /\ Counted(B, h[k].ids, h[k].kids)
                      /\ IF h[k].stop \/ k = N THEN \A x \in B : Local(m, h[k].ids, h[k].kids, x)
                         ELSE \A x \in B \ {up[k + 1]} : Local(m, h[k].ids, h[k].kids, x)
             P == {k \in 0..N : Ok(k)}
  <2>3. 0 \in P
    <3>1. 0 # N /\ up[0 + 1] = b BY <2>1
    <3>2. h[0] = base BY <2>2
    <3>3. Ok(0) BY <1>2, <2>0, <3>1, <3>2 DEF SettledBut
    <3> QED BY <2>1, <3>3
  <2>4. ASSUME NEW k \in 0..(N - 1), k \in P PROVE k + 1 \in P
    <3>0. k + 1 \in 1..N /\ k # N /\ k + 1 - 1 = k BY <2>1
    <3> DEFINE c == up[k + 1]
    <3>1. h[k + 1] = Climb(m, h[k], c) BY <2>2, <3>0
    <3>2. h[k] \in Acc /\ c \in B /\ Counted(B, h[k].ids, h[k].kids) BY <2>1, <2>4, <3>0
    <3>3. IF h[k].stop THEN \A x \in B : Local(m, h[k].ids, h[k].kids, x)
          ELSE \A x \in B \ {c} : Local(m, h[k].ids, h[k].kids, x)
      BY <2>4, <3>0
    <3> HIDE DEF Ok, P
    <3>4. /\ h[k + 1] \in Acc
          /\ Counted(B, h[k + 1].ids, h[k + 1].kids)
          /\ h[k + 1].stop => \A x \in B : Local(m, h[k + 1].ids, h[k + 1].kids, x)
          /\ ~h[k + 1].stop =>
               \A x \in B \ {ParentOf[c]} : Local(m, h[k + 1].ids, h[k + 1].kids, x)
      <4> DEFINE a == h[k]
      <4> HIDE DEF a, c
      <4>1. /\ a \in Acc /\ c \in B /\ Counted(B, a.ids, a.kids)
            /\ IF a.stop THEN \A x \in B : Local(m, a.ids, a.kids, x)
               ELSE \A x \in B \ {c} : Local(m, a.ids, a.kids, x)
        BY <3>2, <3>3 DEF a
      <4> QED BY <3>1, <4>1, ClimbStep DEF a
    <3>5. CASE k + 1 = N
      <4>1. ParentOf[c] = Root BY <2>1, <3>5
      <4>2. Root \notin B BY PrefixIndexAssumption DEF Closed
      <4>3. \A x \in B : Local(m, h[k + 1].ids, h[k + 1].kids, x) BY <3>4, <4>1, <4>2
      <4> QED BY <3>0, <3>4, <4>3 DEF P, Ok
    <3>6. CASE k + 1 # N
      <4>1. k + 1 \in 1..(N - 1) BY <2>1, <3>0, <3>6
      <4>2. ParentOf[c] = up[k + 2] /\ k + 1 + 1 = k + 2 BY <2>1, <4>1
      <4> HIDE DEF c
      <4> QED BY <3>0, <3>4, <3>6, <4>2 DEF P, Ok
    <3> QED BY <3>5, <3>6
  <2> HIDE DEF P
  <2>a. N \in Nat /\ N \in 0..N BY <2>1
  <2>5. N \in P BY <2>a, <2>3, <2>4, Upto
  <2>6. Ok(N) BY <2>5 DEF P
  <2>7. Refresh(f, m, b) = [f EXCEPT !.ids = h[N].ids, !.kids = h[N].kids]
    BY <1>2, <2>2 DEF Refresh, Climbed, base, up
  <2>8. h[N] \in Acc /\ Counted(B, h[N].ids, h[N].kids)
        /\ \A x \in B : Local(m, h[N].ids, h[N].kids, x)
    BY <2>6
  <2>9. /\ h[N].ids \in SUBSET Blocks /\ h[N].kids \in [Blocks -> Int] BY <2>8 DEF Acc
  <2> DEFINE g == Refresh(f, m, b)
  <2>10. FreesType(g) /\ g.built = f.built /\ g.ids = h[N].ids /\ g.kids = h[N].kids
    BY <2>7, <2>9 DEF FreesType
  <2> HIDE DEF g
  <2>11. Settled(B, m, g) BY <2>8, <2>10 DEF Settled
  <2> QED BY <2>10, <2>11 DEF g
<1>3. f.built \in BOOLEAN BY DEF FreesType
<1> QED BY <1>1, <1>2, <1>3

\* Block b at least agrees.
SettledAt(m, f, b) == f.built => Local(m, f.ids, f.kids, b)

\* It does nothing when the block it starts from is settled.
LEMMA RefreshNothing ==
  ASSUME NEW m, NEW f, FreesType(f), NEW b \in Blocks, SettledAt(m, f, b)
  PROVE  Refresh(f, m, b) = f
<1>1. CASE ~f.built
  BY <1>1 DEF Refresh
<1>2. CASE f.built
  <2> DEFINE N == Len(PathOf[b])
             up == Reverse(PathOf[b])
             base == [stop |-> FALSE, ids |-> f.ids, kids |-> f.kids]
  <2>1. /\ N \in Nat /\ N # 0 /\ DOMAIN up = 1..N /\ up[1] = b
    <3>1. Closed(Blocks) BY PrefixIndexAssumption DEF Closed
    <3> QED BY <3>1, UpPath
  <2> HIDE DEF N, up, base
  <2>c. N \in Nat /\ DOMAIN up = 1..N BY <2>1
  <2>h. PICK h : ClimbedBy(m, base, up, N, h) BY <2>c, ClimbChain
  <2>2. /\ h[0] = base
        /\ \A k \in 1..N : h[k] = Climb(m, h[k-1], up[k])
        /\ Climbed(m, base, up) = h[N]
    BY <2>h DEF ClimbedBy
  <2> DEFINE done == [stop |-> TRUE, ids |-> f.ids, kids |-> f.kids]
  <2>3. h[1] = done
    <3>1. h[1] = Climb(m, base, b) BY <2>1, <2>2
    <3>2. (b \in base.ids) = (base.kids[b] = 0 /\ Free(m[b])) BY <1>2 DEF SettledAt, Local, Free, base
    <3> QED BY <3>1, <3>2 DEF Climb, base
  <2> DEFINE P == {k \in 0..(N - 1) : h[k + 1] = done}
  <2>4. 0 \in P BY <2>1, <2>3
  <2>5. ASSUME NEW k \in 0..(N - 1 - 1), k \in P PROVE k + 1 \in P
    <3>1. k + 2 \in 1..N /\ k + 2 - 1 = k + 1 /\ k + 1 \in 0..(N - 1) /\ k + 1 + 1 = k + 2
      BY <2>1
    <3>2. h[k + 2] = Climb(m, done, up[k + 2]) BY <2>2, <2>5, <3>1
    <3>3. h[k + 2] = done BY <3>2 DEF Climb
    <3> QED BY <3>1, <3>3
  <2>6. N - 1 \in Nat BY <2>1
  <2> HIDE DEF P
  <2>7. N - 1 \in P BY <2>4, <2>5, <2>6, Upto
  <2>8. h[N] = done BY <2>1, <2>7 DEF P
  <2>9. Refresh(f, m, b) = [f EXCEPT !.ids = done.ids, !.kids = done.kids]
    BY <1>2, <2>2, <2>8 DEF Refresh, Climbed, up, base
  <2> QED BY <2>9 DEF FreesType
<1>3. f.built \in BOOLEAN BY DEF FreesType
<1> QED BY <1>1, <1>2, <1>3

-----------------------------------------------------------------------------
(* Residency and references.                                               *)

Meta == [ref : Nat, pinned : BOOLEAN, dev : BOOLEAN, host : BOOLEAN, xfer : {"none", "D2H", "H2D"}]

\* The inductive invariant.
Inv == TypeOK /\ ResidencyContiguous /\ HeldBlocksLive /\ IsFiniteSet(blocks)

Holders(b) == {r \in Requests : b \in held[r]}

-----------------------------------------------------------------------------
\* What Change, the step most operations of the index end with, leaves behind.
LEMMA ChangeMeta ==
  ASSUME TypeOK, NEW b \in Blocks, NEW m \in Meta, Change(b, m)
  PROVE  /\ meta' \in [Blocks -> Meta]
         /\ meta'[b] = m
         /\ \A c \in Blocks : c # b => meta'[c] = meta[c]
BY DEF TypeOK, Change, Meta

\* A step that changes one live block only, and keeps its payloads, its
\* transfer and its holders as the invariant wants them, keeps the invariant.
LEMMA OneBlock ==
  ASSUME Inv, NEW b \in blocks,
         UNCHANGED <<blocks, held>>,
         meta' \in [Blocks -> Meta],
         \A c \in Blocks : c # b => meta'[c] = meta[c],
         meta'[b].ref = meta[b].ref,
         meta'[b].dev \/ meta'[b].host,
         meta'[b].xfer = "D2H" => meta'[b].dev /\ ~meta'[b].host,
         meta'[b].xfer = "H2D" => meta'[b].dev /\ meta'[b].host,
         ParentOf[b] # b,
         ParentOf[b] # Root => /\ meta'[b].dev => meta[ParentOf[b]].dev
                               /\ meta'[b].host => meta[ParentOf[b]].host,
         \A c \in Kids(b) : /\ meta[c].dev => meta'[b].dev
                            /\ meta[c].host => meta'[b].host
  PROVE  Inv'
<1>1. blocks \subseteq Blocks BY DEF Inv, TypeOK
<1>2. TypeOK' BY <1>1 DEF Inv, TypeOK, Meta
<1>3. ResidencyContiguous'
  <2> SUFFICES ASSUME NEW c \in blocks
               PROVE  /\ meta'[c].dev \/ meta'[c].host
                      /\ meta'[c].xfer = "D2H" => meta'[c].dev /\ ~meta'[c].host
                      /\ meta'[c].xfer = "H2D" => meta'[c].dev /\ meta'[c].host
                      /\ ParentOf[c] # Root => /\ ParentOf[c] \in blocks
                                               /\ meta'[c].dev => meta'[ParentOf[c]].dev
                                               /\ meta'[c].host => meta'[ParentOf[c]].host
    BY DEF ResidencyContiguous
  <2>1. CASE c = b
    BY <2>1, <1>1 DEF Inv, ResidencyContiguous
  <2>2. CASE c # b /\ ParentOf[c] # b
    BY <2>2, <1>1 DEF Inv, ResidencyContiguous
  <2>3. CASE c # b /\ ParentOf[c] = b
    BY <2>3, <1>1 DEF Inv, ResidencyContiguous, Kids
  <2> QED BY <2>1, <2>2, <2>3
<1>4. HeldBlocksLive'
  BY <1>1 DEF Inv, HeldBlocksLive
<1>5. IsFiniteSet(blocks') BY DEF Inv
<1> QED BY <1>2, <1>3, <1>4, <1>5 DEF Inv

\* The holders of a block are finitely many.
LEMMA HoldersFinite == \A b : IsFiniteSet(Holders(b))
BY PrefixIndexAssumption, FS_Subset DEF Holders

-----------------------------------------------------------------------------
\* The empty index satisfies the invariant.
LEMMA InitInv == Init => Inv
<1> SUFFICES ASSUME Init PROVE Inv
  OBVIOUS
<1>1. \A b \in Blocks : {r \in Requests : b \in held[r]} = {}
  BY DEF Init
<1>2. TypeOK /\ ResidencyContiguous
  BY DEF Init, TypeOK, Gone, ResidencyContiguous
<1>3. HeldBlocksLive
  BY <1>1, FS_EmptySet DEF Init, HeldBlocksLive, Gone
<1>4. IsFiniteSet(blocks) BY FS_EmptySet DEF Init
<1> QED BY <1>2, <1>3, <1>4 DEF Inv

\* Reference counting changes the count of one block and nothing else.
LEMMA RefMeta ==
  ASSUME Inv, NEW b \in blocks, NEW n \in Nat, SetRefCount(b, n)
  PROVE  /\ blocks' = blocks
         /\ meta' \in [Blocks -> Meta]
         /\ meta'[b] = [meta[b] EXCEPT !.ref = n]
         /\ \A c \in Blocks : c # b => meta'[c] = meta[c]
<1>1. b \in Blocks /\ meta \in [Blocks -> Meta] /\ blocks' = blocks
  BY DEF Inv, TypeOK, SetRefCount, Meta
<1>2. [meta[b] EXCEPT !.ref = n] \in Meta
  BY <1>1 DEF Meta
<1>3. CASE Change(b, [meta[b] EXCEPT !.ref = n])
  BY <1>1, <1>2, <1>3, ChangeMeta DEF Inv
<1>4. CASE meta' = [meta EXCEPT ![b].ref = n]
  BY <1>1, <1>2, <1>4 DEF Meta
<1> QED BY <1>3, <1>4 DEF SetRefCount

\* Residency does not depend on reference counts.
LEMMA RefResidency ==
  ASSUME Inv, NEW b \in blocks, NEW n \in Nat, SetRefCount(b, n),
         held' \in [Requests -> SUBSET Blocks]
  PROVE  TypeOK' /\ ResidencyContiguous'
<1>1. blocks \subseteq Blocks /\ meta \in [Blocks -> Meta]
  BY DEF Inv, TypeOK, Meta
<1>2. /\ blocks' = blocks
      /\ meta' \in [Blocks -> Meta]
      /\ meta'[b] = [meta[b] EXCEPT !.ref = n]
      /\ \A c \in Blocks : c # b => meta'[c] = meta[c]
  BY RefMeta
<1>a. \A c \in Blocks : /\ meta'[c].dev = meta[c].dev /\ meta'[c].host = meta[c].host
                        /\ meta'[c].xfer = meta[c].xfer
  BY <1>1, <1>2 DEF Meta
<1>3. TypeOK'
  BY <1>1, <1>2 DEF Inv, TypeOK, Meta
<1>4. ResidencyContiguous'
  BY <1>1, <1>2, <1>a, PrefixIndexAssumption, ZenonT(30) DEF Inv, ResidencyContiguous
<1> QED BY <1>3, <1>4

\* A reference on a live block: one more holder, one more in the count.
LEMMA AcquireInv ==
  ASSUME Inv, NEW r \in Requests, NEW b \in Blocks, Acquire(r, b)
  PROVE  Inv'
<1>1. b \in blocks /\ b \notin held[r] /\ held \in [Requests -> SUBSET Blocks]
  BY DEF Acquire, NextBlock, Inv, TypeOK
<1>2. meta[b].ref + 1 \in Nat /\ SetRefCount(b, meta[b].ref + 1)
  BY <1>1 DEF Acquire, Inv, TypeOK
<1>3. held' = [held EXCEPT ![r] = @ \cup {b}]
  BY DEF Acquire
<1>4. TypeOK' /\ ResidencyContiguous'
  BY <1>1, <1>2, <1>3, RefResidency
<1>5. \A c \in Blocks : meta'[c].ref = Cardinality(Holders(c)')
  <2> SUFFICES ASSUME NEW c \in Blocks PROVE meta'[c].ref = Cardinality(Holders(c)')
    OBVIOUS
  <2>1. meta[c].ref = Cardinality(Holders(c))
    BY DEF Inv, HeldBlocksLive, Holders
  <2>2. CASE c = b
    <3>1. Holders(b)' = Holders(b) \cup {r} /\ r \notin Holders(b)
      BY <1>1, <1>3 DEF Holders
    <3>2. Cardinality(Holders(b)') = Cardinality(Holders(b)) + 1
      BY <3>1, HoldersFinite, FS_AddElement
    <3>3. meta'[b] = [meta[b] EXCEPT !.ref = meta[b].ref + 1]
      BY <1>1, <1>2, RefMeta
    <3>4. meta[b] \in Meta
      BY DEF Inv, TypeOK, Meta
    <3>5. meta'[b].ref = meta[b].ref + 1
      BY <3>3, <3>4 DEF Meta
    <3> QED BY <2>1, <2>2, <3>2, <3>5
  <2>3. CASE c # b
    <3>1. Holders(c)' = Holders(c)
      BY <1>1, <1>3, <2>3 DEF Holders
    <3> QED BY <1>1, <1>2, <2>1, <2>3, <3>1, RefMeta
  <2> QED BY <2>2, <2>3
<1>6. HeldBlocksLive'
  BY <1>1, <1>2, <1>3, <1>5, RefMeta DEF HeldBlocksLive, Holders, Inv
<1>7. IsFiniteSet(blocks') BY <1>1, <1>2, RefMeta DEF Inv
<1> QED BY <1>4, <1>6, <1>7 DEF Inv

\* A reference given back: one holder fewer, one fewer in the count.
LEMMA ReleaseInv ==
  ASSUME Inv, NEW r \in Requests, NEW b \in Blocks, Release(r, b)
  PROVE  Inv'
<1>1. b \in blocks /\ b \in held[r] /\ held \in [Requests -> SUBSET Blocks]
  BY DEF Release, Inv, TypeOK, HeldBlocksLive
<1>2. meta[b].ref = Cardinality(Holders(b)) /\ r \in Holders(b)
  BY <1>1 DEF Inv, HeldBlocksLive, Holders
<1>3. Cardinality(Holders(b) \ {r}) = Cardinality(Holders(b)) - 1
      /\ Cardinality(Holders(b) \ {r}) \in Nat
  BY <1>2, HoldersFinite, FS_RemoveElement, FS_CardinalityType
<1>4. meta[b].ref - 1 \in Nat /\ SetRefCount(b, meta[b].ref - 1)
  BY <1>2, <1>3 DEF Release
<1>5. held' = [held EXCEPT ![r] = @ \ {b}]
  BY DEF Release
<1>6. TypeOK' /\ ResidencyContiguous'
  BY <1>1, <1>4, <1>5, RefResidency
<1>7. \A c \in Blocks : meta'[c].ref = Cardinality(Holders(c)')
  <2> SUFFICES ASSUME NEW c \in Blocks PROVE meta'[c].ref = Cardinality(Holders(c)')
    OBVIOUS
  <2>1. meta[c].ref = Cardinality(Holders(c))
    BY DEF Inv, HeldBlocksLive, Holders
  <2>2. CASE c = b
    <3>1. Holders(b)' = Holders(b) \ {r}
      BY <1>1, <1>5 DEF Holders
    <3>2. meta'[b] = [meta[b] EXCEPT !.ref = meta[b].ref - 1]
      BY <1>1, <1>4, RefMeta
    <3>3. meta[b] \in Meta
      BY DEF Inv, TypeOK, Meta
    <3>4. meta'[b].ref = meta[b].ref - 1
      BY <3>2, <3>3 DEF Meta
    <3> QED BY <1>2, <1>3, <2>2, <3>1, <3>4
  <2>3. CASE c # b
    <3>1. Holders(c)' = Holders(c)
      BY <1>1, <1>5, <2>3 DEF Holders
    <3> QED BY <1>1, <1>4, <2>1, <2>3, <3>1, RefMeta
  <2> QED BY <2>2, <2>3
<1>8. HeldBlocksLive'
  BY <1>1, <1>4, <1>5, <1>7, RefMeta DEF HeldBlocksLive, Holders, Inv
<1>9. IsFiniteSet(blocks') BY <1>1, <1>4, RefMeta DEF Inv
<1> QED BY <1>6, <1>8, <1>9 DEF Inv

\* A new block starts on the device below a parent on the device, held once.
LEMMA InsertInv ==
  ASSUME Inv, NEW r \in Requests, NEW b \in Blocks, InsertBlock(r, b)
  PROVE  Inv'
<1> DEFINE p == ParentOf[b]
           new == [Gone EXCEPT !.ref = 1, !.dev = TRUE]
<1>1. /\ b \notin blocks /\ blocks' = blocks \cup {b}
      /\ p # Root => p \in blocks /\ meta[p].dev
      /\ meta' = [meta EXCEPT ![b] = new]
      /\ held' = [held EXCEPT ![r] = @ \cup {b}]
  BY DEF InsertBlock
<1>2. /\ blocks \subseteq Blocks /\ meta \in [Blocks -> Meta]
      /\ held \in [Requests -> SUBSET Blocks]
  BY DEF Inv, TypeOK, Meta
<1>3. new \in Meta /\ new.ref = 1 /\ new.dev /\ ~new.host /\ new.xfer = "none"
  BY DEF Gone, Meta
<1>4. TypeOK'
  BY <1>1, <1>2, <1>3 DEF Inv, TypeOK, Meta
<1>5. ResidencyContiguous'
  <2>1. \A c \in blocks : ParentOf[c] # b
    BY <1>1, <1>2, PrefixIndexAssumption DEF Inv, ResidencyContiguous
  <2>2. p # b
    BY NotOwnParent
  <2> QED BY <1>1, <1>2, <1>3, <2>1, <2>2 DEF Inv, ResidencyContiguous
<1>6. \A c \in Blocks : meta'[c].ref = Cardinality(Holders(c)')
  <2> SUFFICES ASSUME NEW c \in Blocks PROVE meta'[c].ref = Cardinality(Holders(c)')
    OBVIOUS
  <2>1. CASE c = b
    <3>1. Holders(b)' = {r}
      BY <1>1, <1>2 DEF Holders, Inv, HeldBlocksLive
    <3> QED BY <1>1, <1>2, <1>3, <2>1, <3>1, FS_Singleton
  <2>2. CASE c # b
    <3>1. Holders(c)' = Holders(c) /\ meta'[c] = meta[c]
      BY <1>1, <1>2, <2>2 DEF Holders
    <3> QED BY <3>1 DEF Inv, HeldBlocksLive, Holders
  <2> QED BY <2>1, <2>2
<1>7. HeldBlocksLive'
  BY <1>1, <1>2, <1>6 DEF HeldBlocksLive, Holders, Inv
<1>8. IsFiniteSet(blocks') BY <1>1, FS_AddElement DEF Inv
<1> QED BY <1>4, <1>5, <1>7, <1>8 DEF Inv

\* What is removed has no child and no holder, so nothing is left dangling.
LEMMA RemoveInv ==
  ASSUME Inv, NEW b \in Blocks, RemoveBlock(b)
  PROVE  Inv'
<1>1. /\ b \in blocks /\ blocks' = blocks \ {b} /\ Kids(b) = {} /\ meta[b].ref = 0
      /\ meta' = [meta EXCEPT ![b] = Gone] /\ held' = held
  BY DEF RemoveBlock, Removable, Free
<1>2. blocks \subseteq Blocks /\ meta \in [Blocks -> Meta]
  BY DEF Inv, TypeOK, Meta
<1>3. Gone \in Meta /\ Gone.ref = 0
  BY DEF Gone, Meta
<1>4. TypeOK'
  BY <1>1, <1>2, <1>3 DEF Inv, TypeOK, Meta
<1>5. ResidencyContiguous'
  BY <1>1, <1>2 DEF Inv, ResidencyContiguous, Kids
<1>6. Holders(b) = {}
  BY <1>1, HoldersFinite, FS_EmptySet DEF Inv, HeldBlocksLive, Holders
<1>7. HeldBlocksLive'
  BY <1>1, <1>2, <1>3, <1>6 DEF Inv, HeldBlocksLive, Holders
<1>8. IsFiniteSet(blocks') BY <1>1, FS_RemoveElement DEF Inv
<1> QED BY <1>4, <1>5, <1>7, <1>8 DEF Inv

-----------------------------------------------------------------------------
\* The steps of a transfer, and the step off the device.
LEMMA TransferInv ==
  ASSUME Inv, NEW b \in Blocks,
         \/ BeginD2H(b) \/ FinishD2H(b) \/ AbortD2H(b)
         \/ BeginH2D(b) \/ FinishH2D(b) \/ AbortH2D(b) \/ Demote(b)
  PROVE  Inv'
<1>1. b \in blocks /\ UNCHANGED <<blocks, held>>
  BY DEF BeginD2H, FinishD2H, AbortD2H, BeginH2D, FinishH2D, AbortH2D, Demote
<1>2. blocks \subseteq Blocks /\ meta \in [Blocks -> Meta] /\ meta[b] \in Meta
  BY DEF Inv, TypeOK, Meta
<1>3. ParentOf[b] # b
  BY NotOwnParent
<1>4. /\ meta[b].dev \/ meta[b].host
      /\ meta[b].xfer = "D2H" => meta[b].dev /\ ~meta[b].host
      /\ meta[b].xfer = "H2D" => meta[b].dev /\ meta[b].host
      /\ ParentOf[b] # Root => /\ meta[b].dev => meta[ParentOf[b]].dev
                               /\ meta[b].host => meta[ParentOf[b]].host
      /\ \A c \in Kids(b) : /\ meta[c].dev => meta[b].dev
                            /\ meta[c].host => meta[b].host
  BY <1>1, PrefixIndexAssumption DEF Inv, ResidencyContiguous, Kids
<1> DEFINE Only(m) == /\ meta' \in [Blocks -> Meta] /\ meta'[b] = m
                      /\ \A c \in Blocks : c # b => meta'[c] = meta[c]
<1>5. CASE BeginD2H(b)
  <2> DEFINE m == [meta[b] EXCEPT !.xfer = "D2H"]
  <2>1. m \in Meta /\ Change(b, m) BY <1>2, <1>5 DEF BeginD2H, Meta
  <2>2. Only(m) BY <2>1, ChangeMeta DEF Inv
  <2>3. m.ref = meta[b].ref /\ m.dev = meta[b].dev /\ m.host = meta[b].host /\ m.xfer = "D2H"
    BY <1>2 DEF Meta
  <2>4. ~meta[b].host BY <1>5 DEF BeginD2H
  <2> HIDE DEF m
  <2> QED BY <1>1, <1>3, <1>4, <2>2, <2>3, <2>4, OneBlock
<1>6. CASE FinishD2H(b)
  <2> DEFINE m == [meta[b] EXCEPT !.host = TRUE, !.xfer = "none"]
  <2>1. m \in Meta /\ Change(b, m) BY <1>2, <1>6 DEF FinishD2H, Meta
  <2>2. Only(m) BY <2>1, ChangeMeta DEF Inv
  <2>3. m.ref = meta[b].ref /\ m.dev = meta[b].dev /\ m.host /\ m.xfer = "none"
    BY <1>2 DEF Meta
  <2>4. ParentOf[b] # Root => meta[ParentOf[b]].host BY <1>6 DEF FinishD2H
  <2> HIDE DEF m
  <2> QED BY <1>1, <1>3, <1>4, <2>2, <2>3, <2>4, OneBlock
<1>7. CASE AbortD2H(b) \/ FinishH2D(b)
  <2> DEFINE m == [meta[b] EXCEPT !.xfer = "none"]
  <2>1. m \in Meta /\ Change(b, m) BY <1>2, <1>7 DEF AbortD2H, FinishH2D, Meta
  <2>2. Only(m) BY <2>1, ChangeMeta DEF Inv
  <2>3. m.ref = meta[b].ref /\ m.dev = meta[b].dev /\ m.host = meta[b].host /\ m.xfer = "none"
    BY <1>2 DEF Meta
  <2> HIDE DEF m
  <2> QED BY <1>1, <1>3, <1>4, <2>2, <2>3, OneBlock
<1>8. CASE BeginH2D(b)
  <2> DEFINE m == [meta[b] EXCEPT !.dev = TRUE, !.xfer = "H2D"]
  <2>1. m \in Meta /\ Change(b, m) BY <1>2, <1>8 DEF BeginH2D, Meta
  <2>2. Only(m) BY <2>1, ChangeMeta DEF Inv
  <2>3. m.ref = meta[b].ref /\ m.dev /\ m.host = meta[b].host /\ m.xfer = "H2D"
    BY <1>2 DEF Meta
  <2>4. meta[b].host /\ (ParentOf[b] # Root => meta[ParentOf[b]].dev) BY <1>8 DEF BeginH2D
  <2> HIDE DEF m
  <2> QED BY <1>1, <1>3, <1>4, <2>2, <2>3, <2>4, OneBlock
<1>9. CASE AbortH2D(b)
  <2> DEFINE m == [meta[b] EXCEPT !.dev = FALSE, !.xfer = "none"]
  <2>1. m \in Meta /\ Change(b, m) BY <1>2, <1>9 DEF AbortH2D, Meta
  <2>2. Only(m) BY <2>1, ChangeMeta DEF Inv
  <2>3. m.ref = meta[b].ref /\ ~m.dev /\ m.host = meta[b].host /\ m.xfer = "none"
    BY <1>2 DEF Meta
  <2>4. meta[b].host BY <1>4, <1>9 DEF AbortH2D
  <2>5. \A c \in Kids(b) : ~meta[c].dev BY <1>9 DEF AbortH2D, DeviceKids
  <2> HIDE DEF m
  <2> QED BY <1>1, <1>3, <1>4, <2>2, <2>3, <2>4, <2>5, OneBlock
<1>10. CASE Demote(b)
  <2> DEFINE m == [meta[b] EXCEPT !.dev = FALSE]
  <2>1. m \in Meta /\ meta' = [meta EXCEPT ![b] = m] BY <1>2, <1>10 DEF Demote, Meta
  <2>2. Only(m) BY <1>2, <2>1
  <2>3. m.ref = meta[b].ref /\ ~m.dev /\ m.host = meta[b].host /\ m.xfer = meta[b].xfer
    BY <1>2 DEF Meta
  <2>4. meta[b].host /\ meta[b].xfer = "none" BY <1>10 DEF Demote, Free
  <2>5. \A c \in Kids(b) : ~meta[c].dev BY <1>10 DEF Demote, DeviceKids
  <2> HIDE DEF m
  <2> QED BY <1>1, <1>3, <1>4, <2>2, <2>3, <2>4, <2>5, OneBlock
<1> QED BY <1>5, <1>6, <1>7, <1>8, <1>9, <1>10

\* set_subtree_eviction_priority as a chain of rounds.
Repinned(pin, base, seq) == FoldLeft(LAMBDA acc, c : Reprioritise(acc, c, pin), base, seq)

\* The rounds of set_subtree_eviction_priority form a chain as well.
LEMMA RepinChain ==
  ASSUME NEW pin, NEW base, NEW seq, NEW N \in Nat, DOMAIN seq = 1..N
  PROVE  \E h : /\ h[0] = base
                /\ \A k \in 1..N : h[k] = Reprioritise(h[k-1], seq[k], pin)
                /\ Repinned(pin, base, seq) = h[N]
<1> DEFINE Op(acc, c) == Reprioritise(acc, c, pin)
           Sol(it, n) == it = [s \in SUBSET (1..n) |->
                                 IF s = {} THEN base ELSE Op(it[s \ {Max(s)}], seq[Max(s)])]
           Solved(n) == \E it : Sol(it, n)
           P == {n \in 0..N : Solved(n)}
<1> HIDE DEF Solved, Op
<1>1. \A n \in 0..N : n \in P
  <2>1. 0 \in P
    <3>1. SUBSET (1..0) = {{}} OBVIOUS
    <3>2. Sol([s \in {{}} |-> base], 0) BY <3>1
    <3>3. Solved(0) BY <3>2 DEF Solved
    <3> QED BY <3>3
  <2>2. ASSUME NEW j \in 0..(N - 1), j \in P PROVE j + 1 \in P
    <3> DEFINE n == j + 1
    <3>0. n \in Nat /\ n \in 0..N /\ j \in Nat BY <2>2
    <3>1. Solved(j) BY <2>2
    <3>2. PICK it : Sol(it, j) BY <3>1 DEF Solved
    <3> DEFINE nt == [s \in SUBSET (1..n) |-> IF n \in s THEN Op(it[s \ {n}], seq[n]) ELSE it[s]]
    <3>3. ASSUME NEW s \in SUBSET (1..n)
          PROVE  nt[s] = IF s = {} THEN base ELSE Op(nt[s \ {Max(s)}], seq[Max(s)])
      <4>1. CASE n \in s
        <5>1. s \subseteq 1..n OBVIOUS
        <5>2. Max(s) = n BY <3>0, <4>1, <5>1, MaxUpto
        <5>3. s \ {n} \in SUBSET (1..n) OBVIOUS
        <5>4. nt[s \ {n}] = it[s \ {n}] BY <5>3
        <5> QED BY <5>2, <5>4, <4>1
      <4>2. CASE n \notin s /\ s # {}
        <5>1. s \in SUBSET (1..j) BY <3>0, <4>2
        <5>2. s \ {Max(s)} \in SUBSET (1..j) BY <5>1
        <5>3. nt[s \ {Max(s)}] = it[s \ {Max(s)}] BY <5>2, <4>2
        <5>4. it[s] = Op(it[s \ {Max(s)}], seq[Max(s)]) BY <5>1, <3>2, <4>2
        <5> QED BY <4>2, <5>3, <5>4
      <4>3. CASE s = {} BY <4>3, <3>2
      <4> QED BY <4>1, <4>2, <4>3
    <3> HIDE DEF nt
    <3>4. nt = [s \in SUBSET (1..n) |-> nt[s]] BY DEF nt
    <3>5. Sol(nt, n) BY <3>3, <3>4
    <3>6. Solved(n) BY <3>5 DEF Solved
    <3> QED BY <3>0, <3>6
  <2> HIDE DEF P
  <2> QED BY <2>1, <2>2, Upto
<1> HIDE DEF P
<1>2. Solved(N)
  <2>1. N \in P BY <1>1
  <2> QED BY <2>1 DEF P
<1>3. PICK it0 : Sol(it0, N) BY <1>2 DEF Solved
<1> DEFINE it == CHOOSE i : Sol(i, N)
<1>4. Sol(it, N) BY <1>3
<1>5. Repinned(pin, base, seq) = it[1..N]
  BY DEF Repinned, FoldLeft, MapThenFoldSet, Op
<1> HIDE DEF it
<1>6. ASSUME NEW k \in 1..N PROVE it[1..k] = Op(it[1..(k-1)], seq[k])
  <2> DEFINE s == 1..k
  <2>0. k \in Nat BY <1>6
  <2>1. s \subseteq 1..N /\ k \in s BY <1>6, <2>0
  <2>2. Max(s) = k BY <2>0, <2>1, MaxUpto
  <2>3. s \ {k} = 1..(k-1) BY <2>0
  <2> HIDE DEF s
  <2>4. it[s] = Op(it[s \ {Max(s)}], seq[Max(s)]) BY <1>4, <2>1
  <2> QED BY <2>2, <2>3, <2>4 DEF s
<1>7. it[{}] = base BY <1>4
<1> DEFINE h == [k \in 0..N |-> it[1..k]]
<1>8. h[0] = base /\ h[N] = it[1..N] BY <1>7
<1>9. \A k \in 1..N : h[k] = Op(h[k-1], seq[k]) BY <1>6
<1> QED BY <1>5, <1>8, <1>9 DEF Op

\* The live blocks are closed under parents.
LEMMA LiveClosed == Inv => Closed(blocks)
BY PrefixIndexAssumption DEF Inv, TypeOK, ResidencyContiguous, Closed

\* The invariant of the freeable set, built or not.
FreesOk == FreesType(frees) /\ Settled(blocks, meta, frees)

\* A change of one block, and the refresh that follows it, settle the set again.
LEMMA ChangeSettles ==
  ASSUME NEW B, Closed(B), IsFiniteSet(B), NEW b \in B, NEW m, NEW n,
         \A c \in Blocks : c # b => n[c] = m[c],
         NEW f, FreesType(f), Settled(B, m, f)
  PROVE  FreesType(Refresh(f, n, b)) /\ Settled(B, n, Refresh(f, n, b))
<1>1. SettledBut(B, n, f, b)
  <2> SUFFICES ASSUME f.built
               PROVE  Counted(B, f.ids, f.kids) /\ \A x \in B \ {b} : Local(n, f.ids, f.kids, x)
    BY DEF SettledBut
  <2>1. Counted(B, f.ids, f.kids) /\ \A x \in B : Local(m, f.ids, f.kids, x) BY DEF Settled
  <2>2. ASSUME NEW x \in B \ {b} PROVE Local(n, f.ids, f.kids, x)
    <3>1. n[x] = m[x] BY DEF Closed
    <3> QED BY <2>1, <3>1 DEF Local
  <2> QED BY <2>1, <2>2
<1> QED BY <1>1, RefreshSettles

\* Two metas that differ in pins of live blocks only.
SamePayload(m, n) ==
  \A c \in Blocks : /\ n[c].ref = m[c].ref /\ n[c].dev = m[c].dev
                    /\ n[c].host = m[c].host /\ n[c].xfer = m[c].xfer
                    /\ c \notin blocks => n[c] = m[c]

\* A priority pins or unpins live blocks, and leaves the freeable set settled.
LEMMA PriorityStep ==
  ASSUME Inv, NEW b \in Blocks, NEW pin \in BOOLEAN, SetPriority(b, pin)
  PROVE  /\ meta' \in [Blocks -> Meta] /\ SamePayload(meta, meta')
         /\ FreesOk => FreesType(frees') /\ Settled(blocks, meta', frees')
<1> DEFINE moved == {c \in Subtree(b) : meta[c].pinned # pin}
           base == [meta |-> meta, frees |-> frees]
           N == Cardinality(moved)
<1>1. PICK order \in SetToSeqs(moved) :
         meta' = Repinned(pin, base, order).meta /\ frees' = Repinned(pin, base, order).frees
  BY DEF SetPriority, Repinned
<1>2. moved \subseteq blocks /\ blocks \subseteq Blocks /\ meta \in [Blocks -> Meta]
  BY DEF Inv, TypeOK, Meta, Subtree
<1>3. N \in Nat BY <1>2, FS_Subset, FS_CardinalityType DEF Inv
<1>4. order \in [1..N -> moved] BY <1>1 DEF SetToSeqs
<1>5. Closed(blocks) /\ IsFiniteSet(blocks) BY LiveClosed DEF Inv
<1>6. base.meta = meta /\ base.frees = frees OBVIOUS
<1> HIDE DEF moved, base, N
<1>7. PICK h : /\ h[0] = base
               /\ \A k \in 1..N : h[k] = Reprioritise(h[k-1], order[k], pin)
               /\ Repinned(pin, base, order) = h[N]
  BY <1>3, <1>4, RepinChain
<1> DEFINE Ok(k) == /\ h[k].meta \in [Blocks -> Meta] /\ SamePayload(meta, h[k].meta)
                    /\ FreesOk => /\ FreesType(h[k].frees)
                                  /\ Settled(blocks, h[k].meta, h[k].frees)
           P == {k \in 0..N : Ok(k)}
<1>8. 0 \in P
  <2>1. h[0].meta = meta /\ h[0].frees = frees BY <1>6, <1>7
  <2>2. Ok(0) BY <1>2, <2>1 DEF SamePayload, FreesOk
  <2> QED BY <1>3, <2>2
<1>9. ASSUME NEW k \in 0..(N - 1), k \in P PROVE k + 1 \in P
  <2> DEFINE c == order[k + 1]
             m == h[k].meta
             f == h[k].frees
             n == [m EXCEPT ![c].pinned = pin]
  <2>1. k + 1 \in 1..N /\ k + 1 - 1 = k /\ k + 1 \in 0..N BY <1>3
  <2>2. c \in blocks /\ c \in Blocks BY <1>2, <1>4, <2>1
  <2>3. h[k + 1] = Reprioritise(h[k], c, pin) BY <1>7, <2>1
  <2>4. h[k + 1].meta = n /\ h[k + 1].frees = Refresh(f, n, c) BY <2>3 DEF Reprioritise
  <2>5. Ok(k) BY <1>9
  <2>6. m \in [Blocks -> Meta] /\ SamePayload(meta, m) BY <2>5
  <2>7. FreesOk => FreesType(f) /\ Settled(blocks, m, f) BY <2>5
  <2> HIDE DEF Ok, P, m, f, c
  <2>8. /\ n \in [Blocks -> Meta] /\ n[c] = [m[c] EXCEPT !.pinned = pin]
        /\ \A x \in Blocks : x # c => n[x] = m[x]
    <3>1. [m[c] EXCEPT !.pinned = pin] \in Meta BY <2>2, <2>6 DEF Meta
    <3> QED BY <2>2, <2>6, <3>1
  <2>9. n[c].ref = m[c].ref /\ n[c].dev = m[c].dev /\ n[c].host = m[c].host /\ n[c].xfer = m[c].xfer
    BY <2>2, <2>6, <2>8 DEF Meta
  <2> HIDE DEF n
  <2>10. SamePayload(meta, n)
    <3> SUFFICES ASSUME NEW x \in Blocks
                 PROVE  /\ n[x].ref = meta[x].ref /\ n[x].dev = meta[x].dev
                        /\ n[x].host = meta[x].host /\ n[x].xfer = meta[x].xfer
                        /\ x \notin blocks => n[x] = meta[x]
      BY DEF SamePayload
    <3>1. CASE x = c BY <2>2, <2>6, <2>9, <3>1 DEF SamePayload
    <3>2. CASE x # c BY <2>6, <2>8, <3>2 DEF SamePayload
    <3> QED BY <3>1, <3>2
  <2>11. FreesOk => FreesType(Refresh(f, n, c)) /\ Settled(blocks, n, Refresh(f, n, c))
    BY <1>5, <2>2, <2>7, <2>8, ChangeSettles
  <2>12. Ok(k + 1) BY <2>4, <2>8, <2>10, <2>11 DEF Ok
  <2> QED BY <2>1, <2>12 DEF P
<1>10. N \in P
  <2> HIDE DEF P
  <2>1. N \in 0..N BY <1>3
  <2> QED BY <1>3, <1>8, <1>9, <2>1, Upto
<1>11. Ok(N) BY <1>10
<1>12. meta' = h[N].meta /\ frees' = h[N].frees BY <1>1, <1>7
<1> QED BY <1>11, <1>12

\* A priority pins or unpins blocks; residency and references stay.
LEMMA PriorityInv ==
  ASSUME Inv, NEW b \in Blocks, NEW pin \in BOOLEAN, SetPriority(b, pin)
  PROVE  Inv'
<1>1. blocks' = blocks /\ held' = held
  BY DEF SetPriority
<1>2. blocks \subseteq Blocks BY DEF Inv, TypeOK
<1>3. meta' \in [Blocks -> Meta] /\ SamePayload(meta, meta') BY PriorityStep
<1>4. TypeOK'
  BY <1>1, <1>2, <1>3 DEF Inv, TypeOK, Meta, SamePayload
<1>5. ResidencyContiguous'
  <2>1. \A c \in Blocks : /\ meta'[c].dev = meta[c].dev /\ meta'[c].host = meta[c].host
                          /\ meta'[c].xfer = meta[c].xfer
    BY <1>3 DEF SamePayload
  <2> QED BY <1>1, <1>2, <2>1, PrefixIndexAssumption, ZenonT(30) DEF Inv, ResidencyContiguous
<1>6. HeldBlocksLive'
  BY <1>1, <1>2, <1>3 DEF Inv, HeldBlocksLive, SamePayload
<1>7. IsFiniteSet(blocks') BY <1>1 DEF Inv
<1> QED BY <1>4, <1>5, <1>6, <1>7 DEF Inv

-----------------------------------------------------------------------------
\* Every step keeps the invariant.
LEMMA StepInv == Inv /\ [Next]_vars => Inv'
<1> SUFFICES ASSUME Inv, [Next]_vars PROVE Inv'
  OBVIOUS
<1>1. ASSUME NEW r \in Requests, NEW b \in Blocks,
             Acquire(r, b) \/ Release(r, b) \/ InsertBlock(r, b)
      PROVE  Inv'
  BY <1>1, AcquireInv, ReleaseInv, InsertInv
<1>2. ASSUME NEW b \in Blocks, RemoveBlock(b)
      PROVE  Inv'
  BY <1>2, RemoveInv
<1>3. ASSUME NEW b \in Blocks,
             \/ BeginD2H(b) \/ FinishD2H(b) \/ AbortD2H(b)
             \/ BeginH2D(b) \/ FinishH2D(b) \/ AbortH2D(b) \/ Demote(b)
      PROVE  Inv'
  BY <1>3, TransferInv
<1>4. ASSUME NEW b \in Blocks, NEW pin \in BOOLEAN, SetPriority(b, pin)
      PROVE  Inv'
  BY <1>4, PriorityInv
<1>5. ASSUME UNCHANGED <<blocks, meta, held>>
      PROVE  Inv'
  BY <1>5 DEF Inv, TypeOK, ResidencyContiguous, HeldBlocksLive
<1>6. ASSUME NEW v \in Queries, Query(v)
      PROVE  Inv'
  BY <1>5, <1>6 DEF Query
<1>7. ASSUME NEW r \in Requests, Lookup(r)
      PROVE  Inv'
  BY <1>5, <1>7 DEF Lookup
<1>8. CASE UNCHANGED vars
  BY <1>5, <1>8 DEF vars
<1> QED BY <1>1, <1>2, <1>3, <1>4, <1>6, <1>7, <1>8 DEF Next

\* The inductive invariant holds throughout.
LEMMA Invariant == Spec => []Inv
BY InitInv, StepInv, PTL DEF Spec

\* Type correctness of the index, its residency records and its reference
\* counts (set_block_ref_count never stores a negative count).
THEOREM IndexTypeCorrect == Spec => []TypeOK
<1>1. Inv => TypeOK BY DEF Inv
<1> QED BY <1>1, Invariant, PTL

\* For every tree of blocks and any order of insertions, backups, promotions,
\* demotions, aborted transfers and removals, device and host each hold whole
\* prefixes, and validate() never raises.
THEOREM ResidencyAlwaysContiguous == Spec => []ResidencyContiguous
<1>1. Inv => ResidencyContiguous BY DEF Inv
<1> QED BY <1>1, Invariant, PTL

\* For any number of requests, a block a request holds is in the index and its
\* reference count is the number of its holders.
THEOREM HeldBlocksAlwaysLive == Spec => []HeldBlocksLive
<1>1. Inv => HeldBlocksLive BY DEF Inv
<1> QED BY <1>1, Invariant, PTL

-----------------------------------------------------------------------------
(* The freeable set under every operation.                                 *)

\* The set does not see more of a block than whether it is free.
LEMMA SettledSame ==
  ASSUME NEW B, NEW m, NEW n, \A c \in B : Free(n[c]) <=> Free(m[c]),
         NEW f, Settled(B, m, f)
  PROVE  Settled(B, n, f)
BY DEF Settled, Local

\* insert_block: the parent has one more child outside the set, and the new
\* block, which is referenced, is settled as it is.
LEMMA InsertSettles ==
  ASSUME Inv, FreesOk, NEW r \in Requests, NEW b \in Blocks, InsertBlock(r, b)
  PROVE  FreesOk'
<1> DEFINE p == ParentOf[b]
           B == blocks \cup {b}
           m == meta'
           f == IF p = Root THEN frees ELSE [frees EXCEPT !.kids[p] = @ + 1]
<1>1. /\ b \notin blocks /\ blocks' = B /\ (p # Root => p \in blocks)
      /\ meta' = [meta EXCEPT ![b] = [Gone EXCEPT !.ref = 1, !.dev = TRUE]]
      /\ frees' = FreesWith(b, m)
  BY DEF InsertBlock
<1>2. Closed(blocks) /\ blocks \subseteq Blocks /\ IsFiniteSet(blocks) /\ meta \in [Blocks -> Meta]
  BY LiveClosed DEF Inv, TypeOK, Meta
<1>3. Closed(B) /\ IsFiniteSet(B) /\ b \in B
  BY <1>1, <1>2, FS_AddElement DEF Closed
<1>4. ~Free(m[b]) /\ \A c \in Blocks : c # b => m[c] = meta[c]
  BY <1>1, <1>2 DEF Free, Gone
<1>5. p # b /\ p \in Blocks \cup {Root} BY NotOwnParent, PrefixIndexAssumption
<1>6. \A c \in blocks : ParentOf[c] # b
  BY <1>1, <1>2, PrefixIndexAssumption DEF Closed
<1>7. /\ frees.ids \in SUBSET Blocks /\ frees.kids \in [Blocks -> Int] /\ frees.built \in BOOLEAN
  BY DEF FreesOk, FreesType
<1>8. /\ FreesType(f) /\ f.built = frees.built /\ f.ids = frees.ids
      /\ \A x \in Blocks : f.kids[x] = IF x = p THEN frees.kids[x] + 1 ELSE frees.kids[x]
  <2>1. CASE p = Root BY <1>7, <2>1, PrefixIndexAssumption DEF FreesOk, FreesType
  <2>2. CASE p # Root
    <3>1. f = [frees EXCEPT !.kids = [frees.kids EXCEPT ![p] = @ + 1]] BY <2>2 DEF FreesOk, FreesType
    <3>2. [frees.kids EXCEPT ![p] = @ + 1] \in [Blocks -> Int] BY <1>5, <1>7, <2>2
    <3> QED BY <1>5, <1>7, <2>2, <3>1, <3>2 DEF FreesOk, FreesType
  <2> QED BY <2>1, <2>2
<1>9. CASE ~frees.built
  BY <1>1, <1>9 DEF FreesWith, FreesOk, Settled
<1>10. CASE frees.built
  <2>1. /\ frees.ids \subseteq blocks
        /\ \A x \in Blocks : frees.kids[x] = IF x \in blocks
                               THEN Cardinality(KidsIn(blocks, x) \ frees.ids) ELSE 0
        /\ \A x \in blocks : Local(meta, frees.ids, frees.kids, x)
    BY <1>10 DEF FreesOk, Settled, Counted
  <2> HIDE DEF f, m
  <2>2. Counted(B, f.ids, f.kids)
    <3> SUFFICES ASSUME NEW x \in Blocks
                 PROVE  f.kids[x] = IF x \in B THEN Cardinality(KidsIn(B, x) \ frees.ids) ELSE 0
      BY <1>8, <2>1 DEF Counted
    <3>1. CASE x = b
      <4>1. KidsIn(B, b) = {} BY <1>5, <1>6 DEF KidsIn
      <4>2. f.kids[b] = 0 BY <1>1, <1>5, <1>8, <2>1
      <4>3. Cardinality(KidsIn(B, b) \ frees.ids) = 0 BY <4>1, FS_EmptySet
      <4> QED BY <3>1, <4>2, <4>3
    <3>2. CASE x # b /\ x # p
      <4>1. KidsIn(B, x) = KidsIn(blocks, x) BY <3>2 DEF KidsIn
      <4> QED BY <1>8, <2>1, <3>2, <4>1
    <3>3. CASE x = p
      <4>1. p \in blocks BY <1>1, <3>3, PrefixIndexAssumption
      <4> DEFINE S == KidsIn(blocks, p) \ frees.ids
                 R == KidsIn(B, p) \ frees.ids
      <4>2. R = S \cup {b} /\ b \notin S /\ S \subseteq blocks BY <1>1, <2>1 DEF KidsIn
      <4>3. IsFiniteSet(S) BY <1>2, <4>2, FS_Subset
      <4> HIDE DEF R, S
      <4>4. Cardinality(R) = Cardinality(S) + 1 BY <4>2, <4>3, FS_AddElement
      <4>5. frees.kids[p] = Cardinality(S) BY <2>1, <3>3, <4>1 DEF S
      <4>6. f.kids[p] = frees.kids[p] + 1 BY <1>8, <3>3
      <4> QED BY <3>3, <4>1, <4>4, <4>5, <4>6 DEF R
    <3> QED BY <3>1, <3>2, <3>3
  <2>3. Local(m, f.ids, f.kids, b) BY <1>1, <1>4, <1>8, <2>1 DEF Local
  <2>4. \A x \in B \ {p} : Local(m, f.ids, f.kids, x)
    <3> SUFFICES ASSUME NEW x \in B, x # p, x # b PROVE Local(m, f.ids, f.kids, x)
      BY <2>3
    <3>1. x \in blocks /\ x \in Blocks BY <1>2
    <3>2. Local(meta, frees.ids, frees.kids, x) BY <2>1, <3>1
    <3>3. f.kids[x] = frees.kids[x] /\ m[x] = meta[x] BY <1>4, <1>8, <3>1
    <3> QED BY <1>8, <3>2, <3>3 DEF Local
  <2>5. Refresh(f, m, b) = f BY <1>8, <2>3, RefreshNothing DEF SettledAt
  <2>6. frees' = IF p = Root THEN f ELSE Refresh(f, m, p)
    BY <1>1, <1>10, <2>5 DEF FreesWith, f
  <2>7. CASE p = Root
    <3>1. frees' = f /\ Root \notin B BY <1>2, <2>6, <2>7, PrefixIndexAssumption
    <3>2. Settled(B, m, f) BY <2>2, <2>4, <2>7, <3>1 DEF Settled
    <3> QED BY <1>1, <1>8, <3>1, <3>2 DEF FreesOk, m
  <2>8. CASE p # Root
    <3>1. p \in B /\ SettledBut(B, m, f, p) BY <1>1, <2>2, <2>4, <2>8 DEF SettledBut
    <3>2. FreesType(Refresh(f, m, p)) /\ Settled(B, m, Refresh(f, m, p))
      BY <1>3, <1>8, <3>1, RefreshSettles
    <3>3. frees' = Refresh(f, m, p) BY <2>6, <2>8
    <3> QED BY <1>1, <3>2, <3>3 DEF FreesOk, m
  <2> QED BY <2>7, <2>8
<1> QED BY <1>7, <1>9, <1>10

\* _remove_block_from_index: a removable block is in the set, so that nothing
\* above it changes.
LEMMA RemoveSettles ==
  ASSUME Inv, FreesOk, NEW b \in Blocks, RemoveBlock(b)
  PROVE  FreesOk'
<1> DEFINE B == blocks \ {b}
           f == [frees EXCEPT !.ids = @ \ {b}, !.kids[b] = 0]
<1>1. /\ b \in blocks /\ blocks' = B /\ Free(meta[b]) /\ Kids(b) = {}
      /\ meta' = [meta EXCEPT ![b] = Gone] /\ frees' = FreesWithout(b, meta')
  BY DEF RemoveBlock, Removable
<1>2. blocks \subseteq Blocks /\ IsFiniteSet(blocks) /\ meta \in [Blocks -> Meta]
  BY DEF Inv, TypeOK, Meta
<1>3. /\ frees.ids \in SUBSET Blocks /\ frees.kids \in [Blocks -> Int] /\ frees.built \in BOOLEAN
  BY DEF FreesOk, FreesType
<1>4. CASE ~frees.built
  BY <1>1, <1>4 DEF FreesWithout, FreesOk, Settled
<1>5. CASE frees.built
  <2>1. /\ frees.ids \subseteq blocks
        /\ \A x \in Blocks : frees.kids[x] = IF x \in blocks
                               THEN Cardinality(KidsIn(blocks, x) \ frees.ids) ELSE 0
        /\ \A x \in blocks : Local(meta, frees.ids, frees.kids, x)
    BY <1>5 DEF FreesOk, Settled, Counted
  <2>2. KidsIn(blocks, b) \ frees.ids = {} BY <1>1 DEF Kids, KidsIn
  <2>3. frees.kids[b] = 0 BY <1>1, <2>1, <2>2, FS_EmptySet
  <2>4. b \in frees.ids BY <1>1, <2>1, <2>3 DEF Local
  <2>5. frees' = f BY <1>1, <1>5, <2>4 DEF FreesWithout
  <2>6. FreesType(f) /\ f.built = TRUE /\ f.ids = frees.ids \ {b} /\ f.kids = [frees.kids EXCEPT ![b] = 0]
    <3>1. f = [frees EXCEPT !.ids = frees.ids \ {b}, !.kids = [frees.kids EXCEPT ![b] = 0]]
      BY DEF FreesOk, FreesType
    <3>2. [frees.kids EXCEPT ![b] = 0] \in [Blocks -> Int] BY <1>3
    <3> QED BY <1>3, <1>5, <3>1, <3>2 DEF FreesOk, FreesType
  <2> HIDE DEF f
  <2>7. Counted(B, f.ids, f.kids)
    <3> SUFFICES ASSUME NEW x \in Blocks
                 PROVE  f.kids[x] = IF x \in B THEN Cardinality(KidsIn(B, x) \ f.ids) ELSE 0
      BY <2>1, <2>6 DEF Counted
    <3>1. CASE x = b BY <1>3, <2>6, <3>1
    <3>2. CASE x # b
      <4>1. KidsIn(B, x) \ f.ids = KidsIn(blocks, x) \ frees.ids BY <2>4, <2>6 DEF KidsIn
      <4>2. f.kids[x] = frees.kids[x] /\ (x \in B <=> x \in blocks) BY <1>3, <2>6, <3>2
      <4> QED BY <2>1, <4>1, <4>2
    <3> QED BY <3>1, <3>2
  <2>8. ASSUME NEW x \in B PROVE Local(meta', f.ids, f.kids, x)
    <3>1. Local(meta, frees.ids, frees.kids, x) /\ x # b BY <2>1
    <3>2. meta'[x] = meta[x] /\ f.kids[x] = frees.kids[x] /\ (x \in f.ids <=> x \in frees.ids)
      BY <1>1, <1>2, <1>3, <2>6, <3>1
    <3> QED BY <3>1, <3>2 DEF Local
  <2>9. Settled(B, meta', f) BY <2>7, <2>8 DEF Settled
  <2> QED BY <1>1, <2>5, <2>6, <2>9 DEF FreesOk
<1> QED BY <1>3, <1>4, <1>5

\* The scan of freeable_block_ids, in the terms of FreeableIn.
LEMMA ScanIs == FreeableIds = FreeableIn(blocks, meta)
BY DEF FreeableIds, FreeableIn, Subtree

\* What the first scan builds is settled.
LEMMA BuiltSettled ==
  ASSUME Inv
  PROVE  FreesType(Built) /\ Settled(blocks, meta, Built) /\ Built.ids = FreeableIds
<1>1. Closed(blocks) /\ IsFiniteSet(blocks) /\ blocks \subseteq Blocks
  BY LiveClosed DEF Inv, TypeOK
<1> DEFINE F == FreeableIds
           K == [b \in Blocks |-> IF b \in blocks THEN Cardinality(Kids(b) \ F) ELSE 0]
<1>2. Built.ids = F /\ Built.kids = K /\ Built.built = TRUE /\ Built = [built |-> TRUE, ids |-> F, kids |-> K]
  BY DEF Built
<1>3. F \subseteq blocks BY DEF FreeableIds
<1>4. \A x \in Blocks : Kids(x) = KidsIn(blocks, x) BY DEF Kids, KidsIn
<1> HIDE DEF F
<1>5. \A x \in Blocks : IsFiniteSet(Kids(x) \ F) /\ Cardinality(Kids(x) \ F) \in Nat
  <2> TAKE x \in Blocks
  <2>1. Kids(x) \ F \subseteq blocks BY DEF Kids
  <2>2. IsFiniteSet(Kids(x) \ F) BY <1>1, <2>1, FS_Subset
  <2> QED BY <2>2, FS_CardinalityType
<1>6. K \in [Blocks -> Int] BY <1>5
<1>7. Counted(blocks, F, K) BY <1>3, <1>4 DEF Counted
<1>8. ASSUME NEW x \in blocks PROVE Local(meta, F, K, x)
  <2>1. x \in Blocks /\ K[x] = Cardinality(Kids(x) \ F) BY <1>1
  <2>2. K[x] = 0 <=> Kids(x) \ F = {}
    <3> HIDE DEF K
    <3> QED BY <1>5, <2>1, FS_EmptySet
  <2>3. x \in F <=> Free(meta[x]) /\ KidsIn(blocks, x) \subseteq F
    BY <1>1, FreeableStep, ScanIs DEF F
  <2>4. x \in F <=> K[x] = 0 /\ Free(meta[x])
    <3> HIDE DEF K
    <3> QED BY <1>4, <2>1, <2>2, <2>3
  <2> HIDE DEF K
  <2> QED BY <2>4 DEF Local
<1> HIDE DEF K
<1>9. Settled(blocks, meta, Built) BY <1>2, <1>7, <1>8 DEF Settled
<1>10. FreesType(Built) BY <1>1, <1>2, <1>3, <1>6 DEF FreesType
<1> QED BY <1>2, <1>9, <1>10 DEF F

\* A settled set is the one a scan would build.
LEMMA SettledIsBuilt ==
  ASSUME Inv, FreesOk, frees.built
  PROVE  frees = Built
<1>1. Closed(blocks) /\ IsFiniteSet(blocks) /\ blocks \subseteq Blocks
  BY LiveClosed DEF Inv, TypeOK
<1>2. Counted(blocks, frees.ids, frees.kids) /\ \A x \in blocks : Local(meta, frees.ids, frees.kids, x)
  BY DEF FreesOk, Settled
<1>3. frees.ids = FreeableIds BY <1>1, <1>2, LocalIsGlobal, ScanIs
<1>4. frees.kids \in [Blocks -> Int] /\ frees = [built |-> TRUE, ids |-> frees.ids, kids |-> frees.kids]
  BY DEF FreesOk, FreesType
<1> DEFINE K == [b \in Blocks |-> IF b \in blocks THEN Cardinality(Kids(b) \ FreeableIds) ELSE 0]
<1>5. frees.kids = K
  <2>1. \A x \in Blocks : frees.kids[x] = IF x \in blocks THEN Cardinality(Kids(x) \ FreeableIds) ELSE 0
    BY <1>2, <1>3 DEF Counted, Kids, KidsIn
  <2> QED BY <1>4, <2>1
<1> HIDE DEF K
<1>6. Built = [built |-> TRUE, ids |-> FreeableIds, kids |-> K] BY DEF Built, K
<1> QED BY <1>3, <1>4, <1>5, <1>6

\* A count that is given back was positive.
LEMMA ReleaseCount ==
  ASSUME Inv, NEW r \in Requests, NEW b \in Blocks, Release(r, b)
  PROVE  meta[b].ref - 1 \in Nat
<1>1. meta[b].ref = Cardinality(Holders(b)) /\ r \in Holders(b)
  BY DEF Release, Inv, HeldBlocksLive, Holders
<1>2. Cardinality(Holders(b) \ {r}) = Cardinality(Holders(b)) - 1
      /\ Cardinality(Holders(b) \ {r}) \in Nat
  BY <1>1, HoldersFinite, FS_RemoveElement, FS_CardinalityType
<1> QED BY <1>1, <1>2

\* Every step keeps the freeable set settled.
LEMMA StepFrees ==
  ASSUME Inv, FreesOk, [Next]_vars
  PROVE  FreesOk'
<1>0. Closed(blocks) /\ IsFiniteSet(blocks) /\ blocks \subseteq Blocks /\ meta \in [Blocks -> Meta]
      /\ FreesType(frees) /\ Settled(blocks, meta, frees)
  BY LiveClosed DEF Inv, TypeOK, FreesOk, Meta
<1>1. ASSUME NEW b \in blocks, NEW m, Change(b, m), blocks' = blocks PROVE FreesOk'
  <2>1. \A c \in Blocks : c # b => meta'[c] = meta[c] BY <1>0, <1>1 DEF Change
  <2>2. frees' = Refresh(frees, meta', b) BY <1>1 DEF Change
  <2> DEFINE n == meta'
  <2> HIDE DEF n
  <2>3. FreesType(Refresh(frees, n, b)) /\ Settled(blocks, n, Refresh(frees, n, b))
    BY <1>0, <2>1, ChangeSettles DEF n
  <2> QED BY <1>1, <2>2, <2>3 DEF FreesOk, n
<1>2. ASSUME UNCHANGED <<blocks, frees>>, \A c \in blocks : Free(meta'[c]) <=> Free(meta[c]) PROVE FreesOk'
  <2>1. Settled(blocks, meta', frees) BY <1>0, <1>2, SettledSame
  <2> QED BY <1>0, <1>2, <2>1 DEF FreesOk
<1>3. ASSUME NEW b \in blocks, NEW n \in Nat, SetRefCount(b, n) PROVE FreesOk'
  <2>1. CASE (meta[b].ref = 0) # (n = 0)
    BY <1>1, <1>3, <2>1 DEF SetRefCount
  <2>2. CASE (meta[b].ref = 0) = (n = 0)
    <3>1. /\ UNCHANGED <<blocks, frees>> BY <1>3, <2>2 DEF SetRefCount
    <3>2. /\ meta'[b] = [meta[b] EXCEPT !.ref = n]
          /\ \A c \in Blocks : c # b => meta'[c] = meta[c]
      BY <1>3, RefMeta
    <3>3. meta[b] \in Meta BY <1>0
    <3>4. Free(meta'[b]) <=> Free(meta[b]) BY <2>2, <3>2, <3>3 DEF Free, Meta
    <3>5. \A c \in blocks : Free(meta'[c]) <=> Free(meta[c]) BY <1>0, <3>2, <3>4
    <3> QED BY <1>2, <3>1, <3>5
  <2> QED BY <2>1, <2>2
<1>4. ASSUME NEW r \in Requests, NEW b \in Blocks, Acquire(r, b) PROVE FreesOk'
  <2>1. b \in blocks /\ meta[b].ref + 1 \in Nat /\ SetRefCount(b, meta[b].ref + 1)
    BY <1>0, <1>4 DEF Acquire, Meta
  <2> QED BY <1>3, <2>1
<1>5. ASSUME NEW r \in Requests, NEW b \in Blocks, Release(r, b) PROVE FreesOk'
  <2>1. b \in blocks /\ SetRefCount(b, meta[b].ref - 1) BY <1>5 DEF Release, Inv, HeldBlocksLive
  <2>2. meta[b].ref - 1 \in Nat BY <1>5, ReleaseCount
  <2> QED BY <1>3, <2>1, <2>2
<1>6. ASSUME NEW b \in Blocks, BeginD2H(b) PROVE FreesOk'
  BY <1>1, <1>6 DEF BeginD2H
<1>7. ASSUME NEW b \in Blocks, FinishD2H(b) PROVE FreesOk'
  BY <1>1, <1>7 DEF FinishD2H
<1>8. ASSUME NEW b \in Blocks, AbortD2H(b) PROVE FreesOk'
  BY <1>1, <1>8 DEF AbortD2H
<1>9. ASSUME NEW b \in Blocks, BeginH2D(b) PROVE FreesOk'
  BY <1>1, <1>9 DEF BeginH2D
<1>10. ASSUME NEW b \in Blocks, FinishH2D(b) PROVE FreesOk'
  BY <1>1, <1>10 DEF FinishH2D
<1>11. ASSUME NEW b \in Blocks, AbortH2D(b) PROVE FreesOk'
  BY <1>1, <1>11 DEF AbortH2D
<1>12. ASSUME NEW b \in Blocks, Demote(b) PROVE FreesOk'
  <2>1. UNCHANGED <<blocks, frees>> /\ meta' = [meta EXCEPT ![b].dev = FALSE] BY <1>12 DEF Demote
  <2>2. \A c \in Blocks : meta[c] \in Meta /\ (c # b => meta'[c] = meta[c])
                          /\ meta'[b] = [meta[b] EXCEPT !.dev = FALSE]
    BY <1>0, <2>1
  <2>3. Free(meta'[b]) <=> Free(meta[b]) BY <2>2 DEF Free, Meta
  <2>4. \A c \in blocks : Free(meta'[c]) <=> Free(meta[c]) BY <1>0, <2>2, <2>3
  <2> QED BY <1>2, <2>1, <2>4
<1>13. ASSUME NEW b \in Blocks, NEW pin \in BOOLEAN, SetPriority(b, pin) PROVE FreesOk'
  <2>1. blocks' = blocks BY <1>13 DEF SetPriority
  <2> QED BY <1>13, <2>1, PriorityStep DEF FreesOk
<1>14. ASSUME NEW v \in Queries, Query(v) PROVE FreesOk'
  <2>1. blocks' = blocks /\ meta' = meta /\ (frees' = Built \/ frees' = frees) BY <1>14 DEF Query
  <2> QED BY <1>0, <2>1, BuiltSettled DEF FreesOk
<1>15. CASE UNCHANGED <<blocks, meta, frees>>
  BY <1>15 DEF FreesOk
<1>16. ASSUME NEW r \in Requests, Lookup(r) PROVE FreesOk'
  BY <1>15, <1>16 DEF Lookup
<1>17. CASE UNCHANGED vars BY <1>15, <1>17 DEF vars
<1> QED BY <1>4, <1>5, <1>6, <1>7, <1>8, <1>9, <1>10, <1>11, <1>12, <1>13, <1>14, <1>16, <1>17,
           InsertSettles, RemoveSettles DEF Next
-----------------------------------------------------------------------------
(* The cached views.                                                       *)

ViewsType == views \in [ViewNames -> [fresh : BOOLEAN, ids : SUBSET Blocks]]

\* A view sees of a block's count only whether it is zero.
LEMMA ViewsSame ==
  ASSUME Inv, blocks' = blocks,
         \A c \in Blocks : /\ meta'[c].ref = 0 <=> meta[c].ref = 0
                           /\ meta'[c].pinned = meta[c].pinned /\ meta'[c].dev = meta[c].dev
                           /\ meta'[c].host = meta[c].host /\ meta'[c].xfer = meta[c].xfer
  PROVE  \A v \in ViewNames : ViewOf(v)' = ViewOf(v)
<1>1. blocks \subseteq Blocks BY DEF Inv, TypeOK
<1>2. \A c \in blocks : Free(meta'[c]) <=> Free(meta[c]) BY <1>1 DEF Free
<1>3. \A b : Subtree(b)' = Subtree(b) /\ Subtree(b) \subseteq blocks BY DEF Subtree
<1>4. \A b : Kids(b)' = Kids(b) BY DEF Kids
<1>5. FreeableIds' = FreeableIds BY <1>2, <1>3 DEF FreeableIds
<1>6. EvictableIds' = EvictableIds BY <1>2, <1>4 DEF EvictableIds
<1>7. \A p : DeviceIds(p)' = DeviceIds(p)
  <2> TAKE p
  <2> DEFINE Off(m, c) == m[c].dev => /\ m[c].ref = 0 /\ ~m[c].pinned
                                      /\ \/ m[c].host /\ m[c].xfer = "none"
                                         \/ p /\ m[c].xfer = "D2H"
  <2>1. \A c \in blocks : Off(meta', c) <=> Off(meta, c) BY <1>1
  <2>2. \A c \in blocks : meta'[c].dev = meta[c].dev BY <1>1
  <2>3. DeviceIds(p) = {b \in blocks : meta[b].dev /\ \A c \in Subtree(b) : Off(meta, c)}
    BY DEF DeviceIds
  <2>4. DeviceIds(p)' = {b \in blocks : meta'[b].dev /\ \A c \in Subtree(b)' : Off(meta', c)}
    BY DEF DeviceIds
  <2> HIDE DEF Off
  <2> QED BY <1>3, <2>1, <2>2, <2>3, <2>4
<1> QED BY <1>5, <1>6, <1>7 DEF ViewOf, ViewNames

\* Views that stay as they are, over questions whose answers stay as they are.
LEMMA ViewsStay ==
  ASSUME ViewsCurrent, ViewsType, views' = views, \A v \in ViewNames : ViewOf(v)' = ViewOf(v)
  PROVE  ViewsCurrent' /\ ViewsType'
BY DEF ViewsCurrent, ViewsType

\* No view is trusted after a change that can move capacity.
LEMMA ViewsStale ==
  ASSUME views' = Stale
  PROVE  ViewsCurrent' /\ ViewsType'
BY DEF ViewsCurrent, ViewsType, Stale, NoView

\* insert_block leaves the epoch alone: its caller holds every block above the
\* new one, and the new one is held, so that no question has another answer.
LEMMA InsertViews ==
  ASSUME Inv, NEW r \in Requests, NEW b \in Blocks, InsertBlock(r, b)
  PROVE  \A v \in ViewNames : ViewOf(v)' = ViewOf(v)
<1>1. /\ b \notin blocks /\ blocks' = blocks \cup {b} /\ held[r] = Ancestry(b) \ {b}
      /\ meta' = [meta EXCEPT ![b] = [Gone EXCEPT !.ref = 1, !.dev = TRUE]]
  BY DEF InsertBlock, NextBlock
<1>2. blocks \subseteq Blocks /\ meta \in [Blocks -> Meta] BY DEF Inv, TypeOK, Meta
<1>3. meta'[b].ref = 1 /\ \A c \in blocks : meta'[c] = meta[c] BY <1>1, <1>2 DEF Gone
<1>4. ASSUME NEW c \in Ancestry(b), c # b PROVE c \in blocks /\ meta[c].ref # 0
  <2>1. c \in held[r] /\ c \in Blocks BY <1>1, <1>4, AncestryStep
  <2>2. r \in Holders(c) /\ c \in blocks /\ meta[c].ref = Cardinality(Holders(c))
    BY <2>1 DEF Inv, HeldBlocksLive, Holders
  <2>3. Holders(c) # {} BY <2>2
  <2> QED BY <2>2, <2>3, HoldersFinite, FS_EmptySet
<1>5. \A x \in blocks : Subtree(x)' = IF x \in Ancestry(b) THEN Subtree(x) \cup {b} ELSE Subtree(x)
  BY <1>1 DEF Subtree
<1>6. b \in Subtree(b)' BY <1>1, AncestryStep DEF Subtree
<1>7. \A x \in blocks : x \in Subtree(x) /\ Subtree(x) \subseteq blocks BY <1>2, AncestryStep DEF Subtree
<1>8. ~Free(meta'[b]) BY <1>3 DEF Free
<1>9. \A x \in blocks : x \in Ancestry(b) => meta[x].ref # 0 BY <1>1, <1>4
<1>10. FreeableIds' = FreeableIds
  <2>1. b \notin FreeableIds' /\ b \notin FreeableIds BY <1>1, <1>6, <1>8 DEF FreeableIds
  <2>2. ASSUME NEW x \in blocks PROVE x \in FreeableIds' <=> x \in FreeableIds
    <3>1. CASE x \in Ancestry(b)
      <4>1. ~Free(meta[x]) /\ ~Free(meta'[x]) BY <1>3, <1>9, <3>1 DEF Free
      <4>2. x \in Subtree(x) /\ x \in Subtree(x)' BY <1>5, <1>7, <3>1
      <4> QED BY <4>1, <4>2 DEF FreeableIds
    <3>2. CASE x \notin Ancestry(b)
      <4>1. Subtree(x)' = Subtree(x) BY <1>5, <3>2
      <4> QED BY <1>1, <1>3, <1>7, <4>1 DEF FreeableIds
    <3> QED BY <3>1, <3>2
  <2>3. FreeableIds \subseteq blocks /\ FreeableIds' \subseteq blocks \cup {b} BY <1>1 DEF FreeableIds
  <2> QED BY <2>1, <2>2, <2>3
<1>11. EvictableIds' = EvictableIds
  <2>1. b \notin EvictableIds' /\ b \notin EvictableIds BY <1>1, <1>8 DEF EvictableIds
  <2>2. ASSUME NEW x \in blocks PROVE x \in EvictableIds' <=> x \in EvictableIds
    <3>1. CASE x = ParentOf[b]
      <4>1. x # Root /\ x # b BY <1>1, <1>2, PrefixIndexAssumption
      <4>2. x \in Ancestry(b) BY <3>1, <4>1, AncestryStep
      <4>3. ~Free(meta[x]) /\ ~Free(meta'[x]) BY <1>3, <1>9, <4>2 DEF Free
      <4> QED BY <4>3 DEF EvictableIds
    <3>2. CASE x # ParentOf[b]
      <4>1. Kids(x)' = Kids(x) BY <1>1, <3>2 DEF Kids
      <4> QED BY <1>1, <1>3, <4>1 DEF EvictableIds
    <3> QED BY <3>1, <3>2
  <2>3. EvictableIds \subseteq blocks /\ EvictableIds' \subseteq blocks \cup {b} BY <1>1 DEF EvictableIds
  <2> QED BY <2>1, <2>2, <2>3
<1>12. \A p : DeviceIds(p)' = DeviceIds(p)
  <2> TAKE p
  <2> DEFINE Off(m, c) == m[c].dev => /\ m[c].ref = 0 /\ ~m[c].pinned
                                      /\ \/ m[c].host /\ m[c].xfer = "none"
                                         \/ p /\ m[c].xfer = "D2H"
  <2>1. DeviceIds(p) = {x \in blocks : meta[x].dev /\ \A c \in Subtree(x) : Off(meta, c)}
    BY DEF DeviceIds
  <2>2. DeviceIds(p)' = {x \in blocks' : meta'[x].dev /\ \A c \in Subtree(x)' : Off(meta', c)}
    BY DEF DeviceIds
  <2>3. \A c \in blocks : Off(meta', c) <=> Off(meta, c) BY <1>3
  <2>4. \A c : meta[c].dev /\ meta[c].ref # 0 => ~Off(meta, c) OBVIOUS
  <2>5. \A c : meta'[c].dev /\ meta'[c].ref # 0 => ~Off(meta', c) OBVIOUS
  <2> HIDE DEF Off
  <2> DEFINE On(x) == meta[x].dev /\ \A c \in Subtree(x) : Off(meta, c)
             On2(x) == meta'[x].dev /\ \A c \in Subtree(x)' : Off(meta', c)
  <2>a. \A x : x \in DeviceIds(p) <=> x \in blocks /\ On(x) BY <2>1
  <2>b. \A x : x \in DeviceIds(p)' <=> x \in blocks' /\ On2(x) BY <2>2
  <2>c. ~On2(b) BY <1>3, <1>6, <2>5
  <2>6. b \notin DeviceIds(p)' /\ b \notin DeviceIds(p) BY <1>1, <2>a, <2>b, <2>c
  <2>7. ASSUME NEW x \in blocks PROVE x \in DeviceIds(p)' <=> x \in DeviceIds(p)
    <3>1. CASE x \in Ancestry(b)
      <4>1. meta[x].ref # 0 /\ meta'[x] = meta[x] BY <1>3, <1>9, <3>1
      <4>2. x \in Subtree(x) /\ x \in Subtree(x)' BY <1>5, <1>7, <3>1
      <4> QED BY <2>1, <2>2, <2>4, <2>5, <4>1, <4>2
    <3>2. CASE x \notin Ancestry(b)
      <4>1. Subtree(x)' = Subtree(x) BY <1>5, <3>2
      <4>2. On(x) <=> On2(x) BY <1>3, <1>7, <2>3, <4>1
      <4>3. x \in blocks' BY <1>1
      <4> HIDE DEF On, On2
      <4> QED BY <2>a, <2>b, <4>2, <4>3
    <3> QED BY <3>1, <3>2
  <2>8. DeviceIds(p) \subseteq blocks /\ DeviceIds(p)' \subseteq blocks \cup {b} BY <1>1, <2>1, <2>2
  <2> QED BY <2>6, <2>7, <2>8
<1> QED BY <1>10, <1>11, <1>12 DEF ViewOf, ViewNames

\* A question answered anew is answered with what a scan gives.
LEMMA QueryViews ==
  ASSUME Inv, FreesOk, ViewsCurrent, ViewsType, NEW v \in Queries, Query(v)
  PROVE  ViewsCurrent' /\ ViewsType'
<1>1. /\ blocks' = blocks /\ meta' = meta /\ v \in ViewNames
      /\ views' = [views EXCEPT ![v] =
           [fresh |-> TRUE, ids |-> IF v = "freeable" THEN frees'.ids ELSE ViewOf(v)]]
      /\ frees' = IF v = "freeable" /\ ~frees.built THEN Built ELSE frees
  BY PrefixIndexAssumption DEF Query
<1>2. \A w \in ViewNames : ViewOf(w)' = ViewOf(w) BY <1>1, ViewsSame
<1>3. v = "freeable" => frees'.ids = ViewOf(v)
  <2> SUFFICES ASSUME v = "freeable" PROVE frees'.ids = FreeableIds
    BY DEF ViewOf
  <2>1. Built.ids = FreeableIds BY DEF Built
  <2>2. CASE frees.built BY <1>1, <2>1, <2>2, SettledIsBuilt
  <2>3. CASE ~frees.built BY <1>1, <2>1, <2>3
  <2> QED BY <2>2, <2>3
<1>4. ViewOf(v) \in SUBSET Blocks
  <2>1. blocks \subseteq Blocks BY DEF Inv, TypeOK
  <2> QED BY <1>1, <2>1 DEF ViewOf, ViewNames, FreeableIds, EvictableIds, DeviceIds
<1>5. views' = [views EXCEPT ![v] = [fresh |-> TRUE, ids |-> ViewOf(v)]] BY <1>1, <1>3
<1>6. ViewsType' BY <1>1, <1>4, <1>5 DEF ViewsType
<1>7. ASSUME NEW w \in ViewNames, views'[w].fresh PROVE views'[w].ids = ViewOf(w)
  <2>1. CASE w = v BY <1>1, <1>5, <2>1 DEF ViewsType
  <2>2. CASE w # v
    <3>1. views'[w] = views[w] BY <1>5, <2>2 DEF ViewsType
    <3> QED BY <1>7, <3>1 DEF ViewsCurrent
  <2> QED BY <2>1, <2>2
<1> QED BY <1>2, <1>6, <1>7 DEF ViewsCurrent

\* Every step keeps the views current.
LEMMA StepViews ==
  ASSUME Inv, FreesOk, ViewsCurrent, ViewsType, [Next]_vars
  PROVE  ViewsCurrent' /\ ViewsType'
<1> DEFINE Goal == ViewsCurrent' /\ ViewsType'
<1> SUFFICES Goal OBVIOUS
<1>1. views' = Stale => Goal BY ViewsStale
<1>2. ASSUME UNCHANGED <<blocks, meta, views>> PROVE Goal
  <2>1. \A v \in ViewNames : ViewOf(v)' = ViewOf(v) BY <1>2, ViewsSame
  <2> QED BY <1>2, <2>1, ViewsStay
<1>3. ASSUME NEW b \in blocks, NEW n \in Nat, SetRefCount(b, n) PROVE Goal
  <2>1. CASE (meta[b].ref = 0) # (n = 0)
    BY <1>1, <1>3, <2>1 DEF SetRefCount, Change
  <2>2. CASE (meta[b].ref = 0) = (n = 0)
    <3>1. blocks' = blocks /\ views' = views BY <1>3, <2>2 DEF SetRefCount
    <3>2. /\ meta'[b] = [meta[b] EXCEPT !.ref = n]
          /\ \A c \in Blocks : c # b => meta'[c] = meta[c]
      BY <1>3, RefMeta
    <3>3. meta[b] \in Meta BY DEF Inv, TypeOK, Meta
    <3>4. /\ meta'[b].ref = 0 <=> meta[b].ref = 0
          /\ meta'[b].pinned = meta[b].pinned /\ meta'[b].dev = meta[b].dev
          /\ meta'[b].host = meta[b].host /\ meta'[b].xfer = meta[b].xfer
      BY <2>2, <3>2, <3>3 DEF Meta
    <3>5. \A v \in ViewNames : ViewOf(v)' = ViewOf(v) BY <3>1, <3>2, <3>4, ViewsSame
    <3> QED BY <3>1, <3>5, ViewsStay
  <2> QED BY <2>1, <2>2
<1>4. ASSUME NEW r \in Requests, NEW b \in Blocks, Acquire(r, b) PROVE Goal
  <2>1. b \in blocks /\ meta[b].ref + 1 \in Nat /\ SetRefCount(b, meta[b].ref + 1)
    BY <1>4 DEF Acquire, Inv, TypeOK
  <2> HIDE DEF Goal
  <2> QED BY <1>3, <2>1
<1>5. ASSUME NEW r \in Requests, NEW b \in Blocks, Release(r, b) PROVE Goal
  <2>1. b \in blocks /\ SetRefCount(b, meta[b].ref - 1) BY <1>5 DEF Release, Inv, HeldBlocksLive
  <2>2. meta[b].ref - 1 \in Nat BY <1>5, ReleaseCount
  <2> HIDE DEF Goal
  <2> QED BY <1>3, <2>1, <2>2
<1>6. ASSUME NEW r \in Requests, NEW b \in Blocks, InsertBlock(r, b) PROVE Goal
  <2>1. views' = Stale \/ views' = views BY <1>6 DEF InsertBlock
  <2>2. \A v \in ViewNames : ViewOf(v)' = ViewOf(v) BY <1>6, InsertViews
  <2> QED BY <1>1, <2>1, <2>2, ViewsStay
<1>7. ASSUME NEW b \in Blocks, RemoveBlock(b) \/ Demote(b) PROVE Goal
  BY <1>1, <1>7 DEF RemoveBlock, Demote
<1>8. ASSUME NEW b \in Blocks,
             \/ BeginD2H(b) \/ FinishD2H(b) \/ AbortD2H(b)
             \/ BeginH2D(b) \/ FinishH2D(b) \/ AbortH2D(b)
      PROVE  Goal
  BY <1>1, <1>8 DEF BeginD2H, FinishD2H, AbortD2H, BeginH2D, FinishH2D, AbortH2D, Change
<1>9. ASSUME NEW b \in Blocks, NEW pin \in BOOLEAN, SetPriority(b, pin) PROVE Goal
  BY <1>1, <1>9 DEF SetPriority
<1>10. ASSUME NEW v \in Queries, Query(v) PROVE Goal
  BY <1>10, QueryViews
<1>11. ASSUME NEW r \in Requests, Lookup(r) PROVE Goal
  BY <1>2, <1>11 DEF Lookup
<1>12. CASE UNCHANGED vars BY <1>2, <1>12 DEF vars
<1> HIDE DEF Goal
<1> QED BY <1>4, <1>5, <1>6, <1>7, <1>8, <1>9, <1>10, <1>11, <1>12 DEF Next

\* The inductive invariant of capacity and memos.
CapacityInv == Inv /\ FreesOk /\ ViewsType /\ ViewsCurrent /\ MemoType

\* It holds at first and every step keeps it.
LEMMA CapacityInvariant == Spec => []CapacityInv
<1>1. Init => CapacityInv
  <2> SUFFICES ASSUME Init PROVE CapacityInv
    OBVIOUS
  <2>1. FreesOk BY DEF Init, FreesOk, FreesType, Settled
  <2>2. ViewsType /\ ViewsCurrent BY DEF Init, ViewsType, ViewsCurrent, Stale, NoView
  <2> QED BY <2>1, <2>2, InitInv, InitMemo DEF CapacityInv
<1>2. CapacityInv /\ [Next]_vars => CapacityInv'
  BY StepInv, StepFrees, StepViews, StepMemo DEF CapacityInv
<1> QED BY <1>1, <1>2, PTL DEF Spec

\* For every tree of blocks, whatever was inserted, referenced, pinned, moved
\* and removed in whatever order: the freeable set kept by
\* _refresh_freeable_path, its counts, and every view the index would answer
\* from are what computing them anew would give.
THEOREM CapacityAlwaysExact == Spec => []CapacityExact
<1>1. CapacityInv => CapacityExact
  BY SettledIsBuilt DEF CapacityInv, CapacityExact, FreeableExact
<1> QED BY <1>1, CapacityInvariant, PTL

\* For every tree and every prompt, a memo that passes the two membership tests
\* of lookup_prefix_cache_hit is the longest hit, whatever came and went.
THEOREM MemoAlwaysSound == Spec => []MemoSound
<1>1. CapacityInv => MemoSound
  BY LiveClosed, MemoIsSound DEF CapacityInv, MemoSound
<1> QED BY <1>1, CapacityInvariant, PTL

=============================================================================
