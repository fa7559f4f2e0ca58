--------------------------- MODULE DPEngineProofs ---------------------------
(***************************************************************************)
(* Proofs about DPEngine, for any number of ranks and any bounds on        *)
(* requests, chains, rows, tombstones and faults.                          *)
(*                                                                         *)
(* The inductive invariant Inv has two parts.  By themselves the tables of *)
(* the frontend and each engine are sound (Frame).  That they agree with   *)
(* each other (Sync) holds between calls, and inside a call it is said by  *)
(* phase: a rank that has not answered agrees still; one that has will     *)
(* agree once its reply is read and used (Settles); in a step, what is     *)
(* done counts as active until the call returns (Finished), and a chain    *)
(* reclaimed before the collective is forgotten when the snapshot of its   *)
(* rank is read (PrevKnown).  A dead rank is outside all agreements.       *)
(***************************************************************************)
EXTENDS DPEngine, FiniteSetTheorems, WellFoundedInduction, TLAPS

-----------------------------------------------------------------------------
(* Sequences and least elements                                            *)

\* A nonempty set of naturals has a least element.
LEMMA LeastNat ==
  ASSUME NEW T, T \subseteq Nat, T # {}
  PROVE  \E n \in T : \A m \in T : n <= m
<1> DEFINE R == OpToRel(<, Nat)
<1>1. IsWellFoundedOn(R, Nat) BY NatLessThanWellFounded
<1>2. \A i, j \in Nat : i < j => <<i, j>> \in R BY DEF OpToRel
<1> HIDE DEF R
<1>3. PICK x \in T : \A y \in T : ~ (<<y, x>> \in R) BY <1>1, WFMin
<1>4. \A y \in T : ~(y < x) BY <1>2, <1>3
<1>5. \A y \in T : x <= y BY <1>4
<1> QED BY <1>5

\* The library's Min is the least element.
LEMMA MinIs ==
  ASSUME NEW T, T \subseteq Nat, T # {}
  PROVE  Min(T) \in T
<1>1. \E n \in T : \A m \in T : n <= m BY LeastNat
<1> QED BY <1>1 DEF Min

\* Induction over 0..N.
LEMMA Upto ==
  ASSUME NEW N \in Nat, NEW P, 0 \in P, \A k \in 0..(N - 1) : k \in P => k + 1 \in P
  PROVE  \A k \in 0..N : k \in P
<1> DEFINE T == {k \in 0..N : k \notin P}
<1> SUFFICES ASSUME T # {} PROVE FALSE
  OBVIOUS
<1>1. T \subseteq Nat OBVIOUS
<1>2. PICK n \in T : \A k \in T : n <= k BY <1>1, LeastNat
<1>3. n \in 0..N /\ n \notin P BY <1>2
<1>4. n # 0 BY <1>3
<1>5. n - 1 \in 0..(N - 1) /\ n - 1 \in 0..N BY <1>3, <1>4
<1>6. n - 1 \in P BY <1>2, <1>3, <1>5
<1>7. n \in P BY <1>3, <1>5, <1>6
<1> QED BY <1>3, <1>7

\* Removing the first occurrence leaves the other elements.
LEMMA RemoveFirstIs ==
  ASSUME NEW S, NEW s \in Seq(S), NEW c
  PROVE  /\ RemoveFirst(s, c) \in Seq(S)
         /\ Len(RemoveFirst(s, c)) <= Len(s)
         /\ Range(s) \ {c} \subseteq Range(RemoveFirst(s, c))
         /\ Range(RemoveFirst(s, c)) \subseteq Range(s)
<1> DEFINE I == {i \in 1..Len(s) : s[i] = c}
           n == Len(s)
           k == Min(I)
           a == SubSeq(s, 1, k - 1)
           b == SubSeq(s, k + 1, n)
<1>0. n \in Nat /\ DOMAIN s = 1..n /\ Range(s) = {s[i] : i \in 1..n} BY DEF Range
<1>1. CASE I = {}
  <2>1. RemoveFirst(s, c) = s BY <1>1 DEF RemoveFirst
  <2> QED BY <2>1, <1>0
<1>2. CASE I # {}
  <2>0. I \subseteq Nat OBVIOUS
  <2>1. k \in I
    <3> HIDE DEF I
    <3> QED BY <1>2, <2>0, MinIs
  <2>2. k \in 1..n /\ s[k] = c BY <2>1
  <2>3. RemoveFirst(s, c) = a \o b BY <1>2 DEF RemoveFirst, RemoveAt, SelectInSeq
  <2> HIDE DEF I, k
  <2>4. a \in Seq(S) /\ Len(a) = k - 1 /\ \A i \in 1..(k - 1) : a[i] = s[i] BY <2>2, <1>0
  <2>5. b \in Seq(S) /\ Len(b) = n - k /\ \A i \in 1..(n - k) : b[i] = s[i + k]
    <3> HIDE DEF n
    <3>1. k + 1 \in Int /\ k \in Int /\ n \in Int /\ k + 1 >= 1 BY <2>2, <1>0
    <3>2. b \in Seq(S) /\ Len(b) = IF k + 1 <= n THEN n - (k + 1) + 1 ELSE 0
      BY <2>2, <1>0, <3>1 DEF n
    <3>3. Len(b) = n - k BY <3>1, <3>2, <2>2
    <3>4. \A i \in 1..(n - k) : b[i] = s[k + 1 + i - 1] BY <2>2, <1>0, <3>1, <3>3
    <3>5. \A i \in 1..(n - k) : k + 1 + i - 1 = i + k BY <3>1
    <3> QED BY <3>2, <3>3, <3>4, <3>5
  <2> HIDE DEF a, b
  <2> DEFINE z == a \o b
  <2>6. z \in Seq(S) /\ Len(z) = n - 1
    <3>0. a \in Seq(S) /\ b \in Seq(S) BY <2>4, <2>5
    <3>a. a \o b \in Seq(S) BY <3>0
    <3>b. Len(a \o b) = Len(a) + Len(b) BY <3>0
    <3>1. z \in Seq(S) /\ Len(z) = Len(a) + Len(b) BY <3>a, <3>b
    <3> QED BY <3>1, <2>4, <2>5, <2>2, <1>0
  <2>7. \A i \in 1..(n - 1) : z[i] = IF i < k THEN s[i] ELSE s[i + 1]
    <3> TAKE i \in 1..(n - 1)
    <3>1. CASE i < k BY <3>1, <2>4, <2>5, <2>2, <1>0
    <3>2. CASE ~(i < k)
      <4>1. i - (k - 1) \in 1..(n - k) BY <3>2, <2>2, <1>0
      <4>2. z[i] = b[i - (k - 1)] BY <3>2, <2>4, <2>5, <2>2, <1>0
      <4>3. i - (k - 1) + k = i + 1 BY <2>2, <1>0
      <4> QED BY <4>1, <4>2, <4>3, <2>5, <3>2
    <3> QED BY <3>1, <3>2
  <2> HIDE DEF z
  <2>8. DOMAIN z = 1..(n - 1) /\ Range(z) = {z[i] : i \in 1..(n - 1)} BY <2>6 DEF Range
  <2>9. Range(z) \subseteq Range(s)
    <3> SUFFICES ASSUME NEW i \in 1..(n - 1) PROVE z[i] \in Range(s) BY <2>8
    <3>1. i \in 1..n /\ i + 1 \in 1..n BY <1>0
    <3> QED BY <3>1, <2>7, <1>0
  <2>10. Range(s) \ {c} \subseteq Range(z)
    <3> SUFFICES ASSUME NEW i \in 1..n, s[i] # c PROVE s[i] \in Range(z) BY <1>0
    <3>1. i # k BY <2>2
    <3>2. CASE i < k
      <4>1. i \in 1..(n - 1) BY <3>2, <2>2, <1>0
      <4> QED BY <4>1, <3>2, <2>7, <2>8
    <3>3. CASE i > k
      <4>1. i - 1 \in 1..(n - 1) /\ ~(i - 1 < k) /\ i - 1 + 1 = i BY <3>3, <2>2, <1>0
      <4>2. z[i - 1] = s[i] BY <4>1, <2>7
      <4> QED BY <4>1, <4>2, <2>8
    <3> QED BY <3>1, <3>2, <3>3, <2>2, <1>0
  <2> QED BY <2>3, <2>6, <2>9, <2>10, <1>0 DEF z
<1> QED BY <1>1, <1>2

\* Appending adds one element.
LEMMA AppendRange ==
  ASSUME NEW S, NEW s \in Seq(S), NEW c \in S
  PROVE  /\ Append(s, c) \in Seq(S) /\ Len(Append(s, c)) = Len(s) + 1
         /\ Range(Append(s, c)) = Range(s) \cup {c}
<1> DEFINE n == Len(s)
           z == Append(s, c)
<1>0. n \in Nat /\ DOMAIN s = 1..n OBVIOUS
<1>1. z \in Seq(S) /\ Len(z) = n + 1 /\ DOMAIN z = 1..(n + 1) OBVIOUS
<1>2. z[n + 1] = c /\ \A i \in 1..n : z[i] = s[i] OBVIOUS
<1> HIDE DEF z
<1>3. 1..(n + 1) = (1..n) \cup {n + 1} BY <1>0
<1> HIDE DEF n
<1>4. Range(z) = {z[i] : i \in 1..(n+1)} /\ Range(s) = {s[i] : i \in 1..n} BY <1>0, <1>1 DEF Range
<1>5. Range(z) = Range(s) \cup {c} BY <1>2, <1>3, <1>4
<1> QED BY <1>1, <1>5 DEF z, n

\* Touching moves a chain to the end and keeps the others.
LEMMA TouchIs ==
  ASSUME NEW S, NEW s \in Seq(S), NEW c \in S
  PROVE  /\ Touch(s, c) \in Seq(S)
         /\ Len(Touch(s, c)) <= Len(s) + 1 /\ Len(Touch(s, c)) >= 1
         /\ Range(s) \cup {c} = Range(Touch(s, c))
<1> DEFINE z == RemoveFirst(s, c)
<1>1. /\ z \in Seq(S) /\ Len(z) <= Len(s)
      /\ Range(s) \ {c} \subseteq Range(z) /\ Range(z) \subseteq Range(s) BY RemoveFirstIs
<1>2. Touch(s, c) = Append(z, c) BY DEF Touch
<1> HIDE DEF z
<1>3. /\ Append(z, c) \in Seq(S) /\ Len(Append(z, c)) = Len(z) + 1
      /\ Range(Append(z, c)) = Range(z) \cup {c} BY <1>1, AppendRange
<1>4. Len(z) \in Nat /\ Len(s) \in Nat BY <1>1
<1>5. Range(z) \cup {c} = Range(s) \cup {c} BY <1>1
<1> QED BY <1>1, <1>2, <1>3, <1>4, <1>5

\* _add_tombstone keeps its bound and names nothing new but the chain.
LEMMA AddTombstoneIs ==
  ASSUME NEW s \in Seq(Nat), NEW c \in Nat, Len(s) <= MaxTombstones
  PROVE  /\ AddTombstone(s, c) \in Seq(Nat) /\ Len(AddTombstone(s, c)) <= MaxTombstones
         /\ Range(AddTombstone(s, c)) \subseteq Range(s) \cup {c}
<1> DEFINE z == Touch(s, c)
<1>1. z \in Seq(Nat) /\ Len(z) <= Len(s) + 1 /\ Len(z) >= 1 /\ Range(s) \cup {c} = Range(z) BY TouchIs
<1>2. AddTombstone(s, c) = IF Len(z) > MaxTombstones THEN Tail(z) ELSE z BY DEF AddTombstone
<1>3. MaxTombstones \in Nat BY DPEngineAssumption
<1> HIDE DEF z
<1>4. CASE Len(z) > MaxTombstones
  <2>1. z # <<>> /\ Len(z) \in Nat /\ Len(s) \in Nat BY <1>1
  <2>2. Tail(z) \in Seq(Nat) /\ Len(Tail(z)) = Len(z) - 1 BY <2>1, <1>1
  <2>3. \A i \in 1..Len(Tail(z)) : Tail(z)[i] = z[i + 1] /\ i + 1 \in 1..Len(z) BY <2>1, <2>2, <1>1
  <2>4. DOMAIN Tail(z) = 1..Len(Tail(z)) /\ DOMAIN z = 1..Len(z) BY <2>2, <1>1
  <2>5. Range(Tail(z)) \subseteq Range(z) BY <2>3, <2>4 DEF Range
  <2> QED BY <1>1, <1>2, <1>3, <1>4, <2>1, <2>2, <2>5
<1>5. CASE ~(Len(z) > MaxTombstones)
  BY <1>1, <1>2, <1>3, <1>5
<1> QED BY <1>4, <1>5

\* The library's Max of a set that holds its upper bound.
LEMMA MaxUpto ==
  ASSUME NEW n \in Nat, NEW s, s \subseteq 1..n, n \in s
  PROVE  Max(s) = n
<1>1. \A y \in s : n >= y OBVIOUS
<1>2. \A x \in s : (\A y \in s : x >= y) => x = n OBVIOUS
<1> QED BY <1>1, <1>2 DEF Max

\* The chains of a step touched one after the other, in order.
TouchAll(s, order) == FoldLeft(Touch, s, order)

\* All of them are in it, and what was in it.
LEMMA TouchAllIs ==
  ASSUME NEW base \in Seq(Nat), NEW N \in Nat, NEW seq \in [1..N -> Nat]
  PROVE  TouchAll(base, seq) \in Seq(Nat) /\ Range(base) \subseteq Range(TouchAll(base, seq))
<1> DEFINE Sol(it, n) == it = [s \in SUBSET (1..n) |->
                                 IF s = {} THEN base ELSE Touch(it[s \ {Max(s)}], seq[Max(s)])]
           Solved(n) == \E it : Sol(it, n)
           P == {n \in 0..N : Solved(n)}
<1> HIDE DEF Solved
<1>1. \A n \in 0..N : n \in P
  <2>1. 0 \in P
    <3>1. SUBSET (1..0) = {{}} OBVIOUS
    <3>2. Sol([s \in {{}} |-> base], 0) BY <3>1
    <3>3. Solved(0) BY <3>2 DEF Solved
    <3> QED BY <3>3
  <2>2. ASSUME NEW j \in 0..(N - 1), j \in P PROVE j + 1 \in P
    <3> DEFINE n == j + 1
    <3>0. n \in Nat /\ n \in 0..N /\ j \in Nat BY <2>2
    <3>1. Solved(j) BY <2>2
    <3>2. PICK it : Sol(it, j) BY <3>1 DEF Solved
    <3> DEFINE nt == [s \in SUBSET (1..n) |-> IF n \in s THEN Touch(it[s \ {n}], seq[n]) ELSE it[s]]
    <3>3. ASSUME NEW s \in SUBSET (1..n)
          PROVE  nt[s] = IF s = {} THEN base ELSE Touch(nt[s \ {Max(s)}], seq[Max(s)])
      <4>1. CASE n \in s
        <5>1. s \subseteq 1..n OBVIOUS
        <5>2. Max(s) = n BY <3>0, <4>1, <5>1, MaxUpto
        <5>3. s \ {n} \in SUBSET (1..n) OBVIOUS
        <5>4. nt[s \ {n}] = it[s \ {n}] BY <5>3
        <5> QED BY <5>2, <5>4, <4>1
      <4>2. CASE n \notin s /\ s # {}
        <5>1. s \in SUBSET (1..j) BY <3>0, <4>2
        <5>2. s \ {Max(s)} \in SUBSET (1..j) BY <5>1
        <5>3. nt[s \ {Max(s)}] = it[s \ {Max(s)}] BY <5>2, <4>2
        <5>4. it[s] = Touch(it[s \ {Max(s)}], seq[Max(s)]) BY <5>1, <3>2, <4>2
        <5> QED BY <4>2, <5>3, <5>4
      <4>3. CASE s = {} BY <4>3, <3>2
      <4> QED BY <4>1, <4>2, <4>3
    <3> HIDE DEF nt
    <3>4. nt = [s \in SUBSET (1..n) |-> nt[s]] BY DEF nt
    <3>5. Sol(nt, n) BY <3>3, <3>4
    <3>6. Solved(n) BY <3>5 DEF Solved
    <3> QED BY <3>0, <3>6
  <2> HIDE DEF P
  <2> QED BY <2>1, <2>2, Upto
<1> HIDE DEF P
<1>2. Solved(N)
  <2>1. N \in P BY <1>1
  <2> QED BY <2>1 DEF P
<1>3. PICK it0 : Sol(it0, N) BY <1>2 DEF Solved
<1> DEFINE it == CHOOSE i : Sol(i, N)
<1>4. Sol(it, N) BY <1>3
<1>5. TouchAll(base, seq) = it[1..N]
  BY DEF TouchAll, FoldLeft, MapThenFoldSet
<1> HIDE DEF it
<1>6. ASSUME NEW k \in 1..N PROVE it[1..k] = Touch(it[1..(k-1)], seq[k])
  <2> DEFINE s == 1..k
  <2>0. k \in Nat BY <1>6
  <2>1. s \subseteq 1..N /\ k \in s BY <1>6, <2>0
  <2>2. Max(s) = k BY <2>0, <2>1, MaxUpto
  <2>3. s \ {k} = 1..(k-1) BY <2>0
  <2> HIDE DEF s
  <2>4. it[s] = Touch(it[s \ {Max(s)}], seq[Max(s)]) BY <1>4, <2>1
  <2> QED BY <2>2, <2>3, <2>4 DEF s
<1>7. it[{}] = base BY <1>4
<1> HIDE DEF Sol
<1> DEFINE Q == {k \in 0..N : it[1..k] \in Seq(Nat) /\ Range(base) \subseteq Range(it[1..k])}
<1>8. 0 \in Q
  <2>1. 1..0 = {} OBVIOUS
  <2> QED BY <1>7, <2>1
<1>9. ASSUME NEW k \in 0..(N - 1), k \in Q PROVE k + 1 \in Q
  <2> DEFINE a == it[1..k]
             b == it[1..(k + 1)]
  <2>1. a \in Seq(Nat) /\ Range(base) \subseteq Range(a) BY <1>9
  <2>2. k + 1 \in 1..N /\ (k + 1) - 1 = k /\ k + 1 \in 0..N BY <1>9
  <2>3. b = Touch(a, seq[k + 1]) /\ seq[k + 1] \in Nat BY <2>2, <1>6
  <2> HIDE DEF a
  <2>4. Touch(a, seq[k + 1]) \in Seq(Nat) /\ Range(a) \cup {seq[k + 1]} = Range(Touch(a, seq[k + 1]))
    BY <2>1, <2>3, TouchIs
  <2> QED BY <2>1, <2>2, <2>3, <2>4
<1> HIDE DEF Q
<1>10. \A k \in 0..N : k \in Q BY <1>8, <1>9, Upto
<1>11. N \in Q BY <1>10
<1> QED BY <1>5, <1>11 DEF Q

-----------------------------------------------------------------------------
(* The chain index                                                         *)

PFun(A, B) == UNION {[D -> B] : D \in SUBSET A}

\* A partial function is a function on its domain.
LEMMA PFunIs ==
  ASSUME NEW A, NEW B, NEW f
  PROVE  f \in PFun(A, B) <=> (DOMAIN f \subseteq A /\ f \in [DOMAIN f -> B])
BY DEF PFun

\* Dropping keys keeps a partial function.
LEMMA PFunDrop ==
  ASSUME NEW A, NEW B, NEW f \in PFun(A, B), NEW S
  PROVE  Drop(f, S) \in PFun(A, B)
BY PFunIs DEF Drop

\* Adding a key keeps a partial function.
LEMMA PFunPut ==
  ASSUME NEW A, NEW B, NEW f \in PFun(A, B), NEW k \in A, NEW v \in B
  PROVE  Put(f, k, v) \in PFun(A, B)
BY PFunIs DEF Put

\* The empty table is a partial function.
LEMMA PFunEmpty == ASSUME NEW A, NEW B PROVE <<>> \in PFun(A, B) /\ DOMAIN <<>> = {}
<1>1. DOMAIN <<>> = {} /\ <<>> \in [{} -> B] OBVIOUS
<1> QED BY <1>1, PFunIs

RecType == [seq : Nat, state : {"active", "idle"}]
IndexType == [rec : PFun(Nat, RecType), lru : Seq(Nat), tomb : Seq(Nat)]

IndexOK(i, n) ==
  /\ i \in IndexType
  /\ DOMAIN i.rec \subseteq 1..n /\ Range(i.tomb) \subseteq 1..n
  /\ Cardinality(DOMAIN i.rec) <= MaxRows /\ Len(i.tomb) <= MaxTombstones
  /\ DOMAIN i.rec \subseteq Range(i.lru)
  /\ \A c, d \in DOMAIN i.rec : i.rec[c].seq = i.rec[d].seq => c = d

\* j is i after some idle chains were given up.
Kept(i, j) ==
  /\ DOMAIN j.rec \subseteq DOMAIN i.rec /\ \A c \in DOMAIN j.rec : j.rec[c] = i.rec[c]
  /\ DOMAIN i.rec \ DOMAIN j.rec \subseteq IdleResident(i)
  /\ Known(j) \subseteq Known(i)

\* The fields of a resident chain.
LEMMA RecIs ==
  ASSUME NEW i \in IndexType
  PROVE  /\ i.rec \in PFun(Nat, RecType) /\ i.lru \in Seq(Nat) /\ i.tomb \in Seq(Nat)
         /\ DOMAIN i.rec \subseteq Nat /\ i.rec \in [DOMAIN i.rec -> RecType]
         /\ \A c \in DOMAIN i.rec : /\ i.rec[c] \in RecType /\ i.rec[c].seq \in Nat
                                    /\ i.rec[c].state \in {"active", "idle"}
<1>1. i.rec \in PFun(Nat, RecType) /\ i.lru \in Seq(Nat) /\ i.tomb \in Seq(Nat) BY DEF IndexType
<1>2. DOMAIN i.rec \subseteq Nat /\ i.rec \in [DOMAIN i.rec -> RecType] BY <1>1, PFunIs
<1>3. \A c \in DOMAIN i.rec : i.rec[c] \in RecType BY <1>2
<1>4. \A x \in RecType : x.seq \in Nat /\ x.state \in {"active", "idle"} BY DEF RecType
<1> QED BY <1>1, <1>2, <1>3, <1>4

\* A fresh index is sound.
LEMMA NewIndexOK == ASSUME NEW n \in Nat PROVE IndexOK(NewIndex, n) /\ Known(NewIndex) = {} /\ DOMAIN NewIndex.rec = {}
<1>1. DOMAIN <<>> = {} /\ <<>> \in PFun(Nat, RecType) BY PFunEmpty
<1>2. <<>> \in Seq(Nat) /\ Len(<<>>) = 0 OBVIOUS
<1>3. NewIndex.rec = <<>> /\ NewIndex.lru = <<>> /\ NewIndex.tomb = <<>> BY DEF NewIndex
<1>4. NewIndex \in IndexType BY <1>1, <1>2 DEF NewIndex, IndexType
<1>5. Range(<<>>) = {} BY <1>1 DEF Range
<1>6. Cardinality({}) = 0 BY FS_EmptySet
<1> QED BY <1>1, <1>2, <1>3, <1>4, <1>5, <1>6, DPEngineAssumption DEF IndexOK, Known

\* The resident chains are finitely many.
LEMMA RowsFinite ==
  ASSUME NEW n \in Nat, NEW i, IndexOK(i, n)
  PROVE  IsFiniteSet(DOMAIN i.rec) /\ Cardinality(DOMAIN i.rec) \in Nat
<1>1. IsFiniteSet(1..n) BY FS_Interval
<1>2. DOMAIN i.rec \subseteq 1..n BY DEF IndexOK
<1>3. IsFiniteSet(DOMAIN i.rec) BY <1>1, <1>2, FS_Subset
<1> QED BY <1>3, FS_CardinalityType

\* Invalidating a chain keeps the index sound and frees a row.
LEMMA InvalidateOK ==
  ASSUME NEW n \in Nat, NEW i, IndexOK(i, n), NEW c \in DOMAIN i.rec
  PROVE  LET j == Invalidate(i, c)
         IN  /\ IndexOK(j, n) /\ HasRow(j)
             /\ DOMAIN j.rec = DOMAIN i.rec \ {c} /\ \A d \in DOMAIN j.rec : j.rec[d] = i.rec[d]
             /\ Known(j) \subseteq Known(i)
<1> DEFINE j == Invalidate(i, c)
<1>0. i \in IndexType /\ Len(i.tomb) <= MaxTombstones BY DEF IndexOK
<1>1. /\ i.rec \in PFun(Nat, RecType) /\ i.lru \in Seq(Nat) /\ i.tomb \in Seq(Nat)
      /\ DOMAIN i.rec \subseteq Nat
  BY <1>0, RecIs
<1>2. j = [rec |-> Drop(i.rec, {c}), lru |-> RemoveFirst(i.lru, c), tomb |-> AddTombstone(i.tomb, c)]
  BY DEF Invalidate
<1>3. /\ j.rec \in PFun(Nat, RecType) /\ DOMAIN j.rec = DOMAIN i.rec \ {c}
      /\ \A d \in DOMAIN j.rec : j.rec[d] = i.rec[d]
  <2>1. j.rec = Drop(i.rec, {c}) BY <1>2
  <2>2. Drop(i.rec, {c}) \in PFun(Nat, RecType) BY <1>1, PFunDrop
  <2>3. /\ DOMAIN Drop(i.rec, {c}) = DOMAIN i.rec \ {c}
        /\ \A d \in DOMAIN i.rec \ {c} : Drop(i.rec, {c})[d] = i.rec[d]
    BY DEF Drop
  <2> QED BY <2>1, <2>2, <2>3
<1>4. j.lru \in Seq(Nat) /\ Range(i.lru) \ {c} \subseteq Range(j.lru)
  <2>1. j.lru = RemoveFirst(i.lru, c) BY <1>2
  <2> QED BY <1>1, <2>1, RemoveFirstIs
<1>5. /\ j.tomb \in Seq(Nat) /\ Len(j.tomb) <= MaxTombstones /\ Range(j.tomb) \subseteq Range(i.tomb) \cup {c}
  <2>1. j.tomb = AddTombstone(i.tomb, c) /\ c \in Nat BY <1>1, <1>2
  <2> QED BY <1>0, <1>1, <2>1, AddTombstoneIs
<1>6. j \in IndexType BY <1>2, <1>3, <1>4, <1>5 DEF IndexType
<1> HIDE DEF j
<1>7. IsFiniteSet(DOMAIN i.rec) /\ Cardinality(DOMAIN i.rec) \in Nat BY RowsFinite
<1>8. Cardinality(DOMAIN j.rec) = Cardinality(DOMAIN i.rec) - 1 /\ Cardinality(DOMAIN i.rec) <= MaxRows
  <2> DEFINE D == DOMAIN i.rec
  <2>0. c \in D /\ IsFiniteSet(D) /\ Cardinality(D) <= MaxRows BY <1>7 DEF IndexOK
  <2> HIDE DEF D
  <2>1. Cardinality(D \ {c}) = Cardinality(D) - 1 BY <2>0, FS_RemoveElement
  <2> QED BY <2>0, <2>1, <1>3 DEF D
<1>9. MaxRows \in Nat BY DPEngineAssumption
<1>10. HasRow(j) BY <1>7, <1>8, <1>9 DEF HasRow
<1>11. Known(j) \subseteq Known(i) BY <1>3, <1>5 DEF Known
<1>12. IndexOK(j, n)
  <2>1. DOMAIN j.rec \subseteq 1..n /\ Range(j.tomb) \subseteq 1..n BY <1>3, <1>5 DEF IndexOK
  <2>2. Cardinality(DOMAIN j.rec) <= MaxRows BY <1>7, <1>8, <1>9
  <2>3. DOMAIN j.rec \subseteq Range(j.lru) BY <1>3, <1>4 DEF IndexOK
  <2>4. \A a, b \in DOMAIN j.rec : j.rec[a].seq = j.rec[b].seq => a = b BY <1>3 DEF IndexOK
  <2> QED BY <1>5, <1>6, <2>1, <2>2, <2>3, <2>4 DEF IndexOK
<1> QED BY <1>3, <1>10, <1>11, <1>12 DEF j

\* idle_resident_lru finds an idle chain when there is one.
LEMMA LeastRecentIdle ==
  ASSUME NEW n \in Nat, NEW i, IndexOK(i, n), IdleResident(i) # {}
  PROVE  LeastRecent(i) \in IdleResident(i) /\ LeastRecent(i) \in DOMAIN i.rec
<1> DEFINE K == {k \in DOMAIN i.lru : i.lru[k] \in IdleResident(i)}
<1>1. i.lru \in Seq(Nat) /\ DOMAIN i.rec \subseteq Range(i.lru) BY RecIs DEF IndexOK
<1>2. IdleResident(i) \subseteq DOMAIN i.rec BY DEF IdleResident, InState
<1>3. K # {} BY <1>1, <1>2 DEF Range
<1>4. K \subseteq Nat BY <1>1
<1>5. LeastRecent(i) = i.lru[Min(K)] BY DEF LeastRecent
<1>6. Min(K) \in K
  <2> HIDE DEF K
  <2> QED BY <1>3, <1>4, MinIs
<1> QED BY <1>2, <1>5, <1>6

\* Reclaiming gives up one idle chain.
LEMMA ReclaimedOK ==
  ASSUME NEW n \in Nat, NEW i, IndexOK(i, n), IdleResident(i) # {}
  PROVE  IndexOK(Reclaimed(i), n) /\ HasRow(Reclaimed(i)) /\ Kept(i, Reclaimed(i))
<1> DEFINE c == LeastRecent(i)
           j == Invalidate(i, c)
<1>1. c \in IdleResident(i) /\ c \in DOMAIN i.rec BY LeastRecentIdle
<1>2. Reclaimed(i) = j BY DEF Reclaimed
<1> HIDE DEF c
<1>3. /\ IndexOK(j, n) /\ HasRow(j) /\ Known(j) \subseteq Known(i)
      /\ DOMAIN j.rec = DOMAIN i.rec \ {c} /\ \A d \in DOMAIN j.rec : j.rec[d] = i.rec[d]
  BY <1>1, InvalidateOK
<1> HIDE DEF j
<1> QED BY <1>1, <1>2, <1>3 DEF Kept

\* Making room gives up idle chains alone, and makes room.
LEMMA EvictedOK ==
  ASSUME NEW n \in Nat, NEW i, IndexOK(i, n), CanAdmit(i)
  PROVE  IndexOK(Evicted(i), n) /\ HasRow(Evicted(i)) /\ Kept(i, Evicted(i))
<1>1. CASE HasRow(i) BY <1>1 DEF Evicted, Kept
<1>2. CASE ~HasRow(i)
  <2>1. IdleResident(i) # {} /\ Evicted(i) = Reclaimed(i) BY <1>2 DEF CanAdmit, Evicted
  <2> QED BY <2>1, ReclaimedOK
<1> QED BY <1>1, <1>2

\* j is e with a new active chain c of sequence s.
Created(e, j, c, s) ==
  /\ DOMAIN j.rec = DOMAIN e.rec \cup {c}
  /\ j.rec[c] = [seq |-> s, state |-> "active"]
  /\ \A d \in DOMAIN e.rec : d # c /\ j.rec[d] = e.rec[d]
  /\ Known(j) = Known(e) \cup {c}

\* A created chain is resident, next to what eviction left.
LEMMA CreateOK ==
  ASSUME NEW n \in Nat, NEW i, IndexOK(i, n), CanAdmit(i), NEW s \in Nat,
         \A c \in DOMAIN i.rec : i.rec[c].seq # s
  PROVE  IndexOK(Create(i, n + 1, s), n + 1) /\ Created(Evicted(i), Create(i, n + 1, s), n + 1, s)
<1> DEFINE e == Evicted(i)
           c == n + 1
           x == [seq |-> s, state |-> "active"]
           j == Create(i, c, s)
<1>1. IndexOK(e, n) /\ HasRow(e) /\ Kept(i, e) BY EvictedOK
<1> HIDE DEF e
<1>2. /\ e \in IndexType /\ e.rec \in PFun(Nat, RecType) /\ e.lru \in Seq(Nat) /\ e.tomb \in Seq(Nat)
      /\ DOMAIN e.rec \subseteq 1..n /\ e.rec \in [DOMAIN e.rec -> RecType]
  BY <1>1, RecIs DEF IndexOK
<1>3. j = [e EXCEPT !.rec = [d \in DOMAIN e.rec \cup {c} |-> IF d = c THEN x ELSE e.rec[d]],
                    !.lru = Append(e.lru, c)]
  BY DEF Create, e
<1>4. x \in RecType /\ c \in Nat /\ c \notin 1..n BY DEF RecType
<1>5. /\ j.rec = [d \in DOMAIN e.rec \cup {c} |-> IF d = c THEN x ELSE e.rec[d]]
      /\ j.lru = Append(e.lru, c) /\ j.tomb = e.tomb
      /\ j = [rec |-> j.rec, lru |-> j.lru, tomb |-> j.tomb]
  BY <1>2, <1>3 DEF IndexType
<1> HIDE DEF j, c, x
<1>6. /\ DOMAIN j.rec = DOMAIN e.rec \cup {c} /\ j.rec[c] = x
      /\ \A d \in DOMAIN e.rec : d # c /\ j.rec[d] = e.rec[d]
  BY <1>2, <1>4, <1>5
<1>7. j.rec \in PFun(Nat, RecType)
  <2>1. j.rec \in [DOMAIN j.rec -> RecType] BY <1>2, <1>4, <1>5
  <2>2. DOMAIN j.rec \subseteq Nat BY <1>2, <1>4, <1>6
  <2> QED BY <2>1, <2>2, PFunIs
<1>8. j.lru \in Seq(Nat) /\ Range(j.lru) = Range(e.lru) \cup {c}
  <2>1. Append(e.lru, c) \in Seq(Nat) /\ Range(Append(e.lru, c)) = Range(e.lru) \cup {c}
    BY <1>2, <1>4, AppendRange
  <2> QED BY <1>5, <2>1
<1>9. j \in IndexType BY <1>2, <1>5, <1>7, <1>8 DEF IndexType
<1>10. Cardinality(DOMAIN j.rec) <= MaxRows
  <2> DEFINE D == DOMAIN e.rec
  <2>1. IsFiniteSet(D) /\ Cardinality(D) \in Nat /\ Cardinality(D) < MaxRows BY <1>1, RowsFinite DEF HasRow
  <2>2. c \notin D BY <1>2, <1>4
  <2> HIDE DEF D
  <2>3. Cardinality(D \cup {c}) = Cardinality(D) + 1 BY <2>1, <2>2, FS_AddElement
  <2>4. MaxRows \in Nat BY DPEngineAssumption
  <2> QED BY <1>6, <2>1, <2>3, <2>4 DEF D
<1>11. Known(j) = Known(e) \cup {c} BY <1>5, <1>6 DEF Known
<1>12. Known(e) \subseteq 1..n BY <1>1 DEF IndexOK, Known
<1>13. \A a, b \in DOMAIN j.rec : j.rec[a].seq = j.rec[b].seq => a = b
  <2>1. \A a \in DOMAIN e.rec : e.rec[a].seq # s BY <1>1 DEF Kept
  <2>2. \A a, b \in DOMAIN e.rec : e.rec[a].seq = e.rec[b].seq => a = b BY <1>1 DEF IndexOK
  <2>3. x.seq = s BY DEF x
  <2> QED BY <1>6, <2>1, <2>2, <2>3
<1>14. IndexOK(j, c)
  <2>1. DOMAIN j.rec \subseteq 1..c /\ Range(j.tomb) \subseteq 1..c
    <3>1. 1..n \subseteq 1..c /\ c \in 1..c BY DEF c
    <3> QED BY <3>1, <1>1, <1>2, <1>5, <1>6 DEF IndexOK
  <2>2. DOMAIN j.rec \subseteq Range(j.lru) BY <1>1, <1>6, <1>8 DEF IndexOK
  <2>3. Len(j.tomb) <= MaxTombstones BY <1>1, <1>5 DEF IndexOK
  <2> QED BY <1>9, <1>10, <1>13, <2>1, <2>2, <2>3 DEF IndexOK
<1> QED BY <1>6, <1>11, <1>12, <1>14 DEF Created, j, c, x, e

\* A change of state keeps chains and sequences.
LEMMA SetStateOK ==
  ASSUME NEW n \in Nat, NEW i, IndexOK(i, n), NEW c \in DOMAIN i.rec
  PROVE  LET j == SetState(i, c, "active")
         IN  /\ IndexOK(j, n) /\ DOMAIN j.rec = DOMAIN i.rec /\ Known(j) = Known(i)
             /\ j.rec[c].state = "active" /\ \A d \in DOMAIN i.rec : j.rec[d].seq = i.rec[d].seq
             /\ \A d \in DOMAIN i.rec : d # c => j.rec[d] = i.rec[d]
<1> DEFINE j == SetState(i, c, "active")
<1>1. /\ i \in IndexType /\ i.rec \in PFun(Nat, RecType) /\ i.lru \in Seq(Nat) /\ i.tomb \in Seq(Nat)
      /\ DOMAIN i.rec \subseteq Nat /\ i.rec \in [DOMAIN i.rec -> RecType]
  BY RecIs DEF IndexOK
<1>2. /\ j.rec = [i.rec EXCEPT ![c].state = "active"] /\ j.lru = Touch(i.lru, c) /\ j.tomb = i.tomb
      /\ j = [rec |-> j.rec, lru |-> j.lru, tomb |-> j.tomb]
  BY DEF SetState
<1> HIDE DEF j
<1>3. i.rec[c] \in RecType BY <1>1
<1>4. /\ j.rec \in [DOMAIN i.rec -> RecType] /\ DOMAIN j.rec = DOMAIN i.rec
      /\ j.rec[c].state = "active" /\ \A d \in DOMAIN i.rec : j.rec[d].seq = i.rec[d].seq
      /\ \A d \in DOMAIN i.rec : d # c => j.rec[d] = i.rec[d]
  <2> DEFINE y == [i.rec[c] EXCEPT !.state = "active"]
  <2>1. y \in RecType /\ y.state = "active" /\ y.seq = i.rec[c].seq BY <1>3 DEF RecType
  <2>2. j.rec = [i.rec EXCEPT ![c] = y] BY <1>2
  <2> HIDE DEF y
  <2> QED BY <1>1, <2>1, <2>2
<1>5. j.rec \in PFun(Nat, RecType) BY <1>1, <1>4, PFunIs
<1>6. j.lru \in Seq(Nat) /\ Range(i.lru) \subseteq Range(j.lru) BY <1>1, <1>2, TouchIs
<1>7. j \in IndexType BY <1>1, <1>2, <1>5, <1>6 DEF IndexType
<1>8. IndexOK(j, n) BY <1>2, <1>4, <1>6, <1>7 DEF IndexOK
<1>9. Known(j) = Known(i) BY <1>2, <1>4 DEF Known
<1> QED BY <1>4, <1>8, <1>9 DEF j

\* Finished chains become idle, the others stay.
LEMMA IdledOK ==
  ASSUME NEW n \in Nat, NEW i, IndexOK(i, n), NEW C, C \subseteq DOMAIN i.rec, NEW order \in SetToSeqs(C)
  PROVE  LET j == Idled(i, order)
         IN  /\ IndexOK(j, n) /\ DOMAIN j.rec = DOMAIN i.rec /\ Known(j) = Known(i)
             /\ \A d \in DOMAIN i.rec : j.rec[d].seq = i.rec[d].seq
             /\ \A d \in C : j.rec[d].state = "idle"
             /\ \A d \in DOMAIN i.rec : d \notin C => j.rec[d] = i.rec[d]
<1> DEFINE j == Idled(i, order)
           N == Cardinality(C)
<1>1. /\ i \in IndexType /\ i.rec \in PFun(Nat, RecType) /\ i.lru \in Seq(Nat) /\ i.tomb \in Seq(Nat)
      /\ DOMAIN i.rec \subseteq Nat /\ i.rec \in [DOMAIN i.rec -> RecType]
  BY RecIs DEF IndexOK
<1>2. IsFiniteSet(C) /\ N \in Nat
  <2>1. IsFiniteSet(C) BY RowsFinite, FS_Subset
  <2> QED BY <2>1, FS_CardinalityType
<1>3. order \in [1..N -> C] /\ \A a, b \in 1..N : a # b => order[a] # order[b]
  BY DEF SetToSeqs
<1>4. Range(order) = C
  <2>1. Range(order) \subseteq C BY <1>3 DEF Range
  <2>2. IsFiniteSet(1..N) /\ Cardinality(1..N) = N BY <1>2, FS_Interval
  <2>3. order \in Injection(1..N, C) BY <1>3 DEF Injection, IsInjective
  <2>4. order \in Surjection(1..N, C) BY <1>2, <2>2, <2>3, FS_Injection
  <2>5. C \subseteq Range(order) BY <1>3, <2>4 DEF Surjection, Range
  <2> QED BY <2>1, <2>5
<1>5. /\ j.rec = [c \in DOMAIN i.rec |-> IF c \in C THEN [i.rec[c] EXCEPT !.state = "idle"] ELSE i.rec[c]]
      /\ j.lru = TouchAll(i.lru, order) /\ j.tomb = i.tomb
      /\ j = [rec |-> j.rec, lru |-> j.lru, tomb |-> j.tomb]
  BY <1>4 DEF Idled, TouchAll
<1> HIDE DEF j
<1>6. \A x \in RecType : LET y == [x EXCEPT !.state = "idle"]
                         IN  y \in RecType /\ y.state = "idle" /\ y.seq = x.seq
  BY DEF RecType
<1>7. /\ j.rec \in [DOMAIN i.rec -> RecType] /\ DOMAIN j.rec = DOMAIN i.rec
      /\ \A d \in DOMAIN i.rec : j.rec[d].seq = i.rec[d].seq
      /\ \A d \in C : j.rec[d].state = "idle"
      /\ \A d \in DOMAIN i.rec : d \notin C => j.rec[d] = i.rec[d]
  BY <1>1, <1>5, <1>6
<1>8. j.rec \in PFun(Nat, RecType) BY <1>1, <1>7, PFunIs
<1>9. j.lru \in Seq(Nat) /\ Range(i.lru) \subseteq Range(j.lru)
  <2>1. order \in [1..N -> Nat] BY <1>1, <1>3
  <2> HIDE DEF N
  <2> QED BY <1>1, <1>2, <1>5, <2>1, TouchAllIs
<1>10. j \in IndexType BY <1>1, <1>5, <1>8, <1>9 DEF IndexType
<1>11. IndexOK(j, n) BY <1>5, <1>7, <1>9, <1>10 DEF IndexOK
<1>12. Known(j) = Known(i) BY <1>5, <1>7 DEF Known
<1> QED BY <1>7, <1>11, <1>12 DEF j

-----------------------------------------------------------------------------
(* The tables of the frontend                                              *)

IdType == [rank : Ranks, seq : Nat]
TablesType ==
  [owners : PFun(Nat, IdType), globals : PFun(IdType, Nat), chainOwners : PFun(Nat, Ranks),
   chainSeqIds : SUBSET Nat, chainSequences : PFun(Nat, Nat), next : Nat,
   active : [Ranks -> SUBSET Nat], closed : BOOLEAN]

\* _owners and _global_ids are inverse to each other.
Mirrored(t) ==
  /\ \A g \in DOMAIN t.owners : t.owners[g] \in DOMAIN t.globals /\ t.globals[t.owners[g]] = g
  /\ \A x \in DOMAIN t.globals : t.globals[x] \in DOMAIN t.owners /\ t.owners[t.globals[x]] = x

Given(t) == 1..(t.next - 1)

\* All ids were given out.
Numbered(t) ==
  /\ t.next \in 1..(MaxAdmits + 1)
  /\ DOMAIN t.owners \subseteq Given(t) /\ t.chainSeqIds \subseteq Given(t)
  /\ \A c \in DOMAIN t.chainSequences : t.chainSequences[c] \in Given(t)
  /\ \A r \in Ranks : t.active[r] \subseteq Given(t)

\* A chain and its sequence are of one rank.
Placed(t, T) ==
  /\ DOMAIN t.chainSequences = DOMAIN t.chainOwners /\ DOMAIN t.chainOwners \subseteq T
  /\ \A c \in DOMAIN t.chainSequences :
       t.chainSequences[c] \in DOMAIN t.owners => t.owners[t.chainSequences[c]].rank = t.chainOwners[c]

TablesOK(t, T) == t \in TablesType /\ Mirrored(t) /\ Numbered(t) /\ Placed(t, T)

\* The types of the tables.
LEMMA TableFields ==
  ASSUME NEW t \in TablesType
  PROVE  /\ t.owners \in PFun(Nat, IdType) /\ t.globals \in PFun(IdType, Nat)
         /\ t.chainOwners \in PFun(Nat, Ranks) /\ t.chainSeqIds \subseteq Nat
         /\ t.chainSequences \in PFun(Nat, Nat) /\ t.next \in Nat
         /\ t.active \in [Ranks -> SUBSET Nat] /\ t.closed \in BOOLEAN
BY DEF TablesType

\* Keys and values of the tables.
LEMMA TableMaps ==
  ASSUME NEW t \in TablesType
  PROVE  /\ DOMAIN t.owners \subseteq Nat /\ \A g \in DOMAIN t.owners : t.owners[g] \in IdType
         /\ DOMAIN t.globals \subseteq IdType /\ \A x \in DOMAIN t.globals : t.globals[x] \in Nat
         /\ DOMAIN t.chainOwners \subseteq Nat /\ \A c \in DOMAIN t.chainOwners : t.chainOwners[c] \in Ranks
         /\ DOMAIN t.chainSequences \subseteq Nat
         /\ \A c \in DOMAIN t.chainSequences : t.chainSequences[c] \in Nat
<1>1. DOMAIN t.owners \subseteq Nat /\ t.owners \in [DOMAIN t.owners -> IdType] BY TableFields, PFunIs
<1>2. DOMAIN t.globals \subseteq IdType /\ t.globals \in [DOMAIN t.globals -> Nat] BY TableFields, PFunIs
<1>3. DOMAIN t.chainOwners \subseteq Nat /\ t.chainOwners \in [DOMAIN t.chainOwners -> Ranks] BY TableFields, PFunIs
<1>4. DOMAIN t.chainSequences \subseteq Nat /\ t.chainSequences \in [DOMAIN t.chainSequences -> Nat]
  BY TableFields, PFunIs
<1> QED BY <1>1, <1>2, <1>3, <1>4

\* u is t without the identities F.
Without(t, u, F) ==
  /\ DOMAIN u.owners = DOMAIN t.owners \ F /\ \A g \in DOMAIN u.owners : u.owners[g] = t.owners[g]
  /\ DOMAIN u.globals = {x \in DOMAIN t.globals : t.globals[x] \notin F}
  /\ \A x \in DOMAIN u.globals : u.globals[x] = t.globals[x]

\* _release_request_identity drops exactly the ids no chain keeps.
LEMMA ReleaseIs ==
  ASSUME NEW t \in TablesType, Mirrored(t), NEW G
  PROVE  LET u == ReleaseRequestIdentity(t, G)
         IN  /\ u \in TablesType /\ Mirrored(u)
             /\ Without(t, u, G \ t.chainSeqIds)
             /\ u.chainOwners = t.chainOwners /\ u.chainSequences = t.chainSequences
             /\ u.chainSeqIds = t.chainSeqIds /\ u.next = t.next /\ u.active = t.active /\ u.closed = t.closed
<1> DEFINE u == ReleaseRequestIdentity(t, G)
           F == (G \cap DOMAIN t.owners) \ t.chainSeqIds
           X == {t.owners[g] : g \in F}
<1>1. u = [t EXCEPT !.owners = Drop(t.owners, F), !.globals = Drop(t.globals, X)]
  BY DEF ReleaseRequestIdentity
<1>2. /\ t.owners \in PFun(Nat, IdType) /\ t.globals \in PFun(IdType, Nat) BY TableFields
<1>3. Drop(t.owners, F) \in PFun(Nat, IdType) /\ Drop(t.globals, X) \in PFun(IdType, Nat)
  <2> HIDE DEF F, X
  <2> QED BY <1>2, PFunDrop
<1>4. /\ u.owners = Drop(t.owners, F) /\ u.globals = Drop(t.globals, X)
      /\ u.chainOwners = t.chainOwners /\ u.chainSequences = t.chainSequences
      /\ u.chainSeqIds = t.chainSeqIds /\ u.next = t.next /\ u.active = t.active /\ u.closed = t.closed
      /\ u \in TablesType
  <2> HIDE DEF F, X, u
  <2> QED BY <1>1, <1>3 DEF TablesType
<1> HIDE DEF u
<1>5. DOMAIN u.owners = DOMAIN t.owners \ F /\ \A g \in DOMAIN u.owners : u.owners[g] = t.owners[g]
  BY <1>4 DEF Drop
<1>6. DOMAIN u.globals = DOMAIN t.globals \ X /\ \A x \in DOMAIN u.globals : u.globals[x] = t.globals[x]
  BY <1>4 DEF Drop
<1>7. \A x \in DOMAIN t.globals : x \in X <=> t.globals[x] \in F
  <2> TAKE x \in DOMAIN t.globals
  <2>1. t.globals[x] \in DOMAIN t.owners /\ t.owners[t.globals[x]] = x BY DEF Mirrored
  <2>2. ASSUME x \in X PROVE t.globals[x] \in F
    <3>1. PICK g \in F : x = t.owners[g] BY <2>2
    <3>2. t.globals[t.owners[g]] = g BY <3>1 DEF Mirrored
    <3> QED BY <3>1, <3>2
  <2> QED BY <2>1, <2>2
<1>8. \A x \in DOMAIN t.globals : t.globals[x] \in F <=> t.globals[x] \in G \ t.chainSeqIds
  BY DEF Mirrored
<1>9. DOMAIN t.owners \ F = DOMAIN t.owners \ (G \ t.chainSeqIds) OBVIOUS
<1> HIDE DEF F, X
<1>10. Without(t, u, G \ t.chainSeqIds) BY <1>5, <1>6, <1>7, <1>8, <1>9 DEF Without
<1>11. Mirrored(u)
  <2>1. ASSUME NEW g \in DOMAIN u.owners PROVE u.owners[g] \in DOMAIN u.globals /\ u.globals[u.owners[g]] = g
    <3>1. g \in DOMAIN t.owners /\ g \notin F /\ u.owners[g] = t.owners[g] BY <1>5
    <3>2. t.owners[g] \in DOMAIN t.globals /\ t.globals[t.owners[g]] = g BY <3>1 DEF Mirrored
    <3>3. t.owners[g] \notin X BY <3>1, <3>2, <1>7
    <3> QED BY <3>1, <3>2, <3>3, <1>6
  <2>2. ASSUME NEW x \in DOMAIN u.globals PROVE u.globals[x] \in DOMAIN u.owners /\ u.owners[u.globals[x]] = x
    <3>1. x \in DOMAIN t.globals /\ x \notin X /\ u.globals[x] = t.globals[x] BY <1>6
    <3>2. t.globals[x] \in DOMAIN t.owners /\ t.owners[t.globals[x]] = x BY <3>1 DEF Mirrored
    <3>3. t.globals[x] \notin F BY <3>1, <1>7
    <3> QED BY <3>1, <3>2, <3>3, <1>5
  <2> QED BY <2>1, <2>2 DEF Mirrored
<1> QED BY <1>4, <1>10, <1>11 DEF u

\* The sequences of some chains, and t without these chains: u.
GidsOf(t, C) == {t.chainSequences[c] : c \in C \cap DOMAIN t.chainSequences}
Forgotten(t, u, C) ==
  /\ Without(t, u, GidsOf(t, C))
  /\ DOMAIN u.chainOwners = DOMAIN t.chainOwners \ C
  /\ \A c \in DOMAIN u.chainOwners : u.chainOwners[c] = t.chainOwners[c]
  /\ DOMAIN u.chainSequences = DOMAIN t.chainSequences \ C
  /\ \A c \in DOMAIN u.chainSequences : u.chainSequences[c] = t.chainSequences[c]
  /\ u.chainSeqIds = t.chainSeqIds \ GidsOf(t, C)
  /\ u.next = t.next /\ u.active = t.active /\ u.closed = t.closed

\* Forgetting chains keeps the tables sound.
LEMMA ForgetIs ==
  ASSUME NEW T, NEW t, TablesOK(t, T), NEW C
  PROVE  TablesOK(ForgetChains(t, C), T) /\ Forgotten(t, ForgetChains(t, C), C)
<1> DEFINE u == ForgetChains(t, C)
           G == GidsOf(t, C)
           m == [t EXCEPT !.chainOwners = Drop(t.chainOwners, C), !.chainSequences = Drop(t.chainSequences, C),
                          !.chainSeqIds = t.chainSeqIds \ G]
<1>1. u = ReleaseRequestIdentity(m, G) BY DEF ForgetChains, GidsOf
<1>2. t \in TablesType /\ Mirrored(t) /\ Numbered(t) /\ Placed(t, T) BY DEF TablesOK
<1>3. Drop(t.chainOwners, C) \in PFun(Nat, Ranks) /\ Drop(t.chainSequences, C) \in PFun(Nat, Nat)
  BY <1>2, TableFields, PFunDrop
<1>4. /\ m \in TablesType /\ m.owners = t.owners /\ m.globals = t.globals /\ m.next = t.next
      /\ m.active = t.active /\ m.closed = t.closed /\ m.chainSeqIds = t.chainSeqIds \ G
      /\ m.chainOwners = Drop(t.chainOwners, C) /\ m.chainSequences = Drop(t.chainSequences, C)
  <2> HIDE DEF G
  <2> QED BY <1>2, <1>3 DEF TablesType
<1> HIDE DEF m, u
<1>5. Mirrored(m) BY <1>2, <1>4 DEF Mirrored
<1>6. G \ m.chainSeqIds = G BY <1>4
<1> HIDE DEF G
<1>7. /\ u \in TablesType /\ Mirrored(u) /\ Without(m, u, G)
      /\ u.chainOwners = m.chainOwners /\ u.chainSequences = m.chainSequences
      /\ u.chainSeqIds = m.chainSeqIds /\ u.next = m.next /\ u.active = m.active /\ u.closed = m.closed
  BY <1>1, <1>4, <1>5, <1>6, ReleaseIs
<1>8. Without(t, u, G) BY <1>4, <1>7 DEF Without
<1>9. /\ DOMAIN u.chainOwners = DOMAIN t.chainOwners \ C
      /\ \A c \in DOMAIN u.chainOwners : u.chainOwners[c] = t.chainOwners[c]
      /\ DOMAIN u.chainSequences = DOMAIN t.chainSequences \ C
      /\ \A c \in DOMAIN u.chainSequences : u.chainSequences[c] = t.chainSequences[c]
  BY <1>4, <1>7 DEF Drop
<1>10. Numbered(u)
  BY <1>2, <1>4, <1>7, <1>8, <1>9 DEF Numbered, Given, Without
<1>11. Placed(u, T)
  BY <1>2, <1>8, <1>9 DEF Placed, Without
<1> QED BY <1>4, <1>7, <1>8, <1>9, <1>10, <1>11 DEF TablesOK, Forgotten, u, G

\* u is t without the request g of rank r.
Ended(t, u, g, r) ==
  /\ Without(t, u, {g})
  /\ u.chainOwners = t.chainOwners /\ u.chainSequences = t.chainSequences
  /\ u.chainSeqIds = t.chainSeqIds \ {g} /\ u.next = t.next /\ u.closed = t.closed
  /\ u.active[r] = t.active[r] \ {g} /\ \A q \in Ranks : q # r => u.active[q] = t.active[q]

\* The tables after abort_request.
LEMMA AbortIs ==
  ASSUME NEW T, NEW t, TablesOK(t, T), NEW g, NEW r \in Ranks
  PROVE  TablesOK(AfterAbort(t, g, r), T) /\ Ended(t, AfterAbort(t, g, r), g, r)
<1> DEFINE u == AfterAbort(t, g, r)
           m == [t EXCEPT !.active[r] = t.active[r] \ {g}, !.chainSeqIds = t.chainSeqIds \ {g}]
<1>1. u = ReleaseRequestIdentity(m, {g}) BY DEF AfterAbort
<1>2. t \in TablesType /\ Mirrored(t) /\ Numbered(t) /\ Placed(t, T) BY DEF TablesOK
<1>3. t.active \in [Ranks -> SUBSET Nat] BY <1>2, TableFields
<1>4. /\ m \in TablesType /\ m.owners = t.owners /\ m.globals = t.globals /\ m.next = t.next
      /\ m.active = [t.active EXCEPT ![r] = t.active[r] \ {g}] /\ m.closed = t.closed
      /\ m.chainSeqIds = t.chainSeqIds \ {g}
      /\ m.chainOwners = t.chainOwners /\ m.chainSequences = t.chainSequences
  <2> DEFINE a == [t.active EXCEPT ![r] = t.active[r] \ {g}]
  <2>1. a \in [Ranks -> SUBSET Nat] BY <1>3
  <2>2. m = [t EXCEPT !.active = a, !.chainSeqIds = t.chainSeqIds \ {g}] OBVIOUS
  <2> HIDE DEF a, m
  <2>3. m \in TablesType BY <1>2, <2>1, <2>2 DEF TablesType
  <2> QED BY <1>2, <2>2, <2>3 DEF TablesType, a
<1> HIDE DEF m, u
<1>5. Mirrored(m) BY <1>2, <1>4 DEF Mirrored
<1>6. {g} \ m.chainSeqIds = {g} BY <1>4
<1> DEFINE G == {g}
<1>1a. u = ReleaseRequestIdentity(m, G) /\ G \ m.chainSeqIds = G BY <1>1, <1>6
<1> HIDE DEF G
<1>7. /\ u \in TablesType /\ Mirrored(u) /\ Without(m, u, G)
      /\ u.chainOwners = m.chainOwners /\ u.chainSequences = m.chainSequences
      /\ u.chainSeqIds = m.chainSeqIds /\ u.next = m.next /\ u.active = m.active /\ u.closed = m.closed
  BY <1>1a, <1>4, <1>5, ReleaseIs
<1>8. Without(t, u, G) BY <1>4, <1>7 DEF Without
<1>9. u.active[r] = t.active[r] \ {g} /\ \A q \in Ranks : q # r => u.active[q] = t.active[q]
  BY <1>3, <1>4, <1>7
<1>10. Numbered(u)
  <2>1. \A q \in Ranks : u.active[q] \subseteq Given(u) BY <1>2, <1>4, <1>7, <1>9 DEF Numbered, Given
  <2>2. DOMAIN u.owners \subseteq DOMAIN t.owners BY <1>8 DEF Without
  <2> QED BY <1>2, <1>4, <1>7, <2>1, <2>2 DEF Numbered, Given
<1>11. Placed(u, T) BY <1>2, <1>4, <1>7, <1>8 DEF Placed, Without
<1> QED BY <1>4, <1>7, <1>8, <1>9, <1>10, <1>11 DEF TablesOK, Ended, u, G

\* What rank r finished, under its global ids.
Over(t, got, r) == {t.globals[[rank |-> r, seq |-> s]] : s \in got[r].done}
OverAll(t, got) == UNION {Over(t, got, r) : r \in Ranks}

\* u is t after the step that gave got.
Stepped(t, u, got) ==
  /\ Without(t, u, OverAll(t, got) \ t.chainSeqIds)
  /\ u.chainOwners = t.chainOwners /\ u.chainSequences = t.chainSequences
  /\ u.chainSeqIds = t.chainSeqIds /\ u.next = t.next /\ u.closed = t.closed
  /\ \A r \in Ranks : u.active[r] = t.active[r] \ Over(t, got, r)

\* The tables after step.
LEMMA StepIs ==
  ASSUME NEW T, NEW t, TablesOK(t, T), NEW got
  PROVE  TablesOK(AfterStep(t, got), T) /\ Stepped(t, AfterStep(t, got), got)
<1> DEFINE u == AfterStep(t, got)
           over == [r \in Ranks |-> Over(t, got, r)]
           a == [r \in Ranks |-> t.active[r] \ over[r]]
           G == UNION {over[r] : r \in Ranks}
           m == [t EXCEPT !.active = a]
<1>1. u = ReleaseRequestIdentity(m, G) BY DEF AfterStep, Over
<1>2. G = OverAll(t, got) BY DEF OverAll
<1>3. \A r \in Ranks : a[r] = t.active[r] \ Over(t, got, r) OBVIOUS
<1>4. t \in TablesType /\ Mirrored(t) /\ Numbered(t) /\ Placed(t, T) BY DEF TablesOK
<1>5. a \in [Ranks -> SUBSET Nat] BY <1>4, TableFields
<1> HIDE DEF a, over, G
<1>6. /\ m \in TablesType /\ m.owners = t.owners /\ m.globals = t.globals /\ m.next = t.next
      /\ m.active = a /\ m.closed = t.closed /\ m.chainSeqIds = t.chainSeqIds
      /\ m.chainOwners = t.chainOwners /\ m.chainSequences = t.chainSequences
  BY <1>4, <1>5 DEF TablesType
<1> HIDE DEF m, u
<1>7. Mirrored(m) BY <1>4, <1>6 DEF Mirrored
<1>8. /\ u \in TablesType /\ Mirrored(u) /\ Without(m, u, G \ m.chainSeqIds)
      /\ u.chainOwners = m.chainOwners /\ u.chainSequences = m.chainSequences
      /\ u.chainSeqIds = m.chainSeqIds /\ u.next = m.next /\ u.active = m.active /\ u.closed = m.closed
  BY <1>1, <1>6, <1>7, ReleaseIs
<1>9. Without(t, u, G \ t.chainSeqIds) BY <1>6, <1>8 DEF Without
<1>10. Numbered(u)
  <2>1. \A q \in Ranks : u.active[q] \subseteq Given(u) BY <1>3, <1>4, <1>6, <1>8 DEF Numbered, Given
  <2>2. DOMAIN u.owners \subseteq DOMAIN t.owners BY <1>9 DEF Without
  <2> QED BY <1>4, <1>6, <1>8, <2>1, <2>2 DEF Numbered, Given
<1>11. Placed(u, T) BY <1>4, <1>6, <1>8, <1>9 DEF Placed, Without
<1> QED BY <1>2, <1>3, <1>6, <1>8, <1>9, <1>10, <1>11 DEF TablesOK, Stepped, u

\* The global id of an admitted request.
GidOf(t, r, s) == IF Id(r, s) \in DOMAIN t.globals THEN t.globals[Id(r, s)] ELSE t.next

\* u is t with sequence s of rank r, and its chain c if it has one.
Enrolled(t, u, r, s, c) ==
  /\ DOMAIN u.globals = DOMAIN t.globals \cup {Id(r, s)} /\ u.globals[Id(r, s)] = GidOf(t, r, s)
  /\ \A x \in DOMAIN t.globals : u.globals[x] = t.globals[x]
  /\ DOMAIN u.owners = DOMAIN t.owners \cup {GidOf(t, r, s)} /\ u.owners[GidOf(t, r, s)] = Id(r, s)
  /\ \A h \in DOMAIN t.owners : u.owners[h] = t.owners[h]
  /\ u.next = (IF Id(r, s) \in DOMAIN t.globals THEN t.next ELSE t.next + 1) /\ u.closed = t.closed
  /\ u.active[r] = t.active[r] \cup {GidOf(t, r, s)} /\ \A q \in Ranks : q # r => u.active[q] = t.active[q]
  /\ c = NoChain => /\ u.chainOwners = t.chainOwners /\ u.chainSequences = t.chainSequences
                    /\ u.chainSeqIds = t.chainSeqIds
  /\ c # NoChain => /\ u.chainOwners = Put(t.chainOwners, c, r)
                    /\ u.chainSequences = Put(t.chainSequences, c, GidOf(t, r, s))
                    /\ u.chainSeqIds = t.chainSeqIds \cup {GidOf(t, r, s)}

\* The tables after admit_request.
LEMMA AdmitIs ==
  ASSUME NEW T, NEW t, TablesOK(t, T), t.next <= MaxAdmits, NEW r \in Ranks,
         NEW a, a.seq \in Nat, a.chain \in Nat
  PROVE  /\ TablesOK(AfterAdmit(t, r, a), T \cup ({a.chain} \ {NoChain}))
         /\ Enrolled(t, AfterAdmit(t, r, a), r, a.seq, a.chain)
<1> DEFINE u == AfterAdmit(t, r, a)
           id == Id(r, a.seq)
           g == GidOf(t, r, a.seq)
           n == IF id \in DOMAIN t.globals THEN t.next ELSE t.next + 1
           ac == [t.active EXCEPT ![r] = t.active[r] \cup {g}]
           gl == Put(t.globals, id, g)
           ow == Put(t.owners, g, id)
           m == [t EXCEPT !.globals = gl, !.owners = ow, !.next = n, !.active = ac]
           k == [m EXCEPT !.chainOwners = Put(m.chainOwners, a.chain, r), !.chainSeqIds = m.chainSeqIds \cup {g},
                          !.chainSequences = Put(m.chainSequences, a.chain, g)]
<1>1. t \in TablesType /\ Mirrored(t) /\ Numbered(t) /\ Placed(t, T) BY DEF TablesOK
<1>2. /\ t.owners \in PFun(Nat, IdType) /\ t.globals \in PFun(IdType, Nat) /\ t.next \in Nat
      /\ t.chainOwners \in PFun(Nat, Ranks) /\ t.chainSequences \in PFun(Nat, Nat)
      /\ t.active \in [Ranks -> SUBSET Nat] /\ t.chainSeqIds \subseteq Nat
  BY <1>1, TableFields
<1>3. id \in IdType /\ a.seq \in Nat /\ a.chain \in Nat BY DEF IdType, Id
<1>4. \A x \in DOMAIN t.globals : t.globals[x] \in DOMAIN t.owners BY <1>1 DEF Mirrored
<1>5. MaxAdmits \in Nat BY DPEngineAssumption
<1>6. /\ g \in Nat /\ n \in 1..(MaxAdmits + 1) /\ g \in 1..(n - 1) /\ t.next <= n /\ n \in Nat
      /\ g \in DOMAIN t.owners => id \in DOMAIN t.globals /\ t.globals[id] = g
  <2>1. \A h \in DOMAIN t.owners : h \in 1..(t.next - 1) BY <1>1 DEF Numbered, Given
  <2>2. t.next \in 1..(MaxAdmits + 1) BY <1>1 DEF Numbered
  <2>3. CASE id \in DOMAIN t.globals
    <3>1. g = t.globals[id] /\ n = t.next BY <2>3 DEF GidOf
    <3>2. g \in 1..(t.next - 1) BY <3>1, <2>1, <2>3, <1>4
    <3> QED BY <3>1, <3>2, <2>2, <2>3, <1>5
  <2>4. CASE id \notin DOMAIN t.globals
    <3>1. g = t.next /\ n = t.next + 1 BY <2>4 DEF GidOf
    <3>2. g \notin DOMAIN t.owners BY <3>1, <2>1, <2>2
    <3> QED BY <3>1, <3>2, <2>2, <1>5
  <2> QED BY <2>3, <2>4
<1>7. u = IF a.chain = NoChain THEN m ELSE k
  BY DEF AfterAdmit, Id, GidOf
<1> HIDE DEF id, g, n
<1>8. /\ ac \in [Ranks -> SUBSET Nat] /\ ac[r] = t.active[r] \cup {g}
      /\ \A q \in Ranks : q # r => ac[q] = t.active[q]
  BY <1>2, <1>6
<1>9. gl \in PFun(IdType, Nat) /\ ow \in PFun(Nat, IdType) BY <1>2, <1>3, <1>6, PFunPut
<1>10. /\ DOMAIN gl = DOMAIN t.globals \cup {id} /\ gl[id] = g
       /\ \A x \in DOMAIN t.globals : x # id => gl[x] = t.globals[x]
       /\ DOMAIN ow = DOMAIN t.owners \cup {g} /\ ow[g] = id
       /\ \A h \in DOMAIN t.owners : h # g => ow[h] = t.owners[h]
  BY DEF Put
<1>11. \A x \in DOMAIN t.globals : gl[x] = t.globals[x]
  BY <1>10 DEF GidOf, g, id
<1>12. \A h \in DOMAIN t.owners : ow[h] = t.owners[h]
  BY <1>1, <1>6, <1>10 DEF Mirrored
<1> HIDE DEF ac, gl, ow
<1>13. /\ m \in TablesType /\ m.owners = ow /\ m.globals = gl /\ m.next = n
       /\ m.active = ac /\ m.closed = t.closed /\ m.chainSeqIds = t.chainSeqIds
       /\ m.chainOwners = t.chainOwners /\ m.chainSequences = t.chainSequences
  BY <1>1, <1>6, <1>8, <1>9 DEF TablesType
<1>14. Put(t.chainOwners, a.chain, r) \in PFun(Nat, Ranks) /\ Put(t.chainSequences, a.chain, g) \in PFun(Nat, Nat)
  BY <1>2, <1>3, <1>6, PFunPut
<1> HIDE DEF m
<1>15. /\ k \in TablesType /\ k.owners = ow /\ k.globals = gl /\ k.next = n
       /\ k.active = ac /\ k.closed = t.closed /\ k.chainSeqIds = t.chainSeqIds \cup {g}
       /\ k.chainOwners = Put(t.chainOwners, a.chain, r) /\ k.chainSequences = Put(t.chainSequences, a.chain, g)
  BY <1>6, <1>13, <1>14 DEF TablesType
<1> HIDE DEF k, u
<1>16. /\ u \in TablesType /\ u.owners = ow /\ u.globals = gl /\ u.next = n /\ u.active = ac /\ u.closed = t.closed
       /\ a.chain = NoChain =>
            /\ u.chainOwners = t.chainOwners /\ u.chainSequences = t.chainSequences
            /\ u.chainSeqIds = t.chainSeqIds
       /\ a.chain # NoChain =>
            /\ u.chainOwners = Put(t.chainOwners, a.chain, r)
            /\ u.chainSequences = Put(t.chainSequences, a.chain, g)
            /\ u.chainSeqIds = t.chainSeqIds \cup {g}
  BY <1>7, <1>13, <1>15
<1>17. Mirrored(u)
  <2>1. ASSUME NEW h \in DOMAIN u.owners PROVE u.owners[h] \in DOMAIN u.globals /\ u.globals[u.owners[h]] = h
    <3>1. CASE h = g BY <3>1, <1>10, <1>16
    <3>2. CASE h # g
      <4>1. h \in DOMAIN t.owners /\ u.owners[h] = t.owners[h] BY <3>2, <2>1, <1>10, <1>12, <1>16
      <4>2. t.owners[h] \in DOMAIN t.globals /\ t.globals[t.owners[h]] = h BY <4>1, <1>1 DEF Mirrored
      <4> QED BY <4>1, <4>2, <1>10, <1>11, <1>16
    <3> QED BY <3>1, <3>2
  <2>2. ASSUME NEW x \in DOMAIN u.globals PROVE u.globals[x] \in DOMAIN u.owners /\ u.owners[u.globals[x]] = x
    <3>1. CASE x = id BY <3>1, <1>10, <1>16
    <3>2. CASE x # id
      <4>1. x \in DOMAIN t.globals /\ u.globals[x] = t.globals[x] BY <3>2, <2>2, <1>10, <1>11, <1>16
      <4>2. t.globals[x] \in DOMAIN t.owners /\ t.owners[t.globals[x]] = x BY <4>1, <1>1 DEF Mirrored
      <4> QED BY <4>1, <4>2, <1>10, <1>12, <1>16
    <3> QED BY <3>1, <3>2
  <2> QED BY <2>1, <2>2 DEF Mirrored
<1>18. Numbered(u)
  <2>1. Given(t) \subseteq Given(u) /\ g \in Given(u) /\ u.next \in 1..(MaxAdmits + 1)
    BY <1>2, <1>6, <1>16 DEF Given
  <2>2. DOMAIN u.owners \subseteq Given(u) BY <2>1, <1>1, <1>10, <1>16 DEF Numbered
  <2>3. u.chainSeqIds \subseteq Given(u) BY <2>1, <1>1, <1>16 DEF Numbered
  <2>4. \A c \in DOMAIN u.chainSequences : u.chainSequences[c] \in Given(u)
    BY <2>1, <1>1, <1>16 DEF Numbered, Put
  <2>5. \A q \in Ranks : u.active[q] \subseteq Given(u) BY <2>1, <1>1, <1>8, <1>16 DEF Numbered
  <2> QED BY <2>1, <2>2, <2>3, <2>4, <2>5 DEF Numbered
<1>19. Placed(u, T \cup ({a.chain} \ {NoChain}))
  <2>1. ASSUME NEW c \in DOMAIN t.chainSequences, t.chainSequences[c] \in DOMAIN u.owners
        PROVE  t.chainSequences[c] \in DOMAIN t.owners /\ u.owners[t.chainSequences[c]].rank = t.chainOwners[c]
    <3>1. t.chainSequences[c] \in 1..(t.next - 1) BY <1>1 DEF Numbered, Given
    <3>2. CASE t.chainSequences[c] \in DOMAIN t.owners
      BY <3>2, <1>1, <1>12, <1>16 DEF Placed
    <3>3. CASE t.chainSequences[c] \notin DOMAIN t.owners
      <4>1. t.chainSequences[c] = g BY <3>3, <2>1, <1>10, <1>16
      <4>2. id \notin DOMAIN t.globals BY <4>1, <3>3, <1>4 DEF g, GidOf, id
      <4>3. g = t.next BY <4>2 DEF g, GidOf, id
      <4> QED BY <4>1, <4>3, <3>1, <1>2
    <3> QED BY <3>2, <3>3
  <2>2. id.rank = r BY DEF id, Id
  <2>3. CASE a.chain = NoChain BY <2>1, <2>3, <1>1, <1>16 DEF Placed
  <2>4. CASE a.chain # NoChain
    <3>1. /\ DOMAIN u.chainOwners = DOMAIN t.chainOwners \cup {a.chain}
          /\ DOMAIN u.chainSequences = DOMAIN t.chainSequences \cup {a.chain}
          /\ u.chainOwners[a.chain] = r /\ u.chainSequences[a.chain] = g
          /\ \A c \in DOMAIN t.chainOwners : c # a.chain => u.chainOwners[c] = t.chainOwners[c]
          /\ \A c \in DOMAIN t.chainSequences : c # a.chain => u.chainSequences[c] = t.chainSequences[c]
      BY <2>4, <1>16 DEF Put
    <3>2. DOMAIN t.chainSequences = DOMAIN t.chainOwners /\ DOMAIN t.chainOwners \subseteq T BY <1>1 DEF Placed
    <3>3. ASSUME NEW c \in DOMAIN u.chainSequences, u.chainSequences[c] \in DOMAIN u.owners
          PROVE  u.owners[u.chainSequences[c]].rank = u.chainOwners[c]
      <4>1. CASE c = a.chain BY <4>1, <3>1, <2>2, <1>10, <1>16
      <4>2. CASE c # a.chain BY <4>2, <3>1, <3>2, <3>3, <2>1
      <4> QED BY <4>1, <4>2
    <3> QED BY <2>4, <3>1, <3>2, <3>3 DEF Placed
  <2> QED BY <2>3, <2>4
<1> QED BY <1>8, <1>10, <1>11, <1>12, <1>16, <1>17, <1>18, <1>19 DEF TablesOK, Enrolled, u, id, g, n

-----------------------------------------------------------------------------
(* Tables and engines agree                                                *)

Owned(t, r) == {c \in DOMAIN t.chainOwners : t.chainOwners[c] = r}

\* The frontend has the identity of a resident chain, and for it alone.
Identified(t, r, c, s) ==
  /\ c \in DOMAIN t.chainSequences /\ Id(r, s) \in DOMAIN t.globals
  /\ t.globals[Id(r, s)] = t.chainSequences[c] /\ t.chainSequences[c] \in t.chainSeqIds
  /\ \A d \in DOMAIN t.chainSequences : t.chainSequences[d] = t.chainSequences[c] => d = c

Linked(t, T, r, i, rc, next) ==
  /\ Known(i) \cap T \subseteq Owned(t, r)
  /\ \A c \in DOMAIN i.rec : i.rec[c].seq \notin rc => Identified(t, r, c, i.rec[c].seq)
  /\ \A x \in DOMAIN t.globals : x.rank = r => x.seq < next

\* The active set of rank r, without A, is what runs on it: R.
Counted(t, r, rc, R, A) ==
  rc = {} => /\ \A s \in R : Id(r, s) \in DOMAIN t.globals
             /\ t.active[r] \ A = {t.globals[Id(r, s)] : s \in R}

\* Ids are equal when rank and sequence are.
LEMMA IdIs == \A r, s, q, z : (Id(r, s) = Id(q, z) <=> r = q /\ s = z) /\ Id(r, s).rank = r /\ Id(r, s).seq = s
BY DEF Id

\* Linked for a worker that knows less.
LEMMA LinkedLess ==
  ASSUME NEW t, NEW T, NEW r, NEW i, NEW j, NEW rc, NEW next, Linked(t, T, r, i, rc, next),
         DOMAIN j.rec \subseteq DOMAIN i.rec, \A c \in DOMAIN j.rec : j.rec[c].seq = i.rec[c].seq,
         Known(j) \subseteq Known(i)
  PROVE  Linked(t, T, r, j, rc, next)
BY DEF Linked

\* Taking in the snapshot of rank r: what r itself then agrees on.
LEMMA SeenSelf ==
  ASSUME NEW T, NEW t, TablesOK(t, T), NEW r \in Ranks, NEW i, NEW rc, NEW next,
         Linked(t, T, r, i, rc, next)
  PROVE  LET u == ForgetChains(t, Owned(t, r) \ Known(i))
         IN  /\ Linked(u, T, r, i, rc, next) /\ Owned(u, r) \subseteq Known(i)
             /\ \A R, A : /\ Counted(t, r, rc, R, A)
                          /\ \/ \A s \in R \ rc : \E c \in DOMAIN i.rec : i.rec[c].seq = s
                             \/ DOMAIN t.chainOwners = {}
                          => Counted(u, r, rc, R, A)
<1> DEFINE E == Owned(t, r) \ Known(i)
           u == ForgetChains(t, E)
           G == GidsOf(t, E)
<1>1. /\ TablesOK(u, T) /\ Without(t, u, G)
      /\ DOMAIN u.chainOwners = DOMAIN t.chainOwners \ E
      /\ \A c \in DOMAIN u.chainOwners : u.chainOwners[c] = t.chainOwners[c]
      /\ DOMAIN u.chainSequences = DOMAIN t.chainSequences \ E
      /\ \A c \in DOMAIN u.chainSequences : u.chainSequences[c] = t.chainSequences[c]
      /\ u.chainSeqIds = t.chainSeqIds \ G /\ u.active = t.active
  <2> HIDE DEF E
  <2> QED BY ForgetIs DEF Forgotten
<1> HIDE DEF u
<1>2. ASSUME NEW c \in DOMAIN i.rec, i.rec[c].seq \notin rc
      PROVE  c \notin E /\ t.chainSequences[c] \notin G /\ Identified(u, r, c, i.rec[c].seq)
  <2> DEFINE s == i.rec[c].seq
  <2>1. Identified(t, r, c, s) BY <1>2 DEF Linked
  <2>2. c \in Known(i) BY DEF Known
  <2>3. c \notin E BY <2>2
  <2>4. t.chainSequences[c] \notin G BY <2>1, <2>3 DEF Identified, GidsOf
  <2> HIDE DEF E, G, s
  <2>5. c \in DOMAIN u.chainSequences /\ u.chainSequences[c] = t.chainSequences[c] BY <1>1, <2>1, <2>3 DEF Identified
  <2>6. Id(r, s) \in DOMAIN u.globals /\ u.globals[Id(r, s)] = t.globals[Id(r, s)]
    BY <1>1, <2>1, <2>4 DEF Without, Identified
  <2>7. \A d \in DOMAIN u.chainSequences : u.chainSequences[d] = u.chainSequences[c] => d = c
    BY <1>1, <2>1, <2>5 DEF Identified
  <2>8. Identified(u, r, c, s) BY <1>1, <2>1, <2>4, <2>5, <2>6, <2>7 DEF Identified
  <2> QED BY <2>3, <2>4, <2>8 DEF s
<1>3. Owned(u, r) = Owned(t, r) \cap Known(i) BY <1>1 DEF Owned
<1>4. Linked(u, T, r, i, rc, next)
  <2>1. Known(i) \cap T \subseteq Owned(u, r) BY <1>3 DEF Linked
  <2>2. \A x \in DOMAIN u.globals : x.rank = r => x.seq < next BY <1>1 DEF Linked, Without
  <2> QED BY <1>2, <2>1, <2>2 DEF Linked
<1>5. ASSUME NEW R, NEW A, Counted(t, r, rc, R, A),
             \/ \A s \in R \ rc : \E c \in DOMAIN i.rec : i.rec[c].seq = s
             \/ DOMAIN t.chainOwners = {}
      PROVE  Counted(u, r, rc, R, A)
  <2> SUFFICES ASSUME rc = {} PROVE Counted(u, r, rc, R, A) BY DEF Counted
  <2>1. \A s \in R : Id(r, s) \in DOMAIN t.globals BY <1>5 DEF Counted
  <2>2. ASSUME NEW s \in R PROVE t.globals[Id(r, s)] \notin G
    <3>1. CASE DOMAIN t.chainOwners = {}
      <4>1. G = {} BY <3>1 DEF Owned, GidsOf, TablesOK, Placed
      <4> QED BY <4>1
    <3>2. CASE DOMAIN t.chainOwners # {}
      <4>1. PICK c \in DOMAIN i.rec : i.rec[c].seq = s BY <1>5, <3>2
      <4>2. t.globals[Id(r, s)] = t.chainSequences[c] BY <4>1 DEF Linked, Identified
      <4>3. t.chainSequences[c] \notin G BY <4>1, <1>2
      <4> QED BY <4>2, <4>3
    <3> QED BY <3>1, <3>2
  <2> HIDE DEF E, G
  <2>3. \A s \in R : Id(r, s) \in DOMAIN u.globals /\ u.globals[Id(r, s)] = t.globals[Id(r, s)]
    BY <1>1, <2>1, <2>2 DEF Without
  <2>4. t.active[r] \ A = {t.globals[Id(r, s)] : s \in R} BY <1>5 DEF Counted
  <2>5. {t.globals[Id(r, s)] : s \in R} = {u.globals[Id(r, s)] : s \in R} BY <2>3
  <2> QED BY <1>1, <2>3, <2>4, <2>5 DEF Counted
<1>6. Owned(u, r) \subseteq Known(i) BY <1>3
<1> QED BY <1>4, <1>5, <1>6 DEF u

\* Taking in the snapshot of rank r does not touch another rank.
LEMMA SeenOther ==
  ASSUME NEW T, NEW t, TablesOK(t, T), NEW r \in Ranks, NEW q \in Ranks, q # r, NEW E, E \subseteq Owned(t, r)
  PROVE  LET u == ForgetChains(t, E)
         IN  /\ Owned(u, q) = Owned(t, q)
             /\ \A i, rc, next : Linked(t, T, q, i, rc, next) => Linked(u, T, q, i, rc, next)
             /\ \A rc, R, A : Counted(t, q, rc, R, A) => Counted(u, q, rc, R, A)
<1> DEFINE u == ForgetChains(t, E)
           G == GidsOf(t, E)
<1>1. /\ TablesOK(u, T) /\ Without(t, u, G)
      /\ DOMAIN u.chainOwners = DOMAIN t.chainOwners \ E
      /\ \A c \in DOMAIN u.chainOwners : u.chainOwners[c] = t.chainOwners[c]
      /\ DOMAIN u.chainSequences = DOMAIN t.chainSequences \ E
      /\ \A c \in DOMAIN u.chainSequences : u.chainSequences[c] = t.chainSequences[c]
      /\ u.chainSeqIds = t.chainSeqIds \ G /\ u.active = t.active
  BY ForgetIs DEF Forgotten
<1> HIDE DEF u
<1>2. Owned(u, q) = Owned(t, q) BY <1>1 DEF Owned
<1>3. ASSUME NEW x \in DOMAIN t.globals, x.rank = q PROVE t.globals[x] \notin G
  <2> SUFFICES ASSUME NEW c \in E \cap DOMAIN t.chainSequences, t.globals[x] = t.chainSequences[c] PROVE FALSE
    BY DEF GidsOf
  <2>1. t.globals[x] \in DOMAIN t.owners /\ t.owners[t.globals[x]] = x BY DEF TablesOK, Mirrored
  <2>2. t.owners[t.globals[x]].rank = t.chainOwners[c] BY <2>1 DEF TablesOK, Placed
  <2>3. t.chainOwners[c] = r BY DEF Owned
  <2> QED BY <2>1, <2>2, <2>3, <1>3
<1> HIDE DEF G
<1>4. \A s : Id(q, s) \in DOMAIN t.globals =>
            Id(q, s) \in DOMAIN u.globals /\ u.globals[Id(q, s)] = t.globals[Id(q, s)]
  <2> SUFFICES ASSUME NEW s, Id(q, s) \in DOMAIN t.globals
               PROVE  Id(q, s) \in DOMAIN u.globals /\ u.globals[Id(q, s)] = t.globals[Id(q, s)]
    OBVIOUS
  <2>1. Id(q, s).rank = q BY IdIs
  <2>2. t.globals[Id(q, s)] \notin G BY <1>3, <2>1
  <2> QED BY <1>1, <2>2 DEF Without
<1>5. ASSUME NEW i, NEW rc, NEW next, Linked(t, T, q, i, rc, next)
      PROVE  Linked(u, T, q, i, rc, next)
  <2>1. Known(i) \cap T \subseteq Owned(u, q) BY <1>2, <1>5 DEF Linked
  <2>2. \A x \in DOMAIN u.globals : x.rank = q => x.seq < next BY <1>1, <1>5 DEF Linked, Without
  <2>3. ASSUME NEW c \in DOMAIN i.rec, i.rec[c].seq \notin rc
        PROVE  Identified(u, q, c, i.rec[c].seq)
    <3> DEFINE s == i.rec[c].seq
    <3>1. Identified(t, q, c, s) BY <1>5, <2>3 DEF Linked
    <3> HIDE DEF s
    <3>2. Id(q, s) \in DOMAIN u.globals /\ u.globals[Id(q, s)] = t.globals[Id(q, s)] BY <1>4, <3>1 DEF Identified
    <3>3. t.chainSequences[c] \notin G
      <4>1. Id(q, s).rank = q BY IdIs
      <4> QED BY <1>3, <3>1, <4>1 DEF Identified
    <3>4. c \notin E
      <4>1. c \in E => t.chainSequences[c] \in G BY <3>1 DEF G, GidsOf, Identified
      <4> QED BY <3>3, <4>1
    <3>5. c \in DOMAIN u.chainSequences /\ u.chainSequences[c] = t.chainSequences[c] BY <1>1, <3>1, <3>4 DEF Identified
    <3>6. \A d \in DOMAIN u.chainSequences : u.chainSequences[d] = u.chainSequences[c] => d = c
      BY <1>1, <3>1, <3>5 DEF Identified
    <3>7. Identified(u, q, c, s) BY <1>1, <3>1, <3>2, <3>3, <3>5, <3>6 DEF Identified
    <3> QED BY <3>7 DEF s
  <2> QED BY <2>1, <2>2, <2>3 DEF Linked
<1>6. ASSUME NEW rc, NEW R, NEW A, Counted(t, q, rc, R, A)
      PROVE  Counted(u, q, rc, R, A)
  <2> SUFFICES ASSUME rc = {} PROVE Counted(u, q, rc, R, A) BY DEF Counted
  <2>1. \A s \in R : Id(q, s) \in DOMAIN t.globals BY <1>6 DEF Counted
  <2>3. \A s \in R : Id(q, s) \in DOMAIN u.globals /\ u.globals[Id(q, s)] = t.globals[Id(q, s)]
    BY <1>4, <2>1
  <2>4. t.active[q] \ A = {t.globals[Id(q, s)] : s \in R} BY <1>6 DEF Counted
  <2>5. {t.globals[Id(q, s)] : s \in R} = {u.globals[Id(q, s)] : s \in R} BY <2>3
  <2> QED BY <1>1, <2>3, <2>4, <2>5 DEF Counted
<1> QED BY <1>2, <1>5, <1>6 DEF u

\* Forgetting no chain leaves the tables.
LEMMA ForgetNone ==
  ASSUME NEW T, NEW t, TablesOK(t, T)
  PROVE  ForgetChains(t, {}) = t
<1> DEFINE m == [t EXCEPT !.chainOwners = Drop(t.chainOwners, {}), !.chainSequences = Drop(t.chainSequences, {}),
                          !.chainSeqIds = t.chainSeqIds \ {}]
           D == {t.owners[g] : g \in {}}
<1>1. t \in TablesType BY DEF TablesOK
<1>2. Drop(t.chainOwners, {}) = t.chainOwners
  BY <1>1, TableFields, PFunIs DEF Drop
<1>3. Drop(t.chainSequences, {}) = t.chainSequences
  BY <1>1, TableFields, PFunIs DEF Drop
<1>4. Drop(t.owners, {}) = t.owners
  BY <1>1, TableFields, PFunIs DEF Drop
<1>5. Drop(t.globals, {}) = t.globals
  BY <1>1, TableFields, PFunIs DEF Drop
<1>6. t.chainSeqIds \ {} = t.chainSeqIds OBVIOUS
<1>7. m = t BY <1>1, <1>2, <1>3, <1>6 DEF TablesType
<1> HIDE DEF m
<1>8. {t.chainSequences[c] : c \in {} \cap DOMAIN t.chainSequences} = {} OBVIOUS
<1>9. ForgetChains(t, {}) = ReleaseRequestIdentity(m, {}) BY <1>8 DEF ForgetChains, m
<1>10. ReleaseRequestIdentity(t, {}) = [t EXCEPT !.owners = Drop(t.owners, {}), !.globals = Drop(t.globals, {})]
  <2>1. ({} \cap DOMAIN t.owners) \ t.chainSeqIds = {} OBVIOUS
  <2>2. {t.owners[g] : g \in {}} = {} OBVIOUS
  <2> QED BY <2>1, <2>2 DEF ReleaseRequestIdentity
<1>11. [t EXCEPT !.owners = t.owners, !.globals = t.globals] = t BY <1>1 DEF TablesType
<1> QED BY <1>4, <1>5, <1>7, <1>9, <1>10, <1>11

\* An identity the frontend has stays as it is when another request is admitted.
LEMMA AdmitKeeps ==
  ASSUME NEW T, NEW t, TablesOK(t, T), t.next <= MaxAdmits, NEW q \in Ranks,
         NEW a, a.seq \in Nat, a.chain \in Nat, NEW x, NEW c, NEW s,
         Identified(t, x, c, s), c # a.chain, Id(x, s) # Id(q, a.seq)
  PROVE  Identified(AfterAdmit(t, q, a), x, c, s)
<1> DEFINE u == AfterAdmit(t, q, a)
           g == GidOf(t, q, a.seq)
           id == Id(q, a.seq)
<1>0. Enrolled(t, AfterAdmit(t, q, a), q, a.seq, a.chain) BY AdmitIs
<1>1. /\ DOMAIN u.globals = DOMAIN t.globals \cup {id} /\ u.globals[id] = g
      /\ \A y \in DOMAIN t.globals : u.globals[y] = t.globals[y]
      /\ a.chain = NoChain =>
                  /\ u.chainOwners = t.chainOwners /\ u.chainSequences = t.chainSequences
                  /\ u.chainSeqIds = t.chainSeqIds
      /\ a.chain # NoChain =>
                  /\ u.chainOwners = Put(t.chainOwners, a.chain, q)
                  /\ u.chainSequences = Put(t.chainSequences, a.chain, g)
                  /\ u.chainSeqIds = t.chainSeqIds \cup {g}
  BY <1>0 DEF Enrolled
<1> HIDE DEF u, g, id
<1>2. u.globals[Id(x, s)] = t.chainSequences[c] /\ Id(x, s) \in DOMAIN u.globals
  BY <1>1 DEF Identified
<1>3. CASE a.chain = NoChain BY <1>1, <1>2, <1>3 DEF Identified, u
<1>4. CASE a.chain # NoChain
  <2>1. /\ DOMAIN u.chainSequences = DOMAIN t.chainSequences \cup {a.chain}
        /\ u.chainSequences[a.chain] = g
        /\ \A d \in DOMAIN t.chainSequences : d # a.chain => u.chainSequences[d] = t.chainSequences[d]
    BY <1>1, <1>4 DEF Put
  <2>2. g # t.chainSequences[c]
    <3> SUFFICES ASSUME g = t.chainSequences[c] PROVE FALSE OBVIOUS
    <3>1. g = t.globals[Id(x, s)] /\ Id(x, s) \in DOMAIN t.globals BY DEF Identified
    <3>2. g \in DOMAIN t.owners /\ t.owners[g] = Id(x, s) BY <3>1 DEF TablesOK, Mirrored
    <3>3. CASE id \in DOMAIN t.globals
      <4>1. t.globals[id] = g BY <3>3 DEF g, GidOf, id
      <4>2. t.owners[g] = id BY <3>3, <4>1 DEF TablesOK, Mirrored
      <4> QED BY <3>2, <4>2 DEF id
    <3>4. CASE id \notin DOMAIN t.globals
      <4>1. g = t.next BY <3>4 DEF g, GidOf, id
      <4>2. g \in 1..(t.next - 1) BY <3>2 DEF TablesOK, Numbered, Given
      <4>3. t.next \in Nat BY TableFields DEF TablesOK
      <4> QED BY <4>1, <4>2, <4>3
    <3> QED BY <3>3, <3>4
  <2>3. c \in DOMAIN t.chainSequences BY DEF Identified
  <2>4. u.chainSequences[c] = t.chainSequences[c] /\ c \in DOMAIN u.chainSequences BY <2>1, <2>3
  <2>5. \A d \in DOMAIN u.chainSequences : u.chainSequences[d] = u.chainSequences[c] => d = c
    BY <2>1, <2>2, <2>4 DEF Identified
  <2>6. u.chainSequences[c] \in u.chainSeqIds BY <1>1, <1>4, <2>4 DEF Identified
  <2> QED BY <1>2, <2>4, <2>5, <2>6 DEF Identified, u
<1> QED BY <1>3, <1>4

\* A request admitted on rank q, seen from another rank: it does not know the chain.
LEMMA AdmitOther ==
  ASSUME NEW T, NEW t, TablesOK(t, T), t.next <= MaxAdmits, NEW q \in Ranks,
         NEW a, a.seq \in Nat, a.chain \in Nat, NEW x \in Ranks, x # q,
         NEW i, a.chain \notin Known(i)
  PROVE  LET u == AfterAdmit(t, q, a)
             U == T \cup ({a.chain} \ {NoChain})
         IN  /\ Owned(t, x) \subseteq Known(i) => Owned(u, x) \subseteq Known(i)
             /\ \A rc, next : Linked(t, T, x, i, rc, next) => Linked(u, U, x, i, rc, next)
             /\ \A rc, R, A : Counted(t, x, rc, R, A) => Counted(u, x, rc, R, A)
<1> DEFINE u == AfterAdmit(t, q, a)
           U == T \cup ({a.chain} \ {NoChain})
           g == GidOf(t, q, a.seq)
           id == Id(q, a.seq)
<1>0. Enrolled(t, AfterAdmit(t, q, a), q, a.seq, a.chain) BY AdmitIs
<1>1. /\ DOMAIN u.globals = DOMAIN t.globals \cup {id} /\ u.globals[id] = g
      /\ \A y \in DOMAIN t.globals : u.globals[y] = t.globals[y]
      /\ u.active[x] = t.active[x]
      /\ a.chain = NoChain => u.chainOwners = t.chainOwners
      /\ a.chain # NoChain => u.chainOwners = Put(t.chainOwners, a.chain, q)
  BY <1>0 DEF Enrolled
<1>2. \A s : Id(x, s) # id BY IdIs
<1>3. id.rank = q BY IdIs
<1>4. \A c, s : Identified(t, x, c, s) /\ c # a.chain => Identified(u, x, c, s)
  BY <1>2, AdmitKeeps
<1> HIDE DEF u, g, id
<1>5. \A c : c # a.chain => (c \in Owned(u, x) <=> c \in Owned(t, x)) BY <1>1 DEF Owned, Put
<1>6. a.chain \in Owned(u, x) => a.chain = NoChain /\ a.chain \in Owned(t, x) BY <1>1 DEF Owned, Put
<1>7. ASSUME Owned(t, x) \subseteq Known(i) PROVE Owned(u, x) \subseteq Known(i) BY <1>5, <1>6, <1>7
<1>8. ASSUME NEW rc, NEW next, Linked(t, T, x, i, rc, next)
      PROVE  Linked(u, U, x, i, rc, next)
  <2>1. Known(i) \cap U \subseteq Owned(u, x) BY <1>5, <1>8 DEF Linked
  <2>2. \A y \in DOMAIN u.globals : y.rank = x => y.seq < next BY <1>1, <1>3, <1>8 DEF Linked
  <2>3. \A c \in DOMAIN i.rec : c # a.chain BY DEF Known
  <2>4. \A c \in DOMAIN i.rec : i.rec[c].seq \notin rc => Identified(u, x, c, i.rec[c].seq)
    BY <1>4, <1>8, <2>3 DEF Linked
  <2> QED BY <2>1, <2>2, <2>4 DEF Linked
<1>9. ASSUME NEW rc, NEW R, NEW A, Counted(t, x, rc, R, A)
      PROVE  Counted(u, x, rc, R, A)
  <2> SUFFICES ASSUME rc = {} PROVE Counted(u, x, rc, R, A) BY DEF Counted
  <2>1. \A s \in R : Id(x, s) \in DOMAIN t.globals BY <1>9 DEF Counted
  <2>2. \A s \in R : Id(x, s) \in DOMAIN u.globals /\ u.globals[Id(x, s)] = t.globals[Id(x, s)]
    BY <1>1, <2>1
  <2>3. t.active[x] \ A = {t.globals[Id(x, s)] : s \in R} BY <1>9 DEF Counted
  <2>4. {t.globals[Id(x, s)] : s \in R} = {u.globals[Id(x, s)] : s \in R} BY <2>2
  <2> QED BY <1>1, <2>2, <2>3, <2>4 DEF Counted
<1> QED BY <1>7, <1>8, <1>9 DEF u, U

\* A request admitted on rank q, seen from there: the chain, if there is one, is
\* new or resident, and the sequence new, that of the chain, or recreated.
LEMMA AdmitSelf ==
  ASSUME NEW T, NEW t, TablesOK(t, T), t.next <= MaxAdmits, NEW q \in Ranks,
         NEW a, a.seq \in Nat, a.chain \in Nat, NEW i, NEW rc, NEW next, NEW j, NEW rd, NEW nxt,
         Linked(t, T, q, i, rc, next), Owned(t, q) \subseteq Known(i),
         rc \subseteq rd, next \in Nat, nxt \in Nat, next <= nxt, a.seq < nxt, 
         Known(j) = Known(i) \cup ({a.chain} \ {NoChain}),
         \A c \in DOMAIN j.rec : \/ c = a.chain /\ j.rec[c].seq = a.seq /\ a.chain # NoChain
                                 \/ /\ c \in DOMAIN i.rec /\ j.rec[c].seq = i.rec[c].seq
                                    /\ c # a.chain /\ j.rec[c].seq # a.seq,
         \/ Id(q, a.seq) \notin DOMAIN t.globals
         \/ a.chain \in DOMAIN i.rec /\ i.rec[a.chain].seq = a.seq
         \/ a.seq \in rd
  PROVE  LET u == AfterAdmit(t, q, a)
             U == T \cup ({a.chain} \ {NoChain})
         IN  /\ Owned(u, q) \subseteq Known(j) /\ Linked(u, U, q, j, rd, nxt)
             /\ \A R : Counted(t, q, rc, R, {}) => Counted(u, q, rd, R \cup {a.seq}, {})
<1> DEFINE u == AfterAdmit(t, q, a)
           U == T \cup ({a.chain} \ {NoChain})
           g == GidOf(t, q, a.seq)
           id == Id(q, a.seq)
<1>0. Enrolled(t, AfterAdmit(t, q, a), q, a.seq, a.chain) BY AdmitIs
<1>1. /\ DOMAIN u.globals = DOMAIN t.globals \cup {id} /\ u.globals[id] = g
      /\ \A y \in DOMAIN t.globals : u.globals[y] = t.globals[y]
      /\ u.active[q] = t.active[q] \cup {g}
      /\ a.chain = NoChain =>
                  /\ u.chainOwners = t.chainOwners /\ u.chainSequences = t.chainSequences
                  /\ u.chainSeqIds = t.chainSeqIds
      /\ a.chain # NoChain =>
                  /\ u.chainOwners = Put(t.chainOwners, a.chain, q)
                  /\ u.chainSequences = Put(t.chainSequences, a.chain, g)
                  /\ u.chainSeqIds = t.chainSeqIds \cup {g}
  BY <1>0 DEF Enrolled
<1>2. id.rank = q /\ id.seq = a.seq /\ \A s : s # a.seq => Id(q, s) # id BY IdIs
<1>3. \A c, s : Identified(t, q, c, s) /\ c # a.chain /\ s # a.seq => Identified(u, q, c, s)
  BY <1>2, AdmitKeeps
<1> HIDE DEF u, g, id
<1>4. Owned(u, q) = Owned(t, q) \cup ({a.chain} \ {NoChain})
  <2>1. CASE a.chain = NoChain BY <1>1, <2>1 DEF Owned
  <2>2. CASE a.chain # NoChain BY <1>1, <2>2 DEF Owned, Put
  <2> QED BY <2>1, <2>2
<1>5. Owned(u, q) \subseteq Known(j) BY <1>4
<1>6. ASSUME a.chain # NoChain, a.seq \notin rd
      PROVE  Identified(u, q, a.chain, a.seq)
  <2>1. /\ DOMAIN u.chainSequences = DOMAIN t.chainSequences \cup {a.chain}
        /\ u.chainSequences[a.chain] = g
        /\ \A d \in DOMAIN t.chainSequences : d # a.chain => u.chainSequences[d] = t.chainSequences[d]
        /\ g \in u.chainSeqIds
    BY <1>1, <1>6 DEF Put
  <2>2. \A d \in DOMAIN t.chainSequences : d # a.chain => t.chainSequences[d] # g
    <3>1. CASE id \notin DOMAIN t.globals
      <4>1. g = t.next BY <3>1 DEF g, GidOf, id
      <4>2. \A d \in DOMAIN t.chainSequences : t.chainSequences[d] \in 1..(t.next - 1)
        BY DEF TablesOK, Numbered, Given
      <4>3. t.next \in Nat BY TableFields DEF TablesOK
      <4> QED BY <4>1, <4>2, <4>3
    <3>2. CASE id \in DOMAIN t.globals
      <4>1. a.chain \in DOMAIN i.rec /\ i.rec[a.chain].seq = a.seq /\ a.seq \notin rc BY <1>6, <3>2 DEF id
      <4>2. Identified(t, q, a.chain, a.seq) BY <4>1 DEF Linked
      <4>3. g = t.globals[id] BY <3>2 DEF g, GidOf, id
      <4> QED BY <4>2, <4>3 DEF Identified, id
    <3> QED BY <3>1, <3>2
  <2> QED BY <1>1, <2>1, <2>2 DEF Identified, id
<1>7. Linked(u, U, q, j, rd, nxt)
  <2>1. Known(j) \cap U \subseteq Owned(u, q) BY <1>4 DEF Linked
  <2>2. \A y \in DOMAIN u.globals : y.rank = q => y.seq < nxt
    <3> TAKE y \in DOMAIN u.globals
    <3>1. CASE y = id BY <3>1, <1>2
    <3>2. CASE y # id
      <4>1. y \in DOMAIN t.globals BY <3>2, <1>1
      <4>2. y.seq \in Nat BY <4>1, TableMaps DEF TablesOK, IdType
      <4> QED BY <4>1, <4>2 DEF Linked
    <3> QED BY <3>1, <3>2
  <2>3. ASSUME NEW c \in DOMAIN j.rec, j.rec[c].seq \notin rd PROVE Identified(u, q, c, j.rec[c].seq)
    <3>1. CASE c = a.chain /\ j.rec[c].seq = a.seq /\ a.chain # NoChain BY <1>6, <2>3, <3>1
    <3>2. CASE c \in DOMAIN i.rec /\ j.rec[c].seq = i.rec[c].seq /\ c # a.chain /\ j.rec[c].seq # a.seq
      <4>1. Identified(t, q, c, j.rec[c].seq) BY <2>3, <3>2 DEF Linked
      <4> QED BY <3>2, <4>1, <1>3
    <3> QED BY <3>1, <3>2
  <2> QED BY <2>1, <2>2, <2>3 DEF Linked
<1>8. ASSUME NEW R, Counted(t, q, rc, R, {})
      PROVE  Counted(u, q, rd, R \cup {a.seq}, {})
  <2> SUFFICES ASSUME rd = {} PROVE Counted(u, q, rd, R \cup {a.seq}, {}) BY DEF Counted
  <2>0. rc = {} OBVIOUS
  <2>1. \A s \in R : Id(q, s) \in DOMAIN t.globals BY <1>8, <2>0 DEF Counted
  <2>2. \A s \in R : Id(q, s) \in DOMAIN u.globals /\ u.globals[Id(q, s)] = t.globals[Id(q, s)]
    BY <1>1, <2>1
  <2>3. t.active[q] \ {} = {t.globals[Id(q, s)] : s \in R} BY <1>8, <2>0 DEF Counted
  <2>4. u.globals[Id(q, a.seq)] = g /\ Id(q, a.seq) \in DOMAIN u.globals BY <1>1 DEF id
  <2>5. {u.globals[Id(q, s)] : s \in R \cup {a.seq}} = {t.globals[Id(q, s)] : s \in R} \cup {g} BY <2>2, <2>4
  <2>6. u.active[q] \ {} = {u.globals[Id(q, s)] : s \in R \cup {a.seq}} BY <1>1, <2>3, <2>5
  <2>7. \A s \in R \cup {a.seq} : Id(q, s) \in DOMAIN u.globals BY <2>2, <2>4
  <2> QED BY <2>6, <2>7 DEF Counted
<1> QED BY <1>5, <1>7, <1>8 DEF u, U

\* Two ids do not share a global id.
LEMMA OneId ==
  ASSUME NEW t, Mirrored(t), NEW x \in DOMAIN t.globals, NEW y \in DOMAIN t.globals, t.globals[x] = t.globals[y]
  PROVE  x = y
BY DEF Mirrored

\* The request g, sequence s of rank q, is over: nothing else changes for any rank.
LEMMA AbortLinks ==
  ASSUME NEW T, NEW t, TablesOK(t, T), NEW g, NEW q \in Ranks, NEW s,
         \A x \in DOMAIN t.globals : t.globals[x] = g => x = Id(q, s), NEW z \in Ranks
  PROVE  LET u == AfterAbort(t, g, q)
         IN  /\ Owned(u, z) = Owned(t, z)
             /\ \A i, rc, next : /\ Linked(t, T, z, i, rc, next)
                                 /\ z = q => \A c \in DOMAIN i.rec : i.rec[c].seq # s
                                 => Linked(u, T, z, i, rc, next)
             /\ \A rc, R : z = q /\ Counted(t, z, rc, R, {g}) => Counted(u, z, rc, R, {})
             /\ \A rc, R : z # q /\ Counted(t, z, rc, R, {}) => Counted(u, z, rc, R, {})
<1> DEFINE u == AfterAbort(t, g, q)
<1>0. Ended(t, AfterAbort(t, g, q), g, q) BY AbortIs
<1>1. /\ Without(t, u, {g})
      /\ u.chainOwners = t.chainOwners /\ u.chainSequences = t.chainSequences
      /\ u.chainSeqIds = t.chainSeqIds \ {g}
      /\ u.active[q] = t.active[q] \ {g} /\ (z # q => u.active[z] = t.active[z])
  BY <1>0 DEF Ended
<1> HIDE DEF u
<1>2. Owned(u, z) = Owned(t, z) BY <1>1 DEF Owned
<1>3. \A y : Id(z, y) \in DOMAIN t.globals /\ t.globals[Id(z, y)] # g =>
             Id(z, y) \in DOMAIN u.globals /\ u.globals[Id(z, y)] = t.globals[Id(z, y)]
  BY <1>1 DEF Without
<1>4. ASSUME NEW i, NEW rc, NEW next, Linked(t, T, z, i, rc, next),
             z = q => \A c \in DOMAIN i.rec : i.rec[c].seq # s
      PROVE  Linked(u, T, z, i, rc, next)
  <2>1. Known(i) \cap T \subseteq Owned(u, z) BY <1>2, <1>4 DEF Linked
  <2>2. \A x \in DOMAIN u.globals : x.rank = z => x.seq < next BY <1>1, <1>4 DEF Linked, Without
  <2>3. ASSUME NEW c \in DOMAIN i.rec, i.rec[c].seq \notin rc
        PROVE  Identified(u, z, c, i.rec[c].seq)
    <3> DEFINE y == i.rec[c].seq
    <3>1. Identified(t, z, c, y) BY <1>4, <2>3 DEF Linked
    <3>2. Id(z, y) # Id(q, s) BY <1>4, IdIs
    <3> HIDE DEF y
    <3>3. t.globals[Id(z, y)] # g BY <3>1, <3>2 DEF Identified
    <3>4. Id(z, y) \in DOMAIN u.globals /\ u.globals[Id(z, y)] = t.globals[Id(z, y)] BY <1>3, <3>1, <3>3 DEF Identified
    <3>5. Identified(u, z, c, y) BY <1>1, <3>1, <3>3, <3>4 DEF Identified
    <3> QED BY <3>5 DEF y
  <2> QED BY <2>1, <2>2, <2>3 DEF Linked
<1>5. ASSUME NEW rc, NEW R, NEW A, Counted(t, z, rc, R, A), u.active[z] = t.active[z] \ A, z = q => g \in A
      PROVE  Counted(u, z, rc, R, {})
  <2> SUFFICES ASSUME rc = {} PROVE Counted(u, z, rc, R, {}) BY DEF Counted
  <2>1. \A y \in R : Id(z, y) \in DOMAIN t.globals BY <1>5 DEF Counted
  <2>2. t.active[z] \ A = {t.globals[Id(z, y)] : y \in R} BY <1>5 DEF Counted
  <2>3. \A y \in R : t.globals[Id(z, y)] # g
    <3>1. CASE z = q
      <4>1. g \in A BY <1>5, <3>1
      <4> QED BY <2>2, <4>1
    <3>2. CASE z # q BY <2>1, <3>2, IdIs
    <3> QED BY <3>1, <3>2
  <2>4. \A y \in R : Id(z, y) \in DOMAIN u.globals /\ u.globals[Id(z, y)] = t.globals[Id(z, y)]
    BY <1>3, <2>1, <2>3
  <2>5. {t.globals[Id(z, y)] : y \in R} = {u.globals[Id(z, y)] : y \in R} BY <2>4
  <2>6. u.active[z] = t.active[z] \ A BY <1>1, <1>5
  <2> QED BY <2>2, <2>4, <2>5, <2>6 DEF Counted
<1>6. \A rc, R : z = q /\ Counted(t, z, rc, R, {g}) => Counted(u, z, rc, R, {}) BY <1>1, <1>5
<1>7. \A rc, R : z # q /\ Counted(t, z, rc, R, {}) => Counted(u, z, rc, R, {}) BY <1>1, <1>5
<1> QED BY <1>2, <1>4, <1>6, <1>7 DEF u

\* What runs on q when request g, its sequence s, is taken out.
LEMMA CountedLess ==
  ASSUME NEW t, Mirrored(t), NEW q, NEW s, NEW g, Id(q, s) \in DOMAIN t.globals, t.globals[Id(q, s)] = g,
         NEW rc, NEW R, Counted(t, q, rc, R, {})
  PROVE  Counted(t, q, rc, R \ {s}, {g})
<1> SUFFICES ASSUME rc = {} PROVE Counted(t, q, rc, R \ {s}, {g}) BY DEF Counted
<1>1. \A y \in R : Id(q, y) \in DOMAIN t.globals BY DEF Counted
<1>2. t.active[q] \ {} = {t.globals[Id(q, y)] : y \in R} BY DEF Counted
<1>3. \A y \in R : y # s => t.globals[Id(q, y)] # g BY <1>1, OneId, IdIs
<1>4. {t.globals[Id(q, y)] : y \in R \ {s}} = {t.globals[Id(q, y)] : y \in R} \ {g} BY <1>3
<1> QED BY <1>1, <1>2, <1>4 DEF Counted

\* A step is over: what is done leaves the active sets, and no rank notices more.
LEMMA StepLinks ==
  ASSUME NEW T, NEW t, TablesOK(t, T), NEW got,
         \A z \in Ranks : \A s \in got[z].done : Id(z, s) \in DOMAIN t.globals, NEW q \in Ranks
  PROVE  LET u == AfterStep(t, got)
         IN  /\ Owned(u, q) = Owned(t, q)
             /\ \A i, rc, next : Linked(t, T, q, i, rc, next) => Linked(u, T, q, i, rc, next)
             /\ \A rc, R : Counted(t, q, rc, R \cup got[q].done, {}) /\ R \cap got[q].done = {}
                           => Counted(u, q, rc, R, {})
<1> DEFINE u == AfterStep(t, got)
<1>0. Stepped(t, AfterStep(t, got), got) BY StepIs
<1>1. /\ Without(t, u, OverAll(t, got) \ t.chainSeqIds)
      /\ u.chainOwners = t.chainOwners /\ u.chainSequences = t.chainSequences
      /\ u.chainSeqIds = t.chainSeqIds /\ u.active[q] = t.active[q] \ Over(t, got, q)
  BY <1>0 DEF Stepped
<1> HIDE DEF u
<1>2. Owned(u, q) = Owned(t, q) BY <1>1 DEF Owned
<1>3. ASSUME NEW i, NEW rc, NEW next, Linked(t, T, q, i, rc, next)
      PROVE  Linked(u, T, q, i, rc, next)
  <2>1. Known(i) \cap T \subseteq Owned(u, q) BY <1>2, <1>3 DEF Linked
  <2>2. \A x \in DOMAIN u.globals : x.rank = q => x.seq < next BY <1>1, <1>3 DEF Linked, Without
  <2>3. ASSUME NEW c \in DOMAIN i.rec, i.rec[c].seq \notin rc
        PROVE  Identified(u, q, c, i.rec[c].seq)
    <3> DEFINE y == i.rec[c].seq
    <3>1. Identified(t, q, c, y) BY <1>3, <2>3 DEF Linked
    <3> HIDE DEF y
    <3>2. t.globals[Id(q, y)] \in t.chainSeqIds BY <3>1 DEF Identified
    <3>4. Id(q, y) \in DOMAIN u.globals /\ u.globals[Id(q, y)] = t.globals[Id(q, y)]
      BY <1>1, <3>1, <3>2 DEF Identified, Without
    <3>5. Identified(u, q, c, y) BY <1>1, <3>1, <3>4 DEF Identified
    <3> QED BY <3>5 DEF y
  <2> QED BY <2>1, <2>2, <2>3 DEF Linked
<1>4. ASSUME NEW rc, NEW R, Counted(t, q, rc, R \cup got[q].done, {}), R \cap got[q].done = {}
      PROVE  Counted(u, q, rc, R, {})
  <2> DEFINE D == got[q].done
  <2> SUFFICES ASSUME rc = {} PROVE Counted(u, q, rc, R, {}) BY DEF Counted
  <2>1. \A y \in R \cup D : Id(q, y) \in DOMAIN t.globals BY <1>4 DEF Counted
  <2>2. t.active[q] \ {} = {t.globals[Id(q, y)] : y \in R \cup D} BY <1>4 DEF Counted
  <2>3. ASSUME NEW y \in R PROVE t.globals[Id(q, y)] \notin OverAll(t, got)
    <3> SUFFICES ASSUME NEW z \in Ranks, NEW x \in got[z].done, t.globals[Id(q, y)] = t.globals[Id(z, x)] PROVE FALSE
      BY DEF OverAll, Over, Id
    <3>1. Id(q, y) = Id(z, x) BY <2>1, OneId DEF TablesOK
    <3> QED BY <3>1, <1>4, IdIs
  <2>4. \A y \in R : Id(q, y) \in DOMAIN u.globals /\ u.globals[Id(q, y)] = t.globals[Id(q, y)]
    BY <1>1, <2>1, <2>3 DEF Without
  <2>5. Over(t, got, q) = {t.globals[Id(q, y)] : y \in D} BY DEF Over, Id
  <2>6. Over(t, got, q) \subseteq OverAll(t, got) BY DEF OverAll
  <2>7. {t.globals[Id(q, y)] : y \in R \cup D} \ Over(t, got, q) = {t.globals[Id(q, y)] : y \in R}
    BY <2>3, <2>5, <2>6
  <2>8. {t.globals[Id(q, y)] : y \in R} = {u.globals[Id(q, y)] : y \in R} BY <2>4
  <2>9. u.active[q] = {u.globals[Id(q, y)] : y \in R} BY <1>1, <2>2, <2>7, <2>8
  <2>10. \A y \in R : Id(q, y) \in DOMAIN u.globals BY <2>4
  <2> QED BY <2>9, <2>10 DEF Counted
<1> QED BY <1>2, <1>3, <1>4 DEF u

\* What a snapshot makes the frontend forget.
LEMMA SnapshotIs ==
  ASSUME NEW T, NEW t, TablesOK(t, T), NEW r
  PROVE  /\ \A K : AfterSnapshot(t, r, {K}) = ForgetChains(t, Owned(t, r) \ K)
         /\ AfterSnapshot(t, r, {}) = t
         /\ \A S : \E E \in SUBSET Owned(t, r) : AfterSnapshot(t, r, S) = ForgetChains(t, E)
<1>1. ASSUME NEW K PROVE AfterSnapshot(t, r, {K}) = ForgetChains(t, Owned(t, r) \ K)
  <2>1. UNION {Expired(t, r, known) : known \in {K}} = Owned(t, r) \ K BY DEF Expired, Owned
  <2> QED BY <2>1 DEF AfterSnapshot
<1>2. AfterSnapshot(t, r, {}) = t
  <2>1. UNION {Expired(t, r, known) : known \in {}} = {} OBVIOUS
  <2> QED BY <2>1, ForgetNone DEF AfterSnapshot
<1>3. ASSUME NEW S PROVE \E E \in SUBSET Owned(t, r) : AfterSnapshot(t, r, S) = ForgetChains(t, E)
  <2>1. UNION {Expired(t, r, known) : known \in S} \in SUBSET Owned(t, r) BY DEF Expired, Owned
  <2> QED BY <2>1 DEF AfterSnapshot
<1> QED BY <1>1, <1>2, <1>3

-----------------------------------------------------------------------------
(* The engine of one rank                                                  *)

\* Active chains are those of running requests, recreated ones apart.
Writers(i, run, rc) ==
  /\ \A c \in InState(i, "active") : i.rec[c].seq \in run
  /\ \A s \in run \ rc : \E c \in InState(i, "active") : i.rec[c].seq = s

\* An engine: its index, its requests, the next sequence id, those recreated.
EngineOK(i, run, next, rc, n, md) ==
  /\ IndexOK(i, n) /\ run \subseteq Nat /\ rc \subseteq Nat /\ next \in Nat /\ next >= 1
  /\ (\A s \in run : s < next) /\ (\A c \in DOMAIN i.rec : i.rec[c].seq < next)
  /\ md = "chain" => Writers(i, run, rc)
  /\ md = "radix" => Known(i) = {}

\* An engine is sound when another one creates a chain.
LEMMA EngineGrow ==
  ASSUME NEW n \in Nat, NEW md, NEW i, NEW run, NEW next, NEW rc, EngineOK(i, run, next, rc, n, md)
  PROVE  EngineOK(i, run, next, rc, n + 1, md)
<1>1. 1..n \subseteq 1..(n + 1) OBVIOUS
<1>2. IndexOK(i, n + 1) BY <1>1 DEF EngineOK, IndexOK
<1> QED BY <1>2 DEF EngineOK

\* A fresh or dead engine is sound.
LEMMA EngineNew ==
  ASSUME NEW n \in Nat, NEW md, NEW next \in Nat, next >= 1
  PROVE  EngineOK(NewIndex, {}, next, {}, n, md)
<1>1. IndexOK(NewIndex, n) /\ DOMAIN NewIndex.rec = {} /\ Known(NewIndex) = {} BY NewIndexOK
<1>2. Writers(NewIndex, {}, {}) BY <1>1 DEF Writers, InState
<1> QED BY <1>1, <1>2 DEF EngineOK

\* Admission in radix mode keeps the engine sound.
LEMMA EngineRadix ==
  ASSUME NEW n \in Nat, NEW i, NEW run, NEW next, NEW rc, EngineOK(i, run, next, rc, n, "radix")
  PROVE  EngineOK(i, run \cup {next}, next + 1, rc, n, "radix")
<1>1. DOMAIN i.rec = {} BY DEF EngineOK, Known
<1>2. \A s \in run : s \in Nat /\ s < next BY DEF EngineOK
<1> QED BY <1>1, <1>2 DEF EngineOK

\* The seqs of an index are naturals below next.
LEMMA SeqsBelow ==
  ASSUME NEW n \in Nat, NEW md, NEW i, NEW run, NEW next, NEW rc, EngineOK(i, run, next, rc, n, md)
  PROVE  /\ i \in IndexType /\ next \in Nat
         /\ \A c \in DOMAIN i.rec : /\ i.rec[c].seq \in Nat /\ i.rec[c].seq < next
                                    /\ i.rec[c].state \in {"active", "idle"}
         /\ \A s \in run : s \in Nat /\ s < next
BY RecIs DEF EngineOK, IndexOK

\* Admission with a new chain keeps the engine sound.
LEMMA EngineCreate ==
  ASSUME NEW n \in Nat, NEW i, NEW run, NEW next, NEW rc, EngineOK(i, run, next, rc, n, "chain"), CanAdmit(i)
  PROVE  LET j == Create(i, n + 1, next)
         IN  EngineOK(j, run \cup {next}, next + 1, rc, n + 1, "chain")
<1> DEFINE j == Create(i, n + 1, next)
           e == Evicted(i)
<1>1. /\ i \in IndexType /\ next \in Nat
      /\ \A c \in DOMAIN i.rec : /\ i.rec[c].seq \in Nat /\ i.rec[c].seq < next
                                 /\ i.rec[c].state \in {"active", "idle"}
      /\ \A s \in run : s \in Nat /\ s < next
  BY SeqsBelow
<1>2. IndexOK(i, n) /\ Writers(i, run, rc) BY DEF EngineOK
<1>3. Kept(i, e) BY <1>2, EvictedOK
<1>4. /\ IndexOK(j, n + 1) /\ DOMAIN j.rec = DOMAIN e.rec \cup {n + 1}
      /\ j.rec[n + 1] = [seq |-> next, state |-> "active"]
      /\ \A c \in DOMAIN e.rec : c # n + 1 /\ j.rec[c] = e.rec[c]
  <2>1. \A c \in DOMAIN i.rec : i.rec[c].seq # next BY <1>1
  <2>2. IndexOK(j, n + 1) /\ Created(e, j, n + 1, next) BY <1>1, <1>2, <2>1, CreateOK
  <2> QED BY <2>2 DEF Created
<1> HIDE DEF j, e
<1>5. \A c \in DOMAIN j.rec : \/ c = n + 1 /\ j.rec[c].seq = next /\ j.rec[c].state = "active"
                              \/ c \in DOMAIN i.rec /\ j.rec[c] = i.rec[c]
  BY <1>3, <1>4 DEF Kept
<1>6. \A c \in InState(i, "active") : c \in DOMAIN j.rec /\ j.rec[c] = i.rec[c]
  <2> TAKE c \in InState(i, "active")
  <2>1. c \in DOMAIN i.rec /\ i.rec[c].state = "active" BY DEF InState
  <2>2. c \notin IdleResident(i) BY <2>1 DEF IdleResident, InState
  <2> QED BY <2>1, <2>2, <1>3, <1>4 DEF Kept
<1>7. Writers(j, run \cup {next}, rc)
  <2>1. \A c \in InState(j, "active") : j.rec[c].seq \in run \cup {next}
    BY <1>2, <1>5 DEF Writers, InState
  <2>2. n + 1 \in InState(j, "active") /\ j.rec[n + 1].seq = next BY <1>4 DEF InState
  <2>3. \A s \in run \ rc : \E c \in InState(j, "active") : j.rec[c].seq = s
    <3> TAKE s \in run \ rc
    <3>1. PICK c \in InState(i, "active") : i.rec[c].seq = s BY <1>2 DEF Writers
    <3>2. c \in InState(j, "active") /\ j.rec[c].seq = s BY <3>1, <1>6 DEF InState
    <3> QED BY <3>2
  <2> QED BY <2>1, <2>2, <2>3 DEF Writers
<1>8. \A c \in DOMAIN j.rec : j.rec[c].seq < next + 1 BY <1>1, <1>5
<1>9. \A s \in run \cup {next} : s < next + 1 BY <1>1
<1>10. run \cup {next} \subseteq Nat /\ rc \subseteq Nat /\ next + 1 \in Nat /\ next + 1 >= 1 BY <1>1 DEF EngineOK
<1>11. EngineOK(j, run \cup {next}, next + 1, rc, n + 1, "chain") BY <1>4, <1>7, <1>8, <1>9, <1>10 DEF EngineOK
<1> QED BY <1>11 DEF j

\* Resuming an idle chain keeps the engine sound.
LEMMA EngineResume ==
  ASSUME NEW n \in Nat, NEW i, NEW run, NEW next, NEW rc, EngineOK(i, run, next, rc, n, "chain"),
         NEW c \in InState(i, "idle")
  PROVE  EngineOK(SetState(i, c, "active"), run \cup {i.rec[c].seq}, next, rc, n, "chain")
<1> DEFINE j == SetState(i, c, "active")
<1>0. c \in DOMAIN i.rec BY DEF InState
<1>1. /\ i \in IndexType /\ next \in Nat
      /\ \A d \in DOMAIN i.rec : /\ i.rec[d].seq \in Nat /\ i.rec[d].seq < next
                                 /\ i.rec[d].state \in {"active", "idle"}
      /\ \A s \in run : s \in Nat /\ s < next
  BY SeqsBelow
<1>2. IndexOK(i, n) /\ Writers(i, run, rc) BY DEF EngineOK
<1>3. /\ IndexOK(j, n) /\ DOMAIN j.rec = DOMAIN i.rec
      /\ j.rec[c].state = "active" /\ \A d \in DOMAIN i.rec : j.rec[d].seq = i.rec[d].seq
      /\ \A d \in DOMAIN i.rec : d # c => j.rec[d] = i.rec[d]
  BY <1>0, <1>2, SetStateOK
<1> HIDE DEF j
<1>4. Writers(j, run \cup {i.rec[c].seq}, rc)
  <2>1. \A d \in InState(j, "active") : j.rec[d].seq \in run \cup {i.rec[c].seq}
    BY <1>2, <1>3 DEF Writers, InState
  <2>2. c \in InState(j, "active") /\ j.rec[c].seq = i.rec[c].seq BY <1>0, <1>3 DEF InState
  <2>3. \A s \in run \ rc : \E d \in InState(j, "active") : j.rec[d].seq = s
    <3> TAKE s \in run \ rc
    <3>1. PICK d \in InState(i, "active") : i.rec[d].seq = s BY <1>2 DEF Writers
    <3>2. d \in InState(j, "active") /\ j.rec[d].seq = s BY <3>1, <1>3 DEF InState
    <3> QED BY <3>2
  <2> QED BY <2>1, <2>2, <2>3 DEF Writers
<1>5. run \cup {i.rec[c].seq} \subseteq Nat /\ \A s \in run \cup {i.rec[c].seq} : s < next BY <1>0, <1>1
<1>6. EngineOK(j, run \cup {i.rec[c].seq}, next, rc, n, "chain") BY <1>1, <1>3, <1>4, <1>5 DEF EngineOK
<1> QED BY <1>6 DEF j

\* j is i without chain c, the only one of its sequence.
Lost(i, j, c) ==
  /\ DOMAIN j.rec = DOMAIN i.rec \ {c} /\ \A d \in DOMAIN j.rec : j.rec[d] = i.rec[d]
  /\ \A d \in DOMAIN j.rec : j.rec[d].seq # i.rec[c].seq
  /\ Known(j) \subseteq Known(i)

\* Invalidating a chain loses that chain alone.
LEMMA InvalidateLost ==
  ASSUME NEW n \in Nat, NEW i, IndexOK(i, n), NEW c \in DOMAIN i.rec
  PROVE  IndexOK(Invalidate(i, c), n) /\ HasRow(Invalidate(i, c)) /\ Lost(i, Invalidate(i, c), c)
<1> DEFINE j == Invalidate(i, c)
<1>1. /\ IndexOK(j, n) /\ HasRow(j)
      /\ DOMAIN j.rec = DOMAIN i.rec \ {c} /\ \A d \in DOMAIN j.rec : j.rec[d] = i.rec[d]
      /\ Known(j) \subseteq Known(i)
  BY InvalidateOK
<1> HIDE DEF j
<1>2. \A d \in DOMAIN j.rec : j.rec[d].seq # i.rec[c].seq BY <1>1 DEF IndexOK
<1>3. Lost(i, j, c) BY <1>1, <1>2 DEF Lost
<1> QED BY <1>1, <1>3 DEF j

\* A chain is gone, and its request, if it ran, too or recreated.
LEMMA EngineLoses ==
  ASSUME NEW n \in Nat, NEW i, NEW run, NEW next, NEW rc, NEW md, EngineOK(i, run, next, rc, n, md),
         NEW c \in DOMAIN i.rec, NEW ran, ran = run \ {i.rec[c].seq} \/ (ran = run /\ i.rec[c].seq \in rc \cup (Nat \ run))
  PROVE  EngineOK(Invalidate(i, c), ran, next, rc, n, md)
<1> DEFINE j == Invalidate(i, c)
           s == i.rec[c].seq
<1>1. IndexOK(i, n) BY DEF EngineOK
<1>2. IndexOK(j, n) /\ Lost(i, j, c) BY <1>1, InvalidateLost
<1> HIDE DEF j
<1>3. md # "radix"
  <2> SUFFICES ASSUME md = "radix" PROVE FALSE OBVIOUS
  <2>1. DOMAIN i.rec = {} BY DEF EngineOK, Known
  <2> QED BY <2>1
<1>4. ASSUME md = "chain" PROVE Writers(j, ran, rc)
  <2>1. Writers(i, run, rc) BY <1>4 DEF EngineOK
  <2>2. \A d \in InState(j, "active") : j.rec[d].seq \in ran
    BY <1>2, <2>1 DEF Lost, Writers, InState
  <2>3. ASSUME NEW y \in ran \ rc PROVE \E d \in InState(j, "active") : j.rec[d].seq = y
    <3>1. y \in run \ rc /\ y # s OBVIOUS
    <3>2. PICK d \in InState(i, "active") : i.rec[d].seq = y BY <2>1, <3>1 DEF Writers
    <3>3. d \in InState(j, "active") /\ j.rec[d].seq = y BY <3>1, <3>2, <1>2 DEF InState, Lost
    <3> QED BY <3>3
  <2> QED BY <2>2, <2>3 DEF Writers
<1>5. \A d \in DOMAIN j.rec : j.rec[d].seq < next BY <1>2 DEF EngineOK, Lost
<1>6. EngineOK(j, ran, next, rc, n, md) BY <1>2, <1>3, <1>4, <1>5 DEF EngineOK
<1> QED BY <1>6 DEF j

\* A prompt that does not extend its idle chain: a new chain has its sequence.
LEMMA EngineReplace ==
  ASSUME NEW n \in Nat, NEW i, NEW run, NEW next, NEW rc, EngineOK(i, run, next, rc, n, "chain"),
         NEW c \in InState(i, "idle")
  PROVE  LET s == i.rec[c].seq
             k == Invalidate(i, c)
             e == Evicted(k)
             j == Create(k, n + 1, s)
         IN  /\ EngineOK(j, run \cup {s}, next, rc \cup {s}, n + 1, "chain")
             /\ Created(e, j, n + 1, s) /\ Lost(i, k, c) /\ Kept(k, e)
<1> DEFINE s == i.rec[c].seq
           k == Invalidate(i, c)
           e == Evicted(k)
           j == Create(k, n + 1, s)
<1>0. c \in DOMAIN i.rec /\ i.rec[c].state = "idle" BY DEF InState
<1>1. /\ i \in IndexType /\ next \in Nat
      /\ \A d \in DOMAIN i.rec : /\ i.rec[d].seq \in Nat /\ i.rec[d].seq < next
                                 /\ i.rec[d].state \in {"active", "idle"}
      /\ \A x \in run : x \in Nat /\ x < next
  BY SeqsBelow
<1>2. IndexOK(i, n) /\ Writers(i, run, rc) BY DEF EngineOK
<1>3. IndexOK(k, n) /\ HasRow(k) /\ Lost(i, k, c) BY <1>0, <1>2, InvalidateLost
<1> HIDE DEF k
<1>4. CanAdmit(k) BY <1>3 DEF CanAdmit
<1>5. Kept(k, e) BY <1>3, <1>4, EvictedOK
<1>6. s \in Nat /\ s < next /\ \A d \in DOMAIN k.rec : k.rec[d].seq # s BY <1>0, <1>1, <1>3 DEF Lost
<1> HIDE DEF s
<1>7. /\ IndexOK(j, n + 1) /\ DOMAIN j.rec = DOMAIN e.rec \cup {n + 1}
      /\ j.rec[n + 1] = [seq |-> s, state |-> "active"]
      /\ \A d \in DOMAIN e.rec : d # n + 1 /\ j.rec[d] = e.rec[d]
      /\ Known(j) = Known(e) \cup {n + 1}
  <2>1. IndexOK(j, n + 1) /\ Created(e, j, n + 1, s) BY <1>3, <1>4, <1>6, CreateOK
  <2> QED BY <2>1 DEF Created
<1> HIDE DEF j, e
<1>8. \A d \in DOMAIN e.rec : d \in DOMAIN i.rec /\ e.rec[d] = i.rec[d] /\ e.rec[d].seq # s
  BY <1>3, <1>5, <1>6 DEF Lost, Kept
<1>9. \A d \in InState(i, "active") : d \in DOMAIN j.rec /\ j.rec[d] = i.rec[d]
  <2> TAKE d \in InState(i, "active")
  <2>1. d \in DOMAIN i.rec /\ i.rec[d].state = "active" /\ d # c BY <1>0 DEF InState
  <2>2. d \in DOMAIN k.rec /\ k.rec[d] = i.rec[d] BY <2>1, <1>3 DEF Lost
  <2>3. d \notin IdleResident(k) BY <2>1, <2>2 DEF IdleResident, InState
  <2> QED BY <2>2, <2>3, <1>5, <1>7, <1>8 DEF Kept
<1>10. Writers(j, run \cup {s}, rc \cup {s})
  <2>1. \A d \in InState(j, "active") : j.rec[d].seq \in run \cup {s}
    BY <1>2, <1>7, <1>8 DEF Writers, InState
  <2>3. \A x \in run \ rc : \E d \in InState(j, "active") : j.rec[d].seq = x
    <3> TAKE x \in run \ rc
    <3>1. PICK d \in InState(i, "active") : i.rec[d].seq = x BY <1>2 DEF Writers
    <3>2. d \in InState(j, "active") /\ j.rec[d].seq = x BY <3>1, <1>9 DEF InState
    <3> QED BY <3>2
  <2> QED BY <2>1, <2>3 DEF Writers
<1>11. \A d \in DOMAIN j.rec : j.rec[d].seq < next BY <1>1, <1>6, <1>7, <1>8
<1>12. /\ run \cup {s} \subseteq Nat /\ rc \cup {s} \subseteq Nat /\ next \in Nat /\ next >= 1
       /\ \A x \in run \cup {s} : x < next
  BY <1>1, <1>6 DEF EngineOK
<1>13. EngineOK(j, run \cup {s}, next, rc \cup {s}, n + 1, "chain") BY <1>7, <1>10, <1>11, <1>12 DEF EngineOK
<1>14. Created(e, j, n + 1, s) BY <1>7 DEF Created
<1> QED BY <1>3, <1>5, <1>13, <1>14 DEF j, e, k, s

\* j is i without the chain of sequence s.
Undone(i, j, s) ==
  /\ DOMAIN j.rec \subseteq DOMAIN i.rec /\ Known(j) \subseteq Known(i)
  /\ \A d \in DOMAIN j.rec : j.rec[d] = i.rec[d] /\ j.rec[d].seq # s
  /\ \A d \in DOMAIN i.rec : i.rec[d].seq # s => d \in DOMAIN j.rec

\* A request aborted, with its chain if it has one.
LEMMA EngineAbort ==
  ASSUME NEW n \in Nat, NEW i, NEW run, NEW next, NEW rc, NEW md, EngineOK(i, run, next, rc, n, md), NEW s
  PROVE  EngineOK(InvalidateOf(i, s), run \ {s}, next, rc, n, md) /\ Undone(i, InvalidateOf(i, s), s)
<1> DEFINE j == InvalidateOf(i, s)
<1>0. IndexOK(i, n) BY DEF EngineOK
<1>1. CASE ChainsOf(i, s) = {}
  <2>1. j = i BY <1>1 DEF InvalidateOf
  <2>2. \A d \in DOMAIN i.rec : i.rec[d].seq # s BY <1>1 DEF ChainsOf
  <2>3. EngineOK(i, run \ {s}, next, rc, n, md)
    <3>1. ASSUME md = "chain" PROVE Writers(i, run \ {s}, rc)
      BY <2>2, <3>1 DEF EngineOK, Writers, InState
    <3> QED BY <3>1 DEF EngineOK
  <2> HIDE DEF j
  <2>4. EngineOK(j, run \ {s}, next, rc, n, md)
             /\ DOMAIN j.rec \subseteq DOMAIN i.rec /\ Known(j) \subseteq Known(i)
             /\ (\A d \in DOMAIN j.rec : j.rec[d] = i.rec[d] /\ j.rec[d].seq # s)
             /\ \A d \in DOMAIN i.rec : i.rec[d].seq # s => d \in DOMAIN j.rec
    BY <2>1, <2>2, <2>3
  <2> QED BY <2>2, <2>4 DEF j, Undone
<1>2. CASE ChainsOf(i, s) # {}
  <2> DEFINE c == CHOOSE d \in ChainsOf(i, s) : TRUE
  <2>1. c \in DOMAIN i.rec /\ i.rec[c].seq = s BY <1>2 DEF ChainsOf
  <2>2. j = Invalidate(i, c) BY <1>2 DEF InvalidateOf
  <2>3. \A d \in DOMAIN i.rec : i.rec[d].seq = s => d = c BY <1>0, <2>1 DEF IndexOK
  <2> HIDE DEF c
  <2>4. Lost(i, Invalidate(i, c), c) BY <1>0, <2>1, InvalidateLost
  <2>5. EngineOK(Invalidate(i, c), run \ {i.rec[c].seq}, next, rc, n, md) BY <2>1, EngineLoses
  <2> HIDE DEF j
  <2>6. EngineOK(j, run \ {s}, next, rc, n, md) BY <2>1, <2>2, <2>5
  <2>7. /\ DOMAIN j.rec \subseteq DOMAIN i.rec /\ Known(j) \subseteq Known(i)
        /\ \A d \in DOMAIN j.rec : j.rec[d] = i.rec[d] /\ j.rec[d].seq # s
        /\ \A d \in DOMAIN i.rec : i.rec[d].seq # s => d \in DOMAIN j.rec
    BY <2>1, <2>2, <2>4 DEF Lost
  <2> QED BY <2>2, <2>3, <2>6, <2>7 DEF j, Undone
<1> QED BY <1>1, <1>2

\* An idle chain reclaimed.
LEMMA EngineReclaim ==
  ASSUME NEW n \in Nat, NEW i, NEW run, NEW next, NEW rc, NEW md, EngineOK(i, run, next, rc, n, md),
         IdleResident(i) # {}
  PROVE  EngineOK(Reclaimed(i), run, next, rc, n, md) /\ Kept(i, Reclaimed(i))
<1> DEFINE j == Reclaimed(i)
<1>1. IndexOK(j, n) /\ Kept(i, j) BY ReclaimedOK DEF EngineOK
<1> HIDE DEF j
<1>2. md # "radix"
  <2> SUFFICES ASSUME md = "radix" PROVE FALSE OBVIOUS
  <2>1. DOMAIN i.rec = {} BY DEF EngineOK, Known
  <2> QED BY <2>1 DEF IdleResident, InState
<1>3. ASSUME md = "chain" PROVE Writers(j, run, rc)
  <2>1. Writers(i, run, rc) BY <1>3 DEF EngineOK
  <2>2. \A d \in InState(j, "active") : j.rec[d].seq \in run
    BY <1>1, <2>1 DEF Kept, Writers, InState
  <2>3. ASSUME NEW y \in run \ rc PROVE \E d \in InState(j, "active") : j.rec[d].seq = y
    <3>2. PICK d \in InState(i, "active") : i.rec[d].seq = y BY <2>1 DEF Writers
    <3>3. d \notin IdleResident(i) /\ d \in DOMAIN i.rec BY <3>2 DEF IdleResident, InState
    <3>4. d \in InState(j, "active") /\ j.rec[d].seq = y BY <3>2, <3>3, <1>1 DEF InState, Kept
    <3> QED BY <3>4
  <2> QED BY <2>2, <2>3 DEF Writers
<1>4. \A d \in DOMAIN j.rec : j.rec[d].seq < next BY <1>1 DEF EngineOK, Kept
<1>5. EngineOK(j, run, next, rc, n, md) BY <1>1, <1>2, <1>3, <1>4 DEF EngineOK
<1> QED BY <1>1, <1>5 DEF j

\* Requests finished: their chains are idle.
SameChains(i, j) ==
  /\ DOMAIN j.rec = DOMAIN i.rec /\ Known(j) = Known(i)
  /\ \A d \in DOMAIN i.rec : j.rec[d].seq = i.rec[d].seq
ChainsOfAll(i, done) == UNION {ChainsOf(i, s) : s \in done}

\* Finishing requests keeps the engine sound and all its chains.
LEMMA EngineFinish ==
  ASSUME NEW n \in Nat, NEW i, NEW run, NEW next, NEW rc, NEW md, EngineOK(i, run, next, rc, n, md),
         NEW done, done \subseteq run,
         NEW order \in SetToSeqs(ChainsOfAll(i, done))
  PROVE  EngineOK(Idled(i, order), run \ done, next, rc, n, md) /\ SameChains(i, Idled(i, order))
<1> DEFINE j == Idled(i, order)
           C == ChainsOfAll(i, done)
<1>0. IndexOK(i, n) BY DEF EngineOK
<1>1. \A d : d \in C <=> d \in DOMAIN i.rec /\ i.rec[d].seq \in done BY DEF ChainsOf, ChainsOfAll
<1>2. C \subseteq DOMAIN i.rec /\ order \in SetToSeqs(C) BY <1>1
<1> HIDE DEF C
<1>3. /\ IndexOK(j, n) /\ DOMAIN j.rec = DOMAIN i.rec /\ Known(j) = Known(i)
      /\ \A d \in DOMAIN i.rec : j.rec[d].seq = i.rec[d].seq
      /\ \A d \in C : j.rec[d].state = "idle"
      /\ \A d \in DOMAIN i.rec : d \notin C => j.rec[d] = i.rec[d]
  BY <1>0, <1>2, IdledOK
<1> HIDE DEF j
<1>5. ASSUME md = "chain" PROVE Writers(j, run \ done, rc)
  <2>1. Writers(i, run, rc) BY <1>5 DEF EngineOK
  <2>2. \A d \in InState(j, "active") : j.rec[d].seq \in run \ done
    <3> TAKE d \in InState(j, "active")
    <3>1. d \in DOMAIN i.rec /\ j.rec[d].state = "active" BY <1>3 DEF InState
    <3>2. d \notin C BY <3>1, <1>3
    <3>3. d \in InState(i, "active") BY <3>1, <3>2, <1>3 DEF InState
    <3> QED BY <3>1, <3>2, <3>3, <1>1, <1>3, <2>1 DEF Writers
  <2>3. ASSUME NEW y \in (run \ done) \ rc PROVE \E d \in InState(j, "active") : j.rec[d].seq = y
    <3>2. PICK d \in InState(i, "active") : i.rec[d].seq = y BY <2>1 DEF Writers
    <3>3. d \notin C /\ d \in DOMAIN i.rec BY <3>2, <1>1 DEF InState
    <3>4. d \in InState(j, "active") /\ j.rec[d].seq = y BY <3>2, <3>3, <1>3 DEF InState
    <3> QED BY <3>4
  <2> QED BY <2>2, <2>3 DEF Writers
<1>6. \A d \in DOMAIN j.rec : j.rec[d].seq < next BY <1>3 DEF EngineOK
<1>7. EngineOK(j, run \ done, next, rc, n, md) BY <1>3, <1>5, <1>6 DEF EngineOK
<1>8. SameChains(i, j) BY <1>3 DEF SameChains
<1> QED BY <1>7, <1>8 DEF j

-----------------------------------------------------------------------------
(* Agreement after a call                                                  *)

\* The tables t, with the chains T told, agree with the engine of rank r.
Sync(t, T, r, i, run, next, rc) ==
  /\ Linked(t, T, r, i, rc, next) /\ Counted(t, r, rc, run, {}) /\ Owned(t, r) \subseteq Known(i)

\* What a call on rank q does to the tables is nothing to the other ranks.
OthersKept(t, T, u, U, q, n) ==
  \A x \in Ranks : x # q =>
    \A k, run, next, rc : Known(k) \subseteq 1..n /\ Sync(t, T, x, k, run, next, rc) => Sync(u, U, x, k, run, next, rc)

\* Chains of one rank forgotten: the other ranks agree as before.
LEMMA ForgetKeeps ==
  ASSUME NEW T, NEW t, TablesOK(t, T), NEW q \in Ranks, NEW E, E \subseteq Owned(t, q), NEW n
  PROVE  OthersKept(t, T, ForgetChains(t, E), T, q, n)
<1> SUFFICES ASSUME NEW x \in Ranks, x # q, NEW k, NEW run, NEW next, NEW rc, Sync(t, T, x, k, run, next, rc)
             PROVE  Sync(ForgetChains(t, E), T, x, k, run, next, rc)
  BY DEF OthersKept
<1> DEFINE u == ForgetChains(t, E)
<1>1. /\ Owned(u, x) = Owned(t, x)
      /\ \A i, c, m : Linked(t, T, x, i, c, m) => Linked(u, T, x, i, c, m)
      /\ \A c, R, A : Counted(t, x, c, R, A) => Counted(u, x, c, R, A)
  BY SeenOther
<1> HIDE DEF u
<1>2. Sync(u, T, x, k, run, next, rc) BY <1>1 DEF Sync
<1> QED BY <1>2 DEF u

\* A request admitted: e is what is left of the chains before, j the index then.
LEMMA AdmitSync ==
  ASSUME NEW T, NEW t, TablesOK(t, T), t.next <= MaxAdmits, NEW q \in Ranks, NEW n,
         NEW a, a.seq \in Nat, a.chain \in Nat, a.chain \notin 1..n \/ a.chain \in Owned(t, q),
         NEW e, NEW rc, NEW next, NEW j, NEW rd, NEW nxt, NEW run,
         Linked(t, T, q, e, rc, next), Counted(t, q, rc, run, {}),
         (\A s \in run \ rc : \E c \in DOMAIN e.rec : e.rec[c].seq = s) \/ DOMAIN t.chainOwners = {},
         rc \subseteq rd, next \in Nat, nxt \in Nat, next <= nxt, a.seq < nxt,
         Known(j) = Known(e) \cup ({a.chain} \ {NoChain}),
         a.chain \in Owned(t, q) => a.chain \in Known(e) \cup {NoChain},
         \A c \in DOMAIN j.rec : \/ c = a.chain /\ j.rec[c].seq = a.seq /\ a.chain # NoChain
                                 \/ /\ c \in DOMAIN e.rec /\ j.rec[c].seq = e.rec[c].seq
                                    /\ c # a.chain /\ j.rec[c].seq # a.seq,
         \/ Id(q, a.seq) \notin DOMAIN t.globals
         \/ a.chain \in DOMAIN e.rec /\ e.rec[a.chain].seq = a.seq
         \/ a.seq \in rd
  PROVE  LET u == AfterAdmit(ForgetChains(t, Owned(t, q) \ Known(j)), q, a)
             U == T \cup ({a.chain} \ {NoChain})
         IN  /\ TablesOK(u, U) /\ Sync(u, U, q, j, run \cup {a.seq}, nxt, rd)
             /\ OthersKept(t, T, u, U, q, n)
<1> DEFINE f == ForgetChains(t, Owned(t, q) \ Known(j))
           u == AfterAdmit(f, q, a)
           U == T \cup ({a.chain} \ {NoChain})
<1>1. Owned(t, q) \ Known(j) = Owned(t, q) \ Known(e) OBVIOUS
<1>2. /\ Linked(f, T, q, e, rc, next) /\ Owned(f, q) \subseteq Known(e) /\ Counted(f, q, rc, run, {})
  <2> DEFINE h == ForgetChains(t, Owned(t, q) \ Known(e))
  <2>1. /\ Linked(h, T, q, e, rc, next) /\ Owned(h, q) \subseteq Known(e)
        /\ \A R, A : /\ Counted(t, q, rc, R, A)
                     /\ \/ \A s \in R \ rc : \E c \in DOMAIN e.rec : e.rec[c].seq = s
                        \/ DOMAIN t.chainOwners = {}
                     => Counted(h, q, rc, R, A)
    BY SeenSelf
  <2> HIDE DEF h
  <2>2. Counted(h, q, rc, run, {}) BY <2>1
  <2>3. f = h BY <1>1 DEF h
  <2> QED BY <2>1, <2>2, <2>3
<1>3. TablesOK(f, T) /\ Forgotten(t, f, Owned(t, q) \ Known(j)) BY ForgetIs
<1>4. f.next <= MaxAdmits /\ DOMAIN f.globals \subseteq DOMAIN t.globals BY <1>3 DEF Forgotten, Without
<1>5. OthersKept(t, T, f, T, q, n) BY ForgetKeeps
<1> HIDE DEF f
<1>6. TablesOK(u, U) BY <1>3, <1>4, AdmitIs
<1>7. /\ Owned(u, q) \subseteq Known(j) /\ Linked(u, U, q, j, rd, nxt)
      /\ \A R : Counted(f, q, rc, R, {}) => Counted(u, q, rd, R \cup {a.seq}, {})
  BY <1>2, <1>3, <1>4, AdmitSelf
<1>8. Sync(u, U, q, j, run \cup {a.seq}, nxt, rd) BY <1>2, <1>7 DEF Sync
<1>9. OthersKept(t, T, u, U, q, n)
  <2> SUFFICES ASSUME NEW x \in Ranks, x # q, NEW k, NEW ru, NEW nx, NEW rx, Known(k) \subseteq 1..n,
                      Sync(t, T, x, k, ru, nx, rx)
               PROVE  Sync(u, U, x, k, ru, nx, rx)
    BY DEF OthersKept
  <2>1. Sync(f, T, x, k, ru, nx, rx) BY <1>5 DEF OthersKept
  <2>2. a.chain \notin Known(k)
    <3> SUFFICES ASSUME a.chain \in Known(k) PROVE FALSE OBVIOUS
    <3>1. a.chain \in Owned(t, q) OBVIOUS
    <3>2. a.chain \in T BY <3>1 DEF Owned, TablesOK, Placed
    <3>3. a.chain \in Owned(t, x) BY <3>2 DEF Sync, Linked
    <3> QED BY <3>1, <3>3 DEF Owned
  <2>3. /\ Owned(f, x) \subseteq Known(k) => Owned(u, x) \subseteq Known(k)
        /\ \A rr, nn : Linked(f, T, x, k, rr, nn) => Linked(u, U, x, k, rr, nn)
        /\ \A rr, R, A : Counted(f, x, rr, R, A) => Counted(u, x, rr, R, A)
    BY <1>3, <1>4, <2>2, AdmitOther
  <2> QED BY <2>1, <2>3 DEF Sync
<1> QED BY <1>6, <1>8, <1>9 DEF f, u, U

\* A chain less on rank q: the frontend forgets it when its tombstone expires.
LEMMA ForgetSync ==
  ASSUME NEW T, NEW t, TablesOK(t, T), NEW q \in Ranks, NEW n,
         NEW i, NEW rc, NEW next, NEW run, Linked(t, T, q, i, rc, next), Counted(t, q, rc, run, {}), NEW j,
         DOMAIN j.rec \subseteq DOMAIN i.rec, \A c \in DOMAIN j.rec : j.rec[c].seq = i.rec[c].seq,
         Known(j) \subseteq Known(i),
         rc = {} => \/ \A s \in run : \E c \in DOMAIN j.rec : j.rec[c].seq = s
                    \/ DOMAIN t.chainOwners = {}
  PROVE  LET u == ForgetChains(t, Owned(t, q) \ Known(j))
         IN  TablesOK(u, T) /\ Sync(u, T, q, j, run, next, rc) /\ OthersKept(t, T, u, T, q, n)
<1> DEFINE u == ForgetChains(t, Owned(t, q) \ Known(j))
<1>1. Linked(t, T, q, j, rc, next) BY LinkedLess
<1>2. /\ Linked(u, T, q, j, rc, next) /\ Owned(u, q) \subseteq Known(j)
      /\ \A R, A : /\ Counted(t, q, rc, R, A)
                   /\ \/ \A s \in R \ rc : \E c \in DOMAIN j.rec : j.rec[c].seq = s
                      \/ DOMAIN t.chainOwners = {}
                   => Counted(u, q, rc, R, A)
  BY <1>1, SeenSelf
<1>3. TablesOK(u, T) BY ForgetIs
<1>4. OthersKept(t, T, u, T, q, n) BY ForgetKeeps
<1> HIDE DEF u
<1>5. Counted(u, q, rc, run, {})
  <2>1. CASE rc = {} BY <1>2, <2>1
  <2>2. CASE rc # {} BY <2>2 DEF Counted
  <2> QED BY <2>1, <2>2
<1>6. Sync(u, T, q, j, run, next, rc) BY <1>2, <1>5 DEF Sync
<1> QED BY <1>3, <1>4, <1>6 DEF u

\* A request over on rank q, with its chain.
LEMMA AbortSync ==
  ASSUME NEW T, NEW t, TablesOK(t, T), NEW q \in Ranks, NEW n, NEW g \in DOMAIN t.owners, NEW s, t.owners[g] = Id(q, s),
         NEW i, NEW rc, NEW next, NEW run, Sync(t, T, q, i, run, next, rc), NEW j,
         DOMAIN j.rec \subseteq DOMAIN i.rec, \A c \in DOMAIN j.rec : j.rec[c].seq = i.rec[c].seq /\ j.rec[c].seq # s,
         Known(j) \subseteq Known(i),
         \/ \A x \in (run \ {s}) \ rc : \E c \in DOMAIN j.rec : j.rec[c].seq = x
         \/ DOMAIN t.chainOwners = {}
  PROVE  LET u == AfterAbort(ForgetChains(t, Owned(t, q) \ Known(j)), g, q)
         IN  TablesOK(u, T) /\ Sync(u, T, q, j, run \ {s}, next, rc) /\ OthersKept(t, T, u, T, q, n)
<1> DEFINE f == ForgetChains(t, Owned(t, q) \ Known(j))
           u == AfterAbort(f, g, q)
<1>1. Linked(t, T, q, j, rc, next)
  <2>1. \A c \in DOMAIN j.rec : j.rec[c].seq = i.rec[c].seq OBVIOUS
  <2> QED BY <2>1, LinkedLess DEF Sync
<1>2. /\ Linked(f, T, q, j, rc, next) /\ Owned(f, q) \subseteq Known(j)
      /\ \A R, A : /\ Counted(t, q, rc, R, A)
                   /\ \/ \A x \in R \ rc : \E c \in DOMAIN j.rec : j.rec[c].seq = x
                      \/ DOMAIN t.chainOwners = {}
                   => Counted(f, q, rc, R, A)
  BY <1>1, SeenSelf
<1>3. TablesOK(f, T) /\ Forgotten(t, f, Owned(t, q) \ Known(j)) BY ForgetIs
<1>4. OthersKept(t, T, f, T, q, n) BY ForgetKeeps
<1> HIDE DEF f
<1>5. Mirrored(t) BY DEF TablesOK
<1>6. Id(q, s) \in DOMAIN t.globals /\ t.globals[Id(q, s)] = g BY <1>5 DEF Mirrored
<1>7. Counted(t, q, rc, run \ {s}, {g}) BY <1>5, <1>6, CountedLess DEF Sync
<1>8. Counted(f, q, rc, run \ {s}, {g}) BY <1>2, <1>7
<1>9. \A x \in DOMAIN f.globals : f.globals[x] = g => x = Id(q, s)
  BY <1>3, <1>5, <1>6, OneId DEF Forgotten, Without
<1>10. TablesOK(u, T) BY <1>3, AbortIs
<1>11. \A z \in Ranks :
         /\ Owned(u, z) = Owned(f, z)
         /\ \A k, rx, nx : /\ Linked(f, T, z, k, rx, nx)
                           /\ z = q => \A c \in DOMAIN k.rec : k.rec[c].seq # s
                           => Linked(u, T, z, k, rx, nx)
         /\ \A rx, R : z = q /\ Counted(f, z, rx, R, {g}) => Counted(u, z, rx, R, {})
         /\ \A rx, R : z # q /\ Counted(f, z, rx, R, {}) => Counted(u, z, rx, R, {})
  BY <1>3, <1>9, AbortLinks
<1> HIDE DEF u
<1>12. Sync(u, T, q, j, run \ {s}, next, rc)
  <2>1. Linked(u, T, q, j, rc, next) BY <1>2, <1>11
  <2>2. Counted(u, q, rc, run \ {s}, {}) BY <1>8, <1>11
  <2>3. Owned(u, q) \subseteq Known(j) BY <1>2, <1>11
  <2> QED BY <2>1, <2>2, <2>3 DEF Sync
<1>13. OthersKept(t, T, u, T, q, n)
  <2> SUFFICES ASSUME NEW x \in Ranks, x # q, NEW k, NEW ru, NEW nx, NEW rx, Known(k) \subseteq 1..n,
                      Sync(t, T, x, k, ru, nx, rx)
               PROVE  Sync(u, T, x, k, ru, nx, rx)
    BY DEF OthersKept
  <2>1. Sync(f, T, x, k, ru, nx, rx) BY <1>4 DEF OthersKept
  <2>2. Linked(u, T, x, k, rx, nx) BY <1>11, <2>1 DEF Sync
  <2>3. Counted(u, x, rx, ru, {}) BY <1>11, <2>1 DEF Sync
  <2>4. Owned(u, x) \subseteq Known(k) BY <1>11, <2>1 DEF Sync
  <2> QED BY <2>2, <2>3, <2>4 DEF Sync
<1> QED BY <1>10, <1>12, <1>13 DEF f, u

\* After a call on rank q, with u and U, the engine (j, run, next, rc) and all others agree.
Agreed(t, T, u, U, q, n, j, run, next, rc) ==
  TablesOK(u, U) /\ Sync(u, U, q, j, run, next, rc) /\ OthersKept(t, T, u, U, q, n)

\* The tables after the snapshot that goes with index j.
Snapped(t, q, j) == ForgetChains(t, Owned(t, q) \ Known(j))

\* Before: tables and the engine of rank q.
Before(t, T, q, n, i, run, next, rc, md) ==
  /\ TablesOK(t, T) /\ EngineOK(i, run, next, rc, n, md) /\ Sync(t, T, q, i, run, next, rc)
  /\ T \subseteq 1..n /\ (md = "radix" => T = {}) /\ md \in {"chain", "radix"}

\* What agreement before a call says.
LEMMA BeforeIs ==
  ASSUME NEW t, NEW T, NEW q \in Ranks, NEW n \in Nat, NEW i, NEW run, NEW next, NEW rc, NEW md,
         Before(t, T, q, n, i, run, next, rc, md)
  PROVE  /\ Linked(t, T, q, i, rc, next) /\ Counted(t, q, rc, run, {}) /\ Owned(t, q) \subseteq Known(i)
         /\ Id(q, next) \notin DOMAIN t.globals
         /\ 0 \notin 1..n /\ n + 1 \notin 1..n /\ Owned(t, q) \subseteq 1..n /\ Known(i) \subseteq 1..n
         /\ md = "radix" => DOMAIN t.chainOwners = {}
<1>1. Linked(t, T, q, i, rc, next) /\ Counted(t, q, rc, run, {}) /\ Owned(t, q) \subseteq Known(i)
  BY DEF Before, Sync
<1>2. Id(q, next) \notin DOMAIN t.globals
  <2> SUFFICES ASSUME Id(q, next) \in DOMAIN t.globals PROVE FALSE OBVIOUS
  <2>1. Id(q, next).rank = q /\ Id(q, next).seq = next BY IdIs
  <2>2. next < next BY <1>1, <2>1 DEF Linked
  <2>3. next \in Nat BY DEF Before, EngineOK
  <2> QED BY <2>2, <2>3
<1>3. 0 \notin 1..n /\ n + 1 \notin 1..n OBVIOUS
<1>4. DOMAIN t.chainOwners \subseteq T BY DEF Before, TablesOK, Placed
<1>5. Owned(t, q) \subseteq 1..n BY <1>4 DEF Owned, Before
<1>6. Known(i) \subseteq 1..n BY DEF Before, EngineOK, IndexOK, Known
<1> QED BY <1>1, <1>2, <1>3, <1>4, <1>5, <1>6 DEF Before

\* Agreement after an admission in radix mode.
LEMMA RadixAgreed ==
  ASSUME NEW t, NEW T, NEW q \in Ranks, NEW n \in Nat, NEW i, NEW run, NEW next, NEW rc,
         Before(t, T, q, n, i, run, next, rc, "radix"), t.next <= MaxAdmits
  PROVE  LET a == [seq |-> next, chain |-> NoChain]
         IN  Agreed(t, T, AfterAdmit(Snapped(t, q, i), q, a), T, q, n, i, run \cup {next}, next + 1, rc)
<1> DEFINE a == [seq |-> next, chain |-> NoChain]
           u == AfterAdmit(ForgetChains(t, Owned(t, q) \ Known(i)), q, a)
           U == T \cup ({a.chain} \ {NoChain})
<1>1. /\ Linked(t, T, q, i, rc, next) /\ Counted(t, q, rc, run, {})
      /\ Id(q, next) \notin DOMAIN t.globals /\ 0 \notin 1..n /\ DOMAIN t.chainOwners = {}
  BY BeforeIs
<1>2. a.seq = next /\ a.chain = 0 BY DEF NoChain
<1>3. next \in Nat BY DEF Before, EngineOK
<1>4. DOMAIN i.rec = {} BY DEF Before, EngineOK, Known
<1>5. {a.chain} \ {NoChain} = {} /\ U = T BY <1>2 DEF NoChain
<1>6. TablesOK(t, T) BY DEF Before
<1>8. /\ next + 1 \in Nat /\ next <= next + 1 /\ a.seq < next + 1 /\ a.seq \in Nat /\ a.chain \in Nat
      /\ a.chain \notin 1..n \/ a.chain \in Owned(t, q)
      /\ Known(i) = Known(i) \cup ({a.chain} \ {NoChain})
      /\ a.chain \in Owned(t, q) => a.chain \in Known(i) \cup {NoChain}
      /\ Id(q, a.seq) \notin DOMAIN t.globals
  BY <1>1, <1>2, <1>3, <1>5 DEF NoChain
<1> HIDE DEF a
<1>7. TablesOK(u, U) /\ Sync(u, U, q, i, run \cup {a.seq}, next + 1, rc) /\ OthersKept(t, T, u, U, q, n)
  BY <1>1, <1>3, <1>4, <1>6, <1>8, AdmitSync
<1> QED BY <1>2, <1>5, <1>7 DEF Agreed, Snapped, a

\* Agreement after an admission with a new chain.
LEMMA CreateAgreed ==
  ASSUME NEW t, NEW T, NEW q \in Ranks, NEW n \in Nat, NEW i, NEW run, NEW next, NEW rc,
         Before(t, T, q, n, i, run, next, rc, "chain"), t.next <= MaxAdmits, CanAdmit(i)
  PROVE  LET a == [seq |-> next, chain |-> n + 1]
             j == Create(i, n + 1, next)
         IN  Agreed(t, T, AfterAdmit(Snapped(t, q, j), q, a), T \cup {n + 1}, q, n, j, run \cup {next}, next + 1, rc)
<1> DEFINE a == [seq |-> next, chain |-> n + 1]
           e == Evicted(i)
           j == Create(i, n + 1, next)
           u == AfterAdmit(ForgetChains(t, Owned(t, q) \ Known(j)), q, a)
           U == T \cup ({a.chain} \ {NoChain})
<1>1. /\ Linked(t, T, q, i, rc, next) /\ Counted(t, q, rc, run, {})
      /\ Id(q, next) \notin DOMAIN t.globals /\ n + 1 \notin 1..n /\ Owned(t, q) \subseteq 1..n
  BY BeforeIs
<1>2. a.seq = next /\ a.chain = n + 1 OBVIOUS
<1>3. EngineOK(i, run, next, rc, n, "chain") /\ IndexOK(i, n) /\ Writers(i, run, rc) /\ next \in Nat
  BY DEF Before, EngineOK
<1>4. IndexOK(e, n) /\ Kept(i, e) BY <1>3, EvictedOK
<1>5. \A c \in DOMAIN i.rec : i.rec[c].seq \in Nat /\ i.rec[c].seq < next BY <1>3, SeqsBelow
<1>6. /\ DOMAIN j.rec = DOMAIN e.rec \cup {n + 1}
      /\ j.rec[n + 1] = [seq |-> next, state |-> "active"]
      /\ \A c \in DOMAIN e.rec : c # n + 1 /\ j.rec[c] = e.rec[c]
      /\ Known(j) = Known(e) \cup {n + 1}
  <2>1. \A c \in DOMAIN i.rec : i.rec[c].seq # next BY <1>3, <1>5
  <2>2. Created(e, j, n + 1, next) BY <1>3, <2>1, CreateOK
  <2> QED BY <2>2 DEF Created
<1> HIDE DEF j, e
<1>7. {a.chain} \ {NoChain} = {n + 1} /\ U = T \cup {n + 1} BY <1>2 DEF NoChain
<1>8. \A c \in DOMAIN e.rec : c \in DOMAIN i.rec /\ e.rec[c] = i.rec[c] /\ e.rec[c].seq # next
  BY <1>3, <1>4, <1>5 DEF Kept
<1>9. Linked(t, T, q, e, rc, next) BY <1>1, <1>4, LinkedLess DEF Kept
<1>10. \A s \in run \ rc : \E c \in DOMAIN e.rec : e.rec[c].seq = s
  <2> TAKE s \in run \ rc
  <2>1. PICK c \in InState(i, "active") : i.rec[c].seq = s BY <1>3 DEF Writers
  <2>2. c \in DOMAIN i.rec /\ c \notin IdleResident(i) BY <2>1 DEF InState, IdleResident
  <2>3. c \in DOMAIN e.rec /\ e.rec[c].seq = s BY <2>1, <2>2, <1>4 DEF Kept
  <2> QED BY <2>3
<1>11. \A c \in DOMAIN j.rec : \/ c = a.chain /\ j.rec[c].seq = a.seq /\ a.chain # NoChain
                               \/ /\ c \in DOMAIN e.rec /\ j.rec[c].seq = e.rec[c].seq
                                  /\ c # a.chain /\ j.rec[c].seq # a.seq
  BY <1>2, <1>6, <1>8 DEF NoChain
<1>12. TablesOK(t, T) BY DEF Before
<1>13. /\ next + 1 \in Nat /\ next <= next + 1 /\ a.seq < next + 1 /\ a.seq \in Nat /\ a.chain \in Nat
       /\ a.chain \notin 1..n \/ a.chain \in Owned(t, q)
       /\ Known(j) = Known(e) \cup ({a.chain} \ {NoChain})
       /\ a.chain \in Owned(t, q) => a.chain \in Known(e) \cup {NoChain}
       /\ Id(q, a.seq) \notin DOMAIN t.globals
  BY <1>1, <1>2, <1>3, <1>6, <1>7
<1> HIDE DEF a
<1>14. TablesOK(u, U) /\ Sync(u, U, q, j, run \cup {a.seq}, next + 1, rc) /\ OthersKept(t, T, u, U, q, n)
  BY <1>1, <1>3, <1>9, <1>10, <1>11, <1>12, <1>13, AdmitSync
<1> QED BY <1>2, <1>7, <1>14 DEF Agreed, Snapped, a, j

\* Agreement after a chain is resumed.
LEMMA ResumeAgreed ==
  ASSUME NEW t, NEW T, NEW q \in Ranks, NEW n \in Nat, NEW i, NEW run, NEW next, NEW rc,
         Before(t, T, q, n, i, run, next, rc, "chain"), t.next <= MaxAdmits,
         NEW c \in InState(i, "idle"), c \in T
  PROVE  LET a == [seq |-> i.rec[c].seq, chain |-> c]
             j == SetState(i, c, "active")
         IN  Agreed(t, T, AfterAdmit(Snapped(t, q, j), q, a), T, q, n, j, run \cup {i.rec[c].seq}, next, rc)
<1> DEFINE a == [seq |-> i.rec[c].seq, chain |-> c]
           j == SetState(i, c, "active")
           u == AfterAdmit(ForgetChains(t, Owned(t, q) \ Known(j)), q, a)
           U == T \cup ({a.chain} \ {NoChain})
<1>0. c \in DOMAIN i.rec /\ c \in Known(i) BY DEF InState, Known
<1>1. /\ Linked(t, T, q, i, rc, next) /\ Counted(t, q, rc, run, {})
      /\ 0 \notin 1..n /\ Owned(t, q) \subseteq 1..n
  BY BeforeIs
<1>2. a.seq = i.rec[c].seq /\ a.chain = c OBVIOUS
<1>3. EngineOK(i, run, next, rc, n, "chain") /\ IndexOK(i, n) /\ Writers(i, run, rc) /\ next \in Nat /\ T \subseteq 1..n
  BY DEF Before, EngineOK
<1>4. \A d \in DOMAIN i.rec : i.rec[d].seq \in Nat /\ i.rec[d].seq < next BY <1>3, SeqsBelow
<1>5. /\ DOMAIN j.rec = DOMAIN i.rec /\ Known(j) = Known(i)
      /\ \A d \in DOMAIN i.rec : j.rec[d].seq = i.rec[d].seq
  BY <1>0, <1>3, SetStateOK
<1> HIDE DEF j
<1>6. c \in Owned(t, q) BY <1>0, <1>1 DEF Linked
<1>7. c # NoChain /\ c \in Nat BY <1>1, <1>3 DEF NoChain
<1>8. {a.chain} \ {NoChain} = {c} /\ U = T BY <1>2, <1>7
<1>9. \A s \in run \ rc : \E d \in DOMAIN i.rec : i.rec[d].seq = s BY <1>3 DEF Writers, InState
<1>10. \A d \in DOMAIN j.rec : \/ d = a.chain /\ j.rec[d].seq = a.seq /\ a.chain # NoChain
                               \/ /\ d \in DOMAIN i.rec /\ j.rec[d].seq = i.rec[d].seq
                                  /\ d # a.chain /\ j.rec[d].seq # a.seq
  BY <1>0, <1>2, <1>3, <1>5, <1>7 DEF IndexOK
<1>11. TablesOK(t, T) BY DEF Before
<1>12. /\ next <= next /\ a.seq < next /\ a.seq \in Nat /\ a.chain \in Nat
       /\ a.chain \notin 1..n \/ a.chain \in Owned(t, q)
       /\ Known(j) = Known(i) \cup ({a.chain} \ {NoChain})
       /\ a.chain \in Owned(t, q) => a.chain \in Known(i) \cup {NoChain}
       /\ a.chain \in DOMAIN i.rec /\ i.rec[a.chain].seq = a.seq
  BY <1>0, <1>2, <1>3, <1>4, <1>5, <1>6, <1>7, <1>8
<1> HIDE DEF a
<1>13. TablesOK(u, U) /\ Sync(u, U, q, j, run \cup {a.seq}, next, rc) /\ OthersKept(t, T, u, U, q, n)
  BY <1>1, <1>3, <1>9, <1>10, <1>11, <1>12, AdmitSync
<1> QED BY <1>2, <1>8, <1>13 DEF Agreed, Snapped, a, j

\* Agreement after a chain is replaced.
LEMMA ReplaceAgreed ==
  ASSUME NEW t, NEW T, NEW q \in Ranks, NEW n \in Nat, NEW i, NEW run, NEW next, NEW rc,
         Before(t, T, q, n, i, run, next, rc, "chain"), t.next <= MaxAdmits,
         NEW c \in InState(i, "idle")
  PROVE  LET s == i.rec[c].seq
             a == [seq |-> s, chain |-> n + 1]
             j == Create(Invalidate(i, c), n + 1, s)
         IN  Agreed(t, T, AfterAdmit(Snapped(t, q, j), q, a), T \cup {n + 1}, q, n, j, run \cup {s}, next, rc \cup {s})
<1> DEFINE s == i.rec[c].seq
           a == [seq |-> s, chain |-> n + 1]
           k == Invalidate(i, c)
           e == Evicted(k)
           j == Create(k, n + 1, s)
           u == AfterAdmit(ForgetChains(t, Owned(t, q) \ Known(j)), q, a)
           U == T \cup ({a.chain} \ {NoChain})
<1>0. c \in DOMAIN i.rec /\ i.rec[c].state = "idle" BY DEF InState
<1>1. /\ Linked(t, T, q, i, rc, next) /\ Counted(t, q, rc, run, {})
      /\ n + 1 \notin 1..n /\ Owned(t, q) \subseteq 1..n
  BY BeforeIs
<1>2. a.seq = s /\ a.chain = n + 1 OBVIOUS
<1>3. EngineOK(i, run, next, rc, n, "chain") /\ IndexOK(i, n) /\ Writers(i, run, rc) /\ next \in Nat
  BY DEF Before, EngineOK
<1>4. s \in Nat /\ s < next BY <1>0, <1>3, SeqsBelow
<1>5. /\ DOMAIN j.rec = DOMAIN e.rec \cup {n + 1} /\ j.rec[n + 1].seq = s
      /\ \A d \in DOMAIN e.rec : d # n + 1 /\ j.rec[d] = e.rec[d] /\ j.rec[d].seq # s
      /\ Known(j) = Known(e) \cup {n + 1} /\ Lost(i, k, c) /\ Kept(k, e)
  <2>1. Created(e, j, n + 1, s) /\ Lost(i, k, c) /\ Kept(k, e) BY <1>3, EngineReplace
  <2> HIDE DEF j, e, k, s
  <2>2. \A d \in DOMAIN e.rec : e.rec[d].seq # s BY <2>1 DEF Lost, Kept, s
  <2> QED BY <2>1, <2>2 DEF Created
<1> HIDE DEF j, e, k, s
<1>6. {a.chain} \ {NoChain} = {n + 1} /\ U = T \cup {n + 1} BY <1>2 DEF NoChain
<1>7. DOMAIN e.rec \subseteq DOMAIN i.rec /\ (\A d \in DOMAIN e.rec : e.rec[d] = i.rec[d]) /\ Known(e) \subseteq Known(i)
  BY <1>5 DEF Lost, Kept
<1>8. Linked(t, T, q, e, rc, next) BY <1>1, <1>7, LinkedLess
<1>9. \A x \in run \ rc : \E d \in DOMAIN e.rec : e.rec[d].seq = x
  <2> TAKE x \in run \ rc
  <2>1. PICK d \in InState(i, "active") : i.rec[d].seq = x BY <1>3 DEF Writers
  <2>2. d \in DOMAIN i.rec /\ i.rec[d].state = "active" /\ d # c BY <1>0, <2>1 DEF InState
  <2>3. d \in DOMAIN k.rec /\ k.rec[d] = i.rec[d] BY <2>2, <1>5 DEF Lost
  <2>4. d \notin IdleResident(k) BY <2>2, <2>3 DEF IdleResident, InState
  <2>5. d \in DOMAIN e.rec /\ e.rec[d].seq = x BY <2>1, <2>3, <2>4, <1>5, <1>7 DEF Kept
  <2> QED BY <2>5
<1>10. \A d \in DOMAIN j.rec : \/ d = a.chain /\ j.rec[d].seq = a.seq /\ a.chain # NoChain
                               \/ /\ d \in DOMAIN e.rec /\ j.rec[d].seq = e.rec[d].seq
                                  /\ d # a.chain /\ j.rec[d].seq # a.seq
  BY <1>2, <1>5 DEF NoChain
<1>11. TablesOK(t, T) BY DEF Before
<1>12. /\ next <= next /\ a.seq < next /\ a.seq \in Nat /\ a.chain \in Nat
       /\ a.chain \notin 1..n \/ a.chain \in Owned(t, q)
       /\ Known(j) = Known(e) \cup ({a.chain} \ {NoChain})
       /\ a.chain \in Owned(t, q) => a.chain \in Known(e) \cup {NoChain}
       /\ a.seq \in rc \cup {s} /\ rc \subseteq rc \cup {s}
  BY <1>1, <1>2, <1>3, <1>4, <1>5, <1>6
<1> DEFINE rd == rc \cup {s}
<1> HIDE DEF a, rd
<1>13. TablesOK(u, U) /\ Sync(u, U, q, j, run \cup {a.seq}, next, rd) /\ OthersKept(t, T, u, U, q, n)
  <2>1. a.seq \in rd /\ rc \subseteq rd BY <1>12 DEF rd
  <2> QED BY <1>1, <1>3, <1>8, <1>9, <1>10, <1>11, <1>12, <2>1, AdmitSync
<1> QED BY <1>2, <1>6, <1>13 DEF Agreed, Snapped, a, j, k, s, rd

\* Agreement after an abort.
LEMMA AbortAgreed ==
  ASSUME NEW t, NEW T, NEW q \in Ranks, NEW n \in Nat, NEW i, NEW run, NEW next, NEW rc, NEW md,
         Before(t, T, q, n, i, run, next, rc, md), NEW g \in DOMAIN t.owners, NEW s, t.owners[g] = Id(q, s)
  PROVE  LET j == InvalidateOf(i, s)
         IN  Agreed(t, T, AfterAbort(Snapped(t, q, j), g, q), T, q, n, j, run \ {s}, next, rc)
<1> DEFINE j == InvalidateOf(i, s)
           u == AfterAbort(ForgetChains(t, Owned(t, q) \ Known(j)), g, q)
<1>1. md = "radix" => DOMAIN t.chainOwners = {} BY BeforeIs
<1>2. EngineOK(i, run, next, rc, n, md) /\ TablesOK(t, T) /\ Sync(t, T, q, i, run, next, rc) /\ md \in {"chain", "radix"}
  BY DEF Before
<1>3. /\ DOMAIN j.rec \subseteq DOMAIN i.rec /\ Known(j) \subseteq Known(i)
      /\ \A d \in DOMAIN j.rec : j.rec[d] = i.rec[d] /\ j.rec[d].seq # s
      /\ \A d \in DOMAIN i.rec : i.rec[d].seq # s => d \in DOMAIN j.rec
  <2>1. Undone(i, j, s) BY <1>2, EngineAbort
  <2> HIDE DEF j
  <2> QED BY <2>1 DEF Undone
<1> HIDE DEF j
<1>4. ASSUME md = "chain" PROVE \A x \in (run \ {s}) \ rc : \E c \in DOMAIN j.rec : j.rec[c].seq = x
  <2> TAKE x \in (run \ {s}) \ rc
  <2>1. PICK c \in InState(i, "active") : i.rec[c].seq = x BY <1>2, <1>4 DEF EngineOK, Writers
  <2>2. c \in DOMAIN j.rec /\ j.rec[c].seq = x BY <2>1, <1>3 DEF InState
  <2> QED BY <2>2
<1>5. TablesOK(u, T) /\ Sync(u, T, q, j, run \ {s}, next, rc) /\ OthersKept(t, T, u, T, q, n)
  BY <1>1, <1>2, <1>3, <1>4, AbortSync
<1> QED BY <1>5 DEF Agreed, Snapped, j

\* Agreement after a recreated chain is invalidated.
LEMMA LoseAgreed ==
  ASSUME NEW t, NEW T, NEW q \in Ranks, NEW n \in Nat, NEW i, NEW run, NEW next, NEW rc, NEW md,
         Before(t, T, q, n, i, run, next, rc, md), NEW c \in DOMAIN i.rec, i.rec[c].seq \in rc
  PROVE  LET j == Invalidate(i, c)
         IN  Agreed(t, T, Snapped(t, q, j), T, q, n, j, run, next, rc)
<1> DEFINE j == Invalidate(i, c)
           u == ForgetChains(t, Owned(t, q) \ Known(j))
<1>1. IndexOK(i, n) /\ TablesOK(t, T) /\ Linked(t, T, q, i, rc, next) /\ Counted(t, q, rc, run, {})
  BY DEF Before, EngineOK, Sync
<1>2. Lost(i, j, c) BY <1>1, InvalidateLost
<1> HIDE DEF j
<1>3. /\ DOMAIN j.rec \subseteq DOMAIN i.rec /\ Known(j) \subseteq Known(i)
      /\ \A d \in DOMAIN j.rec : j.rec[d].seq = i.rec[d].seq
  BY <1>2 DEF Lost
<1>4. rc # {} OBVIOUS
<1>5. TablesOK(u, T) /\ Sync(u, T, q, j, run, next, rc) /\ OthersKept(t, T, u, T, q, n)
  BY <1>1, <1>3, <1>4, ForgetSync
<1> QED BY <1>5 DEF Agreed, Snapped, j

\* The snapshot that goes with a reply, for the tables.
LEMMA SnapshotKnown ==
  ASSUME NEW t, NEW T, NEW q \in Ranks, NEW n \in Nat, NEW i, NEW j, NEW m \in Nat, IndexOK(i, n), IndexOK(j, m),
         TablesOK(t, T), Owned(t, q) \subseteq Known(i), NEW K,
         Snapshot(j) = Snapshot(i) => K = {}, Snapshot(j) # Snapshot(i) => K = {Known(j)}
  PROVE  AfterSnapshot(t, q, K) = Snapped(t, q, j)
<1>1. CASE Snapshot(j) = Snapshot(i)
  <2>1. InState(j, "active") = InState(i, "active") /\ InState(j, "idle") = InState(i, "idle") /\ Range(j.tomb) = Range(i.tomb)
    BY <1>1 DEF Snapshot
  <2>2. \A k : k \in IndexType => DOMAIN k.rec = InState(k, "active") \cup InState(k, "idle")
    BY RecIs DEF InState
  <2>3. Known(j) = Known(i) BY <2>1, <2>2 DEF Known, IndexOK
  <2>4. Owned(t, q) \ Known(j) = {} BY <2>3
  <2> QED BY <1>1, <2>4, SnapshotIs, ForgetNone DEF Snapped
<1>2. CASE Snapshot(j) # Snapshot(i)
  <2>1. K = {Known(j)} BY <1>2
  <2>2. AfterSnapshot(t, q, {Known(j)}) = ForgetChains(t, Owned(t, q) \ Known(j)) BY SnapshotIs
  <2> QED BY <2>1, <2>2 DEF Snapped
<1> QED BY <1>1, <1>2

\* Agreement after a call that changed nothing.
LEMMA SameAgreed ==
  ASSUME NEW t, NEW T, NEW q \in Ranks, NEW n \in Nat, NEW i, NEW run, NEW next, NEW rc, NEW md,
         Before(t, T, q, n, i, run, next, rc, md)
  PROVE  Snapped(t, q, i) = t /\ Agreed(t, T, t, T, q, n, i, run, next, rc)
<1>1. TablesOK(t, T) /\ Sync(t, T, q, i, run, next, rc) BY DEF Before
<1>2. Owned(t, q) \ Known(i) = {} BY <1>1 DEF Sync
<1>3. Snapped(t, q, i) = t BY <1>1, <1>2, ForgetNone DEF Snapped
<1>4. OthersKept(t, T, t, T, q, n) BY DEF OthersKept
<1> QED BY <1>1, <1>3, <1>4 DEF Agreed

Shape(v) == v = [at |-> v.at, in |-> v.in, out |-> v.out, index |-> v.index, run |-> v.run, next |-> v.next,
                 previous |-> v.previous, recreated |-> v.recreated]

\* v with another engine.
With(v, i, run, next, rc) ==
  [at |-> v.at, in |-> v.in, out |-> v.out, index |-> i, run |-> run, next |-> next,
   previous |-> v.previous, recreated |-> rc]

\* A pipe with one message.
LEMMA OneMessage ==
  \A x : /\ Append(<<>>, x) = <<x>> /\ Head(<<x>>) = x /\ Tail(<<x>>) = <<>> /\ <<x>> # <<>> /\ Len(<<x>>) = 1
OBVIOUS

\* The worker after a reply.
LEMMA ReplyIs ==
  ASSUME NEW v, Shape(v), NEW a, v.in = <<a>>, v.out = <<>>, NEW res
  PROVE  Reply(v, res) =
           [at |-> "free", in |-> <<>>, index |-> v.index, run |-> v.run, next |-> v.next, recreated |-> v.recreated,
            out |-> <<[ok |-> TRUE, result |-> res,
                       known |-> IF Snapshot(v.index) = v.previous THEN {} ELSE {Known(v.index)}]>>,
            previous |-> Snapshot(v.index)]
<1> DEFINE m == [ok |-> TRUE, result |-> res,
                       known |-> IF Snapshot(v.index) = v.previous THEN {} ELSE {Known(v.index)}]
           now == Snapshot(v.index)
<1>1. Reply(v, res) = [v EXCEPT !.in = Tail(v.in), !.at = "free", !.previous = now, !.out = Append(v.out, m)]
  BY DEF Reply
<1>2. Tail(v.in) = <<>> /\ Append(v.out, m) = <<m>> BY OneMessage
<1> HIDE DEF m, now
<1>3. Reply(v, res) = [v EXCEPT !.in = <<>>, !.at = "free", !.previous = now, !.out = <<m>>] BY <1>1, <1>2
<1>4. Reply(v, res) = [at |-> "free", in |-> <<>>, index |-> v.index, run |-> v.run, next |-> v.next, recreated |-> v.recreated,
                       out |-> <<m>>, previous |-> now]
  BY <1>3 DEF Shape
<1> QED BY <1>4 DEF m, now

\* The worker after an exception.
LEMMA RaiseIs ==
  ASSUME NEW v, Shape(v), NEW a, v.in = <<a>>, v.out = <<>>
  PROVE  Raise(v) =
           [at |-> "free", in |-> <<>>, index |-> v.index, run |-> v.run, next |-> v.next, recreated |-> v.recreated,
            out |-> <<[ok |-> FALSE]>>, previous |-> v.previous]
<1> DEFINE m == [ok |-> FALSE]
<1>1. Tail(v.in) = <<>> /\ Append(v.out, m) = <<m>> BY OneMessage
<1> HIDE DEF m
<1>2. Raise(v) = [v EXCEPT !.in = Tail(v.in), !.at = "free", !.out = Append(v.out, m)] BY DEF Raise, m
<1>3. Raise(v) = [v EXCEPT !.in = <<>>, !.at = "free", !.out = <<m>>] BY <1>1, <1>2
<1>4. Raise(v) = [at |-> "free", in |-> <<>>, index |-> v.index, run |-> v.run, next |-> v.next, recreated |-> v.recreated,
                  out |-> <<m>>, previous |-> v.previous]
  BY <1>3 DEF Shape
<1> QED BY <1>4 DEF m

\* A worker with another engine.
LEMMA WithIs ==
  ASSUME NEW v, Shape(v), NEW i, NEW run, NEW next, NEW rc
  PROVE  /\ Shape(With(v, i, run, next, rc))
         /\ [v EXCEPT !.run = run, !.next = next] = With(v, v.index, run, next, v.recreated)
         /\ [v EXCEPT !.index = i, !.run = run, !.next = next] = With(v, i, run, next, v.recreated)
         /\ [v EXCEPT !.index = i, !.run = run] = With(v, i, run, v.next, v.recreated)
         /\ [v EXCEPT !.index = i, !.run = run, !.recreated = rc] = With(v, i, run, v.next, rc)
         /\ [v EXCEPT !.index = i] = With(v, i, v.run, v.next, v.recreated)
         /\ v = With(v, v.index, v.run, v.next, v.recreated)
<1>1. Shape(With(v, i, run, next, rc)) BY DEF Shape, With
<1>2. [v EXCEPT !.run = run, !.next = next] = With(v, v.index, run, next, v.recreated)
  <2> DEFINE x == [v EXCEPT !.run = run, !.next = next]
  <2>1. x = [v EXCEPT !.run = run, !.next = next] OBVIOUS
  <2> HIDE DEF x
  <2>2. x = With(v, v.index, run, next, v.recreated) BY <2>1 DEF Shape, With
  <2> QED BY <2>2 DEF x
<1>3. [v EXCEPT !.index = i, !.run = run, !.next = next] = With(v, i, run, next, v.recreated)
  <2> DEFINE x == [v EXCEPT !.index = i, !.run = run, !.next = next]
  <2>1. x = [v EXCEPT !.index = i, !.run = run, !.next = next] OBVIOUS
  <2> HIDE DEF x
  <2>2. x = With(v, i, run, next, v.recreated) BY <2>1 DEF Shape, With
  <2> QED BY <2>2 DEF x
<1>4. [v EXCEPT !.index = i, !.run = run] = With(v, i, run, v.next, v.recreated)
  <2> DEFINE x == [v EXCEPT !.index = i, !.run = run]
  <2>1. x = [v EXCEPT !.index = i, !.run = run] OBVIOUS
  <2> HIDE DEF x
  <2>2. x = With(v, i, run, v.next, v.recreated) BY <2>1 DEF Shape, With
  <2> QED BY <2>2 DEF x
<1>5. [v EXCEPT !.index = i, !.run = run, !.recreated = rc] = With(v, i, run, v.next, rc)
  <2> DEFINE x == [v EXCEPT !.index = i, !.run = run, !.recreated = rc]
  <2>1. x = [v EXCEPT !.index = i, !.run = run, !.recreated = rc] OBVIOUS
  <2> HIDE DEF x
  <2>2. x = With(v, i, run, v.next, rc) BY <2>1 DEF Shape, With
  <2> QED BY <2>2 DEF x
<1>6. [v EXCEPT !.index = i] = With(v, i, v.run, v.next, v.recreated) BY DEF Shape, With
<1>7. v = With(v, v.index, v.run, v.next, v.recreated) BY DEF Shape, With
<1> QED BY <1>1, <1>2, <1>3, <1>4, <1>5, <1>6, <1>7

\* A worker with another index, run set and counter.
LEMMA WithNext ==
  ASSUME NEW v, Shape(v), NEW i, NEW run, NEW next
  PROVE  [v EXCEPT !.index = i, !.run = run, !.next = next] = With(v, i, run, next, v.recreated)
<1> DEFINE x == [v EXCEPT !.index = i, !.run = run, !.next = next]
<1>1. x = [v EXCEPT !.index = i, !.run = run, !.next = next] OBVIOUS
<1> HIDE DEF x
<1>2. x = With(v, i, run, next, v.recreated) BY <1>1 DEF Shape, With
<1> QED BY <1>2 DEF x

-----------------------------------------------------------------------------
(* Control operations of a worker                                          *)

\* What the frontend does with the reply of rank q to a, and what clients are told then.
Ret(t, a, q, res) ==
  CASE a.op = "admit" -> AfterAdmit(t, q, res)
    [] a.op = "abort" \/ (a.op = "discard" /\ res) -> AfterAbort(t, a.gid, q)
    [] OTHER -> t
ToldBy(T, a, res) == IF a.op = "admit" THEN T \cup ({res.chain} \ {NoChain}) ELSE T

\* A request the frontend may send to rank q.
Request(a, t, T, q, n, md) ==
  /\ a.op = "admit" => /\ a.chain \in T \cup {NoChain} /\ t.next <= MaxAdmits
                       /\ a.fits \in {"extends", "differs", "append differs"}
                       /\ md = "chain" /\ (a.chain = NoChain \/ a.fits = "differs") => n < MaxChains
  /\ a.op \in {"abort", "discard"} => a.gid \in DOMAIN t.owners /\ t.owners[a.gid] = Id(q, a.seq)
  /\ a.op = "invalidate" => ~(a.chain \in DOMAIN t.chainSequences /\ t.chainSequences[a.chain] \in DOMAIN t.owners)

Grown(i, n) == IF n + 1 \in DOMAIN i.rec THEN n + 1 ELSE n

\* y is v after a successful reply, and tables and engines agree once it is read.
Fine(v, y, t, T, q, n, md, a, res, i, run, next, rc) ==
  /\ y = Reply(With(v, i, run, next, rc), res)
  /\ EngineOK(i, run, next, rc, Grown(i, n), md) /\ Grown(i, n) <= MaxChains
  /\ Agreed(t, T, Ret(Snapped(t, q, i), a, q, res), ToldBy(T, a, res), q, n, i, run, next, rc)
  /\ ToldBy(T, a, res) \subseteq 1..Grown(i, n) /\ (md = "radix" => ToldBy(T, a, res) = {})
  /\ a.op = "query" => Snapshot(i) = v.previous

HandledFine(v, y, t, T, q, n, md, a) ==
  y = Raise(v) \/ \E res, i, run, next, rc : Fine(v, y, t, T, q, n, md, a, res, i, run, next, rc)

\* A fine reply is one way to handle a request.
LEMMA FineIs ==
  ASSUME NEW v, NEW y, NEW t, NEW T, NEW q, NEW n, NEW md, NEW a, NEW res, NEW i, NEW run, NEW next, NEW rc,
         Fine(v, y, t, T, q, n, md, a, res, i, run, next, rc)
  PROVE  HandledFine(v, y, t, T, q, n, md, a)
BY DEF HandledFine

\* No chain was created.
LEMMA GrownIs ==
  ASSUME NEW n \in Nat, NEW i, DOMAIN i.rec \subseteq 1..n
  PROVE  Grown(i, n) = n
BY DEF Grown

Serving(v, a, t, T, q, n) ==
  /\ Shape(v) /\ v.in = <<a>> /\ v.out = <<>> /\ v.previous = Snapshot(v.index)
  /\ Before(t, T, q, n, v.index, v.run, v.next, v.recreated, mode) /\ Request(a, t, T, q, n, mode)
  /\ n <= MaxChains

\* LLMEngine.admit_request is handled well.
LEMMA AdmitFine ==
  ASSUME NEW t, NEW T, NEW q \in Ranks, NEW n \in Nat, NEW v, NEW a, Serving(v, a, t, T, q, n), a.op = "admit"
  PROVE  HandledFine(v, Admitted(v, a.chain, a.fits, n + 1), t, T, q, n, mode, a)
<1> DEFINE i == v.index
           c == a.chain
           y == Admitted(v, a.chain, a.fits, n + 1)
<1>0. MaxChains \in Nat /\ n <= MaxChains BY DPEngineAssumption DEF Serving
<1>1. /\ Shape(v) /\ Before(t, T, q, n, i, v.run, v.next, v.recreated, mode) /\ t.next <= MaxAdmits
      /\ c \in T \cup {NoChain} /\ a.fits \in {"extends", "differs", "append differs"}
      /\ mode = "chain" /\ (c = NoChain \/ a.fits = "differs") => n < MaxChains
  BY DEF Serving, Request
<1>2. /\ EngineOK(i, v.run, v.next, v.recreated, n, mode) /\ T \subseteq 1..n /\ (mode = "radix" => T = {})
      /\ mode \in {"chain", "radix"} /\ DOMAIN i.rec \subseteq 1..n /\ v.next \in Nat
  BY <1>1 DEF Before, EngineOK, IndexOK
<1>3. CASE mode = "radix"
  <2> DEFINE res == [seq |-> v.next, chain |-> NoChain]
             z == With(v, i, v.run \cup {v.next}, v.next + 1, v.recreated)
  <2>1. y = Reply(z, res)
    <3>1. [v EXCEPT !.run = v.run \cup {v.next}, !.next = v.next + 1] = z BY <1>1, WithIs, ZenonT(40)
    <3> HIDE DEF z
    <3> QED BY <1>3, <3>1 DEF Admitted
  <2>2. Agreed(t, T, AfterAdmit(Snapped(t, q, i), q, res), T, q, n, i, v.run \cup {v.next}, v.next + 1, v.recreated)
    BY <1>1, <1>3, RadixAgreed
  <2>3. EngineOK(i, v.run \cup {v.next}, v.next + 1, v.recreated, n, mode) BY <1>2, <1>3, EngineRadix
  <2>4. Grown(i, n) = n BY <1>2, GrownIs
  <2>5. ToldBy(T, a, res) = T /\ Ret(Snapped(t, q, i), a, q, res) = AfterAdmit(Snapped(t, q, i), q, res)
    BY DEF ToldBy, Ret
  <2> HIDE DEF res, z, y, i
  <2>6. Fine(v, y, t, T, q, n, mode, a, res, i, v.run \cup {v.next}, v.next + 1, v.recreated)
    BY <1>0, <1>2, <1>3, <2>1, <2>2, <2>3, <2>4, <2>5 DEF Fine, z
  <2> QED BY <2>6, FineIs DEF y
<1>4. CASE mode = "chain" /\ c = NoChain
  <2>0. CASE ~CanAdmit(i)
    <3>1. y = Raise(v) BY <1>4, <2>0 DEF Admitted
    <3> QED BY <3>1 DEF HandledFine
  <2>a. CASE CanAdmit(i)
    <3> DEFINE res == [seq |-> v.next, chain |-> n + 1]
               j == Create(i, n + 1, v.next)
               z == With(v, j, v.run \cup {v.next}, v.next + 1, v.recreated)
    <3>1. y = Reply(z, res)
      <4>1. [v EXCEPT !.index = j, !.run = v.run \cup {v.next}, !.next = v.next + 1] = z
        <5> DEFINE R == v.run \cup {v.next}
                   N == v.next + 1
        <5> HIDE DEF j, R, N
        <5>1. [v EXCEPT !.index = j, !.run = R, !.next = N] = With(v, j, R, N, v.recreated) BY <1>1, WithNext
        <5> QED BY <5>1 DEF R, N
      <4> HIDE DEF z
      <4> QED BY <1>4, <2>a, <4>1 DEF Admitted
    <3>2. Agreed(t, T, AfterAdmit(Snapped(t, q, j), q, res), T \cup {n + 1}, q, n, j, v.run \cup {v.next}, v.next + 1, v.recreated)
      BY <1>1, <1>4, <2>a, CreateAgreed
    <3>3. EngineOK(j, v.run \cup {v.next}, v.next + 1, v.recreated, n + 1, mode) BY <1>2, <1>4, <2>a, EngineCreate
    <3>4. n + 1 \in DOMAIN j.rec
      <4>0. IndexOK(i, n) BY <1>2 DEF EngineOK
      <4>1. \A d \in DOMAIN i.rec : i.rec[d].seq \in Nat /\ i.rec[d].seq < v.next BY <1>2, SeqsBelow
      <4>2. \A d \in DOMAIN i.rec : i.rec[d].seq # v.next BY <1>2, <4>1
      <4>3. Created(Evicted(i), j, n + 1, v.next) BY <1>2, <2>a, <4>0, <4>2, CreateOK
      <4> QED BY <4>3 DEF Created
    <3>5. ToldBy(T, a, res) = T \cup {n + 1} /\ Ret(Snapped(t, q, j), a, q, res) = AfterAdmit(Snapped(t, q, j), q, res)
      <4>1. res.chain = n + 1 /\ {n + 1} \ {NoChain} = {n + 1} BY DEF NoChain
      <4> HIDE DEF res, j
      <4> QED BY <4>1 DEF ToldBy, Ret
    <3> HIDE DEF res, z, y, i, j
    <3>6. Grown(j, n) = n + 1 /\ n + 1 <= MaxChains
      <4>1. n < MaxChains BY <1>1, <1>4
      <4> QED BY <1>0, <3>4, <4>1 DEF Grown
    <3>7. T \cup {n + 1} \subseteq 1..(n + 1) BY <1>2
    <3>8. Fine(v, y, t, T, q, n, mode, a, res, j, v.run \cup {v.next}, v.next + 1, v.recreated)
      BY <1>4, <3>1, <3>2, <3>3, <3>5, <3>6, <3>7 DEF Fine, z
    <3> QED BY <3>8, FineIs DEF y
  <2> QED BY <2>0, <2>a
<1>5. CASE mode = "chain" /\ c # NoChain
  <2>0. CASE c \notin InState(i, "idle") \/ a.fits = "append differs"
    <3>1. y = Raise(v) BY <1>5, <2>0 DEF Admitted
    <3> QED BY <3>1 DEF HandledFine
  <2>a. CASE c \in InState(i, "idle") /\ a.fits = "extends"
    <3> DEFINE s == i.rec[c].seq
               res == [seq |-> s, chain |-> c]
               j == SetState(i, c, "active")
               z == With(v, j, v.run \cup {s}, v.next, v.recreated)
    <3>1. y = Reply(z, res)
      <4>1. [v EXCEPT !.index = j, !.run = v.run \cup {s}] = z
        <5> HIDE DEF j, s
        <5> QED BY <1>1, WithIs, ZenonT(40)
      <4> HIDE DEF z
      <4> QED BY <1>5, <2>a, <4>1 DEF Admitted
    <3>2. c \in T BY <1>1, <1>5
    <3>3. Agreed(t, T, AfterAdmit(Snapped(t, q, j), q, res), T, q, n, j, v.run \cup {s}, v.next, v.recreated)
      BY <1>1, <1>5, <2>a, <3>2, ResumeAgreed
    <3>4. EngineOK(j, v.run \cup {s}, v.next, v.recreated, n, mode) BY <1>2, <1>5, <2>a, EngineResume
    <3>5. ToldBy(T, a, res) = T /\ Ret(Snapped(t, q, j), a, q, res) = AfterAdmit(Snapped(t, q, j), q, res)
      BY <3>2 DEF ToldBy, Ret
    <3> HIDE DEF res, z, y, i, j, s
    <3>6. Grown(j, n) = n BY <3>4, GrownIs DEF EngineOK, IndexOK
    <3>7. Fine(v, y, t, T, q, n, mode, a, res, j, v.run \cup {s}, v.next, v.recreated)
      BY <1>0, <1>2, <1>5, <3>1, <3>3, <3>4, <3>5, <3>6 DEF Fine, z
    <3> QED BY <3>7, FineIs DEF y
  <2>b. CASE c \in InState(i, "idle") /\ a.fits = "differs"
    <3> DEFINE s == i.rec[c].seq
               res == [seq |-> s, chain |-> n + 1]
               j == Create(Invalidate(i, c), n + 1, s)
               z == With(v, j, v.run \cup {s}, v.next, v.recreated \cup {s})
    <3>1. y = Reply(z, res)
      <4>1. [v EXCEPT !.index = j, !.run = v.run \cup {s}, !.recreated = v.recreated \cup {s}] = z
        <5> DEFINE R == v.run \cup {s}
                   D == v.recreated \cup {s}
        <5> HIDE DEF j, R, D
        <5> DEFINE x == [v EXCEPT !.index = j, !.run = R, !.recreated = D]
        <5>1. x = [v EXCEPT !.index = j, !.run = R, !.recreated = D] OBVIOUS
        <5> HIDE DEF x
        <5>2. x = With(v, j, R, v.next, D) BY <1>1, <5>1 DEF Shape, With
        <5> QED BY <5>2 DEF R, D, x
      <4> HIDE DEF z
      <4> QED BY <1>5, <2>b, <4>1 DEF Admitted
    <3>3. Agreed(t, T, AfterAdmit(Snapped(t, q, j), q, res), T \cup {n + 1}, q, n, j, v.run \cup {s}, v.next, v.recreated \cup {s})
      BY <1>1, <1>5, <2>b, ReplaceAgreed
    <3>4. EngineOK(j, v.run \cup {s}, v.next, v.recreated \cup {s}, n + 1, mode)
          /\ Created(Evicted(Invalidate(i, c)), j, n + 1, s)
      BY <1>2, <1>5, <2>b, EngineReplace
    <3>5. ToldBy(T, a, res) = T \cup {n + 1} /\ Ret(Snapped(t, q, j), a, q, res) = AfterAdmit(Snapped(t, q, j), q, res)
      <4>1. res.chain = n + 1 /\ {n + 1} \ {NoChain} = {n + 1} BY DEF NoChain
      <4> HIDE DEF res, j
      <4> QED BY <4>1 DEF ToldBy, Ret
    <3> HIDE DEF res, z, y, i, j, s
    <3>6. n + 1 \in DOMAIN j.rec BY <3>4 DEF Created
    <3>7. Grown(j, n) = n + 1 /\ n + 1 <= MaxChains BY <1>0, <1>1, <1>5, <2>b, <3>6 DEF Grown
    <3>8. T \cup {n + 1} \subseteq 1..(n + 1) BY <1>2
    <3>9. Fine(v, y, t, T, q, n, mode, a, res, j, v.run \cup {s}, v.next, v.recreated \cup {s})
      BY <1>5, <3>1, <3>3, <3>4, <3>5, <3>7, <3>8 DEF Fine, z
    <3> QED BY <3>9, FineIs DEF y
  <2> QED BY <1>1, <2>0, <2>a, <2>b
<1> QED BY <1>2, <1>3, <1>4, <1>5

\* What serving a request says.
LEMMA ServingIs ==
  ASSUME NEW t, NEW T, NEW q \in Ranks, NEW n \in Nat, NEW v, NEW a, Serving(v, a, t, T, q, n)
  PROVE  /\ Shape(v) /\ v.previous = Snapshot(v.index) /\ v.in = <<a>> /\ v.out = <<>>
         /\ Before(t, T, q, n, v.index, v.run, v.next, v.recreated, mode) /\ Request(a, t, T, q, n, mode)
         /\ EngineOK(v.index, v.run, v.next, v.recreated, n, mode)
         /\ T \subseteq 1..n /\ (mode = "radix" => T = {}) /\ DOMAIN v.index.rec \subseteq 1..n /\ n <= MaxChains
BY DEF Serving, Before, EngineOK, IndexOK

\* The chain of a sequence is the only one.
LEMMA InvalidateOfIs ==
  ASSUME NEW n, NEW i, IndexOK(i, n), NEW c \in DOMAIN i.rec
  PROVE  InvalidateOf(i, i.rec[c].seq) = Invalidate(i, c)
<1>1. ChainsOf(i, i.rec[c].seq) = {c} BY DEF ChainsOf, IndexOK
<1> QED BY <1>1 DEF InvalidateOf

\* A worker with another index and run set.
LEMMA WithRun ==
  ASSUME NEW v, Shape(v), NEW i, NEW run
  PROVE  [v EXCEPT !.run = run, !.index = i] = With(v, i, run, v.next, v.recreated)
<1> DEFINE x == [v EXCEPT !.run = run, !.index = i]
<1>1. x = [v EXCEPT !.run = run, !.index = i] OBVIOUS
<1> HIDE DEF x
<1>2. x = With(v, i, run, v.next, v.recreated) BY <1>1 DEF Shape, With
<1> QED BY <1>2 DEF x

\* An answer that changes nothing.
LEMMA SameFine ==
  ASSUME NEW t, NEW T, NEW q \in Ranks, NEW n \in Nat, NEW v, NEW a, Serving(v, a, t, T, q, n), a.op # "admit",
         NEW res, Ret(t, a, q, res) = t
  PROVE  HandledFine(v, Reply(v, res), t, T, q, n, mode, a)
<1> DEFINE i == v.index
<1>0. v.previous = Snapshot(i) BY DEF Serving
<1>1. /\ Shape(v) /\ Before(t, T, q, n, i, v.run, v.next, v.recreated, mode)
      /\ EngineOK(i, v.run, v.next, v.recreated, n, mode)
      /\ T \subseteq 1..n /\ (mode = "radix" => T = {}) /\ DOMAIN i.rec \subseteq 1..n /\ n <= MaxChains
  BY ServingIs
<1>2. v = With(v, i, v.run, v.next, v.recreated) BY <1>1, WithIs
<1>3. Snapped(t, q, i) = t /\ Agreed(t, T, t, T, q, n, i, v.run, v.next, v.recreated) BY <1>1, SameAgreed
<1>4. Grown(i, n) = n BY <1>1, GrownIs
<1>5. ToldBy(T, a, res) = T BY DEF ToldBy
<1> HIDE DEF i
<1>6. Fine(v, Reply(v, res), t, T, q, n, mode, a, res, i, v.run, v.next, v.recreated)
  BY <1>0, <1>1, <1>2, <1>3, <1>4, <1>5 DEF Fine
<1> QED BY <1>6, FineIs

\* abort_request and discard_chain are handled well.
LEMMA AbortFine ==
  ASSUME NEW t, NEW T, NEW q \in Ranks, NEW n \in Nat, NEW v, NEW a, Serving(v, a, t, T, q, n),
         a.op \in {"abort", "discard"}, NEW res, a.op = "abort" \/ res = TRUE
  PROVE  LET y == Reply(With(v, InvalidateOf(v.index, a.seq), v.run \ {a.seq}, v.next, v.recreated), res)
         IN  HandledFine(v, y, t, T, q, n, mode, a)
<1> DEFINE i == v.index
           s == a.seq
           j == InvalidateOf(i, s)
           y == Reply(With(v, j, v.run \ {s}, v.next, v.recreated), res)
<1>1. /\ Before(t, T, q, n, i, v.run, v.next, v.recreated, mode) /\ Request(a, t, T, q, n, mode)
      /\ EngineOK(i, v.run, v.next, v.recreated, n, mode)
      /\ T \subseteq 1..n /\ (mode = "radix" => T = {}) /\ DOMAIN i.rec \subseteq 1..n /\ n <= MaxChains
  BY ServingIs
<1>2. a.gid \in DOMAIN t.owners /\ t.owners[a.gid] = Id(q, s) BY <1>1 DEF Request
<1>3. Agreed(t, T, AfterAbort(Snapped(t, q, j), a.gid, q), T, q, n, j, v.run \ {s}, v.next, v.recreated)
  BY <1>1, <1>2, AbortAgreed
<1>4. EngineOK(j, v.run \ {s}, v.next, v.recreated, n, mode) BY <1>1, EngineAbort
<1> HIDE DEF j
<1>5. Grown(j, n) = n BY <1>4, GrownIs DEF EngineOK, IndexOK
<1>6. ToldBy(T, a, res) = T /\ Ret(Snapped(t, q, j), a, q, res) = AfterAbort(Snapped(t, q, j), a.gid, q)
  BY DEF ToldBy, Ret
<1> HIDE DEF i, y
<1>7. Fine(v, y, t, T, q, n, mode, a, res, j, v.run \ {s}, v.next, v.recreated)
  BY <1>1, <1>3, <1>4, <1>5, <1>6 DEF Fine, y
<1>8. HandledFine(v, y, t, T, q, n, mode, a) BY <1>7, FineIs
<1> QED BY <1>8 DEF y, j, i

\* invalidate_chain is handled well.
LEMMA InvalidateFine ==
  ASSUME NEW t, NEW T, NEW q \in Ranks, NEW n \in Nat, NEW v, NEW a, Serving(v, a, t, T, q, n),
         a.op = "invalidate"
  PROVE  HandledFine(v, Invalidated(v, a.chain), t, T, q, n, mode, a)
<1> DEFINE i == v.index
           c == a.chain
           j == Invalidate(i, c)
           y == Invalidated(v, c)
<1>1. /\ Shape(v) /\ Before(t, T, q, n, i, v.run, v.next, v.recreated, mode) /\ Request(a, t, T, q, n, mode)
      /\ EngineOK(i, v.run, v.next, v.recreated, n, mode)
      /\ T \subseteq 1..n /\ (mode = "radix" => T = {}) /\ DOMAIN i.rec \subseteq 1..n /\ n <= MaxChains
  BY ServingIs
<1>2. CASE c \notin DOMAIN i.rec
  <2>1. y = Raise(v) BY <1>2 DEF Invalidated
  <2> QED BY <2>1 DEF HandledFine
<1>3. CASE c \in DOMAIN i.rec
  <2> DEFINE s == i.rec[c].seq
  <2>1. s \in v.recreated
    <3> SUFFICES ASSUME s \notin v.recreated PROVE FALSE OBVIOUS
    <3>1. Linked(t, T, q, i, v.recreated, v.next) /\ Mirrored(t) BY <1>1 DEF Before, Sync, TablesOK
    <3>2. Identified(t, q, c, s) BY <1>3, <3>1 DEF Linked
    <3>3. c \in DOMAIN t.chainSequences /\ t.chainSequences[c] \in DOMAIN t.owners
      BY <3>1, <3>2 DEF Identified, Mirrored
    <3> QED BY <1>1, <3>3 DEF Request
  <2>2. Agreed(t, T, Snapped(t, q, j), T, q, n, j, v.run, v.next, v.recreated) BY <1>1, <1>3, <2>1, LoseAgreed
  <2>3. EngineOK(j, v.run, v.next, v.recreated, n, mode)
    <3>1. s \in v.recreated \cup (Nat \ v.run) BY <2>1
    <3> QED BY <1>1, <1>3, <3>1, EngineLoses
  <2>4. y = Reply(With(v, j, v.run, v.next, v.recreated), 0)
    <3>1. y = Reply([v EXCEPT !.index = j], 0) BY <1>3 DEF Invalidated
    <3> HIDE DEF j, y
    <3>2. [v EXCEPT !.index = j] = With(v, j, v.run, v.next, v.recreated) BY <1>1, WithIs
    <3> QED BY <3>1, <3>2
  <2> HIDE DEF j
  <2>5. Grown(j, n) = n BY <2>3, GrownIs DEF EngineOK, IndexOK
  <2>6. ToldBy(T, a, 0) = T /\ Ret(Snapped(t, q, j), a, q, 0) = Snapped(t, q, j) BY DEF ToldBy, Ret
  <2> HIDE DEF i, y
  <2>7. Fine(v, y, t, T, q, n, mode, a, 0, j, v.run, v.next, v.recreated)
    BY <1>1, <2>2, <2>3, <2>4, <2>5, <2>6 DEF Fine
  <2> QED BY <2>7, FineIs DEF y
<1> QED BY <1>2, <1>3

\* Every control operation.
LEMMA HandledIsFine ==
  ASSUME NEW t, NEW T, NEW q \in Ranks, NEW n \in Nat, NEW v, NEW a, Serving(v, a, t, T, q, n), a.op \in Control
  PROVE  HandledFine(v, Handled(v, n + 1), t, T, q, n, mode, a)
<1>1. Shape(v) /\ v.in = <<a>> BY ServingIs
<1>2. Head(v.in) = a BY <1>1, OneMessage
<1>3. CASE a.op = "admit"
  <2>1. Handled(v, n + 1) = Admitted(v, a.chain, a.fits, n + 1) BY <1>2, <1>3 DEF Handled
  <2> QED BY <1>3, <2>1, AdmitFine
<1>4. CASE a.op = "abort"
  <2> DEFINE j == InvalidateOf(v.index, a.seq)
             R == v.run \ {a.seq}
  <2>1. Handled(v, n + 1) = Aborted(v, a.seq) BY <1>2, <1>4 DEF Handled
  <2>2. Aborted(v, a.seq) = Reply([v EXCEPT !.run = R, !.index = j], 0) BY DEF Aborted
  <2>3. HandledFine(v, Reply(With(v, j, R, v.next, v.recreated), 0), t, T, q, n, mode, a) BY <1>4, AbortFine
  <2> HIDE DEF j, R
  <2>4. [v EXCEPT !.run = R, !.index = j] = With(v, j, R, v.next, v.recreated) BY <1>1, WithRun
  <2> QED BY <2>1, <2>2, <2>3, <2>4
<1>5. CASE a.op = "discard"
  <2>1. Handled(v, n + 1) = Discarded(v, a.chain, a.seq) BY <1>2, <1>5 DEF Handled
  <2>2. CASE a.chain \notin DOMAIN v.index.rec
    <3>1. Discarded(v, a.chain, a.seq) = Reply(v, FALSE) BY <2>2 DEF Discarded
    <3>2. Ret(t, a, q, FALSE) = t BY <1>5 DEF Ret
    <3> QED BY <1>5, <2>1, <3>1, <3>2, SameFine
  <2>3. CASE a.chain \in DOMAIN v.index.rec /\ v.index.rec[a.chain].seq # a.seq
    <3>1. Discarded(v, a.chain, a.seq) = Raise(v) BY <2>3 DEF Discarded
    <3> QED BY <2>1, <3>1 DEF HandledFine
  <2>4. CASE a.chain \in DOMAIN v.index.rec /\ v.index.rec[a.chain].seq = a.seq
    <3> DEFINE j == InvalidateOf(v.index, a.seq)
               R == v.run \ {a.seq}
    <3>1. j = Invalidate(v.index, a.chain)
      <4>1. EngineOK(v.index, v.run, v.next, v.recreated, n, mode) BY ServingIs
      <4>2. IndexOK(v.index, n) BY <4>1 DEF EngineOK
      <4> QED BY <2>4, <4>2, InvalidateOfIs
    <3>2. Discarded(v, a.chain, a.seq) = Reply([v EXCEPT !.run = R, !.index = j], TRUE)
      <4> HIDE DEF j
      <4> QED BY <2>4, <3>1 DEF Discarded
    <3>3. HandledFine(v, Reply(With(v, j, R, v.next, v.recreated), TRUE), t, T, q, n, mode, a) BY <1>5, AbortFine
    <3> HIDE DEF j, R
    <3>4. [v EXCEPT !.run = R, !.index = j] = With(v, j, R, v.next, v.recreated) BY <1>1, WithRun
    <3> QED BY <2>1, <3>2, <3>3, <3>4
  <2> QED BY <2>2, <2>3, <2>4
<1>6. CASE a.op = "invalidate"
  <2>1. Handled(v, n + 1) = Invalidated(v, a.chain) BY <1>2, <1>6 DEF Handled
  <2> QED BY <1>6, <2>1, InvalidateFine
<1>7. CASE a.op = "query"
  <2>1. Handled(v, n + 1) = Reply(v, 0) BY <1>2, <1>7 DEF Handled
  <2>2. Ret(t, a, q, 0) = t BY <1>7 DEF Ret
  <2> QED BY <1>7, <2>1, <2>2, SameFine
<1> QED BY <1>3, <1>4, <1>5, <1>6, <1>7 DEF Control

-----------------------------------------------------------------------------
(* The inductive invariant                                                 *)

Ats == {"free", "in", "out", "dead"}
Worker(v, n, md) ==
  Shape(v) /\ v.at \in Ats /\ EngineOK(v.index, v.run, v.next, v.recreated, n, md)

\* Tables, engines and counters are sound by themselves.
Frame ==
  /\ TablesOK(p, told) /\ told \subseteq 1..chains /\ mode \in {"chain", "radix"} /\ (mode = "radix" => told = {})
  /\ chains \in Nat /\ chains <= MaxChains /\ faults \in Nat /\ faults <= MaxFaults /\ failed \in BOOLEAN
  /\ w = [q \in Ranks |-> w[q]] /\ \A q \in Ranks : Worker(w[q], chains, mode)

\* The states of a worker's pipe.
Idle(v) == v.at \in {"free", "dead"} /\ v.in = <<>> /\ v.out = <<>>
Unanswered(v, a) ==
  /\ v.in = <<a>> /\ v.out = <<>>
  /\ v.at = "free" \/ (a.op = "step" /\ v.at \in {"in", "out"})
Answered(v, m) == v.at \in {"free", "dead"} /\ v.in = <<>> /\ v.out = <<m>> /\ m.ok \in BOOLEAN
Silent(v) == v.at = "dead" /\ Idle(v)

Synced(t, T, r, v) == Sync(t, T, r, v.index, v.run, v.next, v.recreated) /\ v.previous = Snapshot(v.index)
AllSynced(t, T, f) == \A x \in Ranks : f[x].at # "dead" => Synced(t, T, x, f[x])

\* Once the reply res of rank r is taken in, all agree.
Settles(t, r, res) ==
  LET u == Ret(t, call.args, r, res)
      T == ToldBy(told, call.args, res)
  IN  TablesOK(u, T) /\ T \subseteq 1..chains /\ (mode = "radix" => T = {}) /\ AllSynced(u, T, w)

CallShape ==
  /\ call = [op |-> call.op, args |-> call.args, pending |-> call.pending, got |-> call.got, error |-> call.error]
  /\ call.op = call.args.op /\ call.pending \subseteq Ranks /\ call.error \in BOOLEAN

\* A call to one rank: not answered, answered, or read.
Single == {"admit", "abort", "discard", "invalidate"}
Asked(r) ==
  /\ call.pending = {r} /\ call.error = FALSE /\ DOMAIN call.got = {}
  /\ \/ Unanswered(w[r], call.args) /\ AllSynced(p, told, w) /\ Request(call.args, p, told, r, chains, mode)
     \/ Silent(w[r]) /\ AllSynced(p, told, w)
     \/ \E m : Answered(w[r], m) /\ m.ok = FALSE /\ AllSynced(p, told, w)
     \/ \E m : Answered(w[r], m) /\ m.ok = TRUE /\ Settles(AfterSnapshot(p, r, m.known), r, m.result)
Refused == call.pending = {} /\ call.error = TRUE /\ AllSynced(p, told, w)
Told(r) == call.pending = {} /\ call.error = FALSE /\ DOMAIN call.got = {r} /\ Settles(p, r, call.got[r])
SingleCall ==
  /\ call.args.op \in Single /\ \E r \in Ranks : Asked(r) \/ Refused \/ Told(r)
  /\ \A q \in Ranks : q \notin call.pending => Idle(w[q])

\* A query changes nothing.
QueryCall ==
  /\ call.args.op = "query" /\ AllSynced(p, told, w)
  /\ \A q \in Ranks :
       IF q \in call.pending
       THEN \/ Unanswered(w[q], call.args)
            \/ Silent(w[q])
            \/ \E m : Answered(w[q], m) /\ (m.ok = TRUE => m.known = {})
       ELSE Idle(w[q])

\* A step on one rank: under way; answered; read.  The frontend still counts
\* what is done as active.
PrevKnown(v) == v.previous.active \cup v.previous.idle \cup v.previous.tomb
Going(t, T, q, v) ==
  /\ Linked(t, T, q, v.index, v.recreated, v.next) /\ Counted(t, q, v.recreated, v.run, {})
  /\ Owned(t, q) \subseteq PrevKnown(v)
Resident(v, R) == \A s \in R \ v.recreated : \E c \in DOMAIN v.index.rec : v.index.rec[c].seq = s
Finished(t, T, q, v, res) ==
  /\ Linked(t, T, q, v.index, v.recreated, v.next) /\ Counted(t, q, v.recreated, v.run \cup res.done, {})
  /\ v.run \cap res.done = {} /\ v.previous = Snapshot(v.index)
Replied(t, T, md, q, v, m) ==
  /\ m.result.done \subseteq m.result.rows
  /\ v.at # "dead" => /\ Finished(t, T, q, v, m.result) /\ (md = "chain" => Resident(v, v.run \cup m.result.done))
                      /\ \/ m.known = {Known(v.index)}
                         \/ m.known = {} /\ Owned(t, q) \subseteq Known(v.index)
Read(t, T, q, v, res) ==
  /\ res.done \subseteq res.rows
  /\ v.at # "dead" => Finished(t, T, q, v, res) /\ Owned(t, q) \subseteq Known(v.index)
Part(c, t, T, md, f, q, v) ==
  IF q \in c.pending
  THEN \/ Unanswered(v, c.args) /\ Going(t, T, q, v)
       \/ Silent(v)
       \/ \E m : Answered(v, m) /\ (IF m.ok THEN Replied(t, T, md, q, v, m) ELSE f > 0)
  ELSE Idle(v) /\ Read(t, T, q, v, c.got[q])

\* Without a fault the ranks are all before the collective or all past it.
Collective ==
  faults = 0 => \/ \A q \in Ranks : q \in call.pending /\ Unanswered(w[q], call.args) /\ w[q].at \in {"free", "in"}
                \/ \A q \in Ranks : w[q].at = "out" \/ w[q].in = <<>>

StepCall ==
  /\ call.args.op = "step" /\ call.error = FALSE /\ DOMAIN call.got = Ranks \ call.pending /\ Collective
  /\ \A q \in Ranks : Part(call, p, told, mode, faults, q, w[q])

\* The phases of the frontend.
Closed == p.closed = TRUE /\ call.op = "none" /\ \A q \in Ranks : Silent(w[q])
Piped(v) == \/ Idle(v)
            \/ \E a : a.op \in {"step", "query"} /\ Unanswered(v, a)
            \/ \E m : Answered(v, m)
Stranded == p.closed = FALSE /\ failed = TRUE /\ call.op = "none" /\ \A q \in Ranks : Piped(w[q])
Between == p.closed = FALSE /\ failed = FALSE /\ call.op = "none" /\ AllSynced(p, told, w) /\ \A q \in Ranks : Idle(w[q])
During == p.closed = FALSE /\ failed = FALSE /\ CallShape /\ (SingleCall \/ QueryCall \/ StepCall)

\* Only a fault ends a worker.
Healthy == p.closed = FALSE /\ faults = 0 => \A q \in Ranks : w[q].at # "dead"

Inv == Frame /\ Healthy /\ (Closed \/ Stranded \/ Between \/ During)

\* One worker changes.
LEMMA OneWorker ==
  ASSUME NEW f, f = [x \in Ranks |-> f[x]], NEW q \in Ranks, NEW y, NEW g, g = [f EXCEPT ![q] = y]
  PROVE  g = [x \in Ranks |-> g[x]] /\ g[q] = y /\ \A x \in Ranks : x # q => g[x] = f[x]
OBVIOUS

\* The invariant holds at the start.
LEMMA InitInv == ASSUME Init PROVE Inv
<1> DEFINE v0 == [at |-> "free", in |-> <<>>, out |-> <<>>, index |-> NewIndex, run |-> {},
                  next |-> 1, previous |-> Snapshot(NewIndex), recreated |-> {}]
<1>1. w = [r \in Ranks |-> w[r]] /\ \A r \in Ranks : w[r] = v0 BY DEF Init
<1>2. Shape(v0) BY DEF Shape
<1>3. mode \in {"chain", "radix"} BY DPEngineAssumption DEF Init
<1>4. EngineOK(NewIndex, {}, 1, {}, 0, mode) BY EngineNew
<1>5. Worker(v0, 0, mode) BY <1>2, <1>4 DEF Worker, Ats
<1>6. /\ p.owners = <<>> /\ p.globals = <<>> /\ p.chainOwners = <<>> /\ p.chainSeqIds = {}
      /\ p.chainSequences = <<>> /\ p.next = 1 /\ p.active = [r \in Ranks |-> {}] /\ p.closed = FALSE
      /\ p \in TablesType
  <2>1. p = [owners |-> <<>>, globals |-> <<>>, chainOwners |-> <<>>, chainSeqIds |-> {},
          chainSequences |-> <<>>, next |-> 1, active |-> [r \in Ranks |-> {}], closed |-> FALSE] BY DEF Init
  <2>2. <<>> \in PFun(Nat, IdType) /\ <<>> \in PFun(IdType, Nat) /\ <<>> \in PFun(Nat, Ranks) /\ <<>> \in PFun(Nat, Nat)
    BY PFunEmpty
  <2> QED BY <2>1, <2>2 DEF TablesType
<1>7. DOMAIN <<>> = {} OBVIOUS
<1>8. DOMAIN p.owners = {} /\ DOMAIN p.globals = {} /\ DOMAIN p.chainOwners = {} /\ DOMAIN p.chainSequences = {}
  BY <1>6, <1>7
<1>9. TablesOK(p, {})
  <2>1. Mirrored(p) BY <1>8 DEF Mirrored
  <2>2. Numbered(p) BY <1>6, <1>8, DPEngineAssumption DEF Numbered, Given
  <2>3. Placed(p, {}) BY <1>8 DEF Placed
  <2> QED BY <1>6, <2>1, <2>2, <2>3 DEF TablesOK
<1>10. Frame
  BY <1>1, <1>3, <1>5, <1>9, DPEngineAssumption, SMTT(40) DEF Frame, Init
<1>11. ASSUME NEW x \in Ranks PROVE Synced(p, told, x, w[x])
  <2>1. w[x] = v0 BY <1>1
  <2>2. Known(NewIndex) = {} /\ DOMAIN NewIndex.rec = {} BY NewIndexOK
  <2>3. Linked(p, told, x, NewIndex, {}, 1) BY <1>8, <2>2 DEF Linked
  <2>4. Counted(p, x, {}, {}, {}) BY <1>6 DEF Counted
  <2>5. Owned(p, x) \subseteq Known(NewIndex) BY <1>8 DEF Owned
  <2> QED BY <2>1, <2>3, <2>4, <2>5 DEF Synced, Sync
<1>12. \A x \in Ranks : Idle(w[x]) /\ w[x].at # "dead" BY <1>1 DEF Idle
<1>13. Between BY <1>6, <1>11, <1>12 DEF Between, AllSynced, Init, None
<1> QED BY <1>10, <1>12, <1>13 DEF Inv, Healthy

-----------------------------------------------------------------------------
(* What the steps of a worker do to it                                     *)

\* The pipe of a worker with a request.
LEMMA UnansweredIs ==
  ASSUME NEW v, NEW a, Unanswered(v, a)
  PROVE  v.in = <<a>> /\ v.in # <<>> /\ Head(v.in) = a /\ Tail(v.in) = <<>> /\ v.out = <<>> /\ v.at # "dead"
BY OneMessage DEF Unanswered

\* The pipe of a worker with a reply.
LEMMA AnsweredIs ==
  ASSUME NEW v, NEW m, Answered(v, m)
  PROVE  v.out = <<m>> /\ v.out # <<>> /\ Head(v.out) = m /\ Tail(v.out) = <<>> /\ v.in = <<>> /\ v.at \notin {"in", "out"}
BY OneMessage DEF Answered

\* Two workers with the same engine.
SameEngine(v, y) ==
  y.index = v.index /\ y.run = v.run /\ y.next = v.next /\ y.recreated = v.recreated /\ y.previous = v.previous

\* Agreement is about the engine.
LEMMA SameEngineSynced ==
  ASSUME NEW v, NEW y, SameEngine(v, y), NEW t, NEW T, NEW q
  PROVE  Synced(t, T, q, v) <=> Synced(t, T, q, y)
BY DEF SameEngine, Synced

\* The worker after its process died.
LEMMA KilledIs ==
  ASSUME NEW v, Shape(v)
  PROVE  Killed(v) = [at |-> "dead", in |-> <<>>, out |-> v.out, index |-> NewIndex, run |-> {}, next |-> v.next,
                      previous |-> v.previous, recreated |-> {}]
<1> DEFINE N == NewIndex
<1> HIDE DEF N
<1> DEFINE x == [v EXCEPT !.at = "dead", !.in = <<>>, !.run = {}, !.index = N, !.recreated = {}]
<1>1. x = [v EXCEPT !.at = "dead", !.in = <<>>, !.run = {}, !.index = N, !.recreated = {}] OBVIOUS
<1> HIDE DEF x
<1>2. x = [at |-> "dead", in |-> <<>>, out |-> v.out, index |-> N, run |-> {}, next |-> v.next,
           previous |-> v.previous, recreated |-> {}]
  BY <1>1 DEF Shape
<1> QED BY <1>2 DEF Killed, x, N

\* A dead worker is sound, and what it sent can still be read.
LEMMA KilledOK ==
  ASSUME NEW v, NEW n \in Nat, NEW md, Worker(v, n, md)
  PROVE  /\ Worker(Killed(v), n, md) /\ Killed(v).at = "dead"
         /\ Idle(v) \/ (\E a : Unanswered(v, a)) => Silent(Killed(v))
         /\ \A m : Answered(v, m) => Answered(Killed(v), m)
<1>1. /\ Killed(v).at = "dead" /\ Killed(v).in = <<>> /\ Killed(v).out = v.out /\ Killed(v).index = NewIndex
      /\ Killed(v).run = {} /\ Killed(v).next = v.next /\ Killed(v).recreated = {} /\ Shape(Killed(v))
  BY KilledIs DEF Worker, Shape
<1>2. v.next \in Nat /\ v.next >= 1 BY DEF Worker, EngineOK
<1>3. EngineOK(NewIndex, {}, v.next, {}, n, md) BY <1>2, EngineNew
<1>4. Worker(Killed(v), n, md) BY <1>1, <1>3 DEF Worker, Ats
<1>5. Idle(v) \/ (\E a : Unanswered(v, a)) => Silent(Killed(v)) BY <1>1 DEF Idle, Unanswered, Silent
<1>6. ASSUME NEW m, Answered(v, m) PROVE Answered(Killed(v), m) BY <1>1, <1>6 DEF Answered
<1> QED BY <1>1, <1>4, <1>5, <1>6

\* An exception leaves the engine and sends an error.
LEMMA RaisedOK ==
  ASSUME NEW v, NEW n, NEW md, Worker(v, n, md), NEW a, Unanswered(v, a)
  PROVE  /\ Worker(Raise(v), n, md) /\ SameEngine(v, Raise(v)) /\ Answered(Raise(v), [ok |-> FALSE])
         /\ Raise(v).at # "dead" /\ Raise(v).in = <<>>
<1>1. Shape(v) /\ v.in = <<a>> /\ v.out = <<>> BY DEF Worker, Unanswered
<1>2. Raise(v) =
           [at |-> "free", in |-> <<>>, index |-> v.index, run |-> v.run, next |-> v.next, recreated |-> v.recreated,
            out |-> <<[ok |-> FALSE]>>, previous |-> v.previous]
  BY <1>1, RaiseIs
<1> DEFINE m == [ok |-> FALSE]
           y == Raise(v)
<1>3. m.ok = FALSE OBVIOUS
<1>4. y = [at |-> "free", in |-> <<>>, index |-> v.index, run |-> v.run, next |-> v.next, recreated |-> v.recreated,
            out |-> <<m>>, previous |-> v.previous]
  BY <1>2
<1> HIDE DEF m, y
<1>5. y.out = <<m>> /\ y.at = "free" /\ y.in = <<>> /\ SameEngine(v, y) BY <1>4 DEF SameEngine
<1>6. Shape(y) BY <1>4 DEF Shape
<1>7. Answered(y, m) BY <1>3, <1>5 DEF Answered
<1>8. Worker(y, n, md) BY <1>5, <1>6 DEF Worker, Ats, SameEngine
<1> QED BY <1>5, <1>7, <1>8 DEF m, y

\* A reply leaves the pipe with one message.
LEMMA RepliedOK ==
  ASSUME NEW v, NEW a, Unanswered(v, a), Shape(v), NEW res, NEW i, NEW run, NEW next, NEW rc,
         NEW n, NEW md, EngineOK(i, run, next, rc, n, md)
  PROVE  LET y == Reply(With(v, i, run, next, rc), res)
             m == [ok |-> TRUE, result |-> res, known |-> IF Snapshot(i) = v.previous THEN {} ELSE {Known(i)}]
         IN  /\ Worker(y, n, md) /\ Answered(y, m) /\ y.index = i /\ y.run = run /\ y.next = next /\ y.recreated = rc
             /\ y.previous = Snapshot(i) /\ y.at # "dead" /\ y.in = <<>>
<1> DEFINE x == With(v, i, run, next, rc)
           m == [ok |-> TRUE, result |-> res, known |-> IF Snapshot(i) = v.previous THEN {} ELSE {Known(i)}]
           y == Reply(x, res)
<1>1. v.in = <<a>> /\ v.out = <<>> BY DEF Unanswered
<1>2. Shape(x) BY WithIs
<1>3. x.in = <<a>> /\ x.out = <<>> /\ x.index = i /\ x.run = run /\ x.next = next /\ x.recreated = rc /\ x.previous = v.previous
  BY <1>1 DEF With
<1> HIDE DEF x
<1>4. y = [at |-> "free", in |-> <<>>, index |-> i, run |-> run, next |-> next, recreated |-> rc,
            out |-> <<m>>, previous |-> Snapshot(i)]
  BY <1>2, <1>3, ReplyIs
<1>5. m.ok = TRUE OBVIOUS
<1> HIDE DEF m, y
<1>6. Worker(y, n, md) /\ Answered(y, m) /\ y.index = i /\ y.run = run /\ y.next = next /\ y.recreated = rc
      /\ y.previous = Snapshot(i) /\ y.at # "dead" /\ y.in = <<>>
  BY <1>4, <1>5 DEF Worker, Ats, Answered, Shape
<1> QED BY <1>6 DEF y, m, x

-----------------------------------------------------------------------------
(* A step of one worker                                                    *)

\* What the calls and the other workers see of a step of worker q.
Moves(q, y) ==
  /\ q \in Ranks /\ w' = [w EXCEPT ![q] = y] /\ p' = p /\ call' = call /\ mode' = mode /\ told' = told /\ failed' = failed
  /\ chains' \in Nat /\ chains' <= MaxChains /\ (chains' = chains \/ chains' = chains + 1)
  /\ faults' \in Nat /\ faults' <= MaxFaults /\ (faults' = faults \/ faults' = faults + 1)
  /\ Worker(y, chains', mode) /\ (y.at = "dead" => faults' > 0)

\* The workers after one of them moved.
LEMMA MovesWorkers ==
  ASSUME Frame, NEW q, NEW y, Moves(q, y)
  PROVE  /\ w'[q] = y /\ (\A x \in Ranks : x # q => w'[x] = w[x]) /\ w' = [x \in Ranks |-> w'[x]]
         /\ faults > 0 => faults' > 0
<1>1. w = [x \in Ranks |-> w[x]] /\ q \in Ranks /\ w' = [w EXCEPT ![q] = y] BY DEF Frame, Moves
<1>2. w' = [x \in Ranks |-> w'[x]] /\ w'[q] = y /\ \A x \in Ranks : x # q => w'[x] = w[x]
  BY <1>1, OneWorker
<1> QED BY <1>2 DEF Moves, Frame

\* A step of one worker keeps the others sound.
LEMMA MovesFrame ==
  ASSUME Frame, Healthy, NEW q, NEW y, Moves(q, y)
  PROVE  Frame' /\ Healthy'
<1>1. /\ q \in Ranks /\ w'[q] = y /\ (\A x \in Ranks : x # q => w'[x] = w[x]) /\ w' = [x \in Ranks |-> w'[x]]
  BY MovesWorkers DEF Moves
<1>2. ASSUME NEW x \in Ranks PROVE Worker(w'[x], chains', mode')
  <2>1. CASE x = q BY <1>1, <2>1 DEF Moves
  <2>2. CASE x # q
    <3>1. Worker(w[x], chains, mode) /\ w'[x] = w[x] BY <1>1, <2>2 DEF Frame
    <3>2. CASE chains' = chains BY <3>1, <3>2 DEF Moves
    <3>3. CASE chains' = chains + 1
      <4>1. EngineOK(w[x].index, w[x].run, w[x].next, w[x].recreated, chains + 1, mode)
        BY <3>1, EngineGrow DEF Worker, Frame
      <4> QED BY <3>1, <3>3, <4>1 DEF Moves, Worker
    <3> QED BY <3>2, <3>3 DEF Moves
  <2> QED BY <2>1, <2>2
<1>3. told' \subseteq 1..chains'
  BY DEF Moves, Frame
<1>4. Frame' BY <1>1, <1>2, <1>3 DEF Frame, Moves
<1>5. Healthy' BY <1>1 DEF Healthy, Moves, Frame
<1> QED BY <1>4, <1>5

\* A step of one worker after a call was given up.
LEMMA MovesStranded ==
  ASSUME Frame, Stranded, NEW q, NEW y, Moves(q, y), Piped(y)
  PROVE  Stranded'
<1>1. w'[q] = y /\ \A x \in Ranks : x # q => w'[x] = w[x] BY MovesWorkers
<1>2. \A x \in Ranks : Piped(w'[x]) BY <1>1 DEF Stranded
<1> QED BY <1>2 DEF Stranded, Moves

\* A worker that is at work: for whom.
Working(q, a) ==
  /\ Unanswered(w[q], a) /\ a.op \in Control \cup {"step"}
  /\ \/ Stranded /\ a.op \in {"step", "query"}
     \/ /\ During /\ SingleCall /\ a = call.args /\ call.pending = {q} /\ call.error = FALSE /\ DOMAIN call.got = {}
        /\ AllSynced(p, told, w) /\ Request(a, p, told, q, chains, mode)
     \/ During /\ QueryCall /\ a = call.args /\ q \in call.pending
     \/ During /\ StepCall /\ a = call.args /\ q \in call.pending /\ Going(p, told, q, w[q])

\* A worker with something to do has it from the call under way.
LEMMA AtWork ==
  ASSUME Inv, NEW q \in Ranks, w[q].in # <<>> \/ w[q].at \in {"in", "out"}
  PROVE  \E a : Working(q, a)
<1>0. ~Idle(w[q]) BY DEF Idle
<1>1. ~Silent(w[q]) /\ \A m : ~Answered(w[q], m) BY <1>0, AnsweredIs DEF Silent
<1>2. ~Closed /\ ~Between BY <1>0, <1>1 DEF Closed, Between
<1>3. CASE Stranded
  <2>1. PICK a : a.op \in {"step", "query"} /\ Unanswered(w[q], a) BY <1>0, <1>1, <1>3 DEF Stranded, Piped
  <2> QED BY <1>3, <2>1 DEF Working, Control
<1>4. CASE During
  <2>1. CASE SingleCall
    <3>1. q \in call.pending BY <1>0, <2>1 DEF SingleCall
    <3>2. PICK r \in Ranks : Asked(r) \/ Refused \/ Told(r) BY <2>1 DEF SingleCall
    <3>3. Asked(r) /\ r = q BY <3>1, <3>2 DEF Asked, Refused, Told
    <3>4. Unanswered(w[q], call.args) /\ AllSynced(p, told, w) /\ Request(call.args, p, told, q, chains, mode)
      BY <1>1, <3>3 DEF Asked
    <3>5. call.args.op \in Control BY <2>1 DEF SingleCall, Single, Control
    <3> QED BY <1>4, <2>1, <3>3, <3>4, <3>5 DEF Working, Asked
  <2>2. CASE QueryCall
    <3>1. q \in call.pending /\ Unanswered(w[q], call.args) /\ call.args.op = "query" BY <1>0, <1>1, <2>2 DEF QueryCall
    <3> QED BY <1>4, <2>2, <3>1 DEF Working, Control
  <2>3. CASE StepCall
    <3>1. q \in call.pending /\ Unanswered(w[q], call.args) /\ call.args.op = "step" /\ Going(p, told, q, w[q])
      BY <1>0, <1>1, <2>3 DEF StepCall, Part
    <3> QED BY <1>4, <2>3, <3>1 DEF Working
  <2> QED BY <1>4, <2>1, <2>2, <2>3 DEF During
<1> QED BY <1>2, <1>3, <1>4 DEF Inv

\* The frontend does not move.
LEMMA MovesDuring ==
  ASSUME Frame, During, NEW q, NEW y, Moves(q, y), (SingleCall \/ QueryCall \/ StepCall)'
  PROVE  During'
BY DEF During, CallShape, Moves

\* One rank's answer while a query is under way.
LEMMA MovesQuery ==
  ASSUME Frame, QueryCall, NEW q, NEW y, Moves(q, y), y.at = "dead" \/ SameEngine(w[q], y),
         y.at = "dead" \/ w[q].at # "dead",
         IF q \in call.pending
         THEN \/ Unanswered(y, call.args)
              \/ Silent(y)
              \/ \E m : Answered(y, m) /\ (m.ok = TRUE => m.known = {})
         ELSE Idle(y)
  PROVE  QueryCall'
<1>1. w'[q] = y /\ \A x \in Ranks : x # q => w'[x] = w[x] BY MovesWorkers
<1>2. call' = call /\ p' = p /\ told' = told BY DEF Moves
<1>3. AllSynced(p', told', w')
  BY <1>1, <1>2, SameEngineSynced DEF AllSynced, QueryCall
<1> QED BY <1>1, <1>2, <1>3 DEF QueryCall

\* One rank's part of a step.
LEMMA MovesStep ==
  ASSUME Frame, StepCall, NEW q, NEW y, Moves(q, y), Collective', Part(call, p, told, mode, faults', q, y)
  PROVE  StepCall'
<1>1. w'[q] = y /\ (\A x \in Ranks : x # q => w'[x] = w[x]) /\ (faults > 0 => faults' > 0) BY MovesWorkers
<1>2. call' = call /\ p' = p /\ told' = told /\ mode' = mode BY DEF Moves
<1>3. \A x \in Ranks : Part(call, p, told, mode, faults, x, w[x]) BY DEF StepCall
<1>4. \A x \in Ranks : x # q => Part(call, p, told, mode, faults', x, w[x]) BY <1>1, <1>3 DEF Part
<1>5. \A x \in Ranks : Part(call, p, told, mode, faults', x, w'[x]) BY <1>1, <1>4
<1> QED BY <1>2, <1>5 DEF StepCall

-----------------------------------------------------------------------------
(* The steps of the workers                                                *)

\* An exception before anything changed keeps the invariant.
LEMMA HandleRaisesInv ==
  ASSUME Inv, NEW q \in Ranks, HandleRaises(q)
  PROVE  Inv'
<1> DEFINE y == Raise(w[q])
<1>1. PICK a : Working(q, a) BY AtWork DEF HandleRaises, Serves
<1>2. Unanswered(w[q], a) /\ Frame /\ Healthy /\ Worker(w[q], chains, mode) BY <1>1 DEF Working, Inv, Frame
<1>3. /\ Worker(y, chains, mode) /\ SameEngine(w[q], y) /\ Answered(y, [ok |-> FALSE]) /\ y.at # "dead" /\ y.in = <<>>
  BY <1>2, RaisedOK
<1>4. w' = [w EXCEPT ![q] = y] /\ faults' = faults + 1 /\ faults < MaxFaults BY DEF HandleRaises, Faulty
<1> HIDE DEF y
<1>5. Moves(q, y) /\ faults' > 0
  BY <1>2, <1>3, <1>4, DPEngineAssumption DEF Moves, Frame, HandleRaises
<1>6. Frame' /\ Healthy' BY <1>2, <1>5, MovesFrame
<1> DEFINE m == [ok |-> FALSE]
<1>7. Answered(y, m) /\ m.ok = FALSE BY <1>3
<1> HIDE DEF m
<1>8. CASE Stranded
  <2>1. Piped(y) BY <1>7 DEF Piped
  <2>2. Stranded' BY <1>2, <1>5, <1>8, <2>1, MovesStranded
  <2> QED BY <1>6, <2>2 DEF Inv
<1>9. CASE /\ During /\ SingleCall /\ a = call.args /\ call.pending = {q} /\ call.error = FALSE /\ DOMAIN call.got = {}
           /\ AllSynced(p, told, w)
  <2>1. w'[q] = y /\ \A x \in Ranks : x # q => w'[x] = w[x] BY <1>2, <1>5, MovesWorkers
  <2>2. AllSynced(p', told', w')
    BY <1>2, <1>3, <1>5, <1>9, <2>1, SameEngineSynced, UnansweredIs DEF AllSynced, Moves
  <2>3. call' = call BY <1>5 DEF Moves
  <2>4. Asked(q)' BY <1>7, <1>9, <2>1, <2>2, <2>3 DEF Asked
  <2>5. SingleCall' BY <1>9, <2>1, <2>3, <2>4 DEF SingleCall
  <2> QED BY <1>2, <1>5, <1>6, <1>9, <2>5, MovesDuring DEF Inv
<1>10. CASE During /\ QueryCall /\ a = call.args /\ q \in call.pending
  <2>1. QueryCall' BY <1>2, <1>3, <1>5, <1>7, <1>10, MovesQuery, UnansweredIs
  <2> QED BY <1>2, <1>5, <1>6, <1>10, <2>1, MovesDuring DEF Inv
<1>11. CASE During /\ StepCall /\ a = call.args /\ q \in call.pending
  <2>1. Collective' BY <1>2, <1>5 DEF Collective, Frame
  <2>2. Part(call, p, told, mode, faults', q, y) BY <1>5, <1>7, <1>11 DEF Part
  <2>3. StepCall' BY <1>2, <1>5, <1>11, <2>1, <2>2, MovesStep
  <2> QED BY <1>2, <1>5, <1>6, <1>11, <2>3, MovesDuring DEF Inv
<1> QED BY <1>1, <1>8, <1>9, <1>10, <1>11 DEF Working

\* Inside a step call, or after a call that was given up.
Stepping(q) ==
  /\ Frame /\ Healthy /\ q \in Ranks /\ Worker(w[q], chains, mode) /\ Shape(w[q]) /\ w[q].at # "dead"
  /\ \E a : /\ Unanswered(w[q], a) /\ a.op = "step"
            /\ \/ Stranded
               \/ During /\ StepCall /\ a = call.args /\ q \in call.pending /\ Going(p, told, q, w[q])

\* A worker inside a step has it from a step call.
LEMMA StepAtWork ==
  ASSUME Inv, NEW q \in Ranks, w[q].at \in {"in", "out"} \/ Serves(q, {"step"})
  PROVE  Stepping(q)
<1>1. PICK a : Working(q, a) BY AtWork DEF Serves
<1>2. Unanswered(w[q], a) /\ Frame /\ Healthy /\ Worker(w[q], chains, mode) BY <1>1 DEF Working, Inv, Frame
<1>3. a.op = "step" BY <1>2, UnansweredIs DEF Serves, Unanswered
<1>4. call.args.op = "step" /\ During => StepCall BY DEF During, SingleCall, QueryCall, Single
<1> QED BY <1>1, <1>2, <1>3, <1>4, UnansweredIs DEF Working, Stepping, SingleCall, QueryCall, Single, Worker

\* A step goes on.
LEMMA GoesOn ==
  ASSUME NEW q, NEW y, Stepping(q), Moves(q, y), StepCall => Collective',
         SameEngine(w[q], y) \/ (Going(p, told, q, w[q]) => Going(p, told, q, y)),
         y.in = w[q].in, y.out = w[q].out, y.at \in {"free", "in", "out"}
  PROVE  Inv'
<1>1. Frame /\ Healthy BY DEF Stepping
<1>2. Frame' /\ Healthy' BY <1>1, MovesFrame
<1>3. PICK a : /\ Unanswered(w[q], a) /\ a.op = "step"
               /\ \/ Stranded
                  \/ During /\ StepCall /\ a = call.args /\ q \in call.pending /\ Going(p, told, q, w[q])
  BY DEF Stepping
<1>4. Unanswered(y, a) BY <1>3 DEF Unanswered
<1>5. CASE Stranded
  <2>1. Piped(y) BY <1>3, <1>4 DEF Piped
  <2> QED BY <1>1, <1>2, <1>5, <2>1, MovesStranded DEF Inv
<1>6. CASE During /\ StepCall /\ a = call.args /\ q \in call.pending /\ Going(p, told, q, w[q])
  <2>1. Going(p, told, q, y) BY <1>6 DEF Going, SameEngine, PrevKnown
  <2>2. Part(call, p, told, mode, faults', q, y) BY <1>4, <1>6, <2>1 DEF Part
  <2>3. StepCall' BY <1>1, <1>6, <2>2, MovesStep
  <2> QED BY <1>1, <1>2, <1>6, <2>3, MovesDuring DEF Inv
<1> QED BY <1>3, <1>5, <1>6

\* Reclaiming an idle chain keeps the invariant: no table is read before
\* the snapshot that says so.
LEMMA StepReclaimInv ==
  ASSUME Inv, NEW q \in Ranks, StepReclaim(q)
  PROVE  Inv'
<1> DEFINE v == w[q]
           j == Reclaimed(w[q].index)
           y == [w[q] EXCEPT !.index = j]
<1>1. Stepping(q) BY StepAtWork DEF StepReclaim
<1>2. Frame /\ Worker(v, chains, mode) /\ Shape(v) /\ v.at # "dead" BY <1>1 DEF Stepping
<1>3. EngineOK(j, v.run, v.next, v.recreated, chains, mode) /\ Kept(v.index, j)
  BY <1>2, EngineReclaim DEF StepReclaim, Worker, Frame
<1>4. w' = [w EXCEPT ![q] = y] BY DEF StepReclaim
<1> HIDE DEF j
<1>5. y = With(v, j, v.run, v.next, v.recreated) BY <1>2, WithIs
<1> HIDE DEF y
<1>6. /\ y.at = v.at /\ y.in = v.in /\ y.out = v.out /\ y.index = j /\ y.run = v.run /\ y.next = v.next
      /\ y.previous = v.previous /\ y.recreated = v.recreated /\ Shape(y)
  BY <1>5 DEF With, Shape
<1>7. Worker(y, chains, mode) BY <1>2, <1>3, <1>6 DEF Worker
<1>8. Moves(q, y) BY <1>2, <1>4, <1>6, <1>7 DEF Moves, Frame, StepReclaim
<1>9. ASSUME StepCall PROVE Collective'
  <2>1. w'[q] = y /\ \A x \in Ranks : x # q => w'[x] = w[x] BY <1>2, <1>8, MovesWorkers
  <2>2. call' = call /\ faults' = faults BY DEF StepReclaim
  <2>3. \A x \in Ranks : w'[x].at = w[x].at /\ w'[x].in = w[x].in /\ w'[x].out = w[x].out BY <1>6, <2>1
  <2> QED BY <1>9, <2>2, <2>3 DEF StepCall, Collective, Unanswered
<1>10. Going(p, told, q, v) => Going(p, told, q, y)
  <2> SUFFICES ASSUME Going(p, told, q, v) PROVE Going(p, told, q, y) OBVIOUS
  <2>1. /\ DOMAIN j.rec \subseteq DOMAIN v.index.rec /\ Known(j) \subseteq Known(v.index)
        /\ \A c \in DOMAIN j.rec : j.rec[c].seq = v.index.rec[c].seq
    BY <1>3 DEF Kept
  <2>2. Linked(p, told, q, v.index, v.recreated, v.next) BY DEF Going
  <2>3. Linked(p, told, q, j, v.recreated, v.next) BY <2>1, <2>2, LinkedLess
  <2> QED BY <1>6, <2>3 DEF Going, PrevKnown
<1>11. y.at \in {"free", "in", "out"} BY <1>2, <1>6 DEF Worker, Ats
<1> QED BY <1>1, <1>6, <1>8, <1>9, <1>10, <1>11, GoesOn

\* Entering the collective keeps the invariant.
LEMMA StepScheduleInv ==
  ASSUME Inv, NEW q \in Ranks, StepSchedule(q)
  PROVE  Inv'
<1> DEFINE v == w[q]
           y == [w[q] EXCEPT !.at = "in"]
<1>1. Stepping(q) BY StepAtWork DEF StepSchedule
<1>2. Frame /\ Worker(v, chains, mode) /\ Shape(v) /\ v.at = "free" BY <1>1 DEF Stepping, StepSchedule, Serves
<1>3. w' = [w EXCEPT ![q] = y] BY DEF StepSchedule, Joins
<1>4. y = [at |-> "in", in |-> v.in, out |-> v.out, index |-> v.index, run |-> v.run, next |-> v.next,
           previous |-> v.previous, recreated |-> v.recreated]
  <2>1. y = [v EXCEPT !.at = "in"] OBVIOUS
  <2> HIDE DEF y
  <2> QED BY <1>2, <2>1 DEF Shape
<1> HIDE DEF y
<1>5. y.at = "in" /\ y.in = v.in /\ y.out = v.out /\ SameEngine(v, y) /\ Shape(y) BY <1>4 DEF SameEngine, Shape
<1>6. Worker(y, chains, mode) BY <1>2, <1>5 DEF Worker, SameEngine, Ats
<1>7. Moves(q, y) BY <1>2, <1>3, <1>5, <1>6 DEF Moves, Frame, StepSchedule
<1>8. ASSUME StepCall PROVE Collective'
  <2>1. w'[q] = y /\ \A x \in Ranks : x # q => w'[x] = w[x] BY <1>2, <1>7, MovesWorkers
  <2>2. call' = call /\ faults' = faults BY DEF StepSchedule
  <2>3. v.in # <<>> BY DEF StepSchedule, Serves
  <2>4. call.args.op = "step" BY <1>8 DEF StepCall
  <2> SUFFICES ASSUME faults = 0
               PROVE \A x \in Ranks : x \in call.pending /\ Unanswered(w'[x], call.args) /\ w'[x].at \in {"free", "in"}
    BY <2>2 DEF Collective
  <2>5. \A x \in Ranks : x \in call.pending /\ Unanswered(w[x], call.args) /\ w[x].at \in {"free", "in"}
    BY <1>2, <1>8, <2>3 DEF StepCall, Collective
  <2> QED BY <1>5, <2>1, <2>4, <2>5 DEF Unanswered
<1> QED BY <1>1, <1>5, <1>7, <1>8, GoesOn

\* The collective keeps the invariant: all ranks pass it together.
LEMMA MeetInv ==
  ASSUME Inv, Meet
  PROVE  Inv'
<1> DEFINE y(x) == [w[x] EXCEPT !.at = "out"]
<1>1. \A x \in Ranks : w[x].at = "in" /\ Stepping(x) BY StepAtWork DEF Meet
<1>2. Frame /\ Healthy BY DEF Inv
<1>3. /\ w' = [x \in Ranks |-> y(x)] /\ p' = p /\ call' = call /\ mode' = mode /\ chains' = chains
      /\ told' = told /\ faults' = faults /\ failed' = failed
  BY DEF Meet
<1>4. ASSUME NEW x \in Ranks
      PROVE  /\ y(x).at = "out" /\ y(x).in = w[x].in /\ y(x).out = w[x].out /\ SameEngine(w[x], y(x)) /\ Shape(y(x))
  <2> DEFINE v == w[x]
             z == y(x)
  <2>1. Shape(v) BY <1>1 DEF Stepping
  <2>2. z = [v EXCEPT !.at = "out"] OBVIOUS
  <2> HIDE DEF z
  <2>3. z = [at |-> "out", in |-> v.in, out |-> v.out, index |-> v.index, run |-> v.run, next |-> v.next,
             previous |-> v.previous, recreated |-> v.recreated]
    BY <2>1, <2>2 DEF Shape
  <2>4. z.at = "out" /\ z.in = v.in /\ z.out = v.out /\ SameEngine(v, z) /\ Shape(z) BY <2>3 DEF SameEngine, Shape
  <2> QED BY <2>4 DEF z
<1> HIDE DEF y
<1>5. ASSUME NEW x \in Ranks PROVE Worker(y(x), chains, mode)
  <2>1. Worker(w[x], chains, mode) BY <1>2 DEF Frame
  <2> QED BY <1>4, <2>1 DEF Worker, Ats, SameEngine
<1>6. \A x \in Ranks : w'[x] = y(x) BY <1>3
<1>7. w' = [x \in Ranks |-> w'[x]] BY <1>3
<1>8. Frame' BY <1>2, <1>3, <1>5, <1>6, <1>7 DEF Frame
<1>9. Healthy' BY <1>4, <1>6 DEF Healthy
<1>10. ASSUME NEW x \in Ranks, NEW a, Unanswered(w[x], a), a.op = "step" PROVE Unanswered(y(x), a)
  BY <1>4, <1>10 DEF Unanswered
<1>11. PICK r \in Ranks : TRUE BY DPEngineAssumption
<1>12. CASE Stranded
  <2>1. ASSUME NEW x \in Ranks PROVE Piped(w'[x])
    <3>1. PICK a : Unanswered(w[x], a) /\ a.op = "step" BY <1>1 DEF Stepping
    <3>2. Unanswered(w'[x], a) BY <1>6, <1>10, <3>1
    <3> QED BY <3>1, <3>2 DEF Piped
  <2>2. Stranded' BY <1>3, <1>12, <2>1 DEF Stranded
  <2> QED BY <1>8, <1>9, <2>2 DEF Inv
<1>13. CASE ~Stranded
  <2>1. During /\ StepCall BY <1>1, <1>11, <1>13 DEF Stepping
  <2>2. call.args.op = "step" BY <2>1 DEF StepCall
  <2>3. ASSUME NEW x \in Ranks PROVE Part(call', p', told', mode', faults', x, w'[x])
    <3>1. x \in call.pending /\ Unanswered(w[x], call.args) /\ Going(p, told, x, w[x]) BY <1>1, <1>13 DEF Stepping
    <3>2. Unanswered(y(x), call.args) BY <1>10, <2>2, <3>1
    <3>3. Going(p, told, x, y(x)) BY <1>4, <3>1 DEF Going, SameEngine, PrevKnown
    <3> QED BY <1>3, <1>6, <3>1, <3>2, <3>3 DEF Part
  <2>4. Collective' BY <1>4, <1>6 DEF Collective
  <2>5. StepCall' BY <1>3, <2>1, <2>3, <2>4 DEF StepCall
  <2>6. During' BY <1>3, <2>1, <2>5 DEF During, CallShape
  <2> QED BY <1>8, <1>9, <2>6 DEF Inv
<1> QED BY <1>12, <1>13

\* The step of a worker ends.
LEMMA Ends ==
  ASSUME NEW q, NEW y, Stepping(q), w[q].at = "out" \/ faults' > 0, Moves(q, y), y.in = <<>>,
         NEW m, Answered(y, m),
         StepCall /\ Going(p, told, q, w[q]) => IF m.ok THEN Replied(p, told, mode, q, y, m) ELSE faults' > 0
  PROVE  Inv'
<1>1. Frame /\ Healthy BY DEF Stepping
<1>2. Frame' /\ Healthy' BY <1>1, MovesFrame
<1>3. CASE Stranded
  <2>1. Piped(y) BY DEF Piped
  <2> QED BY <1>1, <1>2, <1>3, <2>1, MovesStranded DEF Inv
<1>4. CASE During /\ StepCall /\ q \in call.pending /\ Going(p, told, q, w[q])
  <2>1. Part(call, p, told, mode, faults', q, y) BY <1>4 DEF Part
  <2>2. w'[q] = y /\ (\A x \in Ranks : x # q => w'[x] = w[x]) /\ (faults > 0 => faults' > 0) BY <1>1, MovesWorkers
  <2>3. Collective'
    <3> SUFFICES ASSUME faults' = 0 PROVE \A x \in Ranks : w'[x].at = "out" \/ w'[x].in = <<>> BY DEF Collective
    <3>1. faults = 0 /\ w[q].at = "out" /\ q \in Ranks BY <1>1 DEF Moves, Frame
    <3>2. \A x \in Ranks : w[x].at = "out" \/ w[x].in = <<>> BY <1>4, <3>1 DEF StepCall, Collective
    <3> QED BY <2>2, <3>2
  <2>4. StepCall' BY <1>1, <1>4, <2>1, <2>3, MovesStep
  <2> QED BY <1>1, <1>2, <1>4, <2>4, MovesDuring DEF Inv
<1> QED BY <1>3, <1>4 DEF Stepping

\* A step that raises keeps the invariant.
LEMMA StepRaisesInv ==
  ASSUME Inv, NEW q \in Ranks, StepRaises(q)
  PROVE  Inv'
<1> DEFINE y == Raise(w[q])
           m == [ok |-> FALSE]
<1>1. Stepping(q) BY StepAtWork DEF StepRaises
<1>2. PICK a : Unanswered(w[q], a) BY <1>1 DEF Stepping
<1>3. Frame /\ Healthy /\ Worker(w[q], chains, mode) BY <1>1 DEF Stepping
<1>4. Worker(y, chains, mode) /\ Answered(y, m) /\ y.at # "dead" /\ y.in = <<>> BY <1>2, <1>3, RaisedOK
<1>5. faults' > 0 /\ faults' \in Nat /\ faults' <= MaxFaults /\ (faults' = faults \/ faults' = faults + 1)
  <2>1. CASE w[q].at = "out" BY <1>3, <2>1, DPEngineAssumption DEF StepRaises, Faulty, Frame
  <2>2. CASE w[q].at = "in"
    <3>1. faults' = faults /\ \E x \in Ranks : w[x].at = "dead" BY <2>2 DEF StepRaises, Dead
    <3>2. p.closed = FALSE BY <1>1 DEF Stepping, Stranded, During
    <3>3. faults # 0 BY <1>3, <3>1, <3>2 DEF Healthy
    <3> QED BY <1>3, <3>1, <3>3 DEF Frame
  <2> QED BY <2>1, <2>2 DEF StepRaises
<1>6. w' = [w EXCEPT ![q] = y] BY DEF StepRaises
<1>7. m.ok = FALSE OBVIOUS
<1> HIDE DEF y, m
<1>8. Moves(q, y) BY <1>3, <1>4, <1>5, <1>6 DEF Moves, Frame, StepRaises
<1> QED BY <1>1, <1>4, <1>5, <1>7, <1>8, Ends

\* The end of a step keeps the invariant: the reply carries the snapshot of
\* an index that changed.
LEMMA StepFinishInv ==
  ASSUME Inv, NEW q \in Ranks, StepFinish(q)
  PROVE  Inv'
<1> DEFINE v == w[q]
<1>1. Stepping(q) /\ v.at = "out" BY StepAtWork DEF StepFinish
<1>2. PICK a : Unanswered(v, a) BY <1>1 DEF Stepping
<1>3. Frame /\ Worker(v, chains, mode) /\ Shape(v) BY <1>1 DEF Stepping
<1>4. PICK rows \in SUBSET v.run : \E done \in SUBSET rows :
       \E order \in SetToSeqs(UNION {ChainsOf(v.index, s) : s \in done}) :
         w' = [w EXCEPT ![q] = Reply([v EXCEPT !.run = v.run \ done, !.index = Idled(v.index, order)],
                                     [rows |-> rows, done |-> done])]
  BY DEF StepFinish
<1>5. PICK done \in SUBSET rows :
       \E order \in SetToSeqs(UNION {ChainsOf(v.index, s) : s \in done}) :
         w' = [w EXCEPT ![q] = Reply([v EXCEPT !.run = v.run \ done, !.index = Idled(v.index, order)],
                                     [rows |-> rows, done |-> done])]
  BY <1>4
<1>6. PICK order \in SetToSeqs(UNION {ChainsOf(v.index, s) : s \in done}) :
         w' = [w EXCEPT ![q] = Reply([v EXCEPT !.run = v.run \ done, !.index = Idled(v.index, order)],
                                     [rows |-> rows, done |-> done])]
  BY <1>5
<1> DEFINE i == v.index
           j == Idled(v.index, order)
           R == v.run \ done
           res == [rows |-> rows, done |-> done]
           y == Reply(With(v, j, R, v.next, v.recreated), res)
           m == [ok |-> TRUE, result |-> res, known |-> IF Snapshot(j) = v.previous THEN {} ELSE {Known(j)}]
<1>7. done \subseteq v.run BY <1>4, <1>5
<1>8. EngineOK(i, v.run, v.next, v.recreated, chains, mode) /\ chains \in Nat BY <1>3 DEF Worker, Frame
<1>9. /\ EngineOK(j, R, v.next, v.recreated, chains, mode)
      /\ DOMAIN j.rec = DOMAIN i.rec /\ Known(j) = Known(i)
      /\ \A d \in DOMAIN i.rec : j.rec[d].seq = i.rec[d].seq
  <2>1. order \in SetToSeqs(ChainsOfAll(i, done)) BY <1>6 DEF ChainsOfAll
  <2>2. EngineOK(j, R, v.next, v.recreated, chains, mode) /\ SameChains(i, j) BY <1>7, <1>8, <2>1, EngineFinish
  <2> HIDE DEF j
  <2> QED BY <2>2 DEF SameChains
<1>10. w' = [w EXCEPT ![q] = y]
  <2> HIDE DEF j, R, res
  <2>1. [v EXCEPT !.run = R, !.index = j] = With(v, j, R, v.next, v.recreated) BY <1>3, WithRun
  <2>2. w' = [w EXCEPT ![q] = Reply([v EXCEPT !.run = R, !.index = j], res)] BY <1>6 DEF R, j, res
  <2> QED BY <2>1, <2>2
<1>11. /\ Worker(y, chains, mode) /\ Answered(y, m) /\ y.index = j /\ y.run = R /\ y.next = v.next
       /\ y.recreated = v.recreated /\ y.previous = Snapshot(j) /\ y.at # "dead" /\ y.in = <<>>
  <2> HIDE DEF j, R, res
  <2> QED BY <1>2, <1>3, <1>9, RepliedOK
<1>12. m.ok = TRUE /\ m.result.done = done /\ m.result.rows = rows
       /\ m.known = IF Snapshot(j) = v.previous THEN {} ELSE {Known(j)} OBVIOUS
<1> HIDE DEF j, R, res, y, m
<1>13. Moves(q, y) BY <1>3, <1>10, <1>11 DEF Moves, Frame, StepFinish
<1>14. ASSUME StepCall, Going(p, told, q, v) PROVE Replied(p, told, mode, q, y, m)
  <2>1. Linked(p, told, q, i, v.recreated, v.next) /\ Counted(p, q, v.recreated, v.run, {})
        /\ Owned(p, q) \subseteq PrevKnown(v)
    BY <1>14 DEF Going
  <2>2. Linked(p, told, q, j, v.recreated, v.next) BY <1>9, <2>1, LinkedLess
  <2>3. R \cup done = v.run /\ R \cap done = {} BY <1>7 DEF R
  <2>4. Finished(p, told, q, y, m.result) BY <1>11, <1>12, <2>1, <2>2, <2>3 DEF Finished
  <2>5. ASSUME mode = "chain" PROVE Resident(y, y.run \cup m.result.done)
    <3>1. \A s \in v.run \ v.recreated : \E c \in DOMAIN i.rec : i.rec[c].seq = s
      BY <1>8, <2>5 DEF EngineOK, Writers, InState
    <3> QED BY <1>9, <1>11, <1>12, <2>3, <3>1 DEF Resident
  <2>6. ASSUME Snapshot(j) = v.previous PROVE PrevKnown(v) = Known(j)
    <3>1. \A c \in DOMAIN j.rec : j.rec[c].state \in {"active", "idle"} BY <1>8, <1>9, SeqsBelow
    <3>2. PrevKnown(v) = InState(j, "active") \cup InState(j, "idle") \cup Range(j.tomb) BY <2>6 DEF PrevKnown, Snapshot
    <3> QED BY <3>1, <3>2 DEF Known, InState
  <2>7. m.known = {Known(y.index)} \/ (m.known = {} /\ Owned(p, q) \subseteq Known(y.index))
    BY <1>11, <1>12, <2>1, <2>6
  <2> QED BY <1>5, <1>12, <2>4, <2>5, <2>7 DEF Replied
<1> QED BY <1>1, <1>11, <1>12, <1>13, <1>14, Ends

\* The tables are those of a dead group.
LEMMA ClosedTables ==
  ASSUME NEW T, NEW t, TablesOK(t, T)
  PROVE  TablesOK([t EXCEPT !.closed = TRUE], T) /\ [t EXCEPT !.closed = TRUE].closed = TRUE
<1> DEFINE u == [t EXCEPT !.closed = TRUE]
<1>1. t \in TablesType BY DEF TablesOK
<1>2. u \in TablesType /\ u.closed = TRUE BY <1>1 DEF TablesType
<1>3. /\ u.owners = t.owners /\ u.globals = t.globals /\ u.chainOwners = t.chainOwners
      /\ u.chainSeqIds = t.chainSeqIds /\ u.chainSequences = t.chainSequences /\ u.next = t.next /\ u.active = t.active
  BY <1>1 DEF TablesType
<1> HIDE DEF u
<1>4. Mirrored(u) BY <1>3 DEF TablesOK, Mirrored
<1>5. Numbered(u) BY <1>3 DEF TablesOK, Numbered, Given
<1>6. Placed(u, T) BY <1>3 DEF TablesOK, Placed
<1>7. TablesOK(u, T) BY <1>2, <1>4, <1>5, <1>6 DEF TablesOK
<1> QED BY <1>2, <1>7 DEF u

\* _terminate keeps the invariant.
LEMMA TerminateInv ==
  ASSUME Inv, Terminate
  PROVE  Inv'
<1> DEFINE y(x) == [Killed(w[x]) EXCEPT !.out = <<>>]
<1>1. Frame BY DEF Inv
<1>2. /\ p' = [p EXCEPT !.closed = TRUE] /\ w' = [x \in Ranks |-> y(x)] /\ call' = None /\ mode' = mode
      /\ chains' = chains /\ told' = told /\ faults' = faults /\ failed' = failed
  BY DEF Terminate
<1>3. ASSUME NEW x \in Ranks PROVE Worker(y(x), chains, mode) /\ Silent(y(x))
  <2> DEFINE k == Killed(w[x])
             z == y(x)
  <2>1. Worker(w[x], chains, mode) /\ chains \in Nat BY <1>1 DEF Frame
  <2>2. Worker(k, chains, mode) /\ k.at = "dead" BY <2>1, KilledOK
  <2>3. k.in = <<>> BY <2>1, KilledIs DEF Worker
  <2>4. z = [k EXCEPT !.out = <<>>] OBVIOUS
  <2> HIDE DEF k, z
  <2>5. Shape(k) BY <2>2 DEF Worker
  <2>6. z = [at |-> k.at, in |-> k.in, out |-> <<>>, index |-> k.index, run |-> k.run, next |-> k.next,
             previous |-> k.previous, recreated |-> k.recreated]
    BY <2>4, <2>5 DEF Shape
  <2>7. Shape(z) /\ SameEngine(k, z) /\ z.at = "dead" /\ z.in = <<>> /\ z.out = <<>>
    BY <2>2, <2>3, <2>6 DEF Shape, SameEngine
  <2>8. Worker(z, chains, mode) /\ Silent(z) BY <2>2, <2>7 DEF Worker, SameEngine, Silent, Idle
  <2> QED BY <2>8 DEF z
<1> HIDE DEF y
<1>4. (\A x \in Ranks : w'[x] = y(x)) /\ w' = [x \in Ranks |-> w'[x]] BY <1>2
<1>5. TablesOK(p', told) /\ p'.closed = TRUE BY <1>1, <1>2, ClosedTables DEF Frame
<1>6. Frame' BY <1>1, <1>2, <1>3, <1>4, <1>5 DEF Frame
<1>7. Healthy' BY <1>5 DEF Healthy
<1>8. Closed' BY <1>2, <1>3, <1>4, <1>5 DEF Closed, None
<1> QED BY <1>6, <1>7, <1>8 DEF Inv

\* The death of a worker keeps the invariant, wherever it is.
LEMMA CrashInv ==
  ASSUME Inv, NEW q \in Ranks, Crash(q)
  PROVE  Inv'
<1> DEFINE y == Killed(w[q])
<1>1. Frame /\ Healthy /\ Worker(w[q], chains, mode) /\ chains \in Nat /\ w[q].at # "dead" BY DEF Inv, Frame, Crash, Dead
<1>2. /\ Worker(y, chains, mode) /\ y.at = "dead"
      /\ Idle(w[q]) \/ (\E a : Unanswered(w[q], a)) => Silent(y)
      /\ \A m : Answered(w[q], m) => Answered(y, m)
  BY <1>1, KilledOK
<1>3. w' = [w EXCEPT ![q] = y] BY DEF Crash
<1> HIDE DEF y
<1>4. Moves(q, y) /\ faults' > 0 BY <1>1, <1>2, <1>3, DPEngineAssumption DEF Moves, Frame, Crash, Faulty
<1>5. Frame' /\ Healthy' BY <1>1, <1>4, MovesFrame
<1>6. w'[q] = y /\ \A x \in Ranks : x # q => w'[x] = w[x] BY <1>1, <1>4, MovesWorkers
<1>7. p' = p /\ call' = call /\ mode' = mode /\ told' = told /\ failed' = failed /\ chains' = chains BY DEF Crash
<1>8. \A t, T : AllSynced(t, T, w) => AllSynced(t, T, w') BY <1>2, <1>6 DEF AllSynced
<1>9. Silent(w[q]) => FALSE BY <1>1 DEF Silent
<1>10. Idle(w[q]) => Idle(y) BY <1>2 DEF Silent
<1>11. CASE Closed BY <1>9, <1>11 DEF Closed
<1>12. CASE Stranded
  <2>1. Piped(y) BY <1>2, <1>12 DEF Stranded, Piped, Silent
  <2> QED BY <1>1, <1>4, <1>5, <1>12, <2>1, MovesStranded DEF Inv
<1>13. CASE Between
  <2>1. \A x \in Ranks : Idle(w'[x]) BY <1>6, <1>10, <1>13 DEF Between
  <2>2. Between' BY <1>7, <1>8, <1>13, <2>1 DEF Between
  <2> QED BY <1>5, <2>2 DEF Inv
<1>14. CASE During /\ SingleCall
  <2>2. \A x \in Ranks : x \notin call'.pending => Idle(w'[x]) BY <1>6, <1>7, <1>10, <1>14 DEF SingleCall
  <2>3. PICK r \in Ranks : Asked(r) \/ Refused \/ Told(r) BY <1>14 DEF SingleCall
  <2>4. CASE Refused
    <3>1. Refused' BY <1>7, <1>8, <2>4 DEF Refused
    <3>2. SingleCall' BY <1>7, <1>14, <2>2, <3>1 DEF SingleCall
    <3> QED BY <1>1, <1>4, <1>5, <1>14, <3>2, MovesDuring DEF Inv
  <2>5. CASE Told(r)
    <3>1. Settles(p, r, call.got[r]) BY <2>5 DEF Told
    <3>2. Settles(p, r, call.got[r])' BY <1>7, <1>8, <3>1 DEF Settles
    <3>3. Told(r)' BY <1>7, <2>5, <3>2 DEF Told
    <3>4. SingleCall' BY <1>7, <1>14, <2>2, <3>3 DEF SingleCall
    <3> QED BY <1>1, <1>4, <1>5, <1>14, <3>4, MovesDuring DEF Inv
  <2>6. CASE Asked(r)
    <3>1. call'.pending = {r} /\ call'.error = FALSE /\ DOMAIN call'.got = {} BY <1>7, <2>6 DEF Asked
    <3>2. Unanswered(w[r], call.args) /\ r # q => Unanswered(w'[r], call'.args) BY <1>6, <1>7
    <3>3. Unanswered(w[r], call.args) /\ r = q => Silent(w'[r]) BY <1>2, <1>6
    <3>4. Silent(w[r]) => Silent(w'[r]) BY <1>6, <1>9
    <3>5. \A m : Answered(w[r], m) => Answered(w'[r], m) BY <1>2, <1>6
    <3>6. ASSUME NEW m, Settles(AfterSnapshot(p, r, m.known), r, m.result)
          PROVE  Settles(AfterSnapshot(p, r, m.known), r, m.result)'
      BY <1>7, <1>8, <3>6 DEF Settles
    <3>7. Asked(r)' BY <1>7, <1>8, <2>6, <3>1, <3>2, <3>3, <3>4, <3>5, <3>6 DEF Asked
    <3>8. SingleCall' BY <1>7, <1>14, <2>2, <3>7 DEF SingleCall
    <3> QED BY <1>1, <1>4, <1>5, <1>14, <3>8, MovesDuring DEF Inv
  <2> QED BY <2>3, <2>4, <2>5, <2>6
<1>15. CASE During /\ QueryCall
  <2>1. IF q \in call.pending
        THEN Unanswered(w[q], call.args) \/ Silent(w[q]) \/ \E m : Answered(w[q], m) /\ (m.ok = TRUE => m.known = {})
        ELSE Idle(w[q])
    BY <1>15 DEF QueryCall
  <2>2. QueryCall' BY <1>1, <1>2, <1>4, <1>9, <1>10, <1>15, <2>1, MovesQuery
  <2> QED BY <1>1, <1>4, <1>5, <1>15, <2>2, MovesDuring DEF Inv
<1>16. CASE During /\ StepCall
  <2>1. Part(call, p, told, mode, faults, q, w[q]) BY <1>16 DEF StepCall
  <2>2. Part(call, p, told, mode, faults', q, y)
    BY <1>2, <1>4, <1>9, <1>10, <2>1 DEF Part, Replied, Read
  <2>3. Collective' BY <1>5, <1>4 DEF Collective, Frame
  <2>4. StepCall' BY <1>1, <1>4, <1>16, <2>2, <2>3, MovesStep
  <2> QED BY <1>1, <1>4, <1>5, <1>16, <2>4, MovesDuring DEF Inv
<1> QED BY <1>11, <1>12, <1>13, <1>14, <1>15, <1>16 DEF Inv, During

\* Answering a query keeps the invariant.
LEMMA HandleQueryInv ==
  ASSUME Inv, NEW q \in Ranks, HandleControl(q), NEW a, Working(q, a), a.op = "query"
  PROVE  Inv'
<1> DEFINE v == w[q]
           y == Reply(With(v, v.index, v.run, v.next, v.recreated), 0)
           m == [ok |-> TRUE, result |-> 0, known |-> IF Snapshot(v.index) = v.previous THEN {} ELSE {Known(v.index)}]
<1>1. Unanswered(v, a) BY DEF Working
<1>2. Frame /\ Healthy /\ Worker(v, chains, mode) /\ Shape(v) /\ chains \in Nat /\ Head(v.in) = a
  BY <1>1, UnansweredIs DEF Inv, Frame, Worker
<1>3. Handled(v, chains + 1) = y
  <2>1. v = With(v, v.index, v.run, v.next, v.recreated) BY <1>2, WithIs
  <2>2. Handled(v, chains + 1) = Reply(v, 0) BY <1>2 DEF Handled
  <2> QED BY <2>1, <2>2
<1>4. w' = [w EXCEPT ![q] = y] BY <1>3 DEF HandleControl
<1>5. EngineOK(v.index, v.run, v.next, v.recreated, chains, mode) BY <1>2 DEF Worker
<1>6. /\ Worker(y, chains, mode) /\ Answered(y, m) /\ y.index = v.index /\ y.run = v.run /\ y.next = v.next
      /\ y.recreated = v.recreated /\ y.previous = Snapshot(v.index) /\ y.at # "dead"
  BY <1>1, <1>2, <1>5, RepliedOK
<1>7. m.known = IF Snapshot(v.index) = v.previous THEN {} ELSE {Known(v.index)} OBVIOUS
<1> HIDE DEF y, m
<1>8. chains' = chains
  <2>1. w'[q] = y BY <1>2, <1>4, OneWorker DEF Frame
  <2>2. DOMAIN v.index.rec \subseteq 1..chains BY <1>5 DEF EngineOK, IndexOK
  <2> QED BY <1>2, <1>6, <2>1, <2>2 DEF HandleControl
<1>9. Moves(q, y) BY <1>2, <1>4, <1>6, <1>8 DEF Moves, Frame, HandleControl
<1>10. Frame' /\ Healthy' BY <1>2, <1>9, MovesFrame
<1>11. CASE Stranded
  <2>1. Piped(y) BY <1>6 DEF Piped
  <2> QED BY <1>2, <1>9, <1>10, <1>11, <2>1, MovesStranded DEF Inv
<1>12. CASE During /\ QueryCall /\ a = call.args /\ q \in call.pending
  <2>1. Synced(p, told, q, v) BY <1>1, <1>12, UnansweredIs DEF QueryCall, AllSynced
  <2>2. v.previous = Snapshot(v.index) BY <2>1 DEF Synced
  <2>3. SameEngine(v, y) /\ m.known = {} BY <1>6, <1>7, <2>2 DEF SameEngine
  <2>4. QueryCall' BY <1>1, <1>2, <1>6, <1>9, <1>12, <2>3, MovesQuery, UnansweredIs
  <2> QED BY <1>2, <1>9, <1>10, <1>12, <2>4, MovesDuring DEF Inv
<1> QED BY <1>11, <1>12 DEF Working, SingleCall, StepCall, Single

\* The others still agree.
LEMMA OthersSynced ==
  ASSUME Frame, AllSynced(p, told, w), NEW q \in Ranks, NEW u, NEW U, OthersKept(p, told, u, U, q, chains),
         NEW x \in Ranks, x # q, w[x].at # "dead"
  PROVE  Synced(u, U, x, w[x])
<1> DEFINE k == w[x].index
<1>1. Synced(p, told, x, w[x]) BY DEF AllSynced
<1>2. EngineOK(k, w[x].run, w[x].next, w[x].recreated, chains, mode) BY DEF Frame, Worker
<1>3. Known(k) \subseteq 1..chains BY <1>2 DEF EngineOK, IndexOK, Known
<1>4. Sync(u, U, x, k, w[x].run, w[x].next, w[x].recreated) BY <1>1, <1>3 DEF Synced, OthersKept
<1> QED BY <1>1, <1>4 DEF Synced

\* Handling a call to one rank keeps the invariant: once the reply is read
\* all agree.
LEMMA HandleSingleInv ==
  ASSUME Inv, NEW q \in Ranks, HandleControl(q), During, SingleCall, Unanswered(w[q], call.args),
         call.pending = {q}, call.error = FALSE, DOMAIN call.got = {},
         AllSynced(p, told, w), Request(call.args, p, told, q, chains, mode)
  PROVE  Inv'
<1> DEFINE v == w[q]
           a == call.args
           y == Handled(w[q], chains + 1)
<1>1. Frame /\ Healthy /\ Worker(v, chains, mode) /\ Shape(v) /\ chains \in Nat /\ chains <= MaxChains
  BY DEF Inv, Frame, Worker
<1>2. v.in = <<a>> /\ v.out = <<>> /\ v.at # "dead" BY UnansweredIs
<1>3. Synced(p, told, q, v) BY <1>2 DEF AllSynced
<1>4. EngineOK(v.index, v.run, v.next, v.recreated, chains, mode) BY <1>1 DEF Worker
<1>5. Before(p, told, q, chains, v.index, v.run, v.next, v.recreated, mode) BY <1>1, <1>3, <1>4 DEF Before, Frame, Synced
<1>6. Serving(v, a, p, told, q, chains) BY <1>1, <1>2, <1>3, <1>5 DEF Serving, Synced
<1>7. a.op \in Control BY DEF SingleCall, Single, Control
<1>8. HandledFine(v, y, p, told, q, chains, mode, a) BY <1>1, <1>6, <1>7, HandledIsFine
<1>9. w' = [w EXCEPT ![q] = y] BY DEF HandleControl
<1>10. w'[q] = y /\ \A x \in Ranks : x # q => w'[x] = w[x] BY <1>1, <1>9, OneWorker DEF Frame
<1>11. /\ chains' = Grown(y.index, chains) /\ p' = p /\ call' = call /\ mode' = mode /\ told' = told
       /\ faults' = faults /\ failed' = failed
  BY <1>10 DEF HandleControl, Grown
<1>12. \A x \in Ranks : x \notin call'.pending => Idle(w'[x]) BY <1>10, <1>11 DEF SingleCall
<1>13. CASE y = Raise(v)
  <2> DEFINE m == [ok |-> FALSE]
  <2>1. Worker(y, chains, mode) /\ SameEngine(v, y) /\ Answered(y, m) /\ y.at # "dead" BY <1>1, <1>13, RaisedOK
  <2>2. m.ok = FALSE OBVIOUS
  <2> HIDE DEF m, y
  <2>3. chains' = chains
    <3>1. DOMAIN y.index.rec \subseteq 1..chains BY <1>4, <2>1 DEF EngineOK, IndexOK, SameEngine
    <3> QED BY <1>1, <1>11, <3>1, GrownIs
  <2>4. Moves(q, y) BY <1>1, <1>9, <1>11, <2>1, <2>3 DEF Moves, Frame
  <2>5. Frame' /\ Healthy' BY <1>1, <2>4, MovesFrame
  <2>6. AllSynced(p', told', w') BY <1>2, <1>10, <1>11, <2>1, SameEngineSynced DEF AllSynced
  <2>7. Asked(q)' BY <1>10, <1>11, <2>1, <2>2, <2>6 DEF Asked
  <2>8. SingleCall' BY <1>11, <1>12, <2>7 DEF SingleCall
  <2> QED BY <1>1, <2>4, <2>5, <2>8, MovesDuring DEF Inv
<1>14. CASE \E res, i, run, next, rc : Fine(v, y, p, told, q, chains, mode, a, res, i, run, next, rc)
  <2>1. PICK res, i, run, next, rc : Fine(v, y, p, told, q, chains, mode, a, res, i, run, next, rc) BY <1>14
  <2> DEFINE n == Grown(i, chains)
             u == Ret(Snapped(p, q, i), a, q, res)
             U == ToldBy(told, a, res)
  <2>m. PICK m : m = [ok |-> TRUE, result |-> res, known |-> IF Snapshot(i) = v.previous THEN {} ELSE {Known(i)}]
    OBVIOUS
  <2>2. /\ y = Reply(With(v, i, run, next, rc), res) /\ EngineOK(i, run, next, rc, n, mode) /\ n <= MaxChains
        /\ Agreed(p, told, u, U, q, chains, i, run, next, rc) /\ U \subseteq 1..n /\ (mode = "radix" => U = {})
    BY <2>1 DEF Fine
  <2>3. n \in Nat /\ (n = chains \/ n = chains + 1) BY <1>1 DEF Grown
  <2> HIDE DEF n
  <2>4. /\ Worker(y, n, mode) /\ Answered(y, m) /\ y.index = i /\ y.run = run /\ y.next = next /\ y.recreated = rc
        /\ y.previous = Snapshot(i) /\ y.at # "dead"
    BY <1>1, <2>2, <2>m, RepliedOK
  <2>5. m.ok = TRUE /\ m.result = res /\ m.known = IF Snapshot(i) = v.previous THEN {} ELSE {Known(i)} BY <2>m
  <2> HIDE DEF y, u, U
  <2>6. chains' = n BY <1>11, <2>4 DEF n
  <2>7. Moves(q, y) BY <1>1, <1>9, <1>11, <2>2, <2>3, <2>4, <2>6 DEF Moves, Frame
  <2>8. Frame' /\ Healthy' BY <1>1, <2>7, MovesFrame
  <2>9. AfterSnapshot(p, q, m.known) = Snapped(p, q, i)
    <3>1. v.previous = Snapshot(v.index) /\ Owned(p, q) \subseteq Known(v.index) BY <1>3 DEF Synced, Sync
    <3>2. IndexOK(v.index, chains) /\ IndexOK(i, n) BY <1>4, <2>2 DEF EngineOK
    <3>3. TablesOK(p, told) BY <1>1 DEF Frame
    <3>4. m.known = IF Snapshot(i) = Snapshot(v.index) THEN {} ELSE {Known(i)} BY <2>5, <3>1
    <3> DEFINE K == m.known
    <3>5. (Snapshot(i) = Snapshot(v.index) => K = {}) /\ (Snapshot(i) # Snapshot(v.index) => K = {Known(i)}) BY <3>4
    <3> HIDE DEF K
    <3>6. AfterSnapshot(p, q, K) = Snapped(p, q, i)
      BY <1>1, <2>3, <3>1, <3>2, <3>3, <3>5, SnapshotKnown
    <3> QED BY <3>6 DEF K
  <2>10. AllSynced(u, U, w')
    <3>1. Synced(u, U, q, y) BY <2>2, <2>4 DEF Agreed, Synced
    <3>2. ASSUME NEW x \in Ranks, x # q, w[x].at # "dead" PROVE Synced(u, U, x, w[x])
      BY <1>1, <2>2, <3>2, OthersSynced DEF Agreed
    <3> QED BY <1>10, <3>1, <3>2 DEF AllSynced
  <2>11. u = Ret(AfterSnapshot(p', q, m.known), call'.args, q, m.result) /\ U = ToldBy(told', call'.args, m.result)
    BY <1>11, <2>5, <2>9 DEF u, U
  <2>12. Settles(AfterSnapshot(p, q, m.known), q, m.result)'
    BY <1>11, <2>2, <2>6, <2>10, <2>11 DEF Settles, Agreed
  <2>13. Asked(q)' BY <1>10, <1>11, <2>4, <2>5, <2>12 DEF Asked
  <2>14. SingleCall' BY <1>11, <1>12, <2>13 DEF SingleCall
  <2> QED BY <1>1, <2>7, <2>8, <2>14, MovesDuring DEF Inv
<1> QED BY <1>8, <1>13, <1>14 DEF HandledFine

\* Handling a control operation keeps the invariant.
LEMMA HandleControlInv ==
  ASSUME Inv, NEW q \in Ranks, HandleControl(q)
  PROVE  Inv'
<1>1. PICK a : Working(q, a) BY AtWork DEF HandleControl, Serves
<1>2. Unanswered(w[q], a) BY <1>1 DEF Working
<1>3. a.op \in Control BY <1>2, UnansweredIs DEF HandleControl, Serves
<1>4. CASE a.op = "query" BY <1>1, <1>4, HandleQueryInv
<1>5. CASE a.op # "query"
  <2>1. /\ During /\ SingleCall /\ a = call.args /\ call.pending = {q} /\ call.error = FALSE /\ DOMAIN call.got = {}
        /\ AllSynced(p, told, w) /\ Request(a, p, told, q, chains, mode)
    BY <1>1, <1>3, <1>5 DEF Working, QueryCall, StepCall, Control
  <2> QED BY <1>2, <2>1, HandleSingleInv
<1> QED BY <1>4, <1>5

-----------------------------------------------------------------------------
(* The frontend calls                                                      *)

\* The phase of the frontend from its variables.
LEMMA PhaseIs ==
  ASSUME Inv
  PROVE  /\ p.closed \in BOOLEAN /\ failed \in BOOLEAN
         /\ Waiting => During
         /\ ~Waiting /\ ~p.closed /\ ~failed => Between
<1>1. p.closed \in BOOLEAN /\ failed \in BOOLEAN BY TableFields DEF Inv, Frame, TablesOK
<1>2. During => Waiting
  BY DEF During, CallShape, Waiting, SingleCall, QueryCall, StepCall, Single
<1>3. Waiting => During BY DEF Inv, Closed, Stranded, Between, Waiting
<1>4. ~Waiting /\ ~p.closed /\ ~failed => Between BY <1>1, <1>2 DEF Inv, Closed, Stranded
<1> QED BY <1>1, <1>3, <1>4

\* The workers after a call is sent to some.
LEMMA SentIs ==
  ASSUME Between, Frame, Healthy, NEW S, NEW c,
         w' = [x \in Ranks |-> IF x \in S THEN [w[x] EXCEPT !.in = Append(@, c)] ELSE w[x]],
         p' = p, mode' = mode, chains' = chains, told' = told, faults' = faults, failed' \in BOOLEAN,
         \A x \in Ranks : x \in S => w[x].at # "dead"
  PROVE  /\ Frame' /\ Healthy'
         /\ \A x \in Ranks : x \in S => Unanswered(w'[x], c) /\ w'[x].at = "free" /\ SameEngine(w[x], w'[x])
         /\ \A x \in Ranks : x \notin S => w'[x] = w[x] /\ Idle(w'[x])
         /\ AllSynced(p', told', w')
<1>1. \A x \in Ranks : x \notin S => w'[x] = w[x] /\ Idle(w'[x]) BY DEF Between
<1>2. ASSUME NEW x \in Ranks, x \in S
      PROVE  Unanswered(w'[x], c) /\ w'[x].at = "free" /\ SameEngine(w[x], w'[x]) /\ Worker(w'[x], chains, mode)
  <2> DEFINE v == w[x]
             z == w'[x]
  <2>1. Worker(v, chains, mode) /\ Shape(v) /\ v.at = "free" /\ v.in = <<>> /\ v.out = <<>>
    BY <1>2 DEF Frame, Worker, Between, Idle
  <2>2. z = [v EXCEPT !.in = Append(v.in, c)] BY <1>2
  <2>3. Append(v.in, c) = <<c>> BY <2>1, OneMessage
  <2>4. z = [v EXCEPT !.in = <<c>>] BY <2>2, <2>3
  <2> HIDE DEF z
  <2>5. z = [at |-> "free", in |-> <<c>>, out |-> <<>>, index |-> v.index, run |-> v.run, next |-> v.next,
             previous |-> v.previous, recreated |-> v.recreated]
    BY <2>1, <2>4 DEF Shape
  <2>6. z.at = "free" /\ z.in = <<c>> /\ z.out = <<>> /\ SameEngine(v, z) /\ Shape(z) BY <2>5 DEF SameEngine, Shape
  <2>7. Worker(z, chains, mode) BY <2>1, <2>6 DEF Worker, SameEngine
  <2> QED BY <2>6, <2>7 DEF z, Unanswered
<1>3. \A x \in Ranks : Worker(w'[x], chains, mode) BY <1>1, <1>2 DEF Frame
<1>4. w' = [x \in Ranks |-> w'[x]] OBVIOUS
<1>5. Frame' BY <1>3, <1>4 DEF Frame
<1>6. Healthy' BY <1>1, <1>2 DEF Healthy
<1>7. AllSynced(p', told', w')
  <2> SUFFICES ASSUME NEW x \in Ranks, w'[x].at # "dead" PROVE Synced(p, told, x, w'[x]) BY DEF AllSynced
  <2>1. CASE x \in S
    <3>1. SameEngine(w[x], w'[x]) BY <1>2, <2>1
    <3>2. Synced(p, told, x, w[x]) BY <2>1 DEF Between, AllSynced
    <3> QED BY <3>1, <3>2, SameEngineSynced
  <2>2. CASE x \notin S BY <1>1, <2>2 DEF Between, AllSynced
  <2> QED BY <2>1, <2>2
<1> QED BY <1>1, <1>2, <1>5, <1>6, <1>7

\* A call to one rank.
LEMMA SendOneInv ==
  ASSUME Inv, NEW r \in Ranks, NEW c, Send({r}, c), c.op \in Single, Request(c, p, told, r, chains, mode),
         UNCHANGED <<p, mode, chains, told, faults>>
  PROVE  Inv'
<1> DEFINE cut == {x \in {r} : \E q \in {r} : q <= x /\ Dead(q)}
           S == {r} \ cut
<1>0. /\ ~p.closed /\ ~Waiting /\ ~failed
      /\ w' = [x \in Ranks |-> IF x \in S THEN [w[x] EXCEPT !.in = Append(@, c)] ELSE w[x]]
      /\ IF cut = {}
         THEN call' = [op |-> c.op, args |-> c, pending |-> {r}, got |-> <<>>, error |-> FALSE] /\ failed' = failed
         ELSE failed' = TRUE /\ call' = call
  BY DEF Send
<1>1. Between /\ Frame /\ Healthy BY <1>0, PhaseIs DEF Inv
<1>2. r <= r BY DPEngineAssumption
<1>3. (w[r].at = "dead" => cut = {r} /\ S = {}) /\ (w[r].at # "dead" => cut = {} /\ S = {r}) BY <1>2 DEF Dead
<1> HIDE DEF cut, S
<1>4. failed' \in BOOLEAN /\ \A x \in Ranks : x \in S => w[x].at # "dead" BY <1>0, <1>1, <1>3 DEF Between
<1>5. /\ Frame' /\ Healthy' /\ AllSynced(p', told', w')
      /\ \A x \in Ranks : x \in S => Unanswered(w'[x], c) /\ w'[x].at = "free" /\ SameEngine(w[x], w'[x])
      /\ \A x \in Ranks : x \notin S => w'[x] = w[x] /\ Idle(w'[x])
  BY <1>0, <1>1, <1>4, SentIs
<1>6. CASE w[r].at = "dead"
  <2>1. \A x \in Ranks : Piped(w'[x]) BY <1>3, <1>5, <1>6 DEF Piped
  <2>2. Stranded' BY <1>0, <1>1, <1>3, <1>6, <2>1 DEF Stranded, Between
  <2> QED BY <1>5, <2>2 DEF Inv
<1>7. CASE w[r].at # "dead"
  <2>1. call' = [op |-> c.op, args |-> c, pending |-> {r}, got |-> <<>>, error |-> FALSE] /\ failed' = failed
    BY <1>0, <1>3, <1>7
  <2>2. /\ call'.op = c.op /\ call'.args = c /\ call'.pending = {r} /\ call'.error = FALSE /\ call'.got = <<>>
        /\ CallShape'
    BY <2>1 DEF CallShape
  <2>3. DOMAIN call'.got = {} BY <2>2
  <2>4. Asked(r)' BY <1>3, <1>5, <1>7, <2>2, <2>3 DEF Asked
  <2>5. \A x \in Ranks : x \notin call'.pending => Idle(w'[x]) BY <1>3, <1>5, <1>7, <2>2
  <2>6. SingleCall' BY <2>2, <2>4, <2>5 DEF SingleCall
  <2>7. During' BY <1>1, <2>1, <2>2, <2>6 DEF During, Between
  <2> QED BY <1>5, <2>7 DEF Inv
<1> QED BY <1>6, <1>7

\* A call to all ranks.
LEMMA SendAllInv ==
  ASSUME Inv, NEW c, Send(Ranks, c), c.op \in {"step", "query"}, UNCHANGED <<p, mode, chains, told, faults>>
  PROVE  Inv'
<1> DEFINE cut == {x \in Ranks : \E q \in Ranks : q <= x /\ Dead(q)}
           S == Ranks \ cut
<1>0. /\ ~p.closed /\ ~Waiting /\ ~failed
      /\ w' = [x \in Ranks |-> IF x \in S THEN [w[x] EXCEPT !.in = Append(@, c)] ELSE w[x]]
      /\ IF cut = {}
         THEN call' = [op |-> c.op, args |-> c, pending |-> Ranks, got |-> <<>>, error |-> FALSE] /\ failed' = failed
         ELSE failed' = TRUE /\ call' = call
  BY DEF Send
<1>1. Between /\ Frame /\ Healthy BY <1>0, PhaseIs DEF Inv
<1>2. \A x \in Ranks : x <= x BY DPEngineAssumption
<1>3. (\A x \in Ranks : x \in S => w[x].at # "dead") /\ (cut = {} => S = Ranks) BY <1>2 DEF Dead
<1> HIDE DEF cut, S
<1>4. failed' \in BOOLEAN BY <1>0, <1>1 DEF Between
<1>5. /\ Frame' /\ Healthy' /\ AllSynced(p', told', w')
      /\ \A x \in Ranks : x \in S => Unanswered(w'[x], c) /\ w'[x].at = "free" /\ SameEngine(w[x], w'[x])
      /\ \A x \in Ranks : x \notin S => w'[x] = w[x] /\ Idle(w'[x])
  BY <1>0, <1>1, <1>3, <1>4, SentIs
<1>6. CASE cut # {}
  <2>1. \A x \in Ranks : Piped(w'[x]) BY <1>5 DEF Piped
  <2>2. Stranded' BY <1>0, <1>1, <1>6, <2>1 DEF Stranded, Between
  <2> QED BY <1>5, <2>2 DEF Inv
<1>7. CASE cut = {}
  <2>1. call' = [op |-> c.op, args |-> c, pending |-> Ranks, got |-> <<>>, error |-> FALSE] /\ failed' = failed
    BY <1>0, <1>7
  <2>2. /\ call'.op = c.op /\ call'.args = c /\ call'.pending = Ranks /\ call'.error = FALSE /\ call'.got = <<>>
        /\ CallShape'
    BY <2>1 DEF CallShape
  <2>3. DOMAIN call'.got = {} BY <2>2
  <2>4. \A x \in Ranks : Unanswered(w'[x], c) /\ w'[x].at = "free" BY <1>3, <1>5, <1>7
  <2>5. CASE c.op = "query"
    <3>1. QueryCall' BY <1>5, <2>2, <2>4, <2>5 DEF QueryCall
    <3>2. During' BY <1>1, <2>1, <2>2, <3>1 DEF During, Between
    <3> QED BY <1>5, <3>2 DEF Inv
  <2>6. CASE c.op = "step"
    <3>1. ASSUME NEW x \in Ranks PROVE Part(call', p', told', mode', faults', x, w'[x])
      <4> DEFINE z == w'[x]
      <4>1. Synced(p', told', x, z) BY <1>5, <2>4 DEF AllSynced
      <4>2. \A d \in DOMAIN z.index.rec : z.index.rec[d].state \in {"active", "idle"}
        <5>1. Worker(z, chains', mode') /\ chains' \in Nat BY <1>5 DEF Frame
        <5> QED BY <5>1, SeqsBelow DEF Worker
      <4> HIDE DEF z
      <4>3. PrevKnown(z) = Known(z.index)
        <5>1. PrevKnown(z) = InState(z.index, "active") \cup InState(z.index, "idle") \cup Range(z.index.tomb)
          BY <4>1 DEF PrevKnown, Snapshot, Synced
        <5> QED BY <4>2, <5>1 DEF Known, InState
      <4>4. Going(p', told', x, z) BY <4>1, <4>3 DEF Going, Synced, Sync
      <4> QED BY <2>2, <2>4, <4>4 DEF Part, z
    <3>2. Collective' BY <2>2, <2>4 DEF Collective
    <3>3. StepCall' BY <2>2, <2>3, <2>6, <3>1, <3>2 DEF StepCall
    <3>4. During' BY <1>1, <2>1, <2>2, <3>3 DEF During, Between
    <3> QED BY <1>5, <3>4 DEF Inv
  <2> QED BY <2>5, <2>6
<1> QED BY <1>6, <1>7

\* There is a rank with the least load, and a first one of these.
LEMMA TargetsAreRanks ==
  ASSUME Frame, NEW c
  PROVE  AdmitTargets(c) \subseteq Ranks
<1>1. TablesOK(p, told) BY DEF Frame
<1>2. p \in TablesType /\ Numbered(p) BY <1>1 DEF TablesOK
<1>3. \A r \in Ranks : IsFiniteSet(p.active[r])
  <2> TAKE r \in Ranks
  <2>1. p.active[r] \subseteq 1..(p.next - 1) /\ p.next \in Nat BY <1>2, TableFields DEF Numbered, Given
  <2>2. IsFiniteSet(1..(p.next - 1)) BY <2>1, FS_Interval
  <2> QED BY <2>1, <2>2, FS_Subset
<1>4. \A r \in Ranks : Cardinality(p.active[r]) \in Nat BY <1>3, FS_CardinalityType
<1> DEFINE L == {Cardinality(p.active[r]) : r \in Ranks}
<1>5. L \subseteq Nat /\ L # {} BY <1>4, DPEngineAssumption
<1> HIDE DEF L
<1>6. PICK k \in L : \A j \in L : k <= j BY <1>5, LeastNat
<1>7. PICK r \in Ranks : k = Cardinality(p.active[r]) BY <1>6 DEF L
<1>8. \A q \in Ranks : Cardinality(p.active[r]) <= Cardinality(p.active[q]) BY <1>6, <1>7 DEF L
<1>9. LeastLoaded # {} /\ LeastLoaded \subseteq Ranks BY <1>8 DEF LeastLoaded
<1>10. LeastLoaded \subseteq Nat BY <1>9, DPEngineAssumption
<1>11. \E x \in LeastLoaded : \A q \in LeastLoaded : x <= q BY <1>9, <1>10, LeastNat
<1>12. (CHOOSE x \in LeastLoaded : \A q \in LeastLoaded : x <= q) \in Ranks BY <1>9, <1>11
<1>13. c \in DOMAIN p.chainOwners => p.chainOwners[c] \in Ranks BY <1>2, TableMaps
<1> QED BY <1>9, <1>12, <1>13 DEF AdmitTargets

\* Calling admit_request keeps the invariant.
LEMMA AdmitRequestInv ==
  ASSUME Inv, NEW c \in told \cup {NoChain}, NEW fits \in {"extends", "differs", "append differs"}, AdmitRequest(c, fits)
  PROVE  Inv'
<1> DEFINE a == [op |-> "admit", chain |-> c, fits |-> fits]
<1>1. PICK r \in AdmitTargets(c) : Send({r}, a) BY DEF AdmitRequest
<1>2. r \in Ranks BY <1>1, TargetsAreRanks DEF Inv
<1>3. a.op = "admit" /\ a.chain = c /\ a.fits = fits OBVIOUS
<1> HIDE DEF a
<1>4. Request(a, p, told, r, chains, mode) /\ a.op \in Single BY <1>3 DEF Request, AdmitRequest, Single
<1>5. UNCHANGED <<p, mode, chains, told, faults>> BY DEF AdmitRequest
<1> QED BY <1>1, <1>2, <1>4, <1>5, SendOneInv

\* The id of a request the frontend knows.
LEMMA OwnerIs ==
  ASSUME Frame, NEW g \in DOMAIN p.owners
  PROVE  p.owners[g].rank \in Ranks /\ p.owners[g] = Id(p.owners[g].rank, p.owners[g].seq)
<1>1. p.owners[g] \in IdType BY TableMaps DEF Frame, TablesOK
<1> QED BY <1>1 DEF IdType, Id

\* Calling abort_request keeps the invariant.
LEMMA AbortRequestInv ==
  ASSUME Inv, NEW g, AbortRequest(g)
  PROVE  Inv'
<1> DEFINE r == p.owners[g].rank
           s == p.owners[g].seq
           a == [op |-> "abort", seq |-> s, gid |-> g]
<1>1. g \in DOMAIN p.owners /\ Send({r}, a) /\ UNCHANGED <<p, mode, chains, told, faults>> BY DEF AbortRequest
<1>2. r \in Ranks /\ p.owners[g] = Id(r, s) BY <1>1, OwnerIs DEF Inv
<1>3. a.op = "abort" /\ a.seq = s /\ a.gid = g OBVIOUS
<1> HIDE DEF a, r, s
<1>4. Request(a, p, told, r, chains, mode) /\ a.op \in Single BY <1>1, <1>2, <1>3 DEF Request, Single
<1> QED BY <1>1, <1>2, <1>4, SendOneInv

\* Calling discard_chain keeps the invariant.
LEMMA DiscardChainInv ==
  ASSUME Inv, NEW c, NEW g, DiscardChain(c, g)
  PROVE  Inv'
<1> DEFINE r == p.owners[g].rank
           s == p.owners[g].seq
           a == [op |-> "discard", chain |-> c, seq |-> s, gid |-> g]
<1>1. g \in DOMAIN p.owners /\ Send({r}, a) /\ UNCHANGED <<p, mode, chains, told, faults>> BY DEF DiscardChain
<1>2. r \in Ranks /\ p.owners[g] = Id(r, s) BY <1>1, OwnerIs DEF Inv
<1>3. a.op = "discard" /\ a.seq = s /\ a.gid = g OBVIOUS
<1> HIDE DEF a, r, s
<1>4. Request(a, p, told, r, chains, mode) /\ a.op \in Single BY <1>1, <1>2, <1>3 DEF Request, Single
<1> QED BY <1>1, <1>2, <1>4, SendOneInv

\* Calling invalidate_chain keeps the invariant.
LEMMA InvalidateChainInv ==
  ASSUME Inv, NEW c, InvalidateChain(c)
  PROVE  Inv'
<1> DEFINE r == IF c \in DOMAIN p.chainOwners THEN p.chainOwners[c] ELSE 0
           a == [op |-> "invalidate", chain |-> c]
<1>1. /\ ~(c \in DOMAIN p.chainSequences /\ p.chainSequences[c] \in DOMAIN p.owners)
      /\ Send({r}, a) /\ UNCHANGED <<p, mode, chains, told, faults>>
  BY DEF InvalidateChain
<1>2. r \in Ranks BY TableMaps, DPEngineAssumption DEF Inv, Frame, TablesOK
<1>3. a.op = "invalidate" /\ a.chain = c OBVIOUS
<1> HIDE DEF a, r
<1>4. Request(a, p, told, r, chains, mode) /\ a.op \in Single BY <1>1, <1>3 DEF Request, Single
<1> QED BY <1>1, <1>2, <1>4, SendOneInv

\* Calling step, or asking all ranks, keeps the invariant.
LEMMA CallAllInv ==
  ASSUME Inv, Query \/ Step
  PROVE  Inv'
<1>1. PICK c : c.op \in {"step", "query"} /\ Send(Ranks, c) BY DEF Query, Step
<1>2. UNCHANGED <<p, mode, chains, told, faults>> BY DEF Query, Step
<1> QED BY <1>1, <1>2, SendAllInv

-----------------------------------------------------------------------------
(* The frontend receives                                                   *)

\* The call goes on without the group.
LEMMA ReceiveEndInv ==
  ASSUME Inv, (\E r \in Ranks : ReceiveEnd(r)) \/ TimesOut \/ Exit
  PROVE  Inv'
BY TerminateInv DEF ReceiveEnd, TimesOut, Exit

\* A reply is taken from the pipe.
Reads(r, u) ==
  /\ r \in Ranks /\ w' = [w EXCEPT ![r].out = Tail(@)] /\ p' = u
  /\ mode' = mode /\ chains' = chains /\ told' = told /\ faults' = faults /\ failed' = failed

\* The workers after a reply is read.
LEMMA ReadsIs ==
  ASSUME Frame, Healthy, NEW r, NEW u, Reads(r, u), NEW m, Answered(w[r], m), TablesOK(u, told), u.closed = p.closed
  PROVE  /\ Frame' /\ Healthy' /\ Idle(w'[r]) /\ w'[r].at = w[r].at /\ SameEngine(w[r], w'[r])
         /\ \A x \in Ranks : x # r => w'[x] = w[x]
<1> DEFINE v == w[r]
           y == [w[r] EXCEPT !.out = <<>>]
<1>1. Tail(v.out) = <<>> /\ v.in = <<>> /\ v.at \in {"free", "dead"} BY AnsweredIs DEF Answered
<1>2. w' = [w EXCEPT ![r] = y] BY <1>1 DEF Reads
<1>3. r \in Ranks /\ Worker(v, chains, mode) /\ Shape(v) BY DEF Reads, Frame, Worker
<1>4. y = [v EXCEPT !.out = <<>>] OBVIOUS
<1> HIDE DEF y
<1>5. y = [at |-> v.at, in |-> v.in, out |-> <<>>, index |-> v.index, run |-> v.run, next |-> v.next,
           previous |-> v.previous, recreated |-> v.recreated]
  BY <1>3, <1>4 DEF Shape
<1>6. y.at = v.at /\ y.in = <<>> /\ y.out = <<>> /\ SameEngine(v, y) /\ Shape(y) BY <1>1, <1>5 DEF SameEngine, Shape
<1>7. w' = [x \in Ranks |-> w'[x]] /\ w'[r] = y /\ \A x \in Ranks : x # r => w'[x] = w[x]
  BY <1>2, <1>3, OneWorker DEF Frame
<1>8. Worker(y, chains, mode) BY <1>3, <1>6 DEF Worker, SameEngine
<1>9. \A x \in Ranks : Worker(w'[x], chains, mode) BY <1>7, <1>8 DEF Frame
<1>10. Frame' BY <1>7, <1>9 DEF Frame, Reads
<1>11. Healthy' BY <1>6, <1>7 DEF Healthy, Reads
<1> QED BY <1>1, <1>6, <1>7, <1>10, <1>11 DEF Idle

\* All ranks agree as before.
LEMMA ReadsSynced ==
  ASSUME NEW r \in Ranks, w'[r].at = w[r].at, SameEngine(w[r], w'[r]), \A x \in Ranks : x # r => w'[x] = w[x],
         NEW t, NEW T, AllSynced(t, T, w)
  PROVE  AllSynced(t, T, w')
<1>1. ASSUME NEW x \in Ranks, w'[x].at # "dead" PROVE Synced(t, T, x, w'[x])
  <2>1. CASE x = r
    <3>1. Synced(t, T, r, w[r]) BY <1>1, <2>1 DEF AllSynced
    <3> QED BY <2>1, <3>1, SameEngineSynced
  <2>2. CASE x # r BY <1>1, <2>2 DEF AllSynced
  <2> QED BY <2>1, <2>2
<1> QED BY <1>1 DEF AllSynced

\* The call after a reply.
Taken(c, d, r, m) ==
  d = [c EXCEPT !.pending = @ \ {r}, !.error = @ \/ ~m.ok, !.got = IF m.ok THEN Put(@, r, m.result) ELSE @]

After(c, d, r, m) ==
  /\ d.op = c.op /\ d.args = c.args /\ d.pending = c.pending \ {r}
  /\ m.ok = FALSE => d.error = TRUE /\ d.got = c.got
  /\ m.ok = TRUE => /\ d.error = c.error /\ DOMAIN d.got = DOMAIN c.got \cup {r}
                    /\ d.got[r] = m.result /\ \A x \in DOMAIN c.got : x # r => d.got[x] = c.got[x]

\* The call after a reply is read.
LEMMA TakenIs ==
  ASSUME CallShape, NEW r, NEW m, m.ok \in BOOLEAN, Taken(call, call', r, m)
  PROVE  CallShape' /\ After(call, call', r, m)
<1> DEFINE P == call.pending \ {r}
           E == (call.error \/ ~m.ok)
           G == IF m.ok THEN Put(call.got, r, m.result) ELSE call.got
<1>1. call' = [call EXCEPT !.pending = P, !.error = E, !.got = G] BY DEF Taken
<1>2. E \in BOOLEAN /\ (m.ok = TRUE => E = call.error) /\ (m.ok = FALSE => E = TRUE) BY DEF CallShape
<1>3. m.ok = TRUE => DOMAIN G = DOMAIN call.got \cup {r} /\ G[r] = m.result /\ \A x \in DOMAIN call.got : x # r => G[x] = call.got[x]
  BY DEF Put
<1>4. m.ok = FALSE => G = call.got OBVIOUS
<1> HIDE DEF P, E, G
<1>5. call' = [op |-> call.op, args |-> call.args, pending |-> P, got |-> G, error |-> E]
  BY <1>1 DEF CallShape
<1>6. call'.op = call.op /\ call'.args = call.args /\ call'.pending = P /\ call'.got = G /\ call'.error = E
      /\ call' = [op |-> call'.op, args |-> call'.args, pending |-> call'.pending, got |-> call'.got, error |-> call'.error]
  BY <1>5
<1>7. P \subseteq Ranks BY DEF CallShape, P
<1>8. CallShape' BY <1>2, <1>6, <1>7 DEF CallShape
<1>9. After(call, call', r, m) BY <1>2, <1>3, <1>4, <1>6 DEF P, After
<1> QED BY <1>8, <1>9

\* Reading the reply of a call to one rank keeps the invariant.
LEMMA ReceiveSingle ==
  ASSUME Frame, Healthy, During, SingleCall, NEW r \in Ranks, r \in call.pending, NEW m, Answered(w[r], m), m.ok \in BOOLEAN,
         NEW u, Reads(r, u), u = (IF m.ok THEN AfterSnapshot(p, r, m.known) ELSE p),
         TablesOK(u, told), u.closed = p.closed, Taken(call, call', r, m)
  PROVE  Inv'
<1>1. /\ Frame' /\ Healthy' /\ Idle(w'[r]) /\ w'[r].at = w[r].at /\ SameEngine(w[r], w'[r])
      /\ \A x \in Ranks : x # r => w'[x] = w[x]
  BY ReadsIs
<1>2. /\ CallShape' /\ call'.op = call.op /\ call'.args = call.args /\ call'.pending = call.pending \ {r}
      /\ m.ok = FALSE => call'.error = TRUE /\ call'.got = call.got
      /\ m.ok = TRUE => /\ call'.error = call.error /\ DOMAIN call'.got = DOMAIN call.got \cup {r}
                        /\ call'.got[r] = m.result
  <2>1. CallShape BY DEF During
  <2>2. CallShape' /\ After(call, call', r, m) BY <2>1, TakenIs
  <2> QED BY <2>2 DEF After
<1>3. Asked(r)
  <2>1. PICK q \in Ranks : Asked(q) \/ Refused \/ Told(q) BY DEF SingleCall
  <2>2. Asked(q) /\ q = r BY <2>1 DEF Asked, Refused, Told
  <2> QED BY <2>2
<1>4. call'.pending = {} BY <1>2, <1>3 DEF Asked
<1>5. \A x \in Ranks : Idle(w'[x]) BY <1>1, <1>3 DEF SingleCall, Asked
<1>6. p' = u /\ told' = told /\ mode' = mode /\ chains' = chains /\ failed' = failed BY DEF Reads
<1>7. ~Unanswered(w[r], call.args) /\ ~Silent(w[r]) BY AnsweredIs, UnansweredIs DEF Silent, Idle
<1>8. \A k : Answered(w[r], k) => k = m BY AnsweredIs
<1>9. CASE m.ok = FALSE
  <2>1. AllSynced(p, told, w) BY <1>3, <1>7, <1>8, <1>9 DEF Asked
  <2>2. AllSynced(p', told', w') BY <1>1, <1>6, <1>9, <2>1, ReadsSynced
  <2>3. Refused' BY <1>2, <1>4, <1>9, <2>2 DEF Refused
  <2>4. SingleCall' BY <1>2, <1>5, <2>3 DEF SingleCall
  <2>5. During' BY <1>2, <1>6, <2>4 DEF During
  <2> QED BY <1>1, <2>5 DEF Inv
<1>10. CASE m.ok = TRUE
  <2>1. Settles(u, r, m.result) BY <1>3, <1>7, <1>8, <1>10 DEF Asked
  <2>2. /\ TablesOK(Ret(u, call.args, r, m.result), ToldBy(told, call.args, m.result))
        /\ ToldBy(told, call.args, m.result) \subseteq 1..chains
        /\ (mode = "radix" => ToldBy(told, call.args, m.result) = {})
        /\ AllSynced(Ret(u, call.args, r, m.result), ToldBy(told, call.args, m.result), w)
    BY <2>1 DEF Settles
  <2>3. AllSynced(Ret(u, call.args, r, m.result), ToldBy(told, call.args, m.result), w') BY <1>1, <2>2, ReadsSynced
  <2>4. call'.got[r] = m.result /\ DOMAIN call'.got = {r} /\ call'.error = FALSE BY <1>2, <1>3, <1>10 DEF Asked
  <2>5. Settles(p, r, call.got[r])' BY <1>2, <1>6, <2>2, <2>3, <2>4 DEF Settles
  <2>6. Told(r)' BY <1>4, <2>4, <2>5 DEF Told
  <2>7. SingleCall' BY <1>2, <1>5, <2>6 DEF SingleCall
  <2>8. During' BY <1>2, <1>6, <2>7 DEF During
  <2> QED BY <1>1, <2>8 DEF Inv
<1> QED BY <1>9, <1>10

\* Reading the reply to a query keeps the invariant.
LEMMA ReceiveQuery ==
  ASSUME Frame, Healthy, During, QueryCall, NEW r \in Ranks, r \in call.pending, NEW m, Answered(w[r], m), m.ok \in BOOLEAN,
         NEW u, Reads(r, u), u = (IF m.ok THEN AfterSnapshot(p, r, m.known) ELSE p),
         TablesOK(u, told), u.closed = p.closed, Taken(call, call', r, m)
  PROVE  Inv'
<1>1. /\ Frame' /\ Healthy' /\ Idle(w'[r]) /\ w'[r].at = w[r].at /\ SameEngine(w[r], w'[r])
      /\ \A x \in Ranks : x # r => w'[x] = w[x]
  BY ReadsIs
<1>2. CallShape' /\ call'.op = call.op /\ call'.args = call.args /\ call'.pending = call.pending \ {r}
  <2>1. CallShape BY DEF During
  <2>2. CallShape' /\ After(call, call', r, m) BY <2>1, TakenIs
  <2> QED BY <2>2 DEF After
<1>3. \A k : Answered(w[r], k) => k = m BY AnsweredIs
<1>4. ~Unanswered(w[r], call.args) /\ ~Silent(w[r]) BY AnsweredIs, UnansweredIs DEF Silent, Idle
<1>5. m.ok = TRUE => m.known = {} BY <1>3, <1>4 DEF QueryCall
<1>6. u = p
  <2>1. AfterSnapshot(p, r, {}) = p BY SnapshotIs DEF Frame
  <2> QED BY <1>5, <2>1
<1>7. p' = p /\ told' = told /\ mode' = mode /\ chains' = chains /\ failed' = failed BY <1>6 DEF Reads
<1>8. AllSynced(p', told', w') BY <1>1, <1>7, ReadsSynced DEF QueryCall
<1>9. QueryCall' BY <1>1, <1>2, <1>8 DEF QueryCall
<1>10. During' BY <1>2, <1>7, <1>9 DEF During
<1> QED BY <1>1, <1>10 DEF Inv

\* The snapshot of rank r and the part of another rank.
LEMMA OtherPart ==
  ASSUME Frame, StepCall, NEW r \in Ranks, NEW x \in Ranks, x # r, NEW S, NEW d,
         d.args = call.args, d.pending = call.pending \ {r}, x \notin call.pending => d.got[x] = call.got[x]
  PROVE  Part(d, AfterSnapshot(p, r, S), told, mode, faults, x, w[x])
<1> DEFINE v == w[x]
<1>1. TablesOK(p, told) BY DEF Frame
<1>2. PICK E \in SUBSET Owned(p, r) : AfterSnapshot(p, r, S) = ForgetChains(p, E) BY <1>1, SnapshotIs
<1> DEFINE u == ForgetChains(p, E)
<1>3. E \subseteq Owned(p, r) OBVIOUS
<1>4. /\ Owned(u, x) = Owned(p, x)
      /\ \A i, rc, next : Linked(p, told, x, i, rc, next) => Linked(u, told, x, i, rc, next)
      /\ \A rc, R, A : Counted(p, x, rc, R, A) => Counted(u, x, rc, R, A)
  BY <1>1, <1>3, SeenOther
<1> HIDE DEF u
<1>5. Part(call, p, told, mode, faults, x, v) BY DEF StepCall
<1>6. Going(p, told, x, v) => Going(u, told, x, v) BY <1>4 DEF Going
<1>7. \A res : Finished(p, told, x, v, res) => Finished(u, told, x, v, res) BY <1>4 DEF Finished
<1>8. \A m : Replied(p, told, mode, x, v, m) => Replied(u, told, mode, x, v, m) BY <1>4, <1>7 DEF Replied
<1>9. \A res : Read(p, told, x, v, res) => Read(u, told, x, v, res) BY <1>4, <1>7 DEF Read
<1>10. Part(d, u, told, mode, faults, x, v) BY <1>5, <1>6, <1>8, <1>9 DEF Part
<1> QED BY <1>2, <1>10 DEF u

\* The snapshot of rank r and its own reply.
LEMMA OwnPart ==
  ASSUME Frame, NEW r \in Ranks, NEW v, NEW m, Replied(p, told, mode, r, v, m)
  PROVE  Read(AfterSnapshot(p, r, m.known), told, r, v, m.result)
<1>1. TablesOK(p, told) /\ mode \in {"chain", "radix"} /\ (mode = "radix" => told = {}) BY DEF Frame
<1>2. m.result.done \subseteq m.result.rows BY DEF Replied
<1>3. CASE v.at = "dead" BY <1>2, <1>3 DEF Read
<1>4. CASE v.at # "dead"
  <2>1. /\ Finished(p, told, r, v, m.result) /\ (mode = "chain" => Resident(v, v.run \cup m.result.done))
        /\ \/ m.known = {Known(v.index)}
           \/ m.known = {} /\ Owned(p, r) \subseteq Known(v.index)
    BY <1>4 DEF Replied
  <2>2. CASE m.known = {} /\ Owned(p, r) \subseteq Known(v.index)
    <3>1. AfterSnapshot(p, r, m.known) = p BY <1>1, <2>2, SnapshotIs
    <3> QED BY <1>2, <2>1, <2>2, <3>1 DEF Read
  <2>3. CASE m.known = {Known(v.index)}
    <3> DEFINE i == v.index
               u == ForgetChains(p, Owned(p, r) \ Known(i))
               R == v.run \cup m.result.done
    <3>1. AfterSnapshot(p, r, {Known(i)}) = u BY <1>1, SnapshotIs, ZenonT(40)
    <3>2. Linked(p, told, r, i, v.recreated, v.next) /\ Counted(p, r, v.recreated, R, {}) BY <2>1 DEF Finished
    <3>3. /\ Linked(u, told, r, i, v.recreated, v.next) /\ Owned(u, r) \subseteq Known(i)
          /\ \A Q, A : /\ Counted(p, r, v.recreated, Q, A)
                       /\ \/ \A s \in Q \ v.recreated : \E c \in DOMAIN i.rec : i.rec[c].seq = s
                          \/ DOMAIN p.chainOwners = {}
                       => Counted(u, r, v.recreated, Q, A)
      BY <1>1, <3>2, SeenSelf
    <3>4. (\A s \in R \ v.recreated : \E c \in DOMAIN i.rec : i.rec[c].seq = s) \/ DOMAIN p.chainOwners = {}
      <4>1. CASE mode = "chain" BY <2>1, <4>1 DEF Resident
      <4>2. CASE mode = "radix" BY <1>1, <4>2 DEF TablesOK, Placed
      <4> QED BY <1>1, <4>1, <4>2
    <3> HIDE DEF u, R
    <3>5. Counted(u, r, v.recreated, R, {}) BY <3>2, <3>3, <3>4
    <3>6. Finished(u, told, r, v, m.result) BY <2>1, <3>3, <3>5 DEF Finished, R
    <3>7. Read(u, told, r, v, m.result) BY <1>2, <3>3, <3>6 DEF Read
    <3> QED BY <2>3, <3>1, <3>7
  <2> QED BY <2>1, <2>2, <2>3
<1> QED BY <1>3, <1>4

\* Reading the reply to a step keeps the invariant.
LEMMA ReceiveStep ==
  ASSUME Frame, Healthy, During, StepCall, NEW r \in Ranks, r \in call.pending, NEW m, Answered(w[r], m), m.ok = TRUE,
         NEW u, Reads(r, u), u = AfterSnapshot(p, r, m.known),
         TablesOK(u, told), u.closed = p.closed, Taken(call, call', r, m)
  PROVE  Inv'
<1>1. /\ Frame' /\ Healthy' /\ Idle(w'[r]) /\ w'[r].at = w[r].at /\ SameEngine(w[r], w'[r])
      /\ \A x \in Ranks : x # r => w'[x] = w[x]
  BY ReadsIs
<1>2. CallShape' /\ After(call, call', r, m)
  <2>1. CallShape BY DEF During
  <2>2. m.ok \in BOOLEAN OBVIOUS
  <2> QED BY <2>1, <2>2, TakenIs
<1>3. /\ call'.op = call.op /\ call'.args = call.args /\ call'.pending = call.pending \ {r} /\ call'.error = call.error
      /\ DOMAIN call'.got = DOMAIN call.got \cup {r} /\ call'.got[r] = m.result
      /\ \A x \in DOMAIN call.got : x # r => call'.got[x] = call.got[x]
  BY <1>2 DEF After
<1>4. p' = u /\ told' = told /\ mode' = mode /\ chains' = chains /\ failed' = failed /\ faults' = faults BY DEF Reads
<1>5. Replied(p, told, mode, r, w[r], m)
  <2>1. Part(call, p, told, mode, faults, r, w[r]) BY DEF StepCall
  <2>2. \A k : Answered(w[r], k) => k = m BY AnsweredIs
  <2>3. ~Unanswered(w[r], call.args) /\ ~Silent(w[r]) BY AnsweredIs, UnansweredIs DEF Silent, Idle
  <2> QED BY <2>1, <2>2, <2>3 DEF Part
<1>6. Read(u, told, r, w[r], m.result) BY <1>5, OwnPart
<1>7. Read(u, told, r, w'[r], m.result) BY <1>1, <1>6 DEF Read, Finished, SameEngine
<1>8. Part(call', p', told', mode', faults', r, w'[r]) BY <1>1, <1>3, <1>4, <1>7 DEF Part
<1>9. ASSUME NEW x \in Ranks, x # r PROVE Part(call', p', told', mode', faults', x, w'[x])
  <2>1. x \notin call.pending => call'.got[x] = call.got[x] BY <1>3, <1>9 DEF StepCall
  <2>2. Part(call', u, told, mode, faults, x, w[x]) BY <1>3, <1>9, <2>1, OtherPart
  <2> QED BY <1>1, <1>4, <1>9, <2>2
<1>10. Collective'
  <2> SUFFICES ASSUME faults = 0 PROVE \A x \in Ranks : w'[x].at = "out" \/ w'[x].in = <<>> BY <1>4 DEF Collective
  <2>1. ~Unanswered(w[r], call.args) BY AnsweredIs, UnansweredIs
  <2>2. \A x \in Ranks : w[x].at = "out" \/ w[x].in = <<>> BY <2>1 DEF StepCall, Collective
  <2> QED BY <1>1, <2>2 DEF Idle
<1>11. DOMAIN call'.got = Ranks \ call'.pending BY <1>3 DEF StepCall
<1>12. StepCall' BY <1>3, <1>8, <1>9, <1>10, <1>11 DEF StepCall
<1>13. During' BY <1>2, <1>4, <1>12 DEF During
<1> QED BY <1>1, <1>13 DEF Inv

\* _receive keeps the invariant.
LEMMA ReceiveInv ==
  ASSUME Inv, NEW r \in Ranks, Receive(r)
  PROVE  Inv'
<1>1. During /\ Frame /\ Healthy /\ r \in call.pending /\ w[r].out # <<>> BY PhaseIs DEF Receive, Inv
<1>2. PICK m : Answered(w[r], m)
  <2>1. ~Unanswered(w[r], call.args) /\ ~Silent(w[r]) BY <1>1, UnansweredIs DEF Silent, Idle
  <2>2. CASE SingleCall
    <3>1. PICK q \in Ranks : Asked(q) \/ Refused \/ Told(q) BY <2>2 DEF SingleCall
    <3>2. Asked(r) BY <1>1, <3>1 DEF Asked, Refused, Told
    <3> QED BY <2>1, <3>2 DEF Asked
  <2>3. CASE QueryCall BY <1>1, <2>1, <2>3 DEF QueryCall
  <2>4. CASE StepCall BY <1>1, <2>1, <2>4 DEF StepCall, Part
  <2> QED BY <1>1, <2>2, <2>3, <2>4 DEF During
<1>3. Head(w[r].out) = m /\ m.ok \in BOOLEAN BY <1>2, AnsweredIs DEF Answered
<1>4. CASE ~m.ok /\ call.op = "step" BY <1>3, <1>4, TerminateInv DEF Receive
<1>5. CASE m.ok \/ call.op # "step"
  <2> DEFINE u == IF m.ok THEN AfterSnapshot(p, r, m.known) ELSE p
  <2>1. Reads(r, u) /\ Taken(call, call', r, m) BY <1>3, <1>5 DEF Receive, Reads, Taken, PendingAfter
  <2>2. TablesOK(u, told) /\ u.closed = p.closed
    <3>1. TablesOK(p, told) BY <1>1 DEF Frame
    <3>2. PICK E \in SUBSET Owned(p, r) : AfterSnapshot(p, r, m.known) = ForgetChains(p, E) BY <3>1, SnapshotIs
    <3>3. TablesOK(ForgetChains(p, E), told) /\ Forgotten(p, ForgetChains(p, E), E) BY <3>1, ForgetIs
    <3> QED BY <3>1, <3>2, <3>3 DEF Forgotten
  <2>3. u = (IF m.ok THEN AfterSnapshot(p, r, m.known) ELSE p) OBVIOUS
  <2> HIDE DEF u
  <2>4. CASE SingleCall BY <1>1, <1>2, <1>3, <2>1, <2>2, <2>3, <2>4, ReceiveSingle
  <2>5. CASE QueryCall BY <1>1, <1>2, <1>3, <2>1, <2>2, <2>3, <2>5, ReceiveQuery
  <2>6. CASE StepCall
    <3>1. call.op = "step" BY <1>1, <2>6 DEF StepCall, During, CallShape
    <3>2. m.ok = TRUE BY <1>3, <1>5, <3>1
    <3>3. u = AfterSnapshot(p, r, m.known) BY <2>3, <3>2
    <3> QED BY <1>1, <1>2, <2>1, <2>2, <2>6, <3>2, <3>3, ReceiveStep
  <2> QED BY <1>1, <2>4, <2>5, <2>6 DEF During
<1> QED BY <1>4, <1>5

-----------------------------------------------------------------------------
(* The call ends                                                           *)

\* What the frontend does with a reply does not close it.
LEMMA RetClosed ==
  ASSUME NEW T, NEW t, TablesOK(t, T), NEW a, NEW q, NEW res
  PROVE  Ret(t, a, q, res).closed = t.closed
<1>1. t \in TablesType BY DEF TablesOK
<1>2. AfterAdmit(t, q, res).closed = t.closed BY <1>1 DEF AfterAdmit, TablesType
<1>3. AfterAbort(t, a.gid, q).closed = t.closed BY <1>1 DEF AfterAbort, ReleaseRequestIdentity, TablesType
<1> QED BY <1>2, <1>3 DEF Ret

\* The end of a call to one rank: all agree.
LEMMA ReturnSingle ==
  ASSUME Inv, Return, During, SingleCall
  PROVE  Frame' /\ Healthy' /\ Between'
<1>1. Frame /\ Healthy /\ call.op = call.args.op /\ call.pending = {} BY DEF Inv, During, CallShape, Return
<1>2. call' = None /\ w' = w /\ mode' = mode /\ chains' = chains /\ faults' = faults BY DEF Return
<1>3. \A q \in Ranks : Idle(w[q]) BY <1>1 DEF SingleCall
<1>4. PICK r \in Ranks : Asked(r) \/ Refused \/ Told(r) BY DEF SingleCall
<1>5. ~Asked(r) BY <1>1 DEF Asked
<1>6. CASE Refused
  <2>1. p' = p /\ told' = told /\ failed' = failed BY <1>6 DEF Refused, Return
  <2>2. Frame' /\ Healthy' BY <1>1, <1>2, <2>1 DEF Frame, Healthy
  <2>3. Between' BY <1>2, <1>3, <1>6, <2>1 DEF Between, Refused, During, None
  <2> QED BY <2>2, <2>3
<1>7. CASE Told(r)
  <2> DEFINE a == call.args
             res == call.got[r]
             u == Ret(p, a, r, res)
             U == ToldBy(told, a, res)
  <2>1. call.error = FALSE /\ DOMAIN call.got = {r} BY <1>7 DEF Told
  <2>2. (CHOOSE q \in Ranks : q \in DOMAIN call.got) = r BY <2>1
  <2>3. a.op \in Single /\ call.op = a.op BY <1>1 DEF SingleCall
  <2>4. p' = u /\ told' = U /\ failed' = failed
    <3>1. CASE a.op = "admit"
      <4>1. p' = AfterAdmit(p, r, res) /\ told' = told \cup ({res.chain} \ {NoChain}) /\ failed' = failed
        BY <2>1, <2>2, <2>3, <3>1 DEF Return
      <4> QED BY <3>1, <4>1 DEF Ret, ToldBy
    <3>2. CASE a.op = "abort"
      <4>1. p' = AfterAbort(p, a.gid, r) /\ told' = told /\ failed' = failed BY <2>1, <2>2, <2>3, <3>2 DEF Return
      <4> QED BY <3>2, <4>1 DEF Ret, ToldBy
    <3>3. CASE a.op = "discard" /\ res
      <4>1. p' = AfterAbort(p, a.gid, r) /\ told' = told /\ failed' = failed BY <2>1, <2>2, <2>3, <3>3 DEF Return
      <4> QED BY <3>3, <4>1 DEF Ret, ToldBy
    <3>4. CASE a.op = "discard" /\ ~res
      <4>1. p' = p /\ told' = told /\ failed' = failed BY <2>1, <2>2, <2>3, <3>4 DEF Return
      <4> QED BY <3>4, <4>1 DEF Ret, ToldBy
    <3>5. CASE a.op = "invalidate"
      <4>1. p' = p /\ told' = told /\ failed' = failed BY <2>1, <2>2, <2>3, <3>5 DEF Return
      <4> QED BY <3>5, <4>1 DEF Ret, ToldBy
    <3> QED BY <2>3, <3>1, <3>2, <3>3, <3>4, <3>5 DEF Single
  <2>5. TablesOK(u, U) /\ U \subseteq 1..chains /\ (mode = "radix" => U = {}) /\ AllSynced(u, U, w)
    BY <1>7 DEF Told, Settles
  <2>6. u.closed = p.closed BY <1>1, RetClosed DEF Frame
  <2> HIDE DEF u, U
  <2>7. Frame' BY <1>1, <1>2, <2>4, <2>5 DEF Frame
  <2>8. Healthy' BY <1>1, <1>2, <2>4, <2>6 DEF Healthy
  <2>9. Between' BY <1>2, <1>3, <2>4, <2>5, <2>6 DEF Between, During, None
  <2> QED BY <2>7, <2>8, <2>9
<1> QED BY <1>4, <1>5, <1>6, <1>7

\* The end of a query: all agree.
LEMMA ReturnQuery ==
  ASSUME Inv, Return, During, QueryCall
  PROVE  Frame' /\ Healthy' /\ Between'
<1>1. Frame /\ Healthy /\ call.op = "query" /\ call.pending = {} BY DEF Inv, During, CallShape, Return, QueryCall
<1>2. call' = None /\ w' = w /\ mode' = mode /\ chains' = chains /\ faults' = faults BY DEF Return
<1>3. p' = p /\ told' = told /\ failed' = failed BY <1>1 DEF Return
<1>4. Frame' /\ Healthy' BY <1>1, <1>2, <1>3 DEF Frame, Healthy
<1>5. Between' BY <1>1, <1>2, <1>3 DEF Between, QueryCall, During, None
<1> QED BY <1>4, <1>5

\* The end of a step: all agree, or a row could not be translated.
LEMMA ReturnStep ==
  ASSUME Inv, Return, During, StepCall
  PROVE  Frame' /\ Healthy' /\ (Between' \/ Stranded')
<1>1. Frame /\ Healthy /\ call.op = "step" /\ call.error = FALSE /\ call.pending = {}
  BY DEF Inv, During, CallShape, Return, StepCall
<1>2. call' = None /\ w' = w /\ mode' = mode /\ chains' = chains /\ faults' = faults BY DEF Return
<1>3. \A q \in Ranks : Idle(w[q]) /\ Read(p, told, q, w[q], call.got[q]) BY <1>1 DEF StepCall, Part
<1>4. CASE \E q \in Ranks : ~Translates(p, q, call.got[q].rows)
  <2>1. failed' = TRUE /\ p' = p /\ told' = told BY <1>1, <1>4 DEF Return
  <2>2. Frame' /\ Healthy' BY <1>1, <1>2, <2>1 DEF Frame, Healthy
  <2>3. Stranded' BY <1>2, <1>3, <2>1 DEF Stranded, Piped, During, None
  <2> QED BY <2>2, <2>3
<1>5. CASE \A q \in Ranks : Translates(p, q, call.got[q].rows)
  <2> DEFINE u == AfterStep(p, call.got)
  <2>1. p' = u /\ told' = told /\ failed' = failed BY <1>1, <1>5 DEF Return
  <2>2. TablesOK(p, told) BY <1>1 DEF Frame
  <2>3. TablesOK(u, told) /\ u.closed = p.closed BY <2>2, StepIs DEF Stepped
  <2>4. \A z \in Ranks : \A s \in call.got[z].done : Id(z, s) \in DOMAIN p.globals
    BY <1>3, <1>5 DEF Translates, Read, Id
  <2>5. ASSUME NEW q \in Ranks, w[q].at # "dead" PROVE Synced(u, told, q, w[q])
    <3> DEFINE v == w[q]
               D == call.got[q].done
    <3>1. Finished(p, told, q, v, call.got[q]) /\ Owned(p, q) \subseteq Known(v.index) BY <1>3, <2>5 DEF Read
    <3>2. /\ Owned(u, q) = Owned(p, q)
          /\ \A i, rc, next : Linked(p, told, q, i, rc, next) => Linked(u, told, q, i, rc, next)
          /\ \A rc, R : Counted(p, q, rc, R \cup D, {}) /\ R \cap D = {} => Counted(u, q, rc, R, {})
      BY <2>2, <2>4, StepLinks
    <3> HIDE DEF u, D
    <3>3. Counted(p, q, v.recreated, v.run \cup D, {}) /\ v.run \cap D = {} BY <3>1 DEF Finished, D
    <3>4. Counted(u, q, v.recreated, v.run, {}) BY <3>2, <3>3
    <3>5. Linked(u, told, q, v.index, v.recreated, v.next) /\ v.previous = Snapshot(v.index) BY <3>1, <3>2 DEF Finished
    <3> QED BY <3>1, <3>2, <3>4, <3>5 DEF Synced, Sync
  <2> HIDE DEF u
  <2>6. Frame' BY <1>1, <1>2, <2>1, <2>3 DEF Frame
  <2>7. Healthy' BY <1>1, <1>2, <2>1, <2>3 DEF Healthy
  <2>8. AllSynced(u, told, w) BY <2>5 DEF AllSynced
  <2>9. Between' BY <1>2, <1>3, <2>1, <2>3, <2>8 DEF Between, During, None
  <2> QED BY <2>6, <2>7, <2>9
<1> QED BY <1>4, <1>5

\* The end of a call keeps the invariant.
LEMMA ReturnInv ==
  ASSUME Inv, Return
  PROVE  Inv' /\ p'.closed = FALSE
<1>1. During BY PhaseIs DEF Return
<1>2. Frame' /\ Healthy' /\ (Between' \/ Stranded')
  BY <1>1, ReturnSingle, ReturnQuery, ReturnStep DEF During
<1> QED BY <1>2 DEF Inv, Between, Stranded

-----------------------------------------------------------------------------
(* The theorems                                                            *)

\* Every step keeps the invariant.
LEMMA NextInv ==
  ASSUME Inv, Next
  PROVE  Inv'
<1>1. ASSUME NEW c \in told \cup {NoChain}, NEW fits \in {"extends", "differs", "append differs"}, AdmitRequest(c, fits)
      PROVE  Inv'
  BY <1>1, AdmitRequestInv
<1>2. ASSUME NEW g, AbortRequest(g) PROVE Inv' BY <1>2, AbortRequestInv
<1>3. ASSUME NEW c, InvalidateChain(c) PROVE Inv' BY <1>3, InvalidateChainInv
<1>4. ASSUME NEW c, NEW g, DiscardChain(c, g) PROVE Inv' BY <1>4, DiscardChainInv
<1>5. CASE Query \/ Step BY <1>5, CallAllInv
<1>6. CASE Meet BY <1>6, MeetInv
<1>7. CASE Return BY <1>7, ReturnInv
<1>8. CASE TimesOut \/ Exit BY <1>8, ReceiveEndInv
<1>9. ASSUME NEW r \in Ranks,
             \/ HandleControl(r) \/ HandleRaises(r) \/ StepReclaim(r) \/ StepSchedule(r) \/ StepFinish(r)
             \/ StepRaises(r) \/ Crash(r) \/ Receive(r) \/ ReceiveEnd(r)
      PROVE  Inv'
  BY <1>9, HandleControlInv, HandleRaisesInv, StepReclaimInv, StepScheduleInv, StepFinishInv, StepRaisesInv,
     CrashInv, ReceiveInv, ReceiveEndInv
<1> QED BY <1>1, <1>2, <1>3, <1>4, <1>5, <1>6, <1>7, <1>8, <1>9 DEF Next

\* Nothing happens.
LEMMA StutterInv ==
  ASSUME Inv, UNCHANGED vars
  PROVE  Inv'
<1>1. /\ p' = p /\ call' = call /\ w' = w /\ mode' = mode /\ chains' = chains /\ told' = told
      /\ faults' = faults /\ failed' = failed
  BY DEF vars
<1>2. Frame' /\ Healthy' BY <1>1 DEF Inv, Frame, Healthy
<1>3. Closed => Closed' BY <1>1 DEF Closed
<1>4. Stranded => Stranded' BY <1>1 DEF Stranded
<1>5. Between => Between' BY <1>1 DEF Between
<1>6. During => During'
  <2>1. CallShape => CallShape' BY <1>1 DEF CallShape
  <2>2. QueryCall => QueryCall' BY <1>1 DEF QueryCall
  <2>3. StepCall => StepCall' BY <1>1 DEF StepCall, Collective
  <2>4. SingleCall => SingleCall' BY <1>1 DEF SingleCall, Asked, Refused, Told, Settles
  <2> QED BY <1>1, <2>1, <2>2, <2>3, <2>4 DEF During
<1> QED BY <1>2, <1>3, <1>4, <1>5, <1>6 DEF Inv

\* The invariant always holds.
LEMMA AlwaysInv == Spec => []Inv
<1>1. Init => Inv BY InitInv
<1>2. Inv /\ [Next]_vars => Inv' BY NextInv, StutterInv
<1> QED BY <1>1, <1>2, PTL DEF Spec

\* The invariant implies the types and bounds.
LEMMA InvTypeOK ==
  ASSUME Inv
  PROVE  TypeOK
<1>1. Frame BY DEF Inv
<1>2. TablesOK(p, told) BY <1>1 DEF Frame
<1>3. Numbered(p) /\ Placed(p, told) BY <1>2 DEF TablesOK
<1>4. {MaxAdmits, MaxChains, MaxFaults} \subseteq Nat BY DPEngineAssumption
<1>5. p.next \in 1..(MaxAdmits + 1) /\ Given(p) \subseteq 1..MaxAdmits BY <1>3, <1>4 DEF Numbered, Given
<1>6. p.chainSeqIds \subseteq 1..MaxAdmits /\ \A r \in Ranks : p.active[r] \subseteq 1..MaxAdmits
  BY <1>3, <1>5 DEF Numbered
<1>7. DOMAIN p.chainOwners \subseteq told BY <1>3 DEF Placed
<1>8. chains \in 0..MaxChains /\ faults \in 0..MaxFaults BY <1>1, <1>4 DEF Frame
<1>9. ASSUME NEW r \in Ranks
      PROVE  /\ w[r].at \in {"free", "in", "out", "dead"}
             /\ Len(w[r].index.tomb) <= MaxTombstones /\ Cardinality(DOMAIN w[r].index.rec) <= MaxRows
             /\ \A s \in 1..MaxAdmits : Cardinality(ChainsOf(w[r].index, s)) <= 1
  <2> DEFINE i == w[r].index
  <2>1. IndexOK(i, chains) /\ w[r].at \in Ats BY <1>1 DEF Frame, Worker, EngineOK
  <2>2. ASSUME NEW s PROVE Cardinality(ChainsOf(i, s)) <= 1
    <3>1. CASE ChainsOf(i, s) = {} BY <3>1, FS_EmptySet
    <3>2. CASE ChainsOf(i, s) # {}
      <4>1. PICK c : c \in ChainsOf(i, s) BY <3>2
      <4>2. ChainsOf(i, s) = {c} BY <2>1, <4>1 DEF ChainsOf, IndexOK
      <4> QED BY <4>2, FS_Singleton
    <3> QED BY <3>1, <3>2
  <2>3. Len(i.tomb) <= MaxTombstones /\ Cardinality(DOMAIN i.rec) <= MaxRows BY <2>1 DEF IndexOK
  <2> QED BY <2>1, <2>2, <2>3 DEF Ats
<1> QED BY <1>5, <1>6, <1>7, <1>8, <1>9 DEF TypeOK

\* The invariant implies RoutingSound.
LEMMA InvRouting ==
  ASSUME Inv
  PROVE  RoutingSound
<1>1. TypeOK BY InvTypeOK
<1>2. TablesOK(p, told) BY DEF Inv, Frame
<1>3. Mirrored(p) /\ Placed(p, told) BY <1>2 DEF TablesOK
<1>4. ASSUME Quiet, NEW r \in Alive PROVE r \in Ranks /\ Synced(p, told, r, w[r])
  BY <1>4, PhaseIs DEF Quiet, Alive, Dead, Between, AllSynced
<1>5. IdentitiesKept
  <2>1. ASSUME Quiet, NEW r \in Alive, NEW c \in DOMAIN w[r].index.rec, w[r].index.rec[c].seq \notin w[r].recreated
        PROVE  LET s == w[r].index.rec[c].seq
               IN  /\ c \in DOMAIN p.chainSequences /\ Id(r, s) \in DOMAIN p.globals
                   /\ p.globals[Id(r, s)] = p.chainSequences[c]
    <3>1. Linked(p, told, r, w[r].index, w[r].recreated, w[r].next) BY <1>4, <2>1 DEF Synced, Sync
    <3> QED BY <2>1, <3>1 DEF Linked, Identified
  <2> QED BY <1>3, <2>1 DEF IdentitiesKept, Mirrored
<1>6. ChainsRouted
  <2>1. ASSUME Quiet, NEW r \in Alive
        PROVE  {c \in DOMAIN p.chainOwners : p.chainOwners[c] = r} = Known(w[r].index) \cap told
    <3>1. Owned(p, r) \subseteq Known(w[r].index) /\ Known(w[r].index) \cap told \subseteq Owned(p, r)
      BY <1>4, <2>1 DEF Synced, Sync, Linked
    <3>2. Owned(p, r) \subseteq told BY <1>3 DEF Placed, Owned
    <3>3. Owned(p, r) = Known(w[r].index) \cap told BY <3>1, <3>2
    <3> QED BY <3>3 DEF Owned
  <2> QED BY <2>1 DEF ChainsRouted
<1> QED BY <1>1, <1>5, <1>6 DEF RoutingSound

\* The invariant implies CallsSettled.
LEMMA InvSettled ==
  ASSUME Inv
  PROVE  CallsSettled
<1>1. ActiveExact
  <2>1. ASSUME Quiet, NEW r \in Alive, w[r].recreated = {}
        PROVE  /\ \A s \in w[r].run : Id(r, s) \in DOMAIN p.globals
               /\ p.active[r] = {p.globals[Id(r, s)] : s \in w[r].run}
    <3>1. Counted(p, r, w[r].recreated, w[r].run, {})
      BY <2>1, PhaseIs DEF Quiet, Alive, Dead, Between, AllSynced, Synced, Sync
    <3>2. p.active[r] \ {} = p.active[r] OBVIOUS
    <3> QED BY <2>1, <3>1, <3>2 DEF Counted
  <2> QED BY <2>1 DEF ActiveExact
<1>2. QuietBetweenCalls BY PhaseIs DEF QuietBetweenCalls, Quiet, Between, Idle, Dead
<1> QED BY <1>1, <1>2 DEF CallsSettled

\* The invariant implies OneWriter.
LEMMA InvOneWriter ==
  ASSUME Inv
  PROVE  OneWriter
<1> SUFFICES ASSUME NEW r \in Ranks, mode = "chain"
             PROVE  /\ {w[r].index.rec[c].seq : c \in InState(w[r].index, "active")} \subseteq w[r].run
                    /\ w[r].run \ w[r].recreated \subseteq {w[r].index.rec[c].seq : c \in InState(w[r].index, "active")}
  BY DEF OneWriter, Alive
<1>1. Writers(w[r].index, w[r].run, w[r].recreated) BY DEF Inv, Frame, Worker, EngineOK
<1> QED BY <1>1 DEF Writers

\* The group is not torn down without a fault.
LEMMA TornDown ==
  ASSUME Inv, Next, p'.closed, Waiting
  PROVE  faults > 0
<1>1. During /\ p.closed = FALSE /\ Frame /\ Healthy BY PhaseIs DEF During, Inv
<1>2. faults \in Nat BY <1>1 DEF Frame
<1>3. (\E x \in Ranks : w[x].at = "dead") => faults > 0 BY <1>1, <1>2 DEF Healthy
<1>4. p' # p BY <1>1
<1>5. CASE Return BY <1>5, ReturnInv
<1>6. CASE TimesOut
  <2>1. CASE \E r \in Ranks : Gone(r) BY <1>3, <2>1 DEF Gone, Dead
  <2>2. CASE \A r \in call.pending : w[r].at = "in" /\ \E q \in Ranks : w[q].at # "in" /\ w[q].in = <<>>
    <3>1. PICK x \in call.pending : w[x].at = "in" BY <1>6, <2>2 DEF TimesOut
    <3>2. x \in Ranks BY <1>1, <3>1 DEF During, CallShape
    <3>3. PICK q \in Ranks : w[q].at # "in" /\ w[q].in = <<>> BY <2>2, <3>1
    <3>4. Stepping(x) BY <3>1, <3>2, StepAtWork
    <3>5. PICK a : Unanswered(w[x], a) /\ StepCall BY <1>1, <3>4 DEF Stepping, Stranded, During
    <3>6. ~(w[x].at = "out" \/ w[x].in = <<>>) BY <3>1, <3>5, UnansweredIs
    <3>7. ~Unanswered(w[q], call.args) BY <3>3, UnansweredIs
    <3>8. faults # 0 BY <3>2, <3>3, <3>5, <3>6, <3>7 DEF StepCall, Collective
    <3> QED BY <1>2, <3>8
  <2> QED BY <1>6, <2>1, <2>2 DEF TimesOut, GivesUp
<1>7. ASSUME NEW r \in Ranks, ReceiveEnd(r) PROVE faults > 0 BY <1>3, <1>7 DEF ReceiveEnd, Gone, Dead
<1>8. ASSUME NEW r \in Ranks, Receive(r) PROVE faults > 0
  <2> DEFINE m == Head(w[r].out)
  <2>1. CASE ~m.ok /\ call.op = "step"
    <3>1. StepCall /\ r \in call.pending /\ w[r].out # <<>>
      BY <1>1, <1>8, <2>1 DEF During, CallShape, SingleCall, QueryCall, Single, Receive
    <3>2. Part(call, p, told, mode, faults, r, w[r]) BY <3>1 DEF StepCall
    <3>3. ~Unanswered(w[r], call.args) /\ ~Silent(w[r]) BY <3>1, UnansweredIs DEF Silent, Idle
    <3>4. PICK k : Answered(w[r], k) /\ (IF k.ok THEN Replied(p, told, mode, r, w[r], k) ELSE faults > 0)
      BY <3>1, <3>2, <3>3 DEF Part
    <3>5. k = m BY <3>4, AnsweredIs
    <3> QED BY <2>1, <3>4, <3>5
  <2>2. CASE m.ok \/ call.op # "step"
    <3>1. p' = IF m.ok THEN AfterSnapshot(p, r, m.known) ELSE p BY <1>8, <2>2 DEF Receive
    <3>2. TablesOK(p, told) BY <1>1 DEF Frame
    <3>3. PICK E \in SUBSET Owned(p, r) : AfterSnapshot(p, r, m.known) = ForgetChains(p, E) BY <3>2, SnapshotIs
    <3>4. ForgetChains(p, E).closed = p.closed BY <3>2, ForgetIs DEF Forgotten
    <3> QED BY <1>1, <3>1, <3>3, <3>4
  <2> QED BY <2>1, <2>2
<1>9. ASSUME NEW r \in Ranks,
             \/ HandleControl(r) \/ HandleRaises(r) \/ StepReclaim(r) \/ StepSchedule(r) \/ StepFinish(r)
             \/ StepRaises(r) \/ Crash(r)
      PROVE  FALSE
  BY <1>4, <1>9 DEF HandleControl, HandleRaises, StepReclaim, StepSchedule, StepFinish, StepRaises, Crash
<1>10. ~Meet /\ ~Exit /\ ~Query /\ ~Step BY <1>4 DEF Meet, Exit, Query, Step
<1>11. \A c, g : ~AbortRequest(g) /\ ~InvalidateChain(c) /\ ~DiscardChain(c, g)
  BY <1>4 DEF AbortRequest, InvalidateChain, DiscardChain
<1>12. \A c, fits : ~AdmitRequest(c, fits) BY <1>4 DEF AdmitRequest
<1> QED BY <1>5, <1>6, <1>7, <1>8, <1>9, <1>10, <1>11, <1>12 DEF Next

\* Requests and chains are always found where they are, under the identity
\* clients were given, for any number of ranks, requests, chains and faults
\* (_owners, _global_ids, _chain_owners, _chain_sequences).
THEOREM RoutingAlwaysSound == Spec => []RoutingSound
<1>1. Inv => RoutingSound BY InvRouting
<1> QED BY <1>1, AlwaysInv, PTL

\* A call that is over is over on every rank, and the active sets are what the
\* ranks run, whatever raised or died in it (_receive, _active).
THEOREM CallsAlwaysSettled == Spec => []CallsSettled
<1>1. Inv => CallsSettled BY InvSettled
<1> QED BY <1>1, AlwaysInv, PTL

\* A chain is active while its request runs and only then, on every rank and
\* with any interleaving of admissions, reclaims and steps (chain_cache.py).
THEOREM OneWriterAlways == Spec => []OneWriter
<1>1. Inv => OneWriter BY InvOneWriter
<1> QED BY <1>1, AlwaysInv, PTL

\* Inside a call the group is torn down only after a worker failed: no step
\* leaves some ranks in the collective and others outside (_receive).
THEOREM AlwaysTornDownForCause == Spec => TornDownForCause
<1>1. Inv /\ [Next]_vars => [p'.closed /\ Waiting => faults > 0]_vars BY TornDown
<1> QED BY <1>1, AlwaysInv, PTL DEF Spec, TornDownForCause

=============================================================================
