-------------------------- MODULE SyncAccountProofs --------------------------
(***************************************************************************)
(* No request is lost: proofs about where the requests of SyncEngine are   *)
(* and what they hold, for every number of requests and faults.            *)
(***************************************************************************)
EXTENDS SyncEngineProofs

-----------------------------------------------------------------------------
(* Queues without repetition.                                              *)

Distinct(q) == \A i, j \in DOMAIN q : q[i] = q[j] => i = j
Disjoint(p, q) == ToSet(p) \cap ToSet(q) = {}

\* The empty queue.
LEMMA EmptyQueue ==
  /\ Distinct(<<>>) /\ ToSet(<<>>) = {} /\ <<>> \in Seq(Req)
BY DEF Distinct, ToSet

\* append() of a request that is not queued yet.
LEMMA AppendQueue ==
  ASSUME NEW q \in Seq(Req), NEW r \in Req
  PROVE  /\ Append(q, r) \in Seq(Req)
         /\ ToSet(Append(q, r)) = ToSet(q) \cup {r}
         /\ Distinct(q) /\ r \notin ToSet(q) => Distinct(Append(q, r))
<1>1. /\ Append(q, r) \in Seq(Req) /\ Len(q) \in Nat
      /\ DOMAIN q = 1..Len(q) /\ DOMAIN Append(q, r) = 1..(Len(q) + 1)
      /\ \A i \in 1..Len(q) : Append(q, r)[i] = q[i]
      /\ Append(q, r)[Len(q) + 1] = r
  BY AppendProperties
<1> DEFINE a == Append(q, r)
<1> HIDE DEF a
<1>2. ToSet(a) = ToSet(q) \cup {r}
  <2>1. ASSUME NEW i \in 1..(Len(q) + 1) PROVE a[i] \in ToSet(q) \cup {r}
    BY <1>1 DEF ToSet, a
  <2>2. ASSUME NEW i \in 1..Len(q) PROVE q[i] \in ToSet(a)
    BY <1>1 DEF ToSet, a
  <2>3. r \in ToSet(a) BY <1>1 DEF ToSet, a
  <2> QED BY <1>1, <2>1, <2>2, <2>3 DEF ToSet, a
<1>3. ASSUME Distinct(q), r \notin ToSet(q) PROVE Distinct(a)
  <2> SUFFICES ASSUME NEW i \in 1..(Len(q) + 1), NEW j \in 1..(Len(q) + 1), a[i] = a[j]
               PROVE  i = j
    BY <1>1 DEF Distinct, a
  <2>1. \A k \in 1..Len(q) : a[k] = q[k] /\ q[k] # r BY <1>1, <1>3 DEF ToSet, a
  <2>2. a[Len(q) + 1] = r BY <1>1 DEF a
  <2> QED BY <1>1, <1>3, <2>1, <2>2 DEF Distinct
<1> QED BY <1>1, <1>2, <1>3 DEF a

\* popleft()
LEMMA TailQueue ==
  ASSUME NEW q \in Seq(Req), q # <<>>
  PROVE  /\ Tail(q) \in Seq(Req) /\ Head(q) \in Req /\ Head(q) \in ToSet(q)
         /\ ToSet(Tail(q)) \subseteq ToSet(q)
         /\ ToSet(q) = ToSet(Tail(q)) \cup {Head(q)}
         /\ Distinct(q) => /\ Distinct(Tail(q)) /\ Head(q) \notin ToSet(Tail(q))
                           /\ ToSet(Tail(q)) = ToSet(q) \ {Head(q)}
<1>1. /\ Tail(q) \in Seq(Req) /\ Len(q) \in Nat \ {0} /\ Head(q) = q[1]
      /\ DOMAIN q = 1..Len(q) /\ DOMAIN Tail(q) = 1..(Len(q) - 1)
      /\ \A i \in 1..(Len(q) - 1) : Tail(q)[i] = q[i + 1]
      /\ \A i \in 1..Len(q) : q[i] \in Req
  BY HeadTailProperties, EmptySeq
<1> DEFINE t == Tail(q)
<1> HIDE DEF t
<1>2. ASSUME NEW i \in 1..(Len(q) - 1) PROVE t[i] \in ToSet(q)
  BY <1>1 DEF ToSet, t
<1>3. ASSUME NEW i \in 1..Len(q) PROVE q[i] \in ToSet(t) \cup {Head(q)}
  <2>1. CASE i = 1 BY <1>1, <2>1
  <2>2. CASE i # 1
    <3>1. i - 1 \in 1..(Len(q) - 1) /\ t[i - 1] = q[i] BY <1>1, <2>2 DEF t
    <3> QED BY <1>1, <3>1 DEF ToSet, t
  <2> QED BY <2>1, <2>2
<1>4. Head(q) \in ToSet(q) /\ Head(q) \in Req BY <1>1 DEF ToSet
<1>5. ToSet(t) \subseteq ToSet(q) BY <1>1, <1>2 DEF ToSet, t
<1>6. ToSet(q) = ToSet(t) \cup {Head(q)} BY <1>1, <1>3, <1>4, <1>5 DEF ToSet
<1>7. ASSUME Distinct(q) PROVE Distinct(t) /\ Head(q) \notin ToSet(t)
  <2>1. ASSUME NEW i \in 1..(Len(q) - 1), NEW j \in 1..(Len(q) - 1), t[i] = t[j]
        PROVE  i = j
    <3>1. q[i + 1] = q[j + 1] /\ i + 1 \in 1..Len(q) /\ j + 1 \in 1..Len(q)
      BY <1>1, <2>1 DEF t
    <3>2. i + 1 = j + 1 BY <1>1, <1>7, <3>1 DEF Distinct
    <3> QED BY <3>2
  <2>2. ASSUME NEW i \in 1..(Len(q) - 1) PROVE t[i] # Head(q)
    <3>1. t[i] = q[i + 1] /\ i + 1 \in 1..Len(q) /\ 1 \in 1..Len(q) /\ i + 1 # 1
      BY <1>1 DEF t
    <3> QED BY <1>1, <1>7, <3>1 DEF Distinct
  <2> QED BY <1>1, <2>1, <2>2 DEF Distinct, ToSet, t
<1> QED BY <1>1, <1>4, <1>5, <1>6, <1>7 DEF t

\* extendleft(reversed()) and extend()
LEMMA ConcatQueue ==
  ASSUME NEW p \in Seq(Req), NEW q \in Seq(Req)
  PROVE  /\ p \o q \in Seq(Req)
         /\ ToSet(p \o q) = ToSet(p) \cup ToSet(q)
         /\ Distinct(p) /\ Distinct(q) /\ Disjoint(p, q) => Distinct(p \o q)
<1>1. /\ p \o q \in Seq(Req) /\ Len(p) \in Nat /\ Len(q) \in Nat
      /\ DOMAIN p = 1..Len(p) /\ DOMAIN q = 1..Len(q)
      /\ DOMAIN (p \o q) = 1..(Len(p) + Len(q))
      /\ \A i \in 1..Len(p) : (p \o q)[i] = p[i]
      /\ \A i \in 1..Len(q) : (p \o q)[Len(p) + i] = q[i]
  BY ConcatProperties
<1> DEFINE c == p \o q
<1> HIDE DEF c
<1>2. ASSUME NEW i \in 1..(Len(p) + Len(q)), i \notin 1..Len(p)
      PROVE  i - Len(p) \in 1..Len(q) /\ c[i] = q[i - Len(p)]
  <2>1. i - Len(p) \in 1..Len(q) /\ Len(p) + (i - Len(p)) = i BY <1>1, <1>2
  <2> QED BY <1>1, <2>1 DEF c
<1>3. \A i \in 1..Len(p) : c[i] = p[i] BY <1>1 DEF c
<1>4. ToSet(c) = ToSet(p) \cup ToSet(q)
  <2>1. ASSUME NEW i \in 1..(Len(p) + Len(q)) PROVE c[i] \in ToSet(p) \cup ToSet(q)
    BY <1>1, <1>2, <1>3 DEF ToSet
  <2>2. ASSUME NEW i \in 1..Len(p) PROVE p[i] \in ToSet(c)
    <3>1. i \in 1..(Len(p) + Len(q)) /\ c[i] = p[i] BY <1>1, <1>3
    <3> QED BY <1>1, <3>1 DEF ToSet, c
  <2>3. ASSUME NEW i \in 1..Len(q) PROVE q[i] \in ToSet(c)
    <3>1. Len(p) + i \in 1..(Len(p) + Len(q)) /\ c[Len(p) + i] = q[i] BY <1>1 DEF c
    <3> QED BY <1>1, <3>1 DEF ToSet, c
  <2> QED BY <1>1, <2>1, <2>2, <2>3, ZenonT(30) DEF ToSet, c
<1>5. ASSUME Distinct(p), Distinct(q), Disjoint(p, q) PROVE Distinct(c)
  <2> SUFFICES ASSUME NEW i \in 1..(Len(p) + Len(q)), NEW j \in 1..(Len(p) + Len(q)),
                      c[i] = c[j]
               PROVE  i = j
    BY <1>1 DEF Distinct, c
  <2>1. \A m \in 1..Len(p), n \in 1..Len(q) : p[m] # q[n]
    BY <1>1, <1>5 DEF Disjoint, ToSet
  <2>2. CASE i \in 1..Len(p) /\ j \in 1..Len(p)
    BY <1>1, <1>3, <1>5, <2>2 DEF Distinct
  <2>3. CASE i \in 1..Len(p) /\ j \notin 1..Len(p) BY <1>2, <1>3, <2>1, <2>3
  <2>4. CASE i \notin 1..Len(p) /\ j \in 1..Len(p) BY <1>2, <1>3, <2>1, <2>4
  <2>5. CASE i \notin 1..Len(p) /\ j \notin 1..Len(p)
    <3>1. /\ i - Len(p) \in 1..Len(q) /\ c[i] = q[i - Len(p)]
          /\ j - Len(p) \in 1..Len(q) /\ c[j] = q[j - Len(p)]
      BY <1>2, <2>5
    <3>2. i - Len(p) = j - Len(p) BY <1>1, <1>5, <3>1 DEF Distinct
    <3> QED BY <1>1, <3>2
  <2> QED BY <2>2, <2>3, <2>4, <2>5
<1> QED BY <1>1, <1>4, <1>5 DEF c

\* A part of a queue.
LEMMA SubQueue ==
  ASSUME NEW q \in Seq(Req), NEW m \in Nat \ {0}, NEW n \in 0..Len(q)
  PROVE  /\ SubSeq(q, m, n) \in Seq(Req)
         /\ \A r : r \in ToSet(SubSeq(q, m, n)) <=> \E i \in m..n : q[i] = r
         /\ Distinct(q) => Distinct(SubSeq(q, m, n))
<1> DEFINE s == SubSeq(q, m, n)
<1>1. /\ s \in Seq(Req) /\ Len(q) \in Nat /\ DOMAIN q = 1..Len(q)
      /\ Len(s) = IF m <= n THEN n - m + 1 ELSE 0
      /\ DOMAIN s = 1..Len(s)
      /\ \A i \in 1..(n - m + 1) : s[i] = q[m + i - 1]
  BY SubSeqProperties
<1> HIDE DEF s
<1>2. ASSUME NEW i \in 1..Len(s) PROVE m + i - 1 \in m..n /\ s[i] = q[m + i - 1]
  BY <1>1
<1>3. ASSUME NEW i \in m..n PROVE i - m + 1 \in 1..Len(s) /\ s[i - m + 1] = q[i]
  <2>1. i - m + 1 \in 1..(n - m + 1) /\ m + (i - m + 1) - 1 = i BY <1>1
  <2> QED BY <1>1, <2>1
<1>4. ASSUME NEW r PROVE r \in ToSet(s) <=> \E i \in m..n : q[i] = r
  <2>1. ASSUME r \in ToSet(s) PROVE \E i \in m..n : q[i] = r
    <3>1. PICK i \in 1..Len(s) : s[i] = r BY <1>1, <2>1 DEF ToSet
    <3> QED BY <1>2, <3>1
  <2>2. ASSUME NEW i \in m..n, q[i] = r PROVE r \in ToSet(s)
    BY <1>1, <1>3, <2>2 DEF ToSet
  <2> QED BY <2>1, <2>2
<1>5. ASSUME Distinct(q), NEW i \in 1..Len(s), NEW j \in 1..Len(s), s[i] = s[j]
      PROVE  i = j
  <2>1. m + i - 1 \in 1..Len(q) /\ m + j - 1 \in 1..Len(q) BY <1>1, <1>2
  <2>2. m + i - 1 = m + j - 1 BY <1>1, <1>2, <1>5, <2>1 DEF Distinct
  <2> QED BY <2>2
<1> QED BY <1>1, <1>4, <1>5 DEF Distinct, s

\* deque.remove
LEMMA RemoveQueue ==
  ASSUME NEW q \in Seq(Req), NEW r, Distinct(q)
  PROVE  /\ RemoveFirst(q, r) \in Seq(Req) /\ Distinct(RemoveFirst(q, r))
         /\ ToSet(RemoveFirst(q, r)) = ToSet(q) \ {r}
<1>0. Len(q) \in Nat /\ DOMAIN q = 1..Len(q) OBVIOUS
<1>1. CASE \E i \in 1..Len(q) : q[i] = r
  <2> DEFINE I == {i \in 1..Len(q) : q[i] = r}
  <2>1. I # {} /\ I \subseteq Nat BY <1>0, <1>1
  <2>2. Min(I) \in I BY <2>1, MinOfNaturals
  <2>3. PICK k \in 1..Len(q) : k = Min(I) /\ q[k] = r BY <2>2
  <2>4. RemoveFirst(q, r) = RemoveAt(q, k)
    BY <1>1, <2>1, <2>3 DEF RemoveFirst, SelectInSeq
  <2> DEFINE a == SubSeq(q, 1, k - 1)
             b == SubSeq(q, k + 1, Len(q))
  <2>5. RemoveFirst(q, r) = a \o b BY <2>4 DEF RemoveAt
  <2>6. 1 \in Nat \ {0} /\ k + 1 \in Nat \ {0} /\ k - 1 \in 0..Len(q) /\ Len(q) \in 0..Len(q)
    BY <1>0
  <2>7. /\ a \in Seq(Req) /\ b \in Seq(Req) /\ Distinct(a) /\ Distinct(b)
        /\ \A x : x \in ToSet(a) <=> \E i \in 1..(k - 1) : q[i] = x
        /\ \A x : x \in ToSet(b) <=> \E i \in (k + 1)..Len(q) : q[i] = x
    BY <2>6, SubQueue
  <2> HIDE DEF a, b, I
  <2>8. Disjoint(a, b)
    <3> SUFFICES ASSUME NEW x, x \in ToSet(a), x \in ToSet(b) PROVE FALSE BY DEF Disjoint
    <3>1. PICK i \in 1..(k - 1) : q[i] = x BY <2>7
    <3>2. PICK j \in (k + 1)..Len(q) : q[j] = x BY <2>7
    <3>3. i \in 1..Len(q) /\ j \in 1..Len(q) /\ i # j BY <1>0
    <3> QED BY <1>0, <3>1, <3>2, <3>3 DEF Distinct
  <2>9. ToSet(a) \cup ToSet(b) = ToSet(q) \ {r}
    <3>1. ASSUME NEW x, x \in ToSet(a) \cup ToSet(b) PROVE x \in ToSet(q) \ {r}
      <4>1. PICK i \in 1..Len(q) : q[i] = x /\ i # k BY <1>0, <2>7, <3>1
      <4>2. x # r BY <1>0, <2>3, <4>1 DEF Distinct
      <4> QED BY <1>0, <4>1, <4>2 DEF ToSet
    <3>2. ASSUME NEW x, x \in ToSet(q) \ {r} PROVE x \in ToSet(a) \cup ToSet(b)
      <4>1. PICK i \in 1..Len(q) : q[i] = x BY <1>0, <3>2 DEF ToSet
      <4>2. i # k BY <2>3, <3>2, <4>1
      <4>3. i \in 1..(k - 1) \/ i \in (k + 1)..Len(q) BY <1>0, <4>2
      <4> QED BY <2>7, <4>1, <4>3
    <3> QED BY <3>1, <3>2
  <2> QED BY <2>5, <2>7, <2>8, <2>9, ConcatQueue
<1>2. CASE ~\E i \in 1..Len(q) : q[i] = r
  <2>1. RemoveFirst(q, r) = q BY <1>2 DEF RemoveFirst
  <2>2. r \notin ToSet(q) BY <1>0, <1>2 DEF ToSet
  <2> QED BY <2>1, <2>2
<1> QED BY <1>1, <1>2

\* A selection in the order of a queue without repetition has none either:
\* SortedByWait over waitSince, IsEligibleBatch over decoding.
LEMMA OrderedQueue ==
  ASSUME NEW q \in Seq(Req), Distinct(q), NEW n \in Nat, NEW t, DOMAIN t = 1..n,
         \A i, j \in DOMAIN t : i < j => Before(q, t[i], t[j])
  PROVE  Distinct(t)
<1> SUFFICES ASSUME NEW i \in 1..n, NEW j \in 1..n, t[i] = t[j], i < j PROVE FALSE
  <2>1. \A i, j \in 1..n : i < j \/ j < i \/ i = j OBVIOUS
  <2> QED BY <2>1 DEF Distinct
<1>1. Before(q, t[i], t[j]) OBVIOUS
<1>2. PICK k, l \in DOMAIN q : q[k] = t[i] /\ q[l] = t[j] /\ k < l BY <1>1 DEF Before
<1>3. k = l BY <1>2 DEF Distinct
<1>4. k \in Nat /\ l \in Nat BY <1>2
<1> QED BY <1>2, <1>3, <1>4

-----------------------------------------------------------------------------
(* The inductive invariant.                                                *)

InQueue(r) == r \in ToSet(waiting) \/ r \in ToSet(scan.skipped)
Placed(r) == InQueue(r) \/ r \in ToSet(decoding) \/ r \in ToSet(Popped)
Prefills(r) == InQueue(r) \/ (isPrefill /\ r \in ToSet(Popped))
Holds(r) == kv[r] # 0 \/ window[r] # 0 \/ r \in resident

\* The places where a request can be: each lists it once, only one lists it.
Queues ==
  /\ Distinct(waiting) /\ Distinct(scan.skipped) /\ Distinct(decoding)
  /\ Distinct(Popped) /\ Distinct(waitSince)
  /\ Disjoint(waiting, scan.skipped) /\ Disjoint(waiting, decoding)
  /\ Disjoint(waiting, Popped) /\ Disjoint(scan.skipped, decoding)
  /\ Disjoint(scan.skipped, Popped) /\ Disjoint(decoding, Popped)

\* The lists a step works through hold requests of the queues, once.
Lists ==
  /\ pc # "post" => todo = <<>>
  /\ pc \notin {"post", "reclaim"} => ending = <<>>
  /\ Distinct(ending) /\ Disjoint(todo, ending)
  /\ pc = "scheduled" /\ ~isPrefill =>
       Distinct(batch) /\ ToSet(batch) \subseteq ToSet(decoding)
  /\ pc = "post" /\ ~isPrefill =>
       Distinct(todo) /\ ToSet(todo) \subseteq ToSet(decoding)
  /\ pc = "post" => ToSet(ending) \subseteq ToSet(decoding)
  /\ pc = "reclaim" => ToSet(ending) \subseteq ToSet(waiting) \cup ToSet(decoding)

\* Who is preempted, owed a release or short of a window is queued.
Marks ==
  /\ preempted # NoReq => preempted \in ToSet(waiting)
  /\ pc \notin {"idle", "reclaim"} => pending = {}
  /\ pending \subseteq ToSet(waiting) \cup ToSet(decoding)
  /\ pc = "decode" => scan.skipped = <<>>
  /\ pc \notin {"prefill", "decode"} => scan = NoScan
  /\ scan.failed # NoReq => scan.failed \in ToSet(decoding)
  /\ scan.blocked # NoReq => scan.blocked \in ToSet(decoding)

\* What request r may hold depends on where it is: what abort_request releases
\* without looking (MustRelease) covers everything that a queued request has.
Account(r) ==
  /\ sq[r].status \in {"WAITING", "RUNNING"} => Placed(r)
  /\ sq[r].status = "NEW" => ~Placed(r)
  /\ ~Placed(r) => ~Holds(r)
  /\ InQueue(r) /\ Holds(r) =>
       \/ sq[r].status = "RUNNING" \/ sq[r].prefilled # 0
       \/ r \in pending \/ r = preempted
  /\ isPrefill /\ r \in ToSet(Popped) => sq[r].chunk > 0 /\ sq[r].status = "RUNNING"
Holdings == \A r \in Req : Account(r)

AInv == Queues /\ Lists /\ Marks /\ Holdings

\* A step that changes no request's side of the prefill and decode divide, and
\* one that does so only by forgetting r.
Steady == \A q \in Req : (Placed(q)' <=> Placed(q)) /\ (Prefills(q)' <=> Prefills(q))
Forgets(r) ==
  /\ ~Placed(r)'
  /\ \A q \in Req : (q # r => (Placed(q)' <=> Placed(q)) /\ (Prefills(q)' <=> Prefills(q)))

\* Every queue is a sequence of requests.
LEMMA QueueTypes ==
  ASSUME TypeOK
  PROVE  /\ waiting \in Seq(Req) /\ decoding \in Seq(Req) /\ waitSince \in Seq(Req)
         /\ scan.skipped \in Seq(Req) /\ Popped \in Seq(Req) /\ batch \in Seq(Req)
         /\ todo \in Seq(Req) /\ ending \in Seq(Req)
         /\ sq \in [Req -> SequenceState] /\ scan \in ScanState
<1>1. /\ waiting \in Seq(Req) /\ decoding \in Seq(Req) /\ waitSince \in Seq(Req)
      /\ batch \in Seq(Req) /\ todo \in Seq(Req) /\ ending \in Seq(Req)
      /\ sq \in [Req -> SequenceState] /\ scan \in ScanState
  BY DEF TypeOK
<1>2. scan.skipped \in Seq(Req) BY <1>1, ScanFields
<1>3. Popped \in Seq(Req) BY <1>1, EmptyQueue DEF Popped
<1> QED BY <1>1, <1>2, <1>3

\* The places of QueuedOnce, one by one.
LEMMA PlacesAre ==
  ASSUME TypeOK, Queues
  PROVE  /\ Distinct(Places) /\ ToSet(Places) \subseteq Req
         /\ \A r \in Req : (r \in ToSet(Places) <=> Placed(r))
<1>t. /\ waiting \in Seq(Req) /\ decoding \in Seq(Req)
      /\ scan.skipped \in Seq(Req) /\ Popped \in Seq(Req)
  BY QueueTypes
<1> DEFINE a == waiting \o scan.skipped
           b == a \o decoding
<1>1. /\ a \in Seq(Req) /\ ToSet(a) = ToSet(waiting) \cup ToSet(scan.skipped)
      /\ Distinct(a)
  BY <1>t, ConcatQueue DEF Queues
<1>2. Disjoint(a, decoding) /\ Disjoint(a, Popped)
  BY <1>1 DEF Queues, Disjoint
<1> HIDE DEF a
<1>3. b \in Seq(Req) /\ ToSet(b) = ToSet(a) \cup ToSet(decoding) /\ Distinct(b)
  BY <1>t, <1>1, <1>2, ConcatQueue DEF Queues
<1>4. Disjoint(b, Popped) BY <1>2, <1>3 DEF Queues, Disjoint
<1> HIDE DEF b
<1>5. /\ b \o Popped \in Seq(Req) /\ ToSet(b \o Popped) = ToSet(b) \cup ToSet(Popped)
      /\ Distinct(b \o Popped)
  BY <1>t, <1>3, <1>4, ConcatQueue DEF Queues
<1>6. Places = b \o Popped BY DEF Places, a, b
<1>7. ASSUME NEW r \in Req PROVE r \in ToSet(Places) <=> Placed(r)
  BY <1>1, <1>3, <1>5, <1>6 DEF Placed, InQueue
<1>8. Distinct(Places) /\ ToSet(Places) \subseteq Req BY <1>5, <1>6, ToSetType
<1> QED BY <1>7, <1>8

\* The invariant says what RequestsAccounted does.
LEMMA AccountsSuffice ==
  ASSUME TypeOK, AInv
  PROVE  RequestsAccounted
<1>1. Queues /\ Marks /\ Holdings BY DEF AInv
<1>2. Distinct(Places) /\ \A r \in Req : (r \in ToSet(Places) <=> Placed(r))
  BY <1>1, PlacesAre
<1>3. QueuedOnce BY <1>1, <1>2 DEF QueuedOnce, Distinct, Holdings, Account
<1>4. NoZombies BY <1>1, <1>2 DEF NoZombies, Holdings, Account, Holds
<1>5. OwedReleasesHaveOwners BY <1>1 DEF Marks, OwedReleasesHaveOwners
<1> QED BY <1>3, <1>4, <1>5 DEF RequestsAccounted

\* In the initial state nobody is anywhere.
LEMMA InitAccounts == Init => AInv
<1> SUFFICES ASSUME Init PROVE AInv OBVIOUS
<1>1. /\ waiting = <<>> /\ decoding = <<>> /\ waitSince = <<>> /\ scan = NoScan
      /\ scan.skipped = <<>> /\ scan.failed = NoReq /\ scan.blocked = NoReq
      /\ Popped = <<>> /\ todo = <<>> /\ ending = <<>> /\ batch = <<>>
      /\ pc = "idle" /\ pending = {} /\ preempted = NoReq /\ isPrefill = FALSE
  BY DEF Init, SchedInit, NoScan, Popped
<1>2. Queues /\ Lists /\ Marks
  BY <1>1, EmptyQueue DEF Queues, Lists, Marks, Disjoint
<1>3. ASSUME NEW r \in Req PROVE Account(r)
  BY <1>1, EmptyQueue DEF Init, SchedInit, NewSequence, Account, Placed, InQueue, Holds
<1> QED BY <1>2, <1>3 DEF AInv, Holdings

-----------------------------------------------------------------------------
(* Steps that move nobody in or out.                                       *)

\* Request q's account survives a step that leaves its place and holdings.
LEMMA AccountKept ==
  ASSUME NEW q \in Req, Account(q),
         sq'[q].status = sq[q].status, sq'[q].prefilled = sq[q].prefilled,
         sq'[q].chunk = sq[q].chunk, Placed(q)' <=> Placed(q),
         Holds(q)' => Holds(q) \/ (Placed(q) /\ ~InQueue(q)),
         InQueue(q)' => InQueue(q),
         q \in pending \/ q = preempted =>
           q \in pending' \/ q = preempted' \/ ~Holds(q)',
         isPrefill' /\ q \in ToSet(Popped)' => isPrefill /\ q \in ToSet(Popped)
  PROVE  Account(q)'
BY DEF Account, Holds, InQueue, Placed

\* The same for everybody.
LEMMA AccountsKept ==
  ASSUME Holdings, UNCHANGED <<sq, kv, window, resident>>, pending \subseteq pending',
         preempted = NoReq \/ preempted' = preempted,
         \A q \in Req : /\ (Placed(q)' <=> Placed(q)) /\ (InQueue(q)' => InQueue(q))
                        /\ isPrefill' /\ q \in ToSet(Popped)' =>
                             isPrefill /\ q \in ToSet(Popped)
  PROVE  Holdings'
<1> SUFFICES ASSUME NEW q \in Req PROVE Account(q)' BY DEF Holdings
<1>1. Account(q) BY DEF Holdings
<1>2. Holds(q)' <=> Holds(q) BY DEF Holds
<1>3. q = preempted => q = preempted' BY ReqAssumption
<1>4. /\ (Placed(q)' <=> Placed(q)) /\ (InQueue(q)' => InQueue(q))
      /\ isPrefill' /\ q \in ToSet(Popped)' => isPrefill /\ q \in ToSet(Popped)
      /\ sq'[q].status = sq[q].status /\ sq'[q].prefilled = sq[q].prefilled
      /\ sq'[q].chunk = sq[q].chunk /\ (q \in pending => q \in pending')
  OBVIOUS
<1> QED BY <1>1, <1>2, <1>3, <1>4, AccountKept

\* No queue changes.
LEMMA QueuesSame ==
  ASSUME Queues, UNCHANGED <<waiting, decoding>>, scan'.skipped = scan.skipped,
         Popped' = Popped, Distinct(waitSince')
  PROVE  /\ Queues'
         /\ \A q \in Req : (Placed(q)' <=> Placed(q)) /\ (InQueue(q)' <=> InQueue(q))
BY DEF Queues, Distinct, Disjoint, Placed, InQueue

\* During schedule() nothing is being released or postprocessed.
LEMMA ScheduleMarks ==
  ASSUME AInv, UNCHANGED engineVars, pc \in {"begin", "reserve", "prefill", "decode"},
         pc' \in {"idle", "begin", "reserve", "prefill", "decode", "scheduled", "drain"},
         pc' = "scheduled" /\ ~isPrefill' =>
           Distinct(batch') /\ ToSet(batch') \subseteq ToSet(decoding'),
         preempted' # NoReq => preempted' \in ToSet(waiting'),
         pc' = "decode" => scan'.skipped = <<>>,
         pc' \notin {"prefill", "decode"} => scan' = NoScan,
         scan'.failed # NoReq => scan'.failed \in ToSet(decoding'),
         scan'.blocked # NoReq => scan'.blocked \in ToSet(decoding')
  PROVE  Lists' /\ Marks'
<1>1. /\ todo = <<>> /\ ending = <<>> /\ pending = {}
      /\ todo' = <<>> /\ ending' = <<>> /\ pending' = {}
  BY DEF AInv, Lists, Marks, engineVars
<1>2. Lists' BY <1>1, EmptyQueue DEF Lists, Disjoint, Distinct
<1>3. Marks' BY <1>1 DEF Marks
<1> QED BY <1>2, <1>3

\* A step of schedule() that leaves the queues and the requests alone.
LEMMA QuietAccounts ==
  ASSUME IInv, AInv, UNCHANGED engineVars,
         UNCHANGED <<sq, waiting, decoding, kv, window, resident, preempted>>,
         pc \in {"begin", "reserve", "prefill", "decode"},
         pc' \in {"idle", "begin", "reserve", "prefill", "decode", "scheduled", "drain"},
         scan'.skipped = scan.skipped, Distinct(waitSince'), Popped' = Popped,
         isPrefill' = isPrefill \/ Popped = <<>>,
         pc' = "scheduled" /\ ~isPrefill' =>
           Distinct(batch') /\ ToSet(batch') \subseteq ToSet(decoding'),
         pc' = "decode" => scan'.skipped = <<>>,
         pc' \notin {"prefill", "decode"} => scan' = NoScan,
         scan'.failed # NoReq => scan'.failed \in ToSet(decoding),
         scan'.blocked # NoReq => scan'.blocked \in ToSet(decoding)
  PROVE  AInv' /\ Steady
<1>1. Queues /\ Holdings /\ Marks BY DEF AInv
<1>2. /\ Queues'
      /\ \A q \in Req : (Placed(q)' <=> Placed(q)) /\ (InQueue(q)' <=> InQueue(q))
  BY <1>1, QueuesSame
<1>3. Lists' /\ Marks'
  BY <1>1, ScheduleMarks DEF Marks
<1>4. pending \subseteq pending' BY DEF engineVars
<1>5. Popped = <<>> => ToSet(Popped) = {} BY EmptyQueue
<1>6. Holdings'
  BY <1>1, <1>2, <1>4, <1>5, AccountsKept
<1>7. Steady BY <1>2, <1>5 DEF Steady, Prefills
<1> QED BY <1>2, <1>3, <1>6, <1>7 DEF AInv

\* Where the requests taken out of the queues are listed.
LEMMA PoppedIs ==
  ASSUME BatchFits
  PROVE  /\ pc \in {"idle", "begin", "reserve", "drain", "reclaim"} => Popped = <<>>
         /\ pc \in {"prefill", "decode"} => Popped = batch
         /\ pc = "scheduled" => Popped = IF isPrefill THEN batch ELSE <<>>
         /\ pc = "post" => Popped = IF isPrefill THEN todo ELSE <<>>
BY DEF Popped

\* What a step of schedule() can use.
LEMMA ScheduleFacts ==
  ASSUME IInv, AInv, pc \in {"begin", "reserve", "prefill", "decode"}
  PROVE  /\ preempted = NoReq /\ pending = {} /\ Queues /\ Marks /\ Holdings
         /\ pc \in {"begin", "reserve"} =>
              /\ batch = <<>> /\ scan = NoScan /\ Popped = <<>>
              /\ scan.skipped = <<>> /\ scan.failed = NoReq /\ scan.blocked = NoReq
         /\ pc \in {"prefill", "decode"} => Popped = batch
         /\ pc = "prefill" => isPrefill = TRUE
         /\ pc = "decode" => /\ isPrefill = FALSE /\ scan.skipped = <<>>
                             /\ scan.failed # NoReq => batch = <<>>
<1>1. BatchFits /\ TypeOK BY DEF IInv
<1>2. Queues /\ Marks /\ Holdings BY DEF AInv
<1>3. preempted = NoReq /\ pending = {} BY <1>1, <1>2 DEF BatchFits, Marks
<1>4. pc \in {"begin", "reserve"} => batch = <<>> /\ Popped = <<>> /\ scan = NoScan
  BY <1>1, <1>2, PoppedIs DEF BatchFits, Marks
<1>5. NoScan.skipped = <<>> /\ NoScan.failed = NoReq /\ NoScan.blocked = NoReq
  BY DEF NoScan
<1>6. pc \in {"prefill", "decode"} => Popped = batch BY <1>1, PoppedIs
<1>7. isPrefill \in BOOLEAN BY <1>1, Zenon DEF TypeOK
<1>8. pc = "prefill" => isPrefill = TRUE BY <1>1, <1>7 DEF BatchFits
<1>9. pc = "decode" => /\ isPrefill = FALSE /\ scan.skipped = <<>>
                       /\ scan.failed # NoReq => batch = <<>>
  BY <1>1, <1>2, <1>7 DEF BatchFits, Marks
<1> QED BY <1>2, <1>3, <1>4, <1>5, <1>6, <1>8, <1>9

-----------------------------------------------------------------------------
(* schedule(): before the selection.                                       *)

\* schedule() starts the wait of every queued request once.
LEMMA NoteAccounts ==
  ASSUME IInv, AInv, NEW r \in Req, NoteWaiting(r), UNCHANGED engineVars
  PROVE  AInv' /\ Steady
<1>1. pc = "begin" /\ pc' = "begin" /\ scan' = scan /\ r \notin ToSet(waitSince)
      /\ waitSince' = Append(waitSince, r) /\ isPrefill' = isPrefill
      /\ UNCHANGED <<sq, waiting, decoding, kv, window, resident, preempted, batch>>
  BY DEF NoteWaiting
<1>2. Distinct(waitSince')
  BY <1>1, ScheduleFacts, QueueTypes, AppendQueue DEF IInv, Queues
<1>3. Popped' = Popped BY <1>1 DEF Popped, engineVars
<1> QED BY <1>1, <1>2, <1>3, ScheduleFacts, QuietAccounts

LEMMA ReserveAccounts ==
  ASSUME IInv, AInv, BeginReserve, UNCHANGED engineVars
  PROVE  AInv' /\ Steady
<1>1. pc = "begin" /\ pc' = "reserve" /\ scan' = scan /\ waitSince' = waitSince
      /\ isPrefill' = isPrefill
      /\ UNCHANGED <<sq, waiting, decoding, kv, window, resident, preempted, batch>>
  BY DEF BeginReserve
<1>2. Distinct(waitSince') BY <1>1, ScheduleFacts DEF Queues, Distinct
<1>3. Popped' = <<>> /\ Popped = <<>> BY <1>1 DEF Popped
<1> QED BY <1>1, <1>2, <1>3, ScheduleFacts, QuietAccounts

\* A window goes to a request that decodes.
LEMMA AcquireAccounts ==
  ASSUME IInv, AInv, NEW r \in Req, AcquireWindow(r), UNCHANGED engineVars
  PROVE  AInv' /\ Steady
<1>1. /\ pc = "reserve" /\ pc' = "reserve" /\ scan' = scan /\ waitSince' = waitSince
      /\ UNCHANGED <<sq, waiting, decoding, kv, resident, preempted, batch, isPrefill>>
      /\ \A q \in Req : q # r => window'[q] = window[q]
  BY DEF AcquireWindow, IInv, TypeOK
<1>2. r \in ToSet(decoding)
  BY DEF AcquireWindow, NextToAcquire, ToSet
<1>3. Popped' = Popped BY <1>1 DEF Popped
<1>4. Queues /\ Holdings /\ Marks /\ Distinct(waitSince') /\ preempted = NoReq
  BY <1>1, ScheduleFacts DEF Queues, Distinct
<1>5. /\ Queues'
      /\ \A q \in Req : (Placed(q)' <=> Placed(q)) /\ (InQueue(q)' <=> InQueue(q))
  BY <1>1, <1>3, <1>4, QueuesSame
<1>6. Lists' /\ Marks' BY <1>1, <1>4, ScheduleMarks DEF Marks
<1>7. ASSUME NEW q \in Req PROVE Account(q)'
  <2>1. /\ (Placed(q)' <=> Placed(q)) /\ (InQueue(q)' => InQueue(q)) BY <1>5
  <2>2. Holds(q)' => Holds(q) \/ (Placed(q) /\ ~InQueue(q))
    <3>1. CASE q = r BY <1>2, <1>4, <3>1 DEF Placed, InQueue, Queues, Disjoint
    <3>2. CASE q # r BY <1>1, <3>2 DEF Holds
    <3> QED BY <3>1, <3>2
  <2>3. /\ (q \in pending => q \in pending') /\ (q = preempted => q = preempted')
        /\ Account(q)
    BY <1>1, <1>4 DEF Holdings, engineVars
  <2> QED BY <1>1, <1>3, <2>1, <2>2, <2>3, AccountKept
<1>8. Steady BY <1>1, <1>3, <1>5 DEF Steady, Prefills
<1> QED BY <1>5, <1>6, <1>7, <1>8 DEF AInv, Holdings

LEMMA DrainAccounts ==
  ASSUME IInv, AInv, DrainFirst, UNCHANGED engineVars,
         pc = "reserve" \/ (pc = "decode" /\ batch = <<>>)
  PROVE  AInv' /\ Steady
<1>1. pc' = "drain" /\ scan' = NoScan /\ waitSince' = waitSince /\ isPrefill' = isPrefill
      /\ UNCHANGED <<sq, waiting, decoding, kv, window, resident, preempted, batch>>
  BY DEF DrainFirst
<1>2. Distinct(waitSince') BY <1>1, ScheduleFacts DEF Queues, Distinct
<1>3. Popped' = <<>> /\ Popped = <<>> BY <1>1, ScheduleFacts DEF Popped
<1>4. scan'.skipped = <<>> /\ scan'.failed = NoReq /\ scan'.blocked = NoReq
  BY <1>1 DEF NoScan
<1>5. scan.skipped = <<>> BY ScheduleFacts
<1> QED BY <1>1, <1>2, <1>3, <1>4, <1>5, QuietAccounts

\* Decode affinity selects requests that decode, each once.
LEMMA AffinityAccounts ==
  ASSUME IInv, AInv, ScheduleAffinity, UNCHANGED engineVars
  PROVE  AInv' /\ Steady
<1>1. /\ pc = "reserve" /\ pc' = "scheduled" /\ scan' = scan /\ waitSince' = waitSince
      /\ isPrefill' = FALSE
      /\ UNCHANGED <<sq, waiting, decoding, kv, window, resident, preempted>>
      /\ batch' \in [1..AffinitySize -> LiveDecodes] /\ IsEligibleBatch(batch')
  BY DEF ScheduleAffinity
<1>2. Distinct(waitSince') /\ Distinct(decoding) BY <1>1, ScheduleFacts DEF Queues, Distinct
<1>3. Popped' = <<>> /\ Popped = <<>> BY <1>1 DEF Popped
<1>4. decoding \in Seq(Req) /\ free \in Int BY DEF IInv, TypeOK
<1>5. AffinitySize \in Nat BY <1>4, AffinitySizeType
<1>6. Distinct(batch')
  BY <1>1, <1>2, <1>4, <1>5, OrderedQueue DEF IsEligibleBatch
<1>7. ToSet(batch') \subseteq ToSet(decoding) BY <1>1 DEF LiveDecodes, ToSet
<1> QED BY <1>1, <1>2, <1>3, <1>6, <1>7, ScheduleFacts, QuietAccounts

-----------------------------------------------------------------------------
(* schedule(): the selection moves requests between the queues.            *)

\* A step that moves requests and changes nothing about them.
LEMMA MovedAccounts ==
  ASSUME IInv, AInv, Queues', UNCHANGED engineVars,
         UNCHANGED <<sq, kv, window, resident, preempted>>,
         pc \in {"begin", "reserve", "prefill", "decode"},
         pc' \in {"idle", "begin", "reserve", "prefill", "decode", "scheduled", "drain"},
         \A q \in Req : /\ (Placed(q)' <=> Placed(q)) /\ (InQueue(q)' => InQueue(q))
                        /\ (Prefills(q)' <=> Prefills(q))
                        /\ isPrefill' /\ q \in ToSet(Popped)' =>
                             isPrefill /\ q \in ToSet(Popped),
         pc' = "scheduled" /\ ~isPrefill' =>
           Distinct(batch') /\ ToSet(batch') \subseteq ToSet(decoding'),
         pc' = "decode" => scan'.skipped = <<>>,
         pc' \notin {"prefill", "decode"} => scan' = NoScan,
         scan'.failed # NoReq => scan'.failed \in ToSet(decoding'),
         scan'.blocked # NoReq => scan'.blocked \in ToSet(decoding')
  PROVE  AInv' /\ Steady
<1>1. Holdings /\ preempted = NoReq BY ScheduleFacts
<1>2. preempted' = NoReq /\ pending \subseteq pending' BY <1>1 DEF engineVars
<1>3. Lists' /\ Marks' BY <1>2, ScheduleMarks
<1>4. Holdings' BY <1>1, <1>2, AccountsKept
<1> QED BY <1>3, <1>4 DEF AInv, Steady

\* Sorting waiting by age loses nobody; the selection starts.
LEMMA SelectionAccounts ==
  ASSUME IInv, AInv, BeginSelection, UNCHANGED engineVars
  PROVE  AInv' /\ Steady
<1>1. /\ pc = "reserve" /\ pc' \in {"prefill", "decode"} /\ waitSince' = waitSince
      /\ UNCHANGED <<sq, decoding, kv, window, resident, preempted, batch>>
  BY DEF BeginSelection
<1>2. /\ Queues /\ batch = <<>> /\ Popped = <<>> /\ scan.skipped = <<>>
  BY <1>1, ScheduleFacts
<1>3. /\ waiting \in Seq(Req) /\ decoding \in Seq(Req) /\ waitSince \in Seq(Req)
  BY QueueTypes DEF IInv
<1>4. ToSet(waiting') = ToSet(waiting) /\ Distinct(waiting')
  <2>1. CASE waiting' = waiting BY <1>2, <2>1 DEF Queues, Distinct
  <2>2. CASE waiting' # waiting
    <3>1. PICK t \in [1..Len(waiting) -> ToSet(waiting)] :
            SortedByWait(waiting, t) /\ waiting' = t
      BY <2>2 DEF BeginSelection
    <3>2. /\ ToSet(t) = ToSet(waiting) /\ DOMAIN t = 1..Len(waiting)
          /\ \A i, j \in DOMAIN t : i < j => Before(waitSince, t[i], t[j])
      BY <3>1 DEF SortedByWait
    <3>3. Len(waiting) \in Nat /\ Distinct(waitSince) BY <1>2, <1>3 DEF Queues
    <3>4. Distinct(t) BY <1>3, <3>2, <3>3, OrderedQueue
    <3> QED BY <3>1, <3>2, <3>4
  <2> QED BY <2>1, <2>2
<1>5. Popped' = <<>> BY <1>1, <1>2 DEF Popped
<1>6. /\ scan'.skipped = <<>> /\ scan'.blocked = NoReq
      /\ scan'.failed # NoReq => scan'.failed \in ToSet(decoding)
  <2>1. PICK f \in Req \cup {NoReq} :
          /\ Reserved(f)
          /\ LET first == Buckets(waiting, ReplayWaiting, 0)
                 start == [NoScan EXCEPT !.failed = f, !.replay = ReplayWaiting,
                             !.room = StepFree, !.slots = AdmissionFree, !.rows = FreeRows]
             IN  \/ scan' = [start EXCEPT !.bucket = Min(first), !.left = Len(waiting)]
                 \/ scan' = DecodeScan(start)
    BY DEF BeginSelection
  <2> DEFINE start == [NoScan EXCEPT !.failed = f, !.replay = ReplayWaiting,
                         !.room = StepFree, !.slots = AdmissionFree, !.rows = FreeRows]
  <2>2. start.failed = f /\ start.skipped = <<>> /\ start.blocked = NoReq
    BY DEF NoScan
  <2>3. scan'.failed = f /\ scan'.skipped = <<>> /\ scan'.blocked = NoReq
    BY <2>1, <2>2 DEF DecodeScan, NoScan
  <2>4. f # NoReq => f \in ToSet(decoding) BY <2>1 DEF Reserved
  <2> QED BY <2>3, <2>4
<1>7. Queues'
  BY <1>1, <1>2, <1>4, <1>5, <1>6, EmptyQueue DEF Queues, Distinct, Disjoint
<1>8. ASSUME NEW q \in Req
      PROVE  /\ (Placed(q)' <=> Placed(q)) /\ (InQueue(q)' => InQueue(q))
             /\ (Prefills(q)' <=> Prefills(q))
             /\ isPrefill' /\ q \in ToSet(Popped)' => isPrefill /\ q \in ToSet(Popped)
  BY <1>1, <1>2, <1>4, <1>5, <1>6, EmptyQueue DEF Placed, InQueue, Prefills
<1> QED BY <1>1, <1>6, <1>7, <1>8, MovedAccounts

\* A request of another bucket is put aside.
LEMMA SkipAccounts ==
  ASSUME IInv, AInv, PrefillSkip, UNCHANGED engineVars
  PROVE  AInv' /\ Steady
<1> DEFINE h == Head(waiting)
<1>1. /\ pc = "prefill" /\ pc' = "prefill" /\ waitSince' = waitSince
      /\ UNCHANGED <<sq, decoding, kv, window, resident, preempted, batch, isPrefill>>
      /\ waiting # <<>> /\ waiting' = Tail(waiting)
      /\ scan' = [scan EXCEPT !.skipped = Append(@, h)]
  BY DEF PrefillSkip, Scanning, CanContinue
<1>2. /\ Queues /\ Marks /\ Popped = batch BY <1>1, ScheduleFacts
<1>3. /\ waiting \in Seq(Req) /\ scan.skipped \in Seq(Req) /\ scan \in ScanState
  BY QueueTypes DEF IInv
<1>4. /\ scan'.skipped = Append(scan.skipped, h) /\ scan'.failed = scan.failed
      /\ scan'.blocked = scan.blocked
  BY <1>1, <1>3 DEF ScanState
<1>5. Popped' = batch BY <1>1 DEF Popped
<1>6. /\ h \in Req /\ h \in ToSet(waiting) /\ Distinct(waiting')
      /\ ToSet(waiting') = ToSet(waiting) \ {h}
  BY <1>1, <1>2, <1>3, TailQueue DEF Queues
<1> HIDE DEF h
<1>7. h \notin ToSet(scan.skipped) BY <1>2, <1>6 DEF Queues, Disjoint
<1>8. Distinct(scan'.skipped) /\ ToSet(scan'.skipped) = ToSet(scan.skipped) \cup {h}
  BY <1>2, <1>3, <1>4, <1>6, <1>7, AppendQueue DEF Queues
<1>9. Queues'
  BY <1>1, <1>2, <1>5, <1>6, <1>8 DEF Queues, Distinct, Disjoint
<1>10. ASSUME NEW q \in Req
       PROVE  /\ (Placed(q)' <=> Placed(q)) /\ (InQueue(q)' => InQueue(q))
              /\ (Prefills(q)' <=> Prefills(q))
              /\ isPrefill' /\ q \in ToSet(Popped)' => isPrefill /\ q \in ToSet(Popped)
  BY <1>1, <1>2, <1>5, <1>6, <1>8 DEF Placed, InQueue, Prefills
<1> QED BY <1>1, <1>2, <1>4, <1>9, <1>10, MovedAccounts DEF Marks

\* A deferred request goes to the tail of waiting.
LEMMA DeferAccounts ==
  ASSUME IInv, AInv, PrefillDefer, UNCHANGED engineVars
  PROVE  AInv' /\ Steady
<1> DEFINE h == Head(waiting)
           t == Tail(waiting)
<1>1. /\ pc = "prefill" /\ pc' = "prefill" /\ waitSince' = waitSince
      /\ UNCHANGED <<sq, decoding, kv, window, resident, preempted, batch, isPrefill>>
      /\ waiting # <<>> /\ waiting' = Append(t, h)
      /\ scan' = [scan EXCEPT !.left = @ - 1, !.deferred = @ \/ ~(ChunkFor(h) <= 0)]
  BY DEF PrefillDefer, Scanning, CanContinue
<1>2. /\ Queues /\ Marks /\ Popped = batch BY <1>1, ScheduleFacts
<1>3. /\ waiting \in Seq(Req) /\ scan \in ScanState
  BY QueueTypes DEF IInv
<1>4. /\ scan'.skipped = scan.skipped /\ scan'.failed = scan.failed
      /\ scan'.blocked = scan.blocked
  BY <1>1, <1>3 DEF ScanState
<1>5. Popped' = batch BY <1>1 DEF Popped
<1>6. /\ h \in Req /\ h \in ToSet(waiting) /\ Distinct(t)
      /\ t \in Seq(Req) /\ ToSet(t) = ToSet(waiting) \ {h}
  BY <1>1, <1>2, <1>3, TailQueue DEF Queues
<1> HIDE DEF h, t
<1>7. Distinct(waiting') /\ ToSet(waiting') = ToSet(waiting)
  <2>1. Distinct(Append(t, h)) /\ ToSet(Append(t, h)) = ToSet(t) \cup {h}
    BY <1>6, AppendQueue
  <2> QED BY <1>1, <1>6, <2>1
<1>8. Queues'
  BY <1>1, <1>2, <1>4, <1>5, <1>7 DEF Queues, Distinct, Disjoint
<1>9. ASSUME NEW q \in Req
      PROVE  /\ (Placed(q)' <=> Placed(q)) /\ (InQueue(q)' => InQueue(q))
             /\ (Prefills(q)' <=> Prefills(q))
             /\ isPrefill' /\ q \in ToSet(Popped)' => isPrefill /\ q \in ToSet(Popped)
  BY <1>1, <1>2, <1>4, <1>5, <1>7 DEF Placed, InQueue, Prefills
<1> QED BY <1>1, <1>2, <1>4, <1>8, <1>9, MovedAccounts DEF Marks

\* A request that gets a chunk leaves waiting for the batch.
LEMMA TakeAccounts ==
  ASSUME IInv, AInv, PrefillTake, UNCHANGED engineVars
  PROVE  AInv' /\ Steady
<1> DEFINE h == Head(waiting)
           n == ChunkFor(h)
<1>1. /\ pc = "prefill" /\ pc' = "prefill" /\ waiting # <<>> /\ n > 0
      /\ UNCHANGED <<decoding, kv, window, preempted, isPrefill>>
      /\ sq' = [sq EXCEPT ![h].status = "RUNNING", ![h].chunk = n]
      /\ resident' = IF IsFresh(h) THEN resident \cup {h} ELSE resident
      /\ waiting' = Tail(waiting) /\ batch' = Append(batch, h)
      /\ waitSince' = RemoveFirst(waitSince, h)
      /\ \E l, s, w, k, m : scan' = [scan EXCEPT !.left = l, !.slots = s, !.rows = w,
                                                 !.tokens = k, !.room = m]
  BY DEF PrefillTake, Scanning, CanContinue, Unnote
<1>2. Queues /\ Marks /\ Holdings /\ Popped = batch /\ isPrefill = TRUE /\ preempted = NoReq
  BY <1>1, ScheduleFacts
<1>3. /\ waiting \in Seq(Req) /\ scan \in ScanState /\ batch \in Seq(Req)
      /\ waitSince \in Seq(Req) /\ sq \in [Req -> SequenceState]
  BY QueueTypes DEF IInv
<1>4. /\ scan'.skipped = scan.skipped /\ scan'.failed = scan.failed
      /\ scan'.blocked = scan.blocked
  BY <1>1, <1>3 DEF ScanState
<1>5. Popped' = batch' BY <1>1 DEF Popped
<1>6. /\ h \in Req /\ h \in ToSet(waiting) /\ Distinct(waiting')
      /\ ToSet(waiting') = ToSet(waiting) \ {h}
  BY <1>1, <1>2, <1>3, TailQueue DEF Queues
<1> HIDE DEF h, n
<1>7. /\ sq'[h].status = "RUNNING" /\ sq'[h].chunk = n
      /\ \A q \in Req : q # h => sq'[q] = sq[q]
  <2>1. sq'[h] = [sq[h] EXCEPT !.status = "RUNNING", !.chunk = n]
    BY <1>1, <1>3, <1>6
  <2>2. sq[h] \in SequenceState BY <1>3, <1>6
  <2>3. sq'[h].status = "RUNNING" /\ sq'[h].chunk = n BY <2>1, <2>2 DEF SequenceState
  <2>4. ASSUME NEW q \in Req, q # h PROVE sq'[q] = sq[q] BY <1>1, <1>3, <1>6, <2>4
  <2> QED BY <2>3, <2>4
<1>8. h \notin ToSet(batch) /\ h \notin ToSet(scan.skipped) /\ h \notin ToSet(decoding)
  BY <1>2, <1>6 DEF Queues, Disjoint
<1>9. Distinct(batch') /\ ToSet(batch') = ToSet(batch) \cup {h}
  <2>1. Distinct(Append(batch, h)) /\ ToSet(Append(batch, h)) = ToSet(batch) \cup {h}
    BY <1>2, <1>3, <1>6, <1>8, AppendQueue DEF Queues
  <2> QED BY <1>1, <2>1
<1>10. Distinct(waitSince') BY <1>1, <1>2, <1>3, RemoveQueue DEF Queues
<1>11. Queues'
  BY <1>1, <1>2, <1>4, <1>5, <1>6, <1>8, <1>9, <1>10 DEF Queues, Distinct, Disjoint
<1>12. Lists' /\ Marks' BY <1>1, <1>2, <1>4, ScheduleMarks DEF Marks
<1>13. ASSUME NEW q \in Req PROVE Account(q)'
  <2>1. CASE q = h
    <3>1. ~InQueue(q)' /\ Placed(q)' /\ q \in ToSet(Popped)'
      BY <1>4, <1>5, <1>6, <1>8, <1>9, <2>1 DEF InQueue, Placed
    <3> QED BY <1>1, <1>7, <2>1, <3>1 DEF Account
  <2>2. CASE q # h
    <3>1. /\ (Placed(q)' <=> Placed(q)) /\ (InQueue(q)' <=> InQueue(q))
          /\ (q \in ToSet(Popped)' <=> q \in ToSet(Popped))
      BY <1>1, <1>2, <1>4, <1>5, <1>6, <1>9, <2>2 DEF Placed, InQueue
    <3>2. Holds(q)' <=> Holds(q) BY <1>1, <2>2 DEF Holds
    <3>3. Account(q) /\ (q \in pending => q \in pending') /\ q # preempted
      BY <1>2, ReqAssumption DEF Holdings, engineVars
    <3> QED BY <1>1, <1>7, <2>2, <3>1, <3>2, <3>3, AccountKept
  <2> QED BY <2>1, <2>2
<1>14. Steady
  <2> SUFFICES ASSUME NEW q \in Req
               PROVE  (Placed(q)' <=> Placed(q)) /\ (Prefills(q)' <=> Prefills(q))
    BY DEF Steady
  <2> QED BY <1>1, <1>2, <1>4, <1>5, <1>6, <1>8, <1>9 DEF Placed, InQueue, Prefills
<1> QED BY <1>11, <1>12, <1>13, <1>14 DEF AInv, Holdings

\* The skipped requests return to the head of waiting beside a prefill batch,
LEMMA SchedulePrefillAccounts ==
  ASSUME IInv, AInv, SchedulePrefill, UNCHANGED engineVars
  PROVE  AInv' /\ Steady
<1>1. /\ pc = "prefill" /\ pc' = "scheduled" /\ waitSince' = waitSince
      /\ UNCHANGED <<sq, decoding, kv, window, resident, preempted, batch, isPrefill>>
      /\ waiting' = scan.skipped \o waiting /\ scan' = NoScan
  BY DEF SchedulePrefill, PrefillScanOver
<1>2. Queues /\ Marks /\ Popped = batch /\ isPrefill = TRUE BY <1>1, ScheduleFacts
<1>3. waiting \in Seq(Req) /\ scan.skipped \in Seq(Req) BY QueueTypes DEF IInv
<1>4. scan'.skipped = <<>> /\ scan'.failed = NoReq /\ scan'.blocked = NoReq
  BY <1>1 DEF NoScan
<1>5. Popped' = batch BY <1>1, <1>2 DEF Popped
<1>6. Distinct(waiting') /\ ToSet(waiting') = ToSet(scan.skipped) \cup ToSet(waiting)
  <2>1. Disjoint(scan.skipped, waiting) BY <1>2 DEF Queues, Disjoint
  <2> QED BY <1>1, <1>2, <1>3, <2>1, ConcatQueue DEF Queues
<1>7. Queues'
  BY <1>1, <1>2, <1>4, <1>5, <1>6, EmptyQueue DEF Queues, Distinct, Disjoint
<1>8. ASSUME NEW q \in Req
      PROVE  /\ (Placed(q)' <=> Placed(q)) /\ (InQueue(q)' => InQueue(q))
             /\ (Prefills(q)' <=> Prefills(q))
             /\ isPrefill' /\ q \in ToSet(Popped)' => isPrefill /\ q \in ToSet(Popped)
  BY <1>1, <1>2, <1>4, <1>5, <1>6, EmptyQueue DEF Placed, InQueue, Prefills
<1> QED BY <1>1, <1>2, <1>4, <1>7, <1>8, MovedAccounts

\* ... or for another pass, or before the decode pass.
LEMMA NextBucketAccounts ==
  ASSUME IInv, AInv, NextBucket, UNCHANGED engineVars
  PROVE  AInv' /\ Steady
<1>1. /\ pc = "prefill" /\ pc' \in {"prefill", "decode"} /\ waitSince' = waitSince
      /\ UNCHANGED <<sq, decoding, kv, window, resident, preempted, batch>>
      /\ waiting' = scan.skipped \o waiting /\ batch = <<>>
      /\ \/ \E b, l : scan' = [scan EXCEPT !.bucket = b, !.left = l, !.skipped = <<>>]
         \/ scan' = DecodeScan(scan)
  BY DEF NextBucket, PrefillScanOver
<1>2. Queues /\ Marks /\ Popped = batch /\ isPrefill = TRUE BY <1>1, ScheduleFacts
<1>3. waiting \in Seq(Req) /\ scan.skipped \in Seq(Req) /\ scan \in ScanState
  BY QueueTypes DEF IInv
<1>4. /\ scan'.skipped = <<>> /\ scan'.failed = scan.failed
      /\ scan'.blocked \in {scan.blocked, NoReq}
  BY <1>1, <1>3 DEF ScanState, DecodeScan
<1>5. Popped' = <<>> BY <1>1, <1>2 DEF Popped
<1>6. Distinct(waiting') /\ ToSet(waiting') = ToSet(scan.skipped) \cup ToSet(waiting)
  <2>1. Disjoint(scan.skipped, waiting) BY <1>2 DEF Queues, Disjoint
  <2> QED BY <1>1, <1>2, <1>3, <2>1, ConcatQueue DEF Queues
<1>7. Queues'
  BY <1>1, <1>2, <1>4, <1>5, <1>6, EmptyQueue DEF Queues, Distinct, Disjoint
<1>8. ASSUME NEW q \in Req
      PROVE  /\ (Placed(q)' <=> Placed(q)) /\ (InQueue(q)' => InQueue(q))
             /\ (Prefills(q)' <=> Prefills(q))
             /\ isPrefill' /\ q \in ToSet(Popped)' => isPrefill /\ q \in ToSet(Popped)
  BY <1>1, <1>2, <1>4, <1>5, <1>6, EmptyQueue DEF Placed, InQueue, Prefills
<1> QED BY <1>1, <1>2, <1>4, <1>7, <1>8, MovedAccounts DEF Marks

\* An exhausted request goes to the tail of decoding.
LEMMA DecodeSkipAccounts ==
  ASSUME IInv, AInv, DecodeSkip, UNCHANGED engineVars
  PROVE  AInv' /\ Steady
<1> DEFINE h == Head(decoding)
           t == Tail(decoding)
<1>1. /\ pc = "decode" /\ pc' = "decode" /\ waitSince' = waitSince
      /\ UNCHANGED <<sq, waiting, kv, window, resident, preempted, batch, isPrefill>>
      /\ scan.failed = NoReq /\ scan.blocked = NoReq /\ scan.left > 0
      /\ decoding' = Append(t, h) /\ scan' = [scan EXCEPT !.left = @ - 1]
  BY DEF DecodeSkip, DecodeScanning
<1>2. Queues /\ Marks /\ Popped = batch /\ isPrefill = FALSE /\ scan.skipped = <<>>
  BY <1>1, ScheduleFacts
<1>3. decoding \in Seq(Req) /\ scan \in ScanState BY QueueTypes DEF IInv
<1>4. /\ scan'.skipped = <<>> /\ scan'.failed = NoReq /\ scan'.blocked = NoReq
  BY <1>1, <1>2, <1>3 DEF ScanState
<1>5. Popped' = batch BY <1>1 DEF Popped
<1>6. decoding # <<>>
  <2>1. scan.left \in Nat /\ scan.left <= Len(decoding)
    BY <1>1, <1>3 DEF IInv, BatchFits, ScanState
  <2> QED BY <1>1, <1>3, <2>1
<1>7. /\ h \in Req /\ h \in ToSet(decoding) /\ Distinct(t) /\ t \in Seq(Req)
      /\ ToSet(t) = ToSet(decoding) \ {h}
  BY <1>2, <1>3, <1>6, TailQueue DEF Queues
<1> HIDE DEF h, t
<1>8. Distinct(decoding') /\ ToSet(decoding') = ToSet(decoding)
  <2>1. Distinct(Append(t, h)) /\ ToSet(Append(t, h)) = ToSet(t) \cup {h}
    BY <1>7, AppendQueue
  <2> QED BY <1>1, <1>7, <2>1
<1>9. Queues'
  BY <1>1, <1>2, <1>4, <1>5, <1>8 DEF Queues, Distinct, Disjoint
<1>10. ASSUME NEW q \in Req
       PROVE  /\ (Placed(q)' <=> Placed(q)) /\ (InQueue(q)' => InQueue(q))
              /\ (Prefills(q)' <=> Prefills(q))
              /\ isPrefill' /\ q \in ToSet(Popped)' => isPrefill /\ q \in ToSet(Popped)
  BY <1>1, <1>2, <1>4, <1>5, <1>8 DEF Placed, InQueue, Prefills
<1> QED BY <1>1, <1>4, <1>9, <1>10, MovedAccounts

\* A request that is going to decode leaves the head of decoding.
LEMMA DecodeTakeAccounts ==
  ASSUME IInv, AInv, DecodeTake, UNCHANGED engineVars
  PROVE  AInv' /\ Steady
<1> DEFINE h == Head(decoding)
<1>1. /\ pc = "decode" /\ pc' = "decode" /\ waitSince' = waitSince
      /\ UNCHANGED <<sq, waiting, kv, window, resident, preempted, isPrefill>>
      /\ scan.failed = NoReq /\ scan.blocked = NoReq /\ scan.left > 0
      /\ decoding' = Tail(decoding) /\ batch' = Append(batch, h)
      /\ scan' = [scan EXCEPT !.left = @ - 1, !.room = @ - 1]
  BY DEF DecodeTake, DecodeScanning
<1>2. Queues /\ Marks /\ Popped = batch /\ isPrefill = FALSE /\ scan.skipped = <<>>
  BY <1>1, ScheduleFacts
<1>3. decoding \in Seq(Req) /\ batch \in Seq(Req) /\ scan \in ScanState
  BY QueueTypes DEF IInv
<1>4. /\ scan'.skipped = <<>> /\ scan'.failed = NoReq /\ scan'.blocked = NoReq
  BY <1>1, <1>2, <1>3 DEF ScanState
<1>5. Popped' = batch' BY <1>1 DEF Popped
<1>6. decoding # <<>>
  <2>1. scan.left \in Nat /\ scan.left <= Len(decoding)
    BY <1>1, <1>3 DEF IInv, BatchFits, ScanState
  <2> QED BY <1>1, <1>3, <2>1
<1>7. /\ h \in Req /\ h \in ToSet(decoding) /\ Distinct(decoding')
      /\ ToSet(decoding') = ToSet(decoding) \ {h}
  BY <1>1, <1>2, <1>3, <1>6, TailQueue DEF Queues
<1> HIDE DEF h
<1>8. h \notin ToSet(batch) /\ h \notin ToSet(waiting)
  BY <1>2, <1>7 DEF Queues, Disjoint
<1>9. Distinct(batch') /\ ToSet(batch') = ToSet(batch) \cup {h}
  <2>1. Distinct(Append(batch, h)) /\ ToSet(Append(batch, h)) = ToSet(batch) \cup {h}
    BY <1>2, <1>3, <1>7, <1>8, AppendQueue DEF Queues
  <2> QED BY <1>1, <2>1
<1>10. Queues'
  BY <1>1, <1>2, <1>4, <1>5, <1>7, <1>8, <1>9, EmptyQueue DEF Queues, Distinct, Disjoint
<1>11. ASSUME NEW q \in Req
       PROVE  /\ (Placed(q)' <=> Placed(q)) /\ (InQueue(q)' => InQueue(q))
              /\ (Prefills(q)' <=> Prefills(q))
              /\ isPrefill' /\ q \in ToSet(Popped)' => isPrefill /\ q \in ToSet(Popped)
  BY <1>1, <1>2, <1>4, <1>5, <1>7, <1>9 DEF Placed, InQueue, Prefills
<1> QED BY <1>1, <1>4, <1>10, <1>11, MovedAccounts

LEMMA DecodeBlockAccounts ==
  ASSUME IInv, AInv, DecodeBlock, UNCHANGED engineVars
  PROVE  AInv' /\ Steady
<1> DEFINE h == Head(decoding)
<1>1. /\ pc = "decode" /\ pc' = "decode" /\ waitSince' = waitSince
      /\ UNCHANGED <<sq, waiting, decoding, kv, window, resident, preempted, batch, isPrefill>>
      /\ scan.failed = NoReq /\ scan.left > 0 /\ scan' = [scan EXCEPT !.blocked = h]
  BY DEF DecodeBlock, DecodeScanning
<1>2. Queues /\ Popped = batch /\ scan.skipped = <<>> BY <1>1, ScheduleFacts
<1>3. decoding \in Seq(Req) /\ scan \in ScanState BY QueueTypes DEF IInv
<1>4. /\ scan'.skipped = <<>> /\ scan'.failed = NoReq /\ scan'.blocked = h
  BY <1>1, <1>2, <1>3 DEF ScanState
<1>5. Popped' = Popped BY <1>1, <1>2 DEF Popped
<1>6. decoding # <<>>
  <2>1. scan.left \in Nat /\ scan.left <= Len(decoding)
    BY <1>1, <1>3 DEF IInv, BatchFits, ScanState
  <2> QED BY <1>1, <1>3, <2>1
<1>7. h \in ToSet(decoding) BY <1>3, <1>6, TailQueue
<1>8. Distinct(waitSince') BY <1>1, <1>2 DEF Queues, Distinct
<1> HIDE DEF h
<1> QED BY <1>1, <1>2, <1>4, <1>5, <1>7, <1>8, QuietAccounts

\* The batch and the blocked request return to decoding.
LEMMA ScheduleDecodeAccounts ==
  ASSUME IInv, AInv, ScheduleDecode, UNCHANGED engineVars
  PROVE  AInv' /\ Steady
<1> DEFINE b == scan.blocked
           rest == RemoveFirst(decoding, b)
<1>1. /\ pc = "decode" /\ pc' = "scheduled" /\ waitSince' = waitSince
      /\ UNCHANGED <<sq, waiting, kv, window, resident, preempted, batch, isPrefill>>
      /\ decoding' = IF b = NoReq THEN batch \o decoding ELSE <<b>> \o batch \o rest
      /\ scan' = NoScan
  BY DEF ScheduleDecode, DecodeScanOver
<1>2. Queues /\ Marks /\ Popped = batch /\ isPrefill = FALSE /\ scan.skipped = <<>>
  BY <1>1, ScheduleFacts
<1>3. decoding \in Seq(Req) /\ batch \in Seq(Req) BY QueueTypes DEF IInv
<1>4. scan'.skipped = <<>> /\ scan'.failed = NoReq /\ scan'.blocked = NoReq
  BY <1>1 DEF NoScan
<1>5. Popped' = <<>> BY <1>1, <1>2 DEF Popped
<1>6. Distinct(decoding) /\ Distinct(batch) /\ Disjoint(batch, decoding)
  BY <1>2 DEF Queues, Disjoint
<1>7. Distinct(decoding') /\ ToSet(decoding') = ToSet(batch) \cup ToSet(decoding)
  <2>1. CASE b = NoReq BY <1>1, <1>3, <1>6, <2>1, ConcatQueue
  <2>2. CASE b # NoReq
    <3>1. b \in ToSet(decoding) BY <1>2, <2>2 DEF Marks
    <3>2. b \in Req BY <1>3, <3>1 DEF ToSet
    <3>3. rest \in Seq(Req) /\ Distinct(rest) /\ ToSet(rest) = ToSet(decoding) \ {b}
      BY <1>3, <1>6, RemoveQueue
    <3> DEFINE l == <<b>>
               m == l \o batch
    <3>4. l \in Seq(Req) /\ Distinct(l) /\ ToSet(l) = {b}
      BY <3>2 DEF Distinct, ToSet
    <3> HIDE DEF b, rest, l
    <3>5. b \notin ToSet(batch) BY <1>6, <3>1 DEF Disjoint
    <3>6. m \in Seq(Req) /\ Distinct(m) /\ ToSet(m) = {b} \cup ToSet(batch)
      BY <1>3, <1>6, <3>4, <3>5, ConcatQueue DEF Disjoint
    <3>7. Disjoint(m, rest) BY <1>6, <3>3, <3>6 DEF Disjoint
    <3> HIDE DEF m
    <3>8. Distinct(m \o rest) /\ ToSet(m \o rest) = ToSet(m) \cup ToSet(rest)
      BY <3>3, <3>6, <3>7, ConcatQueue
    <3>9. decoding' = m \o rest BY <1>1, <2>2 DEF m, l
    <3> QED BY <3>1, <3>3, <3>6, <3>8, <3>9
  <2> QED BY <2>1, <2>2
<1>8. Queues'
  BY <1>1, <1>2, <1>4, <1>5, <1>7, EmptyQueue, ZenonT(30) DEF Queues, Distinct, Disjoint
<1>9. ASSUME NEW q \in Req
      PROVE  /\ (Placed(q)' <=> Placed(q)) /\ (InQueue(q)' => InQueue(q))
             /\ (Prefills(q)' <=> Prefills(q))
             /\ isPrefill' /\ q \in ToSet(Popped)' => isPrefill /\ q \in ToSet(Popped)
  BY <1>1, <1>2, <1>4, <1>5, <1>7, EmptyQueue DEF Placed, InQueue, Prefills
<1>10. Distinct(batch') /\ ToSet(batch') \subseteq ToSet(decoding')
  BY <1>1, <1>6, <1>7 DEF Distinct
<1> QED BY <1>1, <1>4, <1>8, <1>9, <1>10, MovedAccounts

LEMMA NothingAccounts ==
  ASSUME IInv, AInv, ScheduleNothing, UNCHANGED engineVars
  PROVE  AInv' /\ Steady
<1>1. /\ pc = "decode" /\ pc' \in {"drain", "idle", "scheduled"} /\ waitSince' = waitSince
      /\ UNCHANGED <<sq, waiting, decoding, kv, window, resident, preempted, batch, isPrefill>>
      /\ scan' = NoScan /\ batch = <<>>
  BY DEF ScheduleNothing, DecodeScanOver
<1>2. Queues /\ Popped = batch /\ scan.skipped = <<>> /\ isPrefill = FALSE
  BY <1>1, ScheduleFacts
<1>3. scan'.skipped = <<>> /\ scan'.failed = NoReq /\ scan'.blocked = NoReq
  BY <1>1 DEF NoScan
<1>4. Popped' = <<>> BY <1>1, <1>2 DEF Popped
<1>5. Distinct(waitSince') BY <1>1, <1>2 DEF Queues, Distinct
<1>6. Distinct(batch') /\ ToSet(batch') \subseteq ToSet(decoding')
  BY <1>1, EmptyQueue
<1> QED BY <1>1, <1>2, <1>3, <1>4, <1>5, <1>6, QuietAccounts

\* setdefault on _prefill_wait_since keeps each request once.
LEMMA NotedQueue ==
  ASSUME waitSince \in Seq(Req), Distinct(waitSince), NEW r \in Req
  PROVE  Distinct(Noted(r))
BY AppendQueue DEF Noted

\* The victim moves from decoding to waiting and is owed a release.
LEMMA PreemptAccounts ==
  ASSUME IInv, AInv, NEW v \in Req, Preempt(v), UNCHANGED engineVars, v \in ToSet(decoding),
         pc = "reserve" \/ pc = "decode", batch = <<>>
  PROVE  /\ AInv'
         /\ \/ Steady /\ UNCHANGED <<sq, preempted>>
            \/ /\ preempted' = v /\ pc' = "scheduled" /\ Prefills(v)'
               /\ sq'[v] = Restarted(sq[v])
               /\ \A q \in Req : (q # v =>
                    /\ (Placed(q)' <=> Placed(q)) /\ (Prefills(q)' <=> Prefills(q))
                    /\ sq'[q] \in {sq[q], [sq[q] EXCEPT !.checkpoint = sq[q].done]})
<1> DEFINE others == RemoveFirst(decoding, v)
<1>1. /\ scan' = NoScan /\ UNCHANGED <<window, kv, resident, batch, isPrefill>>
  BY DEF Preempt
<1>2. /\ Queues /\ Holdings /\ Popped = <<>> /\ scan.skipped = <<>> /\ preempted = NoReq
      /\ pending = {}
  BY ScheduleFacts
<1>3. /\ decoding \in Seq(Req) /\ waiting \in Seq(Req) /\ waitSince \in Seq(Req)
      /\ sq \in [Req -> SequenceState]
  BY QueueTypes DEF IInv
<1>4. scan'.skipped = <<>> /\ scan'.failed = NoReq /\ scan'.blocked = NoReq
  BY <1>1 DEF NoScan
<1>5. Distinct(batch') /\ ToSet(batch') \subseteq ToSet(decoding')
  BY <1>1, EmptyQueue
\* It is refused: everything stays.
<1>6. CASE SoleDecodeStuck(v, others)
  <2>1. pc' = "idle" /\ UNCHANGED <<sq, waiting, decoding, waitSince, preempted>>
    BY <1>6 DEF Preempt
  <2>2. Popped' = <<>> BY <2>1 DEF Popped
  <2>3. Distinct(waitSince') BY <1>2, <2>1 DEF Queues, Distinct
  <2> QED BY <1>1, <1>2, <1>4, <1>5, <2>1, <2>2, <2>3, QuietAccounts
<1>7. CASE ~SoleDecodeStuck(v, others)
  <2>1. /\ sq' = [r \in Req |->
                    IF r = v THEN Restarted(sq[r])
                    ELSE IF r \in ToSet(others)
                           THEN [sq[r] EXCEPT !.checkpoint = sq[r].done]
                           ELSE sq[r]]
        /\ decoding' = others /\ waiting' = Append(waiting, v)
        /\ waitSince' = Noted(v) /\ preempted' = v /\ pc' = "scheduled"
    BY <1>7 DEF Preempt
  <2>2. Popped' = <<>> BY <1>1, <2>1 DEF Popped
  <2>3. Distinct(decoding') /\ ToSet(decoding') = ToSet(decoding) \ {v}
    BY <1>2, <1>3, <2>1, RemoveQueue DEF Queues
  <2>4. v \notin ToSet(waiting) BY <1>2 DEF Queues, Disjoint
  <2>5. Distinct(waiting') /\ ToSet(waiting') = ToSet(waiting) \cup {v}
    <3>1. Distinct(Append(waiting, v)) /\ ToSet(Append(waiting, v)) = ToSet(waiting) \cup {v}
      BY <1>2, <1>3, <2>4, AppendQueue DEF Queues
    <3> QED BY <2>1, <3>1
  <2>6. Distinct(waitSince') BY <1>2, <1>3, <2>1, NotedQueue DEF Queues
  <2>7. Queues'
    BY <1>2, <1>4, <2>2, <2>3, <2>4, <2>5, <2>6, EmptyQueue DEF Queues, Distinct, Disjoint
  <2>8. Lists' /\ Marks' BY <1>1, <1>4, <1>5, <2>1, <2>5, ScheduleMarks
  <2>9. ASSUME NEW q \in Req PROVE Account(q)'
    <3>1. Placed(q)' <=> Placed(q)
      BY <1>2, <1>4, <2>2, <2>3, <2>5 DEF Placed, InQueue
    <3>2. sq[q] \in SequenceState /\ Account(q) BY <1>2, <1>3 DEF Holdings
    <3>3. q \notin ToSet(Popped)' BY <2>2, EmptyQueue
    <3>4. CASE q = v
      <4>1. sq'[q] = Restarted(sq[q]) BY <2>1, <3>4
      <4>2. sq'[q].status = "WAITING" BY <3>2, <4>1 DEF Restarted, SequenceState
      <4>3. Placed(q)' BY <3>1, <3>4 DEF Placed
      <4> QED BY <2>1, <3>3, <3>4, <4>2, <4>3 DEF Account
    <3>5. CASE q # v
      <4>1. sq'[q] = [sq[q] EXCEPT !.checkpoint = sq[q].done] \/ sq'[q] = sq[q]
        BY <2>1, <3>5
      <4>2. /\ sq'[q].status = sq[q].status /\ sq'[q].prefilled = sq[q].prefilled
            /\ sq'[q].chunk = sq[q].chunk
        BY <3>2, <4>1 DEF SequenceState
      <4>3. InQueue(q)' => InQueue(q) BY <1>4, <2>5, <3>5, EmptyQueue DEF InQueue
      <4>4. (Holds(q)' <=> Holds(q)) /\ q # preempted /\ q \notin pending
        BY <1>1, <1>2, ReqAssumption DEF Holds
      <4> QED BY <3>1, <3>2, <3>3, <4>2, <4>3, <4>4, AccountKept
    <3> QED BY <3>4, <3>5
  <2>10. Prefills(v)' /\ sq'[v] = Restarted(sq[v]) BY <2>1, <2>5 DEF Prefills, InQueue
  <2>11. ASSUME NEW q \in Req, q # v
         PROVE  /\ (Placed(q)' <=> Placed(q)) /\ (Prefills(q)' <=> Prefills(q))
                /\ sq'[q] \in {sq[q], [sq[q] EXCEPT !.checkpoint = sq[q].done]}
    <3>1. (Placed(q)' <=> Placed(q)) /\ (Prefills(q)' <=> Prefills(q))
      BY <1>2, <1>4, <2>2, <2>3, <2>5, <2>11, EmptyQueue DEF Placed, InQueue, Prefills
    <3> QED BY <2>1, <2>11, <3>1
  <2>12. AInv' BY <2>7, <2>8, <2>9 DEF AInv, Holdings
  <2> QED BY <2>1, <2>10, <2>11, <2>12
<1> QED BY <1>6, <1>7

\* Every step of schedule().
LEMMA ScheduleAccounts ==
  ASSUME IInv, AInv, ScheduleStep
  PROVE  AInv'
<1>0. UNCHANGED engineVars BY DEF ScheduleStep
<1>1. ASSUME NEW r \in Req, NoteWaiting(r) PROVE AInv' BY <1>0, <1>1, NoteAccounts
<1>2. ASSUME NEW r \in Req, AcquireWindow(r) PROVE AInv' BY <1>0, <1>2, AcquireAccounts
<1>3. ASSUME NEW r \in Req, PreemptUnreserved(r) PROVE AInv'
  <2>1. pc = "reserve" /\ Preempt(r) /\ NextToAcquire(r)
    BY <1>3 DEF PreemptUnreserved, Refused
  <2>2. r \in ToSet(decoding) BY <2>1 DEF NextToAcquire, ToSet
  <2>3. batch = <<>> BY <2>1, ScheduleFacts
  <2> QED BY <1>0, <2>1, <2>2, <2>3, PreemptAccounts
<1>4. ASSUME NEW r \in Req, DrainUnreserved(r) PROVE AInv'
  BY <1>0, <1>4, DrainAccounts DEF DrainUnreserved
<1>5. CASE PreemptSole
  <2>1. pc = "decode" /\ scan.failed # NoReq /\ Preempt(scan.failed)
    BY <1>5 DEF PreemptSole
  <2>2. Marks /\ batch = <<>> BY <2>1, ScheduleFacts
  <2>3. scan.failed \in ToSet(decoding) BY <2>1, <2>2 DEF Marks
  <2>4. scan.failed \in Req BY <2>1, ScanFields DEF IInv, TypeOK
  <2> QED BY <1>0, <2>1, <2>2, <2>3, <2>4, PreemptAccounts
<1>6. CASE PreemptBlocked
  <2>1. pc = "decode" /\ scan.blocked # NoReq /\ Preempt(scan.blocked) /\ batch = <<>>
    BY <1>6 DEF PreemptBlocked, DecodeScanOver
  <2>2. Marks BY <2>1, ScheduleFacts
  <2>3. scan.blocked \in ToSet(decoding) BY <2>1, <2>2 DEF Marks
  <2>4. scan.blocked \in Req BY <2>1, ScanFields DEF IInv, TypeOK
  <2> QED BY <1>0, <2>1, <2>3, <2>4, PreemptAccounts
<1>7. CASE DrainBlocked
  BY <1>0, <1>7, DrainAccounts DEF DrainBlocked, DecodeScanOver
<1> QED
  BY <1>0, <1>1, <1>2, <1>3, <1>4, <1>5, <1>6, <1>7, ReserveAccounts, AffinityAccounts,
     SelectionAccounts, SkipAccounts, DeferAccounts, TakeAccounts, SchedulePrefillAccounts,
     NextBucketAccounts, DecodeSkipAccounts, DecodeTakeAccounts, DecodeBlockAccounts,
     ScheduleDecodeAccounts, NothingAccounts
  DEF ScheduleStep, Schedule

-----------------------------------------------------------------------------
(* Releases.                                                               *)

\* free_seq of one request leaves the others what they hold.
LEMMA ReleaseHolds ==
  ASSUME TypeOK, NEW r \in Req, Release({r})
  PROVE  ~Holds(r)' /\ \A q \in Req : (q # r => (Holds(q)' <=> Holds(q)))
<1>1. resident \subseteq Req BY DEF TypeOK
<1>2. kv'[r] = 0 /\ window'[r] = 0 /\ r \notin resident' BY DEF Release
<1>3. ASSUME NEW q \in Req, q # r PROVE Holds(q)' <=> Holds(q)
  BY <1>3 DEF Release, Holds
<1> QED BY <1>2, <1>3 DEF Holds

\* A release that fails is owed, and nobody holds more for it.
LEMMA FailedReleaseHolds ==
  ASSUME TypeOK, NEW r \in Req, ReleaseFails(r)
  PROVE  pending' = pending \cup {r} /\ \A q \in Req : (Holds(q)' => Holds(q))
<1>1. pending' = pending \cup {r} BY DEF ReleaseFails
<1>2. CASE Release({r}) BY <1>1, <1>2, ReleaseHolds
<1>3. CASE UNCHANGED <<window, free, kv, resident>> BY <1>1, <1>3 DEF Holds
<1> QED BY <1>1, <1>2, <1>3 DEF ReleaseFails

\* Scheduler.abort forgets one request, which holds nothing any more.
LEMMA DropAccounts ==
  ASSUME TypeOK, Queues, Marks, Holdings, NEW r \in Req, Drop(r),
         pc \notin {"prefill", "decode"}, Popped = <<>>, Popped' = <<>>, scan' = scan,
         preempted = NoReq, preempted' = NoReq,
         ~Holds(r)', \A q \in Req : (q # r => (Holds(q)' => Holds(q))),
         pending' = pending \ {r}
  PROVE  /\ Queues' /\ Holdings'
         /\ Forgets(r)
         /\ ToSet(waiting') = ToSet(waiting) \ {r} /\ ToSet(decoding') = ToSet(decoding) \ {r}
         /\ pending' \subseteq ToSet(waiting') \cup ToSet(decoding')
<1>1. /\ decoding \in Seq(Req) /\ waiting \in Seq(Req) /\ waitSince \in Seq(Req)
      /\ sq \in [Req -> SequenceState]
  BY QueueTypes
<1>2. scan.skipped = <<>> /\ scan'.skipped = <<>> BY DEF Marks, NoScan
<1>3. /\ Distinct(waiting') /\ ToSet(waiting') = ToSet(waiting) \ {r}
      /\ Distinct(decoding') /\ ToSet(decoding') = ToSet(decoding) \ {r}
      /\ Distinct(waitSince')
  BY <1>1, RemoveQueue DEF Queues, Drop, Unnote
<1>4. Queues' BY <1>2, <1>3, EmptyQueue DEF Queues, Distinct, Disjoint
<1>5. ASSUME NEW q \in Req PROVE Account(q)'
  <2>1. Account(q) /\ q \notin ToSet(Popped)' /\ sq[q] \in SequenceState
    BY <1>1, EmptyQueue DEF Holdings
  <2>2. CASE q = r
    <3>1. sq'[q].status = "FINISHED" BY <1>1, <2>1, <2>2 DEF Drop, SequenceState
    <3>2. ~Placed(q)' /\ ~InQueue(q)'
      BY <1>2, <1>3, <2>2, EmptyQueue DEF Placed, InQueue
    <3> QED BY <2>1, <2>2, <3>1, <3>2 DEF Account
  <2>3. CASE q # r
    <3>1. sq'[q] = sq[q] BY <1>1, <2>3 DEF Drop
    <3>2. (Placed(q)' <=> Placed(q)) /\ (InQueue(q)' => InQueue(q))
      BY <1>2, <1>3, <2>3, EmptyQueue DEF Placed, InQueue
    <3>3. (q \in pending => q \in pending') /\ (Holds(q)' => Holds(q)) /\ q # preempted
      BY <2>3, ReqAssumption
    <3> QED BY <2>1, <3>1, <3>2, <3>3, AccountKept
  <2> QED BY <2>2, <2>3
<1>6. pending' \subseteq ToSet(waiting') \cup ToSet(decoding')
  BY <1>3 DEF Marks
<1>7. Forgets(r)
  <2>1. ~Placed(r)' BY <1>2, <1>3, EmptyQueue DEF Placed, InQueue
  <2>2. ASSUME NEW q \in Req, q # r
        PROVE  (Placed(q)' <=> Placed(q)) /\ (Prefills(q)' <=> Prefills(q))
    BY <1>2, <1>3, <2>2, EmptyQueue DEF Placed, InQueue, Prefills
  <2> QED BY <2>1, <2>2 DEF Forgets
<1> QED BY <1>3, <1>4, <1>5, <1>6, <1>7 DEF Holdings

\* The queues after a step outside schedule() that does not touch them.
LEMMA OutsideFacts ==
  ASSUME IInv, AInv, pc \notin {"prefill", "decode"}
  PROVE  /\ TypeOK /\ Queues /\ Lists /\ Marks /\ Holdings
         /\ scan = NoScan /\ scan.skipped = <<>> /\ scan.failed = NoReq
         /\ scan.blocked = NoReq
         /\ pc # "scheduled" => preempted = NoReq
         /\ pc \in {"idle", "begin", "reserve", "drain", "reclaim"} =>
              Popped = <<>> /\ batch = <<>>
         /\ pc = "scheduled" => Popped = IF isPrefill THEN batch ELSE <<>>
         /\ pc = "post" => Popped = IF isPrefill THEN todo ELSE <<>>
         /\ batch # <<>> => preempted = NoReq
<1>1. TypeOK /\ BatchFits BY DEF IInv
<1>2. Queues /\ Lists /\ Marks /\ Holdings BY DEF AInv
<1>3. scan = NoScan BY <1>2 DEF Marks
<1>4. NoScan.skipped = <<>> /\ NoScan.failed = NoReq /\ NoScan.blocked = NoReq
  BY DEF NoScan
<1>5. pc \in {"idle", "begin", "reserve", "drain", "reclaim"} =>
        Popped = <<>> /\ batch = <<>>
  BY <1>1, PoppedIs DEF BatchFits
<1>6. (pc # "scheduled" => preempted = NoReq) /\ (batch # <<>> => preempted = NoReq)
  BY <1>1 DEF BatchFits
<1> QED BY <1>1, <1>2, <1>3, <1>4, <1>5, <1>6, PoppedIs

-----------------------------------------------------------------------------
(* Between steps.                                                          *)

\* A new request joins waiting with nothing in hand.
LEMMA AddAccounts ==
  ASSUME IInv, AInv, NEW r \in Req, AddRequest(r)
  PROVE  /\ AInv' /\ ~Placed(r) /\ ~Holds(r) /\ Prefills(r)'
         /\ \A q \in Req : (q # r => (Placed(q)' <=> Placed(q)) /\ (Prefills(q)' <=> Prefills(q)))
<1>1. /\ pc = "idle" /\ pc' = "idle" /\ sq[r].status = "NEW" /\ pending = {}
      /\ sq' = [sq EXCEPT ![r].status = "WAITING"]
      /\ waiting' = Append(waiting, r) /\ waitSince' = Noted(r)
      /\ UNCHANGED <<decoding, window, kv, resident, scan, preempted, isPrefill, batch>>
      /\ UNCHANGED <<pending, todo, ending>>
  BY DEF AddRequest, outVars, engineVars
<1>2. /\ TypeOK /\ Queues /\ Lists /\ Marks /\ Holdings /\ Popped = <<>>
      /\ scan.skipped = <<>> /\ preempted = NoReq
  BY <1>1, OutsideFacts
<1>3. /\ waiting \in Seq(Req) /\ waitSince \in Seq(Req) /\ sq \in [Req -> SequenceState]
  BY <1>2, QueueTypes
<1>4. ~Placed(r) /\ ~Holds(r) BY <1>1, <1>2 DEF Holdings, Account
<1>5. r \notin ToSet(waiting) /\ r \notin ToSet(decoding) BY <1>4 DEF Placed, InQueue
<1>6. Distinct(waiting') /\ ToSet(waiting') = ToSet(waiting) \cup {r}
  BY <1>1, <1>2, <1>3, <1>5, AppendQueue DEF Queues
<1>7. Distinct(waitSince') BY <1>1, <1>2, <1>3, NotedQueue DEF Queues
<1>8. Popped' = <<>> BY <1>1 DEF Popped
<1>9. Queues'
  BY <1>1, <1>2, <1>5, <1>6, <1>7, <1>8, EmptyQueue DEF Queues, Distinct, Disjoint
<1>10. Lists' /\ Marks'
  <2>1. todo' = <<>> /\ ending' = <<>> BY <1>1, <1>2 DEF Lists
  <2>2. Lists' BY <1>1, <2>1, EmptyQueue DEF Lists, Disjoint, Distinct
  <2>3. Marks' BY <1>1, <1>2, <1>6 DEF Marks
  <2> QED BY <2>2, <2>3
<1>11. ASSUME NEW q \in Req PROVE Account(q)'
  <2>1. Account(q) /\ q \notin ToSet(Popped)' /\ sq[q] \in SequenceState
    BY <1>2, <1>3, <1>8, EmptyQueue DEF Holdings
  <2>2. Holds(q)' <=> Holds(q) BY <1>1 DEF Holds
  <2>3. CASE q = r
    <3>1. sq'[q].status = "WAITING" BY <1>1, <1>3, <2>1, <2>3 DEF SequenceState
    <3>2. Placed(q)' BY <1>6, <2>3 DEF Placed, InQueue
    <3> QED BY <1>4, <2>1, <2>2, <2>3, <3>1, <3>2 DEF Account
  <2>4. CASE q # r
    <3>1. sq'[q] = sq[q] BY <1>1, <1>3, <2>4
    <3>2. (Placed(q)' <=> Placed(q)) /\ (InQueue(q)' => InQueue(q))
      BY <1>1, <1>2, <1>6, <1>8, <2>4 DEF Placed, InQueue
    <3>3. q \notin pending /\ q # preempted BY <1>1, <1>2, ReqAssumption
    <3> QED BY <2>1, <2>2, <3>1, <3>2, <3>3, AccountKept
  <2> QED BY <2>3, <2>4
<1>12. Prefills(r)' BY <1>6 DEF Prefills, InQueue
<1>13. ASSUME NEW q \in Req, q # r
       PROVE  (Placed(q)' <=> Placed(q)) /\ (Prefills(q)' <=> Prefills(q))
  BY <1>1, <1>2, <1>6, <1>8, <1>13, EmptyQueue DEF Placed, InQueue, Prefills
<1> QED BY <1>4, <1>9, <1>10, <1>11, <1>12, <1>13 DEF AInv, Holdings

\* A failed release outside schedule() keeps the request in its queue.
LEMMA FailedReleaseAccounts ==
  ASSUME TypeOK, Queues, Marks, Holdings, NEW r \in Req, ReleaseFails(r),
         UNCHANGED <<sq, waiting, decoding, waitSince, scan>>, Popped = <<>>, Popped' = <<>>,
         preempted \in {NoReq, r}, r \in ToSet(waiting) \cup ToSet(decoding)
  PROVE  /\ Queues' /\ Holdings' /\ Steady
         /\ pending' \subseteq ToSet(waiting') \cup ToSet(decoding')
<1>1. /\ Queues'
      /\ \A q \in Req : (Placed(q)' <=> Placed(q)) /\ (InQueue(q)' <=> InQueue(q))
  BY QueuesSame DEF Queues, Distinct
<1>2. pending' = pending \cup {r} /\ \A q \in Req : (Holds(q)' => Holds(q))
  BY FailedReleaseHolds
<1>3. ASSUME NEW q \in Req PROVE Account(q)'
  <2>1. Account(q) /\ q \notin ToSet(Popped)' BY EmptyQueue DEF Holdings
  <2>2. q \in pending \/ q = preempted => q \in pending' BY <1>2, ReqAssumption
  <2>3. /\ (Placed(q)' <=> Placed(q)) /\ (InQueue(q)' => InQueue(q)) /\ (Holds(q)' => Holds(q))
    BY <1>1, <1>2
  <2> QED BY <2>1, <2>2, <2>3, AccountKept
<1>4. pending' \subseteq ToSet(waiting') \cup ToSet(decoding') BY <1>2 DEF Marks
<1>5. Steady BY <1>1, EmptyQueue DEF Steady, Prefills
<1> QED BY <1>1, <1>3, <1>4, <1>5 DEF Holdings

\* abort_request: what the request may own is released before it is forgotten.
LEMMA AbortAccounts ==
  ASSUME IInv, AInv, NEW r \in Req, AbortRequest(r)
  PROVE  AInv' /\ (Forgets(r) \/ Steady)
<1>1. /\ pc = "idle" /\ pc' = "idle" /\ r \in ToSet(waiting) \cup ToSet(decoding)
      /\ UNCHANGED <<scan, preempted, batch, isPrefill, todo, ending>>
  BY DEF AbortRequest
<1>2. /\ TypeOK /\ Queues /\ Lists /\ Marks /\ Holdings /\ Popped = <<>>
      /\ scan = NoScan /\ scan.skipped = <<>> /\ preempted = NoReq
      /\ scan.failed = NoReq /\ scan.blocked = NoReq
  BY <1>1, OutsideFacts
<1>3. Popped' = <<>> BY <1>1 DEF Popped
<1>4. Lists'
  <2>1. todo' = <<>> /\ ending' = <<>> BY <1>1, <1>2 DEF Lists
  <2> QED BY <1>1, <2>1, EmptyQueue DEF Lists, Disjoint, Distinct
<1>5. /\ Queues' /\ Holdings' /\ (Forgets(r) \/ Steady)
      /\ pending' \subseteq ToSet(waiting') \cup ToSet(decoding')
  <2>1. CASE ~MustRelease(r) /\ Drop(r) /\ UNCHANGED <<window, kv, resident, pending>>
    <3>1. /\ r \notin ToSet(decoding) /\ r \in ToSet(waiting) /\ sq[r].status # "RUNNING"
          /\ ~(sq[r].prefilled > 0) /\ r \notin pending
      BY <1>1, <2>1 DEF MustRelease, Owns
    <3>2. sq[r].prefilled = 0 BY <1>2, <3>1, SequenceFields DEF TypeOK
    <3>3. ~Holds(r)
      BY <1>2, <3>1, <3>2, ReqAssumption DEF Holdings, Account, InQueue
    <3>4. ~Holds(r)' /\ \A q \in Req : (Holds(q)' => Holds(q))
      BY <2>1, <3>3 DEF Holds
    <3>5. pending' = pending \ {r} BY <2>1, <3>1
    <3> QED BY <1>1, <1>2, <1>3, <2>1, <3>4, <3>5, DropAccounts
  <2>2. CASE Released(r) /\ Drop(r)
    <3>1. ~Holds(r)' /\ \A q \in Req : (q # r => (Holds(q)' => Holds(q)))
      BY <1>2, <2>2, ReleaseHolds DEF Released
    <3>2. pending' = pending \ {r} BY <2>2 DEF Released
    <3> QED BY <1>1, <1>2, <1>3, <2>2, <3>1, <3>2, DropAccounts
  <2>3. CASE ReleaseFails(r) /\ UNCHANGED <<waiting, decoding, sq, waitVars>>
    <3>1. UNCHANGED waitSince BY <2>3 DEF waitVars
    <3> QED BY <1>1, <1>2, <1>3, <2>3, <3>1, FailedReleaseAccounts
  <2> QED BY <2>1, <2>2, <2>3 DEF AbortRequest
<1>6. Marks' BY <1>1, <1>2, <1>5 DEF Marks
<1> QED BY <1>4, <1>5, <1>6 DEF AInv

-----------------------------------------------------------------------------
(* step(), around schedule().                                              *)

\* A step that only moves on: the thread's place and what it reports change.
LEMMA PlainAccounts ==
  ASSUME IInv, AInv, UNCHANGED <<sq, waiting, decoding, waitSince, kv, window, resident>>,
         UNCHANGED <<scan, pending, todo, ending>>, preempted = NoReq, preempted' = NoReq,
         pc \notin {"prefill", "decode"}, Popped = <<>>, todo = <<>>, ending = <<>>,
         pc' \in {"idle", "begin"}, pc' = "begin" => pending = {}
  PROVE  AInv' /\ Steady
<1>1. /\ Queues /\ Lists /\ Marks /\ Holdings BY OutsideFacts
<1>2. Popped' = <<>> BY DEF Popped
<1>3. /\ Queues'
      /\ \A q \in Req : (Placed(q)' <=> Placed(q)) /\ (InQueue(q)' <=> InQueue(q))
  BY <1>1, <1>2, QueuesSame DEF Queues, Distinct
<1>4. Lists' BY EmptyQueue DEF Lists, Disjoint, Distinct
<1>5. Marks' BY <1>1 DEF Marks
<1>6. Holdings' BY <1>1, <1>2, <1>3, EmptyQueue, AccountsKept
<1>7. Steady BY <1>2, <1>3, EmptyQueue DEF Steady, Prefills
<1> QED BY <1>3, <1>4, <1>5, <1>6, <1>7 DEF AInv

LEMMA BeginAccounts == ASSUME IInv, AInv, BeginStep PROVE AInv' /\ Steady
<1>1. /\ pc = "idle" /\ pc' = "begin" /\ pending = {}
      /\ UNCHANGED <<sq, waiting, decoding, waitSince, kv, window, resident>>
      /\ UNCHANGED <<scan, pending, todo, ending, preempted>>
  BY DEF BeginStep, engineVars
<1>2. Lists /\ preempted = NoReq /\ Popped = <<>> BY <1>1, OutsideFacts
<1>3. todo = <<>> /\ ending = <<>> BY <1>1, <1>2 DEF Lists
<1> QED BY <1>1, <1>2, <1>3, PlainAccounts

LEMMA RefuseAccounts == ASSUME IInv, AInv, RefuseStep PROVE AInv' /\ Steady
<1>1. /\ pc = "idle" /\ pc' = "idle"
      /\ UNCHANGED <<sq, waiting, decoding, waitSince, kv, window, resident>>
      /\ UNCHANGED <<scan, pending, todo, ending, preempted>>
  BY DEF RefuseStep, engineVars
<1>2. Lists /\ preempted = NoReq /\ Popped = <<>> BY <1>1, OutsideFacts
<1>3. todo = <<>> /\ ending = <<>> BY <1>1, <1>2 DEF Lists
<1> QED BY <1>1, <1>2, <1>3, PlainAccounts

LEMMA TimeoutAccounts == ASSUME IInv, AInv, NEW r \in Req, WaitTimeout(r) PROVE AInv' /\ Steady
<1>1. /\ pc = "idle" /\ pc' = "idle"
      /\ UNCHANGED <<sq, waiting, decoding, waitSince, kv, window, resident>>
      /\ UNCHANGED <<scan, pending, todo, ending, preempted>>
  BY DEF WaitTimeout, engineVars, outVars
<1>2. Lists /\ preempted = NoReq /\ Popped = <<>> BY <1>1, OutsideFacts
<1>3. todo = <<>> /\ ending = <<>> BY <1>1, <1>2 DEF Lists
<1> QED BY <1>1, <1>2, <1>3, PlainAccounts

LEMMA NothingToRunAccounts == ASSUME IInv, AInv, RaiseNothingToRun PROVE AInv' /\ Steady
<1>1. /\ pc = "scheduled" /\ pc' = "idle" /\ batch = <<>> /\ preempted = NoReq
      /\ UNCHANGED <<sq, waiting, decoding, waitSince, kv, window, resident>>
      /\ UNCHANGED <<scan, pending, todo, ending, preempted>>
  BY DEF RaiseNothingToRun, engineVars
<1>2. Lists /\ Popped = <<>> BY <1>1, OutsideFacts
<1>3. todo = <<>> /\ ending = <<>> BY <1>1, <1>2 DEF Lists
<1> QED BY <1>1, <1>2, <1>3, PlainAccounts

LEMMA EndAccounts == ASSUME IInv, AInv, EndStep PROVE AInv' /\ Steady
<1>1. /\ pc = "post" /\ pc' = "idle" /\ todo = <<>> /\ ending = <<>>
      /\ UNCHANGED <<sq, waiting, decoding, waitSince, kv, window, resident>>
      /\ UNCHANGED <<scan, pending, todo, ending, preempted>>
  BY DEF EndStep, engineVars
<1>2. Popped = <<>> /\ preempted = NoReq BY <1>1, OutsideFacts
<1> QED BY <1>1, <1>2, PlainAccounts

\* The preempted request holds nothing any more, or its release is owed.
LEMMA ReleasePreemptedAccounts == ASSUME IInv, AInv, ReleasePreempted PROVE AInv' /\ Steady
<1>1. /\ pc = "scheduled" /\ pc' = "idle" /\ preempted # NoReq /\ preempted' = NoReq
      /\ UNCHANGED <<sq, waiting, decoding, waitSince, scan, batch, isPrefill, todo, ending>>
      /\ Released(preempted) \/ ReleaseFails(preempted)
  BY DEF ReleasePreempted
<1>2. /\ TypeOK /\ Queues /\ Lists /\ Marks /\ Holdings /\ scan = NoScan
      /\ scan.skipped = <<>> /\ scan.failed = NoReq /\ scan.blocked = NoReq
      /\ batch = <<>> /\ Popped = <<>>
  BY <1>1, OutsideFacts
<1>3. PICK r \in Req : r = preempted /\ r \in ToSet(waiting)
  BY <1>1, <1>2 DEF TypeOK, Marks
<1>4. Popped' = <<>> BY <1>1 DEF Popped
<1>5. /\ Queues' /\ Holdings' /\ Steady
      /\ pending' \subseteq ToSet(waiting') \cup ToSet(decoding')
  <2>1. CASE Released(preempted)
    <3>1. ~Holds(r)' /\ \A q \in Req : (q # r => (Holds(q)' <=> Holds(q)))
      BY <1>2, <1>3, <2>1, ReleaseHolds DEF Released
    <3>2. pending' = {} BY <1>1, <1>2, <2>1 DEF Released, Marks
    <3>3. /\ Queues'
          /\ \A q \in Req : (Placed(q)' <=> Placed(q)) /\ (InQueue(q)' <=> InQueue(q))
      BY <1>1, <1>2, <1>4, QueuesSame DEF Queues, Distinct
    <3>4. ASSUME NEW q \in Req PROVE Account(q)'
      <4>1. Account(q) /\ q \notin ToSet(Popped)' BY <1>2, <1>4, EmptyQueue DEF Holdings
      <4>2. q \in pending \/ q = preempted => ~Holds(q)'
        BY <1>1, <1>2, <1>3, <3>1 DEF Marks
      <4>3. /\ (Placed(q)' <=> Placed(q)) /\ (InQueue(q)' => InQueue(q))
            /\ (Holds(q)' => Holds(q))
        BY <3>1, <3>3
      <4> QED BY <1>1, <4>1, <4>2, <4>3, AccountKept
    <3>5. Steady BY <1>2, <1>4, <3>3, EmptyQueue DEF Steady, Prefills
    <3> QED BY <3>2, <3>3, <3>4, <3>5 DEF Holdings
  <2>2. CASE ReleaseFails(preempted)
    BY <1>1, <1>2, <1>3, <1>4, <2>2, FailedReleaseAccounts
  <2> QED BY <1>1, <2>1, <2>2
<1>6. Lists'
  <2>1. todo' = <<>> /\ ending' = <<>> BY <1>1, <1>2 DEF Lists
  <2> QED BY <1>1, <2>1, EmptyQueue DEF Lists, Disjoint, Distinct
<1>7. Marks' BY <1>1, <1>2, <1>5 DEF Marks
<1> QED BY <1>5, <1>6, <1>7 DEF AInv

\* Only members of the batch come to hold more.
LEMMA AllocateHolds ==
  ASSUME NEW S, Allocate(S), UNCHANGED <<window, resident>>, NEW q \in Req
  PROVE  Holds(q)' => Holds(q) \/ q \in S
BY DEF Allocate, Holds

\* The batch is a list of requests that decode, or were taken out of waiting.
LEMMA BatchFacts ==
  ASSUME IInv, AInv, pc = "scheduled"
  PROVE  /\ Distinct(batch) /\ batch \in Seq(Req)
         /\ isPrefill => Popped = batch
         /\ ~isPrefill => ToSet(batch) \subseteq ToSet(decoding) /\ Popped = <<>>
         /\ \A q \in Req : (q \in ToSet(batch) => Placed(q) /\ ~InQueue(q))
<1>1. /\ TypeOK /\ Queues /\ Lists /\ scan.skipped = <<>>
      /\ Popped = IF isPrefill THEN batch ELSE <<>>
  BY OutsideFacts
<1>2. batch \in Seq(Req) BY <1>1, QueueTypes
<1>3. CASE isPrefill
  <2>1. Popped = batch BY <1>1, <1>3
  <2> QED BY <1>1, <1>2, <1>3, <2>1, EmptyQueue DEF Queues, Disjoint, Placed, InQueue
<1>4. CASE ~isPrefill
  <2>1. Distinct(batch) /\ ToSet(batch) \subseteq ToSet(decoding) /\ Popped = <<>>
    BY <1>1, <1>4 DEF Lists
  <2> QED BY <1>1, <1>2, <1>4, <2>1, EmptyQueue DEF Queues, Disjoint, Placed, InQueue
<1> QED BY <1>3, <1>4

LEMMA RunAccounts == ASSUME IInv, AInv, RunModel PROVE AInv' /\ Steady
<1>1. /\ pc = "scheduled" /\ pc' = "post" /\ batch # <<>> /\ todo' = batch
      /\ Allocate(ToSet(batch))
      /\ UNCHANGED <<sq, waiting, decoding, waitSince, window, resident, scan, batch>>
      /\ UNCHANGED <<isPrefill, preempted, pending, ending>>
  BY DEF RunModel, outVars
<1>2. /\ TypeOK /\ Queues /\ Lists /\ Marks /\ Holdings /\ preempted = NoReq
      /\ scan = NoScan /\ scan.skipped = <<>> /\ scan.failed = NoReq /\ scan.blocked = NoReq
  BY <1>1, OutsideFacts
<1>3. /\ Distinct(batch) /\ batch \in Seq(Req)
      /\ isPrefill => Popped = batch
      /\ ~isPrefill => ToSet(batch) \subseteq ToSet(decoding) /\ Popped = <<>>
      /\ \A q \in Req : (q \in ToSet(batch) => Placed(q) /\ ~InQueue(q))
  BY <1>1, BatchFacts
<1>4. Popped' = Popped BY <1>1, <1>3 DEF Popped
<1>5. /\ Queues'
      /\ \A q \in Req : (Placed(q)' <=> Placed(q)) /\ (InQueue(q)' <=> InQueue(q))
  BY <1>1, <1>2, <1>4, QueuesSame DEF Queues, Distinct
<1>6. Lists'
  <2>1. ending' = <<>> BY <1>1, <1>2 DEF Lists
  <2> QED BY <1>1, <1>3, <2>1, EmptyQueue DEF Lists, Disjoint, Distinct
<1>7. Marks' BY <1>1, <1>2 DEF Marks
<1>8. ASSUME NEW q \in Req PROVE Account(q)'
  <2>1. Account(q) BY <1>2 DEF Holdings
  <2>2. Holds(q)' => Holds(q) \/ (Placed(q) /\ ~InQueue(q))
    <3>1. Holds(q)' => Holds(q) \/ q \in ToSet(batch) BY <1>1, AllocateHolds
    <3> QED BY <1>3, <3>1
  <2>3. /\ (Placed(q)' <=> Placed(q)) /\ (InQueue(q)' => InQueue(q))
        /\ isPrefill' /\ q \in ToSet(Popped)' => isPrefill /\ q \in ToSet(Popped)
        /\ (q \in pending \/ q = preempted => q \in pending' \/ q = preempted')
    BY <1>1, <1>4, <1>5
  <2> QED BY <1>1, <2>1, <2>2, <2>3, AccountKept
<1>9. Steady BY <1>1, <1>4, <1>5 DEF Steady, Prefills
<1> QED BY <1>5, <1>6, <1>7, <1>8, <1>9 DEF AInv, Holdings

\* A failed run puts a prefill batch back; what it allocated is released next.
LEMMA RunFailsAccounts == ASSUME IInv, AInv, RunFails PROVE AInv' /\ Steady
<1>1. /\ pc = "scheduled" /\ pc' = "reclaim" /\ batch # <<>>
      /\ UNCHANGED <<sq, decoding, waitSince, window, resident, scan>>
      /\ UNCHANGED <<preempted, pending, todo>>
      /\ waiting' = IF isPrefill THEN batch \o waiting ELSE waiting
      /\ ending' = batch /\ isPrefill' = FALSE
  BY DEF RunFails
<1>2. /\ TypeOK /\ Queues /\ Lists /\ Marks /\ Holdings /\ preempted = NoReq
      /\ scan = NoScan /\ scan.skipped = <<>> /\ scan.failed = NoReq /\ scan.blocked = NoReq
  BY <1>1, OutsideFacts
<1>3. /\ Distinct(batch) /\ batch \in Seq(Req)
      /\ isPrefill => Popped = batch
      /\ ~isPrefill => ToSet(batch) \subseteq ToSet(decoding) /\ Popped = <<>>
      /\ \A q \in Req : (q \in ToSet(batch) => Placed(q) /\ ~InQueue(q))
  BY <1>1, BatchFacts
<1>4. Popped' = <<>> BY <1>1 DEF Popped
<1>5. waiting \in Seq(Req) BY <1>2, QueueTypes
<1>6. /\ Distinct(waiting')
      /\ ToSet(waiting') = IF isPrefill THEN ToSet(batch) \cup ToSet(waiting) ELSE ToSet(waiting)
  <2>1. CASE isPrefill
    <3>1. Disjoint(batch, waiting) BY <1>2, <1>3, <2>1 DEF Queues, Disjoint
    <3> QED BY <1>1, <1>2, <1>3, <1>5, <2>1, <3>1, ConcatQueue DEF Queues
  <2>2. CASE ~isPrefill BY <1>1, <1>2, <2>2 DEF Queues
  <2> QED BY <2>1, <2>2
<1>7. Queues'
  BY <1>1, <1>2, <1>3, <1>4, <1>6, EmptyQueue DEF Queues, Distinct, Disjoint
<1>8. Lists'
  <2>1. todo' = <<>> BY <1>1, <1>2 DEF Lists
  <2>2. ToSet(ending') \subseteq ToSet(waiting') \cup ToSet(decoding') BY <1>1, <1>3, <1>6
  <2> QED BY <1>1, <1>3, <2>1, <2>2, EmptyQueue DEF Lists, Disjoint, Distinct
<1>9. Marks' BY <1>1, <1>2 DEF Marks
<1>10. PICK k \in 0..Len(batch) : Allocate(ToSet(SubSeq(batch, 1, k))) BY DEF RunFails
<1>11. ASSUME NEW q \in Req, q \in ToSet(SubSeq(batch, 1, k)) PROVE q \in ToSet(batch)
  <2>1. PICK i \in 1..k : batch[i] = q BY <1>3, <1>11, SubQueue
  <2> QED BY <1>3, <2>1 DEF ToSet
<1>12. ASSUME NEW q \in Req PROVE Account(q)'
  <2>1. Account(q) /\ q \notin ToSet(Popped)' BY <1>2, <1>4, EmptyQueue DEF Holdings
  <2>2. Holds(q)' => Holds(q) \/ q \in ToSet(batch)
    BY <1>1, <1>10, <1>11, AllocateHolds
  <2>3. Placed(q)' <=> Placed(q)
    BY <1>1, <1>2, <1>3, <1>4, <1>6, EmptyQueue DEF Placed, InQueue
  <2>4. CASE isPrefill /\ q \in ToSet(batch)
    <3>1. sq'[q].status = "RUNNING" /\ Placed(q) BY <1>1, <1>3, <2>1, <2>4 DEF Account
    <3> QED BY <2>1, <2>3, <3>1 DEF Account
  <2>5. CASE ~(isPrefill /\ q \in ToSet(batch))
    <3>1. InQueue(q)' => InQueue(q) BY <1>1, <1>6, <2>5 DEF InQueue
    <3>2. (q \in pending \/ q = preempted => q \in pending' \/ q = preempted') BY <1>1
    <3>3. Holds(q)' => Holds(q) \/ (Placed(q) /\ ~InQueue(q)) BY <1>3, <2>2
    <3> QED BY <1>1, <2>1, <2>3, <3>1, <3>2, <3>3, AccountKept
  <2> QED BY <2>4, <2>5
<1>13. Steady
  <2> SUFFICES ASSUME NEW q \in Req
               PROVE  (Placed(q)' <=> Placed(q)) /\ (Prefills(q)' <=> Prefills(q))
    BY DEF Steady
  <2> QED BY <1>1, <1>2, <1>3, <1>4, <1>6, EmptyQueue DEF Placed, InQueue, Prefills
<1> QED BY <1>7, <1>8, <1>9, <1>12, <1>13 DEF AInv, Holdings

\* Clean-up after a failed run: released and forgotten, or queued and owed.
LEMMA ReclaimAccounts == ASSUME IInv, AInv, ReclaimOne PROVE AInv' /\ \E r \in Req : (r = Head(ending) /\ (Forgets(r) \/ Steady))
<1>1. /\ pc = "reclaim" /\ ending # <<>> /\ ending' = Tail(ending)
      /\ pc' = IF Tail(ending) = <<>> THEN "idle" ELSE "reclaim"
      /\ UNCHANGED <<scan, batch, isPrefill, preempted, todo>>
      /\ \/ Released(Head(ending)) /\ Drop(Head(ending))
         \/ ReleaseFails(Head(ending)) /\ UNCHANGED <<sq, waiting, decoding, waitSince>>
  BY DEF ReclaimOne, outVars, waitVars
<1>2. /\ TypeOK /\ Queues /\ Lists /\ Marks /\ Holdings /\ preempted = NoReq
      /\ scan = NoScan /\ scan.skipped = <<>> /\ scan.failed = NoReq /\ scan.blocked = NoReq
      /\ Popped = <<>> /\ batch = <<>>
  BY <1>1, OutsideFacts
<1>3. ending \in Seq(Req) /\ Distinct(ending) /\ todo = <<>>
      /\ ToSet(ending) \subseteq ToSet(waiting) \cup ToSet(decoding)
  BY <1>1, <1>2, QueueTypes DEF Lists
<1>4. PICK r \in Req : r = Head(ending) BY <1>1, <1>3, TailQueue
<1>5. /\ r \in ToSet(ending) /\ Distinct(ending') /\ ToSet(ending') = ToSet(ending) \ {r}
  BY <1>1, <1>3, <1>4, TailQueue
<1>6. Popped' = <<>> BY <1>1 DEF Popped
<1>7. /\ Queues' /\ Holdings' /\ (Forgets(r) \/ Steady)
      /\ pending' \subseteq ToSet(waiting') \cup ToSet(decoding')
      /\ ToSet(ending') \subseteq ToSet(waiting') \cup ToSet(decoding')
  <2>1. CASE Released(Head(ending)) /\ Drop(Head(ending))
    <3>1. Released(r) /\ Drop(r) BY <1>4, <2>1
    <3>2. ~Holds(r)' /\ \A q \in Req : (q # r => (Holds(q)' => Holds(q)))
      BY <1>2, <3>1, ReleaseHolds DEF Released
    <3>3. pending' = pending \ {r} BY <3>1 DEF Released
    <3>4. /\ Queues' /\ Holdings' /\ Forgets(r)
          /\ ToSet(waiting') = ToSet(waiting) \ {r}
          /\ ToSet(decoding') = ToSet(decoding) \ {r}
          /\ pending' \subseteq ToSet(waiting') \cup ToSet(decoding')
      BY <1>1, <1>2, <1>6, <3>1, <3>2, <3>3, DropAccounts
    <3> QED BY <1>3, <1>5, <3>4
  <2>2. CASE ReleaseFails(Head(ending)) /\ UNCHANGED <<sq, waiting, decoding, waitSince>>
    <3>1. ReleaseFails(r) BY <1>4, <2>2
    <3>2. r \in ToSet(waiting) \cup ToSet(decoding) BY <1>3, <1>5
    <3>3. /\ Queues' /\ Holdings' /\ Steady
          /\ pending' \subseteq ToSet(waiting') \cup ToSet(decoding')
      BY <1>1, <1>2, <1>6, <2>2, <3>1, <3>2, FailedReleaseAccounts
    <3> QED BY <1>3, <1>5, <2>2, <3>3
  <2> QED BY <1>1, <2>1, <2>2
<1>8. Lists'
  BY <1>1, <1>3, <1>5, <1>7, EmptyQueue DEF Lists, Disjoint, Distinct
<1>9. Marks' BY <1>1, <1>2, <1>7 DEF Marks
<1> QED BY <1>4, <1>7, <1>8, <1>9 DEF AInv

\* The status that postprocess leaves.
LEMMA TokenStatus ==
  ASSUME NEW s \in SequenceState, NEW r, NEW eos
  PROVE  /\ WithToken(r, s, eos).status \in {s.status, "FINISHED"}
         /\ WithToken(r, s, eos).prefilled = s.prefilled
         /\ \A c \in Nat : /\ ReplayUpTo(s, c).status = s.status
                           /\ ReplayUpTo(s, c).prefilled = s.prefilled
<1>1. /\ WithToken(r, s, eos).status \in {s.status, "FINISHED"}
      /\ WithToken(r, s, eos).prefilled = s.prefilled
  BY DEF WithToken, SequenceState
<1>2. ASSUME NEW c \in Nat
      PROVE  ReplayUpTo(s, c).status = s.status /\ ReplayUpTo(s, c).prefilled = s.prefilled
  BY DEF ReplayUpTo, SequenceState
<1> QED BY <1>1, <1>2

\* What postprocess makes of a prefilled request.
LEMMA PrefilledStatus ==
  ASSUME NEW t \in SequenceState, NEW r, NEW eos
  PROVE  /\ [t EXCEPT !.status = "WAITING"].status = "WAITING"
         /\ [t EXCEPT !.status = "WAITING"].prefilled = t.prefilled
         /\ ReplayUpTo([t EXCEPT !.status = "RUNNING"], 0).status = "RUNNING"
         /\ WithToken(r, [t EXCEPT !.status = "RUNNING"], eos).status
              \in {"RUNNING", "FINISHED"}
<1> DEFINE u == [t EXCEPT !.status = "RUNNING"]
<1>1. u \in SequenceState /\ u.status = "RUNNING" BY DEF SequenceState
<1> HIDE DEF u
<1>2. ReplayUpTo(u, 0).status = "RUNNING" /\ WithToken(r, u, eos).status \in {"RUNNING", "FINISHED"}
  BY <1>1, TokenStatus
<1>3. /\ [t EXCEPT !.status = "WAITING"].status = "WAITING"
      /\ [t EXCEPT !.status = "WAITING"].prefilled = t.prefilled
  BY DEF SequenceState
<1> QED BY <1>2, <1>3 DEF u

\* A prefilled request returns to waiting or goes on to decoding.
LEMMA PostPrefillAccounts ==
  ASSUME IInv, AInv, PostprocessPrefill
  PROVE  /\ AInv'
         /\ \E r \in Req :
              /\ r = Head(todo) /\ Placed(r)' /\ (Prefills(r)' <=> ~IsLastChunk(r))
              /\ \A q \in Req : (q # r =>
                   (Placed(q)' <=> Placed(q)) /\ (Prefills(q)' <=> Prefills(q)))
<1>1. /\ pc = "post" /\ pc' = "post" /\ todo # <<>> /\ isPrefill
      /\ UNCHANGED <<window, kv, resident, scan, batch, isPrefill, preempted, pending>>
      /\ todo' = Tail(todo)
  BY DEF PostprocessPrefill, outVars
<1>2. /\ TypeOK /\ Queues /\ Lists /\ Marks /\ Holdings /\ preempted = NoReq
      /\ scan = NoScan /\ scan.skipped = <<>> /\ scan.failed = NoReq /\ scan.blocked = NoReq
      /\ Popped = todo
  BY <1>1, OutsideFacts
<1>3. /\ todo \in Seq(Req) /\ ending \in Seq(Req) /\ waiting \in Seq(Req)
      /\ decoding \in Seq(Req) /\ waitSince \in Seq(Req) /\ sq \in [Req -> SequenceState]
      /\ Distinct(todo) /\ Distinct(ending) /\ ToSet(ending) \subseteq ToSet(decoding)
      /\ pending = {}
  BY <1>1, <1>2, QueueTypes DEF Lists, Queues, Marks
<1>4. PICK r \in Req : r = Head(todo) BY <1>1, <1>3, TailQueue
<1>5. /\ r \in ToSet(todo) /\ Distinct(todo') /\ ToSet(todo') = ToSet(todo) \ {r}
      /\ todo' \in Seq(Req)
  BY <1>1, <1>3, <1>4, TailQueue
<1>6. r \notin ToSet(waiting) /\ r \notin ToSet(decoding) /\ r \notin ToSet(ending)
  BY <1>2, <1>3, <1>5 DEF Queues, Disjoint
<1>7. sq[r] \in SequenceState /\ sq[r].chunk \in Nat /\ sq[r].prefilled \in Nat
      /\ sq[r].chunk > 0
  BY <1>1, <1>2, <1>3, <1>5, SequenceFields DEF Holdings, Account
<1> DEFINE complete == IsLastChunk(r)
           s == [sq[r] EXCEPT !.prefilled = @ + sq[r].chunk]
<1>8. PICK eos \in BOOLEAN :
        /\ sq' = [sq EXCEPT ![r] =
             IF ~complete THEN [s EXCEPT !.status = "WAITING"]
             ELSE IF IsReplay(s) THEN ReplayUpTo([s EXCEPT !.status = "RUNNING"], 0)
             ELSE WithToken(r, [s EXCEPT !.status = "RUNNING"], eos)]
        /\ ending' = IF sq'[r].status = "FINISHED" THEN Append(ending, r) ELSE ending
  BY <1>4 DEF PostprocessPrefill
<1>9. /\ waiting' = IF complete THEN waiting ELSE <<r>> \o waiting
      /\ decoding' = IF complete THEN Append(decoding, r) ELSE decoding
      /\ waitSince' = IF complete THEN waitSince ELSE Noted(r)
  BY <1>4 DEF PostprocessPrefill
<1> HIDE DEF complete
<1>10. /\ ~complete => sq'[r].status = "WAITING" /\ sq'[r].prefilled # 0
       /\ complete => sq'[r].status \in {"RUNNING", "FINISHED"}
       /\ \A q \in Req : (q # r => sq'[q] = sq[q])
  <2>1. sq[r].prefilled + sq[r].chunk \in Nat /\ sq[r].prefilled + sq[r].chunk # 0 BY <1>7
  <2>2. s = [sq[r] EXCEPT !.prefilled = sq[r].prefilled + sq[r].chunk] OBVIOUS
  <2>3. /\ [s EXCEPT !.status = "WAITING"].status = "WAITING"
        /\ [s EXCEPT !.status = "WAITING"].prefilled = sq[r].prefilled + sq[r].chunk
        /\ ReplayUpTo([s EXCEPT !.status = "RUNNING"], 0).status = "RUNNING"
        /\ WithToken(r, [s EXCEPT !.status = "RUNNING"], eos).status \in {"RUNNING", "FINISHED"}
    <3> HIDE DEF s
    <3>1. s \in SequenceState /\ s.prefilled = sq[r].prefilled + sq[r].chunk
      BY <1>7, <2>1, <2>2 DEF SequenceState
    <3> QED BY <3>1, PrefilledStatus, Zenon
  <2> HIDE DEF s
  <2> QED BY <1>3, <1>8, <2>1, <2>3
<1> HIDE DEF s
<1>11. Popped' = todo' BY <1>1 DEF Popped
<1>12. /\ Distinct(waiting') /\ Distinct(decoding') /\ Distinct(waitSince')
       /\ ToSet(waiting') = IF complete THEN ToSet(waiting) ELSE {r} \cup ToSet(waiting)
       /\ ToSet(decoding') = IF complete THEN ToSet(decoding) \cup {r} ELSE ToSet(decoding)
  <2>1. CASE complete
    <3>1. /\ Distinct(Append(decoding, r))
          /\ ToSet(Append(decoding, r)) = ToSet(decoding) \cup {r}
      BY <1>2, <1>3, <1>6, AppendQueue DEF Queues
    <3> QED BY <1>2, <1>9, <2>1, <3>1 DEF Queues
  <2>2. CASE ~complete
    <3> DEFINE l == <<r>>
    <3>1. l \in Seq(Req) /\ Distinct(l) /\ ToSet(l) = {r} BY DEF Distinct, ToSet
    <3> HIDE DEF l
    <3>2. Disjoint(l, waiting) BY <1>6, <3>1 DEF Disjoint
    <3>3. Distinct(l \o waiting) /\ ToSet(l \o waiting) = {r} \cup ToSet(waiting)
      BY <1>2, <1>3, <3>1, <3>2, ConcatQueue DEF Queues
    <3>4. Distinct(Noted(r)) BY <1>2, <1>3, NotedQueue DEF Queues
    <3>5. waiting' = l \o waiting BY <1>9, <2>2 DEF l
    <3> QED BY <1>2, <1>9, <2>2, <3>3, <3>4, <3>5 DEF Queues
  <2> QED BY <2>1, <2>2
<1>13. Queues'
  BY <1>1, <1>2, <1>5, <1>6, <1>11, <1>12, EmptyQueue DEF Queues, Distinct, Disjoint
<1>14. Lists'
  <2>1. CASE sq'[r].status = "FINISHED"
    <3>1. complete BY <1>10, <2>1
    <3>2. Distinct(Append(ending, r)) /\ ToSet(Append(ending, r)) = ToSet(ending) \cup {r}
      BY <1>3, <1>6, AppendQueue
    <3>3. Distinct(ending') /\ ToSet(ending') = ToSet(ending) \cup {r}
      BY <1>8, <2>1, <3>2
    <3>4. /\ ToSet(ending') \subseteq ToSet(decoding') /\ Disjoint(todo', ending')
      BY <1>2, <1>3, <1>5, <1>12, <3>1, <3>3 DEF Queues, Disjoint
    <3> QED BY <1>1, <3>3, <3>4 DEF Lists
  <2>2. CASE sq'[r].status # "FINISHED"
    <3>1. ending' = ending BY <1>8, <2>2
    <3>2. ToSet(ending') \subseteq ToSet(decoding') /\ Disjoint(todo', ending')
      BY <1>2, <1>3, <1>5, <1>12, <3>1 DEF Queues, Disjoint
    <3> QED BY <1>1, <1>3, <3>1, <3>2 DEF Lists, Distinct
  <2> QED BY <2>1, <2>2
<1>15. Marks' BY <1>1, <1>2, <1>3, <1>12 DEF Marks
<1>16. ASSUME NEW q \in Req PROVE Account(q)'
  <2>1. Account(q) /\ (Holds(q)' <=> Holds(q)) BY <1>1, <1>2 DEF Holdings, Holds
  <2>2. CASE q = r
    <3>1. Placed(q)' /\ q \notin ToSet(Popped)'
      BY <1>5, <1>11, <1>12, <2>2 DEF Placed, InQueue
    <3>2. InQueue(q)' => ~complete
      BY <1>1, <1>2, <1>6, <1>12, <2>2, EmptyQueue DEF InQueue
    <3> QED BY <1>10, <2>2, <3>1, <3>2 DEF Account
  <2>3. CASE q # r
    <3>1. /\ (Placed(q)' <=> Placed(q)) /\ (InQueue(q)' => InQueue(q))
          /\ (q \in ToSet(Popped)' => q \in ToSet(Popped))
      BY <1>1, <1>2, <1>5, <1>11, <1>12, <2>3 DEF Placed, InQueue
    <3>2. sq'[q] = sq[q] /\ q \notin pending /\ q # preempted
      BY <1>2, <1>3, <1>10, <2>3, ReqAssumption
    <3> QED BY <1>1, <2>1, <3>1, <3>2, AccountKept
  <2> QED BY <2>2, <2>3
<1>17. ASSUME NEW q \in Req, q # r
       PROVE  (Placed(q)' <=> Placed(q)) /\ (Prefills(q)' <=> Prefills(q))
  BY <1>1, <1>2, <1>5, <1>11, <1>12, <1>17 DEF Placed, InQueue, Prefills
<1>18. Placed(r)' /\ (Prefills(r)' <=> ~complete)
  BY <1>1, <1>2, <1>5, <1>6, <1>11, <1>12, EmptyQueue DEF Placed, InQueue, Prefills
<1>19. AInv' BY <1>13, <1>14, <1>15, <1>16 DEF AInv, Holdings
<1> QED BY <1>4, <1>17, <1>18, <1>19 DEF complete

\* A decoded request stays where it is; if it has ended, its release follows.
LEMMA PostDecodeAccounts == ASSUME IInv, AInv, PostprocessDecode PROVE AInv' /\ Steady
<1>1. /\ pc = "post" /\ pc' = "post" /\ todo # <<>> /\ ~isPrefill
      /\ UNCHANGED <<waiting, decoding, waitSince, window, kv, resident, scan, batch>>
      /\ UNCHANGED <<isPrefill, preempted, pending>>
      /\ todo' = Tail(todo)
  BY DEF PostprocessDecode, outVars
<1>2. /\ TypeOK /\ Queues /\ Lists /\ Marks /\ Holdings /\ preempted = NoReq
      /\ scan = NoScan /\ scan.skipped = <<>> /\ scan.failed = NoReq /\ scan.blocked = NoReq
      /\ Popped = <<>>
  BY <1>1, OutsideFacts
<1>3. /\ todo \in Seq(Req) /\ ending \in Seq(Req) /\ sq \in [Req -> SequenceState]
      /\ Distinct(todo) /\ Distinct(ending) /\ Disjoint(todo, ending)
      /\ ToSet(todo) \subseteq ToSet(decoding) /\ ToSet(ending) \subseteq ToSet(decoding)
      /\ pending = {}
  BY <1>1, <1>2, QueueTypes DEF Lists, Marks
<1>4. PICK r \in Req : r = Head(todo) BY <1>1, <1>3, TailQueue
<1>5. /\ r \in ToSet(todo) /\ Distinct(todo') /\ ToSet(todo') = ToSet(todo) \ {r}
  BY <1>1, <1>3, <1>4, TailQueue
<1>6. r \notin ToSet(ending) /\ r \in ToSet(decoding) /\ r \notin ToSet(waiting)
  BY <1>2, <1>3, <1>5 DEF Queues, Disjoint
<1>7. sq[r] \in SequenceState /\ sq[r].cursor \in Nat \cup {NotReplaying}
  BY <1>3, SequenceFields
<1>8. PICK eos \in BOOLEAN :
        /\ sq' = [sq EXCEPT ![r] = IF ~IsReplay(sq[r]) THEN WithToken(r, sq[r], eos)
                                   ELSE ReplayUpTo(sq[r], sq[r].cursor + 1)]
        /\ ending' = IF sq'[r].status = "FINISHED" THEN Append(ending, r) ELSE ending
  BY <1>4 DEF PostprocessDecode
<1>9. /\ sq'[r].status \in {sq[r].status, "FINISHED"}
      /\ \A q \in Req : (q # r => sq'[q] = sq[q])
  <2>1. CASE IsReplay(sq[r])
    <3>1. sq[r].cursor + 1 \in Nat BY <1>7, <2>1 DEF IsReplay, NotReplaying
    <3> QED BY <1>3, <1>7, <1>8, <2>1, <3>1, TokenStatus
  <2>2. CASE ~IsReplay(sq[r]) BY <1>3, <1>7, <1>8, <2>2, TokenStatus
  <2> QED BY <2>1, <2>2
<1>10. Popped' = <<>> BY <1>1 DEF Popped
<1>11. /\ Queues'
       /\ \A q \in Req : (Placed(q)' <=> Placed(q)) /\ (InQueue(q)' <=> InQueue(q))
  BY <1>1, <1>2, <1>10, QueuesSame DEF Queues, Distinct
<1>12. Lists'
  <2>1. CASE sq'[r].status = "FINISHED"
    <3>1. Distinct(Append(ending, r)) /\ ToSet(Append(ending, r)) = ToSet(ending) \cup {r}
      BY <1>3, <1>6, AppendQueue
    <3>2. Distinct(ending') /\ ToSet(ending') = ToSet(ending) \cup {r}
      BY <1>8, <2>1, <3>1
    <3> QED BY <1>1, <1>3, <1>5, <1>6, <3>2 DEF Lists, Disjoint
  <2>2. CASE sq'[r].status # "FINISHED"
    <3>1. ending' = ending BY <1>8, <2>2
    <3> QED BY <1>1, <1>3, <1>5, <3>1 DEF Lists, Distinct, Disjoint
  <2> QED BY <2>1, <2>2
<1>13. Marks' BY <1>1, <1>2, <1>3 DEF Marks
<1>14. ASSUME NEW q \in Req PROVE Account(q)'
  <2>1. /\ Account(q) /\ (Holds(q)' <=> Holds(q)) /\ q \notin ToSet(Popped)'
    BY <1>1, <1>2, <1>10, EmptyQueue DEF Holdings, Holds
  <2>2. (Placed(q)' <=> Placed(q)) /\ (InQueue(q)' <=> InQueue(q)) BY <1>11
  <2>3. CASE q = r
    <3>1. Placed(q) /\ ~InQueue(q) BY <1>2, <1>6, <2>3, EmptyQueue DEF Placed, InQueue
    <3> QED BY <1>9, <2>1, <2>2, <2>3, <3>1 DEF Account
  <2>4. CASE q # r
    <3>1. sq'[q] = sq[q] /\ q \notin pending /\ q # preempted
      BY <1>2, <1>3, <1>9, <2>4, ReqAssumption
    <3> QED BY <2>1, <2>2, <3>1, AccountKept
  <2> QED BY <2>3, <2>4
<1>15. Steady BY <1>1, <1>2, <1>10, <1>11 DEF Steady, Prefills
<1> QED BY <1>11, <1>12, <1>13, <1>14, <1>15 DEF AInv, Holdings

\* A finished request is released and forgotten, or queued and owed.
LEMMA FinishAccounts == ASSUME IInv, AInv, ReleaseFinished PROVE AInv' /\ \E r \in Req : (r = Head(ending) /\ (Forgets(r) \/ Steady))
<1>1. /\ pc = "post" /\ ending # <<>> /\ todo = <<>> /\ UNCHANGED <<scan, todo>>
      /\ \/ /\ Released(Head(ending)) /\ Drop(Head(ending)) /\ ending' = Tail(ending)
            /\ pc' = "post" /\ UNCHANGED <<isPrefill, preempted, batch>>
         \/ /\ ReleaseFails(Head(ending)) /\ UNCHANGED <<sq, waiting, decoding, waitSince>>
            /\ ending' = <<>> /\ pc' = "idle" /\ isPrefill' = FALSE /\ UNCHANGED preempted
  BY DEF ReleaseFinished, outVars, waitVars
<1>2. /\ TypeOK /\ Queues /\ Lists /\ Marks /\ Holdings /\ preempted = NoReq
      /\ scan = NoScan /\ scan.skipped = <<>> /\ scan.failed = NoReq /\ scan.blocked = NoReq
      /\ Popped = <<>>
  BY <1>1, OutsideFacts
<1>3. /\ ending \in Seq(Req) /\ Distinct(ending) /\ ToSet(ending) \subseteq ToSet(decoding)
      /\ pending = {}
  BY <1>1, <1>2, QueueTypes DEF Lists, Marks
<1>4. PICK r \in Req : r = Head(ending) BY <1>1, <1>3, TailQueue
<1>5. /\ r \in ToSet(ending) /\ Distinct(Tail(ending))
      /\ ToSet(Tail(ending)) = ToSet(ending) \ {r}
  BY <1>1, <1>3, <1>4, TailQueue
<1>6. CASE /\ Released(Head(ending)) /\ Drop(Head(ending)) /\ ending' = Tail(ending)
           /\ pc' = "post" /\ UNCHANGED <<isPrefill, preempted, batch>>
  <2>1. Released(r) /\ Drop(r) BY <1>4, <1>6
  <2>2. ~Holds(r)' /\ \A q \in Req : (q # r => (Holds(q)' => Holds(q)))
    BY <1>2, <2>1, ReleaseHolds DEF Released
  <2>3. pending' = pending \ {r} BY <2>1 DEF Released
  <2>4. Popped' = <<>> BY <1>1, <1>6 DEF Popped
  <2>5. /\ Queues' /\ Holdings' /\ Forgets(r)
        /\ ToSet(waiting') = ToSet(waiting) \ {r}
        /\ ToSet(decoding') = ToSet(decoding) \ {r}
        /\ pending' \subseteq ToSet(waiting') \cup ToSet(decoding')
    BY <1>1, <1>2, <1>6, <2>1, <2>2, <2>3, <2>4, DropAccounts
  <2>6. Lists'
    BY <1>1, <1>3, <1>5, <1>6, <2>5, EmptyQueue DEF Lists, Disjoint, Distinct
  <2>7. Marks' BY <1>1, <1>2, <1>3, <1>6, <2>3, <2>5 DEF Marks
  <2> QED BY <1>4, <2>5, <2>6, <2>7 DEF AInv
<1>7. CASE /\ ReleaseFails(Head(ending)) /\ UNCHANGED <<sq, waiting, decoding, waitSince>>
           /\ ending' = <<>> /\ pc' = "idle" /\ isPrefill' = FALSE /\ UNCHANGED preempted
  <2>1. ReleaseFails(r) BY <1>4, <1>7
  <2>2. r \in ToSet(waiting) \cup ToSet(decoding) BY <1>3, <1>5
  <2>3. Popped' = <<>> BY <1>7 DEF Popped
  <2>4. /\ Queues' /\ Holdings' /\ Steady
        /\ pending' \subseteq ToSet(waiting') \cup ToSet(decoding')
    BY <1>1, <1>2, <1>7, <2>1, <2>2, <2>3, FailedReleaseAccounts
  <2>5. Lists' BY <1>1, <1>7, EmptyQueue DEF Lists, Disjoint, Distinct
  <2>6. Marks' BY <1>1, <1>2, <1>7, <2>4 DEF Marks
  <2> QED BY <1>4, <2>4, <2>5, <2>6 DEF AInv
<1> QED BY <1>1, <1>6, <1>7

-----------------------------------------------------------------------------
(* The invariant.                                                          *)

LEMMA StutterAccounts == ASSUME AInv, UNCHANGED vars PROVE AInv'
BY DEF AInv, Queues, Lists, Marks, Holdings, Account, Placed, InQueue, Holds, Popped,
       Distinct, Disjoint, vars, schedVars, engineVars

LEMMA AccountsStep == ASSUME IInv, AInv, [Next]_vars PROVE AInv'
<1>1. CASE EngineStep
  BY <1>1, BeginAccounts, ScheduleAccounts, ReleasePreemptedAccounts, NothingToRunAccounts,
     RunAccounts, RunFailsAccounts, ReclaimAccounts, PostPrefillAccounts, PostDecodeAccounts,
     FinishAccounts, EndAccounts
  DEF EngineStep
<1>2. ASSUME NEW r \in Req, AddRequest(r) \/ AbortRequest(r) \/ WaitTimeout(r) PROVE AInv'
  BY <1>2, AddAccounts, AbortAccounts, TimeoutAccounts
<1>3. CASE RefuseStep BY <1>3, RefuseAccounts
<1>4. CASE UNCHANGED vars \/ Quiescent BY <1>4, StutterAccounts DEF Quiescent
<1> QED BY <1>1, <1>2, <1>3, <1>4 DEF Next

LEMMA AccountsInductive == Spec => []AInv
<1>1. Init => AInv BY InitAccounts
<1>2. IInv /\ AInv /\ [Next]_vars => AInv' BY AccountsStep
<1> QED BY <1>1, <1>2, Inductive, PTL DEF Spec

\* Nobody is lost: through every deferral, preemption, requeue, failed run and
\* failed release a live request is in one queue exactly once, a request that
\* was forgotten keeps no KV, residency or window, and what step() refuses to go
\* on without can be released by abort_request.
THEOREM NobodyLost == Spec => []RequestsAccounted
<1>1. IInv /\ AInv => RequestsAccounted BY AccountsSuffice DEF IInv
<1> QED BY <1>1, Inductive, AccountsInductive, PTL
=============================================================================
