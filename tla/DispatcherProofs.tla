-------------------------- MODULE DispatcherProofs --------------------------
(***************************************************************************)
(* Proofs about Dispatcher, for any requests, chains, control calls and    *)
(* number of faults.                                                       *)
(*                                                                         *)
(* The argument follows a request through the places it can be in: queued, *)
(* with the thread that admits it, active, or settled (Stages); the queues *)
(* keep what the places promise (Queues, Cancels), and a sequence id       *)
(* belongs to the newest turn of its chain (Chains), so that what an abort *)
(* ends, what the engine runs and what `active` tracks are the same        *)
(* request (Tracks).                                                       *)
(***************************************************************************)
EXTENDS Dispatcher, SequenceTheorems, FiniteSetTheorems, TLAPS

-----------------------------------------------------------------------------
(* The inductive invariant.                                                *)

\* The thread has left its loop.
Ending == {"except", "failactive", "drain", "draincontrols", "drainaborts", "dead"}

\* The thread is inside _admit.
Admitting == {"admit", "engine", "recheck"}

\* Where a request can be.
Queued(r) == r \in ToSet(pending)
AtItem(r) == th.pc \in Admitting /\ th.item = r
IsActive(r) == \E s \in Requests : active[s] = r

\* Popped from `active` by a publication that raised afterwards.
Stranded(r) == hd[r].seq # NoRequest /\ latest[hd[r].seq] = r /\ active[hd[r].seq] = NoRequest

\* What a client has received.
Tokens(o) == \A i \in 1..Len(o) : o[i] = "token"
OneEnding(o) == \A i \in 1..(Len(o) - 1) : o[i] = "token"
HasEnding(o) == o # <<>> /\ o[Len(o)] # "token"

Untouched(h) == ~h.terminal /\ h.out = <<>> /\ h.admission = "none"

\* Its client has an ending, or does not wait for one.
Settled(h) == h.terminal /\ (h.cancelled \/ (h.admission # "none" /\ HasEnding(h.out)))

\* A handle by itself.
Shape(h) ==
  /\ h.client \in {"new", "preparing", "abandoned"} => Untouched(h)
  /\ h.client # "submitted" => ~h.cancelled /\ h.seq = NoRequest /\ h.admission # "ok"
  /\ h.discard # "no" => h.cancelled
  /\ h.admission = "ok" => h.seq # NoRequest
  /\ OneEnding(h.out)

\* A submitted request is in one place, and its handle says which.
Place(r) ==
  /\ Queued(r) => hd[r].client = "submitted" /\ Untouched(hd[r]) /\ hd[r].seq = NoRequest /\ ~AtItem(r)
  /\ AtItem(r) => /\ hd[r].client = "submitted" /\ Untouched(hd[r])
                  /\ (hd[r].seq # NoRequest) <=> (th.pc = "recheck")
                  /\ th.pc = "recheck" => r \in eng.live
  /\ IsActive(r) => /\ hd[r].client = "submitted" /\ ~hd[r].terminal /\ hd[r].admission = "ok"
                    /\ Tokens(hd[r].out)
  /\ hd[r].client = "submitted" =>
       Queued(r) \/ AtItem(r) \/ IsActive(r) \/ Settled(hd[r]) \/ Stranded(r)

Stages == \A r \in Requests : Shape(hd[r]) /\ Place(r)

\* The queues.
OnceIn(q, r) == \A i, j \in 1..Len(q) : q[i] = r /\ q[j] = r => i = j

Queues ==
  /\ \A r \in Requests : OnceIn(pending, r)
  /\ Stop \in ToSet(pending) \/ th.stopping => closing
  /\ th.pc \in Ending \ {"except"} => failed \/ closing
  /\ th.pc \in Ending \ {"except", "failactive"} => Idle
  /\ th.pc \in {"draincontrols", "drainaborts", "dead"} => \A r \in Requests : ~Queued(r)
  /\ th.pc \in {"drainaborts", "dead"} => controls = <<>>
  /\ th.pc = "dead" => \A a \in ToSet(aborts) : ~a.force
  /\ th.pc \in Admitting => th.item \in Requests
  /\ \A c \in Controls : calls[c] = "waiting" => c \in ToSet(controls)

\* The aborts, and the event loop methods that queue them.
AbortQueued(r) == \E a \in ToSet(aborts) : a.of = r

Cancelled(r) ==
  /\ hd[r].discard = "waiting" => loop = In("discard", r) \/ [of |-> r, force |-> TRUE] \in ToSet(aborts)
  /\ /\ hd[r].cancelled /\ hd[r].discard # "error"
     /\ loop \notin {In("cancel", r), In("discard", r)}
     /\ IsActive(r) /\ ~failed /\ th.pc # "except"
     => AbortQueued(r)
  /\ hd[r].discard = "ok" => ~IsActive(r)

AbortSound(a) == hd[a.of].seq # NoRequest /\ hd[a.of].cancelled /\ (a.force => hd[a.of].discard # "no")

LoopSound ==
  loop.at \in {"cancel", "discard"} =>
    /\ loop.of \in Requests /\ hd[loop.of].cancelled /\ hd[loop.of].client = "submitted"
    /\ loop.at = "discard" => hd[loop.of].discard # "no"

Cancels ==
  /\ \A a \in ToSet(aborts) : AbortSound(a)
  /\ LoopSound
  /\ \A r \in Requests : Cancelled(r)

\* The turns of a chain: the previous one was admitted, and is not discarded.
Linked(r) ==
  hd[r].client # "new" /\ Previous[r] # NoRequest =>
    hd[Previous[r]].admission = "ok" /\ hd[Previous[r]].discard = "no"

TurnsLinked == \A r \in Requests : Linked(r)

\* The chain of p went on with another turn.
Continued(p) == \E q \in Requests : Previous[q] = p /\ hd[q].seq # NoRequest

\* r is the newest turn of its sequence id.
Tip(r) == hd[r].seq # NoRequest /\ ~Continued(r)

SeqsSound ==
  /\ \A r \in Requests : hd[r].seq # NoRequest => hd[hd[r].seq].seq = hd[r].seq
  /\ \A r, q \in Requests : Tip(r) /\ Tip(q) /\ hd[r].seq = hd[q].seq => r = q

LiveSound ==
  /\ \A r \in eng.live : Tip(r) /\ eng.made[r] < MaxTokens[r]
  /\ \A r \in Requests : hd[r].seq = NoRequest => eng.made[r] = 0

KeptSound(s) ==
  eng.kept[s] # NoRequest =>
    hd[eng.kept[s]].seq = s /\ Tip(eng.kept[s]) /\ eng.kept[s] \notin eng.live

ActiveSound(s) ==
  active[s] # NoRequest => hd[active[s]].seq = s /\ Tip(active[s]) /\ latest[s] = active[s]

Chains ==
  /\ SeqsSound
  /\ LiveSound
  /\ \A s \in Requests : KeptSound(s) /\ ActiveSound(s)

\* Nothing of r is left in the engine.
Gone(r) == r \notin eng.live /\ \A s \in Requests : eng.kept[s] # r

\* While no engine call has raised, the engine runs what the thread tracks.
Faultless ==
  /\ \A r \in eng.live : IsActive(r) \/ AtItem(r)
  /\ eng.owed = {} /\ th.pc # "except"
  /\ \A r \in Requests : hd[r].discard = "ok" /\ ~AtItem(r) => Gone(r)

\* What the engine runs and what the thread tracks.
Tracks ==
  /\ th.pc \notin Ending => latest = active
  /\ th.pc \notin Ending \cup {"publish", "finish"} => \A r \in Requests : IsActive(r) => r \in eng.live
  /\ th.pc \in {"publish", "finish"} =>
       /\ \A r \in Requests : IsActive(r) => r \in eng.live \cup th.finished
       /\ \A r \in th.tokens \cup th.finished : hd[r].seq # NoRequest
       /\ th.finished \cap eng.live = {}
  /\ faults = 0 => Faultless
  /\ th.pc \in Ending => \E x \in Requests \cup {NoRequest} :
       \A r \in Requests : Stranded(r) => r = x /\ r \in th.finished

IInv == TypeOK /\ Stages /\ Queues /\ Cancels /\ TurnsLinked /\ Chains /\ Tracks

-----------------------------------------------------------------------------
(* Sequences.                                                              *)

\* What is in a queue after something was put into it.
LEMMA ToSetAppend ==
  ASSUME NEW S, NEW q \in Seq(S), NEW e \in S
  PROVE  Append(q, e) \in Seq(S) /\ ToSet(Append(q, e)) = ToSet(q) \cup {e}
<1> DEFINE t == Append(q, e)
<1>1. t \in Seq(S) /\ Len(t) = Len(q) + 1 /\ Len(q) \in Nat /\ t[Len(q) + 1] = e
      /\ \A i \in 1..Len(q) : t[i] = q[i]
  BY AppendProperties
<1>2. DOMAIN t = 1..Len(t) /\ DOMAIN q = 1..Len(q)
  BY <1>1, LenProperties
<1>3. ToSet(t) = ToSet(q) \cup {e}
  BY <1>1, <1>2 DEF ToSet
<1> QED BY <1>1, <1>3

\* What is in a queue before something was taken from it.
LEMMA ToSetTail ==
  ASSUME NEW S, NEW q \in Seq(S), q # <<>>
  PROVE  /\ Tail(q) \in Seq(S) /\ Head(q) \in S
         /\ ToSet(q) = {Head(q)} \cup ToSet(Tail(q))
<1> DEFINE t == Tail(q)
<1>1. /\ t \in Seq(S) /\ Head(q) \in S /\ Head(q) = q[1]
      /\ Len(t) = Len(q) - 1 /\ Len(q) \in Nat /\ Len(q) # 0
      /\ \A i \in 1..Len(t) : t[i] = q[i + 1]
  BY HeadTailProperties, EmptySeq
<1>2. DOMAIN t = 1..Len(t) /\ DOMAIN q = 1..Len(q)
  BY <1>1, LenProperties
<1>3. ASSUME NEW i \in 1..Len(q) PROVE q[i] = Head(q) \/ \E j \in 1..Len(t) : t[j] = q[i]
  <2>1. i # 1 => i - 1 \in 1..Len(t) /\ t[i - 1] = q[i]
    BY <1>1
  <2> QED BY <2>1, <1>1
<1>4. ASSUME NEW i \in 1..Len(t) PROVE i + 1 \in 1..Len(q) /\ q[i + 1] = t[i]
  BY <1>1
<1>5. 1 \in 1..Len(q)
  BY <1>1
<1>6. ToSet(q) = {Head(q)} \cup ToSet(t)
  <2>1. ASSUME NEW x \in ToSet(q) PROVE x = Head(q) \/ x \in ToSet(t)
    BY <1>2, <1>3 DEF ToSet
  <2>2. Head(q) \in ToSet(q)
    BY <1>1, <1>2, <1>5 DEF ToSet
  <2>3. ASSUME NEW x \in ToSet(t) PROVE x \in ToSet(q)
    <3>1. PICK i \in 1..Len(t) : x = t[i]
      BY <1>2 DEF ToSet
    <3> QED BY <1>2, <1>4, <3>1 DEF ToSet
  <2> QED BY <2>1, <2>2, <2>3
<1> QED BY <1>1, <1>6

\* A handle is queued once: it is not queued any more after it was taken.
LEMMA OnceTail ==
  ASSUME NEW S, NEW q \in Seq(S), q # <<>>, NEW r, OnceIn(q, r)
  PROVE  OnceIn(Tail(q), r) /\ (Head(q) = r => r \notin ToSet(Tail(q)))
<1> DEFINE t == Tail(q)
<1>1. /\ t \in Seq(S) /\ Head(q) = q[1]
      /\ Len(t) = Len(q) - 1 /\ Len(q) \in Nat /\ Len(q) # 0
      /\ \A i \in 1..Len(t) : t[i] = q[i + 1]
  BY HeadTailProperties, EmptySeq
<1>2. DOMAIN t = 1..Len(t)
  BY <1>1, LenProperties
<1>3. OnceIn(t, r)
  <2> SUFFICES ASSUME NEW i \in 1..Len(t), NEW j \in 1..Len(t), t[i] = r, t[j] = r PROVE i = j
    BY DEF OnceIn
  <2>1. i + 1 \in 1..Len(q) /\ j + 1 \in 1..Len(q) /\ q[i + 1] = r /\ q[j + 1] = r
    BY <1>1
  <2>2. i + 1 = j + 1
    BY <2>1 DEF OnceIn
  <2> QED BY <2>2
<1>4. ASSUME Head(q) = r, NEW i \in 1..Len(t), t[i] = r PROVE FALSE
  <2>1. i + 1 \in 1..Len(q) /\ 1 \in 1..Len(q) /\ q[i + 1] = r /\ q[1] = r
    BY <1>1, <1>4
  <2>2. i + 1 = 1
    BY <2>1 DEF OnceIn
  <2> QED BY <2>2
<1> QED BY <1>2, <1>3, <1>4 DEF ToSet

\* A request that is not queued can be queued.
LEMMA OnceAppend ==
  ASSUME NEW S, NEW q \in Seq(S), NEW e \in S, NEW r, OnceIn(q, r), e = r => r \notin ToSet(q)
  PROVE  OnceIn(Append(q, e), r)
<1> DEFINE t == Append(q, e)
<1>1. t \in Seq(S) /\ Len(t) = Len(q) + 1 /\ Len(q) \in Nat /\ t[Len(q) + 1] = e
      /\ \A i \in 1..Len(q) : t[i] = q[i]
  BY AppendProperties
<1>2. DOMAIN q = 1..Len(q)
  BY LenProperties
<1> SUFFICES ASSUME NEW i \in 1..Len(t), NEW j \in 1..Len(t), t[i] = r, t[j] = r PROVE i = j
  BY DEF OnceIn
<1>3. e = r => \A k \in 1..Len(q) : q[k] # r
  BY <1>2 DEF ToSet
<1>4. i \in 1..Len(q) \/ i = Len(q) + 1
  BY <1>1
<1>5. j \in 1..Len(q) \/ j = Len(q) + 1
  BY <1>1
<1> QED BY <1>1, <1>3, <1>4, <1>5 DEF OnceIn

\* What a client has received, with one more event.
LEMMA OutAppend ==
  ASSUME NEW S, NEW o \in Seq(S), NEW e \in S
  PROVE  /\ Tokens(o) => OneEnding(Append(o, e)) /\ OneEnding(o)
         /\ Tokens(o) /\ e = "token" => Tokens(Append(o, e))
         /\ e # "token" => HasEnding(Append(o, e))
<1> DEFINE t == Append(o, e)
<1>1. t \in Seq(S) /\ Len(t) = Len(o) + 1 /\ Len(o) \in Nat /\ t[Len(o) + 1] = e
      /\ \A i \in 1..Len(o) : t[i] = o[i]
  BY AppendProperties
<1>2. \A i \in 1..(Len(o) - 1) : i \in 1..Len(o)
  BY <1>1
<1>3. Tokens(o) => OneEnding(t) /\ OneEnding(o)
  BY <1>1, <1>2 DEF Tokens, OneEnding
<1>4. Tokens(o) /\ e = "token" => Tokens(t)
  BY <1>1 DEF Tokens
<1>5. t # <<>>
  BY <1>1, EmptySeq
<1>6. e # "token" => HasEnding(t)
  BY <1>1, <1>5 DEF HasEnding
<1> QED BY <1>3, <1>4, <1>6

\* Nothing was sent yet.
LEMMA OutEmpty == Tokens(<<>>) /\ OneEnding(<<>>)
<1>1. Len(<<>>) = 0
  BY EmptySeq
<1> QED BY <1>1 DEF Tokens, OneEnding

-----------------------------------------------------------------------------
(* What a step leaves alone.                                               *)

SameSeqs == \A r \in Requests : hd'[r].seq = hd[r].seq

\* The engine loses requests and chains, or keeps them.
Shrinks ==
  /\ eng'.live \subseteq eng.live /\ eng'.made = eng.made
  /\ \A s \in Requests : eng'.kept[s] \in {eng.kept[s], NoRequest}

\* `active` loses requests, or keeps them.
Drops == \A s \in Requests : active'[s] = NoRequest \/ (active'[s] = active[s] /\ latest'[s] = latest[s])

\* Nothing is said of a request but r.
Only(r) == \A q \in Requests : q # r => hd'[q] = hd[q]

\* No sequence id is given.
LEMMA TipsKept ==
  ASSUME TypeOK, SameSeqs
  PROVE  (\A r \in Requests : Tip(r)' <=> Tip(r)) /\ (SeqsSound => SeqsSound')
<1>1. \A r \in Requests : Tip(r)' <=> Tip(r)
  BY DispatcherAssumption DEF SameSeqs, Tip, Continued
<1>2. \A r \in Requests : hd[r].seq \in Requests \cup {NoRequest}
  BY DEF TypeOK, Handle
<1>3. SeqsSound => SeqsSound'
  BY <1>1, <1>2 DEF SeqsSound, SameSeqs
<1> QED BY <1>1, <1>3

LEMMA ChainsKept ==
  ASSUME TypeOK, Chains, SameSeqs, Shrinks, Drops
  PROVE  Chains'
<1>1. (\A r \in Requests : Tip(r)' <=> Tip(r)) /\ SeqsSound'
  BY TipsKept DEF Chains
<1>2. eng.live \subseteq Requests
  BY DEF TypeOK
<1>3. LiveSound'
  BY <1>1, <1>2 DEF Chains, LiveSound, SameSeqs, Shrinks
<1>4. ASSUME NEW s \in Requests PROVE KeptSound(s)' /\ ActiveSound(s)'
  <2>1. eng.kept[s] \in Requests \cup {NoRequest} /\ active[s] \in Requests \cup {NoRequest}
    BY DEF TypeOK
  <2>2. KeptSound(s) /\ ActiveSound(s)
    BY DEF Chains
  <2>3. KeptSound(s)'
    BY <1>1, <2>1, <2>2 DEF KeptSound, SameSeqs, Shrinks
  <2>4. ActiveSound(s)'
    BY <1>1, <2>1, <2>2 DEF ActiveSound, SameSeqs, Drops
  <2> QED BY <2>3, <2>4
<1> QED BY <1>1, <1>3, <1>4 DEF Chains

LEMMA TurnsKept ==
  ASSUME TypeOK, TurnsLinked,
         \A r \in Requests : /\ hd'[r].client # "new" => hd[r].client # "new"
                             /\ hd[r].admission = "ok" => hd'[r].admission = "ok"
                             /\ hd[r].discard = "no" => hd'[r].discard = "no"
  PROVE  TurnsLinked'
<1> SUFFICES ASSUME NEW r \in Requests PROVE Linked(r)'
  BY DEF TurnsLinked
<1>1. Linked(r) /\ Previous[r] \in Requests \cup {NoRequest}
  BY DispatcherAssumption DEF TurnsLinked
<1> QED BY <1>1 DEF Linked

LEMMA PlaceKept ==
  ASSUME NEW r \in Requests, Place(r), hd'[r] = hd[r],
         Queued(r)' <=> Queued(r), IsActive(r)' <=> IsActive(r),
         AtItem(r)' <=> AtItem(r), AtItem(r) => th'.pc = th.pc /\ (r \in eng.live => r \in eng'.live),
         Stranded(r) => Stranded(r)'
  PROVE  Place(r)'
BY DEF Place

\* The thread tracks what it tracked, and only r's handle changed.
LEMMA StagesKept ==
  ASSUME Stages, NEW r \in Requests, Only(r), UNCHANGED <<active, latest, eng, th>>,
         \A q \in Requests : q # r => (Queued(q)' <=> Queued(q)),
         Shape(hd'[r]), Place(r)'
  PROVE  Stages'
<1> SUFFICES ASSUME NEW q \in Requests, q # r PROVE Shape(hd'[q]) /\ Place(q)'
  BY DEF Stages
<1>1. hd'[q] = hd[q] /\ Place(q) /\ Shape(hd[q])
  BY DEF Stages, Only
<1>2. (IsActive(q)' <=> IsActive(q)) /\ (AtItem(q)' <=> AtItem(q)) /\ (Stranded(q)' <=> Stranded(q))
  BY <1>1 DEF IsActive, AtItem, Stranded
<1>3. Place(q)'
  BY <1>1, <1>2, PlaceKept
<1> QED BY <1>1, <1>3

\* The thread moves outside _admit, and nothing else happens to requests.
LEMMA StagesUntouched ==
  ASSUME Stages, UNCHANGED <<hd, active, latest>>, th.pc \notin Admitting, th'.pc \notin Admitting,
         \A q \in Requests : Queued(q)' <=> Queued(q)
  PROVE  Stages'
<1> SUFFICES ASSUME NEW q \in Requests PROVE Shape(hd'[q]) /\ Place(q)'
  BY DEF Stages
<1>1. hd'[q] = hd[q] /\ Place(q) /\ Shape(hd[q])
  BY DEF Stages
<1>2. (IsActive(q)' <=> IsActive(q)) /\ ~AtItem(q)' /\ ~AtItem(q) /\ (Stranded(q)' <=> Stranded(q))
  BY <1>1 DEF IsActive, AtItem, Stranded
<1>3. Place(q)'
  BY <1>1, <1>2, PlaceKept
<1> QED BY <1>1, <1>3

\* A request without a sequence id is not in the engine, nor active.
LEMMA NotAdmitted ==
  ASSUME TypeOK, Chains, NEW r \in Requests, hd[r].seq = NoRequest
  PROVE  Gone(r) /\ ~IsActive(r)
<1>1. r \notin eng.live
  BY DEF Chains, LiveSound, Tip
<1>2. ASSUME NEW s \in Requests PROVE eng.kept[s] # r /\ active[s] # r
  <2>1. r # NoRequest
    BY DispatcherAssumption
  <2> QED BY <2>1 DEF Chains, KeptSound, ActiveSound, Tip
<1> QED BY <1>1, <1>2 DEF Gone, IsActive

\* A method of the event loop does not touch what the thread owns.
LEMMA LoopTracks ==
  ASSUME TypeOK, Chains, Tracks, UNCHANGED <<active, latest, eng, th, faults>>, SameSeqs,
         \A q \in Requests : hd'[q].discard = "ok" => hd[q].discard = "ok" \/ hd[q].seq = NoRequest
  PROVE  Chains' /\ Tracks'
<1>1. Chains'
  BY ChainsKept DEF Shrinks, Drops
<1>2. \A r : (IsActive(r)' <=> IsActive(r)) /\ (AtItem(r)' <=> AtItem(r)) /\ (Gone(r)' <=> Gone(r))
  BY DEF IsActive, AtItem, Gone
<1>3. \A r \in Requests : Stranded(r)' <=> Stranded(r)
  BY DEF Stranded, SameSeqs
<1>4. faults = 0 => Faultless'
  BY <1>2, NotAdmitted DEF Tracks, Faultless
<1>5. th.tokens \cup th.finished \subseteq Requests
  BY DEF TypeOK
<1>6. /\ th.pc \notin Ending => latest = active
      /\ th.pc \notin Ending \cup {"publish", "finish"} => \A r \in Requests : IsActive(r)' => r \in eng.live
      /\ th.pc \in {"publish", "finish"} =>
           /\ \A r \in Requests : IsActive(r)' => r \in eng.live \cup th.finished
           /\ \A r \in th.tokens \cup th.finished : hd'[r].seq # NoRequest
           /\ th.finished \cap eng.live = {}
  BY <1>2, <1>5 DEF Tracks, SameSeqs
<1>7. th.pc \in Ending => \E x \in Requests \cup {NoRequest} :
        \A r \in Requests : Stranded(r)' => r = x /\ r \in th.finished
  BY <1>3 DEF Tracks
<1>8. Tracks'
  BY <1>4, <1>6, <1>7 DEF Tracks
<1> QED BY <1>1, <1>8

-----------------------------------------------------------------------------
(* The methods of the event loop.                                          *)

LEMMA InApart == \A m, n, r, q : (In(m, r) = In(n, q)) <=> (m = n /\ r = q)
BY DEF In

\* A handle's cancellation stands as it stood.
LEMMA CancelledKept ==
  ASSUME NEW q \in Requests, Cancelled(q),
         hd'[q].discard = hd[q].discard, hd'[q].cancelled = hd[q].cancelled,
         loop = In("discard", q) <=> loop' = In("discard", q),
         loop = In("cancel", q) <=> loop' = In("cancel", q),
         \A a \in ToSet(aborts) : a.of = q => a \in ToSet(aborts)',
         IsActive(q)' => IsActive(q), failed => failed', th.pc = "except" => th'.pc = "except" \/ failed'
  PROVE  Cancelled(q)'
<1>1. [of |-> q, force |-> TRUE] \in ToSet(aborts) => [of |-> q, force |-> TRUE] \in ToSet(aborts)'
  OBVIOUS
<1>2. AbortQueued(q) => AbortQueued(q)'
  BY DEF AbortQueued
<1> QED BY <1>1, <1>2 DEF Cancelled

\* An abort stays sound while its request keeps its sequence id.
LEMMA AbortSoundKept ==
  ASSUME NEW a \in Abort, AbortSound(a), hd'[a.of].seq = hd[a.of].seq,
         hd[a.of].cancelled => hd'[a.of].cancelled, hd[a.of].discard # "no" => hd'[a.of].discard # "no"
  PROVE  AbortSound(a)'
BY DEF AbortSound

\* Everything that is queued has its type.
LEMMA AbortTypes ==
  ASSUME TypeOK
  PROVE  \A a \in ToSet(aborts) : a \in Abort /\ a.of \in Requests /\ a.force \in BOOLEAN
<1>1. DOMAIN aborts = 1..Len(aborts) /\ \A i \in 1..Len(aborts) : aborts[i] \in Abort
  BY LenProperties, ElementOfSeq DEF TypeOK
<1> QED BY <1>1 DEF ToSet, Abort

\* The aborts that were queued stay sound when r's flags are set.
LEMMA AbortsKept ==
  ASSUME TypeOK, Cancels, NEW r \in Requests, Only(r), hd'[r].seq = hd[r].seq,
         hd[r].cancelled => hd'[r].cancelled, hd[r].discard # "no" => hd'[r].discard # "no",
         NEW a \in ToSet(aborts)
  PROVE  AbortSound(a)'
<1>1. a \in Abort /\ a.of \in Requests /\ AbortSound(a)
  BY AbortTypes DEF Cancels
<1>2. hd'[a.of].seq = hd[a.of].seq /\ (hd[a.of].cancelled => hd'[a.of].cancelled)
      /\ (hd[a.of].discard # "no" => hd'[a.of].discard # "no")
  <2>1. CASE a.of = r
    BY <2>1
  <2>2. CASE a.of # r
    BY <2>2, <1>1 DEF Only
  <2> QED BY <2>1, <2>2
<1> QED BY <1>1, <1>2, AbortSoundKept

LEMMA QueuesSame ==
  ASSUME Queues, UNCHANGED <<pending, aborts, controls, calls, closing, failed, active, th>>
  PROVE  Queues'
BY DEF Queues, Idle, Queued

\* The fields of a handle.
LEMMA HandleTypes ==
  ASSUME TypeOK, NEW r \in Requests
  PROVE  /\ hd[r] \in Handle
         /\ hd[r].client \in {"new", "preparing", "abandoned", "submitted", "refused"}
         /\ hd[r].cancelled \in BOOLEAN /\ hd[r].terminal \in BOOLEAN
         /\ hd[r].seq \in Requests \cup {NoRequest}
         /\ hd[r].admission \in {"none", "ok", "error"}
         /\ hd[r].out \in Seq({"token", "final", "error"})
         /\ hd[r].discard \in {"no", "waiting", "ok", "error", "timeout"}
BY DEF TypeOK, Handle

\* A handle that is replaced.
LEMMA Replaced ==
  ASSUME TypeOK, NEW r \in Requests, NEW h \in Handle, hd' = [hd EXCEPT ![r] = h]
  PROVE  hd' \in [Requests -> Handle] /\ hd'[r] = h /\ Only(r)
BY DEF TypeOK, Only

\* A request that was never submitted is nowhere.
LEMMA NotSubmitted ==
  ASSUME IInv, NEW r \in Requests, hd[r].client # "submitted"
  PROVE  /\ ~Queued(r) /\ ~AtItem(r) /\ ~IsActive(r) /\ ~Stranded(r)
         /\ hd[r].seq = NoRequest /\ ~hd[r].cancelled /\ hd[r].discard = "no" /\ hd[r].admission # "ok"
         /\ loop # In("cancel", r) /\ loop # In("discard", r)
         /\ \A a \in ToSet(aborts) : a.of # r
<1>1. Shape(hd[r]) /\ Place(r)
  BY DEF IInv, Stages
<1>2. hd[r].seq = NoRequest /\ ~hd[r].cancelled /\ hd[r].discard = "no" /\ hd[r].admission # "ok"
  BY <1>1 DEF Shape
<1>3. loop # In("cancel", r) /\ loop # In("discard", r)
  BY DEF IInv, Cancels, LoopSound, In
<1>4. \A a \in ToSet(aborts) : a.of # r
  BY <1>2 DEF IInv, Cancels, AbortSound
<1> QED BY <1>1, <1>2, <1>3, <1>4 DEF Place, Stranded

\* What refuse() leaves in a handle.
LEMMA RefusedShape ==
  ASSUME NEW h \in Handle, h.client \in {"new", "preparing"}, Shape(h)
  PROVE  /\ Refused(h) \in Handle /\ Shape(Refused(h)) /\ Refused(h).client = "refused"
         /\ Refused(h).seq = h.seq /\ Refused(h).admission = "error" /\ Refused(h).discard = h.discard
         /\ Refused(h).cancelled = h.cancelled
<1> DEFINE g == Refused(h)
<1>1. h.out = <<>> /\ ~h.cancelled /\ h.seq = NoRequest /\ h.discard = "no"
  BY DEF Shape, Untouched
<1>2. Append(h.out, "error") \in Seq({"token", "final", "error"}) /\ OneEnding(Append(h.out, "error"))
  <2>1. h.out \in Seq({"token", "final", "error"}) /\ Tokens(h.out)
    BY <1>1, OutEmpty DEF Handle
  <2> QED BY <2>1, OutAppend, AppendProperties
<1>3. /\ g.client = "refused" /\ g.terminal = TRUE /\ g.admission = "error" /\ g.out = Append(h.out, "error")
      /\ g.cancelled = h.cancelled /\ g.seq = h.seq /\ g.discard = h.discard
  BY DEF Refused, Handle
<1>4. g \in Handle
  BY <1>2 DEF Refused, Handle
<1>5. Shape(g)
  BY <1>1, <1>2, <1>3 DEF Shape
<1> QED BY <1>3, <1>4, <1>5

\* A change to a handle that was not submitted, and stays so.
LEMMA ClientMoves ==
  ASSUME IInv, NEW r \in Requests, hd[r].client # "submitted",
         NEW h \in Handle, hd' = [hd EXCEPT ![r] = h], Shape(h), h.client # "submitted", h.seq = hd[r].seq,
         h.discard = hd[r].discard,
         UNCHANGED <<queues, calls, loop, flags, maps, eng, th, faults>>
  PROVE  TypeOK' /\ Stages' /\ Queues' /\ Cancels' /\ Chains' /\ Tracks'
<1>1. /\ hd' \in [Requests -> Handle] /\ hd'[r] = h /\ Only(r)
      /\ UNCHANGED <<pending, aborts, controls, calls, loop, closing, failed, active, latest, eng, th, faults>>
  BY Replaced DEF IInv, queues, flags, maps
<1>2. TypeOK'
  BY <1>1 DEF IInv, TypeOK
<1>3. /\ ~Queued(r) /\ ~AtItem(r) /\ ~IsActive(r) /\ ~Stranded(r)
      /\ hd[r].seq = NoRequest /\ ~hd[r].cancelled /\ hd[r].discard = "no"
      /\ loop # In("cancel", r) /\ loop # In("discard", r)
      /\ \A a \in ToSet(aborts) : a.of # r
  BY NotSubmitted
<1>4. (\A q \in Requests : Queued(q)' <=> Queued(q)) /\ (\A q : IsActive(q)' <=> IsActive(q)) /\ (AtItem(r)' <=> AtItem(r))
  BY <1>1 DEF Queued, IsActive, AtItem
<1>5. Place(r)'
  BY <1>1, <1>3, <1>4 DEF Place
<1>6. Stages'
  BY <1>1, <1>4, <1>5, StagesKept DEF IInv
<1>7. Queues'
  BY <1>1, QueuesSame DEF IInv
<1>8. Cancels'
  <2>1. ASSUME NEW a \in ToSet(aborts) PROVE AbortSound(a)'
    BY <1>1, <1>3, AbortTypes DEF IInv, Cancels, AbortSound, Only
  <2>2. LoopSound'
    BY <1>1, <1>3 DEF IInv, Cancels, LoopSound, Only
  <2>3. ASSUME NEW q \in Requests PROVE Cancelled(q)'
    <3>1. CASE q = r
      BY <3>1, <1>1, <1>3, <1>4 DEF Cancelled
    <3>2. CASE q # r
      BY <3>2, <1>1, <1>4, CancelledKept DEF IInv, Cancels, Only
    <3> QED BY <3>1, <3>2
  <2> QED BY <1>1, <2>1, <2>2, <2>3 DEF Cancels
<1>9. Chains' /\ Tracks'
  BY <1>1, <1>3, LoopTracks DEF IInv, SameSeqs, Only
<1> QED BY <1>2, <1>6, <1>7, <1>8, <1>9

LEMMA SubmitStartsKeeps == ASSUME IInv, NEW r \in Requests, SubmitStarts(r) PROVE IInv'
<1> DEFINE h == IF Unavailable THEN Refused(hd[r]) ELSE [hd[r] EXCEPT !.client = "preparing"]
<1>1. hd[r] \in Handle /\ hd[r].client = "new" /\ Shape(hd[r]) /\ hd' = [hd EXCEPT ![r] = h]
      /\ UNCHANGED <<queues, calls, loop, flags, maps, eng, th, faults>>
  BY HandleTypes DEF IInv, Stages, SubmitStarts
<1>2. ~Unavailable => /\ h \in Handle /\ h.client = "preparing" /\ h.cancelled = hd[r].cancelled
                      /\ h.terminal = hd[r].terminal /\ h.seq = hd[r].seq /\ h.admission = hd[r].admission
                      /\ h.out = hd[r].out /\ h.discard = hd[r].discard
  BY <1>1 DEF Handle
<1>3. ~Unavailable => Shape(h)
  BY <1>1, <1>2 DEF Shape, Untouched
<1>4. /\ h \in Handle /\ Shape(h) /\ h.client # "submitted" /\ h.seq = hd[r].seq /\ h.discard = hd[r].discard
      /\ h.admission = hd[r].admission \/ h.admission = "error"
  BY <1>1, <1>2, <1>3, RefusedShape
<1>5. TypeOK' /\ Stages' /\ Queues' /\ Cancels' /\ Chains' /\ Tracks'
  BY <1>1, <1>4, ClientMoves
<1>6. hd'[r] = h /\ Only(r) /\ hd[r].admission # "ok"
  BY <1>1, <1>4, Replaced, NotSubmitted DEF IInv
<1>7. TurnsLinked'
  <2> SUFFICES ASSUME NEW q \in Requests PROVE Linked(q)'
    BY DEF TurnsLinked
  <2>1. Previous[q] \in Requests \cup {NoRequest} /\ Linked(q)
    BY DispatcherAssumption DEF IInv, TurnsLinked
  <2>2. Previous[q] # NoRequest /\ (q = r \/ hd[q].client # "new") =>
          hd[Previous[q]].admission = "ok" /\ hd[Previous[q]].discard = "no"
    BY <2>1 DEF Linked, SubmitStarts
  <2>3. Previous[q] # NoRequest /\ (q = r \/ hd[q].client # "new") => Previous[q] # r
    BY <2>2, <1>6
  <2>4. q # r => hd'[q] = hd[q]
    BY <1>6 DEF Only
  <2>5. Previous[q] # NoRequest /\ Previous[q] # r => hd'[Previous[q]] = hd[Previous[q]]
    BY <1>6, <2>1 DEF Only
  <2> QED BY <2>2, <2>3, <2>4, <2>5 DEF Linked
<1> QED BY <1>5, <1>7 DEF IInv

LEMMA SubmitAbandonedKeeps == ASSUME IInv, NEW r \in Requests, SubmitAbandoned(r) PROVE IInv'
<1> DEFINE h == [hd[r] EXCEPT !.client = "abandoned"]
<1>1. hd[r] \in Handle /\ hd[r].client = "preparing" /\ Shape(hd[r]) /\ hd' = [hd EXCEPT ![r] = h]
      /\ UNCHANGED <<queues, calls, loop, flags, maps, eng, th, faults>>
  BY HandleTypes DEF IInv, Stages, SubmitAbandoned
<1>2. /\ h \in Handle /\ h.client = "abandoned" /\ h.cancelled = hd[r].cancelled
      /\ h.terminal = hd[r].terminal /\ h.seq = hd[r].seq /\ h.admission = hd[r].admission
      /\ h.out = hd[r].out /\ h.discard = hd[r].discard
  BY <1>1 DEF Handle
<1>3. Shape(h)
  BY <1>1, <1>2 DEF Shape, Untouched
<1>4. TypeOK' /\ Stages' /\ Queues' /\ Cancels' /\ Chains' /\ Tracks'
  BY <1>1, <1>2, <1>3, ClientMoves
<1>5. hd'[r] = h /\ Only(r)
  BY <1>1, <1>2, Replaced DEF IInv
<1>6. TurnsLinked'
  BY <1>1, <1>2, <1>5, TurnsKept DEF IInv, Only
<1> QED BY <1>4, <1>6 DEF IInv

\* Every element of a queue that gets a request or a mark is found again.
LEMMA PendingAppend ==
  ASSUME IInv, NEW e \in Requests \cup {Wakeup, Stop}, pending' = Append(pending, e),
         e \in Requests => ~Queued(e)
  PROVE  /\ pending' \in Seq(Requests \cup {Wakeup, Stop})
         /\ \A r \in Requests : Queued(r)' <=> Queued(r) \/ r = e
         /\ Stop \in ToSet(pending)' => Stop \in ToSet(pending) \/ e = Stop
         /\ \A r \in Requests : OnceIn(pending', r)
<1>1. pending \in Seq(Requests \cup {Wakeup, Stop})
  BY DEF IInv, TypeOK
<1>2. pending' \in Seq(Requests \cup {Wakeup, Stop}) /\ ToSet(pending') = ToSet(pending) \cup {e}
  BY <1>1, ToSetAppend
<1>3. ASSUME NEW r \in Requests PROVE OnceIn(pending', r)
  BY <1>1, OnceAppend DEF IInv, Queues, Queued
<1> QED BY <1>2, <1>3 DEF Queued

LEMMA SubmitQueuesKeeps == ASSUME IInv, NEW r \in Requests, SubmitQueues(r) PROVE IInv'
<1>1. hd[r] \in Handle /\ hd[r].client = "preparing" /\ Shape(hd[r]) /\ Untouched(hd[r])
      /\ UNCHANGED <<aborts, controls, calls, loop, flags, maps, eng, th, faults>>
  BY HandleTypes DEF IInv, Stages, SubmitQueues, Shape
<1>2. /\ ~Queued(r) /\ ~AtItem(r) /\ ~IsActive(r) /\ ~Stranded(r)
      /\ hd[r].seq = NoRequest /\ ~hd[r].cancelled /\ hd[r].discard = "no" /\ hd[r].admission # "ok"
      /\ loop # In("cancel", r) /\ loop # In("discard", r)
      /\ \A a \in ToSet(aborts) : a.of # r
  BY <1>1, NotSubmitted
<1>3. CASE Unavailable
  <2> DEFINE h == Refused(hd[r])
  <2>1. hd' = [hd EXCEPT ![r] = h] /\ UNCHANGED <<queues, calls, loop, flags, maps, eng, th, faults>>
    BY <1>3 DEF SubmitQueues, queues
  <2>2. /\ h \in Handle /\ Shape(h) /\ h.client = "refused" /\ h.seq = hd[r].seq /\ h.discard = hd[r].discard
    BY <1>1, RefusedShape
  <2>3. TypeOK' /\ Stages' /\ Queues' /\ Cancels' /\ Chains' /\ Tracks'
    BY <1>1, <2>1, <2>2, ClientMoves
  <2>4. hd'[r] = h /\ Only(r)
    BY <2>1, <2>2, Replaced DEF IInv
  <2>5. TurnsLinked'
    BY <1>1, <1>2, <2>2, <2>4, TurnsKept DEF IInv, Only
  <2> QED BY <2>3, <2>5 DEF IInv
<1>4. CASE ~Unavailable
  <2> DEFINE h == [hd[r] EXCEPT !.client = "submitted"]
  <2>1. /\ hd' = [hd EXCEPT ![r] = h] /\ pending' = Append(pending, r)
        /\ UNCHANGED <<aborts, controls, calls, loop, closing, failed, active, latest, eng, th, faults>>
    BY <1>4 DEF SubmitQueues, flags, maps
  <2>2. /\ h \in Handle /\ h.client = "submitted" /\ h.cancelled = hd[r].cancelled
        /\ h.terminal = hd[r].terminal /\ h.seq = hd[r].seq /\ h.admission = hd[r].admission
        /\ h.out = hd[r].out /\ h.discard = hd[r].discard
    BY <1>1 DEF Handle
  <2>3. hd' \in [Requests -> Handle] /\ hd'[r] = h /\ Only(r)
    BY <2>1, <2>2, Replaced DEF IInv
  <2>4. /\ pending' \in Seq(Requests \cup {Wakeup, Stop})
        /\ \A q \in Requests : Queued(q)' <=> Queued(q) \/ q = r
        /\ Stop \in ToSet(pending)' => Stop \in ToSet(pending) \/ r = Stop
        /\ \A q \in Requests : OnceIn(pending', q)
    BY <1>2, <2>1, PendingAppend
  <2>5. TypeOK'
    BY <2>1, <2>3, <2>4 DEF IInv, TypeOK
  <2>6. (\A q : IsActive(q)' <=> IsActive(q)) /\ (AtItem(r)' <=> AtItem(r))
    BY <2>1 DEF IsActive, AtItem
  <2>7. Shape(h) /\ Place(r)'
    <3>1. Shape(h)
      BY <1>1, <2>2 DEF Shape
    <3>2. Untouched(h)
      BY <1>1, <2>2 DEF Untouched
    <3> QED BY <1>2, <2>2, <2>3, <2>4, <2>6, <3>1, <3>2 DEF Place
  <2>8. Stages'
    BY <2>1, <2>3, <2>4, <2>7, StagesKept DEF IInv
  <2>9. Queues'
    <3>1. ~failed /\ ~closing /\ th.pc # "dead" /\ th.pc \notin Ending \ {"except"}
      BY <1>4 DEF Unavailable, IInv, Queues
    <3>2. r # Stop
      BY DispatcherAssumption DEF Stop
    <3>3. Queues
      BY DEF IInv
    <3>4. th.pc \notin {"failactive", "drain", "draincontrols", "drainaborts", "dead"}
      BY <3>1 DEF Ending
    <3>5. /\ Stop \in ToSet(pending)' \/ th'.stopping => closing'
          /\ th'.pc \in Admitting => th'.item \in Requests
          /\ \A c \in Controls : calls'[c] = "waiting" => c \in ToSet(controls)'
      BY <2>1, <2>4, <3>2, <3>3 DEF Queues
    <3> QED BY <2>1, <2>4, <3>4, <3>5 DEF Queues, Ending
  <2>10. Cancels'
    <3>1. ASSUME NEW a \in ToSet(aborts) PROVE AbortSound(a)'
      BY <1>2, <2>3, AbortTypes DEF IInv, Cancels, AbortSound, Only
    <3>2. LoopSound'
      BY <2>1, <1>2, <2>2, <2>3 DEF IInv, Cancels, LoopSound, Only
    <3>3. ASSUME NEW q \in Requests PROVE Cancelled(q)'
      <4>1. CASE q = r
        BY <4>1, <1>2, <2>2, <2>3, <2>6 DEF Cancelled
      <4>2. CASE q # r
        BY <4>2, <2>1, <2>3, <2>6, CancelledKept DEF IInv, Cancels, Only
      <4> QED BY <4>1, <4>2
    <3> QED BY <2>1, <3>1, <3>2, <3>3 DEF Cancels
  <2>11. TurnsLinked'
    BY <1>1, <2>2, <2>3, TurnsKept DEF IInv, Only
  <2>12. Chains' /\ Tracks'
    BY <1>2, <2>1, <2>2, <2>3, LoopTracks DEF IInv, SameSeqs, Only
  <2> QED BY <2>5, <2>8, <2>9, <2>10, <2>11, <2>12 DEF IInv
<1> QED BY <1>3, <1>4

\* A method of the event loop sets flags of a submitted request.
LEMMA FlagMoves ==
  ASSUME IInv, NEW r \in Requests, hd[r].client = "submitted",
         NEW h \in Handle, hd' = [hd EXCEPT ![r] = h],
         h.client = hd[r].client, h.terminal = hd[r].terminal, h.seq = hd[r].seq,
         h.admission = hd[r].admission, h.out = hd[r].out,
         hd[r].cancelled => h.cancelled, h.discard # "no" => h.cancelled,
         h.discard = "ok" => hd[r].discard = "ok" \/ hd[r].seq = NoRequest,
         UNCHANGED <<queues, calls, flags, maps, eng, th, faults>>,
         loop' \in [at: {"free", "wake", "cancel", "discard"}, of: Requests \cup {NoRequest}]
  PROVE  /\ TypeOK' /\ Stages' /\ Queues' /\ Chains' /\ Tracks'
         /\ hd'[r] = h /\ Only(r) /\ \A q : IsActive(q)' <=> IsActive(q)
         /\ UNCHANGED <<pending, aborts, controls, calls, closing, failed, active, latest, eng, th, faults>>
<1>1. /\ hd' \in [Requests -> Handle] /\ hd'[r] = h /\ Only(r)
      /\ UNCHANGED <<pending, aborts, controls, calls, closing, failed, active, latest, eng, th, faults>>
  BY Replaced DEF IInv, queues, flags, maps
<1>2. TypeOK'
  BY <1>1 DEF IInv, TypeOK
<1>3. (\A q \in Requests : Queued(q)' <=> Queued(q)) /\ (\A q : IsActive(q)' <=> IsActive(q))
      /\ (AtItem(r)' <=> AtItem(r)) /\ (Stranded(r)' <=> Stranded(r))
  BY <1>1 DEF Queued, IsActive, AtItem, Stranded
<1>4. Shape(hd[r]) /\ Place(r)
  BY DEF IInv, Stages
<1>5. Shape(h)
  BY <1>4 DEF Shape
<1>6. Place(r)'
  <2>1. (Untouched(h) <=> Untouched(hd[r])) /\ (Settled(hd[r]) => Settled(h))
    BY DEF Untouched, Settled
  <2> QED BY <1>1, <1>3, <1>4, <2>1 DEF Place
<1>7. Stages'
  BY <1>1, <1>3, <1>5, <1>6, StagesKept DEF IInv
<1>8. Queues'
  BY <1>1, QueuesSame DEF IInv
<1>9. Chains' /\ Tracks'
  BY <1>1, LoopTracks DEF IInv, SameSeqs, Only
<1> QED BY <1>1, <1>2, <1>3, <1>7, <1>8, <1>9

LEMMA CancelFlagsKeeps == ASSUME IInv, NEW r \in Requests, CancelFlags(r) PROVE IInv'
<1> DEFINE h == [hd[r] EXCEPT !.cancelled = TRUE]
<1>1. /\ hd[r] \in Handle /\ hd[r].client = "submitted" /\ ~hd[r].cancelled /\ Shape(hd[r])
      /\ hd' = [hd EXCEPT ![r] = h] /\ loop = Free /\ loop' = In("cancel", r)
      /\ UNCHANGED <<queues, calls, flags, maps, eng, th, faults>>
  BY HandleTypes DEF IInv, Stages, CancelFlags
<1>2. /\ h \in Handle /\ h.client = hd[r].client /\ h.terminal = hd[r].terminal /\ h.seq = hd[r].seq
      /\ h.admission = hd[r].admission /\ h.out = hd[r].out /\ h.discard = hd[r].discard /\ h.cancelled = TRUE
  BY <1>1 DEF Handle
<1>3. loop' \in [at: {"free", "wake", "cancel", "discard"}, of: Requests \cup {NoRequest}]
      /\ loop'.at = "cancel" /\ loop'.of = r
  BY <1>1 DEF In
<1>4. /\ TypeOK' /\ Stages' /\ Queues' /\ Chains' /\ Tracks'
      /\ hd'[r] = h /\ Only(r) /\ (\A q : IsActive(q)' <=> IsActive(q))
      /\ UNCHANGED <<pending, aborts, controls, calls, closing, failed, active, latest, eng, th, faults>>
  BY <1>1, <1>2, <1>3, FlagMoves
<1>5. TurnsLinked'
  BY <1>2, <1>4, TurnsKept DEF IInv, Only
<1>6. hd[r].discard = "no"
  BY <1>1 DEF Shape
<1>7. Cancels'
  <2>1. ASSUME NEW a \in ToSet(aborts) PROVE AbortSound(a)'
    BY <1>2, <1>4, AbortsKept DEF IInv
  <2>2. LoopSound'
    BY <1>1, <1>2, <1>3, <1>4 DEF LoopSound
  <2>3. ASSUME NEW q \in Requests PROVE Cancelled(q)'
    <3>1. CASE q = r
      BY <3>1, <1>1, <1>2, <1>4, <1>6 DEF Cancelled
    <3>2. CASE q # r
      <4>1. loop' # In("discard", q) /\ loop' # In("cancel", q) /\ loop # In("discard", q) /\ loop # In("cancel", q)
        BY <3>2, <1>1, InApart DEF Free
      <4> QED BY <3>2, <4>1, <1>4, CancelledKept DEF IInv, Cancels, Only
    <3> QED BY <3>1, <3>2
  <2> QED BY <1>4, <2>1, <2>2, <2>3 DEF Cancels
<1> QED BY <1>4, <1>5, <1>7 DEF IInv

\* A method of the event loop that only queues, for the thread to find.
LEMMA HandlesKept ==
  ASSUME IInv, UNCHANGED <<hd, active, latest, eng, th, faults>>,
         \A q \in Requests : Queued(q)' <=> Queued(q)
  PROVE  Stages' /\ TurnsLinked' /\ Chains' /\ Tracks' /\ \A q : IsActive(q)' <=> IsActive(q)
<1>1. Stages'
  <2> SUFFICES ASSUME NEW q \in Requests PROVE Shape(hd'[q]) /\ Place(q)'
    BY DEF Stages
  <2>1. hd'[q] = hd[q] /\ Place(q) /\ Shape(hd[q])
    BY DEF IInv, Stages
  <2>2. (IsActive(q)' <=> IsActive(q)) /\ (AtItem(q)' <=> AtItem(q)) /\ (Stranded(q)' <=> Stranded(q))
    BY DEF IsActive, AtItem, Stranded
  <2>3. Place(q)'
    BY <2>1, <2>2, PlaceKept
  <2> QED BY <2>1, <2>3
<1>2. TurnsLinked'
  BY TurnsKept DEF IInv
<1>3. Chains' /\ Tracks'
  BY LoopTracks DEF IInv, SameSeqs
<1> QED BY <1>1, <1>2, <1>3 DEF IsActive

LEMMA QueuesAborts ==
  ASSUME Queues, UNCHANGED <<pending, controls, calls, closing, failed, active, th>>,
         th.pc = "dead" => \A a \in ToSet(aborts)' : ~a.force
  PROVE  Queues'
BY DEF Queues, Idle, Queued

\* An abort is put into the queue.
LEMMA AbortQueues ==
  ASSUME IInv, NEW a \in Abort, aborts' = Append(aborts, a)
  PROVE  aborts' \in Seq(Abort) /\ ToSet(aborts)' = ToSet(aborts) \cup {a}
<1>1. aborts \in Seq(Abort)
  BY DEF IInv, TypeOK
<1> QED BY <1>1, ToSetAppend

LEMMA LoopTypes ==
  /\ \A r \in Requests \cup {NoRequest}, m \in {"free", "wake", "cancel", "discard"} :
       /\ In(m, r) \in [at: {"free", "wake", "cancel", "discard"}, of: Requests \cup {NoRequest}]
       /\ In(m, r).at = m /\ In(m, r).of = r
  /\ Free \in [at: {"free", "wake", "cancel", "discard"}, of: Requests \cup {NoRequest}]
  /\ Waking \in [at: {"free", "wake", "cancel", "discard"}, of: Requests \cup {NoRequest}]
  /\ Free.at = "free" /\ Waking.at = "wake"
  /\ \A r : Free \notin {In("cancel", r), In("discard", r)} /\ Waking \notin {In("cancel", r), In("discard", r)}
BY InApart DEF In, Free, Waking

LEMMA CancelQueuesKeeps == ASSUME IInv, NEW r \in Requests, CancelQueues(r) PROVE IInv'
<1> DEFINE a == [of |-> r, force |-> FALSE]
<1>1. /\ loop = In("cancel", r)
      /\ UNCHANGED <<hd, pending, controls, calls, closing, failed, active, latest, eng, th, faults>>
  BY DEF CancelQueues, flags, maps
<1>2. \/ hd[r].seq = NoRequest /\ loop' = Free /\ aborts' = aborts
      \/ hd[r].seq # NoRequest /\ loop' = Waking /\ aborts' = Append(aborts, a)
  BY DEF CancelQueues
<1>3. a \in Abort /\ a.of = r /\ a.force = FALSE
  BY DEF Abort
<1>4. aborts' \in Seq(Abort) /\ ToSet(aborts)' \subseteq ToSet(aborts) \cup {a} /\ ToSet(aborts) \subseteq ToSet(aborts)'
      /\ (hd[r].seq # NoRequest => a \in ToSet(aborts)')
  BY <1>2, <1>3, AbortQueues DEF IInv, TypeOK
<1>5. Stages' /\ TurnsLinked' /\ Chains' /\ Tracks' /\ \A q : IsActive(q)' <=> IsActive(q)
  BY <1>1, HandlesKept DEF Queued
<1>6. loop' \in [at: {"free", "wake", "cancel", "discard"}, of: Requests \cup {NoRequest}]
      /\ loop'.at \notin {"cancel", "discard"} /\ \A q : loop' \notin {In("cancel", q), In("discard", q)}
  BY <1>2, LoopTypes
<1>7. TypeOK'
  BY <1>1, <1>4, <1>6 DEF IInv, TypeOK
<1>8. Queues'
  <2>1. th.pc = "dead" => \A b \in ToSet(aborts)' : ~b.force
    BY <1>3, <1>4 DEF IInv, Queues
  <2> QED BY <1>1, <2>1, QueuesAborts DEF IInv
<1>9. Cancels'
  <2>1. hd[r].cancelled /\ loop.at = "cancel" /\ loop.of = r
    BY <1>1, LoopTypes DEF IInv, Cancels, LoopSound
  <2>2. ASSUME NEW b \in ToSet(aborts)' PROVE AbortSound(b)'
    <3>1. hd[r].seq # NoRequest => AbortSound(a)
      BY <1>3, <2>1 DEF AbortSound
    <3>2. AbortSound(b)
      BY <1>2, <1>4, <3>1 DEF IInv, Cancels
    <3> QED BY <1>1, <3>2 DEF AbortSound
  <2>3. LoopSound'
    BY <1>6 DEF LoopSound
  <2>4. ASSUME NEW q \in Requests PROVE Cancelled(q)'
    <3>1. CASE q = r
      <4>1. Cancelled(r) /\ loop # In("discard", r)
        BY <1>1, InApart DEF IInv, Cancels
      <4>2. hd[r].seq = NoRequest => ~IsActive(r)
        BY NotAdmitted DEF IInv
      <4>3. hd[r].seq # NoRequest => AbortQueued(r)'
        BY <1>3, <1>4 DEF AbortQueued
      <4>4. hd[r].discard = "waiting" => [of |-> r, force |-> TRUE] \in ToSet(aborts)'
        BY <4>1, <1>4 DEF Cancelled
      <4> QED BY <3>1, <4>1, <4>2, <4>3, <4>4, <1>1, <1>5 DEF Cancelled
    <3>2. CASE q # r
      <4>1. loop # In("discard", q) /\ loop # In("cancel", q)
        BY <3>2, <1>1, InApart
      <4> QED BY <4>1, <1>1, <1>4, <1>5, <1>6, CancelledKept DEF IInv, Cancels
    <3> QED BY <3>1, <3>2
  <2> QED BY <2>2, <2>3, <2>4 DEF Cancels
<1> QED BY <1>5, <1>7, <1>8, <1>9 DEF IInv

LEMMA DiscardFlagsKeeps == ASSUME IInv, NEW r \in Requests, DiscardFlags(r) PROVE IInv'
<1> DEFINE h == [hd[r] EXCEPT !.cancelled = TRUE, !.discard = "waiting"]
<1>1. /\ hd[r] \in Handle /\ hd[r].client = "submitted" /\ ~hd[r].cancelled /\ hd[r].discard = "no"
      /\ loop = Free /\ loop' = In("discard", r)
      /\ UNCHANGED <<queues, calls, flags, maps, eng, th, faults>>
  BY HandleTypes DEF IInv, DiscardFlags
<1>2. hd' = [hd EXCEPT ![r] = h]
  BY <1>1 DEF DiscardFlags, IInv, TypeOK, Handle
<1>3. /\ h \in Handle /\ h.client = hd[r].client /\ h.terminal = hd[r].terminal /\ h.seq = hd[r].seq
      /\ h.admission = hd[r].admission /\ h.out = hd[r].out /\ h.discard = "waiting" /\ h.cancelled = TRUE
  BY <1>1 DEF Handle
<1>4. loop' \in [at: {"free", "wake", "cancel", "discard"}, of: Requests \cup {NoRequest}]
      /\ loop'.at = "discard" /\ loop'.of = r
  BY <1>1, LoopTypes
<1>5. /\ TypeOK' /\ Stages' /\ Queues' /\ Chains' /\ Tracks'
      /\ hd'[r] = h /\ Only(r) /\ (\A q : IsActive(q)' <=> IsActive(q))
      /\ UNCHANGED <<pending, aborts, controls, calls, closing, failed, active, latest, eng, th, faults>>
  BY <1>1, <1>2, <1>3, <1>4, FlagMoves
<1>6. TurnsLinked'
  <2> SUFFICES ASSUME NEW q \in Requests PROVE Linked(q)'
    BY DEF TurnsLinked
  <2>1. Previous[q] \in Requests \cup {NoRequest} /\ Linked(q) /\ (Previous[q] = r => hd[q].client = "new")
    BY DispatcherAssumption DEF IInv, TurnsLinked, DiscardFlags
  <2>2. hd'[q].client = hd[q].client
    BY <1>3, <1>5 DEF Only
  <2>3. Previous[q] # NoRequest /\ Previous[q] # r => hd'[Previous[q]] = hd[Previous[q]]
    BY <1>5, <2>1 DEF Only
  <2> QED BY <2>1, <2>2, <2>3 DEF Linked
<1>7. Cancels'
  <2>1. ASSUME NEW a \in ToSet(aborts) PROVE AbortSound(a)'
    BY <1>3, <1>5, AbortsKept DEF IInv
  <2>2. LoopSound'
    BY <1>1, <1>3, <1>4, <1>5 DEF LoopSound
  <2>3. ASSUME NEW q \in Requests PROVE Cancelled(q)'
    <3>1. CASE q = r
      BY <3>1, <1>1, <1>3, <1>5 DEF Cancelled
    <3>2. CASE q # r
      <4>1. loop' # In("discard", q) /\ loop' # In("cancel", q) /\ loop # In("discard", q) /\ loop # In("cancel", q)
        BY <3>2, <1>1, InApart DEF Free
      <4> QED BY <3>2, <4>1, <1>5, CancelledKept DEF IInv, Cancels, Only
    <3> QED BY <3>1, <3>2
  <2> QED BY <1>5, <2>1, <2>2, <2>3 DEF Cancels
<1> QED BY <1>5, <1>6, <1>7 DEF IInv

\* The answer to a discard, from the event loop or by its timeout.
LEMMA DiscardTimeoutKeeps == ASSUME IInv, NEW r \in Requests, DiscardTimeout(r) PROVE IInv'
<1> DEFINE h == [hd[r] EXCEPT !.discard = "timeout"]
<1>1. /\ hd[r] \in Handle /\ hd[r].discard = "waiting" /\ Shape(hd[r])
      /\ loop = Free /\ loop' = loop /\ hd' = [hd EXCEPT ![r] = h]
      /\ UNCHANGED <<queues, calls, flags, maps, eng, th, faults>>
  BY HandleTypes DEF IInv, Stages, DiscardTimeout
<1>2. hd[r].cancelled /\ hd[r].client = "submitted"
  BY <1>1 DEF Shape
<1>3. /\ h \in Handle /\ h.client = hd[r].client /\ h.terminal = hd[r].terminal /\ h.seq = hd[r].seq
      /\ h.admission = hd[r].admission /\ h.out = hd[r].out /\ h.discard = "timeout" /\ h.cancelled = hd[r].cancelled
  BY <1>1 DEF Handle
<1>4. /\ TypeOK' /\ Stages' /\ Queues' /\ Chains' /\ Tracks'
      /\ hd'[r] = h /\ Only(r) /\ (\A q : IsActive(q)' <=> IsActive(q))
      /\ UNCHANGED <<pending, aborts, controls, calls, closing, failed, active, latest, eng, th, faults>>
  BY <1>1, <1>2, <1>3, FlagMoves DEF IInv, TypeOK
<1>5. TurnsLinked'
  BY <1>1, <1>3, <1>4, TurnsKept DEF IInv, Only
<1>6. Cancels'
  <2>1. ASSUME NEW a \in ToSet(aborts) PROVE AbortSound(a)'
    BY <1>3, <1>4, AbortsKept DEF IInv
  <2>2. LoopSound'
    BY <1>1, LoopTypes DEF LoopSound
  <2>3. ASSUME NEW q \in Requests PROVE Cancelled(q)'
    <3>1. CASE q = r
      <4>1. Cancelled(r) /\ (AbortQueued(r) <=> AbortQueued(r)')
        BY <1>4 DEF IInv, Cancels, AbortQueued
      <4> QED BY <3>1, <4>1, <1>1, <1>2, <1>3, <1>4 DEF Cancelled
    <3>2. CASE q # r
      BY <3>2, <1>1, <1>4, CancelledKept DEF IInv, Cancels, Only
    <3> QED BY <3>1, <3>2
  <2> QED BY <1>4, <2>1, <2>2, <2>3 DEF Cancels
<1> QED BY <1>4, <1>5, <1>6 DEF IInv

LEMMA DiscardQueuesKeeps == ASSUME IInv, NEW r \in Requests, DiscardQueues(r) PROVE IInv'
<1>1. /\ loop = In("discard", r) /\ loop.at = "discard" /\ loop.of = r
      /\ UNCHANGED <<pending, controls, calls, flags, maps, eng, th, faults>>
      /\ hd[r].cancelled /\ hd[r].client = "submitted" /\ hd[r].discard # "no" /\ hd[r] \in Handle
  BY LoopTypes, HandleTypes DEF DiscardQueues, IInv, Cancels, LoopSound
<1>2. \A q : q # r => loop # In("discard", q) /\ loop # In("cancel", q)
  BY <1>1, InApart
<1>3. CASE hd[r].seq # NoRequest /\ ~Unavailable
  <2> DEFINE a == [of |-> r, force |-> TRUE]
  <2>1. /\ aborts' = Append(aborts, a) /\ loop' = Waking
        /\ UNCHANGED <<hd, pending, controls, calls, closing, failed, active, latest, eng, th, faults>>
    BY <1>1, <1>3 DEF DiscardQueues, flags, maps
  <2>2. a \in Abort /\ a.of = r /\ a.force = TRUE
    BY DEF Abort
  <2>3. aborts' \in Seq(Abort) /\ ToSet(aborts)' = ToSet(aborts) \cup {a}
    BY <2>1, <2>2, AbortQueues
  <2>4. Stages' /\ TurnsLinked' /\ Chains' /\ Tracks' /\ \A q : IsActive(q)' <=> IsActive(q)
    BY <2>1, HandlesKept DEF Queued
  <2>5. loop' \in [at: {"free", "wake", "cancel", "discard"}, of: Requests \cup {NoRequest}]
        /\ loop'.at \notin {"cancel", "discard"} /\ \A q : loop' \notin {In("cancel", q), In("discard", q)}
    BY <2>1, LoopTypes
  <2>6. TypeOK'
    BY <2>1, <2>3, <2>5 DEF IInv, TypeOK
  <2>7. Queues'
    <3>1. th.pc # "dead"
      BY <1>3 DEF Unavailable
    <3> QED BY <2>1, <3>1, QueuesAborts DEF IInv
  <2>8. Cancels'
    <3>1. ASSUME NEW b \in ToSet(aborts)' PROVE AbortSound(b)'
      <4>1. AbortSound(a)
        BY <1>1, <1>3, <2>2 DEF AbortSound
      <4>2. AbortSound(b)
        BY <2>3, <4>1 DEF IInv, Cancels
      <4> QED BY <2>1, <4>2 DEF AbortSound
    <3>2. LoopSound'
      BY <2>5 DEF LoopSound
    <3>3. ASSUME NEW q \in Requests PROVE Cancelled(q)'
      <4>1. CASE q = r
        <5>1. AbortQueued(r)' /\ a \in ToSet(aborts)'
          BY <2>2, <2>3 DEF AbortQueued
        <5>2. Cancelled(r)
          BY DEF IInv, Cancels
        <5> QED BY <4>1, <5>1, <5>2, <2>1, <2>4 DEF Cancelled
      <4>2. CASE q # r
        BY <4>2, <1>2, <2>1, <2>3, <2>4, <2>5, CancelledKept DEF IInv, Cancels
      <4> QED BY <4>1, <4>2
    <3> QED BY <3>1, <3>2, <3>3 DEF Cancels
  <2> QED BY <2>4, <2>6, <2>7, <2>8 DEF IInv
<1>4. CASE ~(hd[r].seq # NoRequest /\ ~Unavailable)
  <2> DEFINE h == [hd[r] EXCEPT !.discard = IF hd[r].seq = NoRequest THEN "ok" ELSE "error"]
  <2>1. /\ hd' = [hd EXCEPT ![r] = h] /\ loop' = Free
        /\ UNCHANGED <<queues, calls, flags, maps, eng, th, faults>>
    BY <1>1, <1>4 DEF DiscardQueues, queues
  <2>2. /\ h \in Handle /\ h.client = hd[r].client /\ h.terminal = hd[r].terminal /\ h.seq = hd[r].seq
        /\ h.admission = hd[r].admission /\ h.out = hd[r].out /\ h.cancelled = hd[r].cancelled
        /\ (h.discard = "ok" /\ hd[r].seq = NoRequest) \/ h.discard = "error"
    BY <1>1 DEF Handle
  <2>3. loop' \in [at: {"free", "wake", "cancel", "discard"}, of: Requests \cup {NoRequest}]
        /\ loop'.at \notin {"cancel", "discard"} /\ \A q : loop' \notin {In("cancel", q), In("discard", q)}
    BY <2>1, LoopTypes
  <2>4. /\ TypeOK' /\ Stages' /\ Queues' /\ Chains' /\ Tracks'
        /\ hd'[r] = h /\ Only(r) /\ (\A q : IsActive(q)' <=> IsActive(q))
        /\ UNCHANGED <<pending, aborts, controls, calls, closing, failed, active, latest, eng, th, faults>>
    BY <1>1, <2>1, <2>2, <2>3, FlagMoves
  <2>5. TurnsLinked'
    BY <1>1, <2>2, <2>4, TurnsKept, ZenonT(30) DEF IInv, Only
  <2>6. Cancels'
    <3>1. ASSUME NEW a \in ToSet(aborts) PROVE AbortSound(a)'
      BY <1>1, <2>2, <2>4, AbortsKept DEF IInv
    <3>2. LoopSound'
      BY <2>3 DEF LoopSound
    <3>3. ASSUME NEW q \in Requests PROVE Cancelled(q)'
      <4>1. CASE q = r
        <5>1. hd[r].seq = NoRequest => ~IsActive(r)
          BY NotAdmitted DEF IInv
        <5> QED BY <4>1, <5>1, <2>2, <2>4 DEF Cancelled
      <4>2. CASE q # r
        BY <4>2, <1>2, <2>3, <2>4, CancelledKept DEF IInv, Cancels, Only
      <4> QED BY <4>1, <4>2
    <3> QED BY <2>4, <3>1, <3>2, <3>3 DEF Cancels
  <2> QED BY <2>4, <2>5, <2>6 DEF IInv
<1> QED BY <1>3, <1>4

\* Handles and aborts are left alone, and no method of the event loop began.
LEMMA CancelsKept ==
  ASSUME IInv, UNCHANGED <<hd, aborts>>,
         \A q : IsActive(q)' <=> IsActive(q), failed => failed', th.pc = "except" => th'.pc = "except" \/ failed',
         \/ loop' = loop
         \/ loop \in {Free, Waking} /\ loop' \in {Free, Waking}
  PROVE  Cancels'
<1>1. ASSUME NEW a \in ToSet(aborts)' PROVE AbortSound(a)'
  BY DEF IInv, Cancels, AbortSound
<1>2. LoopSound'
  BY LoopTypes DEF IInv, Cancels, LoopSound
<1>3. ASSUME NEW q \in Requests PROVE Cancelled(q)'
  <2>1. (loop = In("discard", q) <=> loop' = In("discard", q)) /\ (loop = In("cancel", q) <=> loop' = In("cancel", q))
    BY LoopTypes
  <2> QED BY <2>1, CancelledKept DEF IInv, Cancels
<1> QED BY <1>1, <1>2, <1>3 DEF Cancels

LEMMA WakeKeeps == ASSUME IInv, Wake PROVE IInv'
<1>1. /\ loop = Waking /\ loop' = Free /\ pending' = Append(pending, Wakeup)
      /\ UNCHANGED <<hd, aborts, controls, calls, closing, failed, active, latest, eng, th, faults>>
  BY DEF Wake, flags, maps
<1>2. Wakeup \notin Requests /\ Wakeup # Stop
  BY DispatcherAssumption DEF Wakeup, Stop
<1>3. /\ pending' \in Seq(Requests \cup {Wakeup, Stop})
      /\ \A r \in Requests : Queued(r)' <=> Queued(r)
      /\ Stop \in ToSet(pending)' => Stop \in ToSet(pending)
      /\ \A r \in Requests : OnceIn(pending', r)
  BY <1>1, <1>2, PendingAppend
<1>4. Stages' /\ TurnsLinked' /\ Chains' /\ Tracks' /\ \A q : IsActive(q)' <=> IsActive(q)
  BY <1>1, <1>3, HandlesKept
<1>5. TypeOK'
  BY <1>1, <1>3, LoopTypes DEF IInv, TypeOK
<1>6. Queues'
  BY <1>1, <1>3 DEF IInv, Queues, Idle
<1>7. Cancels'
  BY <1>1, <1>4, CancelsKept
<1> QED BY <1>4, <1>5, <1>6, <1>7 DEF IInv

LEMMA CloseKeeps == ASSUME IInv, Close PROVE IInv'
<1>1. /\ pending' = Append(pending, Stop) /\ closing' = TRUE
      /\ UNCHANGED <<hd, aborts, controls, calls, loop, failed, active, latest, eng, th, faults>>
  BY DEF Close, maps
<1>2. Stop \notin Requests
  BY DispatcherAssumption DEF Stop
<1>3. /\ pending' \in Seq(Requests \cup {Wakeup, Stop})
      /\ \A r \in Requests : Queued(r)' <=> Queued(r)
      /\ \A r \in Requests : OnceIn(pending', r)
  BY <1>1, <1>2, PendingAppend
<1>4. Stages' /\ TurnsLinked' /\ Chains' /\ Tracks' /\ \A q : IsActive(q)' <=> IsActive(q)
  BY <1>1, <1>3, HandlesKept
<1>5. TypeOK'
  BY <1>1, <1>3 DEF IInv, TypeOK
<1>6. Queues'
  BY <1>1, <1>3 DEF IInv, Queues, Idle
<1>7. Cancels'
  BY <1>1, <1>4, CancelsKept
<1> QED BY <1>4, <1>5, <1>6, <1>7 DEF IInv

LEMMA ControlKeeps == ASSUME IInv, NEW c \in Controls, Control(c) PROVE IInv'
<1>1. /\ UNCHANGED <<hd, pending, aborts, closing, failed, active, latest, eng, th, faults>> /\ loop = Free
      /\ calls \in [Controls -> {"new", "waiting", "ok", "error"}] /\ controls \in Seq(Controls)
  BY DEF Control, flags, maps, IInv, TypeOK
<1>2. Stages' /\ TurnsLinked' /\ Chains' /\ Tracks' /\ \A q : IsActive(q)' <=> IsActive(q)
  BY <1>1, HandlesKept DEF Queued
<1>3. CASE Unavailable
  <2>1. calls' = [calls EXCEPT ![c] = "error"] /\ UNCHANGED <<controls, loop>>
    BY <1>3 DEF Control
  <2>2. TypeOK'
    BY <1>1, <2>1 DEF IInv, TypeOK
  <2>3. Queues'
    BY <1>1, <2>1 DEF IInv, Queues, Idle, Queued
  <2>4. Cancels'
    BY <1>1, <1>2, <2>1, CancelsKept
  <2> QED BY <1>2, <2>2, <2>3, <2>4 DEF IInv
<1>4. CASE ~Unavailable
  <2>1. calls' = [calls EXCEPT ![c] = "waiting"] /\ controls' = Append(controls, c) /\ loop' = Waking
    BY <1>4 DEF Control
  <2>2. controls' \in Seq(Controls) /\ ToSet(controls)' = ToSet(controls) \cup {c}
    BY <1>1, <2>1, ToSetAppend
  <2>3. TypeOK'
    BY <1>1, <2>1, <2>2, LoopTypes DEF IInv, TypeOK
  <2>4. Queues'
    <3>1. ~failed /\ ~closing /\ th.pc \notin {"drainaborts", "dead"}
      BY <1>4 DEF Unavailable, IInv, Queues, Ending
    <3> QED BY <1>1, <2>1, <2>2, <3>1 DEF IInv, Queues, Idle, Queued
  <2>5. Cancels'
    BY <1>1, <1>2, <2>1, CancelsKept
  <2> QED BY <1>2, <2>3, <2>4, <2>5 DEF IInv
<1> QED BY <1>3, <1>4

LEMMA EventLoopKeeps == ASSUME IInv, EventLoop PROVE IInv'
BY SubmitStartsKeeps, SubmitQueuesKeeps, SubmitAbandonedKeeps, CancelFlagsKeeps, CancelQueuesKeeps,
   DiscardFlagsKeeps, DiscardQueuesKeeps, DiscardTimeoutKeeps, ControlKeeps, WakeKeeps, CloseKeeps
   DEF EventLoop

-----------------------------------------------------------------------------
(* The thread moves on.                                                    *)

ThreadSet == [pc: ThreadAt, item: Requests \cup {NoRequest}, stopping: BOOLEAN, changed: BOOLEAN,
              tokens: SUBSET Requests, finished: SUBSET Requests]

LEMMA ThreadTypes ==
  ASSUME TypeOK
  PROVE  /\ th \in ThreadSet /\ th.pc \in ThreadAt /\ th.item \in Requests \cup {NoRequest}
         /\ th.stopping \in BOOLEAN /\ th.changed \in BOOLEAN
         /\ th.tokens \subseteq Requests /\ th.finished \subseteq Requests
BY DEF TypeOK, ThreadSet

\* Goto changes nothing but the place.
LEMMA GotoFields ==
  ASSUME TypeOK, NEW l \in ThreadAt, th' = [th EXCEPT !.pc = l]
  PROVE  /\ th' \in ThreadSet /\ th'.pc = l /\ th'.item = th.item /\ th'.stopping = th.stopping
         /\ th'.changed = th.changed /\ th'.tokens = th.tokens /\ th'.finished = th.finished
BY ThreadTypes DEF ThreadSet

\* Only a publication that raised strands a request.
LEMMA NoneStranded ==
  ASSUME Tracks, th.pc \notin Ending, NEW r \in Requests
  PROVE  ~Stranded(r)
<1>1. r # NoRequest
  BY DispatcherAssumption
<1> QED BY <1>1 DEF Tracks, Stranded

\* The thread goes from one place to another, outside _admit.
LEMMA TracksMove ==
  ASSUME IInv, UNCHANGED <<hd, active, latest, eng>>,
         th.pc \notin Admitting, th'.pc \notin Admitting,
         th'.tokens = th.tokens, th'.finished = th.finished,
         faults' = 0 => faults = 0 /\ th'.pc # "except",
         th'.pc \notin Ending => th.pc \notin Ending,
         th'.pc \in {"publish", "finish"} => th.pc \in {"publish", "finish"},
         th.pc = "finish" => th'.pc = "finish" \/ th'.pc \in Ending \/ th.finished = {},
         th.pc = "publish" => th'.pc \in {"publish", "finish"} \/ th'.pc \in Ending
  PROVE  Tracks'
<1>1. Tracks /\ \A r : (IsActive(r)' <=> IsActive(r)) /\ ~AtItem(r) /\ ~AtItem(r)' /\ (Gone(r)' <=> Gone(r))
  BY DEF IInv, IsActive, AtItem, Gone
<1>2. faults' = 0 => Faultless'
  BY <1>1 DEF Tracks, Faultless
<1>3. /\ th'.pc \notin Ending => latest' = active'
      /\ th'.pc \notin Ending \cup {"publish", "finish"} => \A r \in Requests : IsActive(r) => r \in eng.live
      /\ th'.pc \in {"publish", "finish"} =>
           /\ \A r \in Requests : IsActive(r) => r \in eng.live \cup th.finished
           /\ \A r \in th.tokens \cup th.finished : hd[r].seq # NoRequest
           /\ th.finished \cap eng.live = {}
  <2>1. "publish" \notin Ending /\ "finish" \notin Ending
    BY DEF Ending
  <2> QED BY <1>1, <2>1 DEF Tracks
<1>4. th'.pc \in Ending => \E x \in Requests \cup {NoRequest} :
        \A r \in Requests : Stranded(r)' => r = x /\ r \in th'.finished
  <2>1. \A r \in Requests : Stranded(r)' <=> Stranded(r)
    BY DEF Stranded
  <2>2. CASE th.pc \in Ending
    BY <1>1, <2>1, <2>2 DEF Tracks
  <2>3. CASE th.pc \notin Ending
    BY <1>1, <2>1, <2>3, NoneStranded
  <2> QED BY <2>2, <2>3
<1> QED BY <1>1, <1>2, <1>3, <1>4 DEF Tracks

LEMMA ThreadMoves ==
  ASSUME IInv, UNCHANGED <<hd, pending, aborts, loop, closing, active, latest, eng>>, th' \in ThreadSet,
         th.pc \notin Admitting, th'.pc \notin Admitting,
         th'.tokens = th.tokens, th'.finished = th.finished,
         faults' = 0 => faults = 0 /\ th'.pc # "except", faults' \in 0..MaxFaults,
         failed' \in BOOLEAN, failed => failed', th.pc = "except" => th'.pc = "except" \/ failed',
         calls' \in [Controls -> {"new", "waiting", "ok", "error"}], controls' \in Seq(Controls),
         th'.pc \notin Ending => th.pc \notin Ending,
         th'.pc \in {"publish", "finish"} => th.pc \in {"publish", "finish"},
         th.pc = "finish" => th'.pc = "finish" \/ th'.pc \in Ending \/ th.finished = {},
         th.pc = "publish" => th'.pc \in {"publish", "finish"} \/ th'.pc \in Ending,
         Queues'
  PROVE  IInv'
<1>1. TypeOK'
  BY DEF IInv, TypeOK, ThreadSet
<1>2. \A q \in Requests : Queued(q)' <=> Queued(q)
  BY DEF Queued
<1>3. Stages'
  BY <1>2, StagesUntouched DEF IInv
<1>4. Cancels'
  BY CancelsKept DEF IInv, IsActive
<1>5. TurnsLinked'
  BY TurnsKept DEF IInv
<1>6. Chains'
  BY ChainsKept DEF IInv, SameSeqs, Shrinks, Drops
<1>7. Tracks'
  BY TracksMove
<1> QED BY <1>1, <1>3, <1>4, <1>5, <1>6, <1>7 DEF IInv

\* The queues, as the thread moves on with nothing taken from them.
LEMMA QueuesMove ==
  ASSUME IInv, UNCHANGED <<pending, aborts, controls, calls, closing, active>>, failed => failed',
         th'.stopping = th.stopping, th'.pc \notin Admitting,
         \/ th'.pc \notin Ending
         \/ th'.pc = "except"
         \/ th'.pc = "failactive" /\ (failed' \/ closing)
  PROVE  Queues'
<1>1. th'.pc \notin {"drain", "draincontrols", "drainaborts", "dead"}
      /\ (th'.pc \in Ending \ {"except"} => failed' \/ closing')
      /\ (th'.pc \notin Ending \ {"except", "failactive"})
  BY DEF Ending
<1> QED BY <1>1 DEF IInv, Queues

\* An exception leaves the loop, and nothing else has happened.
LEMMA FatalMoves ==
  ASSUME IInv, Fatal, UNCHANGED <<hd, queues, calls, loop, flags, maps, eng>>, th.pc \notin Admitting
  PROVE  IInv'
<1>1. /\ UNCHANGED <<hd, pending, aborts, controls, calls, loop, closing, failed, active, latest, eng>>
      /\ th' = [th EXCEPT !.pc = "except"] /\ faults < MaxFaults /\ faults' = faults + 1
  BY DEF queues, flags, maps, Fatal, Raises, Goto
<1>2. "except" \in ThreadAt /\ "except" \notin Admitting /\ "except" \in Ending
  BY DEF ThreadAt, Admitting, Ending
<1>3. /\ th' \in ThreadSet /\ th'.pc = "except" /\ th'.stopping = th.stopping
      /\ th'.tokens = th.tokens /\ th'.finished = th.finished
  BY <1>1, <1>2, GotoFields DEF IInv
<1>4. faults' \in 0..MaxFaults /\ faults' # 0
  BY <1>1, DispatcherAssumption DEF IInv, TypeOK
<1>5. Queues'
  BY <1>1, <1>2, <1>3, QueuesMove
<1>6. calls \in [Controls -> {"new", "waiting", "ok", "error"}] /\ controls \in Seq(Controls) /\ failed \in BOOLEAN
  BY DEF IInv, TypeOK
<1> QED BY <1>1, <1>2, <1>3, <1>4, <1>5, <1>6, ThreadMoves

\* A plain move inside the loop, or out of it when the server closes.
LEMMA LoopMoves ==
  ASSUME IInv, UNCHANGED <<hd, queues, calls, loop, flags, maps, eng, faults>>, th' \in ThreadSet,
         th.pc \notin Admitting, th'.pc \notin Admitting, th.pc \notin Ending,
         th'.tokens = th.tokens, th'.finished = th.finished, th'.stopping = th.stopping,
         th'.pc \notin Ending \/ (th'.pc = "failactive" /\ th.stopping),
         th'.pc \in {"publish", "finish"} => th.pc \in {"publish", "finish"},
         th.pc = "finish" => th'.pc = "finish" \/ th.finished = {},
         th.pc = "publish" => th'.pc \in {"publish", "finish"}
  PROVE  IInv'
<1>1. UNCHANGED <<hd, pending, aborts, controls, calls, loop, closing, failed, active, latest, eng, faults>>
  BY DEF queues, flags, maps
<1>2. th.stopping => closing
  BY DEF IInv, Queues
<1>3. Queues'
  BY <1>1, <1>2, QueuesMove
<1>4. calls \in [Controls -> {"new", "waiting", "ok", "error"}] /\ controls \in Seq(Controls) /\ failed \in BOOLEAN
      /\ faults \in 0..MaxFaults
  BY DEF IInv, TypeOK
<1>5. th.pc # "except" /\ th'.pc # "except"
  BY DEF Ending
<1> QED BY <1>1, <1>3, <1>4, <1>5, ThreadMoves

\* A control call is answered.
LEMMA ControlAnswered ==
  ASSUME IInv, controls # <<>>, controls' = Tail(controls), NEW answer \in {"ok", "error"},
         calls' = [calls EXCEPT ![Head(controls)] = answer]
  PROVE  /\ calls' \in [Controls -> {"new", "waiting", "ok", "error"}] /\ controls' \in Seq(Controls)
         /\ \A c \in Controls : calls'[c] = "waiting" => c \in ToSet(controls)'
<1>1. controls \in Seq(Controls) /\ calls \in [Controls -> {"new", "waiting", "ok", "error"}]
      /\ \A c \in Controls : calls[c] = "waiting" => c \in ToSet(controls)
  BY DEF IInv, TypeOK, Queues
<1>2. controls' \in Seq(Controls) /\ Head(controls) \in Controls /\ ToSet(controls) = {Head(controls)} \cup ToSet(controls)'
  BY <1>1, ToSetTail
<1> QED BY <1>1, <1>2

LEMMA DrainControlKeeps ==
  ASSUME IInv, NEW l \in {"controls1", "controls2"}, NEW next \in {"aborts1", "aborts2"}, DrainControl(l, next)
  PROVE  IInv'
<1>1. /\ th.pc = l /\ l \notin Admitting /\ l \notin Ending /\ l \notin {"publish", "finish"}
      /\ next \notin Admitting /\ next \notin Ending /\ next \notin {"publish", "finish"}
      /\ next \in ThreadAt /\ l # "except"
      /\ UNCHANGED <<hd, pending, aborts, loop, flags, maps, eng>>
      /\ UNCHANGED <<hd, pending, aborts, loop, closing, failed, active, latest, eng>>
  BY DEF DrainControl, At, Admitting, Ending, ThreadAt, flags, maps
<1>2. CASE controls = <<>> /\ Goto(next) /\ Survives /\ UNCHANGED <<controls, calls>>
  <2>1. /\ th' \in ThreadSet /\ th'.pc = next /\ th'.stopping = th.stopping
        /\ th'.tokens = th.tokens /\ th'.finished = th.finished
    BY <1>1, <1>2, GotoFields DEF IInv, Goto
  <2>2. UNCHANGED <<hd, queues, calls, loop, flags, maps, eng, faults>>
    BY <1>1, <1>2 DEF Survives, queues
  <2> QED BY <1>1, <2>1, <2>2, LoopMoves
<1>3. ASSUME controls # <<>>, controls' = Tail(controls), NEW answer \in {"ok", "error"},
             calls' = [calls EXCEPT ![Head(controls)] = answer],
             (th' = th /\ faults' = faults) \/ Fatal
      PROVE  IInv'
  <2>1. /\ calls' \in [Controls -> {"new", "waiting", "ok", "error"}] /\ controls' \in Seq(Controls)
        /\ \A c \in Controls : calls'[c] = "waiting" => c \in ToSet(controls)'
    BY <1>3, ControlAnswered
  <2>2. "except" \in ThreadAt /\ "except" \notin Admitting /\ "except" \in Ending /\ "except" \notin {"publish", "finish"}
    BY DEF ThreadAt, Admitting, Ending
  <2>3. /\ th' \in ThreadSet /\ th'.pc \in {l, "except"} /\ th'.stopping = th.stopping /\ th'.item = th.item
        /\ th'.tokens = th.tokens /\ th'.finished = th.finished
    BY <1>1, <1>3, <2>2, GotoFields, ThreadTypes DEF IInv, Goto, Fatal
  <2>4. faults' \in 0..MaxFaults /\ (faults' = 0 => faults = 0 /\ th'.pc = l)
    BY <1>1, <1>3, DispatcherAssumption DEF IInv, TypeOK, Fatal, Raises
  <2>5. th'.pc \notin {"failactive", "drain", "draincontrols", "drainaborts", "dead"}
        /\ th'.pc \notin Admitting
    BY <1>1, <2>2, <2>3 DEF Ending
  <2>6. Queues'
    BY <1>1, <2>1, <2>3, <2>5 DEF IInv, Queues, Ending
  <2>7. failed \in BOOLEAN
    BY DEF IInv, TypeOK
  <2> QED BY <1>1, <2>1, <2>2, <2>3, <2>4, <2>6, <2>7, ThreadMoves
<1>4. \/ controls = <<>> /\ Goto(next) /\ Survives /\ UNCHANGED <<controls, calls>>
      \/ /\ controls # <<>> /\ controls' = Tail(controls)
         /\ \E answer \in {"ok", "error"} : calls' = [calls EXCEPT ![Head(controls)] = answer]
         /\ (th' = th /\ faults' = faults) \/ Fatal
  BY DEF DrainControl, Survives
<1> QED BY <1>2, <1>3, <1>4

LEMMA PruneRaisesKeeps == ASSUME IInv, PruneRaises PROVE IInv'
<1>1. th.pc \notin Admitting
  BY DEF PruneRaises, At, Admitting
<1> QED BY <1>1, FatalMoves DEF PruneRaises

LEMMA AbortsDrainedKeeps == ASSUME IInv, AbortsDrained PROVE IInv'
<1>1. th.pc \in {"aborts1", "aborts2"} /\ th.pc \notin Admitting /\ th.pc \notin Ending /\ th.pc \notin {"publish", "finish"}
      /\ UNCHANGED <<hd, queues, calls, loop, flags, maps, eng>>
  BY DEF AbortsDrained, At, Admitting, Ending
<1>2. CASE Fatal
  BY <1>1, <1>2, FatalMoves
<1>3. ASSUME NEW l, l \in {"get", "fill", "step", "controls1"} \/ (l = "failactive" /\ th.stopping),
             th' = [th EXCEPT !.pc = l, !.changed = FALSE], Survives
      PROVE  IInv'
  <2>1. l \in ThreadAt /\ l \notin Admitting /\ l \notin {"publish", "finish"} /\ (l # "failactive" => l \notin Ending)
    BY <1>3 DEF ThreadAt, Admitting, Ending
  <2>2. /\ th' \in ThreadSet /\ th'.pc = l /\ th'.stopping = th.stopping
        /\ th'.tokens = th.tokens /\ th'.finished = th.finished
    BY <1>3, <2>1, ThreadTypes DEF IInv, ThreadSet
  <2>3. UNCHANGED <<hd, queues, calls, loop, flags, maps, eng, faults>>
    BY <1>1, <1>3 DEF Survives
  <2> QED BY <1>1, <1>3, <2>1, <2>2, <2>3, LoopMoves
<1>4. \/ Fatal
      \/ th' = [th EXCEPT !.pc = IF Idle THEN "get" ELSE "fill", !.changed = FALSE] /\ Survives
      \/ th' = [th EXCEPT !.pc = IF Idle THEN Top ELSE "step", !.changed = FALSE] /\ Survives
  BY DEF AbortsDrained
<1>5. Top \in {"controls1"} \/ (Top = "failactive" /\ th.stopping)
  BY DEF Top
<1> QED BY <1>2, <1>3, <1>4, <1>5

LEMMA NothingMoreKeeps == ASSUME IInv, NothingMore PROVE IInv'
<1>1. /\ th.pc = "fill" /\ "fill" \notin Admitting /\ "fill" \notin Ending /\ "controls2" \in ThreadAt
      /\ "controls2" \notin Admitting /\ "controls2" \notin Ending
  BY DEF NothingMore, At, Admitting, Ending, ThreadAt
<1>2. /\ th' \in ThreadSet /\ th'.pc = "controls2" /\ th'.stopping = th.stopping
      /\ th'.tokens = th.tokens /\ th'.finished = th.finished
  BY <1>1, GotoFields DEF IInv, NothingMore, Goto
<1> QED BY <1>1, <1>2, LoopMoves DEF NothingMore

LEMMA TokensPublishedKeeps == ASSUME IInv, TokensPublished PROVE IInv'
<1>1. /\ th.pc = "publish" /\ "publish" \notin Admitting /\ "publish" \notin Ending /\ "finish" \in ThreadAt
      /\ "finish" \notin Admitting /\ "finish" \notin Ending
  BY DEF TokensPublished, At, Admitting, Ending, ThreadAt
<1>2. /\ th' \in ThreadSet /\ th'.pc = "finish" /\ th'.stopping = th.stopping
      /\ th'.tokens = th.tokens /\ th'.finished = th.finished
  BY <1>1, GotoFields DEF IInv, TokensPublished, Goto
<1> QED BY <1>1, <1>2, LoopMoves DEF TokensPublished

LEMMA FinishedPublishedKeeps == ASSUME IInv, FinishedPublished PROVE IInv'
<1>1. /\ th.pc = "finish" /\ "finish" \notin Admitting /\ "finish" \notin Ending /\ th.finished = {}
      /\ Top \in {"failactive", "controls1"} /\ (Top = "failactive" => th.stopping)
  BY DEF FinishedPublished, At, Admitting, Ending, Top
<1>2. Top \in ThreadAt /\ Top \notin Admitting /\ (Top # "failactive" => Top \notin Ending) /\ Top \notin {"publish", "finish"}
  BY <1>1 DEF ThreadAt, Admitting, Ending
<1>3. /\ th' \in ThreadSet /\ th'.pc = Top /\ th'.stopping = th.stopping
      /\ th'.tokens = th.tokens /\ th'.finished = th.finished
  BY <1>2, GotoFields DEF IInv, FinishedPublished, Goto
<1> QED BY <1>1, <1>2, <1>3, LoopMoves DEF FinishedPublished

-----------------------------------------------------------------------------
(* The end of the thread.                                                  *)

LEMMA MarkFailedKeeps == ASSUME IInv, MarkFailed PROVE IInv'
<1>1. /\ th.pc = "except" /\ "except" \notin Admitting /\ "except" \in Ending /\ "except" \notin {"publish", "finish"}
      /\ "failactive" \notin Admitting /\ "failactive" \in Ending /\ "failactive" \notin {"publish", "finish"}
      /\ "failactive" \in ThreadAt /\ failed' = TRUE /\ th' = [th EXCEPT !.pc = "failactive"]
      /\ UNCHANGED <<hd, pending, aborts, controls, calls, loop, closing, active, latest, eng, faults>>
  BY DEF MarkFailed, At, Goto, Admitting, Ending, ThreadAt, queues, maps
<1>2. /\ th' \in ThreadSet /\ th'.pc = "failactive" /\ th'.stopping = th.stopping
      /\ th'.tokens = th.tokens /\ th'.finished = th.finished
  BY <1>1, GotoFields DEF IInv
<1>3. Queues'
  BY <1>1, <1>2, QueuesMove
<1>4. calls \in [Controls -> {"new", "waiting", "ok", "error"}] /\ controls \in Seq(Controls) /\ faults \in 0..MaxFaults
  BY DEF IInv, TypeOK
<1> QED BY <1>1, <1>2, <1>3, <1>4, ThreadMoves

LEMMA ActiveFailedKeeps == ASSUME IInv, ActiveFailed PROVE IInv'
<1>1. /\ th.pc = "failactive" /\ "failactive" \notin Admitting /\ "failactive" \in Ending
      /\ "failactive" \notin {"publish", "finish", "except"}
      /\ "drain" \notin Admitting /\ "drain" \in Ending /\ "drain" \notin {"publish", "finish", "except"}
      /\ "drain" \in ThreadAt /\ Idle /\ th' = [th EXCEPT !.pc = "drain"]
      /\ UNCHANGED <<hd, pending, aborts, controls, calls, loop, closing, failed, active, latest, eng, faults>>
  BY DEF ActiveFailed, At, Goto, Admitting, Ending, ThreadAt, queues, maps, flags
<1>2. /\ th' \in ThreadSet /\ th'.pc = "drain" /\ th'.stopping = th.stopping
      /\ th'.tokens = th.tokens /\ th'.finished = th.finished
  BY <1>1, GotoFields DEF IInv
<1>3. Queues'
  BY <1>1, <1>2 DEF IInv, Queues, Idle
<1>4. calls \in [Controls -> {"new", "waiting", "ok", "error"}] /\ controls \in Seq(Controls) /\ faults \in 0..MaxFaults
      /\ failed \in BOOLEAN
  BY DEF IInv, TypeOK
<1> QED BY <1>1, <1>2, <1>3, <1>4, ThreadMoves

LEMMA DrainQueuedControlsKeeps == ASSUME IInv, DrainQueuedControls PROVE IInv'
<1>1. /\ th.pc = "draincontrols" /\ "draincontrols" \notin Admitting /\ "draincontrols" \in Ending
      /\ "draincontrols" \notin {"publish", "finish", "except"}
      /\ "drainaborts" \notin Admitting /\ "drainaborts" \in Ending /\ "drainaborts" \notin {"publish", "finish", "except"}
      /\ "drainaborts" \in ThreadAt
      /\ UNCHANGED <<hd, pending, aborts, loop, closing, failed, active, latest, eng, faults>>
  BY DEF DrainQueuedControls, At, Admitting, Ending, ThreadAt, flags, maps
<1>2. calls \in [Controls -> {"new", "waiting", "ok", "error"}] /\ controls \in Seq(Controls) /\ faults \in 0..MaxFaults
      /\ failed \in BOOLEAN /\ th \in ThreadSet
  BY ThreadTypes DEF IInv, TypeOK
<1>3. CASE controls = <<>>
  <2>1. th' = [th EXCEPT !.pc = "drainaborts"] /\ UNCHANGED <<controls, calls>>
    BY <1>3 DEF DrainQueuedControls, Goto
  <2>2. /\ th' \in ThreadSet /\ th'.pc = "drainaborts" /\ th'.stopping = th.stopping
        /\ th'.tokens = th.tokens /\ th'.finished = th.finished
    BY <1>1, <2>1, GotoFields DEF IInv
  <2>3. Queues'
    BY <1>1, <1>3, <2>1, <2>2 DEF IInv, Queues, Idle, Queued
  <2> QED BY <1>1, <1>2, <2>1, <2>2, <2>3, ThreadMoves
<1>4. CASE controls # <<>>
  <2>1. th' = th /\ controls' = Tail(controls) /\ calls' = [calls EXCEPT ![Head(controls)] = "error"]
    BY <1>4 DEF DrainQueuedControls
  <2>2. /\ calls' \in [Controls -> {"new", "waiting", "ok", "error"}] /\ controls' \in Seq(Controls)
        /\ \A c \in Controls : calls'[c] = "waiting" => c \in ToSet(controls)'
    BY <1>4, <2>1, ControlAnswered
  <2>3. Queues'
    BY <1>1, <2>1, <2>2 DEF IInv, Queues, Idle, Queued
  <2> QED BY <1>1, <1>2, <2>1, <2>2, <2>3, ThreadMoves
<1> QED BY <1>3, <1>4

\* Something is taken from _pending.
LEMMA PendingTail ==
  ASSUME IInv, pending # <<>>, pending' = Tail(pending)
  PROVE  /\ pending' \in Seq(Requests \cup {Wakeup, Stop}) /\ Head(pending) \in Requests \cup {Wakeup, Stop}
         /\ \A r \in Requests : Queued(r)' <=> Queued(r) /\ r # Head(pending)
         /\ Head(pending) \in Requests => Queued(Head(pending))
         /\ Stop \in ToSet(pending)' \/ Stop = Head(pending) => Stop \in ToSet(pending)
         /\ \A r \in Requests : OnceIn(pending', r)
<1>1. pending \in Seq(Requests \cup {Wakeup, Stop}) /\ \A r \in Requests : OnceIn(pending, r)
  BY DEF IInv, TypeOK, Queues
<1>2. /\ pending' \in Seq(Requests \cup {Wakeup, Stop}) /\ Head(pending) \in Requests \cup {Wakeup, Stop}
      /\ ToSet(pending) = {Head(pending)} \cup ToSet(pending')
  BY <1>1, ToSetTail
<1>3. ASSUME NEW r \in Requests PROVE OnceIn(pending', r) /\ (Head(pending) = r => r \notin ToSet(pending'))
  BY <1>1, OnceTail
<1> QED BY <1>2, <1>3 DEF Queued

\* The last event of a request.
LEMMA EndedFields ==
  ASSUME NEW h \in Handle, Tokens(h.out), NEW e \in {"final", "error"}
  PROVE  /\ Ended(h, e) \in Handle /\ Ended(h, e).client = h.client /\ Ended(h, e).cancelled = h.cancelled
         /\ Ended(h, e).terminal = TRUE /\ Ended(h, e).seq = h.seq /\ Ended(h, e).admission = h.admission
         /\ Ended(h, e).discard = h.discard /\ HasEnding(Ended(h, e).out) /\ OneEnding(Ended(h, e).out)
<1>1. h.out \in Seq({"token", "final", "error"})
  BY DEF Handle
<1>2. Append(h.out, e) \in Seq({"token", "final", "error"}) /\ HasEnding(Append(h.out, e)) /\ OneEnding(Append(h.out, e))
  BY <1>1, AppendProperties, OutAppend
<1> QED BY <1>2 DEF Ended, Handle

\* The same, for a request that was not admitted.
LEMMA FailedFields ==
  ASSUME NEW h \in Handle, Untouched(h)
  PROVE  LET g == [Ended(h, "error") EXCEPT !.admission = "error"]
         IN  /\ g \in Handle /\ g.client = h.client /\ g.cancelled = h.cancelled /\ g.terminal = TRUE
             /\ g.seq = h.seq /\ g.admission = "error" /\ g.discard = h.discard
             /\ HasEnding(g.out) /\ OneEnding(g.out) /\ Settled(g)
<1> DEFINE e == Ended(h, "error")
           g == [e EXCEPT !.admission = "error"]
<1>1. Tokens(h.out)
  BY OutEmpty DEF Untouched
<1>2. /\ e \in Handle /\ e.client = h.client /\ e.cancelled = h.cancelled /\ e.terminal = TRUE /\ e.seq = h.seq
      /\ e.discard = h.discard /\ HasEnding(e.out) /\ OneEnding(e.out)
  BY <1>1, EndedFields
<1> HIDE DEF e
<1>3. /\ g \in Handle /\ g.client = e.client /\ g.cancelled = e.cancelled /\ g.terminal = e.terminal
      /\ g.seq = e.seq /\ g.admission = "error" /\ g.discard = e.discard /\ g.out = e.out
  BY <1>2 DEF Handle
<1>4. Settled(g)
  BY <1>2, <1>3 DEF Settled
<1> QED BY <1>2, <1>3, <1>4 DEF e

\* The thread writes to r's handle, but not the flags of the event loop.
LEMMA CancelsWritten ==
  ASSUME IInv, UNCHANGED <<aborts, loop, failed>>, NEW r \in Requests, Only(r),
         hd'[r].client = hd[r].client, hd'[r].cancelled = hd[r].cancelled, hd'[r].discard = hd[r].discard,
         hd[r].seq # NoRequest => hd'[r].seq # NoRequest,
         \A q \in Requests : IsActive(q)' => IsActive(q) \/ ~hd[q].cancelled, th.pc # "except"
  PROVE  Cancels'
<1>1. ASSUME NEW a \in ToSet(aborts)' PROVE AbortSound(a)'
  <2>1. a \in Abort /\ a.of \in Requests /\ AbortSound(a)
    BY AbortTypes DEF IInv, Cancels
  <2>2. CASE a.of = r
    BY <2>1, <2>2 DEF AbortSound
  <2>3. CASE a.of # r
    BY <2>1, <2>3 DEF AbortSound, Only
  <2> QED BY <2>2, <2>3
<1>2. LoopSound'
  <2>1. LoopSound
    BY DEF IInv, Cancels
  <2>2. loop.of \in Requests /\ loop.of # r => hd'[loop.of] = hd[loop.of]
    BY DEF Only
  <2> QED BY <2>1, <2>2 DEF LoopSound
<1>3. ASSUME NEW q \in Requests PROVE Cancelled(q)'
  <2>1. hd'[q].cancelled = hd[q].cancelled /\ hd'[q].discard = hd[q].discard
    BY DEF Only
  <2>2. Cancelled(q) /\ (AbortQueued(q)' <=> AbortQueued(q)) /\ Shape(hd[q])
    BY DEF IInv, Cancels, AbortQueued, Stages
  <2>3. hd[q].discard = "ok" => hd[q].cancelled
    BY <2>2 DEF Shape
  <2> QED BY <2>1, <2>2, <2>3 DEF Cancelled
<1> QED BY <1>1, <1>2, <1>3 DEF Cancels

LEMMA DrainQueuedKeeps == ASSUME IInv, DrainQueued PROVE IInv'
<1>1. /\ th.pc = "drain" /\ "drain" \notin Admitting /\ "drain" \in Ending
      /\ "drain" \notin {"publish", "finish", "except"}
      /\ "draincontrols" \notin Admitting /\ "draincontrols" \in Ending
      /\ "draincontrols" \notin {"publish", "finish", "except"} /\ "draincontrols" \in ThreadAt
      /\ UNCHANGED <<aborts, controls, calls, loop, closing, failed, active, latest, eng, faults>>
  BY DEF DrainQueued, At, Admitting, Ending, ThreadAt, flags, maps
<1>2. calls \in [Controls -> {"new", "waiting", "ok", "error"}] /\ controls \in Seq(Controls) /\ faults \in 0..MaxFaults
      /\ failed \in BOOLEAN /\ th \in ThreadSet
  BY ThreadTypes DEF IInv, TypeOK
<1>3. CASE pending = <<>>
  <2>1. th' = [th EXCEPT !.pc = "draincontrols"] /\ UNCHANGED <<hd, pending>>
    BY <1>3 DEF DrainQueued, Goto
  <2>2. /\ th' \in ThreadSet /\ th'.pc = "draincontrols" /\ th'.stopping = th.stopping
        /\ th'.tokens = th.tokens /\ th'.finished = th.finished
    BY <1>1, <2>1, GotoFields DEF IInv
  <2>3. ToSet(pending) = {}
    BY <1>3 DEF ToSet
  <2>4. Queues'
    BY <1>1, <1>3, <2>1, <2>2, <2>3 DEF IInv, Queues, Idle, Queued
  <2> QED BY <1>1, <1>2, <2>1, <2>2, <2>4, ThreadMoves
<1>4. CASE pending # <<>>
  <2>1. /\ th' = th /\ pending' = Tail(pending)
        /\ hd' = IF Head(pending) \notin Requests THEN hd
                 ELSE [hd EXCEPT ![Head(pending)] = [Ended(@, "error") EXCEPT !.admission = "error"]]
    BY <1>4 DEF DrainQueued
  <2>2. /\ pending' \in Seq(Requests \cup {Wakeup, Stop}) /\ Head(pending) \in Requests \cup {Wakeup, Stop}
        /\ \A r \in Requests : Queued(r)' <=> Queued(r) /\ r # Head(pending)
        /\ Head(pending) \in Requests => Queued(Head(pending))
        /\ Stop \in ToSet(pending)' \/ Stop = Head(pending) => Stop \in ToSet(pending)
        /\ \A r \in Requests : OnceIn(pending', r)
    BY <1>4, <2>1, PendingTail
  <2>3. Queues'
    BY <1>1, <2>1, <2>2 DEF IInv, Queues, Idle
  <2>4. CASE Head(pending) \notin Requests
    <3>1. UNCHANGED <<hd, active, latest, eng, th, faults>> /\ \A q \in Requests : Queued(q)' <=> Queued(q)
      BY <1>1, <2>1, <2>2, <2>4
    <3>2. Stages' /\ TurnsLinked' /\ Chains' /\ Tracks' /\ \A q : IsActive(q)' <=> IsActive(q)
      BY <3>1, HandlesKept
    <3>3. TypeOK'
      BY <1>1, <2>2, <3>1 DEF IInv, TypeOK
    <3>4. Cancels'
      BY <1>1, <3>1, <3>2, CancelsKept
    <3> QED BY <2>3, <3>2, <3>3, <3>4 DEF IInv
  <2>5. CASE Head(pending) \in Requests
    <3>0. PICK r \in Requests : r = Head(pending)
      BY <2>5
    <3> DEFINE h == [Ended(hd[r], "error") EXCEPT !.admission = "error"]
    <3>1. /\ hd[r] \in Handle /\ hd[r].client = "submitted" /\ Untouched(hd[r]) /\ hd[r].seq = NoRequest
          /\ Shape(hd[r]) /\ Place(r)
      BY <2>2, <3>0, HandleTypes DEF IInv, Stages, Place
    <3>2. /\ h \in Handle /\ h.client = hd[r].client /\ h.cancelled = hd[r].cancelled /\ h.terminal = TRUE
          /\ h.seq = hd[r].seq /\ h.admission = "error" /\ h.discard = hd[r].discard
          /\ OneEnding(h.out) /\ Settled(h)
      BY <3>1, FailedFields
    <3>3. hd' = [hd EXCEPT ![r] = h]
      BY <2>1, <2>5, <3>0
    <3> HIDE DEF h
    <3>4. hd' \in [Requests -> Handle] /\ hd'[r] = h /\ Only(r)
      BY <3>0, <3>2, <3>3, Replaced DEF IInv
    <3>5. TypeOK'
      BY <1>1, <2>1, <2>2, <3>4 DEF IInv, TypeOK
    <3>6. Shape(h)
      BY <3>1, <3>2 DEF Shape
    <3>7. ~IsActive(r) /\ (\A q : IsActive(q)' <=> IsActive(q)) /\ ~AtItem(r)'
      BY <1>1, <2>1, <3>0, <3>1, NotAdmitted DEF IsActive, AtItem, IInv
    <3>8. Place(r)'
      BY <2>2, <3>0, <3>2, <3>4, <3>7 DEF Place
    <3>9. Stages'
      BY <1>1, <2>1, <2>2, <3>0, <3>4, <3>6, <3>8, StagesKept DEF IInv
    <3>10. Cancels'
      BY <1>1, <3>0, <3>2, <3>4, <3>7, CancelsWritten
    <3>11. TurnsLinked'
      BY <3>0, <3>1, <3>2, <3>4, TurnsKept DEF IInv, Only, Untouched
    <3>12. Chains' /\ Tracks'
      BY <1>1, <2>1, <3>0, <3>2, <3>4, LoopTracks DEF IInv, SameSeqs, Only
    <3> QED BY <2>3, <3>5, <3>9, <3>10, <3>11, <3>12 DEF IInv
  <2> QED BY <2>4, <2>5
<1> QED BY <1>3, <1>4

\* Something is taken from _aborts.
LEMMA AbortsTail ==
  ASSUME IInv, aborts # <<>>, aborts' = Tail(aborts)
  PROVE  /\ aborts' \in Seq(Abort) /\ Head(aborts) \in Abort /\ ToSet(aborts) = {Head(aborts)} \cup ToSet(aborts)'
         /\ Head(aborts).of \in Requests /\ Head(aborts).force \in BOOLEAN
         /\ Head(aborts) = [of |-> Head(aborts).of, force |-> Head(aborts).force]
         /\ AbortSound(Head(aborts))
<1>1. aborts \in Seq(Abort)
  BY DEF IInv, TypeOK
<1>2. /\ aborts' \in Seq(Abort) /\ Head(aborts) \in Abort /\ ToSet(aborts) = {Head(aborts)} \cup ToSet(aborts)'
  BY <1>1, ToSetTail
<1>3. Head(aborts).of \in Requests /\ Head(aborts).force \in BOOLEAN
         /\ Head(aborts) = [of |-> Head(aborts).of, force |-> Head(aborts).force]
  BY <1>2 DEF Abort
<1> QED BY <1>2, <1>3 DEF IInv, Cancels

\* What _resolve_abort and the terminal flag leave in a handle.
LEMMA AnsweredFields ==
  ASSUME NEW h \in Handle, NEW a \in Abort, NEW result \in {"ok", "error"}
  PROVE  /\ Answered(h, a, result) \in Handle
         /\ Answered(h, a, result).client = h.client /\ Answered(h, a, result).cancelled = h.cancelled
         /\ Answered(h, a, result).terminal = h.terminal /\ Answered(h, a, result).seq = h.seq
         /\ Answered(h, a, result).admission = h.admission /\ Answered(h, a, result).out = h.out
         /\ a.force /\ h.discard = "waiting" => Answered(h, a, result).discard = result
         /\ ~(a.force /\ h.discard = "waiting") => Answered(h, a, result).discard = h.discard
BY DEF Answered, Handle, Abort

LEMMA TerminalFields ==
  ASSUME NEW h \in Handle
  PROVE  LET g == [h EXCEPT !.terminal = TRUE]
         IN  /\ g \in Handle /\ g.client = h.client /\ g.cancelled = h.cancelled /\ g.terminal = TRUE
             /\ g.seq = h.seq /\ g.admission = h.admission /\ g.out = h.out /\ g.discard = h.discard
BY DEF Handle

\* One abort is taken and answered; its request is not active any more, or
\* the thread fails.
LEMMA CancelsAnswered ==
  ASSUME IInv, aborts # <<>>, aborts' = Tail(aborts), UNCHANGED <<loop, failed>>,
         NEW a \in Abort, a = Head(aborts), NEW r \in Requests, r = a.of, Only(r),
         hd'[r].client = hd[r].client, hd'[r].cancelled = hd[r].cancelled, hd'[r].seq = hd[r].seq,
         NEW result \in {"ok", "error"},
         a.force /\ hd[r].discard = "waiting" => hd'[r].discard = result,
         ~(a.force /\ hd[r].discard = "waiting") => hd'[r].discard = hd[r].discard,
         \A q \in Requests : IsActive(q)' => IsActive(q),
         IsActive(r)' => th'.pc = "except" /\ result = "error",
         th.pc # "except"
  PROVE  Cancels'
<1>1. /\ ToSet(aborts) = {a} \cup ToSet(aborts)' /\ a.force \in BOOLEAN
      /\ a = [of |-> a.of, force |-> a.force] /\ AbortSound(a)
  BY AbortsTail
<1>2. hd'[r].discard = hd[r].discard \/ (hd[r].discard = "waiting" /\ hd'[r].discard = result)
  BY <1>1
<1>3. hd[r].discard # "no" => hd'[r].discard # "no"
  BY <1>2
<1>4. ASSUME NEW b \in ToSet(aborts)' PROVE AbortSound(b)'
  BY <1>1, <1>3, AbortsKept DEF IInv
<1>5. LoopSound'
  <2>1. LoopSound
    BY DEF IInv, Cancels
  <2>2. loop.of \in Requests /\ loop.of # r => hd'[loop.of] = hd[loop.of]
    BY DEF Only
  <2> QED BY <2>1, <2>2, <1>3 DEF LoopSound
<1>6. ASSUME NEW q \in Requests PROVE Cancelled(q)'
  <2>1. Cancelled(q)
    BY DEF IInv, Cancels
  <2>2. CASE q # r
    <3>1. hd'[q] = hd[q] /\ \A b \in ToSet(aborts) : b.of = q => b \in ToSet(aborts)'
      BY <2>2, <1>1 DEF Only
    <3> QED BY <2>1, <3>1, CancelledKept
  <2>3. CASE q = r
    <3>1. hd'[q].discard = "waiting" => hd[q].discard = "waiting" /\ ~a.force
      BY <2>3, <1>1, <1>2
    <3>2. hd[q].discard = "waiting" /\ ~a.force =>
            loop = In("discard", q) \/ [of |-> q, force |-> TRUE] \in ToSet(aborts)'
      <4>1. ~a.force => a # [of |-> q, force |-> TRUE]
        BY <1>1
      <4> QED BY <4>1, <1>1, <2>1 DEF Cancelled
    <3>3. hd'[q].discard = "ok" => ~IsActive(q)'
      BY <1>2, <2>1, <2>3 DEF Cancelled
    <3> QED BY <2>3, <3>1, <3>2, <3>3 DEF Cancelled
  <2> QED BY <2>2, <2>3
<1> QED BY <1>4, <1>5, <1>6 DEF Cancels

LEMMA FailPendingAbortsKeeps == ASSUME IInv, FailPendingAborts PROVE IInv'
<1>1. /\ th.pc = "drainaborts" /\ "drainaborts" \notin Admitting /\ "drainaborts" \in Ending
      /\ "drainaborts" \notin {"publish", "finish", "except"}
      /\ "dead" \notin Admitting /\ "dead" \in Ending
      /\ "dead" \notin {"publish", "finish", "except"} /\ "dead" \in ThreadAt
      /\ UNCHANGED <<pending, controls, calls, loop, closing, failed, active, latest, eng, faults>>
  BY DEF FailPendingAborts, At, Admitting, Ending, ThreadAt, flags, maps
<1>2. calls \in [Controls -> {"new", "waiting", "ok", "error"}] /\ controls \in Seq(Controls) /\ faults \in 0..MaxFaults
      /\ failed \in BOOLEAN /\ th \in ThreadSet
  BY ThreadTypes DEF IInv, TypeOK
<1>3. CASE aborts = <<>>
  <2>1. th' = [th EXCEPT !.pc = "dead"] /\ UNCHANGED <<hd, aborts>>
    BY <1>3 DEF FailPendingAborts, Goto
  <2>2. /\ th' \in ThreadSet /\ th'.pc = "dead" /\ th'.stopping = th.stopping
        /\ th'.tokens = th.tokens /\ th'.finished = th.finished
    BY <1>1, <2>1, GotoFields DEF IInv
  <2>3. ToSet(aborts) = {}
    BY <1>3 DEF ToSet
  <2>4. Queues'
    BY <1>1, <1>3, <2>1, <2>2, <2>3 DEF IInv, Queues, Idle, Queued
  <2> QED BY <1>1, <1>2, <2>1, <2>2, <2>4, ThreadMoves
<1>4. CASE aborts # <<>>
  <2>0. PICK a \in Abort, r \in Requests : a = Head(aborts) /\ r = a.of
    BY <1>4, AbortsTail DEF FailPendingAborts
  <2> DEFINE g == [hd[r] EXCEPT !.terminal = TRUE]
             h == Answered(g, a, "error")
  <2>1. th' = th /\ aborts' = Tail(aborts) /\ hd' = [hd EXCEPT ![r] = h]
    BY <1>4, <2>0 DEF FailPendingAborts
  <2>2. /\ aborts' \in Seq(Abort) /\ a \in Abort /\ r \in Requests /\ a.force \in BOOLEAN /\ AbortSound(a)
    BY <1>4, <2>0, <2>1, AbortsTail
  <2>3. hd[r] \in Handle /\ Shape(hd[r]) /\ Place(r)
    BY <2>2, HandleTypes DEF IInv, Stages
  <2>4. /\ g \in Handle /\ g.client = hd[r].client /\ g.cancelled = hd[r].cancelled /\ g.terminal = TRUE
        /\ g.seq = hd[r].seq /\ g.admission = hd[r].admission /\ g.out = hd[r].out /\ g.discard = hd[r].discard
    BY <2>3, TerminalFields
  <2> HIDE DEF g
  <2>5. /\ h \in Handle /\ h.client = g.client /\ h.cancelled = g.cancelled /\ h.terminal = g.terminal
        /\ h.seq = g.seq /\ h.admission = g.admission /\ h.out = g.out
        /\ (a.force /\ g.discard = "waiting" => h.discard = "error")
        /\ (~(a.force /\ g.discard = "waiting") => h.discard = g.discard)
    BY <2>2, <2>4, AnsweredFields
  <2> HIDE DEF h
  <2>6. hd' \in [Requests -> Handle] /\ hd'[r] = h /\ Only(r)
    BY <2>1, <2>2, <2>5, Replaced DEF IInv
  <2>7. TypeOK'
    BY <1>1, <2>1, <2>2, <2>6 DEF IInv, TypeOK
  <2>8. ~IsActive(r) /\ (\A q : IsActive(q)' <=> IsActive(q)) /\ ~AtItem(r)' /\ ~AtItem(r) /\ ~Queued(r) /\ ~Queued(r)'
        /\ (Stranded(r)' <=> Stranded(r))
    <3>1. Idle
      BY <1>1 DEF IInv, Queues
    <3>2. r # NoRequest
      BY <2>2, DispatcherAssumption
    <3>3. hd[r].seq # NoRequest
      BY <2>0, <2>2 DEF AbortSound
    <3>4. ~Queued(r)
      BY <3>3, <2>3 DEF Place
    <3> QED BY <1>1, <2>1, <2>4, <2>5, <2>6, <3>1, <3>2, <3>4 DEF IsActive, Idle, AtItem, Queued, Stranded
  <2>9. Shape(h)
    BY <2>0, <2>2, <2>3, <2>4, <2>5 DEF Shape, AbortSound
  <2>10. Place(r)'
    <3>1. hd[r].client = "submitted"
      BY <2>0, <2>2, <2>3 DEF AbortSound, Shape
    <3>2. Settled(hd[r]) \/ Stranded(r)
      BY <2>3, <2>8, <3>1 DEF Place
    <3>3. Settled(hd[r]) => Settled(h)
      BY <2>4, <2>5 DEF Settled
    <3> QED BY <2>6, <2>8, <3>2, <3>3 DEF Place
  <2>11. Stages'
    BY <1>1, <2>1, <2>2, <2>6, <2>9, <2>10, StagesKept DEF IInv, Queued
  <2>12. Queues'
    <3>1. th.pc # "dead"
      BY <1>1
    <3> QED BY <1>1, <2>1, <3>1, QueuesAborts DEF IInv
  <2>13. Cancels'
    BY <1>1, <1>4, <2>0, <2>1, <2>4, <2>5, <2>6, <2>8, CancelsAnswered
  <2>14. TurnsLinked'
    BY <2>2, <2>4, <2>5, <2>6, TurnsKept DEF IInv, Only
  <2>15. Chains' /\ Tracks'
    BY <1>1, <2>1, <2>2, <2>4, <2>5, <2>6, LoopTracks DEF IInv, SameSeqs, Only
  <2> QED BY <2>7, <2>11, <2>12, <2>13, <2>14, <2>15 DEF IInv
<1> QED BY <1>3, <1>4

-----------------------------------------------------------------------------
(* The engine.                                                             *)

EngineSet == [live: SUBSET Requests, owed: SUBSET Requests,
              kept: [Requests -> Requests \cup {NoRequest}], made: [Requests -> Nat]]

LEMMA EngineTypes ==
  ASSUME TypeOK
  PROVE  /\ eng \in EngineSet /\ eng.live \subseteq Requests /\ eng.owed \subseteq Requests
         /\ eng.kept \in [Requests -> Requests \cup {NoRequest}] /\ eng.made \in [Requests -> Nat]
         /\ \A r \in Requests : eng.made[r] <= MaxTokens[r]
         /\ active \in [Requests -> Requests \cup {NoRequest}] /\ latest \in [Requests -> Requests \cup {NoRequest}]
BY DEF TypeOK, EngineSet

LEMMA AbortedFields ==
  ASSUME TypeOK, NEW s \in Requests
  PROVE  /\ Aborted(s) \in EngineSet /\ Aborted(s).live = eng.live \ Holder(s) /\ Aborted(s).made = eng.made
         /\ Aborted(s).owed = eng.owed \ {s}
         /\ Aborted(s).kept[s] = NoRequest /\ \A x \in Requests : x # s => Aborted(s).kept[x] = eng.kept[x]
BY EngineTypes DEF Aborted, EngineSet

\* An abort that was carried out, raised, or did nothing.
LEMMA AbortKinds ==
  ASSUME TypeOK, NEW s \in Requests, eng' \in {eng, Aborted(s)} \cup AbortRaised(s)
  PROVE  eng' \in EngineSet /\ Shrinks /\ eng'.live \in {eng.live, eng.live \ Holder(s)}
<1>1. /\ Aborted(s) \in EngineSet /\ Aborted(s).live = eng.live \ Holder(s) /\ Aborted(s).made = eng.made
      /\ Aborted(s).kept[s] = NoRequest /\ \A x \in Requests : x # s => Aborted(s).kept[x] = eng.kept[x]
  BY AbortedFields
<1>2. eng \in EngineSet /\ Holder(s) \subseteq eng.live
  BY EngineTypes DEF Holder
<1>3. ASSUME NEW e \in EngineSet, NEW o \in SUBSET Requests
      PROVE  /\ [e EXCEPT !.owed = @ \cup o] \in EngineSet
             /\ [e EXCEPT !.owed = @ \cup o].live = e.live /\ [e EXCEPT !.owed = @ \cup o].kept = e.kept
             /\ [e EXCEPT !.owed = @ \cup o].made = e.made
  BY <1>3 DEF EngineSet
<1>4. PICK e \in {eng, Aborted(s)} : eng' \in EngineSet /\ eng'.live = e.live /\ eng'.kept = e.kept /\ eng'.made = e.made
  <2> DEFINE o == IF ChainMode THEN {} ELSE {s}
  <2>1. o \in SUBSET Requests
    OBVIOUS
  <2>2. eng' \in {eng, Aborted(s), [eng EXCEPT !.owed = @ \cup o], [Aborted(s) EXCEPT !.owed = @ \cup o]}
    BY DEF AbortRaised
  <2> HIDE DEF o
  <2>3. ASSUME NEW e \in {eng, Aborted(s)}, eng' = e \/ eng' = [e EXCEPT !.owed = @ \cup o]
        PROVE  eng' \in EngineSet /\ eng'.live = e.live /\ eng'.kept = e.kept /\ eng'.made = e.made
    <3>1. e \in EngineSet
      BY <1>1, <1>2
    <3> QED BY <1>3, <2>1, <2>3, <3>1
  <2> QED BY <2>2, <2>3
<1>5. e.live \in {eng.live, eng.live \ Holder(s)} /\ e.made = eng.made
      /\ \A x \in Requests : e.kept[x] \in {eng.kept[x], NoRequest}
  BY <1>1, <1>4
<1> QED BY <1>2, <1>4, <1>5 DEF Shrinks

\* The engine and the newest turn agree on who has a sequence id.
LEMMA HolderIsTip ==
  ASSUME Chains, TypeOK, NEW s \in Requests, NEW r \in Requests, Tip(r), hd[r].seq = s
  PROVE  Holder(s) \subseteq {r} /\ eng.kept[s] \in {r, NoRequest}
<1>1. eng.live \subseteq Requests /\ eng.kept[s] \in Requests \cup {NoRequest}
  BY EngineTypes
<1>2. \A q \in Requests : Tip(q) /\ hd[q].seq = s => q = r
  BY DEF Chains, SeqsSound
<1>3. \A q \in eng.live : Tip(q)
  BY DEF Chains, LiveSound
<1>4. eng.kept[s] # NoRequest => Tip(eng.kept[s]) /\ hd[eng.kept[s]].seq = s
  BY DEF Chains, KeptSound
<1> QED BY <1>1, <1>2, <1>3, <1>4 DEF Holder

\* What is active has the newest turn's sequence id.
LEMMA ActiveFacts ==
  ASSUME IInv, NEW s \in Requests, active[s] # NoRequest
  PROVE  /\ active[s] \in Requests /\ hd[active[s]].seq = s /\ Tip(active[s]) /\ latest[s] = active[s]
         /\ IsActive(active[s])
<1>1. active[s] \in Requests
  BY EngineTypes DEF IInv
<1> QED BY <1>1 DEF IInv, Chains, ActiveSound, IsActive

\* A request that leaves `active`, and the token map with it.
LEMMA MapsDrop ==
  ASSUME IInv, NEW s \in Requests, NEW r \in Requests, active[s] = r, SameSeqs,
         active' = [active EXCEPT ![s] = NoRequest], latest' = Forget(s, r)
  PROVE  /\ active' \in [Requests -> Requests \cup {NoRequest}] /\ latest' \in [Requests -> Requests \cup {NoRequest}]
         /\ Drops /\ (latest = active => latest' = active')
         /\ \A q \in Requests : IsActive(q)' <=> IsActive(q) /\ q # r
         /\ \A q \in Requests : Stranded(q)' <=> Stranded(q)
<1>1. active \in [Requests -> Requests \cup {NoRequest}] /\ latest \in [Requests -> Requests \cup {NoRequest}] /\ r # NoRequest
      /\ NoRequest \notin Requests
  BY EngineTypes, DispatcherAssumption DEF IInv
<1>2. hd[r].seq = s /\ latest[s] = r
  BY <1>1, ActiveFacts
<1>3. latest' = [latest EXCEPT ![s] = NoRequest]
  BY <1>2 DEF Forget
<1>4. /\ active' \in [Requests -> Requests \cup {NoRequest}] /\ latest' \in [Requests -> Requests \cup {NoRequest}]
      /\ active'[s] = NoRequest /\ latest'[s] = NoRequest
      /\ \A x \in Requests : x # s => active'[x] = active[x] /\ latest'[x] = latest[x]
  BY <1>1, <1>3
<1>5. Drops /\ (latest = active => latest' = active')
  BY <1>3, <1>4 DEF Drops
<1>6. ASSUME NEW q \in Requests PROVE IsActive(q)' <=> IsActive(q) /\ q # r
  <2>1. \A x \in Requests : active[x] = r => x = s
    BY <1>1, <1>2, ActiveFacts
  <2> QED BY <1>1, <1>4, <2>1 DEF IsActive
<1>7. ASSUME NEW q \in Requests PROVE Stranded(q)' <=> Stranded(q)
  <2>1. hd'[q].seq = hd[q].seq /\ hd[q].seq \in Requests \cup {NoRequest} /\ q # NoRequest
    BY HandleTypes, DispatcherAssumption DEF SameSeqs, IInv
  <2>2. CASE hd[q].seq = s
    BY <1>1, <1>4, <2>1, <2>2 DEF Stranded
  <2>3. CASE hd[q].seq # s
    BY <1>4, <2>1, <2>3 DEF Stranded
  <2> QED BY <2>2, <2>3
<1> QED BY <1>4, <1>5, <1>6, <1>7

\* While nothing has raised, an abort that is carried out leaves the engine
\* with what the thread tracks.
LEMMA FaultlessAbort ==
  ASSUME TypeOK, Chains, Faultless, NEW s \in Requests, NEW r \in Requests, hd[r].seq = s,
         eng' = Aborted(s), th'.pc # "except",
         \A q \in Requests : q # r /\ (IsActive(q) \/ AtItem(q)) => IsActive(q)' \/ AtItem(q)',
         \A q \in Requests : q # r /\ hd'[q].discard = "ok" /\ ~AtItem(q)' => hd[q].discard = "ok" /\ ~AtItem(q)
  PROVE  Faultless'
<1>1. /\ eng'.live = eng.live \ Holder(s) /\ eng'.owed = eng.owed \ {s}
      /\ eng'.kept[s] = NoRequest /\ \A x \in Requests : x # s => eng'.kept[x] = eng.kept[x]
  BY AbortedFields
<1>2. r \notin eng'.live /\ eng.live \subseteq Requests
  BY <1>1, EngineTypes DEF Holder
<1>3. NoRequest \notin Requests
  BY DispatcherAssumption
<1>4. \A x \in Requests : eng'.kept[x] # r
  BY <1>1, <1>3 DEF Chains, KeptSound
<1>5. \A q \in Requests : Gone(q) => Gone(q)'
  BY <1>1, <1>3 DEF Gone
<1>6. Gone(r)'
  BY <1>2, <1>4 DEF Gone
<1>7. \A q \in eng'.live : IsActive(q)' \/ AtItem(q)'
  BY <1>1, <1>2 DEF Faultless
<1>8. ASSUME NEW q \in Requests, hd'[q].discard = "ok", ~AtItem(q)' PROVE Gone(q)'
  BY <1>5, <1>6, <1>8 DEF Faultless
<1>9. eng'.owed = {}
  BY <1>1 DEF Faultless
<1> QED BY <1>7, <1>8, <1>9 DEF Faultless

LEMMA FailActiveKeeps == ASSUME IInv, NEW s \in Requests, FailActive(s) PROVE IInv'
<1>0. PICK r \in Requests : r = active[s]
  BY ActiveFacts DEF FailActive
<1> DEFINE h == Ended(hd[r], "error")
<1>1. /\ th.pc = "failactive" /\ "failactive" \notin Admitting /\ "failactive" \in Ending /\ th.pc # "except"
      /\ "failactive" \notin {"publish", "finish"}
      /\ active' = [active EXCEPT ![s] = NoRequest] /\ latest' = Forget(s, r) /\ hd' = [hd EXCEPT ![r] = h]
      /\ UNCHANGED <<pending, aborts, controls, calls, loop, closing, failed, th>>
      /\ eng' \in {eng, Aborted(s)} \cup AbortRaised(s)
      /\ (eng' = Aborted(s) /\ faults' = faults) \/ (faults < MaxFaults /\ faults' = faults + 1)
  BY <1>0 DEF FailActive, At, Admitting, Ending, queues, flags, Survives, Raises
<1>2. r # NoRequest /\ hd[r].seq = s /\ Tip(r) /\ latest[s] = r /\ IsActive(r) /\ NoRequest \notin Requests
  BY <1>0, ActiveFacts, DispatcherAssumption
<1>3. hd[r] \in Handle /\ Shape(hd[r]) /\ Place(r) /\ hd[r].client = "submitted" /\ hd[r].admission = "ok" /\ Tokens(hd[r].out)
  BY <1>2, HandleTypes DEF IInv, Stages, Place
<1>4. /\ h \in Handle /\ h.client = hd[r].client /\ h.cancelled = hd[r].cancelled
      /\ h.terminal = TRUE /\ h.seq = hd[r].seq /\ h.admission = hd[r].admission
      /\ h.discard = hd[r].discard /\ HasEnding(h.out) /\ OneEnding(h.out)
  BY <1>3, EndedFields
<1> HIDE DEF h
<1>5. hd' \in [Requests -> Handle] /\ hd'[r] = h /\ Only(r)
  BY <1>1, <1>4, Replaced DEF IInv
<1>6. SameSeqs
  BY <1>4, <1>5 DEF SameSeqs, Only
<1>7. /\ active' \in [Requests -> Requests \cup {NoRequest}] /\ latest' \in [Requests -> Requests \cup {NoRequest}]
      /\ Drops
      /\ \A q \in Requests : IsActive(q)' <=> IsActive(q) /\ q # r
      /\ \A q \in Requests : Stranded(q)' <=> Stranded(q)
  BY <1>0, <1>1, <1>6, MapsDrop
<1>8. eng' \in EngineSet /\ Shrinks
  BY <1>1, AbortKinds DEF IInv
<1>9. faults' \in 0..MaxFaults /\ (faults' = 0 => faults = 0 /\ eng' = Aborted(s))
  BY <1>1, DispatcherAssumption, SMTT(30) DEF IInv, TypeOK
<1>10. TypeOK'
  <2>1. \A q \in Requests : eng'.made[q] <= MaxTokens[q]
    BY <1>8, EngineTypes DEF Shrinks, IInv
  <2> QED BY <1>1, <1>5, <1>7, <1>8, <1>9, <2>1 DEF IInv, TypeOK, EngineSet
<1>11. \A q : ~AtItem(q) /\ ~AtItem(q)'
  BY <1>1 DEF AtItem
<1>12. Stages'
  <2> SUFFICES ASSUME NEW q \in Requests PROVE Shape(hd'[q]) /\ Place(q)'
    BY DEF Stages
  <2>1. Queued(q)' <=> Queued(q)
    BY <1>1 DEF Queued
  <2>2. CASE q # r
    <3>1. hd'[q] = hd[q] /\ Shape(hd[q]) /\ Place(q)
      BY <2>2, <1>5 DEF Only, IInv, Stages
    <3> QED BY <2>1, <2>2, <1>7, <1>11, <3>1, PlaceKept
  <2>3. CASE q = r
    <3>1. Settled(h) /\ Shape(h)
      BY <1>3, <1>4 DEF Settled, Shape
    <3>2. ~Queued(r)
      BY <1>2, <1>3 DEF Place
    <3> QED BY <2>1, <2>3, <1>5, <1>7, <1>11, <3>1, <3>2 DEF Place
  <2> QED BY <2>2, <2>3
<1>13. Queues'
  BY <1>1 DEF IInv, Queues, Queued, Ending
<1>14. Cancels'
  BY <1>1, <1>4, <1>5, <1>7, CancelsWritten
<1>15. TurnsLinked'
  BY <1>4, <1>5, TurnsKept DEF IInv, Only
<1>16. Chains'
  BY <1>6, <1>7, <1>8, ChainsKept DEF IInv
<1>17. Tracks'
  <2>1. faults' = 0 => Faultless'
    <3>1. \A q \in Requests : hd'[q].discard = hd[q].discard
      BY <1>4, <1>5 DEF Only
    <3> QED BY <1>1, <1>2, <1>7, <1>9, <1>11, <3>1, FaultlessAbort DEF IInv, Tracks
  <2>2. \E x \in Requests \cup {NoRequest} : \A q \in Requests : Stranded(q)' => q = x /\ q \in th'.finished
    BY <1>1, <1>7 DEF IInv, Tracks
  <2> QED BY <1>1, <2>1, <2>2 DEF Tracks
<1> QED BY <1>10, <1>12, <1>13, <1>14, <1>15, <1>16, <1>17 DEF IInv

-----------------------------------------------------------------------------
(* Steps and what they publish.                                            *)

\* The thread writes to r's handle outside _admit.
LEMMA StagesWritten ==
  ASSUME Stages, NEW r \in Requests, Only(r), Shape(hd'[r]), Place(r)', pending' = pending,
         th.pc \notin Admitting, th'.pc \notin Admitting,
         \A q \in Requests : q # r => (IsActive(q)' <=> IsActive(q)) /\ (Stranded(q) => Stranded(q)')
  PROVE  Stages'
<1> SUFFICES ASSUME NEW q \in Requests, q # r PROVE Shape(hd'[q]) /\ Place(q)'
  BY DEF Stages
<1>1. hd'[q] = hd[q] /\ Place(q) /\ Shape(hd[q])
  BY DEF Stages, Only
<1>2. ~AtItem(q)' /\ ~AtItem(q) /\ (Queued(q)' <=> Queued(q))
  BY DEF AtItem, Queued
<1>3. Place(q)'
  BY <1>1, <1>2, PlaceKept
<1> QED BY <1>1, <1>3

LEMMA TracksPublish ==
  ASSUME IInv, th.pc \in {"publish", "finish"}, th'.pc = th.pc, SameSeqs,
         th'.tokens \subseteq th.tokens, th'.finished \subseteq th.finished, eng'.live \subseteq eng.live,
         \A q \in Requests : IsActive(q)' => q \in eng'.live \cup th'.finished,
         latest' = active', faults' = 0 => Faultless'
  PROVE  Tracks'
<1>1. "publish" \notin Ending /\ "finish" \notin Ending
  BY DEF Ending
<1>2. th.tokens \subseteq Requests /\ th.finished \subseteq Requests
  BY ThreadTypes DEF IInv
<1>3. \A r \in th.tokens \cup th.finished : hd[r].seq # NoRequest
  BY DEF IInv, Tracks
<1>4. \A r \in th'.tokens \cup th'.finished : hd'[r].seq # NoRequest
  BY <1>2, <1>3 DEF SameSeqs
<1>5. th'.finished \cap eng'.live = {}
  BY DEF IInv, Tracks
<1> QED BY <1>1, <1>4, <1>5 DEF Tracks

\* An exception leaves the loop after an engine call.
LEMMA FatalWith ==
  ASSUME IInv, Fatal, UNCHANGED <<hd, queues, calls, loop, flags, maps>>, th.pc \notin Admitting, th.pc \notin Ending,
         eng' \in EngineSet, \A r \in Requests : eng'.made[r] <= MaxTokens[r], Chains'
  PROVE  IInv'
<1>1. /\ UNCHANGED <<hd, pending, aborts, controls, calls, loop, closing, failed, active, latest>>
      /\ th' = [th EXCEPT !.pc = "except"] /\ faults < MaxFaults /\ faults' = faults + 1
  BY DEF queues, flags, maps, Fatal, Raises, Goto
<1>2. "except" \in ThreadAt /\ "except" \notin Admitting /\ "except" \in Ending /\ "except" \notin {"publish", "finish"}
  BY DEF ThreadAt, Admitting, Ending
<1>3. /\ th' \in ThreadSet /\ th'.pc = "except" /\ th'.stopping = th.stopping
      /\ th'.tokens = th.tokens /\ th'.finished = th.finished
  BY <1>1, <1>2, GotoFields DEF IInv
<1>4. faults' \in 0..MaxFaults /\ faults' # 0
  BY <1>1, DispatcherAssumption DEF IInv, TypeOK
<1>5. TypeOK'
  BY <1>1, <1>3, <1>4 DEF IInv, TypeOK, ThreadSet, EngineSet
<1>6. Stages'
  BY <1>1, <1>2, <1>3, StagesUntouched DEF IInv, Queued
<1>7. Queues'
  BY <1>1, <1>2, <1>3, QueuesMove
<1>8. Cancels'
  BY <1>1, <1>3, CancelsKept DEF IsActive
<1>9. TurnsLinked'
  BY <1>1, TurnsKept DEF IInv
<1>10. Tracks'
  <2>1. \A q \in Requests : ~Stranded(q)'
    BY <1>1, NoneStranded DEF IInv, Stranded
  <2> QED BY <1>2, <1>3, <1>4, <2>1 DEF Tracks
<1> QED BY <1>5, <1>6, <1>7, <1>8, <1>9, <1>10 DEF IInv

\* A publication after which the thread goes on with the next one.
LEMMA PublishTypes ==
  ASSUME IInv, NEW r,
         \/ th' = [th EXCEPT !.tokens = @ \ {r}]
         \/ th' = [th EXCEPT !.finished = @ \ {r}] 
  PROVE  /\ th' \in ThreadSet /\ th'.pc = th.pc /\ th'.stopping = th.stopping /\ th'.item = th.item
         /\ th'.tokens \subseteq th.tokens /\ th'.finished \subseteq th.finished
         /\ th.finished \ {r} \subseteq th'.finished
BY ThreadTypes DEF IInv, ThreadSet

LEMMA QueuesPublish ==
  ASSUME IInv, UNCHANGED <<queues, calls, flags>>, th.pc \in {"publish", "finish"}, th'.pc = th.pc,
         th'.stopping = th.stopping
  PROVE  Queues'
<1>1. UNCHANGED <<pending, aborts, controls, calls, closing, failed>> /\ th.pc \notin Ending /\ th.pc \notin Admitting
  BY DEF queues, flags, Ending, Admitting
<1> QED BY <1>1 DEF IInv, Queues, Queued, Ending

\* Nothing is published for a request that is no longer active.
LEMMA PublishSkips ==
  ASSUME IInv, NEW r \in Requests, th.pc \in {"publish", "finish"}, ~IsActive(r),
         UNCHANGED <<hd, queues, calls, loop, flags, maps, eng, faults>>,
         \/ th' = [th EXCEPT !.tokens = @ \ {r}]
         \/ th' = [th EXCEPT !.finished = @ \ {r}]
  PROVE  IInv'
<1>1. /\ UNCHANGED <<hd, pending, aborts, controls, calls, loop, closing, failed, active, latest, eng, faults>>
      /\ th.pc \notin Ending /\ th.pc \notin Admitting /\ th.pc # "except"
  BY DEF queues, flags, maps, Ending, Admitting
<1>2. /\ th' \in ThreadSet /\ th'.pc = th.pc /\ th'.stopping = th.stopping /\ th'.item = th.item
      /\ th'.tokens \subseteq th.tokens /\ th'.finished \subseteq th.finished
      /\ th.finished \ {r} \subseteq th'.finished
  BY PublishTypes
<1>3. TypeOK'
  BY <1>1, <1>2 DEF IInv, TypeOK, ThreadSet
<1>4. Stages'
  BY <1>1, <1>2, StagesUntouched DEF IInv, Queued
<1>5. Queues'
  BY <1>2, QueuesPublish
<1>6. Cancels'
  BY <1>1, CancelsKept DEF IsActive
<1>7. TurnsLinked'
  BY <1>1, TurnsKept DEF IInv
<1>8. Chains'
  BY <1>1, ChainsKept DEF IInv, SameSeqs, Shrinks, Drops
<1>9. Tracks'
  <2>1. (\A q : IsActive(q)' <=> IsActive(q)) /\ (\A q : AtItem(q)' <=> AtItem(q)) /\ (\A q : Gone(q)' <=> Gone(q))
    BY <1>1, <1>2 DEF IsActive, AtItem, Gone
  <2>2. \A q \in Requests : IsActive(q)' => q \in eng'.live \cup th'.finished
    BY <1>1, <1>2, <2>1 DEF IInv, Tracks
  <2>3. faults' = 0 => Faultless'
    BY <1>1, <1>2, <2>1 DEF IInv, Tracks, Faultless
  <2>4. latest' = active' /\ SameSeqs
    BY <1>1 DEF IInv, Tracks, SameSeqs
  <2> QED BY <1>1, <1>2, <2>2, <2>3, <2>4, TracksPublish
<1> QED BY <1>3, <1>4, <1>5, <1>6, <1>7, <1>8, <1>9 DEF IInv

\* A request leaves `active` with its final event, and perhaps the engine.
LEMMA PublishLeaves ==
  ASSUME IInv, NEW r \in Requests, th.pc \in {"publish", "finish"}, hd[r].seq # NoRequest, active[hd[r].seq] = r,
         UNCHANGED <<queues, calls, loop, flags, faults>>, Leaves(r),
         \/ th' = [th EXCEPT !.tokens = @ \ {r}] /\ eng' = Aborted(hd[r].seq)
         \/ th' = [th EXCEPT !.finished = @ \ {r}] /\ r \in th.finished /\ eng' \in {eng, Aborted(hd[r].seq)}
  PROVE  IInv'
<1>0. PICK s \in Requests : s = hd[r].seq
  BY HandleTypes DEF IInv
<1> DEFINE h == Ended(hd[r], "final")
<1>1. /\ UNCHANGED <<pending, aborts, controls, calls, loop, closing, failed, faults>>
      /\ th.pc \notin Ending /\ th.pc \notin Admitting /\ th.pc # "except"
      /\ active[s] = r /\ active' = [active EXCEPT ![s] = NoRequest] /\ latest' = Forget(s, r)
      /\ hd' = [hd EXCEPT ![r] = h] /\ eng' \in {eng, Aborted(s)}
  BY <1>0 DEF queues, flags, Ending, Admitting, Leaves
<1>2. r # NoRequest /\ hd[r].seq = s /\ Tip(r) /\ latest[s] = r /\ IsActive(r) /\ NoRequest \notin Requests
  BY <1>0, <1>1, ActiveFacts, DispatcherAssumption
<1>3. hd[r] \in Handle /\ Shape(hd[r]) /\ Place(r) /\ hd[r].client = "submitted" /\ hd[r].admission = "ok" /\ Tokens(hd[r].out)
  BY <1>2, HandleTypes DEF IInv, Stages, Place
<1>4. /\ h \in Handle /\ h.client = hd[r].client /\ h.cancelled = hd[r].cancelled
      /\ h.terminal = TRUE /\ h.seq = hd[r].seq /\ h.admission = hd[r].admission
      /\ h.discard = hd[r].discard /\ HasEnding(h.out) /\ OneEnding(h.out)
  BY <1>3, EndedFields
<1> HIDE DEF h
<1>5. hd' \in [Requests -> Handle] /\ hd'[r] = h /\ Only(r)
  BY <1>1, <1>4, Replaced DEF IInv
<1>6. SameSeqs
  BY <1>4, <1>5 DEF SameSeqs, Only
<1>7. latest = active
  BY <1>1 DEF IInv, Tracks
<1>8. /\ active' \in [Requests -> Requests \cup {NoRequest}] /\ latest' \in [Requests -> Requests \cup {NoRequest}]
      /\ Drops /\ latest' = active'
      /\ \A q \in Requests : IsActive(q)' <=> IsActive(q) /\ q # r
      /\ \A q \in Requests : Stranded(q)' <=> Stranded(q)
  BY <1>1, <1>6, <1>7, MapsDrop
<1>9. eng' \in EngineSet /\ Shrinks /\ eng'.live \in {eng.live, eng.live \ Holder(s)} /\ Holder(s) \subseteq {r}
  BY <1>1, <1>2, AbortKinds, HolderIsTip DEF IInv
<1>10. /\ th' \in ThreadSet /\ th'.pc = th.pc /\ th'.stopping = th.stopping /\ th'.item = th.item
       /\ th'.tokens \subseteq th.tokens /\ th'.finished \subseteq th.finished
       /\ th.finished \ {r} \subseteq th'.finished
  BY PublishTypes
<1>11. TypeOK'
  <2>1. \A q \in Requests : eng'.made[q] <= MaxTokens[q]
    BY <1>9, EngineTypes DEF Shrinks, IInv
  <2> QED BY <1>1, <1>5, <1>8, <1>9, <1>10, <2>1 DEF IInv, TypeOK, EngineSet, ThreadSet
<1>12. \A q : ~AtItem(q) /\ ~AtItem(q)'
  BY <1>1, <1>10 DEF AtItem
<1>13. Stages'
  <2>1. Settled(h) /\ Shape(h)
    BY <1>3, <1>4 DEF Settled, Shape
  <2>2. ~Queued(r) /\ ~Queued(r)'
    BY <1>1, <1>2, <1>3 DEF Place, Queued
  <2>3. Place(r)'
    BY <1>5, <1>8, <1>12, <2>1, <2>2 DEF Place
  <2> QED BY <1>1, <1>5, <1>8, <1>10, <2>1, <2>3, StagesWritten DEF IInv
<1>14. Queues'
  BY <1>10, QueuesPublish
<1>15. Cancels'
  BY <1>1, <1>4, <1>5, <1>8, CancelsWritten
<1>16. TurnsLinked'
  BY <1>4, <1>5, TurnsKept DEF IInv, Only
<1>17. Chains'
  BY <1>6, <1>8, <1>9, ChainsKept DEF IInv
<1>18. Tracks'
  <2>1. \A q \in Requests : hd'[q].discard = hd[q].discard
    BY <1>4, <1>5 DEF Only
  <2>2. faults' = 0 /\ eng' = Aborted(s) => Faultless'
    BY <1>1, <1>2, <1>8, <1>10, <1>12, <2>1, FaultlessAbort DEF IInv, Tracks
  <2>3. faults' = 0 /\ eng' = eng /\ r \in th.finished => Faultless'
    <3>1. r \in th.finished => r \notin eng.live
      BY DEF IInv, Tracks
    <3>2. eng.live \subseteq Requests
      BY EngineTypes DEF IInv
    <3> QED BY <1>1, <1>8, <1>10, <1>12, <2>1, <3>1, <3>2 DEF IInv, Tracks, Faultless, Gone
  <2>4. faults' = 0 => Faultless'
    BY <1>0, <2>2, <2>3
  <2>5. \A q \in Requests : IsActive(q)' => q \in eng'.live \cup th'.finished
    <3>1. \A q \in Requests : IsActive(q) => q \in eng.live \cup th.finished
      BY DEF IInv, Tracks
    <3> QED BY <1>8, <1>9, <1>10, <3>1
  <2>6. eng'.live \subseteq eng.live
    BY <1>9
  <2> QED BY <1>6, <1>8, <1>10, <2>4, <2>5, <2>6, TracksPublish
<1> QED BY <1>11, <1>13, <1>14, <1>15, <1>16, <1>17, <1>18 DEF IInv

LEMMA PublishTokenKeeps == ASSUME IInv, NEW r \in Requests, PublishToken(r) PROVE IInv'
<1>1. /\ th.pc = "publish" /\ "publish" \notin Ending /\ "publish" \notin Admitting /\ r \in th.tokens
      /\ UNCHANGED <<queues, calls, loop, flags>>
      /\ UNCHANGED <<pending, aborts, controls, calls, loop, closing, failed>>
  BY DEF PublishToken, At, Ending, Admitting, queues, flags
<1>2. hd[r].seq # NoRequest /\ latest = active
  BY <1>1 DEF IInv, Tracks
<1>3. PICK s \in Requests : s = hd[r].seq
  BY <1>2, HandleTypes DEF IInv
<1>4. NoRequest \notin Requests
  BY DispatcherAssumption
<1>5. CASE active[s] # r
  <2>1. ~IsActive(r)
    BY <1>3, <1>4, <1>5, ActiveFacts DEF IsActive
  <2>2. th' = [th EXCEPT !.tokens = @ \ {r}] /\ UNCHANGED <<hd, maps, eng, faults>>
    BY <1>3, <1>5 DEF PublishToken, Survives
  <2> QED BY <1>1, <2>1, <2>2, PublishSkips
<1>6. CASE active[s] = r /\ eng' = Aborted(hd[r].seq) /\ Leaves(r) /\ th' = [th EXCEPT !.tokens = @ \ {r}] /\ Survives
  BY <1>1, <1>2, <1>3, <1>6, PublishLeaves DEF Survives
<1>7. CASE active[s] = r /\ Fatal /\ eng' \in {eng, Aborted(s)} \cup AbortRaised(s) /\ UNCHANGED <<hd, maps>>
  <2>1. eng' \in EngineSet /\ Shrinks
    BY <1>7, AbortKinds DEF IInv
  <2>2. \A q \in Requests : eng'.made[q] <= MaxTokens[q]
    BY <2>1, EngineTypes DEF Shrinks, IInv
  <2>3. Chains'
    BY <1>7, <2>1, ChainsKept DEF IInv, SameSeqs, Drops, maps
  <2> QED BY <1>1, <1>7, <2>1, <2>2, <2>3, FatalWith
<1>8. CASE /\ active[s] = r /\ hd' = [hd EXCEPT ![r].out = Append(@, "token")]
           /\ th' = [th EXCEPT !.tokens = @ \ {r}] /\ Survives /\ UNCHANGED <<maps, eng>>
  <2> DEFINE h == [hd[r] EXCEPT !.out = Append(@, "token")]
  <2>1. IsActive(r)
    BY <1>8 DEF IsActive
  <2>2. hd[r] \in Handle /\ Shape(hd[r]) /\ Place(r) /\ hd[r].client = "submitted" /\ hd[r].admission = "ok"
        /\ Tokens(hd[r].out) /\ ~hd[r].terminal
    BY <2>1, HandleTypes DEF IInv, Stages, Place
  <2>3. hd' = [hd EXCEPT ![r] = h]
    BY <1>8
  <2>4. /\ h \in Handle /\ h.client = hd[r].client /\ h.cancelled = hd[r].cancelled
        /\ h.terminal = hd[r].terminal /\ h.seq = hd[r].seq /\ h.admission = hd[r].admission
        /\ h.discard = hd[r].discard /\ h.out = Append(hd[r].out, "token")
    <3>1. hd[r].out \in Seq({"token", "final", "error"})
      BY <2>2 DEF Handle
    <3>2. Append(hd[r].out, "token") \in Seq({"token", "final", "error"})
      BY <3>1, AppendProperties
    <3> QED BY <2>2, <3>2 DEF Handle
  <2>5. Tokens(h.out) /\ OneEnding(h.out)
    <3>1. hd[r].out \in Seq({"token", "final", "error"})
      BY <2>2 DEF Handle
    <3> QED BY <2>2, <2>4, <3>1, OutAppend
  <2> HIDE DEF h
  <2>6. hd' \in [Requests -> Handle] /\ hd'[r] = h /\ Only(r)
    BY <2>3, <2>4, Replaced DEF IInv
  <2>7. /\ th' \in ThreadSet /\ th'.pc = th.pc /\ th'.stopping = th.stopping /\ th'.item = th.item
        /\ th'.tokens \subseteq th.tokens /\ th'.finished = th.finished
    BY <1>8, ThreadTypes DEF IInv, ThreadSet
  <2>8. UNCHANGED <<active, latest, eng, faults>>
    BY <1>8 DEF maps, Survives
  <2>9. TypeOK'
    BY <1>1, <2>6, <2>7, <2>8 DEF IInv, TypeOK, ThreadSet
  <2>10. SameSeqs /\ (\A q \in Requests : hd'[q].discard = hd[q].discard)
    BY <2>4, <2>6 DEF SameSeqs, Only
  <2>11. /\ \A q : (IsActive(q)' <=> IsActive(q)) /\ ~AtItem(q) /\ ~AtItem(q)' /\ (Gone(q)' <=> Gone(q))
         /\ \A q \in Requests : Stranded(q)' <=> Stranded(q)
    BY <1>1, <2>7, <2>8, <2>10 DEF IsActive, AtItem, Gone, Stranded, SameSeqs
  <2>12. Stages'
    <3>1. Shape(h)
      BY <2>2, <2>4, <2>5 DEF Shape
    <3>2. ~Queued(r)' 
      BY <1>1, <1>2, <2>2 DEF Place, Queued
    <3>3. Place(r)'
      BY <2>1, <2>2, <2>4, <2>5, <2>6, <2>11, <3>2 DEF Place
    <3> QED BY <1>1, <2>6, <2>7, <2>11, <3>1, <3>3, StagesWritten DEF IInv
  <2>13. Queues'
    BY <1>1, <2>7, QueuesPublish
  <2>14. Cancels'
    BY <1>1, <2>4, <2>6, <2>11, CancelsWritten
  <2>15. TurnsLinked'
    BY <2>4, <2>6, TurnsKept DEF IInv, Only
  <2>16. Chains'
    BY <2>8, <2>10, ChainsKept DEF IInv, Shrinks, Drops
  <2>17. Tracks'
    <3>1. faults' = 0 => Faultless'
      BY <1>1, <2>7, <2>8, <2>10, <2>11 DEF IInv, Tracks, Faultless
    <3>2. \A q \in Requests : IsActive(q)' => q \in eng'.live \cup th'.finished
      BY <1>1, <2>7, <2>8, <2>11 DEF IInv, Tracks
    <3> QED BY <1>1, <1>2, <2>7, <2>8, <2>10, <3>1, <3>2, TracksPublish
  <2> QED BY <2>9, <2>12, <2>13, <2>14, <2>15, <2>16, <2>17 DEF IInv
<1> QED BY <1>3, <1>5, <1>6, <1>7, <1>8 DEF PublishToken

\* A publication that raises after active.pop strands its request.
LEMMA FinishRaises ==
  ASSUME IInv, NEW r \in Requests, NEW s \in Requests, s = hd[r].seq, th.pc = "finish", r \in th.finished,
         active[s] = r, active' = [active EXCEPT ![s] = NoRequest],
         eng' \in {eng} \cup AbortRaised(s), Fatal,
         UNCHANGED <<hd, latest, queues, calls, loop, flags>>
  PROVE  IInv'
<1>1. /\ UNCHANGED <<hd, latest, pending, aborts, controls, calls, loop, closing, failed>>
      /\ th.pc \notin Ending /\ th.pc \notin Admitting /\ th.pc # "except"
      /\ th' = [th EXCEPT !.pc = "except"] /\ faults < MaxFaults /\ faults' = faults + 1
  BY DEF queues, flags, Ending, Admitting, Fatal, Raises, Goto
<1>2. "except" \in ThreadAt /\ "except" \notin Admitting /\ "except" \in Ending /\ "except" \notin {"publish", "finish"}
  BY DEF ThreadAt, Admitting, Ending
<1>3. /\ th' \in ThreadSet /\ th'.pc = "except" /\ th'.stopping = th.stopping
      /\ th'.tokens = th.tokens /\ th'.finished = th.finished
  BY <1>1, <1>2, GotoFields DEF IInv
<1>4. faults' \in 0..MaxFaults /\ faults' # 0
  BY <1>1, DispatcherAssumption DEF IInv, TypeOK
<1>5. latest = active /\ NoRequest \notin Requests /\ active \in [Requests -> Requests \cup {NoRequest}]
  BY <1>1, DispatcherAssumption, EngineTypes DEF IInv, Tracks
<1>6. /\ active' \in [Requests -> Requests \cup {NoRequest}] /\ active'[s] = NoRequest
      /\ \A x \in Requests : x # s => active'[x] = active[x]
  BY <1>5
<1>7. eng' \in EngineSet /\ Shrinks
  BY AbortKinds DEF IInv
<1>8. \A x \in Requests : active[x] = r => x = s
  BY <1>5, ActiveFacts
<1>9. \A q \in Requests : IsActive(q)' <=> IsActive(q) /\ q # r
  BY <1>5, <1>6, <1>8 DEF IsActive
<1>10. Stranded(r)' /\ \A q \in Requests : q # r => ~Stranded(q)'
  <2>1. Stranded(r)'
    BY <1>1, <1>5, <1>6 DEF Stranded
  <2>2. ASSUME NEW q \in Requests, q # r, Stranded(q)' PROVE FALSE
    <3>1. hd[q].seq \in Requests /\ active[hd[q].seq] = q /\ active'[hd[q].seq] = NoRequest
      BY <2>2, <1>1, <1>5, HandleTypes DEF Stranded, IInv
    <3> QED BY <3>1, <1>5, <1>6, <2>2
  <2> QED BY <2>1, <2>2
<1>11. TypeOK'
  <2>1. \A q \in Requests : eng'.made[q] <= MaxTokens[q]
    BY <1>7, EngineTypes DEF Shrinks, IInv
  <2> QED BY <1>1, <1>3, <1>4, <1>6, <1>7, <2>1, ZenonT(30) DEF IInv, TypeOK, EngineSet, ThreadSet
<1>12. Stages'
  <2>1. Only(r) /\ Shape(hd'[r]) /\ Place(r) /\ hd'[r] = hd[r]
    BY <1>1 DEF Only, IInv, Stages
  <2>2. IsActive(r) /\ ~AtItem(r)' /\ ~Queued(r)'
    <3>1. IsActive(r)
      BY DEF IsActive
    <3> QED BY <1>1, <1>2, <1>3, <1>5, <2>1, <3>1 DEF IsActive, AtItem, Queued, Place
  <2>3. Place(r)'
    BY <2>1, <2>2, <1>9, <1>10 DEF Place
  <2>4. \A q \in Requests : ~Stranded(q)
    BY <1>1, NoneStranded DEF IInv
  <2> QED BY <1>1, <1>2, <1>3, <1>9, <2>1, <2>3, <2>4, StagesWritten DEF IInv
<1>13. Queues'
  BY <1>1, <1>2, <1>3 DEF IInv, Queues, Queued, Ending
<1>14. Cancels'
  BY <1>1, <1>9, CancelsWritten DEF Only
<1>15. TurnsLinked'
  BY <1>1, TurnsKept DEF IInv
<1>16. Chains'
  BY <1>1, <1>6, <1>7, ChainsKept DEF IInv, SameSeqs, Drops
<1>17. Tracks'
  <2>1. \A q \in Requests : Stranded(q)' => q = r /\ q \in th'.finished
    BY <1>3, <1>10
  <2> QED BY <1>2, <1>3, <1>4, <2>1 DEF Tracks
<1> QED BY <1>11, <1>12, <1>13, <1>14, <1>15, <1>16, <1>17 DEF IInv

LEMMA PublishFinishedKeeps == ASSUME IInv, NEW r \in Requests, PublishFinished(r) PROVE IInv'
<1>1. /\ th.pc = "finish" /\ "finish" \notin Ending /\ "finish" \notin Admitting /\ r \in th.finished
      /\ UNCHANGED <<queues, calls, loop, flags>>
  BY DEF PublishFinished, At, Ending, Admitting
<1>2. hd[r].seq # NoRequest
  BY <1>1 DEF IInv, Tracks
<1>3. PICK s \in Requests : s = hd[r].seq
  BY <1>2, HandleTypes DEF IInv
<1>4. NoRequest \notin Requests
  BY DispatcherAssumption
<1>5. CASE active[s] # r
  <2>1. ~IsActive(r)
    BY <1>3, <1>4, <1>5, ActiveFacts DEF IsActive
  <2>2. th' = [th EXCEPT !.finished = @ \ {r}] /\ UNCHANGED <<hd, maps, eng, faults>>
    BY <1>3, <1>5 DEF PublishFinished, Survives
  <2> QED BY <1>1, <2>1, <2>2, PublishSkips
<1>6. CASE /\ active[s] = r /\ eng' \in {eng, Aborted(s)} /\ Leaves(r)
           /\ th' = [th EXCEPT !.finished = @ \ {r}] /\ Survives
  BY <1>1, <1>2, <1>3, <1>6, PublishLeaves DEF Survives
<1>7. CASE active[s] = r /\ Fatal /\ UNCHANGED <<hd, maps, eng>>
  BY <1>1, <1>7, FatalMoves
<1>8. CASE /\ active[s] = r /\ active' = [active EXCEPT ![s] = NoRequest]
           /\ eng' \in {eng} \cup AbortRaised(s) /\ Fatal /\ UNCHANGED <<hd, latest>>
  BY <1>1, <1>3, <1>8, FinishRaises
<1> QED BY <1>3, <1>5, <1>6, <1>7, <1>8 DEF PublishFinished

\* What a step leaves in the engine.
LEMMA SteppedSound ==
  ASSUME IInv, NEW o \in StepOutcomes, eng' = Stepped(o.tokens, o.finished), UNCHANGED <<hd, active, latest>>
  PROVE  /\ eng' \in EngineSet /\ (\A r \in Requests : eng'.made[r] <= MaxTokens[r])
         /\ eng'.live = eng.live \ o.finished /\ eng'.owed = eng.owed
         /\ (\A s \in Requests : eng'.kept[s] = eng.kept[s] \/ eng'.kept[s] \in o.finished)
         /\ o.tokens \subseteq eng.live /\ o.finished \subseteq eng.live
         /\ Chains'
<1>1. PICK t, f : t = o.tokens /\ f = o.finished
  OBVIOUS
<1>2. /\ t \subseteq eng.live /\ f \subseteq eng.live /\ f \subseteq t
      /\ \A r \in t : eng.made[r] + 1 = MaxTokens[r] => r \in f
  BY <1>1 DEF StepOutcomes, Outcome
<1>3. /\ eng \in EngineSet /\ eng.live \subseteq Requests /\ eng.kept \in [Requests -> Requests \cup {NoRequest}]
      /\ eng.made \in [Requests -> Nat] /\ \A r \in Requests : eng.made[r] <= MaxTokens[r]
  BY EngineTypes DEF IInv
<1>4. MaxTokens \in [Requests -> Nat \ {0}] /\ NoRequest \notin Requests
  BY DispatcherAssumption
<1>5. /\ eng'.live = eng.live \ f /\ eng'.owed = eng.owed
      /\ eng'.made = [r \in Requests |-> IF r \in t THEN eng.made[r] + 1 ELSE eng.made[r]]
      /\ eng'.kept = [s \in Requests |->
           IF ChainMode /\ \E r \in f : hd[r].seq = s THEN CHOOSE r \in f : hd[r].seq = s ELSE eng.kept[s]]
  BY <1>1, <1>3 DEF Stepped, EngineSet
<1>6. eng' = [eng EXCEPT !.live = eng'.live, !.made = eng'.made, !.kept = eng'.kept]
  BY <1>1, <1>3, <1>5 DEF Stepped, EngineSet
<1>7. \A r \in eng.live : Tip(r) /\ eng.made[r] < MaxTokens[r]
  BY DEF IInv, Chains, LiveSound
<1>8. ASSUME NEW r \in Requests
      PROVE  /\ eng'.made[r] \in Nat /\ eng'.made[r] <= MaxTokens[r]
             /\ r \in eng'.live => eng'.made[r] < MaxTokens[r]
             /\ r \notin eng.live => eng'.made[r] = eng.made[r]
  <2>1. eng.made[r] \in Nat /\ MaxTokens[r] \in Nat /\ eng.made[r] <= MaxTokens[r]
    BY <1>3, <1>4
  <2>2. eng'.made[r] = IF r \in t THEN eng.made[r] + 1 ELSE eng.made[r]
    BY <1>5
  <2>3. r \in t => eng.made[r] < MaxTokens[r] /\ (r \notin f => eng.made[r] + 1 # MaxTokens[r])
    BY <1>2, <1>7
  <2>4. r \in eng.live => eng.made[r] < MaxTokens[r]
    BY <1>7
  <2>5. r \in eng'.live => r \in eng.live /\ r \notin f
    BY <1>5
  <2>6. r \notin eng.live => r \notin t
    BY <1>2
  <2> QED BY <2>1, <2>2, <2>3, <2>4, <2>5, <2>6
<1>9. ASSUME NEW s \in Requests
      PROVE  eng'.kept[s] = eng.kept[s] \/ (eng'.kept[s] \in f /\ hd[eng'.kept[s]].seq = s)
  BY <1>5
<1>10. eng' \in EngineSet
  <2>1. eng'.made \in [Requests -> Nat]
    BY <1>5, <1>8
  <2>2. eng'.kept \in [Requests -> Requests \cup {NoRequest}]
    BY <1>2, <1>3, <1>5, <1>9
  <2>3. eng'.live \in SUBSET Requests
    BY <1>3, <1>5
  <2> QED BY <1>3, <1>6, <2>1, <2>2, <2>3 DEF EngineSet
<1>11. SameSeqs
  BY DEF SameSeqs
<1>12. (\A r \in Requests : Tip(r)' <=> Tip(r)) /\ SeqsSound'
  BY <1>11, TipsKept DEF IInv, Chains
<1>13. LiveSound'
  <2>1. \A r \in eng'.live : r \in Requests /\ Tip(r)' /\ eng'.made[r] < MaxTokens[r]
    BY <1>3, <1>5, <1>7, <1>8, <1>12
  <2>2. ASSUME NEW r \in Requests, hd[r].seq = NoRequest PROVE eng'.made[r] = 0
    <3>1. r \notin eng.live /\ eng.made[r] = 0
      BY <2>2 DEF IInv, Chains, LiveSound, Tip
    <3> QED BY <3>1, <1>8
  <2> QED BY <2>1, <2>2 DEF LiveSound
<1>14. ASSUME NEW s \in Requests PROVE KeptSound(s)' /\ ActiveSound(s)'
  <2>1. KeptSound(s) /\ ActiveSound(s) /\ eng.kept[s] \in Requests \cup {NoRequest}
        /\ active[s] \in Requests \cup {NoRequest}
    BY EngineTypes DEF IInv, Chains
  <2>2. ActiveSound(s)'
    BY <1>12, <2>1 DEF ActiveSound
  <2>3. CASE eng'.kept[s] = eng.kept[s]
    <3>1. eng'.live \subseteq eng.live
      BY <1>5
    <3> QED BY <1>12, <2>1, <2>2, <2>3, <3>1 DEF KeptSound
  <2>4. CASE eng'.kept[s] \in f /\ hd[eng'.kept[s]].seq = s
    <3>1. PICK q \in Requests : q = eng'.kept[s]
      BY <1>2, <1>3, <2>4
    <3>2. Tip(q)' /\ q \notin eng'.live /\ hd'[q].seq = s
      BY <1>2, <1>5, <1>7, <1>12, <2>4, <3>1
    <3> QED BY <2>2, <3>1, <3>2 DEF KeptSound
  <2> QED BY <1>9, <2>2, <2>3, <2>4
<1>15. Chains'
  BY <1>12, <1>13, <1>14 DEF Chains
<1> QED BY <1>1, <1>2, <1>5, <1>8, <1>9, <1>10, <1>15

LEMMA StepRaisesKeeps == ASSUME IInv, StepRaises PROVE IInv'
<1>1. /\ th.pc = "step" /\ th.pc \notin Admitting /\ th.pc \notin Ending
      /\ UNCHANGED <<hd, queues, calls, loop, flags, maps>>
  BY DEF StepRaises, At, Admitting, Ending
<1>2. CASE Fatal /\ UNCHANGED eng
  BY <1>1, <1>2, FatalMoves
<1>3. CASE Fatal /\ \E o \in StepOutcomes : eng' = Stepped(o.tokens, o.finished)
  <2>1. PICK o \in StepOutcomes : eng' = Stepped(o.tokens, o.finished)
    BY <1>3
  <2>2. eng' \in EngineSet /\ (\A r \in Requests : eng'.made[r] <= MaxTokens[r]) /\ Chains'
    BY <1>1, <2>1, SteppedSound DEF maps
  <2> QED BY <1>1, <1>3, <2>2, FatalWith
<1>4. CASE eng.owed # {} /\ Survives /\ Goto("except") /\ UNCHANGED eng
  <2>1. /\ UNCHANGED <<hd, pending, aborts, controls, calls, loop, closing, failed, active, latest, eng, faults>>
        /\ th' = [th EXCEPT !.pc = "except"]
    BY <1>1, <1>4 DEF queues, flags, maps, Survives, Goto
  <2>2. "except" \in ThreadAt /\ "except" \notin Admitting /\ "except" \in Ending
    BY DEF ThreadAt, Admitting, Ending
  <2>3. /\ th' \in ThreadSet /\ th'.pc = "except" /\ th'.stopping = th.stopping
        /\ th'.tokens = th.tokens /\ th'.finished = th.finished
    BY <2>1, <2>2, GotoFields DEF IInv
  <2>4. faults # 0
    BY <1>4 DEF IInv, Tracks, Faultless
  <2>5. Queues'
    BY <2>1, <2>2, <2>3, QueuesMove
  <2>6. calls \in [Controls -> {"new", "waiting", "ok", "error"}] /\ controls \in Seq(Controls) /\ failed \in BOOLEAN
        /\ faults \in 0..MaxFaults
    BY DEF IInv, TypeOK
  <2> QED BY <1>1, <2>1, <2>2, <2>3, <2>4, <2>5, <2>6, ThreadMoves
<1> QED BY <1>2, <1>3, <1>4 DEF StepRaises

LEMMA StepKeeps == ASSUME IInv, Step PROVE IInv'
<1>0. PICK o \in StepOutcomes :
        eng' = Stepped(o.tokens, o.finished) /\ th' = [th EXCEPT !.pc = "publish", !.tokens = o.tokens, !.finished = o.finished]
  BY DEF Step
<1>1. /\ th.pc = "step" /\ "step" \notin Admitting /\ "step" \notin Ending /\ "step" \notin {"publish", "finish"}
      /\ "publish" \notin Admitting /\ "publish" \notin Ending /\ "publish" \in ThreadAt
      /\ UNCHANGED <<hd, pending, aborts, controls, calls, loop, closing, failed, active, latest, faults>>
  BY DEF Step, At, Admitting, Ending, ThreadAt, queues, flags, maps
<1>2. /\ eng' \in EngineSet /\ (\A r \in Requests : eng'.made[r] <= MaxTokens[r])
      /\ eng'.live = eng.live \ o.finished /\ eng'.owed = eng.owed
      /\ (\A s \in Requests : eng'.kept[s] = eng.kept[s] \/ eng'.kept[s] \in o.finished)
      /\ o.tokens \subseteq eng.live /\ o.finished \subseteq eng.live
      /\ Chains'
  BY <1>0, <1>1, SteppedSound
<1>3. eng.live \subseteq Requests
  BY EngineTypes DEF IInv
<1>4. /\ th' \in ThreadSet /\ th'.pc = "publish" /\ th'.stopping = th.stopping
      /\ th'.tokens = o.tokens /\ th'.finished = o.finished
  BY <1>0, <1>1, <1>2, <1>3, ThreadTypes DEF IInv, ThreadSet
<1>5. TypeOK'
  BY <1>1, <1>2, <1>4 DEF IInv, TypeOK, ThreadSet, EngineSet
<1>6. Stages'
  BY <1>1, <1>4, StagesUntouched DEF IInv, Queued
<1>7. Queues'
  BY <1>1, <1>4, QueuesMove
<1>8. Cancels'
  BY <1>1, CancelsKept DEF IsActive, Ending
<1>9. TurnsLinked'
  BY <1>1, TurnsKept DEF IInv
<1>10. Tracks'
  <2>1. (\A q : IsActive(q)' <=> IsActive(q)) /\ (\A q : ~AtItem(q) /\ ~AtItem(q)')
    BY <1>1, <1>4 DEF IsActive, AtItem
  <2>2. \A q \in Requests : IsActive(q) => q \in eng.live
    BY <1>1 DEF IInv, Tracks
  <2>3. latest = active /\ \A q \in eng.live : hd[q].seq # NoRequest
    BY <1>1 DEF IInv, Tracks, Chains, LiveSound, Tip
  <2>4. faults' = 0 => Faultless'
    <3>1. \A q \in Requests : Gone(q) => Gone(q)'
      BY <1>2 DEF Gone
    <3> QED BY <1>1, <1>2, <1>4, <2>1, <3>1 DEF IInv, Tracks, Faultless
  <2>5. /\ \A r \in Requests : IsActive(r)' => r \in eng'.live \cup th'.finished
        /\ \A r \in th'.tokens \cup th'.finished : hd'[r].seq # NoRequest
        /\ th'.finished \cap eng'.live = {}
    BY <1>1, <1>2, <1>4, <2>1, <2>2, <2>3
  <2> QED BY <1>1, <1>4, <2>3, <2>4, <2>5 DEF Tracks
<1> QED BY <1>2, <1>5, <1>6, <1>7, <1>8, <1>9, <1>10 DEF IInv

-----------------------------------------------------------------------------
(* Admission.                                                              *)

LEMMA TakeKeeps == ASSUME IInv, Take PROVE IInv'
<1>1. /\ th.pc \in {"get", "fill"} /\ th.pc \notin Admitting /\ th.pc \notin Ending /\ th.pc \notin {"publish", "finish"}
      /\ pending # <<>> /\ pending' = Tail(pending)
      /\ UNCHANGED <<hd, aborts, controls, calls, loop, closing, failed, active, latest, eng, faults>>
  BY DEF Take, At, Admitting, Ending, flags, maps
<1>2. PICK e : e = Head(pending)
  OBVIOUS
<1>3. /\ pending' \in Seq(Requests \cup {Wakeup, Stop}) /\ e \in Requests \cup {Wakeup, Stop}
      /\ \A r \in Requests : Queued(r)' <=> Queued(r) /\ r # e
      /\ e \in Requests => Queued(e)
      /\ Stop \in ToSet(pending)' \/ Stop = e => Stop \in ToSet(pending)
      /\ \A r \in Requests : OnceIn(pending', r)
  BY <1>1, <1>2, PendingTail
<1>4. /\ th' \in ThreadSet /\ th'.tokens = th.tokens /\ th'.finished = th.finished
      /\ e \in Requests => th'.pc = "admit" /\ th'.item = e
      /\ e \notin Requests => th'.pc \in {"fill", "controls1", "failactive"} /\ (th'.pc = "failactive" => e = Stop)
      /\ th'.stopping => th.stopping \/ e = Stop
  <2> DEFINE l == IF e \in Requests THEN "admit"
                  ELSE IF th.pc = "fill" THEN "fill"
                  ELSE IF e = Stop THEN "failactive" ELSE "controls1"
             i == IF e \in Requests THEN e ELSE th.item
             b == (th.stopping \/ (th.pc = "fill" /\ e = Stop))
  <2>1. th' = [th EXCEPT !.pc = l, !.item = i, !.stopping = b]
    BY <1>2 DEF Take, TakeFrom, At
  <2>2. l \in ThreadAt /\ i \in Requests \cup {NoRequest} /\ b \in BOOLEAN
    BY ThreadTypes DEF IInv, ThreadAt
  <2> HIDE DEF l, i, b
  <2>3. /\ th' \in ThreadSet /\ th'.tokens = th.tokens /\ th'.finished = th.finished
        /\ th'.pc = l /\ th'.item = i /\ th'.stopping = b
    BY <2>1, <2>2, ThreadTypes DEF IInv, ThreadSet
  <2> QED BY <2>3 DEF l, i, b
<1>5. /\ "admit" \in Admitting /\ "admit" \notin Ending /\ "admit" # "recheck" /\ "failactive" \in Ending
      /\ "fill" \notin Ending /\ "fill" \notin Admitting /\ "controls1" \notin Ending /\ "controls1" \notin Admitting
      /\ "failactive" \notin Admitting
  BY DEF Admitting, Ending
<1>6. TypeOK'
  BY <1>1, <1>3, <1>4 DEF IInv, TypeOK, ThreadSet
<1>7. /\ \A q : ~AtItem(q)
      /\ \A q \in Requests : AtItem(q)' <=> q = e
      /\ \A q : (IsActive(q)' <=> IsActive(q)) /\ (Stranded(q)' <=> Stranded(q)) /\ (Gone(q)' <=> Gone(q))
  BY <1>1, <1>4, <1>5 DEF AtItem, IsActive, Stranded, Gone
<1>8. Stages'
  <2> SUFFICES ASSUME NEW q \in Requests PROVE Shape(hd'[q]) /\ Place(q)'
    BY DEF Stages
  <2>1. Shape(hd[q]) /\ Place(q) /\ hd'[q] = hd[q]
    BY <1>1 DEF IInv, Stages
  <2>2. CASE q # e
    BY <1>1, <1>3, <1>7, <2>1, <2>2, PlaceKept
  <2>3. CASE q = e
    <3>1. hd[q].client = "submitted" /\ Untouched(hd[q]) /\ hd[q].seq = NoRequest
      BY <1>3, <2>1, <2>3 DEF Place
    <3>2. ~IsActive(q)
      BY <3>1, NotAdmitted DEF IInv
    <3>3. th'.pc = "admit"
      BY <1>4, <2>3
    <3> QED BY <1>3, <1>5, <1>7, <2>1, <2>3, <3>1, <3>2, <3>3 DEF Place
  <2> QED BY <2>2, <2>3
<1>9. Queues'
  <2>1. Stop \in ToSet(pending) \/ th.stopping => closing
    BY DEF IInv, Queues
  <2>2. /\ th'.pc \notin {"drain", "draincontrols", "drainaborts", "dead"}
        /\ (th'.pc \in Ending \ {"except"} => closing')
        /\ (th'.pc \notin Ending \ {"except", "failactive"})
        /\ (th'.pc \in Admitting => th'.item \in Requests)
        /\ (Stop \in ToSet(pending)' \/ th'.stopping => closing')
    BY <1>1, <1>3, <1>4, <1>5, <2>1 DEF Ending, Admitting
  <2> QED BY <1>1, <1>3, <2>2 DEF IInv, Queues
<1>10. Cancels'
  BY <1>1, <1>7, CancelsKept
<1>11. TurnsLinked'
  BY <1>1, TurnsKept DEF IInv
<1>12. Chains'
  BY <1>1, ChainsKept DEF IInv, SameSeqs, Shrinks, Drops
<1>13. Tracks'
  <2>1. latest = active /\ \A q \in Requests : IsActive(q) => q \in eng.live
    BY <1>1 DEF IInv, Tracks
  <2>2. th'.pc # "except" /\ th'.pc \notin {"publish", "finish"}
    BY <1>4
  <2>3. faults' = 0 => Faultless'
    BY <1>1, <1>7, <2>2 DEF IInv, Tracks, Faultless
  <2>4. \A q \in Requests : ~Stranded(q)'
    BY <1>1, <1>7, NoneStranded DEF IInv
  <2> QED BY <1>1, <1>7, <2>1, <2>2, <2>3, <2>4 DEF Tracks
<1> QED BY <1>6, <1>8, <1>9, <1>10, <1>11, <1>12, <1>13 DEF IInv

\* The request inside _admit is nowhere else.
LEMMA AdmittingFacts ==
  ASSUME IInv, th.pc \in Admitting
  PROVE  /\ th.item \in Requests /\ AtItem(th.item) /\ Shape(hd[th.item]) /\ hd[th.item] \in Handle
         /\ hd[th.item].client = "submitted" /\ Untouched(hd[th.item])
         /\ ~IsActive(th.item) /\ ~Queued(th.item) /\ \A q : q # th.item => ~AtItem(q)
         /\ (hd[th.item].seq # NoRequest) <=> (th.pc = "recheck")
         /\ th.pc = "recheck" => th.item \in eng.live
         /\ th.pc \notin Ending /\ th.pc # "except" /\ th.pc \notin {"publish", "finish"} /\ latest = active
<1>1. th.item \in Requests
  BY DEF IInv, Queues
<1>2. AtItem(th.item) /\ \A q : q # th.item => ~AtItem(q)
  BY DEF AtItem
<1>3. Shape(hd[th.item]) /\ Place(th.item) /\ hd[th.item] \in Handle
  BY <1>1, HandleTypes DEF IInv, Stages
<1>4. th.pc \notin Ending /\ th.pc # "except" /\ th.pc \notin {"publish", "finish"}
  BY DEF Admitting, Ending
<1>5. latest = active
  BY <1>4 DEF IInv, Tracks
<1> QED BY <1>1, <1>2, <1>3, <1>4, <1>5 DEF Place, Untouched

LEMMA AdmitStartsKeeps == ASSUME IInv, AdmitStarts PROVE IInv'
<1>1. /\ th.pc = "admit" /\ "admit" \in Admitting /\ "engine" \in Admitting /\ "engine" \notin Ending
      /\ "engine" \in ThreadAt /\ th' = [th EXCEPT !.pc = "engine"]
      /\ UNCHANGED <<hd, pending, aborts, controls, calls, loop, closing, failed, active, latest, eng, faults>>
  BY DEF AdmitStarts, At, Goto, Admitting, Ending, ThreadAt, queues, flags, maps
<1>2. th' \in ThreadSet /\ th'.pc = "engine" /\ th'.item = th.item /\ th'.stopping = th.stopping
      /\ th'.tokens = th.tokens /\ th'.finished = th.finished
  BY <1>1, GotoFields DEF IInv
<1>3. /\ \A q : (AtItem(q)' <=> AtItem(q)) /\ (IsActive(q)' <=> IsActive(q)) /\ (Stranded(q)' <=> Stranded(q))
      /\ \A q : (Gone(q)' <=> Gone(q)) /\ (Queued(q)' <=> Queued(q))
  BY <1>1, <1>2 DEF AtItem, IsActive, Stranded, Gone, Queued
<1>4. th.item \in Requests /\ latest = active /\ th.pc \notin Ending
  BY <1>1, AdmittingFacts
<1>5. TypeOK'
  BY <1>1, <1>2 DEF IInv, TypeOK, ThreadSet
<1>6. Stages'
  <2> SUFFICES ASSUME NEW q \in Requests PROVE Shape(hd'[q]) /\ Place(q)'
    BY DEF Stages
  <2>1. Shape(hd[q]) /\ Place(q) /\ hd'[q] = hd[q]
    BY <1>1 DEF IInv, Stages
  <2> QED BY <1>1, <1>2, <1>3, <2>1 DEF Place
<1>7. Queues'
  BY <1>1, <1>2, <1>4 DEF IInv, Queues, Queued, Ending
<1>8. Cancels'
  BY <1>1, <1>3, CancelsKept
<1>9. TurnsLinked'
  BY <1>1, TurnsKept DEF IInv
<1>10. Chains'
  BY <1>1, ChainsKept DEF IInv, SameSeqs, Shrinks, Drops
<1>11. Tracks'
  <2>1. \A q \in Requests : IsActive(q) => q \in eng.live
    BY <1>1, <1>4 DEF IInv, Tracks
  <2>2. faults' = 0 => Faultless'
    BY <1>1, <1>2, <1>3 DEF IInv, Tracks, Faultless
  <2> QED BY <1>1, <1>2, <1>3, <1>4, <2>1, <2>2 DEF Tracks
<1> QED BY <1>5, <1>6, <1>7, <1>8, <1>9, <1>10, <1>11 DEF IInv

\* _admit ends with a request that was not admitted.
LEMMA AdmitFails ==
  ASSUME IInv, th.pc \in Admitting, NEW r \in Requests, r = th.item, NEW h \in Handle, hd' = [hd EXCEPT ![r] = h],
         h.client = hd[r].client, h.cancelled = hd[r].cancelled, h.seq = hd[r].seq, h.discard = hd[r].discard,
         h.admission = "error", Settled(h), OneEnding(h.out), Admitted,
         UNCHANGED <<queues, calls, loop, flags, active, latest>>,
         eng' \in EngineSet, Shrinks, eng.live \ {r} \subseteq eng'.live,
         faults' \in 0..MaxFaults, faults' = 0 => Faultless'
  PROVE  IInv'
<1>1. /\ UNCHANGED <<pending, aborts, controls, calls, loop, closing, failed, active, latest>>
      /\ "fill" \in ThreadAt /\ "fill" \notin Admitting /\ "fill" \notin Ending
      /\ th' = [th EXCEPT !.pc = "fill", !.item = NoRequest]
  BY DEF queues, flags, ThreadAt, Admitting, Ending, Admitted
<1>2. /\ th' \in ThreadSet /\ th'.pc = "fill" /\ th'.stopping = th.stopping
      /\ th'.tokens = th.tokens /\ th'.finished = th.finished
  BY <1>1, ThreadTypes DEF IInv, ThreadSet
<1>3. /\ Shape(hd[r]) /\ hd[r].client = "submitted" /\ Untouched(hd[r])
      /\ ~IsActive(r) /\ ~Queued(r) /\ (\A q : q # r => ~AtItem(q))
      /\ th.pc \notin Ending /\ th.pc # "except" /\ th.pc \notin {"publish", "finish"} /\ latest = active
  BY AdmittingFacts
<1>4. hd' \in [Requests -> Handle] /\ hd'[r] = h /\ Only(r)
  BY Replaced DEF IInv
<1>5. SameSeqs
  BY <1>4 DEF SameSeqs, Only
<1>6. TypeOK'
  <2>1. \A q \in Requests : eng'.made[q] <= MaxTokens[q]
    BY EngineTypes DEF Shrinks, IInv
  <2> QED BY <1>1, <1>2, <1>4, <2>1 DEF IInv, TypeOK, EngineSet, ThreadSet
<1>7. /\ \A q : (IsActive(q)' <=> IsActive(q)) /\ ~AtItem(q)' /\ (Queued(q)' <=> Queued(q))
      /\ \A q \in Requests : Stranded(q)' <=> Stranded(q)
  BY <1>1, <1>2, <1>5 DEF IsActive, AtItem, Queued, Stranded, SameSeqs
<1>8. Stages'
  <2> SUFFICES ASSUME NEW q \in Requests PROVE Shape(hd'[q]) /\ Place(q)'
    BY DEF Stages
  <2>1. CASE q = r
    <3>1. Shape(h)
      BY <1>3 DEF Shape
    <3> QED BY <1>3, <1>4, <1>7, <2>1, <3>1 DEF Place
  <2>2. CASE q # r
    <3>1. Shape(hd[q]) /\ Place(q) /\ hd'[q] = hd[q]
      BY <1>4, <2>2 DEF IInv, Stages, Only
    <3> QED BY <1>3, <1>7, <2>2, <3>1, PlaceKept
  <2> QED BY <2>1, <2>2
<1>9. Queues'
  BY <1>1, <1>2, QueuesMove
<1>10. Cancels'
  BY <1>1, <1>3, <1>4, <1>7, CancelsWritten
<1>11. TurnsLinked'
  BY <1>3, <1>4, TurnsKept DEF IInv, Only, Untouched
<1>12. Chains'
  BY <1>1, <1>5, ChainsKept DEF IInv, Drops
<1>13. Tracks'
  <2>1. \A q \in Requests : IsActive(q) => q \in eng.live
    BY <1>3 DEF IInv, Tracks
  <2> QED BY <1>1, <1>2, <1>3, <1>7, <2>1 DEF Tracks
<1> QED BY <1>6, <1>8, <1>9, <1>10, <1>11, <1>12, <1>13 DEF IInv

\* The same, for a request that never reached the engine.
LEMMA AdmitFailsEarly ==
  ASSUME IInv, th.pc \in {"admit", "engine"}, NEW r \in Requests, r = th.item, NEW h \in Handle, hd' = [hd EXCEPT ![r] = h],
         h.client = hd[r].client, h.cancelled = hd[r].cancelled, h.seq = hd[r].seq, h.discard = hd[r].discard,
         h.admission = "error", Settled(h), OneEnding(h.out), Admitted,
         UNCHANGED <<queues, calls, loop, flags, active, latest, eng, faults>>
  PROVE  IInv'
<1>1. th.pc \in Admitting /\ th.pc # "recheck" /\ "fill" \notin Admitting
  BY DEF Admitting
<1>2. hd[r].seq = NoRequest /\ \A q : q # r => ~AtItem(q)
  BY <1>1, AdmittingFacts
<1>3. Gone(r) /\ ~IsActive(r)
  BY <1>2, NotAdmitted DEF IInv
<1>4. eng \in EngineSet /\ Shrinks /\ eng.live \ {r} \subseteq eng'.live /\ eng.live \subseteq Requests
  BY EngineTypes DEF IInv, Shrinks
<1>5. hd'[r] = h /\ Only(r)
  BY Replaced DEF IInv
<1>6. th'.pc = "fill"
  BY ThreadTypes DEF IInv, Admitted, ThreadSet
<1>7. faults' = 0 => Faultless'
  <2>1. \A q : ~AtItem(q)' /\ (IsActive(q)' <=> IsActive(q)) /\ (Gone(q)' <=> Gone(q))
    BY <1>1, <1>6 DEF AtItem, IsActive, Gone
  <2>2. \A q \in Requests : hd'[q].discard = hd[q].discard
    BY <1>5 DEF Only
  <2>3. r \notin eng.live
    BY <1>3 DEF Gone
  <2>4. faults = 0 => Faultless
    BY DEF IInv, Tracks
  <2>5. faults = 0 => \A q \in eng.live : IsActive(q)
    BY <1>2, <2>3, <2>4 DEF Faultless
  <2>6. faults = 0 => \A q \in Requests : hd[q].discard = "ok" => Gone(q)
    BY <1>2, <1>3, <2>4 DEF Faultless
  <2> QED BY <1>6, <2>1, <2>2, <2>4, <2>5, <2>6 DEF Faultless
<1>8. faults \in 0..MaxFaults
  BY DEF IInv, TypeOK
<1> QED BY <1>1, <1>4, <1>7, <1>8, AdmitFails

\* Two fields of one handle.
LEMMA RefusedTwice ==
  ASSUME TypeOK, NEW r \in Requests
  PROVE  [hd EXCEPT ![r].terminal = TRUE, ![r].admission = "error"]
         = [hd EXCEPT ![r] = [hd[r] EXCEPT !.terminal = TRUE, !.admission = "error"]]
BY DEF TypeOK, Handle

LEMMA AdmitRefusesKeeps == ASSUME IInv, AdmitRefuses PROVE IInv'
<1>1. th.pc = "admit" /\ "admit" \in Admitting /\ Admitted /\ UNCHANGED <<queues, calls, loop, flags, active, latest, eng, faults>>
  BY DEF AdmitRefuses, At, Admitting, maps
<1>2. PICK r \in Requests : r = th.item
  BY <1>1, AdmittingFacts
<1>3. hd[r] \in Handle /\ Untouched(hd[r])
  BY <1>1, <1>2, AdmittingFacts
<1>4. CASE hd[r].cancelled
  <2> DEFINE h == [hd[r] EXCEPT !.terminal = TRUE, !.admission = "error"]
  <2>1. hd' = [hd EXCEPT ![r] = h]
    <3>1. hd' = [hd EXCEPT ![r].terminal = TRUE, ![r].admission = "error"]
      BY <1>2, <1>4 DEF AdmitRefuses
    <3> QED BY <3>1, RefusedTwice DEF IInv
  <2>2. /\ h \in Handle /\ h.client = hd[r].client /\ h.cancelled = hd[r].cancelled /\ h.terminal = TRUE
        /\ h.seq = hd[r].seq /\ h.discard = hd[r].discard /\ h.admission = "error" /\ h.out = hd[r].out
    BY <1>3 DEF Handle
  <2>3. Settled(h) /\ OneEnding(h.out)
    BY <1>3, <1>4, <2>2, OutEmpty DEF Settled, Untouched
  <2> QED BY <1>1, <1>2, <2>1, <2>2, <2>3, AdmitFailsEarly
<1>5. CASE ~hd[r].cancelled
  <2> DEFINE h == [Ended(hd[r], "error") EXCEPT !.admission = "error"]
  <2>1. hd' = [hd EXCEPT ![r] = h]
    BY <1>2, <1>5 DEF AdmitRefuses
  <2>2. /\ h \in Handle /\ h.client = hd[r].client /\ h.cancelled = hd[r].cancelled
        /\ h.seq = hd[r].seq /\ h.discard = hd[r].discard /\ h.admission = "error" /\ OneEnding(h.out) /\ Settled(h)
    BY <1>3, FailedFields
  <2> QED BY <1>1, <1>2, <2>1, <2>2, AdmitFailsEarly
<1> QED BY <1>4, <1>5

\* The engine gives the request the sequence id of the chain it resumes, whose
\* newest turn it now is, or a new one.
LEMMA AdmitsChains ==
  ASSUME IInv, NEW r \in Requests, r = th.item, th.pc = "engine", Admissible(r),
         NEW s, s = AdmittedSeq(r), hd' = [hd EXCEPT ![r].seq = s],
         eng' = [eng EXCEPT !.live = @ \cup {r}, !.kept[s] = NoRequest], UNCHANGED <<active, latest>>
  PROVE  /\ s \in Requests /\ hd' \in [Requests -> Handle] /\ Only(r)
         /\ hd'[r].seq = s /\ hd'[r].client = hd[r].client /\ hd'[r].cancelled = hd[r].cancelled
         /\ hd'[r].terminal = hd[r].terminal /\ hd'[r].admission = hd[r].admission
         /\ hd'[r].out = hd[r].out /\ hd'[r].discard = hd[r].discard
         /\ eng' \in EngineSet /\ eng'.live = eng.live \cup {r} /\ eng'.made = eng.made /\ eng'.owed = eng.owed
         /\ \A x \in Requests : eng'.kept[x] \in {eng.kept[x], NoRequest}
         /\ Chains'
<1>1. /\ NoRequest \notin Requests /\ Previous \in [Requests -> Requests \cup {NoRequest}]
      /\ MaxTokens \in [Requests -> Nat \ {0}]
  BY DispatcherAssumption
<1>2. th.pc \in Admitting /\ th.pc # "recheck"
  BY DEF Admitting
<1>3. /\ Shape(hd[r]) /\ hd[r] \in Handle /\ hd[r].client = "submitted" /\ Untouched(hd[r])
      /\ hd[r].seq = NoRequest /\ th.pc \notin Ending /\ th.pc \notin {"publish", "finish"}
  BY <1>2, AdmittingFacts
<1>4. Gone(r) /\ ~IsActive(r)
  BY <1>3, NotAdmitted DEF IInv
<1>5. /\ eng \in EngineSet /\ eng.live \subseteq Requests /\ eng.kept \in [Requests -> Requests \cup {NoRequest}]
      /\ active \in [Requests -> Requests \cup {NoRequest}]
  BY EngineTypes DEF IInv
<1>6. \A x \in Requests : hd[x].seq \in Requests \cup {NoRequest}
  BY HandleTypes DEF IInv
<1>7. /\ SeqsSound /\ LiveSound /\ (\A x \in Requests : KeptSound(x) /\ ActiveSound(x))
  BY DEF IInv, Chains
<1>8. \/ Previous[r] = NoRequest /\ s = r
      \/ /\ Previous[r] \in Requests /\ Previous[r] # r /\ s \in Requests /\ hd[Previous[r]].seq = s
         /\ Tip(Previous[r]) /\ Previous[r] \notin eng.live /\ eng.kept[s] = Previous[r]
  <2>1. CASE Previous[r] = NoRequest
    BY <2>1 DEF AdmittedSeq, Resumes
  <2>2. CASE Previous[r] # NoRequest
    <3>1. PICK p \in Requests : p = Previous[r]
      BY <1>1, <2>2
    <3>2. hd[p].admission = "ok" /\ Shape(hd[p])
      BY <1>3, <2>2, <3>1 DEF IInv, TurnsLinked, Linked, Stages
    <3>3. hd[p].seq \in Requests /\ p # r
      BY <1>3, <1>6, <3>2 DEF Shape, Untouched
    <3>4. eng.kept[hd[p].seq] = p /\ s = hd[p].seq
      BY <2>2, <3>1 DEF Admissible, Resumes, AdmittedSeq
    <3>5. KeptSound(s)
      BY <1>7, <3>3, <3>4
    <3> QED BY <1>1, <3>1, <3>3, <3>4, <3>5 DEF KeptSound
  <2> QED BY <2>1, <2>2
<1>9. s \in Requests
  BY <1>8
<1>10. PICK h \in Handle : /\ hd' = [hd EXCEPT ![r] = h] /\ h.seq = s /\ h.client = hd[r].client
                           /\ h.cancelled = hd[r].cancelled
                           /\ h.terminal = hd[r].terminal /\ h.admission = hd[r].admission
                           /\ h.out = hd[r].out /\ h.discard = hd[r].discard
  <2> DEFINE h == [hd[r] EXCEPT !.seq = s]
  <2>1. hd' = [hd EXCEPT ![r] = h]
    OBVIOUS
  <2>2. h \in Handle /\ h.seq = s /\ h.client = hd[r].client /\ h.cancelled = hd[r].cancelled
        /\ h.terminal = hd[r].terminal /\ h.admission = hd[r].admission
        /\ h.out = hd[r].out /\ h.discard = hd[r].discard
    BY <1>3, <1>9 DEF Handle
  <2> HIDE DEF h
  <2> QED BY <2>1, <2>2
<1>11. hd' \in [Requests -> Handle] /\ hd'[r] = h /\ Only(r)
  BY <1>10, Replaced DEF IInv
<1>12. /\ eng' \in EngineSet /\ eng'.live = eng.live \cup {r} /\ eng'.made = eng.made /\ eng'.owed = eng.owed
       /\ eng'.kept[s] = NoRequest /\ \A x \in Requests : x # s => eng'.kept[x] = eng.kept[x]
  BY <1>5, <1>9 DEF EngineSet
<1>13. ASSUME NEW q \in Requests, Previous[q] = r PROVE q # r /\ hd[q].seq = NoRequest
  <2>1. q # r
    BY <1>1, <1>8, <1>13
  <2>2. Linked(q) /\ Shape(hd[q])
    BY DEF IInv, TurnsLinked, Stages
  <2>3. hd[q].client = "new"
    BY <1>1, <1>3, <1>13, <2>2 DEF Linked, Untouched
  <2> QED BY <2>1, <2>2, <2>3 DEF Shape
<1>14. \A x \in Requests : x # r => hd'[x].seq = hd[x].seq
  BY <1>11 DEF Only
<1>15. hd'[r].seq = s /\ Tip(r)'
  BY <1>1, <1>9, <1>10, <1>11, <1>13, <1>14 DEF Tip, Continued
<1>16. ASSUME NEW x \in Requests, x # r PROVE Tip(x)' <=> Tip(x) /\ x # Previous[r]
  <2>1. Continued(x)' <=> Continued(x) \/ x = Previous[r]
    BY <1>1, <1>3, <1>9, <1>14, <1>15 DEF Continued
  <2> QED BY <1>14, <1>16, <2>1 DEF Tip
<1>17. ASSUME NEW x \in Requests, hd[x].seq # NoRequest PROVE x # r /\ hd[x].seq # r
  BY <1>1, <1>3, <1>6, <1>7, <1>17 DEF SeqsSound
<1>18. ASSUME NEW x \in Requests, x # r, Tip(x)', hd[x].seq = s PROVE FALSE
  <2>1. Tip(x) /\ x # Previous[r]
    BY <1>16, <1>18
  <2>2. CASE Previous[r] = NoRequest /\ s = r
    BY <1>17, <1>18, <2>1, <2>2 DEF Tip
  <2>3. CASE /\ Previous[r] \in Requests /\ hd[Previous[r]].seq = s /\ Tip(Previous[r])
    BY <1>7, <1>18, <2>1, <2>3 DEF SeqsSound
  <2> QED BY <1>8, <2>2, <2>3
<1>19. SeqsSound'
  <2>1. ASSUME NEW x \in Requests, hd'[x].seq # NoRequest PROVE hd'[hd'[x].seq].seq = hd'[x].seq
    <3>1. CASE x # r
      <4>1. hd[x].seq \in Requests /\ hd[x].seq # r /\ hd'[x].seq = hd[x].seq /\ hd[hd[x].seq].seq = hd[x].seq
        BY <1>6, <1>7, <1>14, <1>17, <2>1, <3>1 DEF SeqsSound
      <4> QED BY <1>14, <4>1
    <3>2. CASE x = r
      <4>1. CASE s = r
        BY <1>15, <3>2, <4>1
      <4>2. CASE s # r
        <5>1. hd[s].seq = s
          BY <1>1, <1>7, <1>8, <4>2 DEF SeqsSound
        <5> QED BY <1>9, <1>14, <1>15, <3>2, <4>2, <5>1
      <4> QED BY <4>1, <4>2
    <3> QED BY <3>1, <3>2
  <2>2. ASSUME NEW x \in Requests, NEW q \in Requests, Tip(x)', Tip(q)', hd'[x].seq = hd'[q].seq PROVE x = q
    <3>1. CASE x # r /\ q # r
      BY <1>7, <1>14, <1>16, <2>2, <3>1 DEF SeqsSound
    <3>2. CASE x = r \/ q = r
      BY <1>14, <1>15, <1>18, <2>2, <3>2
    <3> QED BY <3>1, <3>2
  <2> QED BY <2>1, <2>2 DEF SeqsSound
<1>20. \A x \in eng.live : x # Previous[r] /\ x # r
  BY <1>1, <1>4, <1>5, <1>8 DEF Gone
<1>21. LiveSound'
  <2>1. ASSUME NEW x \in eng'.live PROVE Tip(x)' /\ eng'.made[x] < MaxTokens[x]
    <3>1. CASE x = r
      <4>1. eng.made[r] = 0 /\ MaxTokens[r] \in Nat \ {0}
        BY <1>1, <1>3, <1>7 DEF LiveSound
      <4> QED BY <1>12, <1>15, <3>1, <4>1
    <3>2. CASE x # r
      BY <1>5, <1>7, <1>12, <1>16, <1>20, <3>2 DEF LiveSound
    <3> QED BY <3>1, <3>2
  <2>2. ASSUME NEW x \in Requests, hd'[x].seq = NoRequest PROVE eng'.made[x] = 0
    BY <1>1, <1>7, <1>9, <1>12, <1>14, <1>15, <2>2 DEF LiveSound
  <2> QED BY <2>1, <2>2 DEF LiveSound
<1>22. ASSUME NEW x \in Requests PROVE KeptSound(x)' /\ ActiveSound(x)'
  <2>1. KeptSound(x) /\ ActiveSound(x) /\ eng.kept[x] \in Requests \cup {NoRequest}
        /\ active[x] \in Requests \cup {NoRequest}
    BY <1>5, <1>7
  <2>2. KeptSound(x)'
    <3>1. CASE x = s
      BY <1>12, <3>1 DEF KeptSound
    <3>2. CASE x # s /\ eng.kept[x] # NoRequest
      <4>1. PICK k \in Requests : k = eng.kept[x]
        BY <2>1, <3>2
      <4>2. hd[k].seq = x /\ Tip(k) /\ k \notin eng.live
        BY <2>1, <3>2, <4>1 DEF KeptSound
      <4>3. k # r /\ k # Previous[r]
        BY <1>1, <1>3, <1>8, <3>2, <4>2
      <4>4. hd'[k].seq = x /\ Tip(k)' /\ k \notin eng'.live /\ eng'.kept[x] = k
        BY <1>12, <1>14, <1>16, <3>2, <4>1, <4>2, <4>3
      <4> QED BY <4>4 DEF KeptSound
    <3>3. CASE x # s /\ eng.kept[x] = NoRequest
      BY <1>12, <3>3 DEF KeptSound
    <3> QED BY <3>1, <3>2, <3>3
  <2>3. ActiveSound(x)'
    <3>1. CASE active[x] # NoRequest
      <4>1. PICK k \in Requests : k = active[x]
        BY <2>1, <3>1
      <4>2. hd[k].seq = x /\ Tip(k) /\ latest[x] = k
        BY <2>1, <3>1, <4>1 DEF ActiveSound
      <4>3. IsActive(k) /\ k \in eng.live
        BY <1>2, <1>3, <4>1 DEF IsActive, IInv, Tracks
      <4>4. hd'[k].seq = x /\ Tip(k)'
        BY <1>14, <1>16, <1>20, <4>2, <4>3
      <4> QED BY <4>1, <4>2, <4>4 DEF ActiveSound
    <3>2. CASE active[x] = NoRequest
      BY <3>2 DEF ActiveSound
    <3> QED BY <3>1, <3>2
  <2> QED BY <2>2, <2>3
<1>23. Chains'
  BY <1>19, <1>21, <1>22 DEF Chains
<1>24. \A x \in Requests : eng'.kept[x] \in {eng.kept[x], NoRequest}
  BY <1>12
<1> QED BY <1>9, <1>10, <1>11, <1>12, <1>23, <1>24

LEMMA EngineAdmitsKeeps == ASSUME IInv, EngineAdmits PROVE IInv'
<1>1. th.pc = "engine" /\ "engine" \in Admitting /\ UNCHANGED <<queues, calls, loop, flags, active, latest, faults>>
      /\ UNCHANGED <<pending, aborts, controls, calls, loop, closing, failed, active, latest, faults>>
  BY DEF EngineAdmits, At, Admitting, maps, queues, flags
<1>2. PICK r \in Requests : r = th.item
  BY <1>1, AdmittingFacts
<1>3. /\ Shape(hd[r]) /\ hd[r] \in Handle /\ hd[r].client = "submitted" /\ Untouched(hd[r]) /\ AtItem(r)
      /\ ~IsActive(r) /\ ~Queued(r) /\ (\A q : q # r => ~AtItem(q)) /\ hd[r].seq = NoRequest
      /\ th.pc \notin Ending /\ th.pc # "except" /\ th.pc \notin {"publish", "finish"} /\ latest = active
  BY <1>1, <1>2, AdmittingFacts
<1>4. CASE /\ hd' = [hd EXCEPT ![r] = [Ended(@, "error") EXCEPT !.admission = "error"]]
           /\ Admitted /\ UNCHANGED eng
  <2> DEFINE h == [Ended(hd[r], "error") EXCEPT !.admission = "error"]
  <2>1. hd' = [hd EXCEPT ![r] = h]
    BY <1>4
  <2>2. /\ h \in Handle /\ h.client = hd[r].client /\ h.cancelled = hd[r].cancelled
        /\ h.seq = hd[r].seq /\ h.discard = hd[r].discard /\ h.admission = "error" /\ OneEnding(h.out) /\ Settled(h)
    BY <1>3, FailedFields
  <2> QED BY <1>1, <1>2, <1>4, <2>1, <2>2, AdmitFailsEarly
<1>5. ASSUME NEW s, s = AdmittedSeq(r), Admissible(r), hd' = [hd EXCEPT ![r].seq = s],
             eng' = [eng EXCEPT !.live = @ \cup {r}, !.kept[s] = NoRequest], Goto("recheck")
      PROVE  IInv'
  <2>1. /\ s \in Requests /\ hd' \in [Requests -> Handle] /\ Only(r)
        /\ hd'[r].seq = s /\ hd'[r].client = hd[r].client /\ hd'[r].cancelled = hd[r].cancelled
        /\ hd'[r].terminal = hd[r].terminal /\ hd'[r].admission = hd[r].admission
        /\ hd'[r].out = hd[r].out /\ hd'[r].discard = hd[r].discard
        /\ eng' \in EngineSet /\ eng'.live = eng.live \cup {r} /\ eng'.made = eng.made /\ eng'.owed = eng.owed
        /\ \A x \in Requests : eng'.kept[x] \in {eng.kept[x], NoRequest}
        /\ Chains'
    BY <1>1, <1>2, <1>5, AdmitsChains, ZenonT(30)
  <2>2. /\ "recheck" \in ThreadAt /\ "recheck" \in Admitting /\ "recheck" \notin Ending
        /\ "recheck" \notin {"publish", "finish", "except"}
    BY DEF ThreadAt, Admitting, Ending
  <2>3. /\ th' \in ThreadSet /\ th'.pc = "recheck" /\ th'.item = th.item /\ th'.stopping = th.stopping
        /\ th'.tokens = th.tokens /\ th'.finished = th.finished
    BY <1>5, <2>2, GotoFields DEF IInv, Goto
  <2>4. TypeOK'
    <3>1. \A q \in Requests : eng'.made[q] <= MaxTokens[q]
      BY <2>1, EngineTypes DEF IInv
    <3> QED BY <1>1, <2>1, <2>3, <3>1 DEF IInv, TypeOK, EngineSet, ThreadSet
  <2>5. \A q : (IsActive(q)' <=> IsActive(q)) /\ (AtItem(q)' <=> q = r) /\ (AtItem(q) <=> q = r) /\ (Queued(q)' <=> Queued(q))
    BY <1>1, <1>2, <2>2, <2>3 DEF IsActive, AtItem, Queued
  <2>6. NoRequest \notin Requests
    BY DispatcherAssumption
  <2>7. Stages'
    <3> SUFFICES ASSUME NEW q \in Requests PROVE Shape(hd'[q]) /\ Place(q)'
      BY DEF Stages
    <3>1. CASE q = r
      <4>1. Shape(hd'[r])
        BY <1>3, <2>1, <2>6 DEF Shape
      <4>2. Untouched(hd'[r])
        BY <1>3, <2>1 DEF Untouched
      <4> QED BY <1>3, <2>1, <2>3, <2>5, <2>6, <3>1, <4>1, <4>2 DEF Place
    <3>2. CASE q # r
      <4>1. Shape(hd[q]) /\ Place(q) /\ hd'[q] = hd[q]
        BY <2>1, <3>2 DEF IInv, Stages, Only
      <4>2. ~Stranded(q)
        BY <1>3, NoneStranded DEF IInv
      <4> QED BY <2>5, <3>2, <4>1, <4>2, PlaceKept
    <3> QED BY <3>1, <3>2
  <2>8. Queues'
    BY <1>1, <1>2, <2>2, <2>3 DEF IInv, Queues, Queued, Ending
  <2>9. Cancels'
    BY <1>1, <1>3, <2>1, <2>5, CancelsWritten
  <2>10. TurnsLinked'
    BY <2>1, TurnsKept DEF IInv, Only
  <2>11. Tracks'
    <3>1. \A q \in Requests : IsActive(q) => q \in eng.live
      BY <1>3 DEF IInv, Tracks
    <3>2. \A q \in Requests : hd'[q].discard = hd[q].discard
      BY <2>1 DEF Only
    <3>3. faults' = 0 => Faultless'
      <4>1. faults = 0 => Faultless
        BY DEF IInv, Tracks
      <4>2. \A q \in Requests : q # r /\ Gone(q) => Gone(q)'
        BY <2>1, <2>6 DEF Gone
      <4> QED BY <1>1, <2>1, <2>2, <2>3, <2>5, <3>2, <4>1, <4>2 DEF Faultless
    <3> QED BY <1>1, <1>3, <2>1, <2>2, <2>3, <2>5, <3>1, <3>3 DEF Tracks
  <2> QED BY <2>1, <2>4, <2>7, <2>8, <2>9, <2>10, <2>11 DEF IInv
<1> QED BY <1>2, <1>4, <1>5 DEF EngineAdmits

LEMMA AdmitEndsKeeps == ASSUME IInv, AdmitEnds PROVE IInv'
<1>1. th.pc = "recheck" /\ "recheck" \in Admitting /\ UNCHANGED <<queues, calls, loop, flags>>
      /\ UNCHANGED <<pending, aborts, controls, calls, loop, closing, failed>>
  BY DEF AdmitEnds, At, Admitting, queues, flags
<1>2. PICK r \in Requests : r = th.item
  BY <1>1, AdmittingFacts
<1>3. /\ Shape(hd[r]) /\ hd[r] \in Handle /\ hd[r].client = "submitted" /\ Untouched(hd[r]) /\ AtItem(r)
      /\ ~IsActive(r) /\ ~Queued(r) /\ (\A q : q # r => ~AtItem(q)) /\ hd[r].seq # NoRequest /\ r \in eng.live
      /\ th.pc \notin Ending /\ th.pc # "except" /\ th.pc \notin {"publish", "finish"} /\ latest = active
  BY <1>1, <1>2, AdmittingFacts
<1>4. PICK s \in Requests : s = hd[r].seq
  BY <1>3, HandleTypes DEF IInv
<1>5. Tip(r) /\ NoRequest \notin Requests /\ active \in [Requests -> Requests \cup {NoRequest}]
  BY <1>3, DispatcherAssumption, EngineTypes DEF IInv, Chains, LiveSound
<1>6. active[s] = NoRequest
  <2>1. ASSUME active[s] # NoRequest PROVE FALSE
    <3>1. active[s] \in Requests /\ hd[active[s]].seq = s /\ Tip(active[s]) /\ IsActive(active[s])
      BY <2>1, ActiveFacts
    <3>2. active[s] = r
      BY <1>4, <1>5, <3>1 DEF IInv, Chains, SeqsSound
    <3> QED BY <1>3, <3>1, <3>2
  <2> QED BY <2>1
<1>7. Forget(s, r) = latest
  BY <1>3, <1>5, <1>6 DEF Forget
<1>8. ASSUME NEW h \in Handle, hd' = [hd EXCEPT ![r] = h],
             h.client = hd[r].client, h.cancelled = hd[r].cancelled, h.seq = hd[r].seq, h.discard = hd[r].discard,
             h.admission = "error", Settled(h), OneEnding(h.out), Admitted,
             UNCHANGED <<active, latest>>,
             \/ eng' = Aborted(s) /\ Survives
             \/ eng' \in AbortRaised(s) /\ Raises
      PROVE  IInv'
  <2>1. eng' \in EngineSet /\ Shrinks /\ eng'.live \in {eng.live, eng.live \ Holder(s)} /\ Holder(s) \subseteq {r}
    BY <1>4, <1>5, <1>8, AbortKinds, HolderIsTip DEF IInv
  <2>2. eng.live \ {r} \subseteq eng'.live
    BY <2>1
  <2>3. faults' \in 0..MaxFaults /\ (faults' = 0 => faults = 0 /\ eng' = Aborted(s))
    BY <1>8, DispatcherAssumption DEF IInv, TypeOK, Survives, Raises
  <2>4. hd'[r] = h /\ Only(r)
    BY <1>8, Replaced DEF IInv
  <2>5. th'.pc = "fill" /\ "fill" \notin Admitting
    BY <1>8, ThreadTypes DEF IInv, Admitted, ThreadSet, Admitting
  <2>6. \A q : (IsActive(q)' <=> IsActive(q)) /\ ~AtItem(q)'
    BY <1>8, <2>5 DEF IsActive, AtItem
  <2>7. \A q \in Requests : hd'[q].discard = hd[q].discard
    BY <1>8, <2>4 DEF Only
  <2>8. faults' = 0 => Faultless'
    BY <1>3, <1>4, <2>3, <2>5, <2>6, <2>7, FaultlessAbort DEF IInv, Tracks
  <2> QED BY <1>1, <1>2, <1>8, <2>1, <2>2, <2>3, <2>8, AdmitFails
<1>9. CASE /\ hd[r].cancelled /\ eng' = Aborted(s)
           /\ hd' = [hd EXCEPT ![r].terminal = TRUE, ![r].admission = "error"]
           /\ Admitted /\ Survives /\ UNCHANGED maps
  <2> DEFINE h == [hd[r] EXCEPT !.terminal = TRUE, !.admission = "error"]
  <2>1. hd' = [hd EXCEPT ![r] = h]
    BY <1>9, RefusedTwice DEF IInv
  <2>2. /\ h \in Handle /\ h.client = hd[r].client /\ h.cancelled = hd[r].cancelled /\ h.terminal = TRUE
        /\ h.seq = hd[r].seq /\ h.discard = hd[r].discard /\ h.admission = "error" /\ h.out = hd[r].out
    BY <1>3 DEF Handle
  <2>3. Settled(h) /\ OneEnding(h.out)
    BY <1>3, <1>9, <2>2, OutEmpty DEF Settled, Untouched
  <2> QED BY <1>8, <1>9, <2>1, <2>2, <2>3 DEF maps
<1>10. CASE AdmitUndone(r)
  <2> DEFINE h == [Ended(hd[r], "error") EXCEPT !.admission = "error"]
  <2>1. /\ hd' = [hd EXCEPT ![r] = h] /\ Admitted /\ UNCHANGED <<active, latest>>
        /\ \/ eng' = Aborted(s) /\ Survives
           \/ eng' \in AbortRaised(s) /\ Raises
    BY <1>4, <1>7, <1>10 DEF AdmitUndone
  <2>2. /\ h \in Handle /\ h.client = hd[r].client /\ h.cancelled = hd[r].cancelled
        /\ h.seq = hd[r].seq /\ h.discard = hd[r].discard /\ h.admission = "error" /\ OneEnding(h.out) /\ Settled(h)
    BY <1>3, FailedFields
  <2> QED BY <1>8, <2>1, <2>2
<1>11. CASE /\ ~hd[r].cancelled /\ active' = [active EXCEPT ![s] = r] /\ latest' = [latest EXCEPT ![s] = r]
            /\ hd' = [hd EXCEPT ![r].admission = "ok"] /\ Admitted /\ Survives /\ UNCHANGED eng
  <2> DEFINE h == [hd[r] EXCEPT !.admission = "ok"]
  <2>1. hd' = [hd EXCEPT ![r] = h]
    BY <1>11
  <2>2. /\ h \in Handle /\ h.client = hd[r].client /\ h.cancelled = hd[r].cancelled /\ h.terminal = hd[r].terminal
        /\ h.seq = hd[r].seq /\ h.discard = hd[r].discard /\ h.admission = "ok" /\ h.out = hd[r].out
    BY <1>3 DEF Handle
  <2> HIDE DEF h
  <2>3. hd' \in [Requests -> Handle] /\ hd'[r] = h /\ Only(r)
    BY <2>1, <2>2, Replaced DEF IInv
  <2>4. /\ th' \in ThreadSet /\ th'.pc = "fill" /\ th'.stopping = th.stopping
        /\ th'.tokens = th.tokens /\ th'.finished = th.finished
    BY <1>11, ThreadTypes DEF IInv, Admitted, ThreadSet, ThreadAt
  <2>5. "fill" \notin Admitting /\ "fill" \notin Ending /\ "fill" \notin {"publish", "finish", "except"}
    BY DEF Admitting, Ending
  <2>6. /\ active' \in [Requests -> Requests \cup {NoRequest}] /\ latest' = active'
        /\ active'[s] = r /\ \A x \in Requests : x # s => active'[x] = active[x]
    BY <1>3, <1>5, <1>11
  <2>7. \A q \in Requests : (IsActive(q)' <=> IsActive(q) \/ q = r) /\ ~AtItem(q)' /\ ~Stranded(q)'
    <3>1. \A q \in Requests : IsActive(q)' <=> IsActive(q) \/ q = r
      BY <1>5, <1>6, <2>6 DEF IsActive
    <3>2. \A q \in Requests : ~Stranded(q)'
      BY <1>5, <2>6 DEF Stranded
    <3> QED BY <2>4, <2>5, <3>1, <3>2 DEF AtItem
  <2>8. TypeOK'
    BY <1>1, <1>11, <2>3, <2>4, <2>6 DEF IInv, TypeOK, ThreadSet, Survives
  <2>9. SameSeqs /\ (\A q \in Requests : hd'[q].discard = hd[q].discard)
    BY <2>2, <2>3 DEF SameSeqs, Only
  <2>10. Stages'
    <3> SUFFICES ASSUME NEW q \in Requests PROVE Shape(hd'[q]) /\ Place(q)'
      BY DEF Stages
    <3>1. Queued(q)' <=> Queued(q)
      BY <1>1 DEF Queued
    <3>2. CASE q = r
      <4>1. Shape(h) /\ Tokens(h.out)
        BY <1>3, <2>2, OutEmpty DEF Shape, Untouched
      <4> QED BY <1>3, <2>2, <2>3, <2>7, <3>1, <3>2, <4>1 DEF Place, Untouched
    <3>3. CASE q # r
      <4>1. Shape(hd[q]) /\ Place(q) /\ hd'[q] = hd[q]
        BY <2>3, <3>3 DEF IInv, Stages, Only
      <4>2. ~Stranded(q)
        BY <1>3, NoneStranded DEF IInv
      <4> QED BY <1>3, <2>7, <3>1, <3>3, <4>1, <4>2, PlaceKept
    <3> QED BY <3>2, <3>3
  <2>11. Queues'
    BY <1>1, <2>4, <2>5 DEF IInv, Queues, Queued, Ending
  <2>12. Cancels'
    BY <1>1, <1>3, <1>11, <2>2, <2>3, <2>7, CancelsWritten
  <2>13. TurnsLinked'
    BY <2>2, <2>3, TurnsKept DEF IInv, Only
  <2>14. Chains'
    <3>1. (\A q \in Requests : Tip(q)' <=> Tip(q)) /\ SeqsSound'
      BY <2>9, TipsKept DEF IInv, Chains
    <3>2. LiveSound'
      BY <1>11, <2>9, <3>1, EngineTypes DEF IInv, Chains, LiveSound, SameSeqs
    <3>3. ASSUME NEW x \in Requests PROVE KeptSound(x)' /\ ActiveSound(x)'
      <4>1. KeptSound(x) /\ ActiveSound(x) /\ eng.kept[x] \in Requests \cup {NoRequest}
            /\ active[x] \in Requests \cup {NoRequest}
        BY EngineTypes DEF IInv, Chains
      <4>2. KeptSound(x)'
        BY <1>11, <2>9, <3>1, <4>1 DEF KeptSound, SameSeqs
      <4>3. CASE x = s
        BY <1>4, <1>5, <2>6, <2>9, <3>1, <4>2, <4>3 DEF ActiveSound, SameSeqs
      <4>4. CASE x # s
        BY <2>6, <2>9, <3>1, <4>1, <4>2, <4>4 DEF ActiveSound, SameSeqs
      <4> QED BY <4>3, <4>4
    <3> QED BY <3>1, <3>2, <3>3 DEF Chains
  <2>15. Tracks'
    <3>1. \A q \in Requests : IsActive(q) => q \in eng.live
      BY <1>3 DEF IInv, Tracks
    <3>2. faults' = faults /\ eng' = eng /\ eng.live \subseteq Requests
      BY <1>11, EngineTypes DEF Survives, IInv
    <3>3. faults' = 0 => Faultless'
      <4>1. faults = 0 => Faultless
        BY DEF IInv, Tracks
      <4>2. hd[r].discard # "ok"
        BY <1>3, <1>11 DEF Shape
      <4>3. \A q : Gone(q)' <=> Gone(q)
        BY <3>2 DEF Gone
      <4>4. faults = 0 => \A q \in eng.live : IsActive(q)'
        BY <1>3, <2>7, <3>2, <4>1 DEF Faultless
      <4>5. faults = 0 => \A q \in Requests : hd'[q].discard = "ok" => Gone(q)'
        BY <1>3, <2>9, <4>1, <4>2, <4>3 DEF Faultless
      <4> QED BY <2>4, <2>5, <3>2, <4>1, <4>4, <4>5 DEF Faultless
    <3> QED BY <1>3, <2>4, <2>5, <2>6, <2>7, <3>1, <3>2, <3>3 DEF Tracks
  <2> QED BY <2>8, <2>10, <2>11, <2>12, <2>13, <2>14, <2>15 DEF IInv
<1> QED BY <1>2, <1>4, <1>9, <1>10, <1>11 DEF AdmitEnds

-----------------------------------------------------------------------------
(* The aborts.                                                             *)

Aborting == {"aborts1", "aborts2"}

\* The request of a queued abort was admitted: it is active, or it is settled.
LEMMA AbortFacts ==
  ASSUME IInv, th.pc \in Aborting, aborts # <<>>, aborts' = Tail(aborts),
         NEW a \in Abort, a = Head(aborts), NEW r \in Requests, r = a.of
  PROVE  /\ hd[r].client = "submitted" /\ hd[r].cancelled /\ hd[r].seq \in Requests /\ hd[r].seq # NoRequest
         /\ hd[r] \in Handle /\ Shape(hd[r]) /\ Place(r) /\ ~Queued(r)
         /\ th.pc \notin Ending /\ th.pc \notin Admitting /\ th.pc \notin {"publish", "finish"}
         /\ latest = active /\ (\A q \in Requests : ~AtItem(q) /\ ~Stranded(q))
         /\ (IsActive(r) <=> active[hd[r].seq] = r) /\ (IsActive(r) \/ hd[r].terminal)
         /\ a.force => hd[r].discard # "no"
<1>1. AbortSound(a) /\ hd[r] \in Handle /\ Shape(hd[r]) /\ Place(r) /\ hd[r].seq \in Requests \cup {NoRequest}
  BY AbortsTail, HandleTypes DEF IInv, Stages
<1>3. hd[r].client = "submitted" /\ hd[r].cancelled /\ hd[r].seq \in Requests /\ hd[r].seq # NoRequest
  BY <1>1 DEF AbortSound, Shape
<1>4. ~Queued(r)
  BY <1>1, <1>3 DEF Place
<1>5. th.pc \notin Ending /\ th.pc \notin Admitting /\ th.pc \notin {"publish", "finish"}
  BY DEF Aborting, Ending, Admitting
<1>6. latest = active /\ \A q \in Requests : ~AtItem(q) /\ ~Stranded(q)
  BY <1>5, NoneStranded DEF IInv, Tracks, AtItem
<1>7. IsActive(r) <=> active[hd[r].seq] = r
  <2>1. r # NoRequest
    BY DispatcherAssumption
  <2> QED BY <1>3, <2>1, ActiveFacts DEF IsActive
<1>8. IsActive(r) \/ hd[r].terminal
  BY <1>1, <1>3, <1>4, <1>6 DEF Place, Settled
<1>9. a.force => hd[r].discard # "no"
  BY <1>1 DEF AbortSound
<1> QED BY <1>1, <1>3, <1>4, <1>5, <1>6, <1>7, <1>8, <1>9

\* One abort is taken, with what it does to its request, the maps and the
\* engine.
LEMMA AbortTaken ==
  ASSUME IInv, th.pc \in Aborting, aborts # <<>>, aborts' = Tail(aborts),
         NEW a \in Abort, a = Head(aborts), NEW r \in Requests, r = a.of,
         NEW h \in Handle, hd' = [hd EXCEPT ![r] = h],
         h.client = hd[r].client, h.cancelled = hd[r].cancelled, h.seq = hd[r].seq,
         h.admission = hd[r].admission, h.out = hd[r].out, h.terminal <=> ~IsActive(r)',
         NEW result \in {"ok", "error"},
         a.force /\ hd[r].discard = "waiting" => h.discard = result,
         ~(a.force /\ hd[r].discard = "waiting") => h.discard = hd[r].discard,
         UNCHANGED <<pending, controls, calls, loop, closing, failed>>,
         th' \in ThreadSet, th'.stopping = th.stopping,
         th'.pc = th.pc \/ (th'.pc = "except" /\ faults' # 0), faults' \in 0..MaxFaults,
         active' \in [Requests -> Requests \cup {NoRequest}], latest' = active', Drops,
         \A q \in Requests : q # r => (IsActive(q)' <=> IsActive(q)),
         IsActive(r)' => IsActive(r) /\ th'.pc = "except" /\ result = "error",
         eng' \in EngineSet, Shrinks,
         th'.pc = th.pc => \A q \in Requests : IsActive(q)' => q \in eng'.live,
         faults' = 0 => Faultless'
  PROVE  IInv'
<1>1. /\ hd[r].client = "submitted" /\ hd[r].cancelled /\ hd[r].seq \in Requests /\ hd[r].seq # NoRequest
      /\ Shape(hd[r]) /\ Place(r) /\ ~Queued(r)
      /\ th.pc \notin Ending /\ th.pc \notin Admitting /\ th.pc \notin {"publish", "finish"}
      /\ (\A q \in Requests : ~AtItem(q) /\ ~Stranded(q))
  BY AbortFacts
<1>2. hd' \in [Requests -> Handle] /\ hd'[r] = h /\ Only(r)
  BY Replaced DEF IInv
<1>3. aborts' \in Seq(Abort) /\ \A q \in Requests : eng'.made[q] <= MaxTokens[q]
  BY AbortsTail, EngineTypes DEF IInv, Shrinks
<1>4. TypeOK'
  BY <1>2, <1>3 DEF IInv, TypeOK, EngineSet, ThreadSet
<1>5. th'.pc \notin Admitting /\ th'.pc \notin {"publish", "finish"}
  BY <1>1 DEF Admitting
<1>6. SameSeqs /\ (\A q \in Requests : ~Stranded(q)')
  <2>1. SameSeqs
    BY <1>2 DEF SameSeqs, Only
  <2>2. ASSUME NEW q \in Requests PROVE ~Stranded(q)'
    <3>1. q # NoRequest
      BY DispatcherAssumption
    <3> QED BY <3>1 DEF Stranded
  <2> QED BY <2>1, <2>2
<1>7. Stages'
  <2>1. h.discard # "no" => hd[r].discard # "no"
    OBVIOUS
  <2>2. Shape(h)
    BY <1>1, <2>1 DEF Shape
  <2>3. ~Queued(r)' /\ ~AtItem(r)'
    BY <1>1, <1>5 DEF Queued, AtItem
  <2>4. IsActive(r)' => Place(r)'
    BY <1>1, <1>2, <2>3 DEF Place
  <2>5. ~IsActive(r)' => Settled(h)
    BY <1>1 DEF Settled
  <2>6. ~IsActive(r)' => Place(r)'
    BY <1>2, <2>3, <2>5 DEF Place
  <2> QED BY <1>1, <1>2, <1>5, <2>2, <2>4, <2>6, StagesWritten DEF IInv
<1>8. Queues'
  <2>1. th'.pc \notin Ending \ {"except"}
    BY <1>1
  <2>2. th'.pc \notin {"draincontrols", "drainaborts", "dead"} /\ "failactive" \in Ending
    BY <2>1 DEF Ending
  <2> QED BY <1>5, <2>1, <2>2 DEF IInv, Queues, Queued
<1>9. Cancels'
  <2>1. \A q \in Requests : IsActive(q)' => IsActive(q)
    OBVIOUS
  <2>2. th.pc # "except"
    BY <1>1 DEF Ending
  <2> QED BY <1>2, <2>1, <2>2, CancelsAnswered
<1>10. TurnsLinked'
  BY <1>2, TurnsKept DEF IInv, Only
<1>11. Chains'
  BY <1>6, ChainsKept DEF IInv
<1>12. Tracks'
  <2>1. th'.pc \in Ending => \E x \in Requests \cup {NoRequest} :
          \A q \in Requests : Stranded(q)' => q = x /\ q \in th'.finished
    BY <1>6
  <2>2. "except" \in Ending
    BY DEF Ending
  <2> QED BY <1>1, <1>5, <2>1, <2>2 DEF Tracks
<1> QED BY <1>4, <1>7, <1>8, <1>9, <1>10, <1>11, <1>12 DEF IInv

\* While nothing has raised, the engine keeps what it has when an abort is
\* answered, or loses the chain of a request that has ended.
LEMMA FaultlessAnswer ==
  ASSUME IInv, Faultless, th.pc \in Aborting, NEW r \in Requests, Only(r),
         UNCHANGED active, th'.pc = th.pc, ~IsActive(r),
         Shrinks, eng'.owed = eng.owed,
         eng'.live = eng.live, hd'[r].discard = "ok" => hd[r].discard = "ok" \/ \A s \in Requests : eng'.kept[s] # r
  PROVE  Faultless'
<1>1. th.pc \notin Admitting /\ \A q : ~AtItem(q) /\ ~AtItem(q)' /\ (IsActive(q)' <=> IsActive(q))
  BY DEF Aborting, Admitting, AtItem, IsActive
<1>2. r \notin eng.live
  BY <1>1 DEF Faultless
<1>3. \A q \in Requests : Gone(q) => Gone(q)'
  <2>1. NoRequest \notin Requests
    BY DispatcherAssumption
  <2> QED BY <2>1 DEF Gone, Shrinks
<1>4. ASSUME NEW q \in Requests, hd'[q].discard = "ok" PROVE Gone(q)'
  <2>1. CASE q = r /\ hd[r].discard # "ok"
    BY <1>2, <1>4, <2>1 DEF Gone
  <2>2. CASE hd[q].discard = "ok"
    BY <1>1, <1>3, <2>2 DEF Faultless
  <2>3. q # r => hd'[q] = hd[q]
    BY DEF Only
  <2> QED BY <1>4, <2>1, <2>2, <2>3
<1> QED BY <1>1, <1>4 DEF Faultless

LEMMA DrainAbortKeeps == ASSUME IInv, DrainAbort PROVE IInv'
<1>1. /\ th.pc \in Aborting /\ aborts # <<>> /\ aborts' = Tail(aborts)
      /\ UNCHANGED <<pending, controls, calls, loop, closing, failed>>
  BY DEF DrainAbort, At, Aborting, flags
<1>2. PICK a \in Abort, r \in Requests : a = Head(aborts) /\ r = a.of
  BY <1>1, AbortsTail
<1>3. /\ hd[r].client = "submitted" /\ hd[r].cancelled /\ hd[r].seq \in Requests /\ hd[r].seq # NoRequest
      /\ hd[r] \in Handle /\ Shape(hd[r]) /\ Place(r) /\ ~Queued(r)
      /\ th.pc \notin Ending /\ th.pc \notin Admitting /\ th.pc \notin {"publish", "finish"}
      /\ latest = active /\ (\A q \in Requests : ~AtItem(q) /\ ~Stranded(q))
      /\ (IsActive(r) <=> active[hd[r].seq] = r) /\ (IsActive(r) \/ hd[r].terminal)
  BY <1>1, <1>2, AbortFacts
<1>4. PICK s \in Requests : s = hd[r].seq
  BY <1>3
<1>5. /\ a.force \in BOOLEAN /\ NoRequest \notin Requests /\ th \in ThreadSet /\ faults \in 0..MaxFaults
      /\ active \in [Requests -> Requests \cup {NoRequest}] /\ eng \in EngineSet
      /\ hd \in [Requests -> Handle] /\ hd[r].terminal \in BOOLEAN
      /\ hd[r].discard \in {"no", "waiting", "ok", "error", "timeout"}
  BY <1>1, <1>2, AbortsTail, DispatcherAssumption, ThreadTypes, EngineTypes, HandleTypes DEF IInv, TypeOK
<1>6. \A q \in Requests : IsActive(q) => q \in eng.live
  BY <1>3 DEF IInv, Tracks
<1>7. IsActive(r) => ~hd[r].terminal
  BY <1>3 DEF Place
<1>8. UNCHANGED <<active, latest, eng>> => Drops /\ Shrinks /\ (\A q : (IsActive(q)' <=> IsActive(q)))
  BY DEF Drops, Shrinks, IsActive
\* An abort that comes too late.
<1>9. CASE IsLate(a)
  <2>1. UNCHANGED <<hd, active, latest, eng, th, faults>> /\ hd[r].terminal /\ ~a.force
    BY <1>2, <1>9 DEF DrainAbort, IsLate, maps
  <2>2. hd' = [hd EXCEPT ![r] = hd[r]]
    BY <1>5, <2>1
  <2>3. faults' = 0 => Faultless'
    <3>1. Faultless => Faultless'
      BY <2>1 DEF Faultless, IsActive, AtItem, Gone
    <3> QED BY <2>1, <3>1 DEF IInv, Tracks
  <2>4. ~IsActive(r) /\ ~IsActive(r)'
    BY <1>7, <1>8, <2>1
  <2>5. "ok" \in {"ok", "error"}
    OBVIOUS
  <2>6. /\ (a.force /\ hd[r].discard = "waiting" => hd[r].discard = "ok")
        /\ th'.pc = th.pc /\ th'.stopping = th.stopping /\ latest' = active'
        /\ \A q \in Requests : IsActive(q)' => q \in eng'.live
    BY <1>3, <1>6, <1>8, <2>1
  <2> QED BY <1>1, <1>2, <1>3, <1>5, <1>8, <2>1, <2>2, <2>3, <2>4, <2>5, <2>6, AbortTaken
\* An abort whose sequence id has gone to a newer turn.
<1>10. CASE ~IsLate(a) /\ IsStale(a)
  <2> DEFINE g == [hd[r] EXCEPT !.terminal = TRUE]
             h == Answered(g, a, "ok")
  <2>1. UNCHANGED <<active, latest, eng, th, faults>> /\ hd' = [hd EXCEPT ![r] = h]
    BY <1>2, <1>10 DEF DrainAbort, maps
  <2>2. /\ g \in Handle /\ g.client = hd[r].client /\ g.cancelled = hd[r].cancelled /\ g.terminal = TRUE
        /\ g.seq = hd[r].seq /\ g.admission = hd[r].admission /\ g.out = hd[r].out /\ g.discard = hd[r].discard
    BY <1>3, TerminalFields
  <2> HIDE DEF g
  <2>3. /\ h \in Handle /\ h.client = g.client /\ h.cancelled = g.cancelled /\ h.terminal = g.terminal
        /\ h.seq = g.seq /\ h.admission = g.admission /\ h.out = g.out
        /\ (a.force /\ g.discard = "waiting" => h.discard = "ok")
        /\ (~(a.force /\ g.discard = "waiting") => h.discard = g.discard)
    BY <2>2, AnsweredFields
  <2> HIDE DEF h
  <2>4. active[s] # NoRequest /\ active[s] # r
    BY <1>2, <1>3, <1>4, <1>10 DEF IsStale
  <2>5. PICK q \in Requests : q = active[s] /\ Tip(q) /\ hd[q].seq = s
    BY <2>4, ActiveFacts
  <2>6. ~IsActive(r) /\ \A x \in Requests : eng.kept[x] # r
    <3>1. eng.kept[s] \in {q, NoRequest}
      BY <2>5, HolderIsTip DEF IInv
    <3>2. ASSUME NEW x \in Requests, eng.kept[x] = r PROVE x = s
      BY <1>4, <1>5, <3>2 DEF IInv, Chains, KeptSound
    <3> QED BY <1>3, <1>4, <1>5, <2>4, <2>5, <3>1, <3>2
  <2>7. hd'[r] = h /\ Only(r)
    BY <2>1, <2>3, Replaced DEF IInv
  <2>8. faults' = 0 => Faultless'
    BY <1>1, <1>8, <2>1, <2>6, <2>7, FaultlessAnswer DEF IInv, Tracks
  <2>9. ~IsActive(r)' /\ h.terminal = TRUE /\ "ok" \in {"ok", "error"}
    BY <1>8, <2>1, <2>2, <2>3, <2>6
  <2>10. /\ th'.pc = th.pc /\ th'.stopping = th.stopping /\ latest' = active'
         /\ \A x \in Requests : IsActive(x)' => x \in eng'.live
    BY <1>3, <1>6, <1>8, <2>1
  <2>11. /\ Drops /\ Shrinks /\ \A x \in Requests : IsActive(x)' <=> IsActive(x)
         /\ h.client = hd[r].client /\ h.cancelled = hd[r].cancelled /\ h.seq = hd[r].seq
         /\ h.admission = hd[r].admission /\ h.out = hd[r].out /\ (h.terminal <=> ~IsActive(r)')
         /\ (a.force /\ hd[r].discard = "waiting" => h.discard = "ok")
         /\ (~(a.force /\ hd[r].discard = "waiting") => h.discard = hd[r].discard)
         /\ active' \in [Requests -> Requests \cup {NoRequest}] /\ eng' \in EngineSet /\ th' \in ThreadSet
         /\ faults' \in 0..MaxFaults
    BY <1>5, <1>8, <2>1, <2>2, <2>3, <2>9
  <2> QED BY <1>1, <1>2, <2>1, <2>3, <2>8, <2>9, <2>10, <2>11, AbortTaken
\* The abort of a request that is active.
<1>11. CASE ~IsLate(a) /\ ~IsStale(a) /\ active[s] # NoRequest
  <2>1. AbortActive(a, s) /\ active[s] = r /\ IsActive(r) /\ Tip(r) /\ ~hd[r].terminal
    BY <1>2, <1>3, <1>4, <1>7, <1>11, ActiveFacts DEF DrainAbort, IsStale
  <2>2. Holder(s) \subseteq {r}
    BY <1>4, <2>1, HolderIsTip DEF IInv
  <2>3. CASE /\ eng' = Aborted(s)
             /\ active' = [active EXCEPT ![s] = NoRequest]
             /\ latest' = Forget(s, active[s])
             /\ hd' = [[hd EXCEPT ![active[s]].terminal = TRUE] EXCEPT ![a.of] = Answered(@, a, "ok")]
             /\ th' = [th EXCEPT !.changed = TRUE] /\ Survives
    <3> DEFINE g == [hd[r] EXCEPT !.terminal = TRUE]
               h == Answered(g, a, "ok")
    <3>1. /\ g \in Handle /\ g.client = hd[r].client /\ g.cancelled = hd[r].cancelled /\ g.terminal = TRUE
          /\ g.seq = hd[r].seq /\ g.admission = hd[r].admission /\ g.out = hd[r].out /\ g.discard = hd[r].discard
      BY <1>3, TerminalFields
    <3>2. hd' = [hd EXCEPT ![r] = h]
      <4> HIDE DEF h
      <4>1. hd' = [[hd EXCEPT ![r] = g] EXCEPT ![r] = Answered(@, a, "ok")]
        BY <1>2, <2>1, <2>3
      <4>2. [hd EXCEPT ![r] = g][r] = g
        BY <1>5
      <4>3. hd' = [[hd EXCEPT ![r] = g] EXCEPT ![r] = h]
        BY <4>1, <4>2 DEF h
      <4> QED BY <1>5, <4>3
    <3> HIDE DEF g
    <3>3. /\ h \in Handle /\ h.client = g.client /\ h.cancelled = g.cancelled /\ h.terminal = g.terminal
          /\ h.seq = g.seq /\ h.admission = g.admission /\ h.out = g.out
          /\ (a.force /\ g.discard = "waiting" => h.discard = "ok")
          /\ (~(a.force /\ g.discard = "waiting") => h.discard = g.discard)
      BY <3>1, AnsweredFields
    <3> HIDE DEF h
    <3>4. hd'[r] = h /\ Only(r) /\ SameSeqs
      <4>1. hd'[r] = h /\ Only(r)
        BY <3>2, <3>3, Replaced DEF IInv
      <4> QED BY <3>1, <3>3, <4>1 DEF Only, SameSeqs
    <3>5. /\ active' \in [Requests -> Requests \cup {NoRequest}] /\ Drops /\ latest' = active'
          /\ \A q \in Requests : IsActive(q)' <=> IsActive(q) /\ q # r
      BY <1>3, <2>1, <2>3, <3>4, MapsDrop
    <3>6. eng' \in EngineSet /\ Shrinks /\ eng'.live = eng.live \ Holder(s)
      BY <2>3, AbortKinds, AbortedFields DEF IInv
    <3>7. th' \in ThreadSet /\ th'.pc = th.pc /\ th'.stopping = th.stopping
      BY <1>5, <2>3 DEF ThreadSet
    <3>8. faults' = 0 => Faultless'
      <4>1. th'.pc # "except" /\ \A q \in Requests : ~AtItem(q) /\ ~AtItem(q)'
        BY <1>3, <3>7 DEF Ending, AtItem
      <4>2. \A q \in Requests : q # r => hd'[q] = hd[q]
        BY <3>4 DEF Only
      <4>3. faults = 0 /\ faults' = 0 => Faultless
        BY DEF IInv, Tracks
      <4>4. /\ \A q \in Requests : q # r /\ (IsActive(q) \/ AtItem(q)) => IsActive(q)' \/ AtItem(q)'
            /\ \A q \in Requests : q # r /\ hd'[q].discard = "ok" /\ ~AtItem(q)' => hd[q].discard = "ok" /\ ~AtItem(q)
        BY <3>5, <4>1, <4>2
      <4>5. faults' = faults /\ TypeOK /\ Chains /\ hd[r].seq = s /\ eng' = Aborted(s)
        BY <1>4, <2>3 DEF IInv, Survives
      <4> QED BY <4>1, <4>3, <4>4, <4>5, FaultlessAbort
    <3>9. /\ h \in Handle /\ h.client = hd[r].client /\ h.cancelled = hd[r].cancelled /\ h.seq = hd[r].seq
          /\ h.admission = hd[r].admission /\ h.out = hd[r].out /\ (h.terminal <=> ~IsActive(r)')
          /\ (a.force /\ hd[r].discard = "waiting" => h.discard = "ok")
          /\ (~(a.force /\ hd[r].discard = "waiting") => h.discard = hd[r].discard)
          /\ "ok" \in {"ok", "error"} /\ faults' \in 0..MaxFaults
          /\ \A q \in Requests : IsActive(q)' => q \in eng'.live
      BY <1>5, <1>6, <2>2, <2>3, <3>1, <3>3, <3>5, <3>6 DEF Survives
    <3>10. \A q \in Requests : q # r => (IsActive(q)' <=> IsActive(q))
      BY <3>5
    <3>11. ~IsActive(r)'
      BY <3>5
    <3>12. active' \in [Requests -> Requests \cup {NoRequest}] /\ Drops /\ latest' = active'
      BY <3>5
    <3> QED BY <1>1, <1>2, <3>2, <3>6, <3>7, <3>8, <3>9, <3>10, <3>11, <3>12, AbortTaken
  <2>4. CASE /\ eng' \in AbortRaised(s)
             /\ hd' = [hd EXCEPT ![a.of] = Answered(@, a, "error")]
             /\ Fatal /\ UNCHANGED maps
    <3>0. PICK g \in Handle : g = hd[r]
      BY <1>3
    <3> DEFINE h == Answered(g, a, "error")
    <3>1. /\ hd' = [hd EXCEPT ![r] = h] /\ UNCHANGED <<active, latest>>
          /\ th' = [th EXCEPT !.pc = "except"] /\ faults < MaxFaults /\ faults' = faults + 1
      BY <1>2, <2>4, <3>0 DEF maps, Fatal, Raises, Goto
    <3>2. /\ h \in Handle /\ h.client = hd[r].client /\ h.cancelled = hd[r].cancelled /\ h.terminal = hd[r].terminal
          /\ h.seq = hd[r].seq /\ h.admission = hd[r].admission /\ h.out = hd[r].out
          /\ (a.force /\ hd[r].discard = "waiting" => h.discard = "error")
          /\ (~(a.force /\ hd[r].discard = "waiting") => h.discard = hd[r].discard)
      BY <3>0, AnsweredFields
    <3> HIDE DEF h
    <3>3. Drops /\ (\A q \in Requests : IsActive(q)' <=> IsActive(q)) /\ latest' = active'
      BY <1>3, <3>1 DEF Drops, IsActive
    <3>4. eng' \in EngineSet /\ Shrinks
      BY <2>4, AbortKinds DEF IInv
    <3>5. "except" \in ThreadAt /\ "except" \in Ending
      BY DEF ThreadAt, Ending
    <3>6. th' \in ThreadSet /\ th'.pc = "except" /\ th'.stopping = th.stopping
      BY <3>1, <3>5, GotoFields DEF IInv
    <3>7. faults' \in 0..MaxFaults /\ faults' # 0 /\ th'.pc # th.pc
      BY <1>3, <1>5, <3>1, <3>5, <3>6, DispatcherAssumption
    <3>8. /\ (h.terminal <=> ~IsActive(r)') /\ "error" \in {"ok", "error"}
          /\ active' \in [Requests -> Requests \cup {NoRequest}]
      BY <1>5, <2>1, <3>1, <3>2, <3>3
    <3> QED BY <1>1, <1>2, <2>1, <3>1, <3>2, <3>3, <3>4, <3>6, <3>7, <3>8, AbortTaken
  <2> QED BY <2>1, <2>3, <2>4 DEF AbortActive
\* The discard of a request that has ended.
<1>12. CASE ~IsLate(a) /\ ~IsStale(a) /\ active[s] = NoRequest
  <2>1. ~IsActive(r) /\ hd[r].terminal /\ a.force
    BY <1>2, <1>3, <1>4, <1>5, <1>12 DEF IsLate
  <2>2. DiscardEnded(a, s)
    BY <1>2, <1>4, <1>12, <2>1 DEF DrainAbort
  <2>3. PICK result \in {"ok", "error"} :
          /\ hd' = [hd EXCEPT ![r] = Answered(hd[r], a, result)]
          /\ \/ /\ result = "ok" /\ eng' = [eng EXCEPT !.kept[s] = NoRequest]
                /\ th' = [th EXCEPT !.changed = @ \/ eng.kept[s] # NoRequest]
             \/ result = "error" /\ UNCHANGED <<eng, th>>
    BY <1>2, <2>2 DEF DiscardEnded
  <2>0. PICK g \in Handle : g = hd[r]
    BY <1>3
  <2> DEFINE h == Answered(g, a, result)
  <2>4. /\ h \in Handle /\ h.client = hd[r].client /\ h.cancelled = hd[r].cancelled /\ h.terminal = hd[r].terminal
        /\ h.seq = hd[r].seq /\ h.admission = hd[r].admission /\ h.out = hd[r].out
        /\ (a.force /\ hd[r].discard = "waiting" => h.discard = result)
        /\ (~(a.force /\ hd[r].discard = "waiting") => h.discard = hd[r].discard)
    BY <2>0, AnsweredFields
  <2>5. hd' = [hd EXCEPT ![r] = h]
    BY <2>0, <2>3
  <2> HIDE DEF h
  <2>6. UNCHANGED <<active, latest, faults>> /\ hd'[r] = h /\ Only(r)
    BY <2>2, <2>4, <2>5, Replaced DEF DiscardEnded, maps, Survives, IInv
  <2>7. th' \in ThreadSet /\ th'.pc = th.pc /\ th'.stopping = th.stopping
    BY <1>5, <2>3 DEF ThreadSet
  <2>8. /\ eng' \in EngineSet /\ eng'.live = eng.live /\ eng'.owed = eng.owed /\ eng'.made = eng.made
        /\ (result = "ok" => eng'.kept[s] = NoRequest)
        /\ \A x \in Requests : eng'.kept[x] \in {eng.kept[x], NoRequest}
    BY <1>5, <2>3 DEF EngineSet
  <2>9. Drops /\ Shrinks /\ (\A q \in Requests : IsActive(q)' <=> IsActive(q)) /\ latest' = active'
    BY <1>3, <2>6, <2>8 DEF Drops, Shrinks, IsActive
  <2>10. result = "ok" => \A x \in Requests : eng'.kept[x] # r
    <3>1. \A x \in Requests : eng.kept[x] = r => x = s
      BY <1>4, <1>5 DEF IInv, Chains, KeptSound
    <3> QED BY <1>5, <2>8, <3>1
  <2>11. faults' = 0 => Faultless'
    <3>1. h.discard = "ok" => hd[r].discard = "ok" \/ \A x \in Requests : eng'.kept[x] # r
      BY <2>4, <2>10
    <3> QED BY <1>1, <2>1, <2>6, <2>7, <2>8, <2>9, <3>1, FaultlessAnswer DEF IInv, Tracks
  <2>12. /\ (h.terminal <=> ~IsActive(r)') /\ active' \in [Requests -> Requests \cup {NoRequest}]
         /\ faults' \in 0..MaxFaults /\ ~IsActive(r)'
         /\ \A q \in Requests : IsActive(q)' => q \in eng'.live
    BY <1>5, <1>6, <2>1, <2>4, <2>6, <2>8, <2>9
  <2> QED BY <1>1, <1>2, <2>4, <2>5, <2>7, <2>8, <2>9, <2>11, <2>12, AbortTaken, ZenonT(30)
<1> QED BY <1>9, <1>10, <1>11, <1>12

-----------------------------------------------------------------------------
(* The inductive invariant holds.                                          *)

LEMMA InitInv == Init => IInv
<1> SUFFICES ASSUME Init PROVE IInv
  OBVIOUS
<1>1. /\ hd = [r \in Requests |-> NewHandle] /\ pending = <<>> /\ aborts = <<>> /\ controls = <<>>
      /\ calls = [c \in Controls |-> "new"] /\ loop = Free /\ closing = FALSE /\ failed = FALSE
      /\ active = [s \in Requests |-> NoRequest] /\ latest = [s \in Requests |-> NoRequest]
      /\ eng = NewEngine /\ th = NewThread /\ faults = 0
  BY DEF Init
<1>2. NoRequest \notin Requests /\ MaxTokens \in [Requests -> Nat \ {0}] /\ MaxFaults \in Nat
  BY DispatcherAssumption
<1>3. /\ NewHandle \in Handle /\ NewHandle.client = "new" /\ NewHandle.cancelled = FALSE /\ NewHandle.terminal = FALSE
      /\ NewHandle.seq = NoRequest /\ NewHandle.admission = "none" /\ NewHandle.out = <<>> /\ NewHandle.discard = "no"
  <2>1. <<>> \in Seq({"token", "final", "error"})
    BY EmptySeq
  <2> QED BY <2>1 DEF NewHandle, Handle
<1>4. /\ NewThread \in ThreadSet /\ NewThread.pc = "controls1" /\ NewThread.stopping = FALSE
      /\ NewThread.tokens = {} /\ NewThread.finished = {}
  BY DEF NewThread, ThreadSet, ThreadAt
<1>5. /\ NewEngine \in EngineSet /\ NewEngine.live = {} /\ NewEngine.owed = {}
      /\ \A r \in Requests : NewEngine.kept[r] = NoRequest /\ NewEngine.made[r] = 0
  BY DEF NewEngine, EngineSet
<1>6. "controls1" \notin Ending /\ "controls1" \notin Admitting
  BY DEF Ending, Admitting
<1>7. \A r \in Requests : hd[r] = NewHandle /\ active[r] = NoRequest /\ latest[r] = NoRequest
  BY <1>1
<1>8. ToSet(pending) = {} /\ ToSet(aborts) = {} /\ ToSet(controls) = {} /\ Len(pending) = 0
  BY <1>1, EmptySeq DEF ToSet
<1>9. /\ pending \in Seq(Requests \cup {Wakeup, Stop}) /\ aborts \in Seq(Abort) /\ controls \in Seq(Controls)
      /\ loop \in [at: {"free", "wake", "cancel", "discard"}, of: Requests \cup {NoRequest}] /\ loop.at = "free"
  BY <1>1, EmptySeq, LoopTypes
<1> HIDE DEF NewHandle, NewThread, NewEngine
<1>10. TypeOK
  <2>1. \A r \in Requests : eng.made[r] <= MaxTokens[r]
    BY <1>1, <1>2, <1>5
  <2>2. hd \in [Requests -> Handle]
    BY <1>1, <1>3
  <2>4. active \in [Requests -> Requests \cup {NoRequest}] /\ latest \in [Requests -> Requests \cup {NoRequest}]
    BY <1>1
  <2>5. faults \in 0..MaxFaults
    BY <1>1, <1>2
  <2>7. closing \in BOOLEAN /\ failed \in BOOLEAN
    BY <1>1, Zenon
  <2>6. calls \in [Controls -> {"new", "waiting", "ok", "error"}]
    BY <1>1
  <2>3. eng \in EngineSet /\ th \in ThreadSet
    BY <1>1, <1>4, <1>5
  <2> QED BY <1>9, <2>1, <2>2, <2>3, <2>4, <2>5, <2>6, <2>7 DEF TypeOK, EngineSet, ThreadSet
<1>11. \A r \in Requests : ~IsActive(r) /\ ~AtItem(r) /\ ~Queued(r) /\ Gone(r) /\ ~Stranded(r)
  BY <1>1, <1>2, <1>3, <1>4, <1>5, <1>6, <1>7, <1>8 DEF IsActive, AtItem, Queued, Gone, Stranded
<1>12. Stages
  <2>1. Shape(NewHandle)
    BY <1>3, OutEmpty DEF Shape, Untouched
  <2>2. \A r \in Requests : Place(r)
    BY <1>3, <1>7, <1>11 DEF Place
  <2> QED BY <1>7, <2>1, <2>2 DEF Stages
<1>13. Queues
  <2>1. \A r \in Requests : OnceIn(pending, r)
    BY <1>8 DEF OnceIn
  <2>2. \A c \in Controls : calls[c] # "waiting"
    BY <1>1
  <2>3. th.pc = "controls1" /\ "controls1" \notin {"draincontrols", "drainaborts", "dead"}
    BY <1>1, <1>4
  <2> QED BY <1>1, <1>4, <1>6, <1>8, <2>1, <2>2, <2>3 DEF Queues
<1>14. Cancels
  <2>1. \A r \in Requests : Cancelled(r)
    BY <1>3, <1>7 DEF Cancelled
  <2>2. LoopSound
    BY <1>9 DEF LoopSound
  <2> QED BY <1>8, <2>1, <2>2 DEF Cancels
<1>15. TurnsLinked
  BY <1>3, <1>7 DEF TurnsLinked, Linked
<1>16. Chains
  <2>1. \A r \in Requests : hd[r].seq = NoRequest
    BY <1>3, <1>7
  <2>2. SeqsSound /\ LiveSound
    BY <1>1, <1>5, <2>1 DEF SeqsSound, LiveSound, Tip
  <2>3. \A s \in Requests : KeptSound(s) /\ ActiveSound(s)
    BY <1>1, <1>5, <1>7 DEF KeptSound, ActiveSound
  <2> QED BY <2>2, <2>3 DEF Chains
<1>17. Tracks
  <2>1. Faultless
    BY <1>1, <1>3, <1>4, <1>5, <1>7 DEF Faultless
  <2> QED BY <1>1, <1>4, <1>6, <1>11, <2>1 DEF Tracks
<1> QED BY <1>10, <1>12, <1>13, <1>14, <1>15, <1>16, <1>17 DEF IInv

LEMMA ThreadKeeps == ASSUME IInv, Thread PROVE IInv'
<1>1. /\ "controls1" \in {"controls1", "controls2"} /\ "controls2" \in {"controls1", "controls2"}
      /\ "aborts1" \in {"aborts1", "aborts2"} /\ "aborts2" \in {"aborts1", "aborts2"}
  OBVIOUS
<1>2. CASE DrainControl("controls1", "aborts1") \/ DrainControl("controls2", "aborts2")
  BY <1>1, <1>2, DrainControlKeeps
<1>3. CASE PruneRaises \/ DrainAbort \/ AbortsDrained \/ Take \/ NothingMore
  BY <1>3, PruneRaisesKeeps, DrainAbortKeeps, AbortsDrainedKeeps, TakeKeeps, NothingMoreKeeps
<1>4. CASE AdmitRefuses \/ AdmitStarts \/ EngineAdmits \/ AdmitEnds \/ Step \/ StepRaises
  BY <1>4, AdmitRefusesKeeps, AdmitStartsKeeps, EngineAdmitsKeeps, AdmitEndsKeeps, StepKeeps, StepRaisesKeeps
<1>5. CASE \E r \in Requests : PublishToken(r) \/ PublishFinished(r) \/ FailActive(r)
  BY <1>5, PublishTokenKeeps, PublishFinishedKeeps, FailActiveKeeps
<1>6. CASE TokensPublished \/ FinishedPublished \/ MarkFailed \/ ActiveFailed \/ DrainQueued
           \/ DrainQueuedControls \/ FailPendingAborts
  BY <1>6, TokensPublishedKeeps, FinishedPublishedKeeps, MarkFailedKeeps, ActiveFailedKeeps, DrainQueuedKeeps,
     DrainQueuedControlsKeeps, FailPendingAbortsKeeps
<1> QED BY <1>2, <1>3, <1>4, <1>5, <1>6 DEF Thread

LEMMA StutterKeeps == ASSUME IInv, UNCHANGED vars PROVE IInv'
<1>1. UNCHANGED <<hd, pending, aborts, controls, calls, loop, closing, failed, active, latest, eng, th, faults>>
  BY DEF vars, queues, flags, maps
<1>2. TypeOK'
  BY <1>1 DEF IInv, TypeOK
<1>3. /\ \A r : (Queued(r)' <=> Queued(r)) /\ (AtItem(r)' <=> AtItem(r)) /\ (IsActive(r)' <=> IsActive(r))
                /\ (Stranded(r)' <=> Stranded(r)) /\ (Gone(r)' <=> Gone(r))
  BY <1>1 DEF Queued, AtItem, IsActive, Stranded, Gone
<1>4. Stages'
  BY <1>1, <1>3 DEF IInv, Stages, Place
<1>5. Queues'
  BY <1>1, QueuesSame DEF IInv
<1>6. Cancels' /\ TurnsLinked'
  BY <1>1, <1>3 DEF IInv, Cancels, AbortSound, LoopSound, Cancelled, AbortQueued, TurnsLinked, Linked
<1>7. Chains' /\ Tracks'
  BY <1>1, LoopTracks DEF IInv, SameSeqs
<1> QED BY <1>2, <1>4, <1>5, <1>6, <1>7 DEF IInv

LEMMA NextKeeps == IInv /\ [Next]_vars => IInv'
<1>1. IInv /\ EventLoop => IInv'
  BY EventLoopKeeps
<1>2. IInv /\ Thread => IInv'
  BY ThreadKeeps
<1>3. IInv /\ UNCHANGED vars => IInv'
  BY StutterKeeps
<1>4. Resting => UNCHANGED vars
  BY DEF Resting
<1> QED BY <1>1, <1>2, <1>3, <1>4 DEF Next

LEMMA SpecInv == Spec => []IInv
BY InitInv, NextKeeps, PTL DEF Spec

-----------------------------------------------------------------------------
(* The theorems.                                                           *)

\* cancel() and _admit run in different threads.  However the flag, the
\* sequence id and their reads interleave, a request that cancel() or
\* discard() found unfinished is never left active without an abort queued.
THEOREM CancelsAlwaysArrive == Spec => []CancelsArrive
<1>1. IInv => CancelsArrive
  <2> SUFFICES ASSUME IInv PROVE CancelsArrive
    OBVIOUS
  <2>1. ASSUME NEW r \in Requests, AbortQueued(r) PROVE \E i \in DOMAIN aborts : aborts[i].of = r
    BY <2>1 DEF AbortQueued, ToSet
  <2>2. \A r \in Requests : Cancelled(r)
    BY DEF IInv, Cancels
  <2> QED BY <2>1, <2>2 DEF CancelsArrive, Cancelled, IsActive
<1> QED BY <1>1, SpecInv, PTL

\* Publishing, aborting, failing and draining never give a client two endings
\* or a token after one; and when the thread has ended, after whatever
\* exception, every client, discard and control call has its answer, except
\* the one request whose publication raised after active.pop.
THEOREM OneAnswerEachAlways == Spec => []OneAnswerEach
<1>1. IInv => AnsweredOnce
  BY DEF IInv, Stages, Shape, OneEnding, AnsweredOnce
<1>2. IInv => AtMostOneStranded
  <2> SUFFICES ASSUME IInv, th.pc = "dead" PROVE AtMostOneStranded
    BY DEF AtMostOneStranded
  <2>1. "dead" \in Ending /\ "dead" \notin {"except", "failactive"} /\ "dead" \notin Admitting
    BY DEF Ending, Admitting
  <2>2. PICK x \in Requests \cup {NoRequest} : \A r \in Requests : Stranded(r) => r = x /\ r \in th.finished
    BY <2>1 DEF IInv, Tracks
  <2>3. ASSUME NEW r \in Waiting PROVE Stranded(r) /\ r \in Requests
    <3>1. r \in Requests /\ hd[r].client = "submitted" /\ ~hd[r].cancelled
          /\ (hd[r].admission = "none" \/ hd[r].out = <<>> \/ Last(hd[r].out) = "token")
      BY <2>3 DEF Waiting
    <3>2. ~Queued(r) /\ ~AtItem(r)
      BY <2>1, <3>1 DEF IInv, Queues, AtItem
    <3>3. ~IsActive(r)
      <4>1. r # NoRequest /\ Idle
        BY <2>1, <3>1, DispatcherAssumption DEF IInv, Queues
      <4> QED BY <4>1 DEF IsActive, Idle
    <3>4. ~Settled(hd[r])
      BY <3>1 DEF Settled, HasEnding, Last
    <3> QED BY <3>1, <3>2, <3>3, <3>4 DEF IInv, Stages, Place
  <2>4. Waiting \subseteq th.finished /\ Waiting \subseteq {x}
    BY <2>2, <2>3
  <2>5. Cardinality(Waiting) <= 1
    <3>1. IsFiniteSet({x}) /\ Cardinality({x}) = 1
      BY FS_Singleton
    <3>2. IsFiniteSet(Waiting) /\ Cardinality(Waiting) <= Cardinality({x})
      BY <2>4, <3>1, FS_Subset
    <3> QED BY <3>1, <3>2
  <2>6. ASSUME NEW r \in Requests, hd[r].discard = "waiting" PROVE loop = In("discard", r)
    <3>1. \A a \in ToSet(aborts) : ~a.force
      BY DEF IInv, Queues
    <3>2. [of |-> r, force |-> TRUE].force = TRUE
      OBVIOUS
    <3>3. [of |-> r, force |-> TRUE] \notin ToSet(aborts)
      BY <3>1, <3>2
    <3> QED BY <2>6, <3>3 DEF IInv, Cancels, Cancelled
  <2>7. ASSUME NEW c \in Controls PROVE calls[c] # "waiting"
    <3>1. controls = <<>> /\ (calls[c] = "waiting" => c \in ToSet(controls))
      BY DEF IInv, Queues
    <3> QED BY <3>1 DEF ToSet
  <2> QED BY <2>4, <2>5, <2>6, <2>7 DEF AtMostOneStranded
<1> QED BY <1>1, <1>2, SpecInv, PTL DEF OneAnswerEach

\* At the head of the thread's loop the engine runs exactly the requests in
\* `active`, and a discard that reported success has left neither a running
\* sequence nor a chain, as long as no engine call has raised.
THEOREM EngineAlwaysFollows == Spec => []EngineFollows
<1>1. IInv => EngineFollows
  <2> SUFFICES ASSUME IInv PROVE EngineFollows
    OBVIOUS
  <2>1. EngineMatchesActive
    <3> SUFFICES ASSUME th.pc \in {"controls1", "get"}, faults = 0
                 PROVE  {r \in Requests : \E s \in Requests : active[s] = r} = eng.live
      BY DEF EngineMatchesActive
    <3>1. th.pc \notin Ending \cup {"publish", "finish"} /\ th.pc \notin Admitting
      BY DEF Ending, Admitting
    <3>2. \A r \in Requests : IsActive(r) => r \in eng.live
      BY <3>1 DEF IInv, Tracks
    <3>3. \A r \in eng.live : IsActive(r)
      BY <3>1 DEF IInv, Tracks, Faultless, AtItem
    <3>4. eng.live \subseteq Requests
      BY EngineTypes DEF IInv
    <3> QED BY <3>2, <3>3, <3>4 DEF IsActive
  <2>2. DiscardedIsGone
    <3> SUFFICES ASSUME NEW r \in Requests, hd[r].discard = "ok", hd[r].terminal, faults = 0 PROVE Gone(r)
      BY DEF DiscardedIsGone, Gone
    <3>1. ~AtItem(r)
      BY DEF IInv, Stages, Place, Untouched
    <3> QED BY <3>1 DEF IInv, Tracks, Faultless
  <2> QED BY <2>1, <2>2 DEF EngineFollows, IInv
<1> QED BY <1>1, SpecInv, PTL

\* What DrainAbort takes from the engine, when it does not raise, is its
\* target's: the sequence id belongs to the newest turn of the chain, and a
\* turn that is discarded has no successor.
LEMMA AbortHits ==
  ASSUME IInv, DrainAbort, th'.pc = th.pc
  PROVE  /\ \A q \in eng.live \ eng'.live : q = Head(aborts).of
         /\ \A x \in Requests : eng'.kept[x] # eng.kept[x] =>
              Head(aborts).force /\ eng.kept[x] = Head(aborts).of
<1>1. th.pc \in Aborting /\ aborts # <<>> /\ aborts' = Tail(aborts)
  BY DEF DrainAbort, At, Aborting
<1>2. PICK a \in Abort, r \in Requests : a = Head(aborts) /\ r = a.of
  BY <1>1, AbortsTail
<1>3. /\ hd[r].seq \in Requests /\ hd[r].seq # NoRequest
      /\ th.pc \notin Ending /\ th.pc \notin {"publish", "finish"} /\ latest = active
      /\ (IsActive(r) <=> active[hd[r].seq] = r) /\ (IsActive(r) \/ hd[r].terminal)
      /\ a.force => hd[r].discard # "no"
  BY <1>1, <1>2, AbortFacts
<1>4. PICK s \in Requests : s = hd[r].seq
  BY <1>3
<1>5. NoRequest \notin Requests /\ eng \in EngineSet
  BY DispatcherAssumption, EngineTypes DEF IInv
<1>6. CASE IsLate(a) \/ IsStale(a)
  <2>1. eng' = eng
    BY <1>2, <1>6 DEF DrainAbort
  <2> QED BY <2>1
<1>7. CASE ~IsLate(a) /\ ~IsStale(a) /\ active[s] # NoRequest
  <2>1. AbortActive(a, s) /\ active[s] = r /\ IsActive(r) /\ Tip(r)
    BY <1>2, <1>3, <1>4, <1>7, ActiveFacts DEF DrainAbort, IsStale
  <2>2. Holder(s) \subseteq {r} /\ eng.kept[s] \in {r, NoRequest}
    BY <1>4, <2>1, HolderIsTip DEF IInv
  <2>3. r \in eng.live
    BY <1>3, <2>1 DEF IInv, Tracks
  <2>4. eng.kept[s] = NoRequest
    BY <1>5, <2>2, <2>3 DEF IInv, Chains, KeptSound
  <2>5. ~Fatal
    <3>1. Fatal => th'.pc = "except"
      <4>1. "except" \in ThreadAt
        BY DEF ThreadAt
      <4> QED BY <4>1, GotoFields DEF Fatal, Goto, IInv
    <3>2. "except" \in Ending
      BY DEF Ending
    <3> QED BY <1>3, <3>1, <3>2
  <2>6. eng' = Aborted(s)
    BY <2>1, <2>5 DEF AbortActive
  <2>7. /\ eng'.live = eng.live \ Holder(s) /\ eng'.kept[s] = NoRequest
        /\ \A x \in Requests : x # s => eng'.kept[x] = eng.kept[x]
    BY <2>6, AbortedFields DEF IInv
  <2> QED BY <1>2, <2>2, <2>4, <2>7
<1>8. CASE ~IsLate(a) /\ ~IsStale(a) /\ active[s] = NoRequest
  <2>1. ~IsActive(r) /\ hd[r].terminal /\ a.force
    BY <1>2, <1>3, <1>4, <1>5, <1>8 DEF IsLate
  <2>2. DiscardEnded(a, s)
    BY <1>2, <1>4, <1>8, <2>1 DEF DrainAbort
  <2>3. eng'.live = eng.live /\ \A x \in Requests : x # s => eng'.kept[x] = eng.kept[x]
    BY <1>5, <2>2 DEF DiscardEnded, EngineSet
  <2>4. eng'.kept[s] \in {eng.kept[s], NoRequest}
    BY <1>5, <2>2 DEF DiscardEnded, EngineSet
  <2>5. Tip(r)
    <3> SUFFICES ASSUME NEW q \in Requests, Previous[q] = r, hd[q].seq # NoRequest PROVE FALSE
      BY <1>3 DEF Tip, Continued
    <3>1. Shape(hd[q]) /\ Linked(q)
      BY DEF IInv, Stages, TurnsLinked
    <3>2. hd[q].client # "new"
      BY <3>1 DEF Shape
    <3> QED BY <1>3, <1>5, <2>1, <3>1, <3>2 DEF Linked
  <2>6. eng.kept[s] \in {r, NoRequest}
    BY <1>4, <2>5, HolderIsTip DEF IInv
  <2> QED BY <1>2, <2>1, <2>3, <2>4, <2>6
<1> QED BY <1>6, <1>7, <1>8

\* An abort that was queued for one turn of a chain never ends another turn,
\* and a cancel that comes too late does not take the chain its turn has left
\* behind, whatever turn holds the sequence id when _drain_aborts gets to it.
THEOREM AbortsAlwaysHitTheirTarget == Spec => AbortsHitTheirTarget
<1> DEFINE Taken == th.pc \in {"aborts1", "aborts2"} /\ aborts # <<>> /\ aborts' # aborts /\ th'.pc = th.pc
           Hits == /\ \A r \in eng.live \ eng'.live : r = Head(aborts).of
                   /\ \A s \in Requests : eng'.kept[s] # eng.kept[s] => Head(aborts).force /\ eng.kept[s] = Head(aborts).of
<1>1. IInv /\ [Next]_vars => (Taken => Hits)
  <2> SUFFICES ASSUME IInv, [Next]_vars, Taken PROVE Hits
    OBVIOUS
  <2>1. CASE UNCHANGED vars \/ Resting
    <3>1. aborts' = aborts
      BY <2>1 DEF Resting, vars, queues
    <3> QED BY <3>1
  <2>2. CASE EventLoop
    <3>1. eng' = eng
      BY <2>2 DEF EventLoop, SubmitStarts, SubmitQueues, SubmitAbandoned, CancelFlags, CancelQueues, DiscardFlags,
        DiscardQueues, DiscardTimeout, Control, Wake, Close
    <3> QED BY <3>1
  <2>3. CASE Thread
    <3>1. th.pc # "except" /\ aborts # <<>>
      OBVIOUS
    <3>2. ~PruneRaises
      <4>1. "except" \in ThreadAt
        BY DEF ThreadAt
      <4>2. PruneRaises => th'.pc = "except"
        BY <4>1, GotoFields DEF PruneRaises, Fatal, Goto, IInv
      <4> QED BY <3>1, <4>2
    <3>3. DrainAbort
      BY <2>3, <3>1, <3>2 DEF Thread, At, DrainControl, AbortsDrained, Take, NothingMore, AdmitRefuses, AdmitStarts,
        EngineAdmits, AdmitEnds, Step, StepRaises, PublishToken, PublishFinished, FailActive, TokensPublished,
        FinishedPublished, MarkFailed, ActiveFailed, DrainQueued, DrainQueuedControls, FailPendingAborts
    <3> QED BY <3>3, AbortHits
  <2> QED BY <2>1, <2>2, <2>3 DEF Next
<1>2. IInv /\ [Next]_vars =>
        [(th.pc \in {"aborts1", "aborts2"} /\ aborts # <<>> /\ aborts' # aborts /\ th'.pc = th.pc) =>
           LET a == Head(aborts)
           IN  /\ \A r \in eng.live \ eng'.live : r = a.of
               /\ \A s \in Requests : eng'.kept[s] # eng.kept[s] => a.force /\ eng.kept[s] = a.of]_vars
  BY <1>1
<1> QED BY <1>2, SpecInv, PTL DEF Spec, AbortsHitTheirTarget

=============================================================================
