------------------------------ MODULE DPEngine ------------------------------
(***************************************************************************)
(* Data parallel attention (engine/dp_engine.py, dp_step.py): a frontend   *)
(* gives each request to one of several engine processes over a pipe, and  *)
(* every step goes to all of them, because their forwards meet in one      *)
(* collective.  Each engine numbers its requests itself; the frontend      *)
(* translates with tables it keeps per request and per chain, and forgets  *)
(* a chain when a routing snapshot no longer names it.                     *)
(*                                                                         *)
(* An engine is what the frontend sees of it: the requests it runs and its *)
(* chain index.  Chain ids, local ids and global ids are numbers; new ones *)
(* have never been used.                                                   *)
(***************************************************************************)
EXTENDS ChainIndex

CONSTANTS
  Ranks,      \* 0 .. data_parallel_size - 1
  Modes,      \* values of prefix_cache_mode considered: "chain", "radix"
  MaxAdmits,  \* bound on the ids the frontend gives to requests
  MaxChains,  \* bound on the chains created
  MaxFaults   \* bound on crashes and exceptions of workers

ASSUME DPEngineAssumption ==
  /\ Ranks \subseteq Nat /\ IsFiniteSet(Ranks) /\ 0 \in Ranks
  /\ Modes \subseteq {"chain", "radix"}
  /\ {MaxAdmits, MaxChains, MaxFaults} \subseteq Nat /\ {MaxRows, MaxTombstones} \subseteq Nat \ {0}

VARIABLES
  p,       \* the frontend's tables
  call,    \* the frontend's call under way: op "none", or waiting in _receive
  w,       \* the worker of each rank
  mode,    \* resolved_prefix_cache_mode
  chains,  \* how many chain ids exist
  told,    \* ghost: chains some client was told of
  faults,  \* crashes and exceptions so far
  failed   \* an exception no caller recovers from: only exit follows

vars == <<p, call, w, mode, chains, told, faults, failed>>

NoChain == 0
None == [op |-> "none"]

Init ==
  /\ p = [owners |-> <<>>, globals |-> <<>>, chainOwners |-> <<>>, chainSeqIds |-> {},
          chainSequences |-> <<>>, next |-> 1, active |-> [r \in Ranks |-> {}], closed |-> FALSE]
  /\ call = None
  /\ w = [r \in Ranks |-> [at |-> "free", in |-> <<>>, out |-> <<>>, index |-> NewIndex, run |-> {},
                           next |-> 1, previous |-> Snapshot(NewIndex), recreated |-> {}]]
  /\ mode \in Modes
  /\ chains = 0 /\ told = {} /\ faults = 0 /\ failed = FALSE

Put(f, k, v) == [x \in DOMAIN f \cup {k} |-> IF x = k THEN v ELSE f[x]]
Dead(r) == w[r].at = "dead"
Waiting == call.op # "none"
Faulty == faults < MaxFaults /\ faults' = faults + 1

-----------------------------------------------------------------------------
(* Calls of the frontend                                                   *)

\* _call: the method is sent to the ranks in order; sending to a worker that
\* died raises, and those before it have been sent the call.
Send(ranks, c) ==
  LET cut == {r \in ranks : \E q \in ranks : q <= r /\ Dead(q)}
  IN  /\ ~p.closed /\ ~Waiting /\ ~failed
      /\ w' = [r \in Ranks |-> IF r \in ranks \ cut THEN [w[r] EXCEPT !.in = Append(@, c)] ELSE w[r]]
      /\ IF cut = {}
         THEN call' = [op |-> c.op, args |-> c, pending |-> ranks, got |-> <<>>, error |-> FALSE]
              /\ UNCHANGED failed
         ELSE failed' = TRUE /\ UNCHANGED call

\* The ranks with the fewest active requests.
LeastLoaded ==
  {r \in Ranks : \A q \in Ranks : Cardinality(p.active[r]) <= Cardinality(p.active[q])}

\* admit_request: a chain goes to its owner, any other request to a rank with
\* the least load; of those the first, or in radix mode the one with the best
\* match (asked for with Query before).
AdmitTargets(c) ==
  CASE c \in DOMAIN p.chainOwners -> {p.chainOwners[c]}
    [] mode = "radix" -> LeastLoaded
    [] OTHER -> {CHOOSE r \in LeastLoaded : \A q \in LeastLoaded : r <= q}

AdmitRequest(c, fits) ==
  /\ p.next <= MaxAdmits /\ (mode = "chain" /\ (c = NoChain \/ fits = "differs") => chains < MaxChains)
  /\ \E r \in AdmitTargets(c) : Send({r}, [op |-> "admit", chain |-> c, fits |-> fits])
  /\ UNCHANGED <<p, mode, chains, told, faults>>

\* abort_request
AbortRequest(g) ==
  /\ g \in DOMAIN p.owners
  /\ Send({p.owners[g].rank}, [op |-> "abort", seq |-> p.owners[g].seq, gid |-> g])
  /\ UNCHANGED <<p, mode, chains, told, faults>>

\* discard_chain; without an owner, or of another rank, nothing is sent.
DiscardChain(c, g) ==
  /\ g \in DOMAIN p.owners /\ c \in DOMAIN p.chainOwners
  /\ p.owners[g].rank = p.chainOwners[c]
  /\ Send({p.owners[g].rank}, [op |-> "discard", chain |-> c, seq |-> p.owners[g].seq, gid |-> g])
  /\ UNCHANGED <<p, mode, chains, told, faults>>

\* invalidate_chain of a chain without a sequence (else it is discard_chain).
InvalidateChain(c) ==
  /\ ~(c \in DOMAIN p.chainSequences /\ p.chainSequences[c] \in DOMAIN p.owners)
  /\ Send({IF c \in DOMAIN p.chainOwners THEN p.chainOwners[c] ELSE 0}, [op |-> "invalidate", chain |-> c])
  /\ UNCHANGED <<p, mode, chains, told, faults>>

\* The calls that ask every rank and change nothing: prefix_cache_match,
\* worker_load, worker_info.
Query == Send(Ranks, [op |-> "query"]) /\ UNCHANGED <<p, mode, chains, told, faults>>

\* step
Step == Send(Ranks, [op |-> "step"]) /\ UNCHANGED <<p, mode, chains, told, faults>>

-----------------------------------------------------------------------------
(* Workers (_worker_main)                                                  *)

\* A reply of rank r with its index then; the routing snapshot is sent when it
\* changed.
Reply(v, result) ==
  LET now == Snapshot(v.index)
  IN  [v EXCEPT !.in = Tail(@), !.at = "free", !.previous = now,
                !.out = Append(@, [ok |-> TRUE, result |-> result,
                                   known |-> IF now = v.previous THEN {} ELSE {Known(v.index)}])]

\* An exception: no snapshot is sent.
Raise(v) == [v EXCEPT !.in = Tail(@), !.at = "free", !.out = Append(@, [ok |-> FALSE])]

\* LLMEngine.admit_request: the worker after it; new is the next chain id.
\* A chain that is in use or unknown is refused; a prompt that does not extend
\* the chain replaces it by a new chain with the same sequence id; an append
\* that does not is refused.
Admitted(v, c, fits, new) ==
  LET i == v.index
      seq == i.rec[c].seq
      fresh == Create(i, new, v.next)
  IN  CASE mode = "radix" ->
             Reply([v EXCEPT !.run = @ \cup {v.next}, !.next = @ + 1], [seq |-> v.next, chain |-> NoChain])
        [] mode = "chain" /\ c = NoChain ->
             IF ~CanAdmit(i) THEN Raise(v)
             ELSE Reply([v EXCEPT !.index = fresh, !.run = @ \cup {v.next}, !.next = @ + 1],
                        [seq |-> v.next, chain |-> new])
        [] OTHER ->
             IF c \notin InState(i, "idle") THEN Raise(v)
             ELSE CASE fits = "extends" ->
                         Reply([v EXCEPT !.index = SetState(i, c, "active"), !.run = @ \cup {seq}],
                               [seq |-> seq, chain |-> c])
                    [] fits = "differs" ->
                         Reply([v EXCEPT !.index = Create(Invalidate(i, c), new, seq), !.run = @ \cup {seq},
                                         !.recreated = @ \cup {seq}],
                               [seq |-> seq, chain |-> new])
                    [] fits = "append differs" -> Raise(v)

\* LLMEngine.abort_request: the request and its chain, if it has one.
Aborted(v, seq) ==
  Reply([v EXCEPT !.run = @ \ {seq}, !.index = InvalidateOf(@, seq)], 0)

\* Mutant: the request of a discarded chain goes on.
DiscardedStillRuns(v, c, seq) ==
  CASE c \notin DOMAIN v.index.rec -> Reply(v, FALSE)
    [] c \in DOMAIN v.index.rec /\ v.index.rec[c].seq # seq -> Raise(v)
    [] OTHER -> Reply([v EXCEPT !.index = Invalidate(@, c)], TRUE)

\* LLMEngine.discard_chain
Discarded(v, c, seq) ==
  CASE c \notin DOMAIN v.index.rec -> Reply(v, FALSE)
    [] c \in DOMAIN v.index.rec /\ v.index.rec[c].seq # seq -> Raise(v)
    [] OTHER -> Reply([v EXCEPT !.run = @ \ {seq}, !.index = Invalidate(@, c)], TRUE)

\* LLMEngine.invalidate_chain; the scheduler keeps the request.
Invalidated(v, c) ==
  IF c \notin DOMAIN v.index.rec THEN Raise(v) ELSE Reply([v EXCEPT !.index = Invalidate(@, c)], 0)

Handled(v, new) ==
  LET m == Head(v.in)
  IN  CASE m.op = "admit" -> Admitted(v, m.chain, m.fits, new)
        [] m.op = "abort" -> Aborted(v, m.seq)
        [] m.op = "discard" -> Discarded(v, m.chain, m.seq)
        [] m.op = "invalidate" -> Invalidated(v, m.chain)
        [] m.op = "query" -> Reply(v, 0)

Serves(r, ops) == w[r].at = "free" /\ w[r].in # <<>> /\ Head(w[r].in).op \in ops
Control == {"admit", "abort", "discard", "invalidate", "query"}

HandleControl(r) ==
  /\ Serves(r, Control)
  /\ w' = [w EXCEPT ![r] = Handled(@, chains + 1)]
  /\ chains' = IF chains + 1 \in DOMAIN w'[r].index.rec THEN chains + 1 ELSE chains
  /\ UNCHANGED <<p, call, mode, told, faults, failed>>

\* An exception in a control operation, before it changed anything, or in a
\* step before the collective.
HandleRaises(r) ==
  /\ Serves(r, Control \cup {"step"}) /\ Faulty
  /\ w' = [w EXCEPT ![r] = Raise(@)]
  /\ UNCHANGED <<p, call, mode, chains, told, failed>>

\* Mutant: an engine without requests skips the collective.
JoinsWithWork(v) == v.run # {}

\* LLMEngine.step runs the model even without requests.
Joins(v) == TRUE

\* The first half of a step: scheduling, which may reclaim idle chains for the
\* requests it runs, one at a time ...
StepReclaim(r) ==
  /\ Serves(r, {"step"}) /\ w[r].run # {} /\ IdleResident(w[r].index) # {}
  /\ w' = [w EXCEPT ![r].index = Reclaimed(@)]
  /\ UNCHANGED <<p, call, mode, chains, told, faults, failed>>

\* ... up to coordinate_dp_step.
StepSchedule(r) ==
  /\ Serves(r, {"step"})
  /\ w' = [w EXCEPT ![r].at = IF Joins(w[r]) THEN "in" ELSE "out"]
  /\ UNCHANGED <<p, call, mode, chains, told, faults, failed>>

\* coordinate_dp_step and the forward: all ranks meet.
Meet ==
  /\ \A r \in Ranks : w[r].at = "in"
  /\ w' = [r \in Ranks |-> [w[r] EXCEPT !.at = "out"]]
  /\ UNCHANGED <<p, call, mode, chains, told, faults, failed>>

\* The second half: some requests have a token, some of these are finished, and
\* their chains, if they have any, become idle.
StepFinish(r) ==
  /\ w[r].at = "out"
  /\ \E rows \in SUBSET w[r].run : \E done \in SUBSET rows :
       \E order \in SetToSeqs(UNION {ChainsOf(w[r].index, s) : s \in done}) :
         LET v == [w[r] EXCEPT !.run = @ \ done, !.index = Idled(@, order)]
         IN  w' = [w EXCEPT ![r] = Reply(v, [rows |-> rows, done |-> done])]
  /\ UNCHANGED <<p, call, mode, chains, told, faults, failed>>

\* The step raises after the collective, or inside it when a peer is gone.
StepRaises(r) ==
  /\ \/ w[r].at = "out"
     \/ w[r].at = "in" /\ \E q \in Ranks : Dead(q)
  /\ IF w[r].at = "out" THEN Faulty ELSE UNCHANGED faults
  /\ w' = [w EXCEPT ![r] = Raise(@)]
  /\ UNCHANGED <<p, call, mode, chains, told, failed>>

Killed(v) == [v EXCEPT !.at = "dead", !.in = <<>>, !.run = {}, !.index = NewIndex, !.recreated = {}]

\* The process dies; what it sent can still be read.
Crash(r) ==
  /\ ~Dead(r) /\ Faulty
  /\ w' = [w EXCEPT ![r] = Killed(@)]
  /\ UNCHANGED <<p, call, mode, chains, told, failed>>

-----------------------------------------------------------------------------
(* _receive                                                                *)

\* Mutant: the end of a process is not seen.
GoneUnseen(r) == r \notin Ranks

\* The frontend sees that a process ended: its pipe does, is_alive is false.
Gone(r) == Dead(r)

\* _terminate, and the exception raised after it.
Terminate ==
  /\ p' = [p EXCEPT !.closed = TRUE]
  /\ w' = [r \in Ranks |-> [Killed(w[r]) EXCEPT !.out = <<>>]]
  /\ call' = None
  /\ UNCHANGED <<mode, chains, told, faults, failed>>

\* Mutant: an identity is given up with the turn.
ReleaseAnyIdentity(t, G) ==
  [t EXCEPT !.owners = Drop(@, G), !.globals = Drop(@, {t.owners[g] : g \in G \cap DOMAIN t.owners})]

\* _release_request_identity, for each of some requests: not while a chain
\* keeps it.
ReleaseRequestIdentity(t, G) ==
  LET free == (G \cap DOMAIN t.owners) \ t.chainSeqIds
  IN  [t EXCEPT !.owners = Drop(@, free), !.globals = Drop(@, {t.owners[g] : g \in free})]

\* The chains of which the owner's snapshot no longer knows.
ForgetChains(t, C) ==
  LET G == {t.chainSequences[c] : c \in C \cap DOMAIN t.chainSequences}
  IN  ReleaseRequestIdentity([t EXCEPT !.chainOwners = Drop(@, C), !.chainSequences = Drop(@, C),
                                       !.chainSeqIds = @ \ G], G)

\* Mutant: chains of every rank are compared with the snapshot.
ExpiredAnywhere(t, r, known) == {c \in DOMAIN t.chainOwners : c \notin known}

\* The chains of rank r its snapshot does not name.
Expired(t, r, known) == {c \in DOMAIN t.chainOwners : t.chainOwners[c] = r /\ c \notin known}

\* The tables after a snapshot of rank r (none, or its known chains).
AfterSnapshot(t, r, snapshot) ==
  ForgetChains(t, UNION {Expired(t, r, known) : known \in snapshot})

\* Mutant: the first error ends the call, other replies stay in their pipes.
PendingUnlessError(pending, r, ok) == IF ok THEN pending \ {r} ELSE {}

\* An error does not keep _receive from reading the other replies.
PendingAfter(pending, r, ok) == pending \ {r}

\* A reply; a failed step tears the group down.
Receive(r) ==
  /\ Waiting /\ r \in call.pending /\ w[r].out # <<>>
  /\ LET m == Head(w[r].out)
         seen == [w EXCEPT ![r].out = Tail(@)]
     IN  IF ~m.ok /\ call.op = "step" THEN Terminate
         ELSE /\ w' = seen
              /\ call' = [call EXCEPT !.pending = PendingAfter(@, r, m.ok),
                                      !.error = @ \/ ~m.ok,
                                      !.got = IF m.ok THEN Put(@, r, m.result) ELSE @]
              /\ p' = IF m.ok THEN AfterSnapshot(p, r, m.known) ELSE p
              /\ UNCHANGED <<mode, chains, told, faults, failed>>

\* The pipe of a dead worker ends.
ReceiveEnd(r) == Waiting /\ r \in call.pending /\ w[r].out = <<>> /\ Gone(r) /\ Terminate

\* Nothing to read, and a worker is gone or the deadline passed.  The deadline
\* (half an hour) is taken to pass only when the workers called wait in the
\* collective for one that will not come.
GivesUp ==
  \/ \E r \in Ranks : Gone(r)
  \/ \A r \in call.pending : w[r].at = "in" /\ \E q \in Ranks : w[q].at # "in" /\ w[q].in = <<>>

TimesOut == Waiting /\ (\A r \in call.pending : w[r].out = <<>>) /\ call.pending # {} /\ GivesUp /\ Terminate

-----------------------------------------------------------------------------
(* What the frontend does with the replies                                 *)

\* admit_request
AfterAdmit(t, r, a) ==
  LET id == [rank |-> r, seq |-> a.seq]
      known == id \in DOMAIN t.globals
      g == IF known THEN t.globals[id] ELSE t.next
      u == [t EXCEPT !.globals = Put(@, id, g), !.owners = Put(@, g, id),
                     !.next = IF known THEN @ ELSE @ + 1, !.active[r] = @ \cup {g}]
  IN  IF a.chain = NoChain THEN u
      ELSE [u EXCEPT !.chainOwners = Put(@, a.chain, r), !.chainSeqIds = @ \cup {g},
                     !.chainSequences = Put(@, a.chain, g)]

\* abort_request and discard_chain
AfterAbort(t, g, r) ==
  ReleaseRequestIdentity([t EXCEPT !.active[r] = @ \ {g}, !.chainSeqIds = @ \ {g}], {g})

\* step: the rows of rank r are translated, and what is done is given up
Translates(t, r, rows) == \A s \in rows : [rank |-> r, seq |-> s] \in DOMAIN t.globals

AfterStep(t, got) ==
  LET over == [r \in Ranks |-> {t.globals[[rank |-> r, seq |-> s]] : s \in got[r].done}]
  IN  ReleaseRequestIdentity([t EXCEPT !.active = [r \in Ranks |-> t.active[r] \ over[r]]],
                             UNION {over[r] : r \in Ranks})

\* The call ends.  A row that cannot be translated raises KeyError out of step.
Return ==
  /\ Waiting /\ call.pending = {}
  /\ call' = None
  /\ LET a == call.args
         r == CHOOSE q \in Ranks : q \in DOMAIN call.got
     IN  CASE call.error \/ call.op \in {"query", "invalidate"} -> UNCHANGED <<p, told, failed>>
           [] ~call.error /\ call.op = "admit" ->
                p' = AfterAdmit(p, r, call.got[r]) /\ told' = told \cup ({call.got[r].chain} \ {NoChain})
                /\ UNCHANGED failed
           [] ~call.error /\ (call.op = "abort" \/ (call.op = "discard" /\ call.got[r])) ->
                p' = AfterAbort(p, a.gid, r) /\ UNCHANGED <<told, failed>>
           [] ~call.error /\ call.op = "discard" /\ ~call.got[r] -> UNCHANGED <<p, told, failed>>
           [] ~call.error /\ call.op = "step" ->
                IF \E q \in Ranks : ~Translates(p, q, call.got[q].rows)
                THEN failed' = TRUE /\ UNCHANGED <<p, told>>
                ELSE p' = AfterStep(p, call.got)
                     /\ UNCHANGED <<told, failed>>
  /\ UNCHANGED <<w, mode, chains, faults>>

\* exit: it ends with _terminate whatever the workers answer.
Exit == ~p.closed /\ ~Waiting /\ Terminate

Next ==
  \/ \E c \in told \cup {NoChain}, fits \in {"extends", "differs", "append differs"} :
       (c = NoChain => fits = "extends") /\ AdmitRequest(c, fits)
  \/ \E g \in 1..MaxAdmits : AbortRequest(g)
  \/ \E c \in told : InvalidateChain(c) \/ \E g \in 1..MaxAdmits : DiscardChain(c, g)
  \/ Query \/ Step \/ Meet \/ Return \/ TimesOut \/ Exit
  \/ \E r \in Ranks :
       \/ HandleControl(r) \/ HandleRaises(r) \/ Crash(r)
       \/ StepReclaim(r) \/ StepSchedule(r) \/ StepFinish(r) \/ StepRaises(r)
       \/ Receive(r) \/ ReceiveEnd(r)

Spec == Init /\ [][Next]_vars

\* A worker that has work goes on with it, and the frontend reads what there is.
FairSpec ==
  /\ Spec
  /\ WF_vars(Meet) /\ WF_vars(Return) /\ WF_vars(TimesOut)
  /\ \A r \in Ranks : /\ WF_vars(HandleControl(r)) /\ WF_vars(StepSchedule(r)) /\ WF_vars(StepFinish(r))
                      /\ WF_vars(Receive(r)) /\ WF_vars(ReceiveEnd(r))

-----------------------------------------------------------------------------
(* Properties                                                              *)

Quiet == ~Waiting /\ ~p.closed /\ ~failed
Alive == {r \in Ranks : ~Dead(r)}
Id(r, s) == [rank |-> r, seq |-> s]

\* Type invariant; an engine gives a sequence id to one chain at most.
TypeOK ==
  /\ p.next \in 1..(MaxAdmits + 1) /\ chains \in 0..MaxChains /\ faults \in 0..MaxFaults
  /\ DOMAIN p.chainOwners \subseteq told /\ p.chainSeqIds \subseteq 1..MaxAdmits
  /\ \A r \in Ranks :
       /\ w[r].at \in {"free", "in", "out", "dead"} /\ p.active[r] \subseteq 1..MaxAdmits
       /\ Len(w[r].index.tomb) <= MaxTombstones /\ Cardinality(DOMAIN w[r].index.rec) <= MaxRows
       /\ \A s \in 1..MaxAdmits : Cardinality(ChainsOf(w[r].index, s)) <= 1

\* _owners and _global_ids are inverse to each other, and a chain that is
\* resident keeps its sequence id across turns, evictions of other chains and
\* expired tombstones.  (Not so a chain that was recreated: RunningKnown.)
IdentitiesKept ==
  /\ \A g \in DOMAIN p.owners : p.owners[g] \in DOMAIN p.globals /\ p.globals[p.owners[g]] = g
  /\ \A i \in DOMAIN p.globals : p.globals[i] \in DOMAIN p.owners /\ p.owners[p.globals[i]] = i
  /\ Quiet =>
       \A r \in Alive : \A c \in DOMAIN w[r].index.rec :
         LET s == w[r].index.rec[c].seq
         IN  s \notin w[r].recreated =>
               /\ c \in DOMAIN p.chainSequences /\ Id(r, s) \in DOMAIN p.globals
               /\ p.globals[Id(r, s)] = p.chainSequences[c]

\* Between calls the active set of a rank, by which requests are balanced and
\* is_finished decides, is the set of requests the rank runs.
ActiveExact ==
  Quiet => \A r \in Alive :
    w[r].recreated = {} =>
      /\ \A s \in w[r].run : Id(r, s) \in DOMAIN p.globals
      /\ p.active[r] = {p.globals[Id(r, s)] : s \in w[r].run}

\* The frontend sends a chain to the rank that knows it, resident or as a
\* tombstone (so that a client learns the chain is gone), and remembers no
\* others: _chain_owners does not grow without bound.
ChainsRouted ==
  Quiet => \A r \in Alive :
    {c \in DOMAIN p.chainOwners : p.chainOwners[c] = r} = Known(w[r].index) \cap told

\* A chain is active while its request runs and only then: it is never evicted
\* for capacity nor resumed by a second writer.
OneWriter ==
  \A r \in Alive :
    mode = "chain" =>
      /\ {w[r].index.rec[c].seq : c \in InState(w[r].index, "active")} \subseteq w[r].run
      /\ w[r].run \ w[r].recreated \subseteq {w[r].index.rec[c].seq : c \in InState(w[r].index, "active")}

\* Between calls no worker is at work or inside the collective and no reply is
\* unread, so the next call gets its own answers, also after one that raised.
QuietBetweenCalls ==
  Quiet => \A r \in Ranks : /\ w[r].out = <<>>
                           /\ ~Dead(r) => w[r].at = "free" /\ w[r].in = <<>>

\* The group is torn down inside a call only after a worker failed: no step
\* leaves ranks waiting for one that does not enter the collective.
TornDownForCause == [][p'.closed /\ Waiting => faults > 0]_vars

\* Every call ends, although workers die or raise inside or outside of it.
CallEnds == Waiting ~> ~Waiting

\* Every request a worker runs has a global id, so that step can translate its
\* rows ("the returned seq_id is the resident sequence identity and remains
\* stable across turns").
RunningKnown ==
  Quiet => \A r \in Alive : \A s \in w[r].run : Id(r, s) \in DOMAIN p.globals

\* Requests and chains are found where they are, under the identity clients
\* were given, and nothing else is remembered (_owners, _global_ids,
\* _chain_owners, _chain_sequences).
RoutingSound == TypeOK /\ IdentitiesKept /\ ChainsRouted

\* When a call is over it is over on every rank, and the frontend's account of
\* what runs is that of the workers (_receive, _active).
CallsSettled == ActiveExact /\ QuietBetweenCalls

=============================================================================
