--------------------------- MODULE AsyncExecution ---------------------------
(***************************************************************************)
(* Asynchronous execution on the device                                    *)
(* (engine/async_scheduling/execution.py, output_pool.py): the host        *)
(* submits steps ahead of their results, the device runs them later in     *)
(* order.  A decode step takes its input tokens from the device, where the *)
(* previous steps left them, through tables the host keeps: a feedback row *)
(* and a penalty row per request, uploaded metadata that names the rows,   *)
(* and a cache of such metadata.  Rows, staging buffers, output buffers    *)
(* and metadata are reused; the properties say that no reuse ever shows.   *)
(*                                                                         *)
(* The k-th token of request s is [s |-> s, k |-> k]: what a token is does *)
(* not matter, only whose it is and which.                                 *)
(***************************************************************************)
EXTENDS Integers, Sequences, FiniteSets, SequencesExt

CONSTANTS
  Requests,
  MaxInflight,   \* async_max_inflight
  Workloads      \* what may be asked: the requests that come, those of them
                 \* with a sampling penalty, the tokens of each (max_tokens), and a bound on all these
                 \* together: unfinished prefill chunks, submissions that
                 \* raise, preemptions, synchronous steps

ASSUME AsyncExecutionAssumption ==
  /\ IsFiniteSet(Requests) /\ MaxInflight \in Nat \ {0}
  /\ \A w \in Workloads : w.penalized \subseteq w.requests /\ w.requests \subseteq Requests
                         /\ w.tokens \in Nat /\ w.upsets \in Nat

VARIABLES
  x,        \* the AsyncExecution object
  results,  \* its results, oldest ticket first
  staging,  \* contents of the host buffers uploads read from
  outputs,  \* contents of the host buffers results are copied to
  stream,   \* what the device has still to do
  dev,      \* device memory
  req,      \* the requests as the scheduler sees them
  wrong,    \* ghost: what was ever used and was not what it should be
  draining, \* the scheduler is inside _drain_discarded and _retire_ready
  upsets,   \* how many of what the workload bounds have happened
  load      \* the workload of this run

vars == <<x, results, staging, outputs, stream, dev, req, wrong, draining, upsets, load>>

Penalized == load.penalized
MaxTokens == load.tokens
NoRow == -1
Rows == 0..(Cardinality(Requests) - 1)
Token(s, k) == [s |-> s, k |-> k]
\* No token: uninitialised memory.
Garbage == [s |-> "nobody", k |-> -1]

\* Row tables: the row of each request and the stack of rows given back.
NewTable == [row |-> [s \in Requests |-> NoRow], free |-> <<>>]
Used(t) == {s \in Requests : t.row[s] # NoRow}

Init ==
  /\ load \in Workloads
  /\ x = [feedback |-> NewTable, penalty |-> NewTable, capacity |-> 0, ready |-> {},
          last |-> <<>>, cache |-> <<>>, pool |-> {}, outpool |-> {}]
  /\ results = <<>> /\ stream = <<>>
  /\ staging = <<>> /\ outputs = <<>>
  /\ dev = [meta |-> <<>>, feedback |-> [r \in Rows |-> Garbage], flags |-> [r \in Rows |-> {}],
            prev |-> <<>>, sampled |-> [s \in Requests |-> 0]]
  /\ req = [s \in Requests |-> [at |-> IF s \in load.requests THEN "new" ELSE "gone", accepted |-> 0, pending |-> 0]]
  /\ wrong = {}
  /\ draining = FALSE
  /\ upsets = 0

Inflight == {s \in Requests : \E i \in DOMAIN results : s \in Range(results[i].ids)}

-----------------------------------------------------------------------------
(* Rows, staging buffers and metadata, during one submission.  h is the    *)
(* object x with three fields more: step, the metadata of this step (0:    *)
(* none yet), up, the uploads of the step, and seeds, the penalty rows it  *)
(* fills.                                                                  *)

\* Mutant: a new row is numbered by the size of the table, whatever was given
\* back.
TakeRowBySize(t, s) ==
  IF t.row[s] # NoRow THEN t ELSE [t EXCEPT !.row[s] = Cardinality(Used(t))]

\* A request without a row gets the last one given back, or a new number.
TakeRow(t, s) ==
  CASE t.row[s] # NoRow -> t
    [] t.free # <<>> -> [row |-> [t.row EXCEPT ![s] = Last(t.free)], free |-> Front(t.free)]
    [] OTHER -> [t EXCEPT !.row[s] = Cardinality(Used(t))]

\* Mutant: a request without a row gives one back all the same.
GiveBackUnchecked(t, s) ==
  [row |-> [t.row EXCEPT ![s] = NoRow], free |-> Append(t.free, t.row[s])]

\* forget, for one table
GiveBack(t, s) ==
  IF t.row[s] = NoRow THEN t
  ELSE [row |-> [t.row EXCEPT ![s] = NoRow], free |-> Append(t.free, t.row[s])]

PowerOfTwo(n) == CHOOSE p \in {1, 2, 4, 8, 16} : p >= n /\ (p = 1 \/ p \div 2 < n)

\* _ensure_feedback
EnsureFeedback(h, ids) ==
  LET table == FoldLeft(TakeRow, h.feedback, ids)
      n == Cardinality(Used(table))
  IN  [h EXCEPT !.feedback = table, !.capacity = IF n > @ THEN PowerOfTwo(n) ELSE @]

Lowest(taken) == CHOOSE n \in 1..(Cardinality(taken) + 1) :
                   n \notin taken /\ \A m \in 1..(n - 1) : m \in taken

\* A staging buffer of the pool, or a new one that neither a result nor the
\* device holds.
StagingHeld ==
  UNION ({results[i].keep : i \in DOMAIN results} \cup {{u.buf : u \in Range(stream[i].up)} : i \in DOMAIN stream})

Acquire(h) ==
  LET mine == {u.buf : u \in Range(h.up)}
  IN  IF h.pool \ mine # {} THEN CHOOSE b \in h.pool \ mine : \A c \in h.pool \ mine : b <= c
      ELSE Lowest(StagingHeld \cup h.pool \cup mine)

\* The device tensors of metadata still referred to.
MetaHeld(h) ==
  {c.meta : c \in Range(h.cache)} \cup {u.meta : u \in Range(h.up)}
  \cup UNION {{stream[i].gather, stream[i].commit} \cup {u.meta : u \in Range(stream[i].up)} : i \in DOMAIN stream}

\* _metadata: of this step, from the cache, or uploaded now.  An entry is
\* cached when it no longer depends on tokens of the host.
Metadata(h, ids, publish) ==
  LET key == [ids |-> ids, publish |-> publish]
      reusable == Range(ids) \subseteq h.ready
      hit == SelectSeq(h.cache, LAMBDA c : c.key = key)
      full == EnsureFeedback(h, ids)
      new == Lowest(MetaHeld(h))
      column == [i \in DOMAIN ids |->
                   [row |-> full.feedback.row[ids[i]], seed |-> Token(ids[i], req[ids[i]].accepted),
                    ready |-> ids[i] \in h.ready, penalty |-> h.penalty.row[ids[i]],
                    publish |-> publish[i]]]
      cached == Append(h.cache, [key |-> key, meta |-> new])
  IN  CASE h.step # 0 -> h
        [] h.step = 0 /\ reusable /\ hit # <<>> ->
             [h EXCEPT !.step = hit[1].meta,
                       !.cache = Append(SelectSeq(@, LAMBDA c : c.key # key), hit[1])]
        [] OTHER ->
             [full EXCEPT !.step = new,
                          !.up = Append(@, [buf |-> Acquire(h), meta |-> new, column |-> column]),
                          !.cache = IF ~reusable THEN @
                                    ELSE IF Len(cached) > IF MaxInflight > 2 THEN MaxInflight ELSE 2
                                    THEN Tail(cached) ELSE cached]

\* Mutant: a recycled penalty row keeps the flags of its previous request.
SeedsAdded(rows, flags, r) == flags[r] \cup UNION {p.tokens : p \in {q \in Range(rows) : q.row = r}}

\* _ensure_penalties on the device: a new row is cleared and filled with the
\* accepted tokens.
Seeds(rows, flags, r) ==
  LET mine == {p \in Range(rows) : p.row = r}
  IN  IF mine = {} THEN flags[r] ELSE UNION {p.tokens : p \in mine}

\* _ensure_penalties on the host; it forgets all metadata.
EnsurePenalties(h, ids) ==
  LET new == SelectSeq(ids, LAMBDA s : s \in Penalized /\ h.penalty.row[s] = NoRow)
      table == FoldLeft(TakeRow, h.penalty, new)
  IN  IF new = <<>> THEN h
      ELSE [h EXCEPT !.penalty = table, !.step = 0, !.cache = <<>>,
                     !.seeds = [i \in DOMAIN new |->
                                  [row |-> table.row[new[i]],
                                   tokens |-> {Token(new[i], k) : k \in 1..req[new[i]].accepted}]]]

\* prepare_inputs: an unchanged batch reads the packed tokens of the previous
\* step (gather 0), any other gathers through its metadata.
PrepareInputs(h, ids, publish) == IF ids = h.last THEN h ELSE Metadata(h, ids, publish)

\* Mutant: an unfinished prefill chunk leaves the last batch as it was.
LastBatchKept(h, ids, publish) ==
  IF \A i \in DOMAIN ids : publish[i] THEN ids ELSE h.last

\* _last_batch_ids after a submission
LastBatch(h, ids, publish) == IF \A i \in DOMAIN ids : publish[i] THEN ids ELSE <<>>

\* apply_penalties
ApplyPenalties(h, ids, publish) ==
  IF Range(ids) \cap Penalized = {} THEN h ELSE Metadata(EnsurePenalties(h, ids), ids, publish)

Opened == [f \in DOMAIN x \cup {"step", "up", "seeds"} |->
             CASE f \in DOMAIN x -> x[f] [] f = "step" -> 0 [] OTHER -> <<>>]
Closed(h) == [f \in DOMAIN x |-> h[f]]

\* The contents of a buffer nothing will read are dropped.
StagingRead(ops) == UNION {{u.buf : u \in Range(ops[i].up)} : i \in DOMAIN ops}

Written(up) ==
  staging' = [b \in (DOMAIN staging \cap StagingRead(stream)) \cup {u.buf : u \in Range(up)} |->
                IF \E u \in Range(up) : u.buf = b THEN (CHOOSE u \in Range(up) : u.buf = b).column
                ELSE staging[b]]

\* The staging buffers of a step leave the pool until its result is collected.
PoolWithout(pool, used) == pool \ used

Op(ids, publish, prefill, input, h, out) ==
  [ids |-> ids, publish |-> publish, prefill |-> prefill, packed |-> ~prefill /\ ids = x.last,
   gather |-> input.step, commit |-> h.step, up |-> [i \in DOMAIN h.up |-> [buf |-> h.up[i].buf, meta |-> h.up[i].meta]],
   seeds |-> h.seeds, out |-> out]

-----------------------------------------------------------------------------
(* submit                                                                  *)

Batches == {b \in SeqOf(Requests, Cardinality(Requests)) : b # <<>> /\ IsInjective(b)}

\* What the scheduler may submit: prefill chunks, or decodes that do not go
\* past max_tokens.
Schedulable(ids, prefill) ==
  \A s \in Range(ids) :
    IF prefill THEN req[s].at \in {"new", "partial"}
    ELSE req[s].at = "live" /\ req[s].accepted + req[s].pending < MaxTokens

\* n more of what the workload bounds.
Upset(n) == upsets' = upsets + n /\ upsets' <= load.upsets

Submit(ids, publish, prefill) ==
  /\ ~draining /\ Len(results) < MaxInflight
  /\ Schedulable(ids, prefill)
  /\ \A i \in DOMAIN ids : ~publish[i] => prefill
  /\ LET input == IF prefill THEN Opened ELSE PrepareInputs(Opened, ids, publish)
         h == Metadata(ApplyPenalties(input, ids, publish), ids, publish)
         ready == {ids[i] : i \in {j \in DOMAIN ids : publish[j]}}
         used == {u.buf : u \in Range(h.up)}
         out == IF x.outpool # {} THEN CHOOSE b \in x.outpool : \A c \in x.outpool : b <= c
                ELSE Lowest({results[i].out : i \in DOMAIN results})
     IN  /\ x' = [Closed(h) EXCEPT !.ready = @ \cup ready, !.last = LastBatch(h, ids, publish),
                                   !.pool = PoolWithout(@, used), !.outpool = @ \ {out}]
         /\ Written(h.up)
         /\ stream' = Append(stream, Op(ids, publish, prefill, input, h, out))
         /\ results' = Append(results, [ids |-> ids, publish |-> publish, out |-> out, keep |-> used, ran |-> FALSE])
         /\ req' = [s \in Requests |->
              IF s \notin Range(ids) THEN req[s]
              ELSE IF s \in ready THEN [req[s] EXCEPT !.at = "live", !.pending = @ + 1]
              ELSE [req[s] EXCEPT !.at = "partial"]]
  /\ Upset(Cardinality({i \in DOMAIN ids : ~publish[i]}))
  /\ UNCHANGED <<outputs, dev, wrong, draining, load>>

\* run raises before the tokens are committed: uploads and penalty rows stay.
SubmitRaises(ids, publish, prefill) ==
  /\ ~draining /\ Len(results) < MaxInflight
  /\ Schedulable(ids, prefill)
  /\ \A i \in DOMAIN ids : ~publish[i] => prefill
  /\ LET input == IF prefill THEN Opened ELSE PrepareInputs(Opened, ids, publish)
         h == ApplyPenalties(input, ids, publish)
     IN  /\ x' = [Closed(h) EXCEPT !.pool = PoolWithout(@, {u.buf : u \in Range(h.up)})]
         /\ Written(h.up)
         /\ stream' = Append(stream, Op(ids, publish, prefill, input, h, 0))
  /\ Upset(1)
  /\ UNCHANGED <<results, outputs, dev, req, wrong, draining, load>>

-----------------------------------------------------------------------------
(* The device: the oldest submission, in stream order.                     *)

DeviceStep ==
  /\ stream # <<>>
  /\ LET op == Head(stream)
         meta == [t \in (DOMAIN dev.meta \cap MetaHeld(Opened)) \cup {u.meta : u \in Range(op.up)} |->
                    IF \E u \in Range(op.up) : u.meta = t
                    THEN staging[(CHOOSE u \in Range(op.up) : u.meta = t).buf]
                    ELSE dev.meta[t]]
         flags == [r \in Rows |-> Seeds(op.seeds, dev.flags, r)]
         n == DOMAIN op.ids
         inputs == CASE op.prefill -> <<>>
                     [] op.packed -> dev.prev
                     [] OTHER -> [i \in n |-> LET c == meta[op.gather][i]
                                              IN IF c.ready THEN dev.feedback[c.row] ELSE c.seed]
         tokens == [i \in n |-> Token(op.ids[i], dev.sampled[op.ids[i]] + 1)]
         column == meta[op.commit]
         sent == {i \in n : column[i].publish}
     IN  IF op.out = 0
         THEN dev' = [dev EXCEPT !.meta = meta, !.flags = flags] /\ UNCHANGED <<results, outputs, wrong>>
         ELSE /\ dev' = [meta |-> meta, prev |-> tokens,
                         feedback |-> [r \in Rows |->
                            LET i == {j \in sent : column[j].row = r}
                            IN  IF i = {} THEN dev.feedback[r] ELSE tokens[CHOOSE j \in i : TRUE]],
                         flags |-> [r \in Rows |-> flags[r] \cup {tokens[i] : i \in {j \in sent : column[j].penalty = r}}],
                         sampled |-> [s \in Requests |->
                            IF \E i \in n : op.ids[i] = s /\ op.publish[i] THEN dev.sampled[s] + 1 ELSE dev.sampled[s]]]
              /\ wrong' = wrong
                   \cup {"input" : i \in {j \in DOMAIN inputs : inputs[j] # Token(op.ids[j], dev.sampled[op.ids[j]])}}
                   \cup {"penalty" : i \in {j \in n : op.ids[j] \in Penalized /\
                            (column[j].penalty = NoRow \/
                             flags[column[j].penalty] # {Token(op.ids[j], k) : k \in 1..dev.sampled[op.ids[j]]})}}
              /\ outputs' = [b \in (DOMAIN outputs \cap {results[i].out : i \in DOMAIN results}) \cup {op.out} |-> IF b = op.out THEN tokens ELSE outputs[b]]
              /\ LET i == CHOOSE j \in DOMAIN results : ~results[j].ran /\ \A k \in 1..(j - 1) : results[k].ran
                 IN  results' = [results EXCEPT ![i].ran = TRUE]
  /\ stream' = Tail(stream)
  /\ staging' = [b \in StagingRead(Tail(stream)) |-> staging[b]]
  /\ UNCHANGED <<x, req, draining, upsets, load>>

-----------------------------------------------------------------------------
(* collect, forget and prepare_synchronous_execution, as the asynchronous  *)
(* scheduler calls them.                                                   *)

Discarded(s) == req[s].at = "retiring"

\* Mutant: the tokens are read without waiting for the event.
Arrived(r) == r.out \in DOMAIN outputs

\* synchronize_event: the step and its copy to the host are done.
Completed(r) == r.ran

Released(r) == [x EXCEPT !.pool = @ \cup r.keep, !.outpool = @ \cup {r.out}]

\* The oldest result: its tokens are appended to the requests still wanted,
\* of which those with an end token or max_tokens are finished.
Collect ==
  /\ ~draining /\ results # <<>> /\ Completed(results[1])
  /\ LET r == results[1]
         wanted == SelectSeq([i \in DOMAIN r.ids |-> i], LAMBDA i : r.publish[i] /\ ~Discarded(r.ids[i]))
         read == {r.ids[i] : i \in Range(wanted)}
     IN  /\ wrong' = wrong \cup {"output" : i \in {j \in Range(wanted) :
                       outputs[r.out][j] # Token(r.ids[j], req[r.ids[j]].accepted + 1)}}
         /\ \E done \in SUBSET read :
              /\ \A s \in read \ done : req[s].accepted + 1 < MaxTokens
              /\ req' = [s \in Requests |->
                   LET pending == IF \E i \in DOMAIN r.ids : r.ids[i] = s /\ r.publish[i]
                                  THEN req[s].pending - 1 ELSE req[s].pending
                   IN  [req[s] EXCEPT !.pending = pending,
                                      !.accepted = IF s \in read THEN @ + 1 ELSE @,
                                      !.at = IF s \in done THEN "retiring" ELSE @]]
         /\ x' = Released(r)
         /\ results' = Tail(results)
  /\ draining' = TRUE
  /\ UNCHANGED <<staging, outputs, stream, dev, upsets, load>>

\* _drain_discarded: leading results nobody wants are collected as well.
Drain ==
  /\ draining /\ results # <<>> /\ Completed(results[1])
  /\ LET r == results[1]
     IN  /\ \A s \in Range(r.ids) : Discarded(s)
         /\ req' = [s \in Requests |->
              IF \E i \in DOMAIN r.ids : r.ids[i] = s /\ r.publish[i]
              THEN [req[s] EXCEPT !.pending = @ - 1] ELSE req[s]]
         /\ x' = Released(r)
         /\ results' = Tail(results)
  /\ UNCHANGED <<staging, outputs, stream, dev, wrong, draining, upsets, load>>

\* forget
Forget(ids) ==
  [x EXCEPT !.feedback = FoldLeft(GiveBack, @, ids), !.penalty = FoldLeft(GiveBack, @, ids),
            !.ready = @ \ Range(ids), !.last = <<>>, !.cache = <<>>]

\* Mutant: the requests are forgotten although results refer to them.
RetiringNow == {s \in Requests : Discarded(s)}

\* _retire_ready: the retiring requests no result refers to.
RetireReady == {s \in Requests : Discarded(s)} \ Inflight

Retire ==
  /\ draining /\ (results # <<>> => \E s \in Range(results[1].ids) : ~Discarded(s))
  /\ IF RetireReady = {} THEN UNCHANGED x ELSE \E ids \in SetToSeqs(RetireReady) : x' = Forget(ids)
  /\ req' = [s \in Requests |-> IF s \in RetireReady THEN [req[s] EXCEPT !.at = "gone"] ELSE req[s]]
  /\ draining' = FALSE
  /\ UNCHANGED <<results, staging, outputs, stream, dev, wrong, upsets, load>>

Abort(s) ==
  /\ ~draining /\ req[s].at \notin {"retiring", "gone"}
  /\ req' = [req EXCEPT ![s].at = "retiring"]
  /\ draining' = TRUE
  /\ UNCHANGED <<x, results, staging, outputs, stream, dev, wrong, upsets, load>>

\* A preempted request is forgotten too; the scheduler lets nothing be in
\* flight then.
Preempt(s) ==
  /\ ~draining /\ results = <<>> /\ req[s].at = "live"
  /\ x' = Forget(<<s>>)
  /\ req' = [req EXCEPT ![s].at = "replay"]
  /\ Upset(1)
  /\ UNCHANGED <<results, staging, outputs, stream, dev, wrong, draining, load>>

\* prepare_synchronous_execution
Synchronous ==
  [x EXCEPT !.feedback = NewTable, !.penalty = NewTable, !.ready = {}, !.last = <<>>, !.cache = <<>>]

\* A synchronous step: a preempted request is rebuilt, others get a token the
\* host knows at once.
SyncStep(s) ==
  /\ ~draining /\ results = <<>>
  /\ \/ req[s].at = "replay"
        /\ req' = [req EXCEPT ![s].at = "live"] /\ UNCHANGED dev
     \/ req[s].at = "live" /\ req[s].accepted + 1 < MaxTokens
        /\ req' = [req EXCEPT ![s].accepted = @ + 1]
        /\ dev' = [dev EXCEPT !.sampled[s] = @ + 1]
  /\ stream = <<>>
  /\ x' = Synchronous
  /\ Upset(1)
  /\ UNCHANGED <<results, staging, outputs, stream, wrong, draining, load>>

Next ==
  \/ \E ids \in Batches, prefill \in BOOLEAN : \E publish \in [DOMAIN ids -> BOOLEAN] :
       Submit(ids, publish, prefill) \/ SubmitRaises(ids, publish, prefill)
  \/ DeviceStep \/ Collect \/ Drain \/ Retire
  \/ \E s \in Requests : Abort(s) \/ Preempt(s) \/ SyncStep(s)

Spec == Init /\ [][Next]_vars

-----------------------------------------------------------------------------
(* Properties.                                                             *)

\* Type invariant.
TypeOK ==
  /\ Len(results) <= MaxInflight
  /\ \A t \in {x.feedback, x.penalty} :
       t.row \in [Requests -> Rows \cup {NoRow}] /\ t.free \in Seq(Rows)
  /\ x.ready \subseteq Requests /\ x.capacity \in 0..16
  /\ \A s \in Requests : req[s].pending \in 0..MaxInflight /\ req[s].accepted \in 0..MaxTokens

\* Feedback and penalty rows (_ensure_feedback, _ensure_penalties, forget): no
\* two requests share one, a free row belongs to nobody, and every row lies
\* inside the device table of the capacity the host last gave it.
RowsExclusive ==
  /\ \A t \in {x.feedback, x.penalty} :
       /\ \A s, u \in Used(t) : t.row[s] = t.row[u] => s = u
       /\ \A s \in Used(t) : t.row[s] \notin Range(t.free)
  /\ \A s \in Used(x.feedback) : x.feedback.row[s] < x.capacity

\* Every decode step ran on the token each of its requests sampled last,
\* although the host did not know it when it submitted the step, and rows,
\* staging buffers and cached metadata were reused meanwhile.
FedBack == "input" \notin wrong

\* The penalties of a step counted exactly the tokens of the request so far.
PenaltiesCurrent == "penalty" \notin wrong

\* The host appends to each request the token that follows its accepted ones,
\* read from an output buffer no other step has written (HostOutputPool).
ReadsOwnOutput == "output" \notin wrong

\* Rows of a request stay until no result refers to it (assert_releasable).
RowsOutliveResults ==
  \A s \in Inflight : x.feedback.row[s] # NoRow

\* Rows belong to one request, and for as long as results need them.
RowsSound == TypeOK /\ RowsExclusive /\ RowsOutliveResults

\* What the device computes from is current: input tokens and penalty counts.
InputsCurrent == FedBack /\ PenaltiesCurrent

=============================================================================
