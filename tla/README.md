# A TLA+ model of the SparseEngine request engine

SparseEngine serves large language models with sparse KV caches.  This
directory models the part of it that keeps requests, KV memory and processes
in order: the dispatcher thread of the HTTP server, the scheduler, the
synchronous and the asynchronous engine step, execution ahead of the host, the
tensor parallel commands, the prefix cache, and the data parallel frontend with
its chain cache.  The modules are checked with TLC on small instances; the
central invariants of the slot pool, the prefix index, the tensor parallel
commands and the dispatcher are proved with TLAPS for every instance.

All source paths below are relative to `src/src/sparseengine/`.

## 1. The system

| part | source | state | operations |
|---|---|---|---|
| dispatcher | `entrypoints/openai/dispatcher.py` | admission, abort and control queues, active requests, request tokens | `submit`, `cancel`, `discard`, `control`, `close`, dispatcher thread |
| data parallel frontend | `engine/dp_engine.py`, `dp_step.py` | owners of requests and chains, pipes to the replicas, the per-step collective | `admit_request`, `abort_request`, `step`, `discard_chain`, ... |
| engine | `engine/llm_engine.py` | `_pending_slot_releases`, outputs of the last step | `admit_request`, `abort_request`, `step` |
| scheduler | `engine/scheduler.py` | `waiting`, `decoding`, waiting times, `_async_inflight` | `add`, `abort`, `schedule`, `postprocess` |
| sequence | `engine/sequence.py` | status, prefilled tokens, chunk, outputs, replay cursor | `append_token`, `*_recompute_replay` |
| decode reservations | `engine/cache_manager/decode_reservation.py` | end of each request's decode window | `acquire_many`, `outstanding`, `release` |
| runtime state, slot pool | `engine/runtime_state.py`, `engine/cache_manager/standard.py` | free slots, row lengths, resident requests | budgets, costs, allocation, `free_seq` |
| asynchronous scheduler | `engine/async_scheduling/scheduler.py` | tickets in flight, `discarded`, `retiring` | `step`, `abort`, `_submit`, `_drain_discarded`, `_retire_ready` |
| asynchronous execution | `engine/async_scheduling/execution.py`, `output_pool.py` | results by ticket, feedback and penalty rows, metadata cache, host buffers | `submit`, `collect`, `forget` |
| model runner, TP commands | `engine/model_runner.py` | shared command buffer, events, status bytes, release markers | `call`, `loop`, `free_slots*` |
| prefix cache | `engine/prefix_cache.py`, `engine/cache_manager/prefix_cache_mixin.py` | radix tree, references, residency, capacity views, membership tree | insert, look up, attach, finish, evict, back up, promote, demote |
| chain cache | `engine/chain_cache.py` | chains by state and last use, tombstones | create, resume, finish, evict, invalidate |

`PROJECT.json` lists these and the remaining parts (sparse methods, other cache
layouts, CUDA graphs, HTTP protocol, router, start-up) with the reason each one
is or is not modelled.

**Interaction.**  The event loop of the HTTP server puts requests, aborts and
control calls into queues; one dispatcher thread takes them out, owns the engine
and calls `step()` while there is work.  `step()` asks `Scheduler.schedule()`
for one batch, either prefill chunks or decodes; `schedule()` asks the runtime
state for budgets and decode windows; the model runner broadcasts the command to
the ranks, which allocate the slots and run the batch; `postprocess` accounts
for the tokens; finished, preempted and failed requests are released through
`_release_slots_transaction`.  With asynchronous scheduling, batches are
submitted before the results of earlier ones are collected, and the device takes
its input tokens from its own memory.  With data parallelism the engine is one
of several processes, each with its own scheduler and caches, whose forwards
meet in a collective.

**What is hard.**

* A request may be preempted to free slots.  It is then rebuilt: its prompt is
  prefilled again and its own outputs are fed back one by one (*replay*)
  before it produces anything new.
* Slots are promised before they are used: decode windows and the rest of an
  admitted prompt are claims on the same free slots.
* A model run or a release can fail when part of it has happened, on one rank
  and not on another.  A release that failed is *owed*: `step()` refuses to go
  on until `abort_request` has been retried.
* With tickets in flight a request can end while later tickets still write its
  KV and carry outputs for it, and every table the device reads through is
  reused for others.
* `cancel()` and admission run in different threads; the next turn of a chain
  reuses the sequence id of the one a late abort was meant for.
* Answers have to be told apart: a command that timed out, a rank that raised,
  a worker that died inside the collective.
* Capacity is computed incrementally and cached under an epoch, while blocks
  move between device and host.

## 2. Modules

| module | models | extends |
|---|---|---|
| `RequestService` | abstract: what a client of the engine may rely on | |
| `Scheduler` | `schedule()` and the data it works on | |
| `SyncEngine` | `admit_request`, `abort_request`, `_step_sync`, failures | `Scheduler` |
| `AsyncEngine` | `AsyncScheduler.step` and `abort` | `SyncEngine` |
| `AsyncExecution` | `AsyncExecution`, `HostOutputPool` and the device behind them | |
| `Dispatcher` | `AsyncEngineDispatcher`: event loop and dispatcher thread | |
| `TensorParallel` | `ModelRunner.call`, `loop`, the status synchronisations, releases | |
| `PrefixTree` | abstract: what the radix backend promises | |
| `RadixTree` | `RadixTreeBackend` | |
| `RoutingMembership` | `_PrefixCacheRoutingMembership`, `routing_snapshot` | |
| `PrefixIndex` | `RadixPrefixIndex` and the lookup memo of the mixin | |
| `ChainIndex` | `ChainCacheIndex` (operators on an index) | |
| `DPEngine` | `DPAttentionEngine`, `_worker_main`, `coordinate_dp_step` | `ChainIndex` |
| `MC*` | instances for TLC | |
| `SchedulerLemmas`, `SyncEngineProofs`, `SyncAccountProofs`, `SyncServiceProofs`, `PrefixIndexProofs`, `TensorParallelProofs`, `DispatcherProofs`, `DPEngineProofs` | lemmas and theorems | |

**Scheduler, SyncEngine, AsyncEngine.**  `schedule()` is long and its
correctness is in its loops, so a call is a sequence of small steps, one per
loop iteration, with `pc` saying where the engine thread stands: `begin`
(start the waiting times), `reserve` (renew decode windows), `prefill` and
`decode` (the two selection passes), `scheduled`, or `drain`
(`AsyncDrainRequired`).  After it, `post` goes through the batch and `reclaim`
cleans up after a failed run; `AsyncEngine` adds `submit`, `collect`, `accept`
and `retire`.  Requests arrive and are aborted only at `idle`, because one
thread drives the engine.

* `sq[r]` is the `Sequence`: `prefilled` = `num_prefilled_tokens`, `chunk` =
  `current_chunk_size`, `done` = `num_completion_tokens`, `pend` =
  `num_pending_outputs`, `cursor` = `recompute_replay_cursor`, `checkpoint` =
  the progress mark a handover of the pool is compared with.
* `window[r]` is the end of the decode window, `free` the pool's free count,
  `kv[r]` the row length, `resident` the set `_resident_seq_ids`; `scan` holds
  the locals of `_schedule_impl`.
* Sums in the code (outstanding windows, reserved prefill tokens, used slots)
  are cardinalities of sets of token positions `<<request, position>>`: the
  same number, and one the prover can reason about.
* `AcquireWindow`, `PreemptUnreserved`, `DrainUnreserved`: window renewal.
  `PrefillSkip/Defer/Take`, `SchedulePrefill`, `NextBucket`: the prefill pass.
  `DecodeSkip/Take/Block`, `ScheduleDecode`, `Preempt*`, `Drain*`,
  `ScheduleNothing`: the decode pass.
* `AddRequest` to `EndStep` are `admit_request`, `abort_request` and the parts
  of `_step_sync` in order; `Released`/`ReleaseFails` the outcomes of
  `_release_slots_transaction`.  `TrySubmit` to `BookEnds` are `_submit`,
  `Collect` to `CollectEnds` the collection in `step()`; `SyncStep` is the
  synchronous step taken when nothing could be submitted.
* Token values: a sampled token is an EOS or not.  Time: a waiting request has
  waited 60 s or has not.  One slot pool, chunked prefill, no prefix or chain
  cache, no multimodal input.  A run may fail before or after allocation and a
  release before or after it took effect.

**Dispatcher.**  A method of the event loop is cut where the dispatcher thread
can see its effect: `cancel()` sets the flag, then reads the sequence id and
queues the abort; `submit()` re-checks failure and closing under the lock.  The
thread goes through the phases of `_run` (`th.pc`): controls, aborts, waiting
for work, admission (which calls the engine between two reads of the flag),
step, publication of tokens and of finished requests, and the failure path:
mark failed, fail the active requests, drain the three queues.  The engine is
what `RequestService` says, with chains that outlive a turn.  An exception can
come from the engine, a snapshot, a detokenizer, or from publishing a finished
request.

**TensorParallel.**  A command is written to one buffer, an event per worker
says it is there, and rank 0 waits in one of three ways: for the read, for a
status byte and a completion event, or in a collective (external).  A release
leaves a marker on each rank that makes a retry harmless where it succeeded and
raise where the outcome is unknown.

**AsyncExecution.**  The host tables (`x`) are the fields of the class; the
device is a queue of operations (`stream`) it runs later, and memory (`dev`).
The k-th token of request s is the pair of both, so a wrong row, a stale cache
entry or a buffer overwritten too early shows as a token that is not the one
due; the ghost `wrong` records it.

**PrefixTree, RadixTree, RoutingMembership, PrefixIndex.**  `RadixTree` has the
edges with their segments, locations and leaves, and implements `PrefixTree`, a
set of blocks closed under parents.  `PrefixIndex` works on that set, with
references, priorities, device and host payloads and transfers under way, the
incrementally kept freeable set, and the four capacity views with their epoch.
The membership tree is the persistent AVL tree routers read.

**ChainIndex, DPEngine.**  The frontend is its tables (`p`) and the call it
waits in; a worker is its two pipes, the requests it runs, and a chain index.
A call goes to its ranks in order, is read in `_receive` rank by rank in any
order, and ends with the frontend's bookkeeping.  A step is cut at the
collective; idle chains are reclaimed before it, one at a time (`StepReclaim`).  Capacity of the chain cache is a number of rows.

## 3. Runs

| run | instance | checks | shows |
|---|---|---|---|
| `sync_faults` | 3 requests, 6 slots, 2 faults | `TypeOK`, `SlotLedger`, `BatchFits`, `RequestsAccounted`, `ReplayFaithful` | state stays consistent through failed runs, failed releases and retried aborts |
| `sync_service` | the same, no faults, decode affinity | `NoCapacityError`, `ImplementsService`, `PromisesKept`, `EveryRequestEnds` | the engine implements `RequestService`; slots are not promised twice; preemption and replay terminate |
| `sync_finish_fault` | 1 fault | `EndIsFinal` | **violated**, finding 1 |
| `async_engine` | 3 requests, 2 tickets, 1 fault | `AsyncAccounted`, `AsyncProgress`, `NoCapacityError`, `ReleasedAfterTickets`, `ImplementsService`, `AsyncEnds` | no release under a ticket, no leak, exact pending counts, late outputs dropped, everybody ends |
| `dispatcher` | 2 turns of a chain, a control call, 1 fault | `EngineFollows`, `CancelsArrive`, `OneAnswerEach`, `AbortsHitTheirTarget`, `EveryoneAnswered` | no cancel is lost or hits a newer turn; one answer for everybody, except finding 2 |
| `dispatcher_finish_fault` | 2 turns, 1 fault | `NobodyLeftWaiting` | **violated**, finding 2 |
| `tensor_parallel` | 3 ranks, 2 requests, 3 calls, 2 failures, 3 set-ups | `ReleasesSound`, `CommandsPaired`, `CallReturns` | a release that failed somewhere is not counted as done; answers belong to their command |
| `execution` | up to 3 requests, 2 steps in flight | `RowsSound`, `InputsCurrent`, `ReadsOwnOutput` | no reuse of rows, metadata or buffers shows |
| `prefix_tree` | 10 blocks; 7 ids | `TreeExact`, `LookupIsLongest`, `RoutingExact`, `ImplementsPrefixTree` | split and shrunk edges keep the tree; the membership tree is exact and balanced |
| `prefix_index` | 3 blocks, 2 requests, host copies | `TypeOK`, `ResidencyContiguous`, `HeldBlocksLive`, `CapacityExact`, `MemoSound` | references, residency and cached capacity stay right under every interleaving |
| `dp_engine` | 2 replicas, chain and radix mode, 1 fault | `RoutingSound`, `CallsSettled`, `OneWriter`, `TornDownForCause`, `CallEnds` | routing and identities survive evictions and failures; all ranks meet; calls end |
| `dp_recreated` | 2 replicas, chain mode | `RunningKnown` | **violated**, finding 3 |

A property named in the table is often a conjunction of named parts, which stand
above it in its module with a comment each (for example `RequestsAccounted` is
`QueuedOnce`, `NoZombies` and `OwedReleasesHaveOwners`).

**Bounds.**

* *Engines.*  Requests of 3+3, 2+3 and 2+2 tokens (prompt + outputs) in a pool
  of 6 slots: any of them fits alone and no two always do, so windows are
  refused, prompts deferred and decodes preempted.  Chunks of 2 give partial
  prefills; three outputs give a replay with done = 2, one with done = 1, and a
  sample after it.  Two failures are a failed run and a failed clean-up, or a
  failed release and a failed retry.  Two tickets let a request end with none or
  one of its tickets still in flight.
* *Dispatcher.*  Two turns of one chain give a reused sequence id; two tokens in
  the second turn give an abort between tokens of a reused id.  One exception is
  enough, as the thread ends with it.
* *TensorParallel.*  Three calls are a run, a failed release and its retry; two
  workers can fail differently; two failures can hit both or one twice.
* *AsyncExecution.*  `Workloads` lists what may come together: three requests
  without upsets, two penalized with one upset, one penalized with three
  tokens and three upsets (an upset is an unfinished chunk, a
  submission that raises, a preemption or a synchronous step).  Requests are
  symmetric.
* *Prefix trees.*  Ten blocks with branches at three levels let an edge be
  split twice and shrink to its first block; seven ids in the membership tree
  need every rotation.  The tree and the membership share nothing, so
  `MCPrefixTree` explores the one or the other.
* *PrefixIndex.*  A block with two children held by two requests: the smallest
  tree in which one child frees its parent while the other blocks it.  Three of
  the four views are asked for; the fourth, `device_freeable`, is computed and
  cached like `device_reclaimable`.
* *DPEngine.*  Two ranks, two rows and one tombstone each, three global ids and
  four chains: evictions, reclaims and expiries happen after two chains.

**Deadlock** is checked where the system can rest only after its work:
`Quiescent`, `AsyncQuiescent` and `Resting` stutter then, so any other stuck
state is reported.  `TensorParallel`, `AsyncExecution` and `DPEngine` end when
their bounds are used up or the group is torn down and say `CHECK_DEADLOCK
FALSE`; that calls end is a property of its own in the first and the last.

**Fairness.**  Engines: weak fairness of the engine thread's next step, because
the dispatcher calls `step()` for as long as there is work.  Arrivals, aborts
and waiting times are not fair, and after a failure nothing is claimed, because
the dispatcher stops.  Dispatcher: its thread runs, and a method of the event
loop that has begun goes on; clients, timeouts and `close()` need not.
TensorParallel: processes that live go on, timeouts fire, a collective with a
dead member fails.  DPEngine: a worker with work goes on, the frontend reads
what there is and sees the end of a process.

**Mutants.**  Next to a definition stands, where a property depends on it, a
deliberately wrong variant ("Mutant: ..."): a dropped guard, a forgotten
reset, an off-by-one.  Substituting it for the definition violates the
property; `PROJECT.json` lists the pairs, as a rule one for each named part of
a property.

## 4. Findings

1. **A finished request decodes again** (`sync_finish_fault`,
   `engine/llm_engine.py:1917`).  Two requests finish in one step and the
   release of the first raises.  The second stays in `decoding`, finished and
   not owed.  After the retried abort that `step()` asks for, the next step
   runs it past its end.  The OpenAI dispatcher stops at the first error; a
   program that embeds `LLMEngine` and retries gets there.
2. **A client is never answered** (`dispatcher_finish_fault`,
   `entrypoints/openai/dispatcher.py:1158`).  `_publish_finished` takes the
   request out of `active` before operations that may raise;
   `_fail_active_requests` looks at `active` only.  `OneAnswerEach` and
   `EveryoneAnswered` show that this is the only request left out.
3. **A live chain loses its identity** (`dp_recreated`,
   `engine/dp_engine.py:199`).  A prompt that does not extend its chain makes
   the replica create a new chain under the same sequence id.  When the
   tombstone of the old chain expires, the frontend drops the identity both
   share; `step()` then raises `KeyError` on the rows of the new one, or its
   next turn gets another id.  `RoutingSound` and `CallsSettled` therefore
   leave recreated sequences out.

**Observations** made while modelling; no run is kept for them.

* With asynchronous scheduling, `abort` (`engine/async_scheduling/scheduler.py:70`)
  looks at ownership and tickets only.  A preempted request whose release failed
  has neither, is forgotten, and stays in `_pending_slot_releases`: `step()`
  refuses from then on.  The synchronous `abort_request` consults the set.
* While a replay waits all prefill is suspended (`engine/scheduler.py:621`), so a
  sole decode is declared unable to run although a half prefilled prompt could
  go on, contrary to the comment at line 883.  A replay's decodes have no window
  and may take slots reserved for the partial prefill, which leads to the same
  place.  `NoCapacityError` excludes these states.
* `_sync_tp_host_status` (`engine/model_runner.py:1003`) gives up on a worker
  that is merely slow, and the engine's next command overwrites the buffer the
  worker has not read; the comment at lines 884-886 says the wait precedes any
  reuse.  The constant `SlowTimeouts` admits this; with it `BufferFree` fails, so
  `tensor_parallel` has it off: a timeout hits workers that died.
* A send to a dead replica raises in the middle of `_call`
  (`engine/dp_engine.py:214`): the ranks before it have the call, their answers
  stay unread and the group is not torn down.  In the model only `exit` follows.

## 5. Proofs

`SyncEngineProofs` proves, for every finite set of requests, every shape and
every configuration that the assumptions allow,

* `TypeCorrect`: `Spec => []TypeOK`;
* `LedgerBalanced`: `Spec => []SlotLedger`: free slots and rows always add up to
  the pool, and the pool is never overdrawn;
* `SelectedBatchFits`: `Spec => []BatchFits`: what the selected batch writes
  is free when the model runs.

*Assumptions.*  `ReqAssumption` (finitely many requests), `SizeAssumption`
(positive sizes), `RequestAssumption` (prompt + max_tokens within
`max_model_len`, which `admit_request` enforces), `FaultAssumption`.

*Argument.*  `SlotLedger` alone is not inductive: `RunModel` subtracts what
the batch writes, and nothing in the ledger says that this is free.  That is
`BatchFits`, which carries the budget through the selection: at every moment
of the two passes, the writes of the batch so far plus the room still to hand
out (`scan.room`) do not exceed `free`.  The passes start with `room` at most
`free`; each request taken moves part of `room` into the batch; nothing between
selection and allocation takes slots away.  `IInv == TypeOK /\ SlotLedger /\
BatchFits` is inductive; there is one lemma per group of actions, and
`SchedulerLemmas` supplies the set arithmetic: allocation moves a disjoint set
of positions into `Held`, release removes one.

`SyncAccountProofs` proves, from the same assumptions and for any number of
failed runs and releases,

* `NobodyLost`: `Spec => []RequestsAccounted`: a live request is in one queue
  once, what the engine has forgotten holds nothing, and every owed release can
  be retried.

*Argument.*  `AInv == Queues /\ Lists /\ Marks /\ Holdings`, on top of `TypeOK`.
`Queues`: the queues, the skipped requests and the popped batch list a request
once and are disjoint.  `Lists`: what a step works through (`todo`, `ending`) is
queued until the step is done with it.  `Marks`: the preempted victim, the owed
releases and the requests `_schedule_impl` remembers are queued.  `Holdings` is
what makes `NoZombies` inductive: `abort_request` decides from status, prefilled
tokens and `_pending_slot_releases` whether there is anything to release, so a
queued request that holds KV, residency or a window must show one of them, or be
the victim whose release comes next.  Lemmas on `append`, `popleft`, `remove`
and `extendleft` carry distinctness through the queues.

`SyncServiceProofs` proves, with `AInv` as a lemma,

* `ReplayAlwaysFaithful`: `Spec => []ReplayFaithful`, for any number of failures;
* `EngineImplementsService`: `MaxFaults = 0 => (Spec => ImplementsService)`: the
  engine is a refinement of `RequestService`;
* `EndsAreFinal`: `MaxFaults = 0 => (Spec => EndIsFinal)`.

*Assumptions.*  `MaxFaults = 0` in the last two: no run and no release raises.
With one failed release `EndIsFinal` is false, which is finding 1, and the
refinement fails with it: the request decodes on after its end.

*Argument.*  `FInv` says of each request that its counters agree (`Counts`),
that on the prefill side some of the prompt is left and on the decode side all
of it is there with an output to feed back (`Stage`), that a replay's cursor is
before the last output (`Replays`), and that its row is as long as its progress
plus, between allocation and postprocessing, the step's cost (`Rows`).  The last
needs the others: whether a token extends the row depends on the side a request
is on, and a replay may hand over to sampling only if the cursor stops exactly
one short.  For the refinement, `LInv` says that only requests in `ending` have
ended while queued; then `AddRequest` is `Accept`, a postprocessed sample is
`Emit`, `abort_request` is `Cancel`, and every other step, preemption and
replay included, changes neither stage nor outputs.

`PrefixIndexProofs` proves, for every tree of blocks, every finite set of
requests and any limit,

* `IndexTypeCorrect`: `Spec => []TypeOK`;
* `ResidencyAlwaysContiguous`: `Spec => []ResidencyContiguous`: what the device
  and what the host hold are whole prefixes;
* `HeldBlocksAlwaysLive`: `Spec => []HeldBlocksLive`: a block some request holds
  is never removed, and its count is the number of its holders;
* `CapacityAlwaysExact`: `Spec => []CapacityExact`: the freeable set, kept up to
  date block by block, is what a scan of the whole tree would find, and a
  capacity view with the current epoch can be answered without one;
* `MemoAlwaysSound`: `Spec => []MemoSound`: a remembered hit that passes the two
  membership tests of `lookup_prefix_cache_hit` is the longest hit.

*Assumptions.*  `PrefixIndexAssumption` and `PathAssumption`: the path of a
block goes through its parent, as its id hashes the parent's id.

*Argument.*  The three are inductive together.  A block may be removed when its
count is 0, so only the exact count (`HeldBlocksLive`) says that nobody holds
it; residency of its children is not disturbed because a block with children is
not removed, nor demoted under a child on the device.  Most actions change one
block (`OneBlock`); attaching and finishing change the counts along a path by
one each, which is the change in the number of holders (finite set cardinality).
The incremental freeable set is right because a block is *settled* when it is in
the set exactly if its own fields and its children's membership say so: being
settled everywhere is the same as the scan (take a wrong block with the fewest
blocks below it), every change unsettles at most one block and the blocks above
it, and a climb leaves at most the parent of its last block unsettled and stops
only when the parent is settled (`ClimbStep`, `RefreshSettles`).  A change of
priorities repeats this for each block moved, parents first
(`PriorityStep`).  A memo is right because live blocks are closed
under parents: its last block live and the next one not says all about the path.
Where an argument is an induction, over
the steps of a fold or the size of a subtree, it is by least counterexample
(`LeastNat`, `LeastSubset`, from the library's `WFMin`).

`TensorParallelProofs` proves, for any number of workers, ids, calls and
failures,

* `ReleasesAlwaysSound`: `~SlowTimeouts => (Spec => []ReleasesSound)`: a release
  the engine takes off its list happened on every living rank, whatever raised
  and whoever died, and its markers do not make a later release skip;
* `CommandsAlwaysPaired`: `~SlowTimeouts => (Spec => []CommandsPaired)`: no
  command is overwritten unread, no status belongs to an earlier command.

*Assumptions.*  `~SlowTimeouts`: a timeout of rank 0 hits only workers that
are dead.  Without it both are false (section 4, the observation on
`_sync_tp_host_status`); the run has the constant off for the same reason.

*Argument.*  `IInv == TypeOK /\ Protocol /\ Slots`.  `Protocol` says how far a
worker can be from rank 0: as long as no collective was left by a part of its
members every living worker is `Tight`, that is, waiting, or inside the command
rank 0 is inside, at a place rank 0's own place allows.  A death can tear a
collective apart; that state (`Broken`) is kept, because only collectives
follow and each of them fails.  `Slots` then follows one command through the
ranks: what a rank has freed and marked, what it still has to unmark, and that
a release is taken off the list only after every living rank was past it.
Neither half of the argument works alone: that rank 0 may trust a status needs
`Tight`, and which markers are left needs to know which command ran last.

`DispatcherProofs` proves, for any requests, chains and control calls, and any
number of exceptions,

* `CancelsAlwaysArrive`: `Spec => []CancelsArrive`;
* `OneAnswerEachAlways`: `Spec => []OneAnswerEach`: never two endings, and when
  the thread has ended at most one client still waits (finding 2);
* `EngineAlwaysFollows`: `Spec => []EngineFollows`;
* `AbortsAlwaysHitTheirTarget`: `Spec => AbortsHitTheirTarget`, an action
  property.

*Assumptions.*  `DispatcherAssumption`: types, and that a request is neither of
the two marks (`_WAKEUP`, `None`) that travel in the same queue.

*Argument.*  A submitted request is in one place: queued, with the thread that
admits it, in `active`, settled (its client has an ending or does not wait for
one), or stranded by a publication that raised after `active.pop`; its handle
says which (`Stages`).  `Queues` and `Cancels` say what the queues owe: an
abort for whom `cancel()` or `discard()` found admitted, an answer for every
discard.  `TurnsLinked` and `Chains` say that a sequence id belongs to the
newest turn of its chain, the only one the engine can run, keep or have in
`active`; that is why a stale abort ends nobody else.  `Tracks` ties `active`,
the token map and the engine together between two steps of the thread, and says
that at most one request is stranded.  The seven conjuncts (`IInv`) are
inductive together, with one lemma per action.

`DPEngineProofs` proves, for any number of ranks, rows, tombstones, chains and
admissions, and any number of faults,

* `RoutingAlwaysSound`: `Spec => []RoutingSound`: the frontend's tables are
  inverse to each other, and between calls the chains it sends to a live rank
  are those the rank knows and a client was told of, under the identity that
  client has;
* `CallsAlwaysSettled`: `Spec => []CallsSettled`: when a call is over no worker
  is at work, no reply is unread, and the active sets are what the ranks run;
* `OneWriterAlways`: `Spec => []OneWriter`: the active chains of a rank are
  those of its running requests, in the middle of a call too;
* `AlwaysTornDownForCause`: `Spec => TornDownForCause`, an action property.

*Assumptions.*  `DPEngineAssumption`: finitely many ranks, 0 among them, at
least one row and one tombstone.  As in the runs, the properties themselves
leave out recreated sequences (finding 3): `IdentitiesKept` and `OneWriter`
those sequences, `ActiveExact` a rank that has one.

*Argument.*  `Inv == Frame /\ Healthy /\ (Closed \/ Stranded \/ Between \/
During)`.  `Frame` says that the frontend's tables are consistent with each
other, and each engine with its chain index, whatever the other side does.
That the two sides agree (`Sync`) is said by phase.  Between calls every live
rank agrees.  In a call to one rank, all agree until it answers, and after that
they agree once the reply is taken in (`Settles`).  In a step each rank has its
own place (`Going`, `Replied`, `Read`): what it has finished counts as active
until the call returns, and a chain it reclaimed before the collective stays
known to the frontend until the rank's snapshot is read (`PrevKnown`).
`Collective` relates the ranks: without a fault all are before the collective or
all past it, so no deadline passes there and nobody tears the group down.  A
dead rank is outside every agreement.  After an exception no caller recovers
from (`Stranded`) only the shape of the pipes is kept, as only exit follows.

*Only model-checked:* liveness (`EveryRequestEnds`, `AsyncEnds`,
`EveryoneAnswered`, `CallReturns`, `CallEnds`) and everything under fairness,
which is outside the prover; `PromisesKept` and `NoCapacityError`, which add
up claims over all requests; the refinement of `RequestService` by
`AsyncEngine` and all else about `AsyncEngine` and `AsyncExecution`; `RadixTree`
with its refinement of `PrefixTree` and `RoutingMembership`, which are built
from recursive operators.

## 6. Plan

1. Proofs: `ReleasedAfterTickets` for `AsyncEngine`, which can use the lemmas on
   queues in `SyncAccountProofs`.
2. The cache reclaimers and prefix hits inside `schedule()`, which join
   `Scheduler` with `PrefixIndex` and `ChainIndex`.
3. Host copies of idle chains, with the demotion of a chain whose snapshot is
   not finished.
4. The allocators of head-wise slots and of recurrent state, whose ledgers
   differ from the one modelled.

## 7. Not modelled

Kernels, operators, model layers, quantization, sparse selection and the
scoring of pruning are numerical.  Start-up capacity planning runs once over
measured values.  HTTP, rendering, detokenization and the router's scoring are
formatting or heuristics.  The baselines and benchmarks in the repository are
separate programs.  Other cache layouts and raw KV offload share the ledger
contract modelled here and add their own copies of data.  These parts are most
of the repository's lines: the map covers the control logic, a small share of
the whole.
