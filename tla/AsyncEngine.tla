----------------------------- MODULE AsyncEngine -----------------------------
(***************************************************************************)
(* LLMEngine with scheduling ahead of the device                           *)
(* (engine/async_scheduling/scheduler.py): up to MaxInflight batches are   *)
(* submitted before the result of the first is collected, results retire   *)
(* in order, and a request that ended is discarded from the tickets still  *)
(* in flight and released once none of them refers to it.  Preemption and  *)
(* replay go through the synchronous step of SyncEngine, which runs only   *)
(* when no ticket is in flight.                                            *)
(*                                                                         *)
(* A failed submission or collection stops the dispatcher that drives the  *)
(* engine (entrypoints/openai/dispatcher.py): from then on it only aborts. *)
(***************************************************************************)
EXTENDS SyncEngine

CONSTANTS
  MaxInflight,        \* async_max_inflight
  CommittedHistories  \* whether the sparse method needs the accepted token history

ASSUME AsyncAssumption ==
  MaxInflight \in Nat \ {0} /\ CommittedHistories \subseteq BOOLEAN

VARIABLES
  tickets,    \* AsyncScheduler.pending, the tickets AsyncExecution.results holds
  discarded,  \* requests whose outputs are dropped
  retiring,   \* requests to release once no ticket refers to them
  submitting, \* schedule() runs for _submit, not for _step_sync
  ticket,     \* the ticket being collected
  halted,     \* the dispatcher has stopped after a fatal error
  history     \* the member of CommittedHistories in force

asyncVars == <<tickets, discarded, retiring, submitting, ticket, halted, history>>
allVars == <<vars, asyncVars>>

NoTicket == [seqs |-> <<>>, publishes |-> {}]
Referenced == UNION {ToSet(tickets[i].seqs) : i \in DOMAIN tickets}

-----------------------------------------------------------------------------
(* Between steps.                                                          *)

Arrive(r) == ~halted /\ AddRequest(r) /\ UNCHANGED asyncVars

Late(r) == WaitTimeout(r) /\ UNCHANGED asyncVars

\* AsyncScheduler.abort up to its _drain_discarded and _retire_ready.  The
\* dispatcher aborts a request it has not seen end, or whose release failed.
AbortAsync(r) ==
  /\ pc = "idle" /\ r \in ToSet(waiting) \cup ToSet(decoding) \cup pending
  /\ LET dead == IF Owns(r) \/ r \in Referenced THEN {r} ELSE {}
     IN  discarded' = discarded \cup dead /\ retiring' = retiring \cup dead
  /\ Drop(r)
  /\ pc' = "retire"
  /\ UNCHANGED <<phase, window, free, kv, resident, inflight, scan, outVars>>
  /\ UNCHANGED <<engineVars, tickets, submitting, ticket, halted, history>>

-----------------------------------------------------------------------------
(* step(): submit ahead.                                                   *)

BeginAsyncStep ==
  /\ pc = "idle" /\ pending = {} /\ ~halted
  /\ ~(IsFinished /\ tickets = <<>>)
  /\ pc' = "submit" /\ raised' = "none"
  /\ UNCHANGED <<sq, waiting, decoding, waitSince, late, phase, window, free, kv,
                 resident, inflight, scan, batch, isPrefill, preempted>>
  /\ UNCHANGED <<engineVars, asyncVars>>

\* _submit's early returns: a request whose last output is in flight needs no
\* further work.
HasWork ==
  /\ ~(history /\ \E i \in DOMAIN tickets : tickets[i].publishes # {})
  /\ waiting # <<>> \/ LiveDecodes # {}

\* Mutant: one ticket too many.
MaySubmitOneMore == Len(tickets) <= MaxInflight /\ HasWork

MaySubmit == Len(tickets) < MaxInflight /\ HasWork

TrySubmit ==
  /\ pc = "submit" /\ MaySubmit
  /\ inflight' = Len(tickets) /\ submitting' = TRUE /\ pc' = "begin"
  /\ UNCHANGED <<seqVars, waiting, decoding, waitVars, phase, scan, outVars>>
  /\ UNCHANGED <<engineVars, tickets, discarded, retiring, ticket, halted, history>>

\* The loop ends: collect the oldest ticket, or with none in flight take the
\* synchronous step.
StopSubmitting ==
  /\ inflight' = 0 /\ submitting' = FALSE
  /\ pc' = IF tickets = <<>> THEN "begin" ELSE "collect"

SubmitEnds ==
  /\ pc = "submit" /\ ~MaySubmit /\ StopSubmitting
  /\ UNCHANGED <<seqVars, waiting, decoding, waitVars, phase, scan, outVars>>
  /\ UNCHANGED <<engineVars, tickets, discarded, retiring, ticket, halted, history>>

AsyncSchedule == Schedule /\ UNCHANGED <<engineVars, asyncVars>>

\* schedule() raised AsyncDrainRequired, or selected nothing.
SubmitDrains ==
  /\ submitting
  /\ pc = "drain" \/ (pc = "scheduled" /\ batch = <<>> /\ preempted = NoReq)
  /\ StopSubmitting
  /\ UNCHANGED <<seqVars, waiting, decoding, waitVars, phase, scan, outVars>>
  /\ UNCHANGED <<engineVars, tickets, discarded, retiring, ticket, halted, history>>

\* A preemption, possible only with nothing in flight, ends the loop.
SubmitPreempts ==
  /\ pc = "scheduled" /\ submitting /\ preempted # NoReq
  /\ \/ Released(preempted) /\ StopSubmitting /\ UNCHANGED raised
     \/ /\ ReleaseFails(preempted)
        /\ pc' = "idle" /\ raised' = "release_failure" /\ submitting' = FALSE /\ inflight' = 0
  /\ preempted' = NoReq
  /\ UNCHANGED <<sq, waiting, decoding, waitVars, phase, scan, batch, isPrefill>>
  /\ UNCHANGED <<published, todo, ending, tickets, discarded, retiring, ticket, halted, history>>

ReplayBatch == \E r \in ToSet(batch) : IsReplay(sq[r])

\* Mutant: a replay's prefill is not returned to the queue.
SubmitReplayLosesBatch ==
  /\ pc = "scheduled" /\ submitting /\ batch # <<>> /\ ReplayBatch
  /\ batch' = <<>> /\ isPrefill' = FALSE
  /\ StopSubmitting
  /\ UNCHANGED <<seqVars, waiting, decoding, waitVars, phase, scan, preempted, raised>>
  /\ UNCHANGED <<engineVars, tickets, discarded, retiring, ticket, halted, history>>

\* A replay reads accepted tokens, not device feedback: it waits for the
\* synchronous step.
SubmitReplay ==
  /\ pc = "scheduled" /\ submitting /\ batch # <<>> /\ ReplayBatch
  /\ waiting' = IF isPrefill THEN batch \o waiting ELSE waiting
  /\ batch' = <<>> /\ isPrefill' = FALSE
  /\ StopSubmitting
  /\ UNCHANGED <<seqVars, decoding, waitVars, phase, scan, preempted, raised>>
  /\ UNCHANGED <<engineVars, tickets, discarded, retiring, ticket, halted, history>>

\* submit_async: KV is allocated and the ticket is in flight.
Submit ==
  /\ pc = "scheduled" /\ submitting /\ batch # <<>> /\ ~ReplayBatch
  /\ Allocate(ToSet(batch))
  /\ tickets' = Append(tickets,
       [seqs |-> batch, publishes |-> {r \in ToSet(batch) : ~isPrefill \/ IsLastChunk(r)}])
  /\ todo' = batch /\ pc' = "post"
  /\ UNCHANGED <<sq, waiting, decoding, waitVars, phase, window, resident, inflight, scan>>
  /\ UNCHANGED <<outVars, pending, published, ending, faults>>
  /\ UNCHANGED <<discarded, retiring, submitting, ticket, halted, history>>

\* It raises: the batch stays queued for the aborts to come.
SubmitFails ==
  /\ pc = "scheduled" /\ submitting /\ batch # <<>> /\ ~ReplayBatch
  /\ faults < MaxFaults /\ faults' = faults + 1
  /\ \E k \in 0..Len(batch) :
       /\ isPrefill \/ k \in {0, Len(batch)}
       /\ Allocate(ToSet(SubSeq(batch, 1, k)))
  /\ waiting' = IF isPrefill THEN batch \o waiting ELSE waiting
  /\ batch' = <<>> /\ isPrefill' = FALSE
  /\ pc' = "idle" /\ raised' = "model_failure" /\ halted' = TRUE
  /\ submitting' = FALSE /\ inflight' = 0
  /\ UNCHANGED <<sq, decoding, waitVars, phase, window, resident, scan, preempted>>
  /\ UNCHANGED <<pending, published, todo, ending, tickets, discarded, retiring, ticket, history>>

\* _submit's bookkeeping for one member of the batch.
BookOne ==
  LET r == Head(todo)
      complete == IsLastChunk(r)
      publish == ~isPrefill \/ complete
      s == [sq[r] EXCEPT !.pend = IF publish THEN @ + 1 ELSE @]
  IN  /\ pc = "post" /\ submitting /\ todo # <<>>
      /\ sq' = [sq EXCEPT ![r] =
           IF isPrefill
             THEN [s EXCEPT !.prefilled = @ + s.chunk,
                            !.status = IF complete THEN "RUNNING" ELSE "WAITING"]
             ELSE s]
      /\ waiting' = IF isPrefill /\ ~complete THEN <<r>> \o waiting ELSE waiting
      /\ waitSince' = IF isPrefill /\ ~complete THEN Noted(r) ELSE waitSince
      /\ decoding' = IF isPrefill /\ complete THEN Append(decoding, r) ELSE decoding
      /\ todo' = Tail(todo)
      /\ UNCHANGED <<late, phase, window, free, kv, resident, inflight, pc, scan, outVars>>
      /\ UNCHANGED <<pending, published, ending, faults, asyncVars>>

BookEnds ==
  /\ pc = "post" /\ submitting /\ todo = <<>>
  /\ pc' = "submit" /\ submitting' = FALSE /\ inflight' = 0
  /\ batch' = <<>> /\ isPrefill' = FALSE
  /\ UNCHANGED <<seqVars, waiting, decoding, waitVars, phase, scan, preempted, raised>>
  /\ UNCHANGED <<engineVars, tickets, discarded, retiring, ticket, halted, history>>

-----------------------------------------------------------------------------
(* step(): collect the oldest ticket.                                      *)

Collect ==
  /\ pc = "collect" /\ pc' = "accept"
  /\ ticket' = Head(tickets) /\ tickets' = Tail(tickets)
  /\ UNCHANGED <<seqVars, waiting, decoding, waitVars, phase, inflight, scan, outVars>>
  /\ UNCHANGED <<engineVars, discarded, retiring, submitting, halted, history>>

CollectFails ==
  /\ pc = "collect"
  /\ faults < MaxFaults /\ faults' = faults + 1
  /\ pc' = "idle" /\ raised' = "model_failure" /\ halted' = TRUE
  /\ UNCHANGED <<seqVars, waiting, decoding, waitVars, phase, inflight, scan, batch,
                 isPrefill, preempted, pending, published, todo, ending>>
  /\ UNCHANGED <<tickets, discarded, retiring, submitting, ticket, history>>

\* Mutant: the outputs of a request that has ended are accepted.
AcceptedThoughDiscarded(r) == r \in ticket.publishes

\* An output is dropped if its request has ended meanwhile.
Accepted(r) == r \in ticket.publishes /\ r \notin discarded

AcceptOne ==
  LET r == Head(ticket.seqs)
      accepted == Accepted(r)
      s == [sq[r] EXCEPT !.pend = IF r \in ticket.publishes THEN @ - 1 ELSE @]
  IN  /\ pc = "accept" /\ ticket.seqs # <<>>
      /\ \E eos \in {e \in BOOLEAN : e => accepted} :
           LET t == IF accepted THEN WithToken(r, s, eos) ELSE s
               ended == accepted /\ t.status = "FINISHED"
               dead == IF ended THEN {r} ELSE {}
           IN  /\ sq' = [sq EXCEPT ![r] = t]
               /\ decoding' = IF ended THEN RemoveFirst(decoding, r) ELSE decoding
               /\ discarded' = discarded \cup dead /\ retiring' = retiring \cup dead
      /\ published' = [published EXCEPT ![r] = @ + (IF accepted THEN 1 ELSE 0)]
      /\ ticket' = [ticket EXCEPT !.seqs = Tail(@)]
      /\ UNCHANGED <<waiting, waitVars, phase, window, free, kv, resident, inflight, pc,
                     scan, outVars, pending, todo, ending, faults>>
      /\ UNCHANGED <<tickets, submitting, halted, history>>

\* Mutant: ended requests are left for later.
CollectEndsEarly ==
  /\ pc = "accept" /\ ticket.seqs = <<>>
  /\ ticket' = NoTicket /\ pc' = "idle"
  /\ UNCHANGED <<seqVars, waiting, decoding, waitVars, phase, inflight, scan, outVars>>
  /\ UNCHANGED <<engineVars, tickets, discarded, retiring, submitting, halted, history>>

CollectEnds ==
  /\ pc = "accept" /\ ticket.seqs = <<>>
  /\ ticket' = NoTicket /\ pc' = "retire"
  /\ UNCHANGED <<seqVars, waiting, decoding, waitVars, phase, inflight, scan, outVars>>
  /\ UNCHANGED <<engineVars, tickets, discarded, retiring, submitting, halted, history>>

AllDiscarded == tickets # <<>> /\ ToSet(Head(tickets).seqs) \subseteq discarded

\* _drain_discarded: a ticket nobody waits for is collected at once.
DrainDiscarded ==
  /\ pc = "retire" /\ AllDiscarded
  /\ tickets' = Tail(tickets)
  /\ sq' = [r \in Req |-> [sq[r] EXCEPT !.pend =
                             IF r \in Head(tickets).publishes THEN @ - 1 ELSE @]]
  /\ UNCHANGED <<waiting, decoding, waitVars, phase, window, free, kv, resident, inflight,
                 pc, scan, outVars, engineVars>>
  /\ UNCHANGED <<discarded, retiring, submitting, ticket, halted, history>>

\* Collecting it raises, out of step() or abort_request.
DrainFails ==
  /\ pc = "retire" /\ AllDiscarded
  /\ faults < MaxFaults /\ faults' = faults + 1
  /\ pc' = "idle" /\ raised' = "model_failure" /\ halted' = TRUE
  /\ UNCHANGED <<seqVars, waiting, decoding, waitVars, phase, inflight, scan, batch,
                 isPrefill, preempted, pending, published, todo, ending>>
  /\ UNCHANGED <<tickets, discarded, retiring, submitting, ticket, history>>

\* Mutant: tickets in flight are ignored.
ReadyAtOnce == retiring

ReadyToRetire == retiring \ Referenced

\* _retire_ready; an empty set of ready requests releases nothing.
RetireReady ==
  LET ready == ReadyToRetire
  IN  /\ pc = "retire" /\ ~AllDiscarded
      /\ Release(ready)
      /\ pending' = pending \ ready
      /\ retiring' = retiring \ ready /\ discarded' = discarded \ ready
      /\ pc' = "idle"
      /\ UNCHANGED <<sq, waiting, decoding, waitVars, phase, inflight, scan, outVars>>
      /\ UNCHANGED <<published, todo, ending, faults, tickets, submitting, ticket, halted, history>>

RetireFails ==
  LET ready == ReadyToRetire
  IN  /\ pc = "retire" /\ ~AllDiscarded /\ ready # {}
      /\ faults < MaxFaults /\ faults' = faults + 1
      /\ \E S \in SUBSET ready : Release(S)
      /\ pending' = pending \cup ready
      /\ pc' = "idle" /\ raised' = "release_failure"
      /\ UNCHANGED <<sq, waiting, decoding, waitVars, phase, inflight, scan, batch,
                     isPrefill, preempted>>
      /\ UNCHANGED <<published, todo, ending, asyncVars>>

-----------------------------------------------------------------------------
\* _step_sync, entered with nothing in flight.
SyncStep ==
  /\ ~submitting
  /\ \/ ReleasePreempted \/ RaiseNothingToRun \/ RunModel \/ RunFails \/ ReclaimOne
     \/ PostprocessPrefill \/ PostprocessDecode \/ ReleaseFinished \/ EndStep
  /\ UNCHANGED asyncVars

AsyncInit ==
  /\ Init
  /\ tickets = <<>> /\ discarded = {} /\ retiring = {}
  /\ submitting = FALSE /\ ticket = NoTicket /\ halted = FALSE
  /\ history \in CommittedHistories

AsyncStep ==
  \/ BeginAsyncStep \/ TrySubmit \/ SubmitEnds \/ AsyncSchedule
  \/ SubmitDrains \/ SubmitPreempts \/ SubmitReplay \/ Submit \/ SubmitFails
  \/ BookOne \/ BookEnds
  \/ Collect \/ CollectFails \/ AcceptOne \/ CollectEnds
  \/ DrainDiscarded \/ DrainFails \/ RetireReady \/ RetireFails
  \/ SyncStep

AsyncRefuse == RefuseStep /\ UNCHANGED asyncVars

\* Nothing more is asked of the engine.
AsyncQuiescent ==
  /\ pc = "idle" /\ pending = {} /\ (tickets = <<>> \/ halted)
  /\ \A r \in Req : sq[r].status \in {"FINISHED"} \cup (IF halted THEN {"NEW"} ELSE {})
  /\ UNCHANGED allVars

AsyncNext ==
  \/ \E r \in Req : Arrive(r) \/ AbortAsync(r) \/ Late(r)
  \/ AsyncStep \/ AsyncRefuse \/ AsyncQuiescent

AsyncSpec == AsyncInit /\ [][AsyncNext]_allVars

\* The dispatcher calls step() for as long as there is work.
AsyncFairSpec == AsyncSpec /\ WF_allVars(AsyncStep)

-----------------------------------------------------------------------------
(* Properties.                                                             *)

AsyncTypeOK ==
  /\ sq \in [Req -> SequenceState] /\ free \in Int /\ kv \in [Req -> Nat]
  /\ pc \in {"idle", "begin", "reserve", "prefill", "decode", "scheduled", "drain",
             "post", "reclaim", "submit", "collect", "accept", "retire"}
  /\ tickets \in Seq([seqs : Seq(Req), publishes : SUBSET Req])
  /\ ticket \in [seqs : Seq(Req), publishes : SUBSET Req]
  /\ Len(tickets) <= MaxInflight
  /\ discarded \subseteq Req /\ retiring \subseteq Req
  /\ submitting \in BOOLEAN /\ halted \in BOOLEAN /\ history \in BOOLEAN

\* KV is never released, and a request never restarted, while a ticket in
\* flight still writes there: assert_releasable never fires.
ReleasedAfterTickets ==
  [][\A r \in Req : kv'[r] < kv[r] => r \notin Referenced]_allVars

\* The outputs a request counts as pending are exactly those the tickets in
\* flight publish, and with the accepted ones they never exceed max_tokens.
Publishing(r) ==
  Cardinality({i \in DOMAIN tickets : r \in tickets[i].publishes})
PendingOutputsMatch ==
  \A r \in Req :
    /\ Submitted(r) <= MaxTokens[r]
    /\ sq[r].pend = Publishing(r)
         + (IF r \in ToSet(ticket.seqs) /\ r \in ticket.publishes THEN 1 ELSE 0)
         - (IF submitting /\ pc = "post" /\ r \in ToSet(todo)
                /\ r \in tickets[Len(tickets)].publishes THEN 1 ELSE 0)

\* An ended request holds KV only until its last ticket is collected.
NoAsyncZombies ==
  /\ \A r \in Req \ (ToSet(Places) \cup retiring \cup pending) :
       kv[r] = 0 /\ window[r] = 0 /\ r \notin resident
  /\ pc = "idle" /\ pending = {} /\ ~halted =>
       retiring \subseteq Referenced /\ discarded = retiring

\* What SyncEngine says of KV and progress also holds with tickets in flight.
AsyncKVMatches == halted \/ KVMatchesProgress

\* An ended request's KV is eventually released.
RetiringEnds == \A r \in Req : r \in retiring ~> kv[r] = 0 \/ faults > 0

\* A request the engine accepted ends, unless something fails.
EveryAsyncRequestEnds ==
  \A r \in Req : sq[r].status \in {"WAITING", "RUNNING"} ~> sq[r].status = "FINISHED" \/ faults > 0

\* With tickets in flight, failures and late outputs, nobody is lost and no slot
\* leaks (_submit, _drain_discarded, _retire_ready).
AsyncAccounted == AsyncTypeOK /\ SlotLedger /\ QueuedOnce /\ NoAsyncZombies

\* What the next batch is scheduled from, positions and pending outputs, agrees
\* with the tickets, and each output is handed out once (_submit, step).
AsyncProgress == AsyncKVMatches /\ PendingOutputsMatch /\ OutputsOnce

\* Every accepted request ends and every ended one is released.
AsyncEnds == EveryAsyncRequestEnds /\ RetiringEnds

=============================================================================
