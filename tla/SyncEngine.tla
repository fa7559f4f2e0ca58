----------------------------- MODULE SyncEngine -----------------------------
(***************************************************************************)
(* LLMEngine with synchronous stepping (engine/llm_engine.py): admission,  *)
(* cancellation, and step() around Scheduler.schedule(): release of the    *)
(* preempted request, the model run with its KV allocation, postprocessing *)
(* and the release of finished requests.                                   *)
(*                                                                         *)
(* One thread drives the engine, so a request is added or aborted only     *)
(* between steps (pc = "idle").  The model runner is external: a run may   *)
(* fail, before or after KV was allocated, and a release broadcast to the  *)
(* ranks may fail, before or after this rank released.  At most MaxFaults  *)
(* such failures happen.                                                   *)
(***************************************************************************)
EXTENDS Scheduler

CONSTANT MaxFaults

ASSUME FaultAssumption == MaxFaults \in Nat

VARIABLES
  pending,   \* LLMEngine._pending_slot_releases
  published, \* tokens handed out in last_step_token_outputs, per request
  todo,      \* batch members not yet postprocessed
  ending,    \* requests the current step still has to release
  faults     \* failures so far

engineVars == <<pending, published, todo, ending, faults>>
vars == <<schedVars, engineVars>>

-----------------------------------------------------------------------------
(* Releases.                                                               *)

IsFinished == waiting = <<>> /\ decoding = <<>>

\* _release_slots_transaction returns: nothing is owed any more.
Released(r) == Release({r}) /\ pending' = pending \ {r} /\ UNCHANGED faults

\* It raises: the release stays owed, whether or not this rank performed it.
ReleaseFails(r) ==
  /\ faults < MaxFaults /\ faults' = faults + 1
  /\ pending' = pending \cup {r}
  /\ Release({r}) \/ UNCHANGED <<window, free, kv, resident>>

\* Scheduler.abort
Drop(r) ==
  /\ waiting' = RemoveFirst(waiting, r) /\ decoding' = RemoveFirst(decoding, r)
  /\ sq' = [sq EXCEPT ![r].status = "FINISHED"]
  /\ Unnote(r)

\* Mutant: a request selected for its first chunk is taken to own nothing.
OwnsOncePrefilled(r) ==
  r \in ToSet(decoding) \/ (r \in ToSet(waiting) /\ sq[r].prefilled > 0)

\* request_may_own_slots
Owns(r) ==
  \/ r \in ToSet(decoding)
  \/ r \in ToSet(waiting) /\ (sq[r].status = "RUNNING" \/ sq[r].prefilled > 0)

\* Mutant: a release that failed earlier is not retried.
MustReleaseForgetsPending(r) == Owns(r)

\* abort_request's should_free
MustRelease(r) == Owns(r) \/ r \in pending

-----------------------------------------------------------------------------
(* Between steps.                                                          *)

\* admit_request and Scheduler.add
AddRequest(r) ==
  /\ pc = "idle" /\ pending = {} /\ sq[r].status = "NEW"
  /\ sq' = [sq EXCEPT ![r].status = "WAITING"]
  /\ waiting' = Append(waiting, r) /\ waitSince' = Noted(r)
  /\ phase' = IF IsFinished THEN "prefill" ELSE phase
  /\ UNCHANGED <<decoding, late, window, free, kv, resident, inflight, pc, scan>>
  /\ UNCHANGED <<outVars, engineVars>>

\* abort_request: the physical release comes before the queues forget r.
AbortRequest(r) ==
  /\ pc = "idle" /\ r \in ToSet(waiting) \cup ToSet(decoding)
  /\ \/ /\ ~MustRelease(r) /\ Drop(r)
        /\ UNCHANGED <<window, free, kv, resident, pending, faults, raised>>
     \/ /\ MustRelease(r) /\ Released(r) /\ Drop(r)
        /\ UNCHANGED raised
     \/ /\ MustRelease(r) /\ ReleaseFails(r)
        /\ raised' = "release_failure"
        /\ UNCHANGED <<waiting, decoding, sq, waitVars>>
  /\ UNCHANGED <<phase, inflight, pc, scan, batch, isPrefill, preempted>>
  /\ UNCHANGED <<published, todo, ending>>

\* A queued prefill has waited 60 s.
WaitTimeout(r) ==
  /\ pc = "idle" /\ FavorMin > 0
  /\ r \in ToSet(waitSince) \ late
  /\ \A q \in ToSet(waitSince) : Before(waitSince, q, r) => q \in late
  /\ late' = late \cup {r}
  /\ UNCHANGED <<sq, waiting, decoding, waitSince, phase, window, free, kv, resident,
                 inflight, pc, scan>>
  /\ UNCHANGED <<outVars, engineVars>>

-----------------------------------------------------------------------------
(* One step.                                                               *)

\* step(): nothing is scheduled while a release is owed.
BeginStep ==
  /\ pc = "idle" /\ pending = {} /\ ~IsFinished
  /\ pc' = "begin" /\ raised' = "none"
  /\ UNCHANGED <<sq, waiting, decoding, waitSince, late, phase, window, free, kv,
                 resident, inflight, scan, batch, isPrefill, preempted>>
  /\ UNCHANGED engineVars

RefuseStep ==
  /\ pc = "idle" /\ pending # {}
  /\ raised' = "release_pending"
  /\ UNCHANGED <<sq, waiting, decoding, waitSince, late, phase, window, free, kv,
                 resident, inflight, pc, scan, batch, isPrefill, preempted>>
  /\ UNCHANGED engineVars

ScheduleStep == Schedule /\ UNCHANGED engineVars

\* _release_preempted_sequences; the step ends without a batch.
ReleasePreempted ==
  /\ pc = "scheduled" /\ preempted # NoReq
  /\ \/ Released(preempted) /\ UNCHANGED raised
     \/ ReleaseFails(preempted) /\ raised' = "release_failure"
  /\ preempted' = NoReq /\ pc' = "idle"
  /\ UNCHANGED <<sq, waiting, decoding, waitSince, late, phase, inflight, scan, batch,
                 isPrefill>>
  /\ UNCHANGED <<published, todo, ending>>

\* Nothing to run although requests are queued: the step raises.
RaiseNothingToRun ==
  /\ pc = "scheduled" /\ batch = <<>> /\ preempted = NoReq
  /\ pc' = "idle" /\ raised' = "nothing_to_run"
  /\ UNCHANGED <<sq, waiting, decoding, waitSince, late, phase, window, free, kv,
                 resident, inflight, scan, batch, isPrefill, preempted, engineVars>>

\* prepare_step allocates KV for the members of S.
Allocate(S) ==
  /\ free' = free - Cardinality(Writes(S))
  /\ kv' = [r \in Req |-> IF r \in S THEN kv[r] + StepCost(r) ELSE kv[r]]

\* The model run succeeds.
RunModel ==
  /\ pc = "scheduled" /\ batch # <<>>
  /\ Allocate(ToSet(batch))
  /\ todo' = batch /\ pc' = "post"
  /\ UNCHANGED <<sq, waiting, decoding, waitSince, late, phase, window, resident,
                 inflight, scan>>
  /\ UNCHANGED <<outVars, pending, published, ending, faults>>

\* It fails.  Prefill allocates request by request, decode all at once.
RunFails ==
  /\ pc = "scheduled" /\ batch # <<>>
  /\ faults < MaxFaults /\ faults' = faults + 1
  /\ \E k \in 0..Len(batch) :
       /\ isPrefill \/ k \in {0, Len(batch)}
       /\ Allocate(ToSet(SubSeq(batch, 1, k)))
  /\ waiting' = IF isPrefill THEN batch \o waiting ELSE waiting
  /\ ending' = batch /\ batch' = <<>> /\ isPrefill' = FALSE
  /\ pc' = "reclaim" /\ raised' = "model_failure"
  /\ UNCHANGED <<sq, decoding, waitSince, late, phase, window, resident, inflight,
                 scan, preempted, pending, published, todo>>

\* Clean-up after a failed run: what cannot be released stays queued.
ReclaimOne ==
  LET r == Head(ending)
  IN  /\ pc = "reclaim" /\ ending # <<>>
      /\ \/ Released(r) /\ Drop(r)
         \/ ReleaseFails(r) /\ UNCHANGED <<sq, waiting, decoding, waitVars>>
      /\ ending' = Tail(ending)
      /\ pc' = IF Tail(ending) = <<>> THEN "idle" ELSE "reclaim"
      /\ UNCHANGED <<phase, inflight, scan, outVars, published, todo>>

\* Mutant: the length limit is noticed one token late.
WithTokenLate(r, s, eos) ==
  [s EXCEPT !.done = @ + 1,
            !.status = IF eos \/ s.done + 1 > MaxTokens[r] THEN "FINISHED" ELSE @]

\* append_token and the EOS or length test of postprocess.
WithToken(r, s, eos) ==
  LET ended == eos \/ s.done + 1 = MaxTokens[r]
  IN  [s EXCEPT !.done = @ + 1, !.status = IF ended THEN "FINISHED" ELSE @]

\* postprocess of one prefill: an unfinished prompt returns to the head of the
\* queue; a rebuilt prompt discards its sample.
PostprocessPrefill ==
  LET r == Head(todo)
      s == [sq[r] EXCEPT !.prefilled = @ + sq[r].chunk]
      complete == IsLastChunk(r)
      sampled == complete /\ ~IsReplay(s)
  IN  /\ pc = "post" /\ todo # <<>> /\ isPrefill
      /\ \E eos \in {e \in BOOLEAN : e => sampled} :
           /\ sq' = [sq EXCEPT ![r] =
                IF ~complete THEN [s EXCEPT !.status = "WAITING"]
                ELSE IF IsReplay(s) THEN ReplayUpTo([s EXCEPT !.status = "RUNNING"], 0)
                ELSE WithToken(r, [s EXCEPT !.status = "RUNNING"], eos)]
           /\ ending' = IF sq'[r].status = "FINISHED" THEN Append(ending, r) ELSE ending
      /\ waiting' = IF complete THEN waiting ELSE <<r>> \o waiting
      /\ decoding' = IF complete THEN Append(decoding, r) ELSE decoding
      /\ waitSince' = IF complete THEN waitSince ELSE Noted(r)
      /\ published' = [published EXCEPT ![r] = @ + (IF sampled THEN 1 ELSE 0)]
      /\ todo' = Tail(todo)
      /\ UNCHANGED <<late, phase, window, free, kv, resident, inflight, pc, scan>>
      /\ UNCHANGED <<outVars, pending, faults>>

\* postprocess of one decode: a replayed token is already known.
PostprocessDecode ==
  LET r == Head(todo)
      sampled == ~IsReplay(sq[r])
  IN  /\ pc = "post" /\ todo # <<>> /\ ~isPrefill
      /\ \E eos \in {e \in BOOLEAN : e => sampled} :
           /\ sq' = [sq EXCEPT ![r] = IF sampled THEN WithToken(r, @, eos)
                                                 ELSE ReplayUpTo(@, @.cursor + 1)]
           /\ ending' = IF sq'[r].status = "FINISHED" THEN Append(ending, r) ELSE ending
      /\ published' = [published EXCEPT ![r] = @ + (IF sampled THEN 1 ELSE 0)]
      /\ todo' = Tail(todo)
      /\ UNCHANGED <<waiting, decoding, waitSince, late, phase, window, free, kv,
                     resident, inflight, pc, scan>>
      /\ UNCHANGED <<outVars, pending, faults>>

\* Finished requests are released one by one; a failed release ends the step
\* with the request still queued.
ReleaseFinished ==
  LET r == Head(ending)
  IN  /\ pc = "post" /\ todo = <<>> /\ ending # <<>>
      /\ \/ /\ Released(r) /\ Drop(r)
            /\ ending' = Tail(ending)
            /\ UNCHANGED <<pc, outVars>>
         \/ /\ ReleaseFails(r)
            /\ ending' = <<>> /\ pc' = "idle" /\ raised' = "release_failure"
            /\ batch' = <<>> /\ isPrefill' = FALSE
            /\ UNCHANGED <<sq, waiting, decoding, waitVars, preempted>>
      /\ UNCHANGED <<phase, inflight, scan, published, todo>>

EndStep ==
  /\ pc = "post" /\ todo = <<>> /\ ending = <<>>
  /\ pc' = "idle" /\ batch' = <<>> /\ isPrefill' = FALSE
  /\ UNCHANGED <<sq, waiting, decoding, waitSince, late, phase, window, free, kv,
                 resident, inflight, scan, preempted, raised, engineVars>>

-----------------------------------------------------------------------------
Init ==
  /\ SchedInit
  /\ pending = {} /\ published = [r \in Req |-> 0]
  /\ todo = <<>> /\ ending = <<>> /\ faults = 0

\* The engine thread's own steps.
EngineStep ==
  \/ BeginStep \/ ScheduleStep \/ ReleasePreempted \/ RaiseNothingToRun
  \/ RunModel \/ RunFails \/ ReclaimOne
  \/ PostprocessPrefill \/ PostprocessDecode \/ ReleaseFinished \/ EndStep

\* Every request has ended; nothing more is asked of the engine.
Quiescent ==
  /\ pc = "idle" /\ pending = {}
  /\ \A r \in Req : sq[r].status = "FINISHED"
  /\ UNCHANGED vars

Next ==
  \/ \E r \in Req : AddRequest(r) \/ AbortRequest(r) \/ WaitTimeout(r)
  \/ EngineStep \/ RefuseStep \/ Quiescent

Spec == Init /\ [][Next]_vars

-----------------------------------------------------------------------------
(* Properties.                                                             *)

TypeOK ==
  /\ sq \in [Req -> SequenceState]
  /\ waiting \in Seq(Req) /\ decoding \in Seq(Req) /\ waitSince \in Seq(Req)
  /\ late \subseteq Req /\ phase \in {"prefill", "decode"}
  /\ window \in [Req -> Nat] /\ free \in Int /\ kv \in [Req -> Nat]
  /\ resident \subseteq Req /\ inflight \in Nat
  /\ pc \in {"idle", "begin", "reserve", "prefill", "decode", "scheduled", "drain",
             "post", "reclaim"}
  /\ scan \in ScanState
  /\ batch \in Seq(Req) /\ isPrefill \in BOOLEAN
  /\ preempted \in Req \cup {NoReq}
  /\ raised \in {"none", "sole_decode", "all_deferred", "model_failure",
                 "release_failure", "release_pending", "nothing_to_run"}
  /\ pending \subseteq Req /\ published \in [Req -> Nat]
  /\ todo \in Seq(Req) /\ ending \in Seq(Req) /\ faults \in Nat

\* The slot pool is never overdrawn and never leaks: what is free and what the
\* requests' rows hold add up to the pool (_take_device_slots, free_seq), so
\* the batch the scheduler selects always finds the slots it allocates.
SlotLedger == free >= 0 /\ free + Cardinality(Held) = NumSlots

\* What the selected batch is going to write, and what the selection may still
\* hand out, is free: _take_device_slots never runs short in the middle of a
\* step, and a batch is carried neither past the end of a step nor beside a
\* preemption.  With TypeOK and SlotLedger this is inductive.
BatchFits ==
  /\ pc \in {"idle", "begin", "reserve", "drain", "reclaim"} => batch = <<>>
  /\ preempted # NoReq => pc = "scheduled" /\ batch = <<>>
  /\ pc = "prefill" => isPrefill
  /\ pc = "decode" => /\ ~isPrefill /\ scan.left <= Len(decoding)
                      /\ scan.failed # NoReq => batch = <<>>
  /\ pc \in {"prefill", "decode"} =>
       Cardinality(Writes(ToSet(batch))) + scan.room <= free
  /\ pc = "scheduled" => Cardinality(Writes(ToSet(batch))) <= free

\* Requests the current step has taken out of the queues.
Popped ==
  IF pc \in {"prefill", "decode"} THEN batch
  ELSE IF isPrefill /\ pc = "scheduled" THEN batch
  ELSE IF isPrefill /\ pc = "post" THEN todo
  ELSE <<>>
Places == waiting \o scan.skipped \o decoding \o Popped

\* A live request is in exactly one place where the scheduler will find it
\* again, through every deferral, preemption, requeue and failed step.
QueuedOnce ==
  /\ \A i, j \in DOMAIN Places : Places[i] = Places[j] => i = j
  /\ \A r \in Req :
       /\ sq[r].status \in {"WAITING", "RUNNING"} => r \in ToSet(Places)
       /\ sq[r].status = "NEW" => r \notin ToSet(Places)

\* No request the engine has forgotten still owns KV, residency or a window
\* (the zombies that SPARSEENGINE_DEBUG_SLOTS looks for).
NoZombies ==
  \A r \in Req \ ToSet(Places) : kv[r] = 0 /\ window[r] = 0 /\ r \notin resident

\* A release that failed stays owed by a queued request, so that retrying
\* abort_request, as step() asks its caller to, performs it.
OwedReleasesHaveOwners == pending \subseteq ToSet(waiting) \cup ToSet(decoding)

\* Tokens of r whose KV must be in the cache.
Progress(r) ==
  IF sq[r].prefilled < Prompt[r] THEN sq[r].prefilled
  ELSE IF IsReplay(sq[r]) THEN Prompt[r] + sq[r].cursor
  ELSE Prompt[r] + sq[r].done + sq[r].pend - 1

\* Requests whose KV is about to be released, or may have been.
Unsettled ==
  pending \cup {preempted} \cup (IF pc = "reclaim" THEN ToSet(ending) ELSE {})

\* A request's KV rows hold exactly the tokens its progress counts, so prefill
\* finds the row length it checks, and decode, which checks nothing, writes at
\* the position it feeds to the model; also through preemption and replay.
KVMatchesProgress ==
  \A r \in ToSet(Places) \ Unsettled :
    /\ kv[r] = Progress(r) + (IF r \in ToSet(todo) THEN StepCost(r) ELSE 0)
    /\ pc = "scheduled" /\ r \in ToSet(batch) /\ ~isPrefill => DecodePosition(r) = kv[r]

\* Every accepted token is handed out once: a replay neither repeats nor loses
\* one and never reads past the accepted history (decode_input_token raises),
\* and no request exceeds max_tokens.
OutputsOnce ==
  \A r \in Req :
    /\ published[r] = sq[r].done /\ sq[r].done <= MaxTokens[r]
    /\ IsReplayDecode(r) => sq[r].cursor < ReplayDecodeCount(sq[r])

\* _preempt_decode_victim is about to refuse its victim.
GivingUp ==
  /\ inflight = 0 /\ pc = "decode"
  /\ \E v \in {scan.failed, scan.blocked} \ {NoReq} :
       SoleDecodeStuck(v, RemoveFirst(decoding, v)) /\ batch = <<>>

\* When each request fits the pool on its own, the engine gives up for lack of
\* capacity only where the slots are held by a prompt that is half prefilled:
\* a replay's decodes take slots reserved for it, or a waiting replay holds its
\* prefill back.  Otherwise someone can always run or be preempted.
FitsAlone == \A r \in Req : Prompt[r] + MaxTokens[r] - 1 <= NumSlots
ParkedPrefills == {r \in ToSet(waiting) : IsPartial(r)}
NoCapacityError ==
  FitsAlone => /\ raised \notin {"all_deferred", "nothing_to_run"}
               /\ GivingUp => ParkedPrefills # {}

\* Slots spoken for: the KV a request has, the rest of its decode window, and
\* the rest of a prompt once admitted.
Claim(r) ==
  Max({kv[r], IF window[r] > 0 THEN Prompt[r] + window[r] - 1 ELSE 0,
       IF r \in ToSet(Places) /\ (IsPartial(r) \/ (isPrefill /\ r \in ToSet(Popped)))
         THEN Prompt[r] ELSE 0})
Kept == Cardinality({t \in Tokens : t[2] <= Claim(t[1])}) <= NumSlots

\* Promises hold: admission and window renewal never hand out slots that a
\* window or an admitted prompt counts on.  Only a replay's decode may.
PromisesKept ==
  [][Kept => Kept' \/ \E r \in ToSet(batch) : IsReplayDecode(r)]_vars

\* A finished or aborted request stays so and produces nothing more.
EndIsFinal ==
  [][\A r \in Req : sq[r].status = "FINISHED" =>
       sq'[r].status = "FINISHED" /\ published'[r] = published[r]]_vars

\* step() is called for as long as there is work.
FairSpec == Spec /\ WF_vars(EngineStep)

\* The engine implements the service: sq's status is the request's stage, and
\* what it hands out is what postprocess accepted.
Service == INSTANCE RequestService WITH
  stage <- [r \in Req |-> CASE sq[r].status = "NEW" -> "new"
                            [] sq[r].status = "FINISHED" -> "ended"
                            [] OTHER -> "live"],
  outputs <- published

\* Every step of the engine is a step of the service, or none it can see:
\* preemption, replay and deferral neither repeat, drop nor add an output.
ImplementsService == Service!Spec

\* Every request the engine accepted ends, whatever is preempted and replayed.
EveryRequestEnds == Service!Ends

\* Nobody is lost: a live request is in one queue exactly once, none that ended
\* keeps KV, and every release step() insists on can be retried, through failed
\* runs and releases (_step_sync, abort_request).
RequestsAccounted == QueuedOnce /\ NoZombies /\ OwedReleasesHaveOwners

\* Preemption, recomputation and replay are invisible: KV rows agree with the
\* progress of their request and each output is handed out once
\* (start_recompute_replay to finish_recompute_replay).
ReplayFaithful == KVMatchesProgress /\ OutputsOnce

=============================================================================
