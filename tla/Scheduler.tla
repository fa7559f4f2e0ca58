------------------------------ MODULE Scheduler ------------------------------
(***************************************************************************)
(* The scheduler of SparseEngine (engine/scheduler.py) with the state it   *)
(* reads and writes: the Sequence objects (engine/sequence.py), the decode *)
(* window promises (cache_manager/decode_reservation.py) and the physical  *)
(* KV ledger of a single slot pool (runtime_state.py over the standard     *)
(* cache manager, chunked prefill, prefix cache and chain cache off).      *)
(*                                                                         *)
(* One call of Scheduler.schedule() is a run of small steps, one per       *)
(* iteration of its loops, from pc = "begin" to pc = "scheduled" (a batch, *)
(* a preempted victim or nothing), "drain" (AsyncDrainRequired) or, when   *)
(* it raises, back to "idle" with the error in raised.  What happens       *)
(* around a call is the business of the modules that extend this one.      *)
(*                                                                         *)
(* Token counts are exact; token values, sampling and time are not: a      *)
(* sampled token either is an EOS or is not, and a waiting request is late *)
(* (it has waited 60 s) or is not.                                         *)
(***************************************************************************)
EXTENDS Integers, Sequences, FiniteSets, SequencesExt

CONSTANTS
  Req,              \* request (sequence) ids
  NoReq,            \* Python's None where a request is expected
  Prompt,           \* Prompt[r]: num_prompt_tokens
  MaxTokens,        \* MaxTokens[r]: max_tokens of its sampling parameters
  MaxModelLen,      \* max_model_len
  NumSlots,         \* KV slots of the pool
  MaxResident,      \* max_num_seqs_in_gpu: resident requests, and cache rows
  ChunkSize,        \* engine_prefill_chunk_size
  MaxBatchedTokens, \* max_num_batched_tokens
  MaxSeqsInBatch,   \* max_num_seqs_in_batch
  MaxDecoding,      \* max_decoding_seqs
  Window,           \* decode reservation window
  FavorMin          \* favor_min_decoding_seqs, 0 turns decode affinity off

ASSUME ReqAssumption == IsFiniteSet(Req) /\ NoReq \notin Req

ASSUME SizeAssumption ==
  /\ MaxModelLen \in Nat /\ NumSlots \in Nat /\ FavorMin \in Nat
  /\ MaxResident \in Nat \ {0} /\ ChunkSize \in Nat \ {0}
  /\ MaxBatchedTokens \in Nat \ {0} /\ MaxSeqsInBatch \in Nat \ {0}
  /\ MaxDecoding \in Nat \ {0} /\ Window \in Nat \ {0}

\* admit_request refuses anything longer than max_model_len.
ASSUME RequestAssumption ==
  /\ Prompt \in [Req -> Nat \ {0}] /\ MaxTokens \in [Req -> Nat \ {0}]
  /\ \A r \in Req : Prompt[r] + MaxTokens[r] <= MaxModelLen

VARIABLES
  sq,        \* Sequence objects
  waiting,   \* Scheduler.waiting
  decoding,  \* Scheduler.decoding
  waitSince, \* keys of _prefill_wait_since, oldest first
  late,      \* those of them that have waited 60 s
  phase,     \* Scheduler.phase
  window,    \* DecodeReservations.requests: window[r] = end, 0 if absent
  free,      \* the pool's _num_free_slots
  kv,        \* row_seq_lens of each request's row (0: it has no row)
  resident,  \* RuntimeState._resident_seq_ids
  inflight,  \* Scheduler._async_inflight
  pc,        \* where the engine thread is
  scan,      \* the locals of _schedule_impl
  batch,     \* scheduled_seqs
  isPrefill, \* ... and whether they are a prefill batch
  preempted, \* the preempted sequence, if any
  raised     \* the last exception raised out of the engine

seqVars  == <<sq, window, free, kv, resident>>
waitVars == <<waitSince, late>>
outVars  == <<batch, isPrefill, preempted, raised>>
schedVars == <<sq, waiting, decoding, waitSince, late, phase, window, free, kv,
               resident, inflight, pc, scan, batch, isPrefill, preempted, raised>>

-----------------------------------------------------------------------------
(* Sequence: the request's progress.                                       *)

NotReplaying == -1      \* recompute_replay_cursor is None

SequenceState ==
  [status : {"NEW", "WAITING", "RUNNING", "FINISHED"}, prefilled : Nat,
   chunk : Nat, done : Nat, pend : Nat, cursor : Nat \cup {NotReplaying},
   checkpoint : Nat]

NewSequence ==
  [status |-> "NEW", prefilled |-> 0, chunk |-> 0, done |-> 0, pend |-> 0,
   cursor |-> NotReplaying, checkpoint |-> 0]

IsReplay(s) == s.cursor # NotReplaying
IsReplayDecode(r) == IsReplay(sq[r]) /\ sq[r].prefilled >= Prompt[r]
ReplayDecodeCount(s) == IF s.done = 0 THEN 0 ELSE s.done - 1
IsPartial(r) == 0 < sq[r].prefilled /\ sq[r].prefilled < Prompt[r]
IsLastChunk(r) == sq[r].prefilled + sq[r].chunk >= Prompt[r]

\* Mutant: outputs in flight do not advance the position.
DecodePositionIgnoresPending(r) ==
  IF IsReplayDecode(r) THEN Prompt[r] + sq[r].cursor ELSE Prompt[r] + sq[r].done - 1

\* The KV position the next decode of r writes (decode_input_position).
DecodePosition(r) ==
  IF IsReplayDecode(r) THEN Prompt[r] + sq[r].cursor
                       ELSE Prompt[r] + sq[r].done + sq[r].pend - 1

\* Mutant: the prompt is not prefilled again.
RestartedKeepsPrefill(s) ==
  IF s.done > 0
    THEN [s EXCEPT !.status = "WAITING", !.cursor = 0, !.checkpoint = s.done]
    ELSE [s EXCEPT !.status = "WAITING", !.prefilled = 0]

\* start_recompute_replay; a victim with no output restarts its prefill.
Restarted(s) ==
  IF s.done > 0
    THEN [s EXCEPT !.status = "WAITING", !.cursor = 0, !.checkpoint = s.done,
                   !.prefilled = 0, !.chunk = 0]
    ELSE [s EXCEPT !.status = "WAITING", !.prefilled = 0]

\* Mutant: one token too many is replayed.
ReplayUpToLate(s, cursor) ==
  IF cursor > ReplayDecodeCount(s)
    THEN [s EXCEPT !.cursor = NotReplaying, !.checkpoint = s.done]
    ELSE [s EXCEPT !.cursor = cursor]

\* finish_recompute_replay, taken once every earlier output has its KV back.
ReplayUpTo(s, cursor) ==
  IF cursor >= ReplayDecodeCount(s)
    THEN [s EXCEPT !.cursor = NotReplaying, !.checkpoint = s.done]
    ELSE [s EXCEPT !.cursor = cursor]

-----------------------------------------------------------------------------
(* Queues; RemoveFirst is deque.remove.                                    *)

\* dict.setdefault on _prefill_wait_since.
Noted(r) == IF r \in ToSet(waitSince) THEN waitSince ELSE Append(waitSince, r)

\* _prefill_wait_since.pop
Unnote(r) == waitSince' = RemoveFirst(waitSince, r) /\ late' = late \ {r}

ReplayWaiting == \E r \in ToSet(waiting) : IsReplay(sq[r])

-----------------------------------------------------------------------------
(* The KV ledger.  A token position of a request is a pair <<r, i>>; the   *)
(* amounts the code adds up are the sizes of sets of such pairs.           *)

Tokens == Req \X (1..MaxModelLen)

Max0(n) == IF n < 0 THEN 0 ELSE n

Held == {t \in Tokens : t[2] <= kv[t[1]]}

\* Outputs whose KV exists or is being written: completed and in flight.
Submitted(r) == sq[r].done + sq[r].pend

\* Positions promised to the rest of the active decode windows.
WindowPromise == {t \in Tokens : Submitted(t[1]) < t[2] /\ t[2] <= window[t[1]]}
Outstanding == Cardinality(WindowPromise)

\* reserved_prefill_slots: what partial prefills in the queue still need.
PrefillPromise ==
  {t \in Tokens : /\ t[1] \in ToSet(waiting) /\ IsPartial(t[1])
                  /\ sq[t[1]].prefilled < t[2] /\ t[2] <= Prompt[t[1]]}
ReservedPrefill == Cardinality(PrefillPromise)

StepFree == Max0(free - Outstanding)

\* Mutant: prompts are admitted into slots promised to decode windows.
AdmissionFreeIgnoresWindows == Max0(free - ReservedPrefill)

AdmissionFree == Max0(Max0(free - ReservedPrefill) - Outstanding)
FreeRows == MaxResident - Cardinality({r \in Req : kv[r] > 0})

\* Slots the selected batch allocates for r, and the positions that takes.
StepCost(r) == IF isPrefill THEN sq[r].chunk ELSE 1
Writes(S) ==
  {t \in Tokens : /\ t[1] \in S
                  /\ kv[t[1]] < t[2] /\ t[2] <= kv[t[1]] + StepCost(t[1])}

\* Mutant: the freed row keeps its length.
ReleaseKeepsRow(S) ==
  /\ window' = [r \in Req |-> IF r \in S THEN 0 ELSE window[r]]
  /\ free' = free + Cardinality({t \in Held : t[1] \in S})
  /\ kv' = kv /\ resident' = resident \ S

\* Mutant: the released request keeps its decode window.
ReleaseKeepsWindow(S) ==
  /\ window' = window
  /\ free' = free + Cardinality({t \in Held : t[1] \in S})
  /\ kv' = [r \in Req |-> IF r \in S THEN 0 ELSE kv[r]]
  /\ resident' = resident \ S

\* RuntimeState.free_seq for the requests S: a second release finds nothing.
Release(S) ==
  /\ window' = [r \in Req |-> IF r \in S THEN 0 ELSE window[r]]
  /\ free' = free + Cardinality({t \in Held : t[1] \in S})
  /\ kv' = [r \in Req |-> IF r \in S THEN 0 ELSE kv[r]]
  /\ resident' = resident \ S

-----------------------------------------------------------------------------
(* DecodeReservations.                                                     *)

NeedsAcquisition(r) ==
  /\ window[r] <= Submitted(r)
  /\ Submitted(r) < MaxTokens[r]
  /\ ~IsReplay(sq[r])

WindowSize(r) == Min({Window, MaxTokens[r] - Submitted(r)})

\* The partial prefills' reserve counts only as far as slots are free.
Fits(k) == k + Outstanding + Min({free, ReservedPrefill}) <= free

\* A window of k tokens: a whole one, or for the sole decode the longest.
Acquires(r, k) ==
  /\ k \in 1..WindowSize(r)
  /\ Fits(k)
  /\ k = WindowSize(r) \/ (Len(decoding) = 1 /\ ~Fits(k + 1))

\* The next request of acquire_many's loop over decoding.
NextToAcquire(r) ==
  \E i \in DOMAIN decoding :
    /\ decoding[i] = r /\ NeedsAcquisition(r)
    /\ \A j \in 1..(i - 1) : ~NeedsAcquisition(decoding[j])

Refused(r) == NextToAcquire(r) /\ ~\E k \in 1..WindowSize(r) : Acquires(r, k)

\* reserve_decode_windows found a window for everyone but, at most, failed.
Reserved(failed) ==
  IF failed = NoReq THEN \A r \in ToSet(decoding) : ~NeedsAcquisition(r)
                    ELSE failed \in ToSet(decoding) /\ Refused(failed)

-----------------------------------------------------------------------------
(* schedule(): the selection of one batch.                                 *)

ScanState ==
  [failed : Req \cup {NoReq}, bucket : 0..3, left : Nat, skipped : Seq(Req),
   replay : BOOLEAN, room : Nat, slots : Nat, rows : Int, tokens : Nat,
   deferred : BOOLEAN, blocked : Req \cup {NoReq}]

NoScan ==
  [failed |-> NoReq, bucket |-> 0, left |-> 0, skipped |-> <<>>, replay |-> FALSE,
   room |-> 0, slots |-> 0, rows |-> 0, tokens |-> 0, deferred |-> FALSE,
   blocked |-> NoReq]

SchedInit ==
  /\ sq = [r \in Req |-> NewSequence]
  /\ waiting = <<>> /\ decoding = <<>> /\ waitSince = <<>> /\ late = {}
  /\ phase = "prefill"
  /\ window = [r \in Req |-> 0] /\ free = NumSlots /\ kv = [r \in Req |-> 0]
  /\ resident = {} /\ inflight = 0
  /\ pc = "idle" /\ scan = NoScan
  /\ batch = <<>> /\ isPrefill = FALSE /\ preempted = NoReq /\ raised = "none"

\* schedule() starts the wait of every queued request that has none.
NoteWaiting(r) ==
  /\ pc = "begin"
  /\ \E i \in DOMAIN waiting :
       /\ waiting[i] = r /\ r \notin ToSet(waitSince)
       /\ \A j \in 1..(i - 1) : waiting[j] \in ToSet(waitSince)
  /\ waitSince' = Append(waitSince, r)
  /\ UNCHANGED <<sq, waiting, decoding, late, phase, window, free, kv, resident,
                 inflight, pc, scan, batch, isPrefill, preempted, raised>>

BeginReserve ==
  /\ pc = "begin" /\ ToSet(waiting) \subseteq ToSet(waitSince)
  /\ pc' = "reserve"
  /\ UNCHANGED <<sq, waiting, decoding, waitSince, late, phase, window, free, kv,
                 resident, inflight, scan, batch, isPrefill, preempted, raised>>

\* DecodeReservations._acquire succeeds for the next request in line.
AcquireWindow(r) ==
  /\ pc = "reserve" /\ NextToAcquire(r)
  /\ \E k \in 1..WindowSize(r) :
       Acquires(r, k) /\ window' = [window EXCEPT ![r] = Submitted(r) + k]
  /\ UNCHANGED <<sq, waiting, decoding, waitSince, late, phase, free, kv, resident,
                 inflight, pc, scan, batch, isPrefill, preempted, raised>>

\* Replaying the sole decode would rebuild the same cache state.
SoleDecodeStuck(victim, others) ==
  /\ sq[victim].done > 0
  /\ others = <<>>
  /\ ~(ReplayWaiting /\ sq[victim].done > sq[victim].checkpoint)

\* _preempt_decode_victim.  A rejected preemption leaves the victim queued; a
\* preemption renews the progress checkpoint of every survivor.
Preempt(victim) ==
  LET others == RemoveFirst(decoding, victim)
  IN  /\ inflight = 0
      /\ \/ /\ SoleDecodeStuck(victim, others)
            /\ pc' = "idle" /\ raised' = "sole_decode"
            /\ UNCHANGED <<sq, waiting, decoding, waitSince, preempted>>
         \/ /\ ~SoleDecodeStuck(victim, others)
            /\ sq' = [r \in Req |->
                        IF r = victim THEN Restarted(sq[r])
                        ELSE IF r \in ToSet(others)
                               THEN [sq[r] EXCEPT !.checkpoint = sq[r].done]
                               ELSE sq[r]]
            /\ decoding' = others /\ waiting' = Append(waiting, victim)
            /\ waitSince' = Noted(victim)
            /\ preempted' = victim /\ pc' = "scheduled"
            /\ UNCHANGED raised
      /\ scan' = NoScan
      /\ UNCHANGED <<late, phase, window, free, kv, resident, inflight, batch, isPrefill>>

\* Slots held by tickets in flight come back when they retire, so a shortage
\* never preempts before they do (_reclaim_decode_capacity).
DrainFirst ==
  /\ inflight > 0
  /\ pc' = "drain" /\ scan' = NoScan
  /\ UNCHANGED <<sq, waiting, decoding, waitSince, late, phase, window, free, kv,
                 resident, inflight, batch, isPrefill, preempted, raised>>

\* A window cannot be renewed while several requests decode.
PreemptUnreserved(r) ==
  /\ pc = "reserve" /\ Refused(r) /\ Len(decoding) > 1
  /\ Preempt(r)

DrainUnreserved(r) == pc = "reserve" /\ Refused(r) /\ DrainFirst

\* Mutant: outputs in flight are not counted.
ExhaustedIgnoresPending(r) == sq[r].done >= MaxTokens[r]

Exhausted(r) == Submitted(r) >= MaxTokens[r]

\* r stands before s in queue q.
Before(q, r, s) == \E i, j \in DOMAIN q : q[i] = r /\ q[j] = s /\ i < j

\* _eligible_decode_batch: the first unfinished decodes, as many as fit.
LiveDecodes == {r \in ToSet(decoding) : ~Exhausted(r)}
AffinitySize == Min({Cardinality(LiveDecodes), Max0(free), MaxDecoding})
IsEligibleBatch(b) ==
  /\ \A i, j \in DOMAIN b : i < j => Before(decoding, b[i], b[j])
  /\ \A i \in DOMAIN b, r \in LiveDecodes \ ToSet(b) : Before(decoding, b[i], r)

AffinityChosen ==
  /\ FavorMin > 0 /\ phase = "decode" /\ late = {}
  /\ AffinitySize > 0
  /\ waiting = <<>> \/ AffinitySize >= FavorMin

\* Decode affinity: keep decoding while enough requests can.
ScheduleAffinity ==
  /\ pc = "reserve" /\ Reserved(NoReq) /\ AffinityChosen
  /\ \E b \in [1..AffinitySize -> LiveDecodes] : IsEligibleBatch(b) /\ batch' = b
  /\ isPrefill' = FALSE /\ pc' = "scheduled"
  /\ UNCHANGED <<sq, waiting, decoding, waitSince, late, phase, window, free, kv,
                 resident, inflight, scan, preempted, raised>>

\* _prefill_priority; 3 is never selected.
Priority(r, replayPending) ==
  IF ~replayPending THEN 0
  ELSE IF IsPartial(r) THEN (IF IsReplay(sq[r]) THEN 1 ELSE 0)
  ELSE (IF IsReplay(sq[r]) THEN 2 ELSE 3)

\* Eligibility shared by _prefill_mode_order and _pop_next_prefill_seq.
Eligible(r, replayPending) ==
  /\ Priority(r, replayPending) # 3
  /\ ~(Len(decoding) >= MaxDecoding /\ sq[r].prefilled = 0)

\* Buckets of priority b or more that some queued request can be served from.
Buckets(q, replayPending, b) ==
  {n \in b..3 : \E r \in ToSet(q) : /\ Eligible(r, replayPending)
                                    /\ Priority(r, replayPending) = n}

\* The queue in order of waiting time.
SortedByWait(q, t) ==
  /\ ToSet(t) = ToSet(q)
  /\ \A i, j \in DOMAIN t : i < j => Before(waitSince, t[i], t[j])

\* Mutant: a replay is rebuilt while others still decode.
PrefillAlwaysAllowed == waiting # <<>>

\* A replay is only rebuilt once the surviving decodes have drained.
PrefillAllowed == waiting # <<>> /\ ~(ReplayWaiting /\ decoding # <<>>)

\* Mutant: the pool's size stands in for what is left of it.
DecodeScanWholePool(old) ==
  [old EXCEPT !.left = Len(decoding), !.room = NumSlots, !.skipped = <<>>,
              !.bucket = 0, !.blocked = NoReq]

\* Back to the head of decoding, with every free slot to hand out.
DecodeScan(old) ==
  [old EXCEPT !.left = Len(decoding), !.room = Max0(free), !.skipped = <<>>,
              !.bucket = 0, !.blocked = NoReq]

\* Query the budgets and choose the first prefill bucket, or turn to decode.
BeginSelection ==
  /\ pc = "reserve"
  /\ \E failed \in Req \cup {NoReq} :
       /\ Reserved(failed)
       /\ IF failed = NoReq THEN ~AffinityChosen ELSE Len(decoding) = 1 /\ inflight = 0
       /\ LET first == Buckets(waiting, ReplayWaiting, 0)
              start == [NoScan EXCEPT !.failed = failed, !.replay = ReplayWaiting,
                          !.room = StepFree, !.slots = AdmissionFree, !.rows = FreeRows]
          IN  IF PrefillAllowed /\ first # {}
                THEN /\ pc' = "prefill"
                     /\ scan' = [start EXCEPT !.bucket = Min(first), !.left = Len(waiting)]
                ELSE /\ pc' = "decode"
                     /\ scan' = DecodeScan(start)
  /\ isPrefill' = (pc' = "prefill")
  /\ IF FavorMin > 0 /\ late # {}
       THEN \E t \in [1..Len(waiting) -> ToSet(waiting)] :
              SortedByWait(waiting, t) /\ waiting' = t
       ELSE UNCHANGED waiting
  /\ UNCHANGED <<sq, decoding, waitSince, late, phase, window, free, kv, resident,
                 inflight, batch, preempted, raised>>

-----------------------------------------------------------------------------
(* Prefill selection: one pass over waiting per bucket.                    *)

\* _can_continue_prefill_batch: a replay has its step to itself.
CanContinue ==
  /\ waiting # <<>>
  /\ ~(batch # <<>> /\ IsReplay(sq[Head(batch)]))
  /\ scan.tokens <= MaxBatchedTokens
  /\ Len(batch) < MaxSeqsInBatch

Scanning == pc = "prefill" /\ scan.left > 0 /\ CanContinue

InBucket(r) ==
  /\ Eligible(r, scan.replay)
  /\ Priority(r, scan.replay) = scan.bucket

\* _prefill_step_tokens
ChunkFor(r) ==
  Min({Prompt[r] - sq[r].prefilled, ChunkSize,
         MaxBatchedTokens - scan.tokens, scan.room})

IsFresh(r) == sq[r].prefilled = 0

\* Mutant: the prompt's length is not checked.
AdmissionFitsIgnoresSlots(r) ==
  1 <= scan.rows /\ (r \in resident \/ Cardinality(resident) < MaxResident)

\* The prompt's whole length, a row and residency, unless already resident.
AdmissionFits(r) ==
  /\ Prompt[r] <= scan.slots
  /\ 1 <= scan.rows
  /\ r \in resident \/ Cardinality(resident) < MaxResident

PrefillSkip ==
  /\ Scanning /\ ~InBucket(Head(waiting))
  /\ scan' = [scan EXCEPT !.skipped = Append(@, Head(waiting))]
  /\ waiting' = Tail(waiting)
  /\ UNCHANGED <<sq, decoding, waitSince, late, phase, window, free, kv, resident,
                 inflight, pc, batch, isPrefill, preempted, raised>>

\* No room for a single token, or the prompt is not admitted: back to the tail.
PrefillDefer ==
  LET r == Head(waiting)
      noRoom == ChunkFor(r) <= 0
  IN  /\ Scanning /\ InBucket(r)
      /\ noRoom \/ (IsFresh(r) /\ ~AdmissionFits(r))
      /\ waiting' = Append(Tail(waiting), r)
      /\ scan' = [scan EXCEPT !.left = @ - 1, !.deferred = @ \/ ~noRoom]
      /\ UNCHANGED <<sq, decoding, waitSince, late, phase, window, free, kv, resident,
                     inflight, pc, batch, isPrefill, preempted, raised>>

\* Admit a fresh prompt and give the request its next chunk.
PrefillTake ==
  LET r == Head(waiting)
      n == ChunkFor(r)
      need == IF IsFresh(r) THEN Prompt[r] ELSE 0
      row == IF IsFresh(r) THEN 1 ELSE 0
  IN  /\ Scanning /\ InBucket(r) /\ n > 0
      /\ IsFresh(r) => AdmissionFits(r)
      /\ sq' = [sq EXCEPT ![r].status = "RUNNING", ![r].chunk = n]
      /\ resident' = IF IsFresh(r) THEN resident \cup {r} ELSE resident
      /\ scan' = [scan EXCEPT !.left = @ - 1, !.slots = @ - need, !.rows = @ - row,
                              !.tokens = @ + n, !.room = @ - n]
      /\ waiting' = Tail(waiting) /\ batch' = Append(batch, r)
      /\ Unnote(r)
      /\ UNCHANGED <<decoding, phase, window, free, kv, inflight, pc, isPrefill,
                     preempted, raised>>

PrefillScanOver == pc = "prefill" /\ ~Scanning

\* Mutant: requests of other buckets are forgotten.
SchedulePrefillLosesSkipped ==
  /\ PrefillScanOver /\ batch # <<>>
  /\ pc' = "scheduled" /\ phase' = "prefill" /\ scan' = NoScan
  /\ UNCHANGED <<sq, waiting, decoding, waitSince, late, window, free, kv, resident,
                 inflight, batch, isPrefill, preempted, raised>>

SchedulePrefill ==
  /\ PrefillScanOver /\ batch # <<>>
  /\ waiting' = scan.skipped \o waiting
  /\ pc' = "scheduled" /\ phase' = "prefill" /\ scan' = NoScan
  /\ UNCHANGED <<sq, decoding, waitSince, late, window, free, kv, resident, inflight,
                 batch, isPrefill, preempted, raised>>

\* Nothing came out of this bucket: try the next one, then decode.
NextBucket ==
  LET q == scan.skipped \o waiting
      rest == Buckets(q, scan.replay, scan.bucket + 1)
  IN  /\ PrefillScanOver /\ batch = <<>>
      /\ waiting' = q
      /\ IF rest # {}
           THEN /\ scan' = [scan EXCEPT !.bucket = Min(rest), !.left = Len(q),
                                        !.skipped = <<>>]
                /\ UNCHANGED <<pc, isPrefill>>
           ELSE scan' = DecodeScan(scan) /\ pc' = "decode" /\ isPrefill' = FALSE
      /\ UNCHANGED <<sq, decoding, waitSince, late, phase, window, free, kv, resident,
                     inflight, batch, preempted, raised>>

-----------------------------------------------------------------------------
(* Decode selection: one pass over decoding.                               *)

\* The sole decode still has no window and no prefill could run.
PreemptSole ==
  /\ pc = "decode" /\ scan.failed # NoReq
  /\ Preempt(scan.failed)

DecodeScanning ==
  /\ pc = "decode" /\ scan.failed = NoReq /\ scan.blocked = NoReq
  /\ scan.left > 0 /\ Len(batch) < MaxDecoding

\* Its last output is already in flight.
DecodeSkip ==
  /\ DecodeScanning /\ Exhausted(Head(decoding))
  /\ decoding' = Append(Tail(decoding), Head(decoding))
  /\ scan' = [scan EXCEPT !.left = @ - 1]
  /\ UNCHANGED <<sq, waiting, waitSince, late, phase, window, free, kv, resident,
                 inflight, pc, batch, isPrefill, preempted, raised>>

DecodeTake ==
  /\ DecodeScanning /\ ~Exhausted(Head(decoding)) /\ scan.room >= 1
  /\ batch' = Append(batch, Head(decoding)) /\ decoding' = Tail(decoding)
  /\ scan' = [scan EXCEPT !.left = @ - 1, !.room = @ - 1]
  /\ UNCHANGED <<sq, waiting, waitSince, late, phase, window, free, kv, resident,
                 inflight, pc, isPrefill, preempted, raised>>

\* No slot is left for this one: it ends the pass.
DecodeBlock ==
  /\ DecodeScanning /\ ~Exhausted(Head(decoding)) /\ scan.room < 1
  /\ scan' = [scan EXCEPT !.blocked = Head(decoding)]
  /\ UNCHANGED <<sq, waiting, decoding, waitSince, late, phase, window, free, kv,
                 resident, inflight, pc, batch, isPrefill, preempted, raised>>

DecodeScanOver == pc = "decode" /\ scan.failed = NoReq /\ ~DecodeScanning

\* The batch returns to the head of decoding, the blocked request before it.
ScheduleDecode ==
  LET b == scan.blocked
  IN  /\ DecodeScanOver /\ batch # <<>>
      /\ decoding' = IF b = NoReq THEN batch \o decoding
                                  ELSE <<b>> \o batch \o RemoveFirst(decoding, b)
      /\ pc' = "scheduled" /\ phase' = "decode" /\ scan' = NoScan
      /\ UNCHANGED <<sq, waiting, waitSince, late, window, free, kv, resident, inflight,
                     batch, isPrefill, preempted, raised>>

PreemptBlocked ==
  /\ DecodeScanOver /\ batch = <<>> /\ scan.blocked # NoReq
  /\ Preempt(scan.blocked)

DrainBlocked ==
  DecodeScanOver /\ batch = <<>> /\ scan.blocked # NoReq /\ DrainFirst

\* Prompts lack slots that tickets in flight will give back.
WaitsForTickets ==
  /\ decoding = <<>> /\ waiting # <<>> /\ inflight > 0
  /\ scan.deferred \/ StepFree <= 0

\* Neither a batch nor a victim: an empty result, an error when no decode is
\* left to free the slots the prompts wait for, or a request to drain first.
ScheduleNothing ==
  /\ DecodeScanOver /\ batch = <<>> /\ scan.blocked = NoReq
  /\ IF WaitsForTickets
       THEN pc' = "drain" /\ UNCHANGED raised
       ELSE IF scan.deferred /\ decoding = <<>>
         THEN pc' = "idle" /\ raised' = "all_deferred"
         ELSE pc' = "scheduled" /\ UNCHANGED raised
  /\ scan' = NoScan
  /\ UNCHANGED <<sq, waiting, decoding, waitSince, late, phase, window, free, kv,
                 resident, inflight, batch, isPrefill, preempted>>

Schedule ==
  \/ \E r \in Req : NoteWaiting(r) \/ AcquireWindow(r) \/ PreemptUnreserved(r) \/ DrainUnreserved(r)
  \/ BeginReserve \/ ScheduleAffinity \/ BeginSelection
  \/ PrefillSkip \/ PrefillDefer \/ PrefillTake \/ SchedulePrefill \/ NextBucket
  \/ PreemptSole \/ DecodeSkip \/ DecodeTake \/ DecodeBlock \/ ScheduleDecode
  \/ PreemptBlocked \/ DrainBlocked \/ ScheduleNothing
=============================================================================
