-------------------------- MODULE SyncServiceProofs --------------------------
(***************************************************************************)
(* What a client of SyncEngine sees: preemption, recomputation and replay  *)
(* neither lose nor repeat a token and leave every KV row as long as the   *)
(* progress of its request, and, when nothing fails, the engine implements *)
(* RequestService.                                                         *)
(***************************************************************************)
EXTENDS SyncAccountProofs

-----------------------------------------------------------------------------
(* The inductive invariant.                                                *)

\* r is about to write, or has just written, the KV of a decode.
Writing(r) ==
  /\ ~isPrefill
  /\ \/ pc \in {"decode", "scheduled"} /\ r \in ToSet(batch)
     \/ r \in ToSet(todo)

\* Outputs handed out are the outputs accepted; a fresh request has none.
Counts(r) ==
  /\ sq[r].pend = 0 /\ published[r] = sq[r].done /\ sq[r].done <= MaxTokens[r]
  /\ sq[r].status = "NEW" => sq[r] = NewSequence
  /\ Writing(r) => sq[r].done < MaxTokens[r]

\* Waiting requests have some of their prompt before them and outputs only to
\* replay; decoding ones have prefilled it and an output to feed back.
Stage(r) ==
  /\ Prefills(r) => sq[r].prefilled < Prompt[r] /\ (~IsReplay(sq[r]) => sq[r].done = 0)
  /\ Placed(r) /\ ~Prefills(r) => sq[r].prefilled = Prompt[r] /\ sq[r].done > 0
  /\ isPrefill /\ r \in ToSet(Popped) => sq[r].prefilled + sq[r].chunk <= Prompt[r]
  /\ r = preempted => sq[r].prefilled = 0

\* A replay has outputs to rebuild and stops before the last one.
Replays(r) ==
  IsReplay(sq[r]) =>
    sq[r].done > 0 /\ (sq[r].prefilled >= Prompt[r] => sq[r].cursor < sq[r].done - 1)

\* The row length that the progress of r calls for.
Expected(r) == Progress(r) + (IF r \in ToSet(todo) THEN StepCost(r) ELSE 0)
Rows(r) == Placed(r) /\ r \notin Unsettled => kv[r] = Expected(r)

Faithful(r) == Counts(r) /\ Stage(r) /\ Replays(r) /\ Rows(r)
FInv == \A r \in Req : Faithful(r)

\* The numbers of a request.
LEMMA Numbers ==
  ASSUME TypeOK, NEW r \in Req
  PROVE  /\ Prompt[r] \in Nat /\ Prompt[r] > 0 /\ MaxTokens[r] \in Nat /\ MaxTokens[r] > 0
         /\ sq[r] \in SequenceState /\ sq[r].prefilled \in Nat /\ sq[r].chunk \in Nat
         /\ sq[r].done \in Nat /\ sq[r].pend \in Nat /\ sq[r].cursor \in Int
         /\ (IsReplay(sq[r]) => sq[r].cursor \in Nat)
         /\ kv[r] \in Nat /\ published[r] \in Nat /\ Progress(r) \in Int
         /\ StepCost(r) \in Nat
<1>1. sq \in [Req -> SequenceState] /\ kv[r] \in Nat /\ published[r] \in Nat BY DEF TypeOK
<1>2. /\ Prompt[r] \in Nat /\ Prompt[r] > 0 /\ MaxTokens[r] \in Nat /\ MaxTokens[r] > 0
  BY RequestAssumption
<1>3. /\ sq[r] \in SequenceState /\ sq[r].prefilled \in Nat /\ sq[r].chunk \in Nat
      /\ sq[r].done \in Nat /\ sq[r].pend \in Nat
      /\ sq[r].cursor \in Nat \cup {NotReplaying}
  BY <1>1, SequenceFields
<1>4. sq[r].cursor \in Int /\ (IsReplay(sq[r]) => sq[r].cursor \in Nat)
  BY <1>3 DEF IsReplay, NotReplaying
<1>5. Progress(r) \in Int BY <1>2, <1>3, <1>4 DEF Progress
<1>6. StepCost(r) \in Nat BY <1>3 DEF StepCost
<1> QED BY <1>1, <1>2, <1>3, <1>4, <1>5, <1>6

\* The invariant says what ReplayFaithful does.
LEMMA FaithSuffices ==
  ASSUME IInv, AInv, FInv
  PROVE  ReplayFaithful
<1>1. TypeOK /\ Queues BY DEF IInv, AInv
<1>2. ToSet(Places) \subseteq Req /\ \A r \in Req : (r \in ToSet(Places) <=> Placed(r))
  BY <1>1, PlacesAre
<1>3. ASSUME NEW r \in Req, r \in ToSet(Places) \ Unsettled
      PROVE  /\ kv[r] = Progress(r) + (IF r \in ToSet(todo) THEN StepCost(r) ELSE 0)
             /\ pc = "scheduled" /\ r \in ToSet(batch) /\ ~isPrefill => DecodePosition(r) = kv[r]
  <2>1. Stage(r) /\ kv[r] = Expected(r) BY <1>2, <1>3 DEF FInv, Faithful, Rows
  <2>2. ASSUME pc = "scheduled", r \in ToSet(batch), ~isPrefill
        PROVE  DecodePosition(r) = kv[r]
    <3>1. Placed(r) /\ ~Prefills(r) BY <2>2, BatchFacts DEF Prefills
    <3>2. sq[r].prefilled = Prompt[r] BY <2>1, <3>1 DEF Stage
    <3>3. todo = <<>> BY <2>2 DEF AInv, Lists
    <3>4. r \notin ToSet(todo) BY <3>3, EmptyQueue
    <3>5. Progress(r) \in Int /\ Prompt[r] \in Nat BY <1>1, Numbers
    <3>6. kv[r] = Progress(r) BY <2>1, <3>4, <3>5 DEF Expected
    <3>7. Progress(r) = DecodePosition(r)
      BY <3>2, <3>5 DEF Progress, DecodePosition, IsReplayDecode
    <3> QED BY <3>6, <3>7
  <2> QED BY <2>1, <2>2 DEF Expected
<1>4. ASSUME NEW r \in Req
      PROVE  /\ published[r] = sq[r].done /\ sq[r].done <= MaxTokens[r]
             /\ IsReplayDecode(r) => sq[r].cursor < ReplayDecodeCount(sq[r])
  <2>1. Counts(r) /\ Replays(r) BY DEF FInv, Faithful
  <2>2. sq[r].done \in Nat BY <1>1, Numbers
  <2> QED BY <2>1, <2>2 DEF Counts, Replays, IsReplayDecode, ReplayDecodeCount
<1>5. KVMatchesProgress BY <1>2, <1>3 DEF KVMatchesProgress
<1>6. OutputsOnce BY <1>4 DEF OutputsOnce
<1> QED BY <1>5, <1>6 DEF ReplayFaithful

LEMMA InitFaith == Init => FInv
<1> SUFFICES ASSUME Init, NEW r \in Req PROVE Faithful(r) BY DEF FInv
<1>1. /\ sq[r] = NewSequence /\ published[r] = 0 /\ Popped = <<>> /\ todo = <<>>
      /\ waiting = <<>> /\ decoding = <<>> /\ scan.skipped = <<>> /\ preempted = NoReq
      /\ pc = "idle"
  BY DEF Init, SchedInit, NoScan, Popped
<1>2. ~Placed(r) /\ ~Prefills(r) /\ ~Writing(r)
  BY <1>1, EmptyQueue DEF Placed, Prefills, InQueue, Writing
<1>3. MaxTokens[r] \in Nat BY RequestAssumption
<1>4. Counts(r) BY <1>1, <1>2, <1>3 DEF Counts, NewSequence
<1>5. Stage(r) /\ Replays(r) /\ Rows(r)
  BY <1>1, <1>2, EmptyQueue
  DEF Stage, Replays, Rows, NewSequence, IsReplay, NotReplaying
<1> QED BY <1>4, <1>5 DEF Faithful

-----------------------------------------------------------------------------
(* Steps that leave a request alone.                                       *)

\* A sequence that only its checkpoint tells apart.
SameProgress(s, t) ==
  /\ s.prefilled = t.prefilled /\ s.chunk = t.chunk /\ s.done = t.done
  /\ s.pend = t.pend /\ s.cursor = t.cursor

\* The counters of request q survive a step that does not touch them.
LEMMA CountsKept ==
  ASSUME NEW q \in Req, Faithful(q), SameProgress(sq'[q], sq[q]),
         sq'[q].status = "NEW" => sq'[q] = sq[q], published'[q] = published[q],
         Placed(q)' <=> Placed(q), Prefills(q)' <=> Prefills(q),
         isPrefill' /\ q \in ToSet(Popped)' => isPrefill /\ q \in ToSet(Popped),
         Writing(q)' => Writing(q) \/ sq[q].done < MaxTokens[q],
         q = preempted' => q = preempted
  PROVE  /\ Counts(q)' /\ Stage(q)' /\ Replays(q)'
         /\ Progress(q)' = Progress(q)
<1>1. Counts(q) /\ Stage(q) /\ Replays(q) BY DEF Faithful
<1>2. Counts(q)' BY <1>1 DEF Counts, SameProgress
<1>3. Stage(q)' BY <1>1 DEF Stage, SameProgress, IsReplay
<1>4. Replays(q)' BY <1>1 DEF Replays, SameProgress, IsReplay
<1>5. Progress(q)' = Progress(q) BY DEF Progress, SameProgress, IsReplay
<1> QED BY <1>2, <1>3, <1>4, <1>5

\* So does its row.
LEMMA FaithKept ==
  ASSUME NEW q \in Req, Faithful(q), SameProgress(sq'[q], sq[q]),
         sq'[q].status = "NEW" => sq'[q] = sq[q], published'[q] = published[q],
         kv'[q] = kv[q], Placed(q)' <=> Placed(q), Prefills(q)' <=> Prefills(q),
         isPrefill' /\ q \in ToSet(Popped)' => isPrefill /\ q \in ToSet(Popped),
         Writing(q)' => Writing(q) \/ sq[q].done < MaxTokens[q],
         q = preempted' => q = preempted,
         Placed(q) /\ q \in Unsettled => q \in Unsettled',
         q \in ToSet(todo') <=> q \in ToSet(todo),
         q \in ToSet(todo) => isPrefill' = isPrefill
  PROVE  Faithful(q)'
<1>1. /\ Counts(q)' /\ Stage(q)' /\ Replays(q)'
      /\ Progress(q)' = Progress(q)
  BY CountsKept
<1>2. q \in ToSet(todo) => StepCost(q)' = StepCost(q) BY DEF StepCost, SameProgress
<1>3. Rows(q)' BY <1>1, <1>2 DEF Rows, Expected, Faithful
<1> QED BY <1>1, <1>3 DEF Faithful

-----------------------------------------------------------------------------
(* The selection of a batch.                                               *)

\* While a batch is selected, no row is being written or released.
LEMMA SelectionIsSettled ==
  ASSUME IInv, AInv, NEW q \in Req, pc \in {"begin", "reserve", "prefill", "decode"}
  PROVE  preempted = NoReq /\ q # preempted /\ q \notin Unsettled /\ q \notin ToSet(todo)
<1>1. preempted = NoReq /\ pending = {} BY ScheduleFacts
<1>2. q # preempted BY <1>1, ReqAssumption
<1>3. todo = <<>> BY DEF AInv, Lists
<1> QED BY <1>1, <1>2, <1>3, EmptyQueue DEF Unsettled

\* A step of the selection that changes no sequence keeps the counters and
\* rows when it adds to the batch only decodes that have tokens left.
LEMMA QuietFaith ==
  ASSUME IInv, AInv, FInv, Steady, UNCHANGED <<sq, kv, preempted>>, UNCHANGED engineVars,
         pc \in {"begin", "reserve", "prefill", "decode"},
         pc' \in {"idle", "begin", "reserve", "prefill", "decode", "scheduled", "drain"},
         \/ batch' = <<>>
         \/ batch' = batch /\ isPrefill' = isPrefill /\ pc \in {"prefill", "decode"}
         \/ /\ ~isPrefill'
            /\ \A q \in Req : (q \in ToSet(batch') =>
                 (q \in ToSet(batch) /\ ~isPrefill /\ pc = "decode") \/ ~Exhausted(q))
  PROVE  FInv'
<1> SUFFICES ASSUME NEW q \in Req PROVE Faithful(q)' BY DEF FInv
<1>1. Faithful(q) /\ Counts(q) BY DEF FInv, Faithful
<1>2. preempted = NoReq /\ q # preempted /\ q \notin Unsettled /\ q \notin ToSet(todo)
  BY SelectionIsSettled
<1>3. todo' = todo /\ published' = published BY DEF engineVars
<1>4. TypeOK BY DEF IInv
<1>5. sq[q].done \in Nat /\ MaxTokens[q] \in Nat BY <1>4, Numbers
<1>6. ~Exhausted(q) => sq[q].done < MaxTokens[q]
  BY <1>1, <1>5 DEF Exhausted, Submitted, Counts
<1>7. /\ pc = "prefill" => isPrefill
      /\ pc \in {"prefill", "decode"} => Popped = batch
  BY ScheduleFacts
<1>8. Writing(q)' => Writing(q) \/ sq[q].done < MaxTokens[q]
  BY <1>2, <1>3, <1>6, <1>7, EmptyQueue DEF Writing
<1>9. isPrefill' /\ q \in ToSet(Popped') => isPrefill /\ q \in ToSet(Popped)
  BY <1>7, EmptyQueue DEF Popped
<1>10. (Placed(q)' <=> Placed(q)) /\ (Prefills(q)' <=> Prefills(q)) BY DEF Steady
<1>11. SameProgress(sq'[q], sq[q]) BY DEF SameProgress
<1> QED BY <1>1, <1>2, <1>3, <1>8, <1>9, <1>10, <1>11, FaithKept

LEMMA NoteFaith ==
  ASSUME IInv, AInv, FInv, NEW r \in Req, NoteWaiting(r), UNCHANGED engineVars
  PROVE  FInv'
<1>1. pc = "begin" /\ UNCHANGED <<sq, kv, preempted, pc, batch>> BY DEF NoteWaiting
<1>2. batch = <<>> /\ Steady BY <1>1, ScheduleFacts, NoteAccounts
<1> QED BY <1>1, <1>2, QuietFaith

LEMMA ReserveFaith ==
  ASSUME IInv, AInv, FInv, BeginReserve, UNCHANGED engineVars
  PROVE  FInv'
<1>1. pc = "begin" /\ pc' = "reserve" /\ UNCHANGED <<sq, kv, preempted, batch>>
  BY DEF BeginReserve
<1>2. batch = <<>> /\ Steady BY <1>1, ScheduleFacts, ReserveAccounts
<1> QED BY <1>1, <1>2, QuietFaith

LEMMA AcquireFaith ==
  ASSUME IInv, AInv, FInv, NEW r \in Req, AcquireWindow(r), UNCHANGED engineVars
  PROVE  FInv'
<1>1. pc = "reserve" /\ UNCHANGED <<sq, kv, preempted, pc, batch>> BY DEF AcquireWindow
<1>2. batch = <<>> /\ Steady BY <1>1, ScheduleFacts, AcquireAccounts
<1> QED BY <1>1, <1>2, QuietFaith

LEMMA DrainFaith ==
  ASSUME IInv, AInv, FInv, DrainFirst, UNCHANGED engineVars,
         pc = "reserve" \/ (pc = "decode" /\ batch = <<>>)
  PROVE  FInv'
<1>1. pc' = "drain" /\ UNCHANGED <<sq, kv, preempted, batch>> BY DEF DrainFirst
<1>2. batch = <<>> /\ Steady BY ScheduleFacts, DrainAccounts
<1> QED BY <1>1, <1>2, QuietFaith

LEMMA AffinityFaith ==
  ASSUME IInv, AInv, FInv, ScheduleAffinity, UNCHANGED engineVars
  PROVE  FInv'
<1>1. /\ pc = "reserve" /\ pc' = "scheduled" /\ isPrefill' = FALSE
      /\ UNCHANGED <<sq, kv, preempted>> /\ batch' \in [1..AffinitySize -> LiveDecodes]
  BY DEF ScheduleAffinity
<1>2. Steady BY AffinityAccounts
<1>3. \A q \in Req : (q \in ToSet(batch') => ~Exhausted(q))
  BY <1>1 DEF ToSet, LiveDecodes
<1> QED BY <1>1, <1>2, <1>3, QuietFaith

LEMMA SelectionFaith ==
  ASSUME IInv, AInv, FInv, BeginSelection, UNCHANGED engineVars
  PROVE  FInv'
<1>1. pc = "reserve" /\ pc' \in {"prefill", "decode"} /\ UNCHANGED <<sq, kv, preempted, batch>>
  BY DEF BeginSelection
<1>2. batch = <<>> /\ Steady BY <1>1, ScheduleFacts, SelectionAccounts
<1> QED BY <1>1, <1>2, QuietFaith

LEMMA SkipFaith ==
  ASSUME IInv, AInv, FInv, PrefillSkip, UNCHANGED engineVars
  PROVE  FInv'
<1>1. pc = "prefill" /\ UNCHANGED <<sq, kv, preempted, pc, batch, isPrefill>>
  BY DEF PrefillSkip, Scanning
<1>2. Steady BY SkipAccounts
<1> QED BY <1>1, <1>2, QuietFaith

LEMMA DeferFaith ==
  ASSUME IInv, AInv, FInv, PrefillDefer, UNCHANGED engineVars
  PROVE  FInv'
<1>1. pc = "prefill" /\ UNCHANGED <<sq, kv, preempted, pc, batch, isPrefill>>
  BY DEF PrefillDefer, Scanning
<1>2. Steady BY DeferAccounts
<1> QED BY <1>1, <1>2, QuietFaith

LEMMA SchedulePrefillFaith ==
  ASSUME IInv, AInv, FInv, SchedulePrefill, UNCHANGED engineVars
  PROVE  FInv'
<1>1. pc = "prefill" /\ pc' = "scheduled" /\ UNCHANGED <<sq, kv, preempted, batch, isPrefill>>
  BY DEF SchedulePrefill, PrefillScanOver
<1>2. Steady BY SchedulePrefillAccounts
<1> QED BY <1>1, <1>2, QuietFaith

LEMMA NextBucketFaith ==
  ASSUME IInv, AInv, FInv, NextBucket, UNCHANGED engineVars
  PROVE  FInv'
<1>1. /\ pc = "prefill" /\ pc' \in {"prefill", "decode"} /\ batch = <<>>
      /\ UNCHANGED <<sq, kv, preempted, batch>>
  BY DEF NextBucket, PrefillScanOver
<1>2. Steady BY NextBucketAccounts
<1> QED BY <1>1, <1>2, QuietFaith

LEMMA DecodeSkipFaith ==
  ASSUME IInv, AInv, FInv, DecodeSkip, UNCHANGED engineVars
  PROVE  FInv'
<1>1. pc = "decode" /\ UNCHANGED <<sq, kv, preempted, pc, batch, isPrefill>>
  BY DEF DecodeSkip, DecodeScanning
<1>2. Steady BY DecodeSkipAccounts
<1> QED BY <1>1, <1>2, QuietFaith

LEMMA DecodeTakeFaith ==
  ASSUME IInv, AInv, FInv, DecodeTake, UNCHANGED engineVars
  PROVE  FInv'
<1> DEFINE h == Head(decoding)
<1>1. /\ pc = "decode" /\ UNCHANGED <<sq, kv, preempted, pc, isPrefill>> /\ ~Exhausted(h)
      /\ batch' = Append(batch, h) /\ decoding # <<>>
  <2>1. scan.left > 0 /\ scan.left <= Len(decoding)
    BY DEF DecodeTake, DecodeScanning, IInv, BatchFits
  <2>2. decoding # <<>> BY <2>1, ScanFields, EmptySeq DEF IInv, TypeOK
  <2> QED BY <2>2 DEF DecodeTake, DecodeScanning
<1>2. Steady /\ isPrefill = FALSE BY <1>1, DecodeTakeAccounts, ScheduleFacts
<1>3. batch \in Seq(Req) /\ decoding \in Seq(Req) BY QueueTypes DEF IInv
<1>4. h \in Req BY <1>1, <1>3, TailQueue
<1> HIDE DEF h
<1>5. ToSet(batch') = ToSet(batch) \cup {h} BY <1>1, <1>3, <1>4, AppendQueue
<1>6. \A q \in Req : (q \in ToSet(batch') =>
                (q \in ToSet(batch) /\ ~isPrefill /\ pc = "decode") \/ ~Exhausted(q))
  BY <1>1, <1>2, <1>5
<1> QED BY <1>1, <1>2, <1>6, QuietFaith

LEMMA DecodeBlockFaith ==
  ASSUME IInv, AInv, FInv, DecodeBlock, UNCHANGED engineVars
  PROVE  FInv'
<1>1. pc = "decode" /\ UNCHANGED <<sq, kv, preempted, pc, batch, isPrefill>>
  BY DEF DecodeBlock, DecodeScanning
<1>2. Steady BY DecodeBlockAccounts
<1> QED BY <1>1, <1>2, QuietFaith

LEMMA ScheduleDecodeFaith ==
  ASSUME IInv, AInv, FInv, ScheduleDecode, UNCHANGED engineVars
  PROVE  FInv'
<1>1. pc = "decode" /\ pc' = "scheduled" /\ UNCHANGED <<sq, kv, preempted, batch, isPrefill>>
  BY DEF ScheduleDecode, DecodeScanOver
<1>2. Steady BY ScheduleDecodeAccounts
<1> QED BY <1>1, <1>2, QuietFaith

LEMMA NothingFaith ==
  ASSUME IInv, AInv, FInv, ScheduleNothing, UNCHANGED engineVars
  PROVE  FInv'
<1>1. /\ pc = "decode" /\ pc' \in {"drain", "idle", "scheduled"} /\ batch = <<>>
      /\ UNCHANGED <<sq, kv, preempted, batch>>
  BY DEF ScheduleNothing, DecodeScanOver
<1>2. Steady BY NothingAccounts
<1> QED BY <1>1, <1>2, QuietFaith

\* A chunk never reaches past the prompt.
LEMMA ChunkFits ==
  ASSUME TypeOK, NEW r \in Req, ChunkFor(r) > 0
  PROVE  ChunkFor(r) \in Nat /\ sq[r].prefilled + ChunkFor(r) <= Prompt[r]
<1>1. sq \in [Req -> SequenceState] /\ scan \in ScanState BY DEF TypeOK
<1>2. ChunkFor(r) \in Nat BY <1>1, ChunkType
<1>3. /\ sq[r].prefilled \in Nat /\ Prompt[r] \in Nat /\ scan.tokens \in Nat
      /\ scan.room \in Nat /\ ChunkSize \in Nat /\ MaxBatchedTokens \in Nat
  BY <1>1, Numbers, ScanFields, SizeAssumption
<1> DEFINE a == Prompt[r] - sq[r].prefilled
           b == MaxBatchedTokens - scan.tokens
<1>4. a \in Int /\ b \in Int /\ ChunkSize \in Int /\ scan.room \in Int BY <1>3
<1>5. ChunkFor(r) = Min({a, ChunkSize, b, scan.room}) BY DEF ChunkFor
<1>6. ChunkFor(r) <= a
  <2> HIDE DEF a, b
  <2>1. \A w, x, y, z \in Int : Min({w, x, y, z}) <= w BY MinOfFour
  <2> QED BY <1>4, <1>5, <2>1
<1> QED BY <1>2, <1>3, <1>6

\* The next chunk of a prompt is selected.
LEMMA TakeFaith ==
  ASSUME IInv, AInv, FInv, PrefillTake, UNCHANGED engineVars
  PROVE  FInv'
<1>0. TypeOK /\ waiting \in Seq(Req) /\ batch \in Seq(Req) /\ sq \in [Req -> SequenceState]
  BY QueueTypes DEF IInv
<1>t. waiting # <<>> BY DEF PrefillTake, Scanning, CanContinue
<1>h. PICK h \in Req : h = Head(waiting) /\ InQueue(h) BY <1>0, <1>t, TailQueue DEF InQueue
<1>n. PICK n \in Nat : n = ChunkFor(h) /\ sq[h].prefilled + n <= Prompt[h]
  BY <1>0, <1>h, ChunkFits DEF PrefillTake
<1>1. /\ pc = "prefill" /\ pc' = "prefill"
      /\ UNCHANGED <<kv, preempted, isPrefill>>
      /\ sq' = [sq EXCEPT ![h].status = "RUNNING", ![h].chunk = n]
      /\ batch' = Append(batch, h)
  BY <1>h, <1>n DEF PrefillTake, Scanning, CanContinue
<1>2. isPrefill = TRUE /\ Popped = batch /\ Popped' = batch' /\ Steady
  BY <1>1, ScheduleFacts, TakeAccounts DEF Popped
<1>6. ToSet(batch') = ToSet(batch) \cup {h} BY <1>0, <1>1, AppendQueue
<1>7. todo' = todo /\ published' = published BY DEF engineVars
<1> SUFFICES ASSUME NEW q \in Req PROVE Faithful(q)' BY DEF FInv
<1>8. Faithful(q) /\ (Placed(q)' <=> Placed(q)) /\ (Prefills(q)' <=> Prefills(q))
  BY <1>2 DEF FInv, Steady
<1>9. preempted = NoReq /\ q # preempted /\ q \notin Unsettled /\ q \notin ToSet(todo)
  BY <1>1, SelectionIsSettled
<1>10. ~Writing(q)' BY <1>1, <1>2 DEF Writing
<1>11. CASE q = h
  <2>1. /\ sq'[h].prefilled = sq[h].prefilled /\ sq'[h].done = sq[h].done
        /\ sq'[h].pend = sq[h].pend /\ sq'[h].cursor = sq[h].cursor
        /\ sq'[h].chunk = n /\ sq'[h].status = "RUNNING"
    BY <1>0, <1>1 DEF SequenceState
  <2>2. Prefills(h) BY <1>h DEF Prefills
  <2>3. Counts(h) /\ Stage(h) /\ Replays(h) /\ Rows(h) BY <1>8, <1>11 DEF Faithful
  <2>4. Counts(h)' BY <1>7, <1>10, <1>11, <2>1, <2>3 DEF Counts
  <2>5. Stage(h)' BY <1>1, <1>n, <1>8, <1>9, <1>11, <2>1, <2>2, <2>3 DEF Stage, IsReplay
  <2>6. Replays(h)' BY <2>1, <2>3 DEF Replays, IsReplay
  <2>7. Progress(h)' = Progress(h) BY <2>1 DEF Progress, IsReplay
  <2>8. Rows(h)' BY <1>1, <1>7, <1>8, <1>9, <1>11, <2>3, <2>7 DEF Rows, Expected
  <2> QED BY <1>11, <2>4, <2>5, <2>6, <2>8 DEF Faithful
<1>12. CASE q # h
  <2>1. sq'[q] = sq[q] BY <1>0, <1>1, <1>12
  <2>2. SameProgress(sq'[q], sq[q]) BY <2>1 DEF SameProgress
  <2>3. q \in ToSet(Popped)' => q \in ToSet(Popped) BY <1>2, <1>6, <1>12
  <2> QED BY <1>1, <1>2, <1>7, <1>8, <1>9, <1>10, <2>1, <2>2, <2>3, FaithKept
<1> QED BY <1>11, <1>12

\* A victim starts over: it keeps its outputs, and its row is about to go.
LEMMA PreemptFaith ==
  ASSUME IInv, AInv, FInv, NEW v \in Req, Preempt(v), UNCHANGED engineVars,
         v \in ToSet(decoding), pc = "reserve" \/ pc = "decode", batch = <<>>
  PROVE  FInv'
<1>1. batch' = <<>> /\ UNCHANGED <<kv, isPrefill>> BY DEF Preempt
<1>2. todo' = todo /\ published' = published BY DEF engineVars
<1>3. CASE Steady /\ sq' = sq /\ preempted' = preempted
  <2>1. pc' \in {"idle", "scheduled"} BY DEF Preempt
  <2> QED BY <1>1, <1>3, <2>1, QuietFaith
<1>4. CASE ~(Steady /\ sq' = sq /\ preempted' = preempted)
  <2>1. /\ preempted' = v /\ pc' = "scheduled" /\ Prefills(v)'
        /\ sq'[v] = Restarted(sq[v])
        /\ \A q \in Req : (q # v =>
             /\ (Placed(q)' <=> Placed(q)) /\ (Prefills(q)' <=> Prefills(q))
             /\ sq'[q] \in {sq[q], [sq[q] EXCEPT !.checkpoint = sq[q].done]})
    BY <1>4, PreemptAccounts
  <2>2. Popped' = <<>> BY <1>1, <2>1 DEF Popped
  <2> SUFFICES ASSUME NEW q \in Req PROVE Faithful(q)' BY DEF FInv
  <2>3. TypeOK BY DEF IInv
  <2>4. Faithful(q) /\ Counts(q) /\ Stage(q) /\ Replays(q) BY DEF FInv, Faithful
  <2>5. preempted = NoReq /\ q # preempted /\ q \notin Unsettled /\ q \notin ToSet(todo)
    BY SelectionIsSettled
  <2>6. ~Writing(q)' /\ q \notin ToSet(Popped)'
    BY <1>1, <1>2, <2>2, <2>5, EmptyQueue DEF Writing
  <2>7. CASE q = v
    <3>1. /\ sq[v] \in SequenceState /\ sq[v].done \in Nat /\ Prompt[v] \in Nat
          /\ Prompt[v] > 0
      BY <2>3, Numbers
    <3>2. Placed(v) /\ ~Prefills(v)
      <4>1. Queues /\ Popped = <<>> /\ scan.skipped = <<>> BY ScheduleFacts
      <4> QED BY <4>1, EmptyQueue DEF Queues, Disjoint, Placed, Prefills, InQueue
    <3>3. sq[v].done > 0 BY <2>4, <2>7, <3>2 DEF Stage
    <3>4. /\ sq'[v].prefilled = 0 /\ sq'[v].done = sq[v].done /\ sq'[v].pend = sq[v].pend
          /\ sq'[v].cursor = 0 /\ sq'[v].status = "WAITING"
      BY <2>1, <3>1, <3>3 DEF Restarted, SequenceState
    <3>5. IsReplay(sq'[v]) BY <3>4 DEF IsReplay, NotReplaying
    <3>6. Counts(v)' BY <1>2, <2>4, <2>6, <2>7, <3>4 DEF Counts
    <3>7. Stage(v)' BY <2>1, <2>6, <2>7, <3>1, <3>4, <3>5 DEF Stage
    <3>8. Replays(v)' BY <3>1, <3>3, <3>4 DEF Replays
    <3>9. Rows(v)' BY <2>1 DEF Rows, Unsettled
    <3> QED BY <2>7, <3>6, <3>7, <3>8, <3>9 DEF Faithful
  <2>8. CASE q # v
    <3>1. sq[q] \in SequenceState BY <2>3, Numbers
    <3>2. sq'[q] = sq[q] \/ sq'[q] = [sq[q] EXCEPT !.checkpoint = sq[q].done]
      BY <2>1, <2>8
    <3>3. SameProgress(sq'[q], sq[q]) /\ sq'[q].status = sq[q].status
      BY <3>1, <3>2 DEF SameProgress, SequenceState
    <3>4. sq[q].status = "NEW" => sq'[q] = sq[q]
      <4>1. SUFFICES ASSUME sq[q] = NewSequence PROVE sq'[q] = sq[q] BY <2>4 DEF Counts
      <4> QED BY <3>2, <4>1 DEF NewSequence
    <3>5. (Placed(q)' <=> Placed(q)) /\ (Prefills(q)' <=> Prefills(q)) /\ q # preempted'
      BY <2>1, <2>8
    <3> QED BY <1>1, <1>2, <2>4, <2>5, <2>6, <3>3, <3>4, <3>5, FaithKept
  <2> QED BY <2>7, <2>8
<1> QED BY <1>3, <1>4

\* Every step of schedule().
LEMMA ScheduleFaith ==
  ASSUME IInv, AInv, FInv, ScheduleStep
  PROVE  FInv'
<1>0. UNCHANGED engineVars BY DEF ScheduleStep
<1>1. ASSUME NEW r \in Req, NoteWaiting(r) PROVE FInv' BY <1>0, <1>1, NoteFaith
<1>2. ASSUME NEW r \in Req, AcquireWindow(r) PROVE FInv' BY <1>0, <1>2, AcquireFaith
<1>3. ASSUME NEW r \in Req, PreemptUnreserved(r) PROVE FInv'
  <2>1. pc = "reserve" /\ Preempt(r) /\ NextToAcquire(r)
    BY <1>3 DEF PreemptUnreserved, Refused
  <2>2. r \in ToSet(decoding) BY <2>1 DEF NextToAcquire, ToSet
  <2>3. batch = <<>> BY <2>1, ScheduleFacts
  <2> QED BY <1>0, <2>1, <2>2, <2>3, PreemptFaith
<1>4. ASSUME NEW r \in Req, DrainUnreserved(r) PROVE FInv'
  BY <1>0, <1>4, DrainFaith DEF DrainUnreserved
<1>5. CASE PreemptSole
  <2>1. pc = "decode" /\ scan.failed # NoReq /\ Preempt(scan.failed)
    BY <1>5 DEF PreemptSole
  <2>2. Marks /\ batch = <<>> BY <2>1, ScheduleFacts
  <2>3. scan.failed \in ToSet(decoding) BY <2>1, <2>2 DEF Marks
  <2>4. scan.failed \in Req BY <2>1, ScanFields DEF IInv, TypeOK
  <2> QED BY <1>0, <2>1, <2>2, <2>3, <2>4, PreemptFaith
<1>6. CASE PreemptBlocked
  <2>1. pc = "decode" /\ scan.blocked # NoReq /\ Preempt(scan.blocked) /\ batch = <<>>
    BY <1>6 DEF PreemptBlocked, DecodeScanOver
  <2>2. Marks BY <2>1, ScheduleFacts
  <2>3. scan.blocked \in ToSet(decoding) BY <2>1, <2>2 DEF Marks
  <2>4. scan.blocked \in Req BY <2>1, ScanFields DEF IInv, TypeOK
  <2> QED BY <1>0, <2>1, <2>3, <2>4, PreemptFaith
<1>7. CASE DrainBlocked
  BY <1>0, <1>7, DrainFaith DEF DrainBlocked, DecodeScanOver
<1> QED
  BY <1>0, <1>1, <1>2, <1>3, <1>4, <1>5, <1>6, <1>7, ReserveFaith, AffinityFaith,
     SelectionFaith, SkipFaith, DeferFaith, TakeFaith, SchedulePrefillFaith, NextBucketFaith,
     DecodeSkipFaith, DecodeTakeFaith, DecodeBlockFaith, ScheduleDecodeFaith, NothingFaith
  DEF ScheduleStep, Schedule

-----------------------------------------------------------------------------
(* Between steps and around a run.                                         *)

LEMMA AddFaith ==
  ASSUME IInv, AInv, FInv, NEW r \in Req, AddRequest(r)
  PROVE  FInv'
<1>1. /\ pc = "idle" /\ sq[r].status = "NEW" /\ sq' = [sq EXCEPT ![r].status = "WAITING"]
      /\ UNCHANGED <<kv, pc, isPrefill, batch, preempted, pending, published, todo, ending>>
  BY DEF AddRequest, outVars, engineVars
<1>2. /\ ~Placed(r) /\ ~Holds(r) /\ Prefills(r)'
      /\ \A q \in Req : (q # r =>
           (Placed(q)' <=> Placed(q)) /\ (Prefills(q)' <=> Prefills(q)))
  BY AddAccounts
<1>3. TypeOK /\ sq \in [Req -> SequenceState] BY DEF IInv, TypeOK
<1>4. todo = <<>> /\ Popped' = <<>> /\ preempted = NoReq
  BY <1>1, OutsideFacts DEF Lists, Popped
<1> SUFFICES ASSUME NEW q \in Req PROVE Faithful(q)' BY DEF FInv
<1>5. Faithful(q) /\ Counts(q) BY DEF FInv, Faithful
<1>6. ~Writing(q)' /\ q \notin ToSet(todo) /\ q \notin ToSet(Popped)' /\ q # preempted
  BY <1>1, <1>4, EmptyQueue, ReqAssumption DEF Writing
<1>7. CASE q = r
  <2>1. sq[r] = NewSequence BY <1>1, <1>5, <1>7 DEF Counts
  <2>2. /\ sq'[r].prefilled = 0 /\ sq'[r].done = 0 /\ sq'[r].pend = 0
        /\ sq'[r].cursor = NotReplaying /\ sq'[r].status = "WAITING"
    BY <1>1, <1>3, <2>1 DEF NewSequence
  <2>3. Prompt[r] \in Nat /\ Prompt[r] > 0 /\ MaxTokens[r] \in Nat BY <1>3, Numbers
  <2>4. kv'[r] = 0 /\ published'[r] = 0
    BY <1>1, <1>2, <1>5, <1>7, <2>1 DEF Holds, Counts, NewSequence
  <2>5. Counts(r)' BY <1>6, <1>7, <2>2, <2>3, <2>4 DEF Counts
  <2>6. Stage(r)' BY <1>1, <1>2, <1>6, <1>7, <2>2, <2>3 DEF Stage
  <2>7. Replays(r)' BY <2>2 DEF Replays, IsReplay
  <2>8. Rows(r)' BY <1>1, <1>6, <1>7, <2>2, <2>3, <2>4 DEF Rows, Expected, Progress
  <2> QED BY <1>7, <2>5, <2>6, <2>7, <2>8 DEF Faithful
<1>8. CASE q # r
  <2>1. sq'[q] = sq[q] BY <1>1, <1>3, <1>8
  <2>2. SameProgress(sq'[q], sq[q]) BY <2>1 DEF SameProgress
  <2>3. Unsettled' = Unsettled BY <1>1 DEF Unsettled
  <2> QED BY <1>1, <1>2, <1>5, <1>6, <1>8, <2>1, <2>2, <2>3, FaithKept
<1> QED BY <1>7, <1>8

\* Request r is forgotten, or its failed release is owed.
LEMMA ReleaseFaith ==
  ASSUME TypeOK, Queues, FInv, NEW r \in Req, Popped = <<>>, Popped' = <<>>, scan' = scan,
         scan.skipped = <<>>, todo = <<>>, UNCHANGED <<published, todo>>,
         pc' \in {"idle", "reclaim", "post"}, preempted' = NoReq,
         Drop(r) \/ (UNCHANGED <<sq, waiting, decoding>> /\ r \in pending'),
         \A q \in Req : (q # r =>
           /\ (Placed(q)' <=> Placed(q)) /\ (Prefills(q)' <=> Prefills(q))
           /\ kv'[q] = kv[q]
           /\ Placed(q) /\ q \in Unsettled => q \in Unsettled')
  PROVE  FInv'
<1> SUFFICES ASSUME NEW q \in Req PROVE Faithful(q)' BY DEF FInv
<1>1. Faithful(q) /\ Counts(q) /\ Stage(q) /\ Replays(q) BY DEF FInv, Faithful
<1>2. ~Writing(q)' /\ q \notin ToSet(todo) /\ q \notin ToSet(Popped)' /\ q # preempted'
  BY EmptyQueue, ReqAssumption DEF Writing
<1>3. sq \in [Req -> SequenceState] BY DEF TypeOK
<1>4. CASE q # r
  <2>1. sq'[q] = sq[q] BY <1>3, <1>4 DEF Drop
  <2>2. SameProgress(sq'[q], sq[q]) BY <2>1 DEF SameProgress
  <2> QED BY <1>1, <1>2, <1>4, <2>1, <2>2, FaithKept
<1>5. CASE q = r /\ Drop(r)
  <2>1. waiting \in Seq(Req) /\ decoding \in Seq(Req) /\ Distinct(waiting) /\ Distinct(decoding)
    BY DEF TypeOK, Queues
  <2>2. /\ ToSet(RemoveFirst(waiting, r)) = ToSet(waiting) \ {r}
        /\ ToSet(RemoveFirst(decoding, r)) = ToSet(decoding) \ {r}
    BY <2>1, RemoveQueue
  <2>3. r \notin ToSet(waiting') /\ r \notin ToSet(decoding') BY <1>5, <2>2 DEF Drop
  <2>4. ~Placed(r)' /\ ~Prefills(r)'
    BY <1>2, <1>5, <2>3, EmptyQueue DEF Placed, Prefills, InQueue
  <2>5. sq'[r] = [sq[r] EXCEPT !.status = "FINISHED"] BY <1>3, <1>5 DEF Drop
  <2>6. /\ sq'[r].prefilled = sq[r].prefilled /\ sq'[r].done = sq[r].done
        /\ sq'[r].pend = sq[r].pend /\ sq'[r].cursor = sq[r].cursor
        /\ sq'[r].status = "FINISHED"
    BY <1>3, <2>5 DEF SequenceState
  <2>7. Counts(r)' BY <1>1, <1>2, <1>5, <2>6 DEF Counts
  <2>8. Stage(r)' BY <1>2, <1>5, <2>4 DEF Stage
  <2>9. Replays(r)' BY <1>1, <1>5, <2>6 DEF Replays, IsReplay
  <2>10. Rows(r)' BY <2>4 DEF Rows
  <2> QED BY <1>5, <2>7, <2>8, <2>9, <2>10 DEF Faithful
<1>6. CASE q = r /\ UNCHANGED <<sq, waiting, decoding>> /\ r \in pending'
  <2>1. (Placed(r)' <=> Placed(r)) /\ (Prefills(r)' <=> Prefills(r))
    BY <1>2, <1>6 DEF Placed, Prefills, InQueue
  <2>2. SameProgress(sq'[r], sq[r]) BY <1>6 DEF SameProgress
  <2>3. Counts(r)' /\ Stage(r)' /\ Replays(r)' BY <1>1, <1>2, <1>6, <2>1, <2>2, CountsKept
  <2>4. Rows(r)' BY <1>6 DEF Rows, Unsettled
  <2> QED BY <1>6, <2>3, <2>4 DEF Faithful
<1> QED BY <1>4, <1>5, <1>6

\* A release touches no other row.
LEMMA ReleasedRows ==
  ASSUME TypeOK, NEW r \in Req, Released(r) \/ ReleaseFails(r)
  PROVE  /\ \A q \in Req : (q # r => kv'[q] = kv[q])
         /\ pending \ {r} \subseteq pending'
         /\ Released(r) => kv'[r] = 0 /\ pending' = pending \ {r}
         /\ ReleaseFails(r) => r \in pending'
BY DEF Released, ReleaseFails, Release, TypeOK

LEMMA AbortFaith ==
  ASSUME IInv, AInv, FInv, NEW r \in Req, AbortRequest(r)
  PROVE  FInv'
<1>1. /\ pc = "idle" /\ UNCHANGED <<pc, scan, preempted, published, todo, ending>>
      /\ \/ Drop(r) /\ UNCHANGED <<kv, pending>>
         \/ Drop(r) /\ Released(r)
         \/ ReleaseFails(r) /\ UNCHANGED <<sq, waiting, decoding>>
  BY DEF AbortRequest
<1>2. /\ TypeOK /\ Queues /\ scan.skipped = <<>> /\ Popped = <<>> /\ todo = <<>>
      /\ preempted = NoReq /\ Popped' = <<>>
  BY <1>1, OutsideFacts DEF Lists, Popped
<1>3. \A q \in Req : (q # r =>
        (Placed(q)' <=> Placed(q)) /\ (Prefills(q)' <=> Prefills(q)))
  BY AbortAccounts DEF Forgets, Steady
<1>4. (\A q \in Req : (q # r => kv'[q] = kv[q])) /\ pending \ {r} \subseteq pending'
  BY <1>1, <1>2, ReleasedRows
<1>5. \A q \in Req : (q # r => (q \in Unsettled => q \in Unsettled'))
  BY <1>1, <1>4 DEF Unsettled
<1>6. Drop(r) \/ (UNCHANGED <<sq, waiting, decoding>> /\ r \in pending')
  BY <1>1, <1>2, ReleasedRows
<1> QED BY <1>1, <1>2, <1>3, <1>4, <1>5, <1>6, ReleaseFaith

LEMMA ReclaimFaith == ASSUME IInv, AInv, FInv, ReclaimOne PROVE FInv'
<1>1. ending # <<>> /\ pc = "reclaim" BY DEF ReclaimOne
<1>2. /\ TypeOK /\ Queues /\ scan.skipped = <<>> /\ Popped = <<>> /\ todo = <<>>
      /\ preempted = NoReq /\ ending \in Seq(Req) /\ Distinct(ending)
  BY <1>1, OutsideFacts, QueueTypes DEF Lists
<1>3. PICK r \in Req : r = Head(ending) /\ (Forgets(r) \/ Steady) BY ReclaimAccounts
<1>4. /\ (Released(r) /\ Drop(r)) \/ (ReleaseFails(r) /\ UNCHANGED <<sq, waiting, decoding>>)
      /\ ending' = Tail(ending) /\ UNCHANGED <<scan, preempted, published, todo>>
      /\ pc' = IF Tail(ending) = <<>> THEN "idle" ELSE "reclaim"
  BY <1>3 DEF ReclaimOne, outVars
<1>5. Popped' = <<>> BY <1>4 DEF Popped
<1>6. \A q \in Req : (q # r =>
        (Placed(q)' <=> Placed(q)) /\ (Prefills(q)' <=> Prefills(q)))
  BY <1>3 DEF Forgets, Steady
<1>7. (\A q \in Req : (q # r => kv'[q] = kv[q])) /\ pending \ {r} \subseteq pending'
  BY <1>2, <1>4, ReleasedRows
<1>8. ToSet(ending') = ToSet(ending) \ {r} BY <1>1, <1>2, <1>3, <1>4, TailQueue
<1>9. pc' = "idle" => ToSet(ending) \ {r} = {} BY <1>4, <1>8, EmptyQueue
<1>10. ASSUME NEW q \in Req, q # r, q \in Unsettled PROVE q \in Unsettled'
  BY <1>1, <1>4, <1>7, <1>8, <1>9, <1>10 DEF Unsettled
<1>11. Drop(r) \/ (UNCHANGED <<sq, waiting, decoding>> /\ r \in pending')
  BY <1>2, <1>4, ReleasedRows
<1> QED BY <1>2, <1>4, <1>5, <1>6, <1>7, <1>10, <1>11, ReleaseFaith

LEMMA FinishFaith == ASSUME IInv, AInv, FInv, ReleaseFinished PROVE FInv'
<1>1. ending # <<>> /\ pc = "post" /\ todo = <<>> BY DEF ReleaseFinished
<1>2. /\ TypeOK /\ Queues /\ scan.skipped = <<>> /\ Popped = <<>>
      /\ preempted = NoReq /\ pending = {}
  BY <1>1, OutsideFacts DEF Marks
<1>3. PICK r \in Req : r = Head(ending) /\ (Forgets(r) \/ Steady) BY FinishAccounts
<1>4. /\ \/ Released(r) /\ Drop(r) /\ UNCHANGED <<pc, outVars>>
         \/ /\ ReleaseFails(r) /\ pc' = "idle" /\ batch' = <<>>
            /\ UNCHANGED <<sq, waiting, decoding, preempted>>
      /\ UNCHANGED <<scan, published, todo>>
  BY <1>3 DEF ReleaseFinished
<1>5. pc' \in {"post", "idle"} /\ preempted' = NoReq /\ Popped' = <<>>
  BY <1>1, <1>2, <1>4 DEF Popped, outVars
<1>6. \A q \in Req : (q # r =>
        (Placed(q)' <=> Placed(q)) /\ (Prefills(q)' <=> Prefills(q)))
  BY <1>3 DEF Forgets, Steady
<1>7. \A q \in Req : (q # r => kv'[q] = kv[q]) BY <1>2, <1>4, ReleasedRows
<1>8. \A q \in Req : q \notin Unsettled BY <1>1, <1>2, ReqAssumption DEF Unsettled
<1>9. Drop(r) \/ (UNCHANGED <<sq, waiting, decoding>> /\ r \in pending')
  BY <1>2, <1>4, ReleasedRows
<1> QED BY <1>1, <1>2, <1>4, <1>5, <1>6, <1>7, <1>8, <1>9, ReleaseFaith

\* A step without a batch that leaves every request alone.
LEMMA PlainFaith ==
  ASSUME IInv, AInv, FInv, Steady, UNCHANGED <<sq, kv, pending, published, todo, ending>>,
         pc \notin {"prefill", "decode", "reclaim"}, todo = <<>>, pc' \in {"idle", "begin"},
         preempted = NoReq, preempted' = NoReq
  PROVE  FInv'
<1> SUFFICES ASSUME NEW q \in Req PROVE Faithful(q)' BY DEF FInv
<1>1. Faithful(q) /\ (Placed(q)' <=> Placed(q)) /\ (Prefills(q)' <=> Prefills(q))
  BY DEF FInv, Steady
<1>2. Popped' = <<>> BY DEF Popped
<1>3. ~Writing(q)' /\ q \notin ToSet(Popped)' /\ q # preempted'
  BY <1>2, EmptyQueue, ReqAssumption DEF Writing
<1>4. SameProgress(sq'[q], sq[q]) BY DEF SameProgress
<1>5. q \in Unsettled => q \in Unsettled' BY DEF Unsettled
<1>6. q \notin ToSet(todo) BY EmptyQueue
<1> QED BY <1>1, <1>3, <1>4, <1>5, <1>6, FaithKept

LEMMA BeginFaith == ASSUME IInv, AInv, FInv, BeginStep PROVE FInv'
<1>1. /\ pc = "idle" /\ pc' = "begin"
      /\ UNCHANGED <<sq, kv, preempted, pending, published, todo, ending>>
  BY DEF BeginStep, engineVars
<1>2. preempted = NoReq /\ todo = <<>> BY <1>1, OutsideFacts DEF Lists
<1> QED BY <1>1, <1>2, BeginAccounts, PlainFaith

LEMMA RefuseFaith == ASSUME IInv, AInv, FInv, RefuseStep PROVE FInv'
<1>1. /\ pc = "idle" /\ pc' = "idle"
      /\ UNCHANGED <<sq, kv, preempted, pending, published, todo, ending>>
  BY DEF RefuseStep, engineVars
<1>2. preempted = NoReq /\ todo = <<>> BY <1>1, OutsideFacts DEF Lists
<1> QED BY <1>1, <1>2, RefuseAccounts, PlainFaith

LEMMA TimeoutFaith == ASSUME IInv, AInv, FInv, NEW r \in Req, WaitTimeout(r) PROVE FInv'
<1>1. /\ pc = "idle" /\ pc' = "idle"
      /\ UNCHANGED <<sq, kv, preempted, pending, published, todo, ending>>
  BY DEF WaitTimeout, outVars, engineVars
<1>2. preempted = NoReq /\ todo = <<>> BY <1>1, OutsideFacts DEF Lists
<1> QED BY <1>1, <1>2, TimeoutAccounts, PlainFaith

LEMMA NothingToRunFaith == ASSUME IInv, AInv, FInv, RaiseNothingToRun PROVE FInv'
<1>1. /\ pc = "scheduled" /\ pc' = "idle" /\ preempted = NoReq
      /\ UNCHANGED <<sq, kv, preempted, pending, published, todo, ending>>
  BY DEF RaiseNothingToRun, engineVars
<1>2. todo = <<>> BY <1>1, OutsideFacts DEF Lists
<1> QED BY <1>1, <1>2, NothingToRunAccounts, PlainFaith

LEMMA EndFaith == ASSUME IInv, AInv, FInv, EndStep PROVE FInv'
<1>1. /\ pc = "post" /\ pc' = "idle" /\ todo = <<>>
      /\ UNCHANGED <<sq, kv, preempted, pending, published, todo, ending>>
  BY DEF EndStep, engineVars
<1>2. preempted = NoReq BY <1>1, OutsideFacts
<1> QED BY <1>1, <1>2, EndAccounts, PlainFaith

\* The victim's row is released, as its progress, none, calls for.
LEMMA ReleasePreemptedFaith == ASSUME IInv, AInv, FInv, ReleasePreempted PROVE FInv'
<1>1. /\ pc = "scheduled" /\ pc' = "idle" /\ preempted # NoReq /\ preempted' = NoReq
      /\ Released(preempted) \/ ReleaseFails(preempted)
      /\ UNCHANGED <<sq, batch, published, todo, ending>>
  BY DEF ReleasePreempted
<1>2. TypeOK /\ todo = <<>> /\ pending = {} BY <1>1, OutsideFacts DEF Lists, Marks
<1>3. PICK r \in Req : r = preempted BY <1>1, <1>2 DEF TypeOK
<1>4. /\ \A q \in Req : (q # r => kv'[q] = kv[q])
      /\ (kv'[r] = 0 \/ r \in pending')
  BY <1>1, <1>2, <1>3, ReleasedRows
<1>5. Steady BY ReleasePreemptedAccounts
<1>6. Popped' = <<>> BY <1>1 DEF Popped
<1> SUFFICES ASSUME NEW q \in Req PROVE Faithful(q)' BY DEF FInv
<1>7. /\ Faithful(q) /\ Stage(q) /\ (Placed(q)' <=> Placed(q)) /\ (Prefills(q)' <=> Prefills(q))
      /\ SameProgress(sq'[q], sq[q])
  BY <1>1, <1>5 DEF FInv, Faithful, Steady, SameProgress
<1>8. ~Writing(q)' /\ q \notin ToSet(Popped)' /\ q # preempted' /\ q \notin ToSet(todo)
  BY <1>1, <1>2, <1>6, EmptyQueue, ReqAssumption DEF Writing
<1>9. CASE q = r
  <2>1. Counts(r)' /\ Stage(r)' /\ Replays(r)' /\ Progress(r)' = Progress(r)
    BY <1>1, <1>7, <1>8, <1>9, CountsKept
  <2>2. Progress(r) = 0
    <3>1. sq[r].prefilled = 0 BY <1>3, <1>7, <1>9 DEF Stage
    <3>2. Prompt[r] \in Nat /\ Prompt[r] > 0 BY <1>2, Numbers
    <3> QED BY <3>1, <3>2 DEF Progress
  <2>3. Rows(r)' BY <1>1, <1>4, <1>8, <1>9, <2>1, <2>2 DEF Rows, Expected, Unsettled
  <2> QED BY <1>9, <2>1, <2>3 DEF Faithful
<1>10. CASE q # r
  <2>1. q \notin Unsettled BY <1>1, <1>2, <1>3, <1>10 DEF Unsettled
  <2> QED BY <1>1, <1>4, <1>7, <1>8, <1>10, <2>1, FaithKept
<1> QED BY <1>9, <1>10

\* Before a run, the rows of the batch are settled.
LEMMA RunFacts ==
  ASSUME IInv, AInv, pc = "scheduled", batch # <<>>, NEW q \in Req
  PROVE  /\ TypeOK /\ todo = <<>> /\ q \notin ToSet(todo) /\ q \notin Unsettled
         /\ preempted = NoReq /\ q # preempted
         /\ q \in ToSet(batch) => Placed(q)
         /\ isPrefill => Popped = batch
<1>1. TypeOK /\ todo = <<>> /\ pending = {} /\ preempted = NoReq
  BY OutsideFacts DEF Lists, Marks
<1>2. q # NoReq BY ReqAssumption
<1> QED BY <1>1, <1>2, BatchFacts, EmptyQueue DEF Unsettled

LEMMA RunFaith == ASSUME IInv, AInv, FInv, RunModel PROVE FInv'
<1>1. /\ pc = "scheduled" /\ pc' = "post" /\ batch # <<>> /\ todo' = batch
      /\ Allocate(ToSet(batch))
      /\ UNCHANGED <<sq, batch, isPrefill, preempted, pending, published, ending>>
  BY DEF RunModel, outVars
<1>2. Steady BY RunAccounts
<1> SUFFICES ASSUME NEW q \in Req PROVE Faithful(q)' BY DEF FInv
<1>3. /\ TypeOK /\ q \notin ToSet(todo) /\ q \notin Unsettled
      /\ preempted = NoReq /\ q # preempted
      /\ q \in ToSet(batch) => Placed(q)
      /\ isPrefill => Popped = batch
  BY <1>1, RunFacts
<1>4. /\ Faithful(q) /\ Rows(q) /\ (Placed(q)' <=> Placed(q)) /\ (Prefills(q)' <=> Prefills(q))
      /\ SameProgress(sq'[q], sq[q])
  BY <1>1, <1>2 DEF FInv, Faithful, Steady, SameProgress
<1>5. Writing(q)' => Writing(q) BY <1>1 DEF Writing
<1>6. isPrefill' /\ q \in ToSet(Popped)' => isPrefill /\ q \in ToSet(Popped)
  BY <1>1, <1>3 DEF Popped
<1>7. Counts(q)' /\ Stage(q)' /\ Replays(q)' /\ Progress(q)' = Progress(q)
  BY <1>1, <1>3, <1>4, <1>5, <1>6, CountsKept
<1>8. StepCost(q)' = StepCost(q) BY <1>1 DEF StepCost
<1>9. Progress(q) \in Int /\ StepCost(q) \in Nat /\ kv[q] \in Nat BY <1>3, Numbers
<1>10. kv'[q] = IF q \in ToSet(batch) THEN kv[q] + StepCost(q) ELSE kv[q]
  BY <1>1 DEF Allocate
<1>11. Placed(q) => kv[q] = Progress(q) BY <1>3, <1>4, <1>9 DEF Rows, Expected
<1>12. Expected(q)' = Progress(q) + (IF q \in ToSet(batch) THEN StepCost(q) ELSE 0)
  BY <1>1, <1>7, <1>8 DEF Expected
<1>13. Rows(q)' BY <1>4, <1>9, <1>10, <1>11, <1>12 DEF Rows
<1> QED BY <1>7, <1>13 DEF Faithful

LEMMA RunFailsFaith == ASSUME IInv, AInv, FInv, RunFails PROVE FInv'
<1>1. /\ pc = "scheduled" /\ pc' = "reclaim" /\ batch # <<>> /\ ending' = batch
      /\ isPrefill' = FALSE /\ UNCHANGED <<sq, preempted, pending, published, todo>>
  BY DEF RunFails
<1>2. PICK k \in 0..Len(batch) : Allocate(ToSet(SubSeq(batch, 1, k))) BY DEF RunFails
<1>3. Steady BY RunFailsAccounts
<1> SUFFICES ASSUME NEW q \in Req PROVE Faithful(q)' BY DEF FInv
<1>4. /\ TypeOK /\ todo = <<>> /\ q \notin ToSet(todo) /\ q \notin Unsettled
      /\ preempted = NoReq /\ q # preempted
  BY <1>1, RunFacts
<1>5. /\ Faithful(q) /\ (Placed(q)' <=> Placed(q)) /\ (Prefills(q)' <=> Prefills(q))
      /\ SameProgress(sq'[q], sq[q])
  BY <1>1, <1>3 DEF FInv, Faithful, Steady, SameProgress
<1>6. ~Writing(q)' BY <1>1, <1>4 DEF Writing
<1>7. CASE q \in ToSet(batch)
  <2>1. Counts(q)' /\ Stage(q)' /\ Replays(q)'
    BY <1>1, <1>4, <1>5, <1>6, CountsKept
  <2>2. Rows(q)' BY <1>1, <1>7 DEF Rows, Unsettled
  <2> QED BY <2>1, <2>2 DEF Faithful
<1>8. CASE q \notin ToSet(batch)
  <2>1. batch \in Seq(Req) BY <1>4 DEF TypeOK
  <2>2. q \notin ToSet(SubSeq(batch, 1, k))
    <3>1. /\ DOMAIN batch = 1..Len(batch) /\ Len(batch) \in Nat
          /\ (q \in ToSet(SubSeq(batch, 1, k)) <=> \E i \in 1..k : batch[i] = q)
      BY <2>1, SubQueue
    <3> QED BY <1>8, <3>1 DEF ToSet
  <2>3. kv'[q] = kv[q] BY <1>2, <2>2 DEF Allocate
  <2> QED BY <1>1, <1>4, <1>5, <1>6, <2>3, FaithKept
<1> QED BY <1>7, <1>8

-----------------------------------------------------------------------------
(* Postprocessing.                                                         *)

\* append_token and the test for the end.
LEMMA TokenFields ==
  ASSUME NEW s \in SequenceState, NEW r, NEW eos \in BOOLEAN, NEW t, t = WithToken(r, s, eos)
  PROVE  /\ t.done = s.done + 1 /\ t.prefilled = s.prefilled /\ t.pend = s.pend
         /\ t.cursor = s.cursor
         /\ t.status = IF eos \/ s.done + 1 = MaxTokens[r] THEN "FINISHED" ELSE s.status
BY DEF WithToken, SequenceState

\* The replay advances or ends.
LEMMA ReplayFields ==
  ASSUME NEW s \in SequenceState, NEW c \in Nat, NEW t, t = ReplayUpTo(s, c)
  PROVE  /\ t.done = s.done /\ t.prefilled = s.prefilled /\ t.pend = s.pend
         /\ t.status = s.status
         /\ t.cursor = IF c >= ReplayDecodeCount(s) THEN NotReplaying ELSE c
BY DEF ReplayUpTo, SequenceState

\* What postprocess makes of a prefilled request: the next chunk is awaited,
\* the replay of the outputs begins, or the first token is accepted.
Awaits(r) ==
  /\ ~IsLastChunk(r) /\ sq'[r].status = "WAITING" /\ sq'[r].done = sq[r].done
  /\ sq'[r].cursor = sq[r].cursor /\ published' = published
BeginsReplay(r) ==
  /\ IsLastChunk(r) /\ IsReplay(sq[r])
  /\ sq'[r].status = "RUNNING" /\ sq'[r].done = sq[r].done /\ published' = published
  /\ sq'[r].cursor = IF 0 >= ReplayDecodeCount(sq[r]) THEN NotReplaying ELSE 0
AcceptsFirst(r) ==
  /\ IsLastChunk(r) /\ ~IsReplay(sq[r]) /\ sq'[r].done = sq[r].done + 1
  /\ sq'[r].status \in {"RUNNING", "FINISHED"} /\ sq'[r].cursor = sq[r].cursor
  /\ sq[r].done + 1 = MaxTokens[r] => sq'[r].status = "FINISHED"
  /\ published' = [published EXCEPT ![r] = @ + 1]

LEMMA PrefilledIs ==
  ASSUME TypeOK, PostprocessPrefill, NEW r \in Req, r = Head(todo)
  PROVE  /\ Awaits(r) \/ BeginsReplay(r) \/ AcceptsFirst(r)
         /\ sq'[r].prefilled = sq[r].prefilled + sq[r].chunk /\ sq'[r].pend = sq[r].pend
         /\ \A q \in Req : (q # r => sq'[q] = sq[q] /\ published'[q] = published[q])
         /\ ending' = IF sq'[r].status = "FINISHED" THEN Append(ending, r) ELSE ending
<1>1. /\ sq \in [Req -> SequenceState] /\ published \in [Req -> Nat] BY DEF TypeOK
<1>2. sq[r] \in SequenceState /\ sq[r].chunk \in Nat /\ sq[r].prefilled \in Nat
  BY Numbers
<1> DEFINE s == [sq[r] EXCEPT !.prefilled = @ + sq[r].chunk]
           u == [s EXCEPT !.status = "RUNNING"]
           w == [s EXCEPT !.status = "WAITING"]
           complete == IsLastChunk(r)
           sampled == complete /\ ~IsReplay(s)
<1>3. PICK eos \in BOOLEAN :
        /\ sq' = [sq EXCEPT ![r] =
             IF ~complete THEN w ELSE IF IsReplay(s) THEN ReplayUpTo(u, 0)
             ELSE WithToken(r, u, eos)]
        /\ ending' = IF sq'[r].status = "FINISHED" THEN Append(ending, r) ELSE ending
  BY DEF PostprocessPrefill
<1>4. published' = [published EXCEPT ![r] = @ + (IF sampled THEN 1 ELSE 0)]
  BY DEF PostprocessPrefill
<1>5. sq[r].prefilled + sq[r].chunk \in Nat BY <1>2
<1>6. /\ s \in SequenceState /\ s.prefilled = sq[r].prefilled + sq[r].chunk
      /\ s.done = sq[r].done /\ s.pend = sq[r].pend /\ s.cursor = sq[r].cursor
  BY <1>2, <1>5 DEF SequenceState
<1> HIDE DEF s
<1>7. /\ u \in SequenceState /\ u.prefilled = s.prefilled /\ u.done = s.done
      /\ u.pend = s.pend /\ u.cursor = s.cursor /\ u.status = "RUNNING"
      /\ w.prefilled = s.prefilled /\ w.done = s.done
      /\ w.pend = s.pend /\ w.cursor = s.cursor /\ w.status = "WAITING"
  BY <1>6 DEF SequenceState
<1> HIDE DEF u, w, complete
<1>8. IsReplay(s) <=> IsReplay(sq[r]) BY <1>6 DEF IsReplay
<1>9. \A q \in Req : (q # r => sq'[q] = sq[q] /\ published'[q] = published[q])
  BY <1>1, <1>3, <1>4
<1>10. CASE ~complete
  <2>1. sq'[r] = w BY <1>1, <1>3, <1>10
  <2>2. published' = published BY <1>1, <1>4, <1>10
  <2>3. Awaits(r) BY <1>6, <1>7, <1>10, <2>1, <2>2 DEF Awaits, complete
  <2> QED BY <1>3, <1>6, <1>7, <1>9, <2>1, <2>3
<1>11. CASE complete /\ IsReplay(s)
  <2>1. sq'[r] = ReplayUpTo(u, 0) BY <1>1, <1>3, <1>11
  <2>2. published' = published BY <1>1, <1>4, <1>11
  <2>3. ReplayDecodeCount(u) = ReplayDecodeCount(sq[r])
    BY <1>6, <1>7 DEF ReplayDecodeCount
  <2>4. /\ sq'[r].done = u.done /\ sq'[r].prefilled = u.prefilled /\ sq'[r].pend = u.pend
        /\ sq'[r].status = u.status
        /\ sq'[r].cursor = IF 0 >= ReplayDecodeCount(u) THEN NotReplaying ELSE 0
    BY <1>7, <2>1, ReplayFields
  <2>5. BeginsReplay(r)
    BY <1>6, <1>7, <1>8, <1>11, <2>2, <2>3, <2>4 DEF BeginsReplay, complete
  <2> QED BY <1>3, <1>6, <1>7, <1>9, <2>4, <2>5
<1>12. CASE sampled
  <2>1. sq'[r] = WithToken(r, u, eos) BY <1>1, <1>3, <1>12
  <2>2. published' = [published EXCEPT ![r] = @ + 1] BY <1>4, <1>12
  <2>3. /\ sq'[r].done = u.done + 1 /\ sq'[r].prefilled = u.prefilled /\ sq'[r].pend = u.pend
        /\ sq'[r].cursor = u.cursor
        /\ sq'[r].status = IF eos \/ u.done + 1 = MaxTokens[r] THEN "FINISHED" ELSE u.status
    BY <1>7, <2>1, TokenFields
  <2>4. AcceptsFirst(r)
    BY <1>6, <1>7, <1>8, <1>12, <2>2, <2>3 DEF AcceptsFirst, complete
  <2> QED BY <1>3, <1>6, <1>7, <1>9, <2>3, <2>4
<1> QED BY <1>10, <1>11, <1>12

\* A request that postprocess leaves alone.
LEMMA UntouchedFaith ==
  ASSUME NEW q \in Req, Faithful(q), sq'[q] = sq[q], published'[q] = published[q],
         UNCHANGED <<kv, pc, isPrefill, preempted, pending, batch>>, pc = "post",
         Placed(q)' <=> Placed(q), Prefills(q)' <=> Prefills(q),
         q \in ToSet(todo') <=> q \in ToSet(todo)
  PROVE  Faithful(q)'
<1>1. SameProgress(sq'[q], sq[q]) BY DEF SameProgress
<1>2. isPrefill' /\ q \in ToSet(Popped)' => isPrefill /\ q \in ToSet(Popped) BY DEF Popped
<1>3. Writing(q)' => Writing(q) BY DEF Writing
<1>4. q \in Unsettled => q \in Unsettled' BY DEF Unsettled
<1> QED BY <1>1, <1>2, <1>3, <1>4, FaithKept

LEMMA PostPrefillFaith == ASSUME IInv, AInv, FInv, PostprocessPrefill PROVE FInv'
<1>1. /\ pc = "post" /\ todo # <<>> /\ isPrefill /\ todo' = Tail(todo)
      /\ UNCHANGED <<kv, pc, isPrefill, preempted, pending, batch>>
  BY DEF PostprocessPrefill, outVars
<1>2. TypeOK /\ preempted = NoReq /\ pending = {} /\ Popped = todo /\ Distinct(todo)
      /\ todo \in Seq(Req)
  BY <1>1, OutsideFacts, QueueTypes DEF Marks, Queues
<1>3. PICK r \in Req :
        /\ r = Head(todo) /\ Placed(r)' /\ (Prefills(r)' <=> ~IsLastChunk(r))
        /\ \A q \in Req : (q # r =>
             (Placed(q)' <=> Placed(q)) /\ (Prefills(q)' <=> Prefills(q)))
  BY PostPrefillAccounts
<1>4. r \in ToSet(todo) /\ ToSet(todo') = ToSet(todo) \ {r} BY <1>1, <1>2, <1>3, TailQueue
<1>5. /\ Awaits(r) \/ BeginsReplay(r) \/ AcceptsFirst(r)
      /\ sq'[r].prefilled = sq[r].prefilled + sq[r].chunk /\ sq'[r].pend = sq[r].pend
      /\ \A q \in Req : (q # r => sq'[q] = sq[q] /\ published'[q] = published[q])
  BY <1>2, <1>3, PrefilledIs
<1> SUFFICES ASSUME NEW q \in Req PROVE Faithful(q)' BY DEF FInv
<1>6. CASE q # r
  BY <1>1, <1>3, <1>4, <1>5, <1>6, UntouchedFaith DEF FInv
<1>7. CASE q = r
  <2>1. Counts(r) /\ Stage(r) /\ Replays(r) /\ Rows(r) BY DEF FInv, Faithful
  <2>2. /\ Prompt[r] \in Nat /\ MaxTokens[r] \in Nat /\ MaxTokens[r] > 0
        /\ sq[r].prefilled \in Nat /\ sq[r].chunk \in Nat /\ sq[r].done \in Nat
        /\ sq[r].cursor \in Int /\ kv[r] \in Nat /\ published \in [Req -> Nat]
    BY <1>2, Numbers DEF TypeOK
  <2>3. Placed(r) /\ Prefills(r) /\ r \in ToSet(Popped)
    BY <1>1, <1>2, <1>4 DEF Placed, Prefills
  <2>4. /\ sq[r].prefilled < Prompt[r] /\ sq[r].prefilled + sq[r].chunk <= Prompt[r]
        /\ (~IsReplay(sq[r]) => sq[r].done = 0)
    BY <1>1, <2>1, <2>3 DEF Stage
  <2>5. kv[r] = sq[r].prefilled + sq[r].chunk
    <3>1. r \notin Unsettled BY <1>1, <1>2, ReqAssumption DEF Unsettled
    <3> QED BY <1>1, <1>4, <2>1, <2>3, <2>4, <3>1 DEF Rows, Expected, Progress, StepCost
  <2>6. /\ ~Writing(r)' /\ r \notin ToSet(todo') /\ r \notin ToSet(Popped)' /\ r # preempted'
    BY <1>1, <1>2, <1>4, ReqAssumption DEF Writing, Popped
  <2>7. IsLastChunk(r) <=> sq'[r].prefilled = Prompt[r]
    BY <1>5, <2>2, <2>4 DEF IsLastChunk
  <2>8. sq[r].pend = 0 /\ published[r] = sq[r].done /\ sq[r].done <= MaxTokens[r]
    BY <2>1 DEF Counts
  <2>9. Expected(r)' = Progress(r)' + 0 BY <2>6 DEF Expected
  <2>10. CASE Awaits(r)
    <3>1. Prefills(r)' /\ sq'[r].prefilled < Prompt[r]
      BY <1>3, <1>5, <2>2, <2>4, <2>7, <2>10 DEF Awaits
    <3>2. Counts(r)' BY <1>5, <2>1, <2>6, <2>10 DEF Counts, Awaits
    <3>3. Stage(r)' BY <2>1, <2>4, <2>6, <2>10, <3>1 DEF Stage, Awaits, IsReplay
    <3>4. Replays(r)' BY <1>5, <2>1, <2>2, <2>10, <3>1 DEF Replays, Awaits, IsReplay
    <3>5. Rows(r)' BY <1>1, <1>5, <2>2, <2>5, <2>9, <3>1 DEF Rows, Progress
    <3> QED BY <1>7, <3>2, <3>3, <3>4, <3>5 DEF Faithful
  <2>11. CASE BeginsReplay(r)
    <3>1. sq[r].done > 0 /\ sq'[r].prefilled = Prompt[r] /\ ~Prefills(r)'
      BY <1>3, <2>1, <2>7, <2>11 DEF Replays, BeginsReplay
    <3>2. sq'[r].cursor = IF sq[r].done - 1 <= 0 THEN NotReplaying ELSE 0
      BY <2>2, <2>11, <3>1 DEF BeginsReplay, ReplayDecodeCount
    <3>3. Counts(r)' BY <1>5, <2>1, <2>6, <2>11 DEF Counts, BeginsReplay
    <3>4. Stage(r)' BY <2>6, <2>11, <3>1 DEF Stage, BeginsReplay
    <3>5. Replays(r)' BY <2>2, <2>11, <3>1, <3>2 DEF Replays, BeginsReplay, IsReplay
    <3>6. Progress(r)' = Prompt[r]
      BY <1>5, <2>2, <2>8, <2>11, <3>1, <3>2
      DEF Progress, IsReplay, NotReplaying, BeginsReplay
    <3>7. Rows(r)' BY <1>1, <1>5, <2>2, <2>5, <2>9, <3>1, <3>6 DEF Rows
    <3> QED BY <1>7, <3>3, <3>4, <3>5, <3>7 DEF Faithful
  <2>12. CASE AcceptsFirst(r)
    <3>1. sq[r].done = 0 /\ sq'[r].prefilled = Prompt[r] /\ ~Prefills(r)' /\ sq'[r].done = 1
      BY <1>3, <2>4, <2>7, <2>12 DEF AcceptsFirst
    <3>2. ~IsReplay(sq'[r]) BY <2>12 DEF AcceptsFirst, IsReplay
    <3>3. published'[r] = 1 BY <2>2, <2>8, <2>12, <3>1 DEF AcceptsFirst
    <3>4. Counts(r)' BY <1>5, <2>2, <2>6, <2>8, <2>12, <3>1, <3>3 DEF Counts, AcceptsFirst
    <3>5. Stage(r)' BY <2>6, <3>1 DEF Stage
    <3>6. Replays(r)' BY <3>2 DEF Replays
    <3>7. Progress(r)' = Prompt[r] BY <1>5, <2>2, <2>8, <3>1, <3>2 DEF Progress
    <3>8. Rows(r)' BY <1>1, <1>5, <2>2, <2>5, <2>9, <3>1, <3>7 DEF Rows
    <3> QED BY <1>7, <3>4, <3>5, <3>6, <3>8 DEF Faithful
  <2> QED BY <1>5, <2>10, <2>11, <2>12
<1> QED BY <1>6, <1>7

\* What postprocess makes of a decoded request: a replayed token is passed
\* over, a new one is accepted.
Replayed(r) ==
  /\ IsReplay(sq[r]) /\ sq'[r].done = sq[r].done /\ sq'[r].status = sq[r].status
  /\ published' = published
  /\ sq'[r].cursor =
       IF sq[r].cursor + 1 >= ReplayDecodeCount(sq[r]) THEN NotReplaying ELSE sq[r].cursor + 1
AcceptsNext(r) ==
  /\ ~IsReplay(sq[r]) /\ sq'[r].done = sq[r].done + 1 /\ sq'[r].cursor = sq[r].cursor
  /\ sq'[r].status \in {sq[r].status, "FINISHED"}
  /\ sq[r].done + 1 = MaxTokens[r] => sq'[r].status = "FINISHED"
  /\ published' = [published EXCEPT ![r] = @ + 1]

LEMMA DecodedIs ==
  ASSUME TypeOK, PostprocessDecode, NEW r \in Req, r = Head(todo)
  PROVE  /\ Replayed(r) \/ AcceptsNext(r)
         /\ sq'[r].prefilled = sq[r].prefilled /\ sq'[r].pend = sq[r].pend
         /\ \A q \in Req : (q # r => sq'[q] = sq[q] /\ published'[q] = published[q])
         /\ ending' = IF sq'[r].status = "FINISHED" THEN Append(ending, r) ELSE ending
<1>1. /\ sq \in [Req -> SequenceState] /\ published \in [Req -> Nat] BY DEF TypeOK
<1>2. sq[r] \in SequenceState /\ (IsReplay(sq[r]) => sq[r].cursor \in Nat) BY Numbers
<1> DEFINE sampled == ~IsReplay(sq[r])
<1>3. PICK eos \in BOOLEAN :
        /\ sq' = [sq EXCEPT ![r] = IF sampled THEN WithToken(r, sq[r], eos)
                                   ELSE ReplayUpTo(sq[r], sq[r].cursor + 1)]
        /\ ending' = IF sq'[r].status = "FINISHED" THEN Append(ending, r) ELSE ending
  BY DEF PostprocessDecode
<1>4. published' = [published EXCEPT ![r] = @ + (IF sampled THEN 1 ELSE 0)]
  BY DEF PostprocessDecode
<1>5. \A q \in Req : (q # r => sq'[q] = sq[q] /\ published'[q] = published[q])
  BY <1>1, <1>3, <1>4
<1>6. CASE sampled
  <2>1. sq'[r] = WithToken(r, sq[r], eos) BY <1>1, <1>3, <1>6
  <2>2. published' = [published EXCEPT ![r] = @ + 1] BY <1>4, <1>6
  <2>3. /\ sq'[r].done = sq[r].done + 1 /\ sq'[r].prefilled = sq[r].prefilled
        /\ sq'[r].pend = sq[r].pend /\ sq'[r].cursor = sq[r].cursor
        /\ sq'[r].status =
             IF eos \/ sq[r].done + 1 = MaxTokens[r] THEN "FINISHED" ELSE sq[r].status
    BY <1>2, <2>1, TokenFields
  <2>4. AcceptsNext(r) BY <1>6, <2>2, <2>3 DEF AcceptsNext
  <2> QED BY <1>3, <1>5, <2>3, <2>4
<1>7. CASE ~sampled
  <2>1. sq'[r] = ReplayUpTo(sq[r], sq[r].cursor + 1) /\ sq[r].cursor + 1 \in Nat
    BY <1>1, <1>2, <1>3, <1>7
  <2>2. published' = published BY <1>1, <1>4, <1>7
  <2>3. /\ sq'[r].done = sq[r].done /\ sq'[r].prefilled = sq[r].prefilled
        /\ sq'[r].pend = sq[r].pend /\ sq'[r].status = sq[r].status
        /\ sq'[r].cursor = IF sq[r].cursor + 1 >= ReplayDecodeCount(sq[r])
                              THEN NotReplaying ELSE sq[r].cursor + 1
    BY <1>2, <2>1, ReplayFields
  <2>4. Replayed(r) BY <1>7, <2>2, <2>3 DEF Replayed
  <2> QED BY <1>3, <1>5, <2>3, <2>4
<1> QED BY <1>6, <1>7

LEMMA PostDecodeFaith == ASSUME IInv, AInv, FInv, PostprocessDecode PROVE FInv'
<1>1. /\ pc = "post" /\ todo # <<>> /\ ~isPrefill /\ todo' = Tail(todo)
      /\ UNCHANGED <<kv, pc, isPrefill, preempted, pending, batch>>
  BY DEF PostprocessDecode, outVars
<1>2. /\ TypeOK /\ preempted = NoReq /\ pending = {} /\ Popped = <<>> /\ Distinct(todo)
      /\ todo \in Seq(Req) /\ ToSet(todo) \subseteq ToSet(decoding)
      /\ Queues /\ scan.skipped = <<>>
  BY <1>1, OutsideFacts, QueueTypes DEF Marks, Lists
<1>3. PICK r \in Req : r = Head(todo) BY <1>1, <1>2, TailQueue
<1>4. r \in ToSet(todo) /\ ToSet(todo') = ToSet(todo) \ {r} BY <1>1, <1>2, <1>3, TailQueue
<1>5. /\ Replayed(r) \/ AcceptsNext(r)
      /\ sq'[r].prefilled = sq[r].prefilled /\ sq'[r].pend = sq[r].pend
      /\ \A q \in Req : (q # r => sq'[q] = sq[q] /\ published'[q] = published[q])
  BY <1>2, <1>3, DecodedIs
<1>6. Steady BY PostDecodeAccounts
<1> SUFFICES ASSUME NEW q \in Req PROVE Faithful(q)' BY DEF FInv
<1>7. CASE q # r
  BY <1>1, <1>4, <1>5, <1>6, <1>7, UntouchedFaith DEF FInv, Steady
<1>8. CASE q = r
  <2>1. Counts(r) /\ Stage(r) /\ Replays(r) /\ Rows(r) BY DEF FInv, Faithful
  <2>2. /\ Prompt[r] \in Nat /\ MaxTokens[r] \in Nat
        /\ sq[r].done \in Nat /\ (IsReplay(sq[r]) => sq[r].cursor \in Nat)
        /\ kv[r] \in Nat /\ published \in [Req -> Nat]
    BY <1>2, Numbers DEF TypeOK
  <2>3. Placed(r) /\ ~Prefills(r)
    BY <1>1, <1>2, <1>4, EmptyQueue DEF Placed, Prefills, InQueue, Queues, Disjoint
  <2>4. Placed(r)' /\ ~Prefills(r)' BY <1>6, <2>3 DEF Steady
  <2>5. Writing(r) BY <1>1, <1>4 DEF Writing
  <2>6. /\ sq[r].prefilled = Prompt[r] /\ sq[r].done > 0 /\ sq[r].done < MaxTokens[r]
        /\ sq[r].pend = 0 /\ published[r] = sq[r].done
        /\ (IsReplay(sq[r]) => sq[r].cursor < sq[r].done - 1)
    BY <2>1, <2>2, <2>3, <2>5 DEF Counts, Stage, Replays
  <2>7. kv[r] = Progress(r) + 1
    <3>1. r \notin Unsettled BY <1>1, <1>2, ReqAssumption DEF Unsettled
    <3> QED BY <1>1, <1>4, <2>1, <2>3, <3>1 DEF Rows, Expected, StepCost
  <2>8. /\ ~Writing(r)' /\ r \notin ToSet(todo') /\ r \notin ToSet(Popped)' /\ r # preempted'
    BY <1>1, <1>2, <1>4, EmptyQueue, ReqAssumption DEF Writing, Popped
  <2>9. Expected(r)' = Progress(r)' + 0 BY <2>8 DEF Expected
  <2>10. sq[r].status # "NEW" BY <1>1, <2>3 DEF AInv, Holdings, Account
  <2>11. CASE Replayed(r)
    <3>1. /\ sq'[r].cursor = IF sq[r].cursor + 1 >= sq[r].done - 1
                               THEN NotReplaying ELSE sq[r].cursor + 1
          /\ sq[r].cursor \in Nat /\ sq[r].cursor < sq[r].done - 1 /\ sq'[r].done = sq[r].done
      BY <2>2, <2>6, <2>11 DEF Replayed, ReplayDecodeCount
    <3>2. Counts(r)' BY <1>5, <2>1, <2>8, <2>10, <2>11 DEF Counts, Replayed
    <3>3. Stage(r)' BY <1>5, <2>4, <2>6, <2>8, <2>11 DEF Stage, Replayed
    <3>4. Replays(r)' BY <2>2, <2>6, <3>1 DEF Replays, IsReplay
    <3>5. Progress(r)' = Progress(r) + 1
      BY <1>5, <2>2, <2>6, <2>11, <3>1 DEF Progress, IsReplay, NotReplaying, Replayed
    <3>6. Rows(r)' BY <1>1, <2>2, <2>7, <2>9, <3>5 DEF Rows
    <3> QED BY <1>8, <3>2, <3>3, <3>4, <3>6 DEF Faithful
  <2>12. CASE AcceptsNext(r)
    <3>1. ~IsReplay(sq[r]) /\ ~IsReplay(sq'[r]) BY <2>12 DEF AcceptsNext, IsReplay
    <3>2. published'[r] = sq[r].done + 1 /\ sq'[r].done = sq[r].done + 1
      BY <2>2, <2>6, <2>12 DEF AcceptsNext
    <3>3. Counts(r)' BY <1>5, <2>2, <2>6, <2>8, <2>10, <2>12, <3>2 DEF Counts, AcceptsNext
    <3>4. Stage(r)' BY <1>5, <2>2, <2>4, <2>6, <2>8, <3>2 DEF Stage
    <3>5. Replays(r)' BY <3>1 DEF Replays
    <3>6. Progress(r)' = Progress(r) + 1
      BY <1>5, <2>2, <2>6, <3>1, <3>2 DEF Progress
    <3>7. Rows(r)' BY <1>1, <2>2, <2>7, <2>9, <3>6 DEF Rows
    <3> QED BY <1>8, <3>3, <3>4, <3>5, <3>7 DEF Faithful
  <2> QED BY <1>5, <2>11, <2>12
<1> QED BY <1>7, <1>8

-----------------------------------------------------------------------------
(* The theorem.                                                            *)

LEMMA StutterFaith == ASSUME FInv, UNCHANGED vars PROVE FInv'
<1> SUFFICES ASSUME NEW q \in Req PROVE Faithful(q)' BY DEF FInv
<1>1. Faithful(q) BY DEF FInv
<1> QED
  BY <1>1 DEF vars, schedVars, engineVars, Faithful, Counts, Stage, Replays, Rows, Writing,
     Placed, Prefills, InQueue, Popped, Expected, Progress, StepCost, Unsettled

LEMMA FaithStep == ASSUME IInv, AInv, FInv, [Next]_vars PROVE FInv'
<1>1. CASE UNCHANGED vars BY <1>1, StutterFaith
<1>2. CASE \E r \in Req : AddRequest(r) \/ AbortRequest(r) \/ WaitTimeout(r)
  BY <1>2, AddFaith, AbortFaith, TimeoutFaith
<1>3. CASE EngineStep
  BY <1>3, BeginFaith, ScheduleFaith, ReleasePreemptedFaith, NothingToRunFaith, RunFaith,
     RunFailsFaith, ReclaimFaith, PostPrefillFaith, PostDecodeFaith, FinishFaith, EndFaith
  DEF EngineStep
<1>4. CASE RefuseStep BY <1>4, RefuseFaith
<1>5. CASE Quiescent BY <1>5, StutterFaith DEF Quiescent
<1> QED BY <1>1, <1>2, <1>3, <1>4, <1>5 DEF Next

LEMMA FaithInductive == Spec => []FInv
<1>1. Init => FInv BY InitFaith
<1>2. IInv /\ AInv /\ FInv /\ [Next]_vars => FInv' BY FaithStep
<1> QED BY <1>1, <1>2, Inductive, AccountsInductive, PTL DEF Spec

\* Preemption, recomputation and replay are invisible: in every reachable state
\* the KV row of each request is as long as its progress, the next decode
\* writes where the row ends, and every accepted token was handed out exactly
\* once (start_recompute_replay to finish_recompute_replay, postprocess), for
\* any requests, pool, batching limits and number of failed runs and releases.
THEOREM ReplayAlwaysFaithful == Spec => []ReplayFaithful
<1>1. IInv /\ AInv /\ FInv => ReplayFaithful BY FaithSuffices
<1> QED BY <1>1, Inductive, AccountsInductive, FaithInductive, PTL

-----------------------------------------------------------------------------
(* The service.                                                            *)

\* Without failures a queued request is live until the step that ended it
\* releases it, and a request that has all its tokens has ended.
Live(r) ==
  /\ Placed(r) /\ r \notin ToSet(ending) => sq[r].status \in {"WAITING", "RUNNING"}
  /\ r \in ToSet(ending) => sq[r].status = "FINISHED"
  /\ sq[r].status # "FINISHED" => sq[r].done < MaxTokens[r]
LInv ==
  /\ pending = {} /\ faults = 0 /\ pc # "reclaim"
  /\ \A r \in Req : Live(r)

\* The stage of a request, as Service maps it.
StageOf(r) == CASE sq[r].status = "NEW" -> "new"
                [] sq[r].status = "FINISHED" -> "ended"
                [] OTHER -> "live"
Serves == [Service!Next]_(Service!serviceVars)

\* A client sees nothing of a step that keeps every stage and every output.
LEMMA Unseen ==
  ASSUME published' = published, \A q \in Req : StageOf(q)' = StageOf(q)
  PROVE  Serves
BY DEF Serves, StageOf, Service!serviceVars

LEMMA InitLive == Init => LInv
<1> SUFFICES ASSUME Init PROVE LInv OBVIOUS
<1>1. pending = {} /\ faults = 0 /\ pc = "idle" /\ ending = <<>> BY DEF Init, SchedInit
<1>2. ASSUME NEW r \in Req PROVE Live(r)
  <2>1. /\ sq[r] = NewSequence /\ waiting = <<>> /\ decoding = <<>> /\ Popped = <<>>
        /\ scan.skipped = <<>>
    BY DEF Init, SchedInit, NoScan, Popped
  <2>2. ~Placed(r) /\ r \notin ToSet(ending)
    BY <1>1, <2>1, EmptyQueue DEF Placed, InQueue
  <2>3. MaxTokens[r] \in Nat /\ MaxTokens[r] > 0 BY RequestAssumption
  <2> QED BY <2>1, <2>2, <2>3 DEF Live, NewSequence
<1> QED BY <1>1, <1>2 DEF LInv

LEMMA InitServes == Init => Service!Init
<1> SUFFICES ASSUME Init PROVE Service!Init OBVIOUS
<1>1. published = [r \in Req |-> 0] /\ \A r \in Req : sq[r].status = "NEW"
  BY DEF Init, SchedInit, NewSequence
<1> QED BY <1>1 DEF Service!Init

\* A step of the engine that changes no stage and hands out nothing.
Idles(q) ==
  /\ Placed(q)' <=> Placed(q)
  /\ sq'[q].done = sq[q].done
  /\ \/ sq'[q].status = sq[q].status
     \/ sq[q].status \in {"WAITING", "RUNNING"} /\ sq'[q].status \in {"WAITING", "RUNNING"}

LEMMA IdleLive ==
  ASSUME LInv, UNCHANGED <<published, ending>>, pending' = {}, faults' = faults,
         pc' # "reclaim", \A q \in Req : Idles(q)
  PROVE  LInv' /\ Serves
<1>1. ASSUME NEW q \in Req PROVE Live(q)' /\ StageOf(q)' = StageOf(q)
  <2>1. Live(q) /\ Idles(q) BY DEF LInv
  <2>2. Live(q)' BY <2>1 DEF Live, Idles
  <2>3. StageOf(q)' = StageOf(q) BY <2>1 DEF StageOf, Idles
  <2> QED BY <2>2, <2>3
<1>2. LInv' BY <1>1 DEF LInv
<1> QED BY <1>1, <1>2, Unseen

LEMMA ScheduleLive ==
  ASSUME IInv, AInv, FInv, LInv, ScheduleStep
  PROVE  LInv' /\ Serves
<1>0. UNCHANGED engineVars /\ Schedule BY DEF ScheduleStep
<1>1. UNCHANGED <<pending, published, ending, faults>> BY <1>0 DEF engineVars
<1>2. /\ pc \in {"begin", "reserve", "prefill", "decode"} /\ pc' # "reclaim"
  BY <1>0 DEF Schedule, NoteWaiting, AcquireWindow, PreemptUnreserved, DrainUnreserved,
     BeginReserve, ScheduleAffinity, BeginSelection, PrefillSkip, PrefillDefer, PrefillTake,
     SchedulePrefill, NextBucket, PreemptSole, DecodeSkip, DecodeTake, DecodeBlock,
     ScheduleDecode, PreemptBlocked, DrainBlocked, ScheduleNothing, Scanning, PrefillScanOver,
     DecodeScanning, DecodeScanOver, DrainFirst, Preempt
<1>3. ending = <<>> /\ TypeOK BY <1>2 DEF AInv, Lists, IInv
<1>4. ASSUME NEW q \in Req, Placed(q) PROVE sq[q].status \in {"WAITING", "RUNNING"}
  BY <1>3, <1>4, EmptyQueue DEF LInv, Live
<1>5. ASSUME Steady, sq' = sq PROVE \A q \in Req : Idles(q)
  BY <1>5 DEF Steady, Idles
<1>6. ASSUME NEW v \in Req, Preempt(v), v \in ToSet(decoding),
             pc = "reserve" \/ pc = "decode", batch = <<>>
      PROVE  \A q \in Req : Idles(q)
  <2>1. CASE Steady /\ sq' = sq BY <1>5, <2>1
  <2>2. CASE ~(Steady /\ sq' = sq)
    <3>1. /\ Prefills(v)' /\ sq'[v] = Restarted(sq[v])
          /\ \A q \in Req : (q # v =>
               /\ (Placed(q)' <=> Placed(q))
               /\ sq'[q] \in {sq[q], [sq[q] EXCEPT !.checkpoint = sq[q].done]})
      BY <1>0, <1>6, <2>2, PreemptAccounts
    <3>2. ASSUME NEW q \in Req PROVE Idles(q)
      <4>1. sq[q] \in SequenceState BY <1>3, Numbers
      <4>2. CASE q = v
        <5>1. Placed(v) /\ Placed(v)' BY <1>6, <3>1 DEF Placed, Prefills
        <5>2. sq'[v].done = sq[v].done /\ sq'[v].status = "WAITING"
          BY <3>1, <4>1, <4>2 DEF Restarted, SequenceState
        <5> QED BY <1>4, <4>2, <5>1, <5>2 DEF Idles
      <4>3. CASE q # v
        <5>1. sq'[q] = sq[q] \/ sq'[q] = [sq[q] EXCEPT !.checkpoint = sq[q].done]
          BY <3>1, <4>3
        <5>2. sq'[q].done = sq[q].done /\ sq'[q].status = sq[q].status
          BY <4>1, <5>1 DEF SequenceState
        <5> QED BY <3>1, <4>3, <5>2 DEF Idles
      <4> QED BY <4>2, <4>3
    <3> QED BY <3>2
  <2> QED BY <2>1, <2>2
<1>7. CASE PrefillTake
  <2>1. PICK h \in Req : h = Head(waiting) /\ InQueue(h)
    <3>1. waiting # <<>> BY <1>7 DEF PrefillTake, Scanning, CanContinue
    <3> QED BY <1>3, <3>1, QueueTypes, TailQueue DEF InQueue
  <2>2. sq' = [sq EXCEPT ![h].status = "RUNNING", ![h].chunk = ChunkFor(h)]
    BY <1>7, <2>1 DEF PrefillTake
  <2>3. Steady BY <1>0, <1>7, TakeAccounts
  <2>4. ASSUME NEW q \in Req PROVE Idles(q)
    <3>1. sq \in [Req -> SequenceState] BY <1>3 DEF TypeOK
    <3>2. CASE q = h
      <4>1. sq'[h].status = "RUNNING" /\ sq'[h].done = sq[h].done
        BY <2>2, <3>1 DEF SequenceState
      <4>2. Placed(h) BY <2>1 DEF Placed
      <4> QED BY <1>4, <2>3, <3>2, <4>1, <4>2 DEF Idles, Steady
    <3>3. CASE q # h BY <2>2, <2>3, <3>1, <3>3 DEF Idles, Steady
    <3> QED BY <3>2, <3>3
  <2> QED BY <1>1, <1>2, <2>4, IdleLive DEF LInv
<1>8. ASSUME NEW r \in Req, PreemptUnreserved(r) PROVE \A q \in Req : Idles(q)
  <2>1. pc = "reserve" /\ Preempt(r) /\ NextToAcquire(r)
    BY <1>8 DEF PreemptUnreserved, Refused
  <2>2. r \in ToSet(decoding) BY <2>1 DEF NextToAcquire, ToSet
  <2>3. batch = <<>> BY <2>1, ScheduleFacts
  <2> QED BY <1>6, <2>1, <2>2, <2>3
<1>9. CASE PreemptSole
  <2>1. pc = "decode" /\ scan.failed # NoReq /\ Preempt(scan.failed)
    BY <1>9 DEF PreemptSole
  <2>2. Marks /\ batch = <<>> BY <2>1, ScheduleFacts
  <2>3. scan.failed \in ToSet(decoding) BY <2>1, <2>2 DEF Marks
  <2>4. scan.failed \in Req BY <2>1, ScanFields DEF IInv, TypeOK
  <2>5. \A q \in Req : Idles(q) BY <1>6, <2>1, <2>2, <2>3, <2>4
  <2> QED BY <1>1, <1>2, <2>5, IdleLive DEF LInv
<1>10. CASE PreemptBlocked
  <2>1. pc = "decode" /\ scan.blocked # NoReq /\ Preempt(scan.blocked) /\ batch = <<>>
    BY <1>10 DEF PreemptBlocked, DecodeScanOver
  <2>2. Marks BY <2>1, ScheduleFacts
  <2>3. scan.blocked \in ToSet(decoding) BY <2>1, <2>2 DEF Marks
  <2>4. scan.blocked \in Req BY <2>1, ScanFields DEF IInv, TypeOK
  <2>5. \A q \in Req : Idles(q) BY <1>6, <2>1, <2>3, <2>4
  <2> QED BY <1>1, <1>2, <2>5, IdleLive DEF LInv
<1>11. CASE (\E r \in Req : NoteWaiting(r) \/ AcquireWindow(r) \/ DrainUnreserved(r))
            \/ DrainBlocked
  <2>1. Steady
    BY <1>0, <1>11, NoteAccounts, AcquireAccounts, DrainAccounts
    DEF DrainUnreserved, DrainBlocked, DecodeScanOver
  <2>2. sq' = sq
    BY <1>11 DEF NoteWaiting, AcquireWindow, DrainUnreserved, DrainBlocked, DrainFirst
  <2> QED BY <1>1, <1>2, <1>5, <2>1, <2>2, IdleLive DEF LInv
<1>12. CASE \/ BeginReserve \/ ScheduleAffinity \/ BeginSelection
            \/ PrefillSkip \/ PrefillDefer \/ SchedulePrefill \/ NextBucket
            \/ DecodeSkip \/ DecodeTake \/ DecodeBlock \/ ScheduleDecode \/ ScheduleNothing
  <2>1. Steady
    BY <1>0, <1>12, ReserveAccounts, AffinityAccounts, SelectionAccounts, SkipAccounts,
       DeferAccounts, SchedulePrefillAccounts, NextBucketAccounts, DecodeSkipAccounts,
       DecodeTakeAccounts, DecodeBlockAccounts, ScheduleDecodeAccounts, NothingAccounts
  <2>2. sq' = sq
    BY <1>12 DEF BeginReserve, ScheduleAffinity, BeginSelection, PrefillSkip, PrefillDefer,
       SchedulePrefill, NextBucket, DecodeSkip, DecodeTake, DecodeBlock, ScheduleDecode,
       ScheduleNothing
  <2> QED BY <1>1, <1>2, <1>5, <2>1, <2>2, IdleLive DEF LInv
<1>13. ASSUME NEW r \in Req, PreemptUnreserved(r) PROVE LInv' /\ Serves
  BY <1>1, <1>2, <1>8, <1>13, IdleLive DEF LInv
<1> QED BY <1>0, <1>7, <1>9, <1>10, <1>11, <1>12, <1>13 DEF Schedule

\* The steps a client sees.
LEMMA Accepted ==
  ASSUME NEW r \in Req, StageOf(r) = "new", StageOf(r)' = "live", published' = published,
         \A q \in Req : (q # r => StageOf(q)' = StageOf(q))
  PROVE  Serves
<1> DEFINE st == [q \in Req |-> StageOf(q)]
           tt == [q \in Req |-> StageOf(q)']
<1>1. tt = [st EXCEPT ![r] = "live"] /\ st[r] = "new" OBVIOUS
<1>2. Service!Accept(r) BY <1>1 DEF Service!Accept, StageOf
<1> QED BY <1>2 DEF Serves, Service!Next

LEMMA Cancelled ==
  ASSUME NEW r \in Req, StageOf(r) = "live", StageOf(r)' = "ended", published' = published,
         \A q \in Req : (q # r => StageOf(q)' = StageOf(q))
  PROVE  Serves
<1> DEFINE st == [q \in Req |-> StageOf(q)]
           tt == [q \in Req |-> StageOf(q)']
<1>1. tt = [st EXCEPT ![r] = "ended"] /\ st[r] = "live" OBVIOUS
<1>2. Service!Cancel(r) BY <1>1 DEF Service!Cancel, StageOf
<1> QED BY <1>2 DEF Serves, Service!Next

LEMMA Emitted ==
  ASSUME NEW r \in Req, StageOf(r) = "live", published[r] < MaxTokens[r],
         published' = [published EXCEPT ![r] = @ + 1],
         \/ StageOf(r)' = "live" /\ published[r] + 1 < MaxTokens[r]
         \/ StageOf(r)' = "ended",
         \A q \in Req : (q # r => StageOf(q)' = StageOf(q))
  PROVE  Serves
<1> DEFINE st == [q \in Req |-> StageOf(q)]
           tt == [q \in Req |-> StageOf(q)']
<1>1. /\ st[r] = "live"
      /\ \/ tt = st /\ published[r] + 1 < MaxTokens[r]
         \/ tt = [st EXCEPT ![r] = "ended"]
  OBVIOUS
<1>2. Service!Emit(r) BY <1>1 DEF Service!Emit, StageOf
<1> QED BY <1>2 DEF Serves, Service!Next

LEMMA AddLive ==
  ASSUME IInv, AInv, FInv, LInv, NEW r \in Req, AddRequest(r)
  PROVE  LInv' /\ Serves
<1>1. /\ pc = "idle" /\ sq[r].status = "NEW" /\ sq' = [sq EXCEPT ![r].status = "WAITING"]
      /\ UNCHANGED <<pc, pending, published, ending, faults>>
  BY DEF AddRequest, engineVars
<1>2. /\ Prefills(r)' /\ \A q \in Req : (q # r => (Placed(q)' <=> Placed(q)))
  BY AddAccounts
<1>3. sq \in [Req -> SequenceState] /\ ending = <<>> BY <1>1 DEF IInv, TypeOK, AInv, Lists
<1>4. sq'[r].status = "WAITING" /\ sq'[r].done = sq[r].done
  BY <1>1, <1>3 DEF SequenceState
<1>5. \A q \in Req : (q # r => sq'[q] = sq[q]) BY <1>1, <1>3
<1>6. ASSUME NEW q \in Req PROVE Live(q)'
  <2>1. Live(q) BY DEF LInv
  <2>2. CASE q = r BY <1>1, <1>3, <1>4, <2>1, <2>2, EmptyQueue DEF Live
  <2>3. CASE q # r BY <1>1, <1>2, <1>5, <2>1, <2>3 DEF Live
  <2> QED BY <2>2, <2>3
<1>7. LInv' BY <1>1, <1>6 DEF LInv
<1>8. /\ StageOf(r) = "new" /\ StageOf(r)' = "live"
      /\ \A q \in Req : (q # r => StageOf(q)' = StageOf(q))
  BY <1>1, <1>4, <1>5 DEF StageOf
<1> QED BY <1>1, <1>7, <1>8, Accepted

\* Where nothing fails, abort_request and the end of a step forget a request.
LEMMA NoFailures ==
  ASSUME MaxFaults = 0, LInv
  PROVE  ~RunFails /\ \A r \in Req : ~ReleaseFails(r)
BY DEF LInv, RunFails, ReleaseFails

LEMMA AbortLive ==
  ASSUME MaxFaults = 0, IInv, AInv, FInv, LInv, NEW r \in Req, AbortRequest(r)
  PROVE  LInv' /\ Serves
<1>1. /\ pc = "idle" /\ UNCHANGED <<pc, scan, preempted, published, todo, ending>>
      /\ Drop(r) /\ pending' = {} /\ faults' = faults
      /\ r \in ToSet(waiting) \cup ToSet(decoding)
  BY NoFailures DEF AbortRequest, Released, LInv
<1>2. /\ TypeOK /\ sq \in [Req -> SequenceState] /\ ending = <<>>
  BY <1>1 DEF IInv, TypeOK, AInv, Lists
<1>3. sq'[r].status = "FINISHED" /\ \A q \in Req : (q # r => sq'[q] = sq[q])
  BY <1>1, <1>2 DEF Drop, SequenceState
<1>4. ~Placed(r)' /\ \A q \in Req : (q # r => (Placed(q)' <=> Placed(q)))
  <2>1. \A q \in Req : (q # r => (Placed(q)' <=> Placed(q)))
    BY AbortAccounts DEF Forgets, Steady
  <2>2. /\ Queues /\ waiting \in Seq(Req) /\ decoding \in Seq(Req)
        /\ scan'.skipped = <<>> /\ Popped' = <<>>
    BY <1>1, <1>2, OutsideFacts, QueueTypes DEF Popped
  <2>3. /\ ToSet(RemoveFirst(waiting, r)) = ToSet(waiting) \ {r}
        /\ ToSet(RemoveFirst(decoding, r)) = ToSet(decoding) \ {r}
    BY <2>2, RemoveQueue DEF Queues
  <2>4. r \notin ToSet(waiting') /\ r \notin ToSet(decoding') BY <1>1, <2>3 DEF Drop
  <2>5. ~Placed(r)' BY <2>2, <2>4, EmptyQueue DEF Placed, InQueue
  <2> QED BY <2>1, <2>5
<1>5. sq[r].status \in {"WAITING", "RUNNING"}
  <2>1. Placed(r) /\ Live(r) BY <1>1 DEF Placed, InQueue, LInv
  <2> QED BY <1>2, <2>1, EmptyQueue DEF Live
<1>6. ASSUME NEW q \in Req PROVE Live(q)'
  <2>1. Live(q) BY DEF LInv
  <2>2. CASE q = r BY <1>1, <1>2, <1>3, <1>4, <2>2, EmptyQueue DEF Live
  <2>3. CASE q # r BY <1>1, <1>3, <1>4, <2>1, <2>3 DEF Live
  <2> QED BY <2>2, <2>3
<1>7. LInv' BY <1>1, <1>6 DEF LInv
<1>8. /\ StageOf(r) = "live" /\ StageOf(r)' = "ended"
      /\ \A q \in Req : (q # r => StageOf(q)' = StageOf(q))
  BY <1>3, <1>5 DEF StageOf
<1> QED BY <1>1, <1>7, <1>8, Cancelled

\* The release of a finished request is not seen: it ended with its last token.
LEMMA FinishLive ==
  ASSUME MaxFaults = 0, IInv, AInv, FInv, LInv, ReleaseFinished
  PROVE  LInv' /\ Serves
<1>1. ending # <<>> /\ pc = "post" /\ todo = <<>> BY DEF ReleaseFinished
<1>2. /\ TypeOK /\ sq \in [Req -> SequenceState] /\ ending \in Seq(Req) /\ Distinct(ending)
      /\ Queues /\ scan.skipped = <<>> /\ waiting \in Seq(Req) /\ decoding \in Seq(Req)
  BY <1>1, OutsideFacts, QueueTypes DEF Lists
<1>3. PICK r \in Req : r = Head(ending) /\ (Forgets(r) \/ Steady) BY FinishAccounts
<1>4. /\ Released(r) /\ Drop(r) /\ UNCHANGED <<pc, scan, published, todo>>
      /\ ending' = Tail(ending) /\ pending' = {} /\ faults' = faults
  BY <1>3, NoFailures DEF ReleaseFinished, Released, LInv
<1>5. r \in ToSet(ending) /\ ToSet(ending') = ToSet(ending) \ {r}
  BY <1>1, <1>2, <1>3, <1>4, TailQueue
<1>6. sq[r].status = "FINISHED" BY <1>5 DEF LInv, Live
<1>7. sq'[r].status = "FINISHED" /\ \A q \in Req : (q # r => sq'[q] = sq[q])
  BY <1>2, <1>4 DEF Drop, SequenceState
<1>8. \A q \in Req : (q # r => (Placed(q)' <=> Placed(q)))
  BY <1>3 DEF Forgets, Steady
<1>9. ~Placed(r)'
  <2>1. Popped' = <<>> BY <1>1, <1>4 DEF Popped
  <2>2. /\ ToSet(RemoveFirst(waiting, r)) = ToSet(waiting) \ {r}
        /\ ToSet(RemoveFirst(decoding, r)) = ToSet(decoding) \ {r}
    BY <1>2, RemoveQueue DEF Queues
  <2>3. r \notin ToSet(waiting') /\ r \notin ToSet(decoding') BY <1>4, <2>2 DEF Drop
  <2> QED BY <1>2, <1>4, <2>1, <2>3, EmptyQueue DEF Placed, InQueue
<1>10. ASSUME NEW q \in Req PROVE Live(q)'
  <2>1. Live(q) BY DEF LInv
  <2>2. CASE q = r BY <1>5, <1>7, <1>9, <2>2 DEF Live
  <2>3. CASE q # r BY <1>5, <1>7, <1>8, <2>1, <2>3 DEF Live
  <2> QED BY <2>2, <2>3
<1>11. LInv' BY <1>1, <1>4, <1>10 DEF LInv
<1>12. \A q \in Req : StageOf(q)' = StageOf(q) BY <1>6, <1>7 DEF StageOf
<1> QED BY <1>4, <1>11, <1>12, Unseen

\* One request is postprocessed: it goes on, or its token is handed out.
LEMMA PostLive ==
  ASSUME FInv, LInv, TypeOK, NEW r \in Req, Placed(r), Placed(r)', r \notin ToSet(ending),
         UNCHANGED <<pc, pending, faults>>,
         \A q \in Req : (q # r => sq'[q] = sq[q] /\ (Placed(q)' <=> Placed(q))),
         ending' = IF sq'[r].status = "FINISHED" THEN Append(ending, r) ELSE ending,
         \/ /\ sq'[r].status \in {"WAITING", "RUNNING"} /\ sq'[r].done = sq[r].done
            /\ published' = published
         \/ /\ sq'[r].status \in {"WAITING", "RUNNING", "FINISHED"}
            /\ sq'[r].done = sq[r].done + 1
            /\ sq[r].done + 1 = MaxTokens[r] => sq'[r].status = "FINISHED"
            /\ published' = [published EXCEPT ![r] = @ + 1]
  PROVE  LInv' /\ Serves
<1>1. ending \in Seq(Req) BY DEF TypeOK
<1>2. ToSet(ending') = IF sq'[r].status = "FINISHED" THEN ToSet(ending) \cup {r}
                                                    ELSE ToSet(ending)
  BY <1>1, AppendQueue
<1>3. /\ sq[r].status \in {"WAITING", "RUNNING"} /\ sq[r].done < MaxTokens[r]
      /\ sq[r].done \in Nat /\ MaxTokens[r] \in Nat /\ published[r] = sq[r].done
  <2>1. Live(r) /\ Counts(r) BY DEF LInv, FInv, Faithful
  <2>2. sq[r].done \in Nat /\ MaxTokens[r] \in Nat BY Numbers
  <2> QED BY <2>1, <2>2 DEF Live, Counts
<1>4. ASSUME NEW q \in Req PROVE Live(q)'
  <2>1. Live(q) BY DEF LInv
  <2>2. CASE q = r BY <1>2, <1>3, <2>2 DEF Live
  <2>3. CASE q # r BY <1>2, <2>1, <2>3 DEF Live
  <2> QED BY <2>2, <2>3
<1>5. LInv' BY <1>4 DEF LInv
<1>6. \A q \in Req : (q # r => StageOf(q)' = StageOf(q)) BY DEF StageOf
<1>7. StageOf(r) = "live" BY <1>3 DEF StageOf
<1>8. CASE published' = published /\ sq'[r].status \in {"WAITING", "RUNNING"}
  <2>1. StageOf(r)' = "live" BY <1>8 DEF StageOf
  <2> QED BY <1>5, <1>6, <1>7, <1>8, <2>1, Unseen
<1>9. CASE ~(published' = published /\ sq'[r].status \in {"WAITING", "RUNNING"})
  <2>1. /\ published' = [published EXCEPT ![r] = @ + 1]
        /\ sq'[r].status \in {"WAITING", "RUNNING", "FINISHED"}
        /\ sq[r].done + 1 = MaxTokens[r] => sq'[r].status = "FINISHED"
    BY <1>9
  <2>2. \/ StageOf(r)' = "live" /\ published[r] + 1 < MaxTokens[r]
        \/ StageOf(r)' = "ended"
    BY <1>3, <2>1 DEF StageOf
  <2>3. published[r] < MaxTokens[r] BY <1>3
  <2> QED BY <1>5, <1>6, <1>7, <2>1, <2>2, <2>3, Emitted
<1> QED BY <1>8, <1>9

LEMMA PostPrefillLive ==
  ASSUME IInv, AInv, FInv, LInv, PostprocessPrefill
  PROVE  LInv' /\ Serves
<1>1. /\ pc = "post" /\ todo # <<>> /\ isPrefill /\ UNCHANGED <<pc, pending, faults>>
  BY DEF PostprocessPrefill
<1>2. TypeOK /\ Popped = todo /\ todo \in Seq(Req) /\ Disjoint(todo, ending)
  BY <1>1, OutsideFacts, QueueTypes DEF Lists
<1>3. PICK r \in Req :
        /\ r = Head(todo) /\ Placed(r)'
        /\ \A q \in Req : (q # r => (Placed(q)' <=> Placed(q)))
  BY PostPrefillAccounts
<1>4. r \in ToSet(todo) BY <1>1, <1>2, <1>3, TailQueue
<1>5. Placed(r) /\ r \notin ToSet(ending) BY <1>2, <1>4 DEF Placed, Disjoint
<1>6. /\ Awaits(r) \/ BeginsReplay(r) \/ AcceptsFirst(r)
      /\ \A q \in Req : (q # r => sq'[q] = sq[q])
      /\ ending' = IF sq'[r].status = "FINISHED" THEN Append(ending, r) ELSE ending
  BY <1>2, <1>3, PrefilledIs
<1>7. \/ /\ sq'[r].status \in {"WAITING", "RUNNING"} /\ sq'[r].done = sq[r].done
         /\ published' = published
      \/ /\ sq'[r].status \in {"WAITING", "RUNNING", "FINISHED"}
         /\ sq'[r].done = sq[r].done + 1
         /\ sq[r].done + 1 = MaxTokens[r] => sq'[r].status = "FINISHED"
         /\ published' = [published EXCEPT ![r] = @ + 1]
  BY <1>6 DEF Awaits, BeginsReplay, AcceptsFirst
<1> QED BY <1>1, <1>2, <1>3, <1>5, <1>6, <1>7, PostLive

LEMMA PostDecodeLive ==
  ASSUME IInv, AInv, FInv, LInv, PostprocessDecode
  PROVE  LInv' /\ Serves
<1>1. /\ pc = "post" /\ todo # <<>> /\ ~isPrefill /\ UNCHANGED <<pc, pending, faults>>
  BY DEF PostprocessDecode
<1>2. /\ TypeOK /\ todo \in Seq(Req) /\ Disjoint(todo, ending)
      /\ ToSet(todo) \subseteq ToSet(decoding)
  BY <1>1, OutsideFacts, QueueTypes DEF Lists
<1>3. PICK r \in Req : r = Head(todo) /\ r \in ToSet(todo) BY <1>1, <1>2, TailQueue
<1>4. Placed(r) /\ r \notin ToSet(ending) BY <1>2, <1>3 DEF Placed, Disjoint
<1>5. Steady BY PostDecodeAccounts
<1>6. /\ Replayed(r) \/ AcceptsNext(r)
      /\ \A q \in Req : (q # r => sq'[q] = sq[q])
      /\ ending' = IF sq'[r].status = "FINISHED" THEN Append(ending, r) ELSE ending
  BY <1>2, <1>3, DecodedIs
<1>7. sq[r].status \in {"WAITING", "RUNNING"} BY <1>4 DEF LInv, Live
<1>8. \/ /\ sq'[r].status \in {"WAITING", "RUNNING"} /\ sq'[r].done = sq[r].done
         /\ published' = published
      \/ /\ sq'[r].status \in {"WAITING", "RUNNING", "FINISHED"}
         /\ sq'[r].done = sq[r].done + 1
         /\ sq[r].done + 1 = MaxTokens[r] => sq'[r].status = "FINISHED"
         /\ published' = [published EXCEPT ![r] = @ + 1]
  BY <1>6, <1>7 DEF Replayed, AcceptsNext
<1> QED BY <1>1, <1>2, <1>4, <1>5, <1>6, <1>8, PostLive DEF Steady

\* The remaining steps change no sequence.
LEMMA OtherLive ==
  ASSUME MaxFaults = 0, IInv, AInv, FInv, LInv,
         \/ BeginStep \/ RefuseStep \/ ReleasePreempted \/ RaiseNothingToRun \/ RunModel
         \/ EndStep \/ \E r \in Req : WaitTimeout(r)
  PROVE  LInv' /\ Serves
<1>1. Steady
  BY BeginAccounts, RefuseAccounts, ReleasePreemptedAccounts, NothingToRunAccounts,
     RunAccounts, EndAccounts, TimeoutAccounts
<1>2. pending' = {} /\ faults' = faults
  <2>1. CASE ReleasePreempted
    <3>1. preempted \in Req BY <2>1 DEF ReleasePreempted, IInv, TypeOK
    <3>2. Released(preempted) BY <2>1, <3>1, NoFailures DEF ReleasePreempted
    <3> QED BY <3>2 DEF Released, LInv
  <2>2. CASE ~ReleasePreempted
    BY <2>2 DEF BeginStep, RefuseStep, RaiseNothingToRun, RunModel, EndStep, WaitTimeout,
       engineVars, LInv
  <2> QED BY <2>1, <2>2
<1>3. UNCHANGED <<sq, published, ending>> /\ pc' # "reclaim"
  BY DEF BeginStep, RefuseStep, ReleasePreempted, RaiseNothingToRun, RunModel, EndStep,
     WaitTimeout, engineVars, LInv
<1>4. \A q \in Req : Idles(q) BY <1>1, <1>3 DEF Idles, Steady
<1> QED BY <1>2, <1>3, <1>4, IdleLive

LEMMA StutterLive == ASSUME LInv, UNCHANGED vars PROVE LInv' /\ Serves
<1>1. /\ UNCHANGED <<pending, faults, pc, published, ending, sq>>
      /\ \A q \in Req : (Placed(q)' <=> Placed(q))
  BY DEF vars, schedVars, engineVars, Placed, InQueue, Popped
<1>2. pending' = {} /\ pc' # "reclaim" /\ \A q \in Req : Idles(q) BY <1>1 DEF LInv, Idles
<1> QED BY <1>1, <1>2, IdleLive

\* Every step of the engine is a step of the service or none it can see.
LEMMA ServiceStep ==
  ASSUME MaxFaults = 0, IInv, AInv, FInv, LInv, [Next]_vars
  PROVE  LInv' /\ Serves
<1>1. CASE UNCHANGED vars BY <1>1, StutterLive
<1>2. CASE \E r \in Req : AddRequest(r) \/ AbortRequest(r) \/ WaitTimeout(r)
  BY <1>2, AddLive, AbortLive, OtherLive
<1>3. CASE EngineStep
  <2>1. ~RunFails /\ ~ReclaimOne BY NoFailures DEF ReclaimOne, LInv
  <2> QED
    BY <1>3, <2>1, ScheduleLive, PostPrefillLive, PostDecodeLive, FinishLive, OtherLive
    DEF EngineStep
<1>4. CASE RefuseStep BY <1>4, OtherLive
<1>5. CASE Quiescent BY <1>5, StutterLive DEF Quiescent
<1> QED BY <1>1, <1>2, <1>3, <1>4, <1>5 DEF Next

\* Where no run and no release fails, SyncEngine implements RequestService: each
\* request is accepted once, its tokens are handed out one at a time and at
\* most max_tokens of them, the last one ends it, and nothing is handed out
\* after its end, whatever is deferred, preempted, recomputed and replayed.
THEOREM EngineImplementsService == MaxFaults = 0 => (Spec => ImplementsService)
<1> SUFFICES ASSUME MaxFaults = 0 PROVE Spec => ImplementsService OBVIOUS
<1>1. Init => LInv BY InitLive
<1>2. IInv /\ AInv /\ FInv /\ LInv /\ [Next]_vars => LInv' BY ServiceStep
<1>3. IInv /\ AInv /\ FInv /\ LInv /\ [Next]_vars => [Service!Next]_(Service!serviceVars)
  BY ServiceStep DEF Serves
<1>4. Init => Service!Init BY InitServes
<1> QED
  BY <1>1, <1>2, <1>3, <1>4, Inductive, AccountsInductive, FaithInductive, PTL
  DEF Spec, ImplementsService, Service!Spec

\* An ended stage stays ended, and its outputs stay.
LEMMA EndedStays ==
  ASSUME TypeOK, Serves, NEW r \in Req, StageOf(r) = "ended"
  PROVE  StageOf(r)' = "ended" /\ published'[r] = published[r]
<1> DEFINE st == [q \in Req |-> StageOf(q)]
           tt == [q \in Req |-> StageOf(q)']
<1>1. st[r] = "ended" OBVIOUS
<1>2. CASE ~Service!Next
  <2>1. tt = st /\ published' = published
    BY <1>2 DEF Serves, Service!serviceVars, StageOf
  <2>2. tt[r] = "ended" BY <1>1, <2>1
  <2> QED BY <2>1, <2>2
<1>3. CASE Service!Next
  <2>1. PICK q \in Req : Service!Accept(q) \/ Service!Emit(q) \/ Service!Cancel(q)
    BY <1>3 DEF Service!Next
  <2>2. /\ st[q] # "ended"
        /\ tt = [st EXCEPT ![q] = "live"] \/ tt = [st EXCEPT ![q] = "ended"] \/ tt = st
    BY <2>1 DEF Service!Accept, Service!Emit, Service!Cancel, StageOf
  <2>3. published' = published \/ published' = [published EXCEPT ![q] = @ + 1]
    BY <2>1 DEF Service!Accept, Service!Emit, Service!Cancel
  <2>4. q # r BY <1>1, <2>2
  <2>5. published'[r] = published[r] BY <2>3, <2>4 DEF TypeOK
  <2>6. tt[r] = st[r] BY <2>2, <2>4
  <2> QED BY <1>1, <2>5, <2>6
<1> QED BY <1>2, <1>3

\* Where no run and no release fails, a request that finished or was aborted
\* stays ended and produces nothing more.  With failures it need not: a finish
\* release that fails leaves the other finished requests of the step queued,
\* and they run again (_step_sync).
THEOREM EndsAreFinal == MaxFaults = 0 => (Spec => EndIsFinal)
<1> SUFFICES ASSUME MaxFaults = 0 PROVE Spec => EndIsFinal OBVIOUS
<1>1. Init => LInv BY InitLive
<1>2. IInv /\ AInv /\ FInv /\ LInv /\ [Next]_vars => LInv' BY ServiceStep
<1>3. IInv /\ AInv /\ FInv /\ LInv /\ [Next]_vars =>
        [\A r \in Req : sq[r].status = "FINISHED" =>
           sq'[r].status = "FINISHED" /\ published'[r] = published[r]]_vars
  <2> SUFFICES ASSUME IInv, AInv, FInv, LInv, [Next]_vars, NEW r \in Req,
                      sq[r].status = "FINISHED"
               PROVE  sq'[r].status = "FINISHED" /\ published'[r] = published[r]
    OBVIOUS
  <2>1. StageOf(r) = "ended" BY DEF StageOf
  <2>2. StageOf(r)' = "ended" /\ published'[r] = published[r]
    BY <2>1, ServiceStep, EndedStays DEF IInv
  <2> QED BY <2>2 DEF StageOf
<1> QED
  BY <1>1, <1>2, <1>3, Inductive, AccountsInductive, FaithInductive, PTL
  DEF Spec, EndIsFinal
=============================================================================
