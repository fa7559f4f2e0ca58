-------------------------- MODULE SyncEngineProofs --------------------------
(***************************************************************************)
(* Proofs about SyncEngine, for every finite set of requests and every     *)
(* size of the pool, the batches and the windows: the type invariant, the  *)
(* KV ledger and BatchFits, which together are inductive.                  *)
(***************************************************************************)
EXTENDS SyncEngine, SchedulerLemmas

\* A scan in decode order never runs past the queue (part of BatchFits).
ScanFits == pc = "decode" => scan.left <= Len(decoding)

-----------------------------------------------------------------------------
(* Types.                                                                  *)

\* A new engine is well typed.
LEMMA InitType == Init => TypeOK
<1>1. NewSequence \in SequenceState
  BY DEF NewSequence, SequenceState, NotReplaying
<1>2. SchedInit => sq \in [Req -> SequenceState]
  BY <1>1 DEF SchedInit
<1>3. NumSlots \in Int BY SizeAssumption
<1>4. Init => /\ window \in [Req -> Nat] /\ kv \in [Req -> Nat]
              /\ published \in [Req -> Nat]
  BY DEF Init, SchedInit
<1>5. Init => /\ waiting \in Seq(Req) /\ decoding \in Seq(Req) /\ waitSince \in Seq(Req)
              /\ batch \in Seq(Req) /\ todo \in Seq(Req) /\ ending \in Seq(Req)
  BY DEF Init, SchedInit
<1>6. Init => /\ late \subseteq Req /\ resident \subseteq Req /\ pending \subseteq Req
              /\ isPrefill \in BOOLEAN /\ preempted \in Req \cup {NoReq}
              /\ scan \in ScanState /\ free \in Int
  BY <1>3, NoScanType DEF Init, SchedInit
<1> QED BY <1>2, <1>4, <1>5, <1>6 DEF Init, SchedInit, TypeOK

\* _preempt_decode_victim.
LEMMA PreemptType ==
  ASSUME TypeOK, NEW victim \in Req, Preempt(victim), UNCHANGED engineVars
  PROVE  TypeOK'
<1> DEFINE others == RemoveFirst(decoding, victim)
<1>t. /\ sq \in [Req -> SequenceState]
      /\ waiting \in Seq(Req) /\ decoding \in Seq(Req) /\ waitSince \in Seq(Req)
  BY DEF TypeOK
<1>1. others \in Seq(Req) BY <1>t, RemoveFirstType
<1>2. /\ UNCHANGED <<late, phase, window, free, kv, resident, inflight, batch, isPrefill>>
      /\ scan' = NoScan
  BY DEF Preempt
<1>3. CASE SoleDecodeStuck(victim, others)
  <2>1. /\ UNCHANGED <<sq, waiting, decoding, waitSince, preempted>>
        /\ pc' = "idle" /\ raised' = "sole_decode"
    BY <1>3 DEF Preempt
  <2> QED BY <1>2, <2>1, NoScanType DEF TypeOK, engineVars
<1>4. CASE ~SoleDecodeStuck(victim, others)
  <2>1. /\ sq' = [r \in Req |->
                    IF r = victim THEN Restarted(sq[r])
                    ELSE IF r \in ToSet(others)
                           THEN [sq[r] EXCEPT !.checkpoint = sq[r].done]
                           ELSE sq[r]]
        /\ decoding' = others /\ waiting' = Append(waiting, victim)
        /\ waitSince' = Noted(victim)
        /\ preempted' = victim /\ pc' = "scheduled" /\ raised' = raised
    BY <1>4 DEF Preempt
  <2>2. sq' \in [Req -> SequenceState]
    <3>1. ASSUME NEW r \in Req PROVE sq'[r] \in SequenceState
      BY <1>t, <2>1, SequenceFields, ReplayTypes
    <3> HIDE DEF others
    <3> QED BY <2>1, <3>1
  <2>3. Noted(victim) \in Seq(Req) /\ Append(waiting, victim) \in Seq(Req)
    BY <1>t, NotedType
  <2> HIDE DEF others
  <2> QED BY <1>1, <1>2, <2>1, <2>2, <2>3, NoScanType DEF TypeOK, engineVars
<1> QED BY <1>3, <1>4

\* Every step of schedule() keeps the types.
LEMMA ScheduleType ==
  ASSUME TypeOK, ScanFits, ScheduleStep
  PROVE  TypeOK'
<1>t. /\ sq \in [Req -> SequenceState] /\ scan \in ScanState /\ window \in [Req -> Nat]
      /\ waiting \in Seq(Req) /\ decoding \in Seq(Req) /\ waitSince \in Seq(Req)
      /\ batch \in Seq(Req) /\ late \subseteq Req /\ resident \subseteq Req /\ free \in Int
  BY DEF TypeOK
<1>0. UNCHANGED engineVars BY DEF ScheduleStep
<1>1. ASSUME NEW r \in Req, NoteWaiting(r) PROVE TypeOK'
  <2>1. waitSince' \in Seq(Req) BY <1>t, <1>1 DEF NoteWaiting
  <2>2. UNCHANGED <<sq, waiting, decoding, late, phase, window, free, kv, resident,
                    inflight, pc, scan, batch, isPrefill, preempted, raised>>
    BY <1>t, <1>1 DEF NoteWaiting
  <2> QED BY <1>0, <2>1, <2>2 DEF TypeOK, engineVars
<1>2. ASSUME NEW r \in Req, AcquireWindow(r) PROVE TypeOK'
  <2>1. \A k \in 1..WindowSize(r) : [window EXCEPT ![r] = Submitted(r) + k] \in [Req -> Nat]
    <3>1. Submitted(r) \in Nat BY <1>t, SequenceFields
    <3>2. \A k \in 1..WindowSize(r) : Submitted(r) + k \in Nat BY <1>t, <3>1
    <3> QED BY <1>t, <3>2
  <2> QED BY <1>0, <1>2, <2>1 DEF TypeOK, AcquireWindow, engineVars
<1>3. ASSUME NEW r \in Req, PreemptUnreserved(r) PROVE TypeOK'
  BY <1>0, <1>3, PreemptType DEF PreemptUnreserved
<1>4. ASSUME NEW r \in Req, DrainUnreserved(r) PROVE TypeOK'
  BY <1>0, <1>4, NoScanType DEF TypeOK, DrainUnreserved, DrainFirst, engineVars
<1>5. CASE BeginReserve
  BY <1>0, <1>5 DEF TypeOK, BeginReserve, engineVars
<1>6. CASE ScheduleAffinity
  <2>1. batch' \in Seq(Req)
    <3>1. PICK b \in [1..AffinitySize -> LiveDecodes] : batch' = b
      BY <1>t, <1>6 DEF ScheduleAffinity
    <3>2. AffinitySize \in Nat BY <1>t, AffinitySizeType
    <3>3. LiveDecodes \subseteq Req BY <1>t, ToSetType DEF LiveDecodes
    <3> QED BY <1>t, <3>1, <3>2, <3>3, FunctionIsQueue
  <2> QED BY <1>0, <1>6, <2>1 DEF TypeOK, ScheduleAffinity, engineVars
<1>7. CASE BeginSelection
  <2>1. waiting' \in Seq(Req)
    <3>1. CASE FavorMin > 0 /\ late # {}
      <4>1. PICK t \in [1..Len(waiting) -> ToSet(waiting)] : waiting' = t
        BY <1>t, <1>7, <3>1 DEF BeginSelection
      <4>2. Len(waiting) \in Nat /\ ToSet(waiting) \subseteq Req BY <1>t, ToSetType
      <4> QED BY <1>t, <4>1, <4>2, FunctionIsQueue
    <3>2. CASE ~(FavorMin > 0 /\ late # {})
      BY <1>t, <1>7, <3>2 DEF BeginSelection
    <3> QED BY <3>1, <3>2
  <2>2. isPrefill' \in BOOLEAN BY <1>7, Zenon DEF BeginSelection
  <2>3. scan' \in ScanState /\ pc' \in {"prefill", "decode"}
    <3> DEFINE first == Buckets(waiting, ReplayWaiting, 0)
               start(f) == [NoScan EXCEPT !.failed = f, !.replay = ReplayWaiting,
                              !.room = StepFree, !.slots = AdmissionFree,
                              !.rows = FreeRows]
    <3>1. PICK f \in Req \cup {NoReq} :
            \/ /\ first # {} /\ pc' = "prefill"
               /\ scan' = [start(f) EXCEPT !.bucket = Min(first), !.left = Len(waiting)]
            \/ pc' = "decode" /\ scan' = DecodeScan(start(f))
      BY <1>t, <1>7 DEF BeginSelection
    <3>2. StepFree \in Nat /\ AdmissionFree \in Nat /\ FreeRows \in Int
      BY <1>t, BudgetsType
    <3>3. ReplayWaiting \in BOOLEAN BY <1>t DEF ReplayWaiting
    <3>4. start(f) \in ScanState
      BY <3>2, <3>3, NoScanType, ScanStart, Zenon
    <3>5. first # {} => Min(first) \in 0..3 BY <1>t, BucketType
    <3> HIDE DEF first, start
    <3>6. first # {} =>
            [start(f) EXCEPT !.bucket = Min(first), !.left = Len(waiting)] \in ScanState
      <4>1. Len(waiting) \in Nat BY <1>t
      <4> QED BY <3>4, <3>5, <4>1, ScanBucket, Zenon
    <3>7. DecodeScan(start(f)) \in ScanState BY <1>t, <3>4, DecodeScanType
    <3> QED BY <3>1, <3>6, <3>7
  <2> QED BY <1>0, <1>7, <2>1, <2>2, <2>3 DEF TypeOK, BeginSelection, engineVars
<1>8. CASE PrefillSkip
  <2>1. Head(waiting) \in Req /\ Tail(waiting) \in Seq(Req)
    BY <1>t, <1>8 DEF PrefillSkip, Scanning, CanContinue
  <2>2. scan' \in ScanState
    <3>1. Append(scan.skipped, Head(waiting)) \in Seq(Req) BY <1>t, <2>1, ScanFields
    <3>2. scan' = [scan EXCEPT !.skipped = Append(scan.skipped, Head(waiting))]
      BY <1>t, <1>8 DEF PrefillSkip
    <3> QED BY <1>t, <3>1, <3>2, ScanAside, Zenon
  <2> QED BY <1>0, <1>8, <2>1, <2>2 DEF TypeOK, PrefillSkip, engineVars
<1>9. CASE PrefillDefer
  <2>1. waiting' \in Seq(Req)
    BY <1>t, <1>9 DEF PrefillDefer, Scanning, CanContinue
  <2>2. scan' \in ScanState
    <3> DEFINE d == scan.deferred \/ ~(ChunkFor(Head(waiting)) <= 0)
    <3>1. scan.left > 0 /\ scan' = [scan EXCEPT !.left = scan.left - 1, !.deferred = d]
      BY <1>t, <1>9 DEF PrefillDefer, Scanning
    <3>2. scan.left - 1 \in Nat
      <4>1. scan.left \in Nat BY <1>t, ScanFields
      <4> QED BY <3>1, <4>1
    <3>3. d \in BOOLEAN BY <1>t
    <3> HIDE DEF d
    <3> QED BY <1>t, <3>1, <3>2, <3>3, ScanAside, Zenon
  <2> QED BY <1>0, <1>9, <2>1, <2>2 DEF TypeOK, PrefillDefer, engineVars
<1>10. CASE PrefillTake
  <2> DEFINE r == Head(waiting)
             n == ChunkFor(r)
  <2>1. r \in Req /\ Tail(waiting) \in Seq(Req)
    BY <1>t, <1>10 DEF PrefillTake, Scanning, CanContinue
  <2>2. n \in Nat /\ n <= scan.room BY <1>t, <1>10, <2>1, ChunkType DEF PrefillTake
  <2>3. sq' \in [Req -> SequenceState]
    <3>1. [sq[r] EXCEPT !.status = "RUNNING", !.chunk = n] \in SequenceState
      BY <1>t, <2>1, <2>2, SequenceFields DEF SequenceState
    <3>2. sq' = [sq EXCEPT ![r] = [sq[r] EXCEPT !.status = "RUNNING", !.chunk = n]]
      BY <1>t, <1>10, <2>1 DEF PrefillTake
    <3> HIDE DEF r, n
    <3> QED BY <1>t, <2>1, <3>1, <3>2
  <2>4. scan' \in ScanState
    <3> DEFINE need == IF IsFresh(r) THEN Prompt[r] ELSE 0
               row == IF IsFresh(r) THEN 1 ELSE 0
    <3>1. scan' = [scan EXCEPT !.left = scan.left - 1, !.slots = scan.slots - need,
                      !.rows = scan.rows - row, !.tokens = scan.tokens + n,
                      !.room = scan.room - n]
      BY <1>t, <1>10 DEF PrefillTake
    <3>2. need \in Nat /\ need <= scan.slots /\ row \in Int
      <4>1. Prompt[r] \in Nat /\ scan.slots \in Nat
        BY <1>t, <2>1, RequestAssumption, ScanFields
      <4>2. IsFresh(r) => Prompt[r] <= scan.slots
        BY <1>t, <1>10 DEF PrefillTake, AdmissionFits
      <4> QED BY <4>1, <4>2
    <3>3. scan.left > 0 BY <1>t, <1>10 DEF PrefillTake, Scanning
    <3> HIDE DEF r, n, need, row
    <3>4. /\ scan.left - 1 \in Nat /\ scan.slots - need \in Nat
          /\ scan.rows - row \in Int /\ scan.tokens + n \in Nat /\ scan.room - n \in Nat
      <4>1. /\ scan.left \in Nat /\ scan.slots \in Nat /\ scan.rows \in Int
            /\ scan.tokens \in Nat /\ scan.room \in Nat
        BY <1>t, ScanFields
      <4> QED BY <2>2, <3>2, <3>3, <4>1
    <3> QED BY <1>t, <3>1, <3>4, ScanTaken, Zenon
  <2>5. /\ waiting' \in Seq(Req) /\ batch' \in Seq(Req) /\ resident' \subseteq Req
        /\ waitSince' \in Seq(Req) /\ late' \subseteq Req
    <3>1. /\ waiting' = Tail(waiting) /\ batch' = Append(batch, r)
          /\ resident' = (IF IsFresh(r) THEN resident \cup {r} ELSE resident)
          /\ waitSince' = RemoveFirst(waitSince, r) /\ late' = late \ {r}
      BY <1>t, <1>10 DEF PrefillTake, Unnote
    <3>2. RemoveFirst(waitSince, r) \in Seq(Req) BY <1>t, RemoveFirstType
    <3> HIDE DEF r
    <3> QED BY <1>t, <2>1, <3>1, <3>2
  <2>6. UNCHANGED <<decoding, phase, window, free, kv, inflight, pc, isPrefill, preempted,
                    raised>>
    BY <1>t, <1>10 DEF PrefillTake
  <2> QED BY <1>0, <2>3, <2>4, <2>5, <2>6 DEF TypeOK, engineVars
<1>11. CASE SchedulePrefill
  <2>1. waiting' \in Seq(Req) BY <1>t, <1>11, ScanFields DEF SchedulePrefill
  <2> QED BY <1>0, <1>11, <2>1, NoScanType DEF TypeOK, SchedulePrefill, engineVars
<1>12. CASE NextBucket
  <2> DEFINE q == scan.skipped \o waiting
             rest == Buckets(q, scan.replay, scan.bucket + 1)
  <2>1. q \in Seq(Req) BY <1>t, ScanFields
  <2>2. rest # {} => Min(rest) \in 0..3
    <3>1. scan.bucket + 1 \in Nat BY <1>t, ScanFields
    <3> QED BY <3>1, BucketType
  <2>3. /\ waiting' = q
        /\ \/ /\ rest # {} /\ UNCHANGED <<pc, isPrefill>>
              /\ scan' = [scan EXCEPT !.bucket = Min(rest), !.left = Len(q),
                                      !.skipped = <<>>]
           \/ scan' = DecodeScan(scan) /\ pc' = "decode" /\ isPrefill' = FALSE
    BY <1>t, <1>12 DEF NextBucket
  <2> HIDE DEF q, rest
  <2>4. rest # {} => [scan EXCEPT !.bucket = Min(rest), !.left = Len(q),
                                  !.skipped = <<>>] \in ScanState
    <3>1. Len(q) \in Nat /\ <<>> \in Seq(Req) /\ scan \in ScanState BY <1>t, <2>1
    <3> QED BY <2>2, <3>1, ScanNextBucket, Zenon
  <2>5. DecodeScan(scan) \in ScanState BY <1>t, DecodeScanType
  <2>6. scan' \in ScanState /\ waiting' \in Seq(Req) BY <1>t, <2>1, <2>3, <2>4, <2>5
  <2>7. UNCHANGED <<sq, decoding, waitSince, late, phase, window, free, kv, resident,
                    inflight, batch, preempted, raised>>
    BY <1>t, <1>12 DEF NextBucket
  <2> QED BY <1>0, <2>3, <2>6, <2>7 DEF TypeOK, engineVars
<1>13. CASE PreemptSole
  <2>1. scan.failed \in Req BY <1>t, <1>13, ScanFields DEF PreemptSole
  <2> QED BY <1>0, <1>13, <2>1, PreemptType DEF PreemptSole
<1>14. CASE DecodeSkip
  <2>1. Head(decoding) \in Req /\ Tail(decoding) \in Seq(Req)
    BY <1>t, <1>14, ScanFields DEF DecodeSkip, DecodeScanning, ScanFits
  <2>2. scan' \in ScanState
    <3>1. scan.left - 1 \in Nat
      <4>1. scan.left \in Nat BY <1>t, ScanFields
      <4>2. scan.left > 0 BY <1>14 DEF DecodeSkip, DecodeScanning
      <4> QED BY <4>1, <4>2
    <3>2. scan' = [scan EXCEPT !.left = scan.left - 1] BY <1>14 DEF DecodeSkip
    <3> QED BY <1>t, <3>1, <3>2, ScanAside, Zenon
  <2>3. Append(Tail(decoding), Head(decoding)) \in Seq(Req) BY <2>1
  <2> QED BY <1>0, <1>14, <2>2, <2>3 DEF TypeOK, DecodeSkip, engineVars
<1>15. CASE DecodeTake
  <2>1. Head(decoding) \in Req /\ Tail(decoding) \in Seq(Req)
    BY <1>t, <1>15, ScanFields, SMTT(30) DEF DecodeTake, DecodeScanning, ScanFits
  <2>2. scan' \in ScanState
    <3>1. scan.left - 1 \in Nat /\ scan.room - 1 \in Nat
      <4>1. scan.left \in Nat /\ scan.room \in Nat BY <1>t, ScanFields
      <4>2. scan.left > 0 /\ scan.room >= 1 BY <1>15 DEF DecodeTake, DecodeScanning
      <4> QED BY <4>1, <4>2
    <3>2. scan' = [scan EXCEPT !.left = scan.left - 1, !.room = scan.room - 1]
      BY <1>15 DEF DecodeTake
    <3> QED BY <1>t, <3>1, <3>2, ScanAside, Zenon
  <2>3. Append(batch, Head(decoding)) \in Seq(Req) BY <1>t, <2>1
  <2> QED BY <1>0, <1>15, <2>1, <2>2, <2>3 DEF TypeOK, DecodeTake, engineVars
<1>16. CASE DecodeBlock
  <2>1. Head(decoding) \in Req
    BY <1>t, <1>16, ScanFields DEF DecodeBlock, DecodeScanning, ScanFits
  <2>2. scan' \in ScanState BY <1>t, <1>16, <2>1 DEF DecodeBlock, ScanState
  <2> QED BY <1>0, <1>16, <2>2 DEF TypeOK, DecodeBlock, engineVars
<1>17. CASE ScheduleDecode
  <2>1. decoding' \in Seq(Req)
    BY <1>t, <1>17, RemoveFirstType, ScanFields DEF ScheduleDecode
  <2> QED BY <1>0, <1>17, <2>1, NoScanType DEF TypeOK, ScheduleDecode, engineVars
<1>18. CASE PreemptBlocked
  <2>1. scan.blocked \in Req BY <1>t, <1>18, ScanFields DEF PreemptBlocked
  <2> QED BY <1>0, <1>18, <2>1, PreemptType DEF PreemptBlocked
<1>19. CASE DrainBlocked
  BY <1>0, <1>19, NoScanType DEF TypeOK, DrainBlocked, DrainFirst, engineVars
<1>20. CASE ScheduleNothing
  BY <1>0, <1>20, NoScanType DEF TypeOK, ScheduleNothing, engineVars
<1> QED
  BY <1>t, <1>1, <1>2, <1>3, <1>4, <1>5, <1>6, <1>7, <1>8, <1>9, <1>10, <1>11, <1>12,
     <1>13, <1>14, <1>15, <1>16, <1>17, <1>18, <1>19, <1>20
     DEF ScheduleStep, Schedule

\* A release, performed or failed half-way, keeps the types of what it touches.
LEMMA ReleaseTypes ==
  ASSUME TypeOK, NEW r \in Req, Released(r) \/ ReleaseFails(r)
  PROVE  /\ window' \in [Req -> Nat] /\ free' \in Int /\ kv' \in [Req -> Nat]
         /\ resident' \subseteq Req /\ pending' \subseteq Req /\ faults' \in Nat
<1>t. /\ kv \in [Req -> Nat] /\ window \in [Req -> Nat] /\ resident \subseteq Req
      /\ free \in Int /\ pending \subseteq Req /\ faults \in Nat
  BY DEF TypeOK
<1>1. Release({r}) \/ UNCHANGED <<window, free, kv, resident>>
  BY DEF Released, ReleaseFails
<1>2. /\ window' \in [Req -> Nat] /\ free' \in Int /\ kv' \in [Req -> Nat]
      /\ resident' \subseteq Req
  BY <1>t, <1>1, ReleaseLedger
<1>3. pending' \subseteq Req /\ faults' \in Nat
  BY <1>t DEF Released, ReleaseFails
<1> QED BY <1>2, <1>3

\* Scheduler.abort keeps the types of the queues and of the Sequence.
LEMMA DropTypes ==
  ASSUME TypeOK, NEW r \in Req, Drop(r)
  PROVE  /\ waiting' \in Seq(Req) /\ decoding' \in Seq(Req) /\ waitSince' \in Seq(Req)
         /\ late' \subseteq Req /\ sq' \in [Req -> SequenceState]
<1>t. /\ sq \in [Req -> SequenceState] /\ waiting \in Seq(Req) /\ decoding \in Seq(Req)
      /\ waitSince \in Seq(Req) /\ late \subseteq Req
  BY DEF TypeOK
<1>1. /\ waiting' \in Seq(Req) /\ decoding' \in Seq(Req) /\ waitSince' \in Seq(Req)
      /\ late' \subseteq Req
  BY <1>t, RemoveFirstType DEF Drop, Unnote
<1>2. sq' \in [Req -> SequenceState]
  <2>1. [sq[r] EXCEPT !.status = "FINISHED"] \in SequenceState
    BY <1>t, SequenceFields DEF SequenceState
  <2>2. sq' = [sq EXCEPT ![r] = [sq[r] EXCEPT !.status = "FINISHED"]]
    BY <1>t DEF Drop
  <2> QED BY <1>t, <2>1, <2>2
<1> QED BY <1>1, <1>2

\* prepare_step keeps the types of the pool and the rows.
LEMMA AllocateTypes ==
  ASSUME TypeOK, NEW S, S \subseteq Req, Allocate(S)
  PROVE  free' \in Int /\ kv' \in [Req -> Nat]
<1>t. /\ kv \in [Req -> Nat] /\ free \in Int /\ isPrefill \in BOOLEAN
      /\ sq \in [Req -> SequenceState]
  BY DEF TypeOK
<1>1. ASSUME NEW r \in Req PROVE kv[r] + StepCost(r) \in Nat
  <2>1. sq[r].chunk \in Nat BY <1>t, SequenceFields
  <2> QED BY <1>t, <2>1 DEF StepCost
<1>2. Cardinality(Writes(S)) \in Nat BY AmountsType
<1> QED BY <1>t, <1>1, <1>2 DEF Allocate

\* append_token and the tests that end a request.
LEMMA TokenTypes ==
  ASSUME NEW s \in SequenceState, NEW r, NEW eos
  PROVE  WithToken(r, s, eos) \in SequenceState
<1>1. ASSUME NEW x \in {"FINISHED", s.status}
      PROVE  [s EXCEPT !.done = s.done + 1, !.status = x] \in SequenceState
  <2>1. /\ s.done \in Nat /\ s.status \in {"NEW", "WAITING", "RUNNING", "FINISHED"}
    BY SequenceUpdates
  <2>2. s.done + 1 \in Nat BY <2>1
  <2>3. x \in {"NEW", "WAITING", "RUNNING", "FINISHED"} BY <2>1
  <2> QED BY <2>2, <2>3, SequenceUpdates
<1>2. \E x \in {"FINISHED", s.status} :
        WithToken(r, s, eos) = [s EXCEPT !.done = s.done + 1, !.status = x]
  BY DEF WithToken
<1> QED BY <1>1, <1>2

\* Every step of the engine keeps the types.
LEMMA TypeStep ==
  ASSUME TypeOK, ScanFits, [Next]_vars
  PROVE  TypeOK'
<1>t. /\ sq \in [Req -> SequenceState] /\ scan \in ScanState
      /\ waiting \in Seq(Req) /\ decoding \in Seq(Req) /\ waitSince \in Seq(Req)
      /\ batch \in Seq(Req) /\ todo \in Seq(Req) /\ ending \in Seq(Req)
      /\ late \subseteq Req /\ pending \subseteq Req
      /\ published \in [Req -> Nat] /\ faults \in Nat /\ preempted \in Req \cup {NoReq}
  BY DEF TypeOK
<1>1. ASSUME NEW r \in Req, AddRequest(r) PROVE TypeOK'
  <2>1. sq' \in [Req -> SequenceState]
    <3>1. [sq[r] EXCEPT !.status = "WAITING"] \in SequenceState
      BY <1>t, SequenceFields DEF SequenceState
    <3>2. sq' = [sq EXCEPT ![r] = [sq[r] EXCEPT !.status = "WAITING"]]
      BY <1>t, <1>1 DEF AddRequest
    <3> QED BY <1>t, <3>1, <3>2
  <2>2. waiting' \in Seq(Req) /\ waitSince' \in Seq(Req)
    BY <1>t, <1>1, NotedType DEF AddRequest
  <2>3. phase' \in {"prefill", "decode"} BY <1>1 DEF AddRequest, TypeOK
  <2> QED BY <1>1, <2>1, <2>2, <2>3 DEF TypeOK, AddRequest, outVars, engineVars
<1>2. ASSUME NEW r \in Req, AbortRequest(r) PROVE TypeOK'
  <2>1. /\ window' \in [Req -> Nat] /\ free' \in Int /\ kv' \in [Req -> Nat]
        /\ resident' \subseteq Req /\ pending' \subseteq Req /\ faults' \in Nat
    BY <1>2, ReleaseTypes DEF AbortRequest, TypeOK
  <2>2. /\ waiting' \in Seq(Req) /\ decoding' \in Seq(Req) /\ waitSince' \in Seq(Req)
        /\ late' \subseteq Req /\ sq' \in [Req -> SequenceState]
    BY <1>t, <1>2, DropTypes DEF AbortRequest, waitVars
  <2>3. raised' \in {raised, "release_failure"} BY <1>2 DEF AbortRequest
  <2>4. /\ UNCHANGED <<phase, inflight, pc, scan, batch, isPrefill, preempted>>
        /\ UNCHANGED <<published, todo, ending>>
    BY <1>2 DEF AbortRequest
  <2> QED BY <2>1, <2>2, <2>3, <2>4 DEF TypeOK
<1>3. ASSUME NEW r \in Req, WaitTimeout(r) PROVE TypeOK'
  <2>1. late' \subseteq Req BY <1>t, <1>3 DEF WaitTimeout
  <2> QED BY <1>3, <2>1 DEF TypeOK, WaitTimeout, outVars, engineVars
<1>4. CASE BeginStep
  BY <1>4 DEF TypeOK, BeginStep, engineVars
<1>5. CASE RefuseStep
  BY <1>5 DEF TypeOK, RefuseStep, engineVars
<1>6. CASE ScheduleStep
  BY <1>6, ScheduleType
<1>7. CASE ReleasePreempted
  <2>1. preempted \in Req BY <1>t, <1>7 DEF ReleasePreempted
  <2>2. /\ window' \in [Req -> Nat] /\ free' \in Int /\ kv' \in [Req -> Nat]
        /\ resident' \subseteq Req /\ pending' \subseteq Req /\ faults' \in Nat
    BY <1>7, <2>1, ReleaseTypes DEF ReleasePreempted
  <2>3. /\ UNCHANGED <<sq, waiting, decoding, waitSince, late, phase, inflight, scan,
                       batch, isPrefill, published, todo, ending>>
        /\ preempted' = NoReq /\ pc' = "idle" /\ raised' \in {raised, "release_failure"}
    BY <1>7 DEF ReleasePreempted
  <2> QED BY <2>2, <2>3 DEF TypeOK
<1>8. CASE RaiseNothingToRun
  BY <1>8 DEF TypeOK, RaiseNothingToRun, engineVars
<1>9. CASE RunModel
  <2>1. free' \in Int /\ kv' \in [Req -> Nat]
    BY <1>t, <1>9, ToSetType, AllocateTypes DEF RunModel
  <2> QED BY <1>9, <2>1 DEF TypeOK, RunModel, outVars
<1>10. CASE RunFails
  <2>1. PICK k \in 0..Len(batch) : Allocate(ToSet(SubSeq(batch, 1, k)))
    BY <1>10 DEF RunFails
  <2>2. SubSeq(batch, 1, k) \in Seq(Req) BY <1>t
  <2>3. free' \in Int /\ kv' \in [Req -> Nat]
    BY <2>1, <2>2, ToSetType, AllocateTypes
  <2>4. waiting' \in Seq(Req) /\ faults' \in Nat BY <1>t, <1>10 DEF RunFails
  <2>5. /\ ending' = batch /\ batch' = <<>> /\ isPrefill' = FALSE
        /\ pc' = "reclaim" /\ raised' = "model_failure"
        /\ UNCHANGED <<sq, decoding, waitSince, late, phase, window, resident, inflight,
                       scan, preempted, pending, published, todo>>
    BY <1>10 DEF RunFails
  <2>6. batch' \in Seq(Req) /\ ending' \in Seq(Req) BY <1>t, <2>5
  <2> QED BY <2>3, <2>4, <2>5, <2>6 DEF TypeOK
<1>11. CASE ReclaimOne
  <2>1. Head(ending) \in Req /\ Tail(ending) \in Seq(Req)
    BY <1>t, <1>11 DEF ReclaimOne
  <2>2. /\ window' \in [Req -> Nat] /\ free' \in Int /\ kv' \in [Req -> Nat]
        /\ resident' \subseteq Req /\ pending' \subseteq Req /\ faults' \in Nat
    BY <1>11, <2>1, ReleaseTypes DEF ReclaimOne
  <2>3. /\ waiting' \in Seq(Req) /\ decoding' \in Seq(Req) /\ waitSince' \in Seq(Req)
        /\ late' \subseteq Req /\ sq' \in [Req -> SequenceState]
    BY <1>t, <1>11, <2>1, DropTypes DEF ReclaimOne, waitVars
  <2>4. /\ UNCHANGED <<phase, inflight, scan, batch, isPrefill, preempted, raised,
                       published, todo>>
        /\ ending' = Tail(ending) /\ pc' \in {"idle", "reclaim"}
    BY <1>11 DEF ReclaimOne, outVars
  <2> QED BY <2>1, <2>2, <2>3, <2>4 DEF TypeOK
<1>12. CASE PostprocessPrefill
  <2> DEFINE r == Head(todo)
             s == [sq[r] EXCEPT !.prefilled = @ + sq[r].chunk]
             complete == IsLastChunk(r)
             sampled == complete /\ ~IsReplay(s)
             w == [s EXCEPT !.status = "WAITING"]
             x == [s EXCEPT !.status = "RUNNING"]
  <2>1. r \in Req /\ Tail(todo) \in Seq(Req) BY <1>t, <1>12 DEF PostprocessPrefill
  <2>2. s \in SequenceState 
    <3>1. sq[r] \in SequenceState /\ sq[r].prefilled + sq[r].chunk \in Nat
      <4> HIDE DEF r
      <4>1. sq \in [Req -> SequenceState] BY <1>t
      <4>2. sq[r].prefilled \in Nat /\ sq[r].chunk \in Nat BY <2>1, <4>1, SequenceFields
      <4> QED BY <2>1, <4>1, <4>2
    <3> HIDE DEF r
    <3> QED BY <3>1, SequenceUpdates
  <2>3. w \in SequenceState /\ x \in SequenceState
    <3> HIDE DEF s
    <3> QED BY <2>2 DEF SequenceState
  <2>4. PICK eos \in BOOLEAN :
          /\ sq' = [sq EXCEPT ![r] = IF ~complete THEN w
                                     ELSE IF IsReplay(s) THEN ReplayUpTo(x, 0)
                                     ELSE WithToken(r, x, eos)]
          /\ ending' = IF sq'[r].status = "FINISHED" THEN Append(ending, r) ELSE ending
    BY <1>12 DEF PostprocessPrefill
  <2>5. /\ waiting' = IF complete THEN waiting ELSE <<r>> \o waiting
        /\ decoding' = IF complete THEN Append(decoding, r) ELSE decoding
        /\ waitSince' = IF complete THEN waitSince ELSE Noted(r)
        /\ published' = [published EXCEPT ![r] = @ + (IF sampled THEN 1 ELSE 0)]
        /\ todo' = Tail(todo)
        /\ UNCHANGED <<late, phase, window, free, kv, resident, inflight, pc, scan, batch,
                       isPrefill, preempted, raised, pending, faults>>
    BY <1>12 DEF PostprocessPrefill, outVars
  <2> HIDE DEF r, s, complete, sampled, w, x
  <2>6. /\ ReplayUpTo(x, 0) \in SequenceState /\ WithToken(r, x, eos) \in SequenceState
    BY <2>3, ReplayTypes, TokenTypes
  <2>7. sq' \in [Req -> SequenceState] BY <1>t, <2>1, <2>3, <2>4, <2>6
  <2>8. ending' \in Seq(Req) BY <1>t, <2>1, <2>4
  <2>9. <<r>> \o waiting \in Seq(Req) /\ Append(decoding, r) \in Seq(Req)
    BY <1>t, <2>1
  <2>10. Noted(r) \in Seq(Req) BY <1>t, <2>1, NotedType
  <2>11. published' \in [Req -> Nat]
    <3>1. published \in [Req -> Nat] /\ (IF sampled THEN 1 ELSE 0) \in Nat BY <1>t
    <3> QED BY <2>1, <2>5, <3>1
  <2>12. /\ waiting' \in Seq(Req) /\ decoding' \in Seq(Req) /\ waitSince' \in Seq(Req)
         /\ todo' \in Seq(Req)
    BY <1>t, <2>1, <2>5, <2>9, <2>10
  <2> QED BY <2>5, <2>7, <2>8, <2>11, <2>12 DEF TypeOK
<1>13. CASE PostprocessDecode
  <2> DEFINE r == Head(todo)
             sampled == ~IsReplay(sq[r])
             c == sq[r].cursor + 1
  <2>1. r \in Req /\ Tail(todo) \in Seq(Req) BY <1>t, <1>13 DEF PostprocessDecode
  <2>2. PICK eos \in BOOLEAN :
          /\ sq' = [sq EXCEPT ![r] = IF sampled THEN WithToken(r, sq[r], eos)
                                                ELSE ReplayUpTo(sq[r], c)]
          /\ ending' = IF sq'[r].status = "FINISHED" THEN Append(ending, r) ELSE ending
    BY <1>13 DEF PostprocessDecode
  <2>3. /\ published' = [published EXCEPT ![r] = @ + (IF sampled THEN 1 ELSE 0)]
        /\ todo' = Tail(todo)
        /\ UNCHANGED <<waiting, decoding, waitSince, late, phase, window, free, kv,
                       resident, inflight, pc, scan, batch, isPrefill, preempted, raised,
                       pending, faults>>
    BY <1>13 DEF PostprocessDecode, outVars
  <2>4. ~sampled => c \in Nat
    <3> HIDE DEF r
    <3>1. sq[r].cursor \in Nat \cup {NotReplaying} BY <1>t, <2>1, SequenceFields
    <3> QED BY <3>1 DEF IsReplay, NotReplaying
  <2>5. sq[r] \in SequenceState BY <1>t, <2>1, SequenceFields
  <2> HIDE DEF r, c, sampled
  <2>6. /\ ~sampled => ReplayUpTo(sq[r], c) \in SequenceState
        /\ WithToken(r, sq[r], eos) \in SequenceState
    BY <2>4, <2>5, ReplayTypes, TokenTypes
  <2>7. sq' \in [Req -> SequenceState] BY <1>t, <2>1, <2>2, <2>6
  <2>8. ending' \in Seq(Req) BY <1>t, <2>1, <2>2
  <2>9. published' \in [Req -> Nat] /\ todo' \in Seq(Req) BY <1>t, <2>1, <2>3
  <2> QED BY <2>3, <2>7, <2>8, <2>9 DEF TypeOK
<1>14. CASE ReleaseFinished
  <2>1. Head(ending) \in Req /\ Tail(ending) \in Seq(Req)
    BY <1>t, <1>14 DEF ReleaseFinished
  <2>2. /\ window' \in [Req -> Nat] /\ free' \in Int /\ kv' \in [Req -> Nat]
        /\ resident' \subseteq Req /\ pending' \subseteq Req /\ faults' \in Nat
    BY <1>14, <2>1, ReleaseTypes DEF ReleaseFinished
  <2>3. /\ waiting' \in Seq(Req) /\ decoding' \in Seq(Req) /\ waitSince' \in Seq(Req)
        /\ late' \subseteq Req /\ sq' \in [Req -> SequenceState]
    BY <1>t, <1>14, <2>1, DropTypes DEF ReleaseFinished, waitVars
  <2>4. \/ /\ ending' = Tail(ending)
           /\ UNCHANGED <<pc, batch, isPrefill, preempted, raised>>
        \/ /\ ending' = <<>> /\ pc' = "idle" /\ raised' = "release_failure"
           /\ batch' = <<>> /\ isPrefill' = FALSE /\ preempted' = preempted
    BY <1>14 DEF ReleaseFinished, outVars
  <2>5. UNCHANGED <<phase, inflight, scan, published, todo>>
    BY <1>14 DEF ReleaseFinished
  <2>6. <<>> \in Seq(Req) OBVIOUS
  <2>7. ending' \in Seq(Req) /\ batch' \in Seq(Req) BY <1>t, <2>1, <2>4, <2>6, Zenon
  <2>8. isPrefill' \in BOOLEAN /\ preempted' = preempted BY <2>4 DEF TypeOK
  <2>9. /\ pc' \in {pc, "idle"} /\ raised' \in {raised, "release_failure"} BY <2>4
  <2> QED BY <2>2, <2>3, <2>5, <2>7, <2>8, <2>9 DEF TypeOK
<1>15. CASE EndStep
  BY <1>15 DEF TypeOK, EndStep, engineVars
<1>16. CASE UNCHANGED vars
  BY <1>16 DEF TypeOK, vars, schedVars, engineVars
<1> QED
  BY <1>1, <1>2, <1>3, <1>4, <1>5, <1>6, <1>7, <1>8, <1>9, <1>10, <1>11, <1>12,
     <1>13, <1>14, <1>15, <1>16
     DEF Next, EngineStep, Quiescent

-----------------------------------------------------------------------------
(* The ledger.                                                             *)

\* All slots of a new engine are free.
LEMMA InitLedger == Init => SlotLedger
<1> SUFFICES ASSUME Init PROVE SlotLedger OBVIOUS
<1>1. Held = {}
  <2>1. ASSUME NEW t \in Tokens PROVE ~(t[2] <= kv[t[1]])
    BY DEF Init, SchedInit, Tokens
  <2> QED BY <2>1 DEF Held
<1> QED BY <1>1, FS_EmptySet, SizeAssumption DEF Init, SchedInit, SlotLedger

\* prepare_step: rows grow by exactly the slots the pool gives up.
LEMMA AllocateLedger ==
  ASSUME TypeOK, NEW S, S \subseteq Req, Allocate(S)
  PROVE  /\ free' = free - Cardinality(Writes(S))
         /\ free' + Cardinality(Held)' = free + Cardinality(Held)
<1>t. /\ kv \in [Req -> Nat] /\ free \in Int /\ isPrefill \in BOOLEAN
      /\ sq \in [Req -> SequenceState]
  BY DEF TypeOK
<1>1. ASSUME NEW r \in Req PROVE StepCost(r) \in Nat /\ kv[r] \in Nat
  <2>1. sq[r].chunk \in Nat BY <1>t, SequenceFields
  <2> QED BY <1>t, <2>1 DEF StepCost
<1>2. Held' = Held \cup Writes(S) /\ Held \cap Writes(S) = {}
  <2>1. ASSUME NEW t \in Tokens
        PROVE  /\ t \in Held' <=> t \in Held \/ t \in Writes(S)
               /\ ~(t \in Held /\ t \in Writes(S))
    <3>1. t[1] \in Req /\ t[2] \in Int BY DEF Tokens
    <3>2. kv'[t[1]] = IF t[1] \in S THEN kv[t[1]] + StepCost(t[1]) ELSE kv[t[1]]
      BY <3>1 DEF Allocate
    <3> QED BY <1>1, <3>1, <3>2 DEF Held, Writes
  <2>2. Held' \subseteq Tokens /\ Held \subseteq Tokens /\ Writes(S) \subseteq Tokens
    BY DEF Held, Writes, Tokens
  <2> QED BY <2>1, <2>2
<1>3. Cardinality(Held \cup Writes(S)) = Cardinality(Held) + Cardinality(Writes(S))
  <2> DEFINE W == Writes(S)
  <2>1. IsFiniteSet(Held) /\ IsFiniteSet(W) /\ Cardinality(Held) \in Nat /\ Cardinality(W) \in Nat
    BY AmountsType
  <2>2. Held \cap W = {} BY <1>2
  <2> HIDE DEF W
  <2>3. Cardinality(Held \cup W) =
          Cardinality(Held) + Cardinality(W) - Cardinality(Held \cap W)
    BY <2>1, FS_Union
  <2>4. Cardinality(Held \cap W) = 0 BY <2>2, FS_EmptySet
  <2>5. Cardinality(Held \cup W) = Cardinality(Held) + Cardinality(W)
    BY <2>1, <2>3, <2>4
  <2> QED BY <2>5 DEF W
<1>4. Cardinality(Held) \in Nat /\ Cardinality(Writes(S)) \in Nat BY AmountsType
<1>5. free' = free - Cardinality(Writes(S)) BY DEF Allocate
<1> QED BY <1>t, <1>2, <1>3, <1>4, <1>5

\* schedule() moves no slot.
LEMMA ScheduleKeepsLedger ==
  ASSUME Schedule
  PROVE  UNCHANGED <<free, kv>>
BY DEF Schedule, NoteWaiting, AcquireWindow, PreemptUnreserved, DrainUnreserved,
       BeginReserve, ScheduleAffinity, BeginSelection, PrefillSkip, PrefillDefer,
       PrefillTake, SchedulePrefill, NextBucket, PreemptSole, DecodeSkip, DecodeTake,
       DecodeBlock, ScheduleDecode, PreemptBlocked, DrainBlocked, ScheduleNothing,
       Preempt, DrainFirst

\* A release keeps the ledger balanced, even one that fails half-way.
LEMMA ReleasesKeepLedger ==
  ASSUME TypeOK, SlotLedger, NEW r \in Req, Released(r) \/ ReleaseFails(r)
  PROVE  SlotLedger'
<1>t. /\ kv \in [Req -> Nat] /\ window \in [Req -> Nat] /\ resident \subseteq Req
      /\ free \in Int
  BY DEF TypeOK
<1>1. CASE Release({r})
  <2>1. /\ free' \in Int /\ free <= free'
        /\ free' + Cardinality(Held)' = free + Cardinality(Held)
    BY <1>t, <1>1, ReleaseLedger
  <2> QED BY <1>t, <2>1 DEF SlotLedger
<1>2. CASE UNCHANGED <<window, free, kv, resident>>
  BY <1>2 DEF SlotLedger, Held
<1> QED BY <1>1, <1>2 DEF Released, ReleaseFails

\* A step moves no slot, releases a request, or allocates for what BatchFits
\* says is free.
LEMMA LedgerStep ==
  ASSUME TypeOK, SlotLedger, BatchFits, [Next]_vars
  PROVE  SlotLedger'
<1>t. /\ batch \in Seq(Req) /\ ending \in Seq(Req) /\ preempted \in Req \cup {NoReq}
      /\ free \in Int
  BY DEF TypeOK
<1>u. ASSUME UNCHANGED <<free, kv>> PROVE SlotLedger'
  BY <1>u DEF SlotLedger, Held
<1>1. ASSUME NEW r \in Req, AddRequest(r) PROVE SlotLedger'
  BY <1>1, <1>u DEF AddRequest
<1>2. ASSUME NEW r \in Req, AbortRequest(r) PROVE SlotLedger'
  BY <1>2, <1>u, ReleasesKeepLedger DEF AbortRequest
<1>3. ASSUME NEW r \in Req, WaitTimeout(r) PROVE SlotLedger'
  BY <1>3, <1>u DEF WaitTimeout
<1>4. CASE BeginStep BY <1>4, <1>u DEF BeginStep
<1>5. CASE RefuseStep BY <1>5, <1>u DEF RefuseStep
<1>6. CASE ScheduleStep BY <1>6, <1>u, ScheduleKeepsLedger DEF ScheduleStep
<1>7. CASE ReleasePreempted
  <2>1. preempted \in Req BY <1>t, <1>7 DEF ReleasePreempted
  <2> QED BY <1>7, <2>1, ReleasesKeepLedger DEF ReleasePreempted
<1>8. CASE RaiseNothingToRun BY <1>8, <1>u DEF RaiseNothingToRun
<1>9. CASE RunModel
  <2>1. ToSet(batch) \subseteq Req BY <1>t, ToSetType
  <2>2. Cardinality(Writes(ToSet(batch))) <= free BY <1>9 DEF RunModel, BatchFits
  <2>3. Cardinality(Writes(ToSet(batch))) \in Nat BY AmountsType
  <2> QED BY <1>t, <1>9, <2>1, <2>2, <2>3, AllocateLedger DEF RunModel, SlotLedger
<1>10. CASE RunFails
  <2>1. PICK k \in 0..Len(batch) : Allocate(ToSet(SubSeq(batch, 1, k)))
    BY <1>10 DEF RunFails
  <2> DEFINE part == SubSeq(batch, 1, k)
  <2>2. part \in Seq(Req) BY <1>t
  <2>3. ToSet(part) \subseteq ToSet(batch)
    BY <1>t DEF ToSet
  <2>4. ToSet(part) \subseteq Req BY <2>2, ToSetType
  <2> HIDE DEF part
  <2>5. Cardinality(Writes(ToSet(part))) <= Cardinality(Writes(ToSet(batch)))
    BY <2>3, WritesMonotonic
  <2>6. Cardinality(Writes(ToSet(batch))) <= free BY <1>10 DEF RunFails, BatchFits
  <2>7. /\ Cardinality(Writes(ToSet(batch))) \in Nat
        /\ Cardinality(Writes(ToSet(part))) \in Nat
    BY AmountsType
  <2>8. Allocate(ToSet(part)) BY <2>1 DEF part
  <2>9. /\ free' = free - Cardinality(Writes(ToSet(part)))
        /\ free' + Cardinality(Held)' = free + Cardinality(Held)
    BY <2>4, <2>8, AllocateLedger
  <2> QED BY <1>t, <2>5, <2>6, <2>7, <2>9 DEF SlotLedger
<1>11. CASE ReclaimOne
  <2>1. Head(ending) \in Req BY <1>t, <1>11 DEF ReclaimOne
  <2> QED BY <1>11, <2>1, ReleasesKeepLedger DEF ReclaimOne
<1>12. CASE PostprocessPrefill BY <1>12, <1>u DEF PostprocessPrefill
<1>13. CASE PostprocessDecode BY <1>13, <1>u DEF PostprocessDecode
<1>14. CASE ReleaseFinished
  <2>1. Head(ending) \in Req BY <1>t, <1>14 DEF ReleaseFinished
  <2> QED BY <1>14, <2>1, ReleasesKeepLedger DEF ReleaseFinished
<1>15. CASE EndStep BY <1>15, <1>u DEF EndStep
<1>16. CASE UNCHANGED vars BY <1>16, <1>u DEF vars, schedVars
<1> QED
  BY <1>1, <1>2, <1>3, <1>4, <1>5, <1>6, <1>7, <1>8, <1>9, <1>10, <1>11, <1>12,
     <1>13, <1>14, <1>15, <1>16
     DEF Next, EngineStep, Quiescent

-----------------------------------------------------------------------------
(* BatchFits.                                                              *)

\* A new engine has no batch.
LEMMA InitBatch == Init => BatchFits
BY DEF Init, SchedInit, BatchFits

\* Where no batch has been selected, whatever is free suffices.
LEMMA NoBatchFits ==
  ASSUME SlotLedger', TypeOK', batch' = <<>>, preempted' = NoReq \/ pc' = "scheduled",
         pc' \notin {"prefill", "decode"}
  PROVE  BatchFits'
<1>1. ToSet(batch') = {} BY DEF ToSet
<1>2. Cardinality(Writes(ToSet(batch)))' = 0
  <2>1. Writes(ToSet(batch))' = {} BY <1>1 DEF Writes
  <2> QED BY <2>1, FS_EmptySet
<1> QED BY <1>2 DEF BatchFits, SlotLedger

\* Outside a step's selection and its run nothing is asked of the batch.
LEMMA AfterRunFits ==
  ASSUME pc' = "post", preempted' = NoReq
  PROVE  BatchFits'
BY DEF BatchFits

\* A pass that starts with an empty batch and at most the free slots.
LEMMA PassStartFits ==
  ASSUME batch' = <<>>, preempted' = NoReq, pc' \in {"prefill", "decode"},
         isPrefill' = (pc' = "prefill"), scan'.room <= free', scan'.room \in Nat,
         pc' = "decode" => scan'.left <= Len(decoding')
  PROVE  BatchFits'
<1>1. Cardinality(Writes(ToSet(batch)))' = 0
  <2>1. ToSet(batch') = {} BY DEF ToSet
  <2>2. Writes(ToSet(batch))' = {} BY <2>1 DEF Writes
  <2> QED BY <2>2, FS_EmptySet
<1>2. Cardinality(Writes(ToSet(batch)))' + scan'.room <= free' BY <1>1
<1>3. pc' = "prefill" => isPrefill' OBVIOUS
<1>4. pc' = "decode" => ~isPrefill' OBVIOUS
<1> QED BY <1>2, <1>3, <1>4 DEF BatchFits

\* A pass that leaves the batch and its budget alone.
LEMMA PassContinuesFits ==
  ASSUME BatchFits, pc \in {"prefill", "decode"},
         UNCHANGED <<sq, kv, free, batch, isPrefill, preempted, pc>>,
         scan'.room = scan.room, scan'.failed = scan.failed,
         pc' = "decode" => scan'.left <= Len(decoding')
  PROVE  BatchFits'
<1>1. Writes(ToSet(batch))' = Writes(ToSet(batch)) BY DEF Writes, StepCost
<1>2. Cardinality(Writes(ToSet(batch)))' = Cardinality(Writes(ToSet(batch))) BY <1>1
<1>3. /\ Cardinality(Writes(ToSet(batch))) + scan.room <= free /\ preempted = NoReq
      /\ pc = "prefill" => isPrefill
      /\ pc = "decode" => ~isPrefill /\ (scan.failed # NoReq => batch = <<>>)
  BY DEF BatchFits
<1> QED BY <1>2, <1>3 DEF BatchFits

\* A pass that ends with a batch.
LEMMA PassEndsFits ==
  ASSUME TypeOK, BatchFits, pc \in {"prefill", "decode"},
         UNCHANGED <<sq, kv, free, batch, isPrefill, preempted>>, pc' = "scheduled"
  PROVE  BatchFits'
<1>1. Writes(ToSet(batch))' = Writes(ToSet(batch)) BY DEF Writes, StepCost
<1>2. /\ Cardinality(Writes(ToSet(batch))) + scan.room <= free
      /\ preempted = NoReq
  BY DEF BatchFits
<1>3. scan.room \in Nat /\ free \in Int /\ Cardinality(Writes(ToSet(batch))) \in Nat
  BY AmountsType, ScanFields DEF TypeOK
<1>4. Cardinality(Writes(ToSet(batch))) <= free BY <1>2, <1>3
<1> QED BY <1>1, <1>2, <1>4 DEF BatchFits

\* A request that is taken with n tokens uses n of the slots left.
LEMMA TakeFits ==
  ASSUME TypeOK, BatchFits, pc \in {"prefill", "decode"}, UNCHANGED <<kv, free>>,
         NEW r \in Req, NEW n \in Nat,
         batch' = Append(batch, r), isPrefill' = isPrefill,
         StepCost(r)' = n, \A q \in Req \ {r} : StepCost(q)' = StepCost(q)
  PROVE  Cardinality(Writes(ToSet(batch)))' + (scan.room - n) <= free
<1>t. batch \in Seq(Req) /\ kv \in [Req -> Nat] /\ scan \in ScanState /\ free \in Int
  BY DEF TypeOK
<1> DEFINE W == Writes(ToSet(batch))
           V == Writes(ToSet(batch))'
           a == kv[r]
<1>1. V \subseteq W \cup ({r} \X ((a + 1)..(a + n)))
  <2> SUFFICES ASSUME NEW t \in V PROVE t \in W \cup ({r} \X ((a + 1)..(a + n)))
    OBVIOUS
  <2>1. /\ t \in Tokens /\ t[1] \in ToSet(batch') /\ kv[t[1]] < t[2]
        /\ t[2] <= kv[t[1]] + StepCost(t[1])'
    BY DEF Writes, Tokens
  <2>2. t = <<t[1], t[2]>> /\ t[1] \in Req /\ t[2] \in Int BY <2>1 DEF Tokens
  <2>3. CASE t[1] = r
    <3>1. t[2] \in (a + 1)..(a + n) BY <1>t, <2>1, <2>2, <2>3
    <3> QED BY <2>2, <2>3, <3>1
  <2>4. CASE t[1] # r
    <3>1. t[1] \in ToSet(batch) BY <1>t, <2>1, <2>4 DEF ToSet
    <3>2. StepCost(t[1])' = StepCost(t[1]) BY <2>2, <2>4
    <3> QED BY <2>1, <3>1, <3>2 DEF Writes
  <2> QED BY <2>3, <2>4
<1>2. IsFiniteSet(W) /\ Cardinality(W) \in Nat BY AmountsType
<1>3. a \in Nat BY <1>t
<1> HIDE DEF a
<1>4. Cardinality(V) <= Cardinality(W) + n
  <2> HIDE DEF W, V
  <2> QED BY <1>1, <1>2, <1>3, AddedPositions
<1>5. Cardinality(W) + scan.room <= free BY DEF BatchFits
<1>6. scan.room \in Nat BY <1>t, ScanFields
<1>7. Cardinality(V) \in Nat
  <2>1. V \subseteq Tokens BY DEF Writes, Tokens
  <2> QED BY <2>1, AmountType
<1> HIDE DEF W, V
<1>8. Cardinality(V) + (scan.room - n) <= free BY <1>t, <1>2, <1>4, <1>5, <1>6, <1>7
<1> QED BY <1>8 DEF V

\* A decode batch writes one position per request.
LEMMA DecodeWritesFit ==
  ASSUME TypeOK', ~isPrefill'
  PROVE  Cardinality(Writes(ToSet(batch)))' <= Len(batch')
<1>t. batch' \in Seq(Req) /\ kv' \in [Req -> Nat] BY DEF TypeOK
<1> DEFINE V == Writes(ToSet(batch))'
           S == ToSet(batch')
<1>1. ASSUME NEW t \in V
      PROVE  /\ t[1] \in S /\ t[1] \in Req /\ t[2] \in Int /\ t = <<t[1], t[2]>>
             /\ kv'[t[1]] < t[2] /\ t[2] <= kv'[t[1]] + 1
  BY DEF Writes, Tokens, StepCost
<1>2. ASSUME NEW t \in V, NEW u \in V, t[1] = u[1] PROVE t = u
  <2>1. kv'[t[1]] \in Nat BY <1>t, <1>1
  <2>2. t[2] = u[2] BY <1>1, <1>2, <2>1
  <2> QED BY <1>1, <1>2, <2>2
<1>3. IsFiniteSet(S) /\ Cardinality(S) <= Len(batch') BY <1>t, ToSetType
<1>4. V \subseteq Tokens BY DEF Writes, Tokens
<1>5. IsFiniteSet(V) /\ Cardinality(V) \in Nat BY <1>4, AmountType
<1>6. \A t \in V : t[1] \in S BY <1>1
<1>7. Cardinality(S) \in Nat /\ Len(batch') \in Nat BY <1>t, <1>3, FS_CardinalityType
<1> HIDE DEF V, S
<1>8. Cardinality(V) <= Cardinality(S) BY <1>2, <1>3, <1>5, <1>6, OnePositionEach
<1>9. Cardinality(V) <= Len(batch') BY <1>3, <1>5, <1>7, <1>8
<1> QED BY <1>9 DEF V

\* The selection hands out only slots that are free and not yet handed out.
LEMMA ScheduleFits ==
  ASSUME TypeOK, TypeOK', SlotLedger, SlotLedger', BatchFits, ScheduleStep
  PROVE  BatchFits'
<1>t. /\ sq \in [Req -> SequenceState] /\ scan \in ScanState /\ free \in Int
      /\ kv \in [Req -> Nat] /\ waiting \in Seq(Req) /\ decoding \in Seq(Req)
      /\ batch \in Seq(Req) /\ isPrefill \in BOOLEAN
  BY DEF TypeOK
<1>f. UNCHANGED <<free, kv>> BY ScheduleKeepsLedger DEF ScheduleStep
<1>z. free >= 0 BY DEF SlotLedger
<1>1. ASSUME NEW r \in Req, NoteWaiting(r) PROVE BatchFits'
  BY <1>1, NoBatchFits DEF NoteWaiting, BatchFits
<1>2. ASSUME NEW r \in Req, AcquireWindow(r) PROVE BatchFits'
  BY <1>2, NoBatchFits DEF AcquireWindow, BatchFits
<1>3. ASSUME NEW v, Preempt(v), batch = <<>>, preempted = NoReq PROVE BatchFits'
  <2>1. /\ batch' = <<>> /\ pc' \in {"idle", "scheduled"}
        /\ preempted' = NoReq \/ pc' = "scheduled"
    BY <1>3 DEF Preempt
  <2> QED BY <2>1, NoBatchFits
<1>4. ASSUME DrainFirst, batch = <<>>, preempted = NoReq PROVE BatchFits'
  BY <1>4, NoBatchFits DEF DrainFirst
<1>5. CASE BeginReserve
  BY <1>5, NoBatchFits DEF BeginReserve, BatchFits
<1>6. CASE ScheduleAffinity
  <2>1. /\ pc = "reserve" /\ pc' = "scheduled" /\ isPrefill' = FALSE
        /\ preempted' = preempted
    BY <1>6 DEF ScheduleAffinity
  <2>2. preempted' = NoReq BY <2>1 DEF BatchFits
  <2>3. PICK b \in [1..AffinitySize -> LiveDecodes] : batch' = b
    BY <1>6 DEF ScheduleAffinity
  <2>4. AffinitySize \in Nat /\ AffinitySize <= free
    BY <1>t, <1>z, AffinitySizeType DEF Max0
  <2>5. LiveDecodes \subseteq Req BY <1>t, ToSetType DEF LiveDecodes
  <2>6. Len(batch') = AffinitySize BY <2>3, <2>4, <2>5, FunctionIsQueue
  <2>7. Cardinality(Writes(ToSet(batch)))' <= Len(batch') BY <2>1, DecodeWritesFit
  <2>8. Cardinality(Writes(ToSet(batch)))' \in Nat
    <3>1. Writes(ToSet(batch))' \subseteq Tokens BY DEF Writes, Tokens
    <3> QED BY <3>1, AmountType
  <2>9. Cardinality(Writes(ToSet(batch)))' <= free'
    BY <1>t, <1>f, <2>4, <2>6, <2>7, <2>8
  <2> QED BY <2>1, <2>2, <2>9 DEF BatchFits
<1>7. CASE BeginSelection
  <2>1. /\ batch' = <<>> /\ preempted' = NoReq /\ decoding' = decoding
    BY <1>7 DEF BeginSelection, BatchFits
  <2>2. isPrefill' = (pc' = "prefill") BY <1>7, Zenon DEF BeginSelection
  <2>3. StepFree \in Nat /\ StepFree <= free /\ Max0(free) = free
    BY <1>t, <1>z, AmountsType DEF StepFree, Max0
  <2>4. \/ pc' = "prefill" /\ scan'.room = StepFree
        \/ pc' = "decode" /\ scan'.room = Max0(free) /\ scan'.left = Len(decoding)
    BY <1>7, ZenonT(30) DEF BeginSelection, DecodeScan, NoScan
  <2>5. scan'.room \in Nat /\ scan'.room <= free'
    BY <1>t, <1>f, <1>z, <2>3, <2>4
  <2>6. pc' = "decode" => scan'.left <= Len(decoding') BY <1>t, <2>1, <2>4
  <2>7. pc' \in {"prefill", "decode"} BY <2>4
  <2> QED BY <2>1, <2>2, <2>5, <2>6, <2>7, PassStartFits
<1>8. CASE PrefillSkip
  <2>1. /\ pc = "prefill" /\ UNCHANGED <<sq, kv, free, batch, isPrefill, preempted, pc>>
        /\ scan'.room = scan.room /\ scan'.failed = scan.failed
    BY <1>t, <1>8 DEF PrefillSkip, Scanning, ScanState
  <2> QED BY <2>1, PassContinuesFits
<1>9. CASE PrefillDefer
  <2>1. /\ pc = "prefill" /\ UNCHANGED <<sq, kv, free, batch, isPrefill, preempted, pc>>
        /\ scan'.room = scan.room /\ scan'.failed = scan.failed
    BY <1>t, <1>9 DEF PrefillDefer, Scanning, ScanState
  <2> QED BY <2>1, PassContinuesFits
<1>10. CASE PrefillTake
  <2>1. /\ pc = "prefill" /\ waiting # <<>> /\ ChunkFor(Head(waiting)) > 0
    BY <1>10 DEF PrefillTake, Scanning, CanContinue
  <2>2. PICK r \in Req, n \in Nat : r = Head(waiting) /\ n = ChunkFor(r)
    <3>1. Head(waiting) \in Req BY <1>t, <2>1
    <3>2. ChunkFor(Head(waiting)) \in Nat BY <1>t, <2>1, <3>1, ChunkType
    <3> QED BY <3>1, <3>2
  <2>3. /\ sq' = [sq EXCEPT ![r].status = "RUNNING", ![r].chunk = n]
        /\ batch' = Append(batch, r)
        /\ UNCHANGED <<pc, isPrefill, preempted>>
    BY <1>10, <2>2 DEF PrefillTake
  <2>4. scan'.room = scan.room - n BY <1>t, <1>10, <2>2 DEF PrefillTake, ScanState
  <2>5. isPrefill /\ isPrefill' /\ preempted' = NoReq BY <2>1, <2>3 DEF BatchFits
  <2>6. sq'[r].chunk = n /\ \A q \in Req \ {r} : sq'[q] = sq[q]
    BY <1>t, <2>2, <2>3, SequenceFields DEF SequenceState
  <2>7. StepCost(r)' = n /\ \A q \in Req \ {r} : StepCost(q)' = StepCost(q)
    BY <2>5, <2>6 DEF StepCost
  <2>8. Cardinality(Writes(ToSet(batch)))' + (scan.room - n) <= free
    BY <1>f, <2>1, <2>2, <2>3, <2>7, TakeFits
  <2> QED BY <1>f, <2>1, <2>3, <2>4, <2>5, <2>8 DEF BatchFits
<1>11. CASE SchedulePrefill
  BY <1>11, PassEndsFits DEF SchedulePrefill, PrefillScanOver
<1>12. CASE NextBucket
  <2>1. /\ pc = "prefill" /\ batch' = <<>> /\ preempted' = NoReq /\ decoding' = decoding
    BY <1>12 DEF NextBucket, PrefillScanOver, BatchFits
  <2>2. \/ pc' = "prefill" /\ isPrefill' = isPrefill /\ scan'.room = scan.room
        \/ /\ pc' = "decode" /\ isPrefill' = FALSE
           /\ scan'.room = Max0(free) /\ scan'.left = Len(decoding)
    BY <1>t, <1>12, <2>1 DEF NextBucket, DecodeScan, ScanState
  <2>3. isPrefill BY <2>1 DEF BatchFits
  <2>4. isPrefill' = (pc' = "prefill") BY <1>t, <2>2, <2>3
  <2>5. Max0(free) = free /\ Len(decoding) \in Nat BY <1>t, <1>z DEF Max0
  <2>6. scan.room \in Nat /\ scan.room <= free
    <3>1. Cardinality(Writes(ToSet(batch))) + scan.room <= free BY <2>1 DEF BatchFits
    <3>2. Cardinality(Writes(ToSet(batch))) \in Nat /\ scan.room \in Nat
      BY <1>t, AmountsType, ScanFields
    <3> QED BY <1>t, <3>1, <3>2
  <2>7. scan'.room \in Nat /\ scan'.room <= free' BY <1>t, <1>f, <1>z, <2>2, <2>5, <2>6
  <2>8. pc' = "decode" => scan'.left <= Len(decoding') BY <2>1, <2>2, <2>5
  <2>9. pc' \in {"prefill", "decode"} BY <2>2
  <2> QED BY <2>1, <2>4, <2>7, <2>8, <2>9, PassStartFits
<1>13. CASE PreemptSole
  BY <1>3, <1>13 DEF PreemptSole, BatchFits
<1>14. CASE DecodeSkip
  <2>1. /\ pc = "decode" /\ UNCHANGED <<sq, kv, free, batch, isPrefill, preempted, pc>>
        /\ scan'.room = scan.room /\ scan'.failed = scan.failed
        /\ scan'.left = scan.left - 1 /\ scan.left > 0
        /\ decoding' = Append(Tail(decoding), Head(decoding))
    BY <1>t, <1>14 DEF DecodeSkip, DecodeScanning, ScanState
  <2>2. scan.left \in Nat /\ scan.left <= Len(decoding)
    BY <1>t, <2>1, ScanFields DEF BatchFits
  <2>3. decoding # <<>> BY <1>t, <2>1, <2>2
  <2>4. Len(decoding') = Len(decoding)
    BY <1>t, <2>1, <2>3, HeadTailProperties, AppendProperties
  <2>5. scan'.left <= Len(decoding') BY <1>t, <2>1, <2>2, <2>4
  <2> QED BY <2>1, <2>5, PassContinuesFits
<1>15. CASE DecodeTake
  <2>1. /\ pc = "decode" /\ scan.failed = NoReq /\ scan.left > 0
        /\ batch' = Append(batch, Head(decoding)) /\ decoding' = Tail(decoding)
        /\ scan'.left = scan.left - 1 /\ scan'.room = scan.room - 1
        /\ scan'.failed = scan.failed
        /\ UNCHANGED <<sq, pc, isPrefill, preempted>>
    BY <1>t, <1>15 DEF DecodeTake, DecodeScanning, ScanState
  <2>2. scan.left \in Nat /\ scan.left <= Len(decoding) /\ ~isPrefill /\ preempted = NoReq
    BY <1>t, <2>1, ScanFields DEF BatchFits
  <2>3. decoding # <<>> BY <1>t, <2>1, <2>2
  <2>4. PICK r \in Req : r = Head(decoding) /\ Len(Tail(decoding)) = Len(decoding) - 1
    BY <1>t, <2>3, HeadTailProperties
  <2>5. scan'.left <= Len(decoding') BY <1>t, <2>1, <2>2, <2>4
  <2>6. StepCost(r)' = 1 /\ \A q \in Req \ {r} : StepCost(q)' = StepCost(q)
    BY <2>1, <2>2 DEF StepCost
  <2>7. Cardinality(Writes(ToSet(batch)))' + (scan.room - 1) <= free
    BY <1>f, <2>1, <2>4, <2>6, TakeFits
  <2> QED BY <1>f, <2>1, <2>2, <2>5, <2>7 DEF BatchFits
<1>16. CASE DecodeBlock
  <2>1. /\ pc = "decode" /\ UNCHANGED <<sq, kv, free, batch, isPrefill, preempted, pc>>
        /\ scan'.room = scan.room /\ scan'.failed = scan.failed
        /\ scan'.left = scan.left /\ decoding' = decoding
    BY <1>t, <1>16 DEF DecodeBlock, DecodeScanning, ScanState
  <2>2. scan.left <= Len(decoding) BY <2>1 DEF BatchFits
  <2> QED BY <2>1, <2>2, PassContinuesFits
<1>17. CASE ScheduleDecode
  BY <1>17, PassEndsFits DEF ScheduleDecode, DecodeScanOver
<1>18. CASE PreemptBlocked
  BY <1>3, <1>18 DEF PreemptBlocked, DecodeScanOver, BatchFits
<1>19. CASE DrainBlocked
  BY <1>4, <1>19 DEF DrainBlocked, DecodeScanOver, BatchFits
<1>20. CASE ScheduleNothing
  <2>1. /\ batch' = <<>> /\ pc' \in {"idle", "scheduled", "drain"}
        /\ preempted' = NoReq
    BY <1>20 DEF ScheduleNothing, DecodeScanOver, BatchFits
  <2> QED BY <2>1, NoBatchFits
<1>21. ASSUME NEW r \in Req, PreemptUnreserved(r) PROVE BatchFits'
  BY <1>3, <1>21 DEF PreemptUnreserved, BatchFits
<1>22. ASSUME NEW r \in Req, DrainUnreserved(r) PROVE BatchFits'
  BY <1>4, <1>22 DEF DrainUnreserved, BatchFits
<1> QED
  BY <1>1, <1>2, <1>5, <1>6, <1>7, <1>8, <1>9, <1>10, <1>11, <1>12, <1>13, <1>14,
     <1>15, <1>16, <1>17, <1>18, <1>19, <1>20, <1>21, <1>22
     DEF ScheduleStep, Schedule

\* Every step of the engine keeps BatchFits.
LEMMA BatchStep ==
  ASSUME TypeOK, TypeOK', SlotLedger, SlotLedger', BatchFits, [Next]_vars
  PROVE  BatchFits'
<1>1. ASSUME NEW r \in Req, AddRequest(r) PROVE BatchFits'
  BY <1>1, NoBatchFits DEF AddRequest, BatchFits, outVars
<1>2. ASSUME NEW r \in Req, AbortRequest(r) PROVE BatchFits'
  <2>1. batch' = <<>> /\ preempted' = NoReq /\ pc' = "idle"
    BY <1>2 DEF AbortRequest, BatchFits
  <2> QED BY <2>1, NoBatchFits
<1>3. ASSUME NEW r \in Req, WaitTimeout(r) PROVE BatchFits'
  BY <1>3, NoBatchFits DEF WaitTimeout, BatchFits, outVars
<1>4. CASE BeginStep
  BY <1>4, NoBatchFits DEF BeginStep, BatchFits
<1>5. CASE RefuseStep
  BY <1>5, NoBatchFits DEF RefuseStep, BatchFits
<1>6. CASE ScheduleStep
  BY <1>6, ScheduleFits
<1>7. CASE ReleasePreempted
  <2>1. batch' = <<>> /\ preempted' = NoReq /\ pc' = "idle"
    BY <1>7 DEF ReleasePreempted, BatchFits
  <2> QED BY <2>1, NoBatchFits
<1>8. CASE RaiseNothingToRun
  BY <1>8, NoBatchFits DEF RaiseNothingToRun
<1>9. CASE RunModel
  <2>1. pc' = "post" /\ preempted' = NoReq BY <1>9 DEF RunModel, BatchFits, outVars
  <2> QED BY <2>1, AfterRunFits
<1>10. CASE RunFails
  <2>1. batch' = <<>> /\ preempted' = NoReq /\ pc' = "reclaim"
    BY <1>10 DEF RunFails, BatchFits
  <2> QED BY <2>1, NoBatchFits
<1>11. CASE ReclaimOne
  <2>1. batch' = <<>> /\ preempted' = NoReq /\ pc' \in {"idle", "reclaim"}
    BY <1>11 DEF ReclaimOne, BatchFits, outVars
  <2> QED BY <2>1, NoBatchFits
<1>12. CASE PostprocessPrefill
  <2>1. pc' = "post" /\ preempted' = NoReq
    BY <1>12 DEF PostprocessPrefill, BatchFits, outVars
  <2> QED BY <2>1, AfterRunFits
<1>13. CASE PostprocessDecode
  <2>1. pc' = "post" /\ preempted' = NoReq
    BY <1>13 DEF PostprocessDecode, BatchFits, outVars
  <2> QED BY <2>1, AfterRunFits
<1>14. CASE ReleaseFinished
  <2>1. /\ preempted' = NoReq
        /\ pc' = "post" \/ (pc' = "idle" /\ batch' = <<>>)
    BY <1>14 DEF ReleaseFinished, BatchFits, outVars
  <2> QED BY <2>1, AfterRunFits, NoBatchFits
<1>15. CASE EndStep
  <2>1. batch' = <<>> /\ preempted' = NoReq /\ pc' = "idle"
    BY <1>15 DEF EndStep, BatchFits
  <2> QED BY <2>1, NoBatchFits
<1>16. CASE UNCHANGED vars
  BY <1>16 DEF BatchFits, vars, schedVars, Writes, StepCost
<1> QED
  BY <1>1, <1>2, <1>3, <1>4, <1>5, <1>6, <1>7, <1>8, <1>9, <1>10, <1>11, <1>12,
     <1>13, <1>14, <1>15, <1>16
     DEF Next, EngineStep, Quiescent

-----------------------------------------------------------------------------
(* The theorems.                                                           *)

\* TypeOK alone is not inductive: a decode pass takes the head of decoding
\* because BatchFits says the queue is as long as the pass.  SlotLedger needs
\* BatchFits to know that a run finds its slots, and BatchFits needs SlotLedger
\* to know that what the budgets were computed from was there.
IInv == TypeOK /\ SlotLedger /\ BatchFits

\* IInv holds initially and every step keeps it.
LEMMA Inductive == Spec => []IInv
<1>1. Init => IInv BY InitType, InitLedger, InitBatch DEF IInv
<1>2. IInv /\ [Next]_vars => IInv'
  <2> SUFFICES ASSUME IInv, [Next]_vars PROVE IInv' OBVIOUS
  <2>1. TypeOK /\ SlotLedger /\ BatchFits BY DEF IInv
  <2>2. ScanFits BY <2>1 DEF BatchFits, ScanFits
  <2>3. TypeOK' BY <2>1, <2>2, TypeStep
  <2>4. SlotLedger' BY <2>1, LedgerStep
  <2>5. BatchFits' BY <2>1, <2>3, <2>4, BatchStep
  <2> QED BY <2>3, <2>4, <2>5 DEF IInv
<1> QED BY <1>1, <1>2, PTL DEF Spec

\* Every reachable state is well typed: in particular the budgets a step hands
\* out (room, slots) never go below zero.
THEOREM TypeCorrect == Spec => []TypeOK
<1>1. IInv => TypeOK BY DEF IInv
<1> QED BY <1>1, Inductive, PTL

\* The pool is never overdrawn and loses no slot, whatever is admitted,
\* preempted, aborted or fails half-way (_take_device_slots, free_seq).
THEOREM LedgerBalanced == Spec => []SlotLedger
<1>1. IInv => SlotLedger BY DEF IInv
<1> QED BY <1>1, Inductive, PTL

\* A batch that schedule() returns finds the slots it is going to allocate.
THEOREM SelectedBatchFits == Spec => []BatchFits
<1>1. IInv => BatchFits BY DEF IInv
<1> QED BY <1>1, Inductive, PTL
=============================================================================
