----------------------------- MODULE Dispatcher -----------------------------
(***************************************************************************)
(* AsyncEngineDispatcher (entrypoints/openai/dispatcher.py): the event     *)
(* loop of the HTTP server submits, cancels and discards requests and      *)
(* calls engine operations; one dispatcher thread owns the engine, admits, *)
(* steps and publishes.  They share the queues `pending`, `aborts` and     *)
(* `controls`, the flags of each RequestHandle and the state lock.         *)
(*                                                                         *)
(* The engine is external here: a request that was admitted is live until  *)
(* it is aborted or its last token was sampled (RequestService); with      *)
(* chain caching an ended turn leaves its chain behind, and the next turn  *)
(* of the chain reuses the sequence id.  A fault is any exception that     *)
(* reaches the dispatcher from the engine, a snapshot or a detokenizer.    *)
(***************************************************************************)
EXTENDS Naturals, Sequences, FiniteSets, SequencesExt

CONSTANTS
  Requests,      \* submissions; each has its own RequestHandle and token
  NoRequest,
  Previous,      \* the turn a request continues, or NoRequest
  Controls,      \* control() calls
  ChainMode,     \* prefix_cache_mode is "chain"
  MaxTokens,     \* tokens each request samples at most
  MaxFaults,     \* bound on the exceptions that stop the dispatcher
  FinishFaults   \* publishing a finished request may itself raise

ASSUME DispatcherAssumption ==
  /\ NoRequest \notin Requests /\ Requests \cap {"wakeup", "stop"} = {}
  /\ Previous \in [Requests -> Requests \cup {NoRequest}]
  /\ ChainMode \in BOOLEAN /\ FinishFaults \in BOOLEAN
  /\ MaxTokens \in [Requests -> Nat \ {0}] /\ MaxFaults \in Nat

VARIABLES
  hd,        \* RequestHandle of each request, and the events sent to it
  pending,   \* _pending: requests, wakeups and the final None
  aborts,    \* _aborts
  calls,     \* what each control() call has got
  controls,  \* _controls
  loop,      \* where the event loop stands inside a method that takes steps
  closing,   \* _closing
  failed,    \* _failed_message is set
  active,    \* active: sequence id -> request
  latest,    \* _latest_request_tokens: sequence id -> request
  eng,       \* external: the engine
  th,        \* where the dispatcher thread stands, with its locals
  faults

queues == <<pending, aborts, controls>>
flags == <<closing, failed>>
maps == <<active, latest>>
vars == <<hd, queues, calls, loop, flags, maps, eng, th, faults>>

In(method, r) == [at |-> method, of |-> r]
Free == In("free", NoRequest)
Waking == In("wake", NoRequest)

Wakeup == "wakeup"
Stop == "stop"

Handle == [client: {"new", "preparing", "abandoned", "submitted", "refused"},
           cancelled: BOOLEAN, terminal: BOOLEAN,
           seq: Requests \cup {NoRequest},          \* seq_id
           admission: {"none", "ok", "error"},      \* admission_future
           out: Seq({"token", "final", "error"}),   \* output_queue
           discard: {"no", "waiting", "ok", "error", "timeout"}]

NewHandle == [client |-> "new", cancelled |-> FALSE, terminal |-> FALSE,
              seq |-> NoRequest, admission |-> "none", out |-> <<>>, discard |-> "no"]

Abort == [of: Requests, force: BOOLEAN]

ThreadAt == {"controls1", "aborts1", "get", "fill", "admit", "engine", "recheck",
             "controls2", "aborts2", "step", "publish", "finish", "except",
             "failactive", "drain", "draincontrols", "drainaborts", "dead"}

NewEngine == [live |-> {}, kept |-> [s \in Requests |-> NoRequest], owed |-> {},
              made |-> [r \in Requests |-> 0]]

NewThread == [pc |-> "controls1", item |-> NoRequest, stopping |-> FALSE,
              changed |-> FALSE, tokens |-> {}, finished |-> {}]

Init ==
  /\ hd = [r \in Requests |-> NewHandle]
  /\ pending = <<>> /\ aborts = <<>> /\ controls = <<>>
  /\ calls = [c \in Controls |-> "new"]
  /\ loop = Free
  /\ closing = FALSE /\ failed = FALSE
  /\ active = [s \in Requests |-> NoRequest]
  /\ latest = [s \in Requests |-> NoRequest]
  /\ eng = NewEngine
  /\ th = NewThread
  /\ faults = 0

TypeOK ==
  /\ hd \in [Requests -> Handle]
  /\ pending \in Seq(Requests \cup {Wakeup, Stop})
  /\ aborts \in Seq(Abort)
  /\ calls \in [Controls -> {"new", "waiting", "ok", "error"}]
  /\ controls \in Seq(Controls)
  /\ loop \in [at: {"free", "wake", "cancel", "discard"}, of: Requests \cup {NoRequest}]
  /\ closing \in BOOLEAN /\ failed \in BOOLEAN
  /\ active \in [Requests -> Requests \cup {NoRequest}]
  /\ latest \in [Requests -> Requests \cup {NoRequest}]
  /\ eng \in [live: SUBSET Requests, owed: SUBSET Requests,
              kept: [Requests -> Requests \cup {NoRequest}], made: [Requests -> Nat]]
  /\ \A r \in Requests : eng.made[r] <= MaxTokens[r]
  /\ th \in [pc: ThreadAt, item: Requests \cup {NoRequest}, stopping: BOOLEAN, changed: BOOLEAN,
             tokens: SUBSET Requests, finished: SUBSET Requests]
  /\ faults \in 0..MaxFaults

-----------------------------------------------------------------------------
(* The engine, as the dispatcher calls it.                                 *)

Holder(s) == {r \in eng.live : hd[r].seq = s}

\* abort_request(seq_id): ends the request and drops the chain it would leave.
Aborted(s) == [eng EXCEPT !.live = @ \ Holder(s), !.kept[s] = NoRequest,
                          !.owed = @ \ {s}]

\* abort_request raised, before or after it took effect.  Without chains the
\* release stays owed, and admissions and steps are refused until it is done.
AbortRaised(s) ==
  LET owing == IF ChainMode THEN {} ELSE {s}
  IN  {[eng EXCEPT !.owed = @ \cup owing],
       [Aborted(s) EXCEPT !.owed = @ \cup owing]}

\* The chain a continuing turn resumes: its previous turn's, if that is idle.
Resumes(r) ==
  /\ Previous[r] # NoRequest
  /\ eng.kept[hd[Previous[r]].seq] = Previous[r]

Admissible(r) == eng.owed = {} /\ (Previous[r] = NoRequest \/ Resumes(r))

AdmittedSeq(r) == IF Resumes(r) THEN hd[Previous[r]].seq ELSE r

\* Who gets a token in a step, and who ends with it.
Outcome == [tokens: SUBSET eng.live, finished: SUBSET eng.live]

\* Mutant: a request is not ended by max_tokens.
StepsForEver ==
  {o \in Outcome : o.finished \subseteq o.tokens /\ (o.tokens = {} => eng.live = {})}

\* The ways one step can go.
StepOutcomes ==
  {o \in Outcome :
     /\ o.finished \subseteq o.tokens
     /\ o.tokens = {} => eng.live = {}
     /\ \A r \in o.tokens : eng.made[r] + 1 = MaxTokens[r] => r \in o.finished}

\* With chains an ended turn leaves its chain.
Stepped(t, f) ==
  [eng EXCEPT
    !.live = @ \ f,
    !.made = [r \in Requests |-> IF r \in t THEN @[r] + 1 ELSE @[r]],
    !.kept = [s \in Requests |->
      IF ChainMode /\ \E r \in f : hd[r].seq = s
      THEN CHOOSE r \in f : hd[r].seq = s ELSE @[s]]]

\* An exception leaves the dispatcher's loop.
Raises == faults < MaxFaults /\ faults' = faults + 1
Survives == UNCHANGED faults

-----------------------------------------------------------------------------
(* The event loop.                                                         *)

\* _terminal_message_locked
Unavailable == failed \/ closing \/ th.pc = "dead"

Refused(h) == [h EXCEPT !.client = "refused", !.terminal = TRUE,
                        !.admission = "error", !.out = Append(@, "error")]

\* submit up to the tokenizer, which one caller uses at a time.  A client
\* continues a chain once it was told of the previous turn's admission.
SubmitStarts(r) ==
  /\ loop = Free /\ hd[r].client = "new"
  /\ \A q \in Requests : hd[q].client # "preparing"
  /\ Previous[r] # NoRequest =>
       hd[Previous[r]].admission = "ok" /\ hd[Previous[r]].discard = "no"
  /\ hd' = [hd EXCEPT ![r] = IF Unavailable THEN Refused(@)
                             ELSE [@ EXCEPT !.client = "preparing"]]
  /\ UNCHANGED <<queues, calls, loop, flags, maps, eng, th, faults>>

\* Mutant: the availability is not checked again after the tokenizer.
SubmitWithoutRecheck(r) ==
  /\ loop = Free /\ hd[r].client = "preparing"
  /\ hd' = [hd EXCEPT ![r].client = "submitted"]
  /\ pending' = Append(pending, r)
  /\ UNCHANGED <<aborts, controls, calls, loop, flags, maps, eng, th, faults>>

\* submit after the tokenizer: checked again and queued under the lock.
SubmitQueues(r) ==
  /\ loop = Free /\ hd[r].client = "preparing"
  /\ IF Unavailable
     THEN hd' = [hd EXCEPT ![r] = Refused(@)] /\ UNCHANGED pending
     ELSE /\ hd' = [hd EXCEPT ![r].client = "submitted"]
          /\ pending' = Append(pending, r)
  /\ UNCHANGED <<aborts, controls, calls, loop, flags, maps, eng, th, faults>>

\* The submitting task is cancelled while the tokenizer runs.
SubmitAbandoned(r) ==
  /\ loop = Free /\ hd[r].client = "preparing"
  /\ hd' = [hd EXCEPT ![r].client = "abandoned"]
  /\ UNCHANGED <<queues, calls, loop, flags, maps, eng, th, faults>>

\* cancel: its caller is no longer interested in r.
CancelFlags(r) ==
  /\ loop = Free /\ hd[r].client = "submitted"
  /\ ~hd[r].cancelled /\ ~hd[r].terminal
  /\ hd' = [hd EXCEPT ![r].cancelled = TRUE]
  /\ loop' = In("cancel", r)
  /\ UNCHANGED <<queues, calls, flags, maps, eng, th, faults>>

CancelQueues(r) ==
  /\ loop = In("cancel", r)
  /\ IF hd[r].seq = NoRequest
     THEN loop' = Free /\ UNCHANGED aborts
     ELSE loop' = Waking /\ aborts' = Append(aborts, [of |-> r, force |-> FALSE])
  /\ UNCHANGED <<hd, pending, controls, calls, flags, maps, eng, th, faults>>

\* Mutant: nobody is woken.
NoWake ==
  /\ loop = Waking /\ loop' = Free
  /\ UNCHANGED <<hd, queues, calls, flags, maps, eng, th, faults>>

\* The put of _WAKEUP that follows the put of an abort or a control.
Wake ==
  /\ loop = Waking /\ loop' = Free
  /\ pending' = Append(pending, Wakeup)
  /\ UNCHANGED <<hd, aborts, controls, calls, flags, maps, eng, th, faults>>

\* discard, for the earlier prompts of an HTTP call whose later prompt failed;
\* nobody was told of their chains yet.
DiscardFlags(r) ==
  /\ loop = Free /\ hd[r].client = "submitted"
  /\ ~hd[r].cancelled /\ hd[r].discard = "no"
  /\ \A q \in Requests : Previous[q] = r => hd[q].client = "new"
  /\ hd' = [hd EXCEPT ![r].cancelled = TRUE, ![r].discard = "waiting"]
  /\ loop' = In("discard", r)
  /\ UNCHANGED <<queues, calls, flags, maps, eng, th, faults>>

DiscardQueues(r) ==
  /\ loop = In("discard", r)
  /\ IF hd[r].seq # NoRequest /\ ~Unavailable
     THEN /\ aborts' = Append(aborts, [of |-> r, force |-> TRUE])
          /\ loop' = Waking /\ UNCHANGED hd
     ELSE /\ hd' = [hd EXCEPT ![r].discard = IF hd[r].seq = NoRequest THEN "ok" ELSE "error"]
          /\ loop' = Free /\ UNCHANGED aborts
  /\ UNCHANGED <<pending, controls, calls, flags, maps, eng, th, faults>>

\* The 30 seconds of asyncio.wait_for are over; the abort stays queued.
DiscardTimeout(r) ==
  /\ loop = Free /\ hd[r].discard = "waiting"
  /\ hd' = [hd EXCEPT ![r].discard = "timeout"]
  /\ UNCHANGED <<queues, calls, loop, flags, maps, eng, th, faults>>

\* control
Control(c) ==
  /\ loop = Free /\ calls[c] = "new"
  /\ IF Unavailable
     THEN calls' = [calls EXCEPT ![c] = "error"] /\ UNCHANGED <<controls, loop>>
     ELSE /\ calls' = [calls EXCEPT ![c] = "waiting"]
          /\ controls' = Append(controls, c) /\ loop' = Waking
  /\ UNCHANGED <<hd, pending, aborts, flags, maps, eng, th, faults>>

\* close, up to the join of the thread.
Close ==
  /\ loop = Free /\ ~closing
  /\ closing' = TRUE /\ pending' = Append(pending, Stop)
  /\ UNCHANGED <<hd, aborts, controls, calls, loop, failed, maps, eng, th, faults>>

EventLoop ==
  \/ \E r \in Requests :
       \/ SubmitStarts(r) \/ SubmitQueues(r) \/ SubmitAbandoned(r)
       \/ CancelFlags(r) \/ CancelQueues(r)
       \/ DiscardFlags(r) \/ DiscardQueues(r) \/ DiscardTimeout(r)
  \/ \E c \in Controls : Control(c)
  \/ Wake \/ Close

-----------------------------------------------------------------------------
(* The dispatcher thread.                                                  *)

At(l) == th.pc = l
Goto(l) == th' = [th EXCEPT !.pc = l]

\* The head of `while not stopping`.
Top == IF th.stopping THEN "failactive" ELSE "controls1"

Idle == \A s \in Requests : active[s] = NoRequest

Fatal == Raises /\ Goto("except")

\* _drain_controls at its two places in the loop, one call at a
\* time.  An operation that raises is answered; a snapshot that raises is
\* answered and ends the thread.
DrainControl(l, next) ==
  /\ At(l)
  /\ \/ controls = <<>> /\ Goto(next) /\ Survives /\ UNCHANGED <<controls, calls>>
     \/ /\ controls # <<>> /\ controls' = Tail(controls)
        /\ \E answer \in IF closing THEN {"error"} ELSE {"ok", "error"} :
             calls' = [calls EXCEPT ![Head(controls)] = answer]
        /\ UNCHANGED th /\ Survives
     \/ /\ controls # <<>> /\ ~closing /\ controls' = Tail(controls)
        /\ calls' = [calls EXCEPT ![Head(controls)] = "error"]
        /\ Fatal
  /\ UNCHANGED <<hd, pending, aborts, loop, flags, maps, eng>>

\* run_pending_prefix_prune raises.
PruneRaises ==
  /\ At("aborts1") /\ Fatal
  /\ UNCHANGED <<hd, queues, calls, loop, flags, maps, eng>>

Ended(h, event) == [h EXCEPT !.terminal = TRUE, !.out = Append(@, event)]

\* _resolve_abort: only a discard waits for an answer.
Answered(h, a, result) ==
  [h EXCEPT !.discard = IF a.force /\ @ = "waiting" THEN result ELSE @]

\* _mark_request_terminal, the token map's part
Forget(s, r) == IF latest[s] = r THEN [latest EXCEPT ![s] = NoRequest] ELSE latest

\* Mutant: aborts of requests that have ended are carried out.
NeverLate(a) == FALSE

\* An abort for a request that has ended is not carried out.
IsLate(a) == hd[a.of].terminal /\ ~a.force

\* The sequence id went to a newer turn since the abort was queued.
IsStale(a) ==
  LET s == hd[a.of].seq
  IN  \/ latest[s] # NoRequest /\ latest[s] # a.of
      \/ active[s] # NoRequest /\ active[s] # a.of

\* The abort of a request that is active: it leaves the engine, then `active`.
AbortActive(a, s) ==
  \/ /\ eng' = Aborted(s)
     /\ active' = [active EXCEPT ![s] = NoRequest]
     /\ latest' = Forget(s, active[s])
     /\ LET ended == [hd EXCEPT ![active[s]].terminal = TRUE]
        IN  hd' = [ended EXCEPT ![a.of] = Answered(@, a, "ok")]
     /\ th' = [th EXCEPT !.changed = TRUE] /\ Survives
  \/ /\ eng' \in AbortRaised(s)
     /\ hd' = [hd EXCEPT ![a.of] = Answered(@, a, "error")]
     /\ Fatal /\ UNCHANGED maps

\* Mutant: only the caller hears of the discard.
DiscardOnlyAnswers(a, s) ==
  /\ hd' = [hd EXCEPT ![a.of] = Answered(@, a, "ok")]
  /\ UNCHANGED <<eng, th, faults, maps>>

\* The discard of a request that ended: discard_chain, which may raise.
DiscardEnded(a, s) ==
  /\ \/ /\ eng' = [eng EXCEPT !.kept[s] = NoRequest]
        /\ hd' = [hd EXCEPT ![a.of] = Answered(@, a, "ok")]
        /\ th' = [th EXCEPT !.changed = @ \/ eng.kept[s] # NoRequest]
     \/ ChainMode /\ hd' = [hd EXCEPT ![a.of] = Answered(@, a, "error")] /\ UNCHANGED <<eng, th>>
  /\ Survives /\ UNCHANGED maps

\* Any other abort of a request that is not active.
AbortInactive(a, s) ==
  /\ eng' = Aborted(s)
  /\ latest' = Forget(s, a.of)
  /\ hd' = [hd EXCEPT ![a.of].terminal = TRUE]
  /\ th' = [th EXCEPT !.changed = TRUE]
  /\ Survives /\ UNCHANGED active

\* One turn of _drain_aborts.
DrainAbort ==
  /\ At("aborts1") \/ At("aborts2")
  /\ aborts # <<>> /\ aborts' = Tail(aborts)
  /\ LET a == Head(aborts)
         s == hd[a.of].seq
     IN  IF IsLate(a) THEN UNCHANGED <<hd, maps, eng, th, faults>>
         ELSE IF IsStale(a)
         THEN /\ hd' = [hd EXCEPT ![a.of] = Answered([@ EXCEPT !.terminal = TRUE], a, "ok")]
              /\ UNCHANGED <<maps, eng, th, faults>>
         ELSE IF active[s] # NoRequest THEN AbortActive(a, s)
         ELSE IF a.force THEN DiscardEnded(a, s) ELSE AbortInactive(a, s)
  /\ UNCHANGED <<pending, controls, calls, loop, flags>>

\* _drain_aborts is done; the snapshots are refreshed if it changed anything,
\* and at the second place in any case.
AbortsDrained ==
  /\ aborts = <<>>
  /\ \/ /\ At("aborts1") /\ Survives
        /\ th' = [th EXCEPT !.pc = IF Idle THEN "get" ELSE "fill", !.changed = FALSE]
     \/ /\ At("aborts2") /\ Survives
        /\ th' = [th EXCEPT !.pc = IF Idle THEN Top ELSE "step", !.changed = FALSE]
     \/ (At("aborts2") \/ th.changed) /\ (At("aborts1") \/ At("aborts2")) /\ Fatal
  /\ UNCHANGED <<hd, queues, calls, loop, flags, maps, eng>>

\* _pending.get, which blocks while nothing is active, and the get_nowait loop.
TakeFrom(item) ==
  th' = [th EXCEPT
    !.pc = IF item \in Requests THEN "admit"
           ELSE IF At("fill") THEN "fill"
           ELSE IF item = Stop THEN "failactive" ELSE "controls1",
    !.item = IF item \in Requests THEN item ELSE @,
    !.stopping = @ \/ (At("fill") /\ item = Stop)]

Take ==
  /\ At("get") \/ At("fill")
  /\ pending # <<>> /\ pending' = Tail(pending)
  /\ TakeFrom(Head(pending))
  /\ UNCHANGED <<hd, aborts, controls, calls, loop, flags, maps, eng, faults>>

NothingMore ==
  /\ At("fill") /\ pending = <<>> /\ Goto("controls2")
  /\ UNCHANGED <<hd, queues, calls, loop, flags, maps, eng, faults>>

\* The end of an admission; the loop goes on with the next item.
Admitted == th' = [th EXCEPT !.pc = "fill", !.item = NoRequest]

\* _admit: refused because it was cancelled, or the server is closing.
AdmitRefuses ==
  /\ At("admit")
  /\ IF hd[th.item].cancelled
     THEN hd' = [hd EXCEPT ![th.item].terminal = TRUE, ![th.item].admission = "error"]
     ELSE closing /\ hd' = [hd EXCEPT ![th.item] = [Ended(@, "error") EXCEPT !.admission = "error"]]
  /\ Admitted
  /\ UNCHANGED <<queues, calls, loop, flags, maps, eng, faults>>

AdmitStarts ==
  /\ At("admit") /\ ~hd[th.item].cancelled /\ ~closing /\ Goto("engine")
  /\ UNCHANGED <<hd, queues, calls, loop, flags, maps, eng, faults>>

\* admit_request: the sequence id is in the handle, where cancel() reads it.
\* It raises on a bad prompt, a chain that is gone or busy, or an owed release.
EngineAdmits ==
  /\ At("engine")
  /\ LET r == th.item
     IN  \/ /\ Admissible(r)
            /\ hd' = [hd EXCEPT ![r].seq = AdmittedSeq(r)]
            /\ eng' = [eng EXCEPT !.live = @ \cup {r}, !.kept[AdmittedSeq(r)] = NoRequest]
            /\ Goto("recheck")
         \/ /\ hd' = [hd EXCEPT ![r] = [Ended(@, "error") EXCEPT !.admission = "error"]]
            /\ Admitted /\ UNCHANGED eng
  /\ UNCHANGED <<queues, calls, loop, flags, maps, faults>>

\* The exception handler of _admit, after the engine has the request: it is
\* aborted, and an abort that raises is only logged.
AdmitUndone(r) ==
  /\ hd' = [hd EXCEPT ![r] = [Ended(@, "error") EXCEPT !.admission = "error"]]
  /\ latest' = Forget(hd[r].seq, r)
  /\ \/ eng' = Aborted(hd[r].seq) /\ Survives
     \/ eng' \in AbortRaised(hd[r].seq) /\ Raises
  /\ Admitted /\ UNCHANGED active

\* Mutant: no second look at the cancelled flag.
AdmitTrusts ==
  /\ At("recheck")
  /\ LET r == th.item
         s == hd[r].seq
     IN  /\ active' = [active EXCEPT ![s] = r]
         /\ latest' = [latest EXCEPT ![s] = r]
         /\ hd' = [hd EXCEPT ![r].admission = "ok"]
         /\ Admitted /\ Survives /\ UNCHANGED eng
  /\ UNCHANGED <<queues, calls, loop, flags>>

\* Mutant: a request found cancelled stays in the engine.
AdmitForgetsEngine ==
  /\ At("recheck")
  /\ LET r == th.item
         s == hd[r].seq
     IN  IF hd[r].cancelled
         THEN /\ hd' = [hd EXCEPT ![r].terminal = TRUE, ![r].admission = "error"]
              /\ Admitted /\ Survives /\ UNCHANGED <<maps, eng>>
         ELSE /\ active' = [active EXCEPT ![s] = r]
              /\ latest' = [latest EXCEPT ![s] = r]
              /\ hd' = [hd EXCEPT ![r].admission = "ok"]
              /\ Admitted /\ Survives /\ UNCHANGED eng
  /\ UNCHANGED <<queues, calls, loop, flags>>

\* _admit once the sequence id is visible: the cancelled flag is read again.
AdmitEnds ==
  /\ At("recheck")
  /\ LET r == th.item
         s == hd[r].seq
     IN  \/ /\ hd[r].cancelled
            /\ eng' = Aborted(s)
            /\ hd' = [hd EXCEPT ![r].terminal = TRUE, ![r].admission = "error"]
            /\ Admitted /\ Survives /\ UNCHANGED maps
         \/ /\ ~hd[r].cancelled
            /\ active' = [active EXCEPT ![s] = r]
            /\ latest' = [latest EXCEPT ![s] = r]
            /\ hd' = [hd EXCEPT ![r].admission = "ok"]
            /\ Admitted /\ Survives /\ UNCHANGED eng
         \/ AdmitUndone(r)
  /\ UNCHANGED <<queues, calls, loop, flags>>

\* engine.step() between two refreshes of the snapshots.
Step ==
  /\ At("step") /\ eng.owed = {}
  /\ \E o \in StepOutcomes :
       /\ eng' = Stepped(o.tokens, o.finished)
       /\ th' = [th EXCEPT !.pc = "publish", !.tokens = o.tokens, !.finished = o.finished]
  /\ UNCHANGED <<hd, queues, calls, loop, flags, maps, faults>>

StepRaises ==
  /\ At("step")
  /\ \/ eng.owed # {} /\ Survives /\ Goto("except") /\ UNCHANGED eng
     \/ Fatal /\ UNCHANGED eng
     \/ Fatal /\ \E o \in StepOutcomes : eng' = Stepped(o.tokens, o.finished)
  /\ UNCHANGED <<hd, queues, calls, loop, flags, maps>>

\* Mutant: a request that hit a stop string stays active.
LeavesNothing(r) ==
  /\ hd' = [hd EXCEPT ![r] = Ended(@, "final")]
  /\ UNCHANGED maps

\* A request leaves `active` with its final event.
Leaves(r) ==
  /\ hd' = [hd EXCEPT ![r] = Ended(@, "final")]
  /\ active' = [active EXCEPT ![hd[r].seq] = NoRequest]
  /\ latest' = Forget(hd[r].seq, r)

\* One turn of _publish_token_deltas: nothing for a request that is no longer
\* active, a token event, or the end at a stop string, for which the engine is
\* told to abort the request.
PublishToken(r) ==
  /\ At("publish") /\ r \in th.tokens
  /\ \/ /\ active[hd[r].seq] # r
        /\ th' = [th EXCEPT !.tokens = @ \ {r}] /\ Survives /\ UNCHANGED <<hd, maps, eng>>
     \/ /\ active[hd[r].seq] = r
        /\ hd' = [hd EXCEPT ![r].out = Append(@, "token")]
        /\ th' = [th EXCEPT !.tokens = @ \ {r}] /\ Survives /\ UNCHANGED <<maps, eng>>
     \/ /\ active[hd[r].seq] = r
        /\ eng' = Aborted(hd[r].seq) /\ Leaves(r)
        /\ th' = [th EXCEPT !.tokens = @ \ {r}] /\ Survives
     \/ /\ active[hd[r].seq] = r
        /\ Fatal /\ eng' \in {eng, Aborted(hd[r].seq)} \cup AbortRaised(hd[r].seq)
        /\ UNCHANGED <<hd, maps>>
  /\ UNCHANGED <<queues, calls, loop, flags>>

TokensPublished ==
  /\ At("publish") /\ th.tokens = {} /\ Goto("finish")
  /\ UNCHANGED <<hd, queues, calls, loop, flags, maps, eng, faults>>

\* One turn of _publish_finished.  The last tokens may complete a stop string,
\* which invalidates the chain.  An exception before active.pop leaves the
\* request to _fail_active_requests; one after it (FinishFaults) does not.
PublishFinished(r) ==
  /\ At("finish") /\ r \in th.finished
  /\ \/ /\ active[hd[r].seq] # r
        /\ th' = [th EXCEPT !.finished = @ \ {r}] /\ Survives /\ UNCHANGED <<hd, maps, eng>>
     \/ /\ active[hd[r].seq] = r
        /\ eng' \in {eng} \cup (IF ChainMode THEN {Aborted(hd[r].seq)} ELSE {})
        /\ Leaves(r)
        /\ th' = [th EXCEPT !.finished = @ \ {r}] /\ Survives
     \/ active[hd[r].seq] = r /\ Fatal /\ UNCHANGED <<hd, maps, eng>>
     \/ /\ active[hd[r].seq] = r /\ FinishFaults
        /\ active' = [active EXCEPT ![hd[r].seq] = NoRequest]
        /\ eng' \in {eng} \cup (IF ChainMode THEN AbortRaised(hd[r].seq) ELSE {})
        /\ Fatal /\ UNCHANGED <<hd, latest>>
  /\ UNCHANGED <<queues, calls, loop, flags>>

FinishedPublished ==
  /\ At("finish") /\ th.finished = {} /\ Goto(Top)
  /\ UNCHANGED <<hd, queues, calls, loop, flags, maps, eng, faults>>

-----------------------------------------------------------------------------
(* The end of the thread.                                                  *)

\* The except clause: from here on nothing more is queued.
MarkFailed ==
  /\ At("except") /\ failed' = TRUE /\ Goto("failactive")
  /\ UNCHANGED <<hd, queues, calls, loop, closing, maps, eng, faults>>

\* _fail_active_requests, one request at a time; an abort that raises is
\* logged.
FailActive(s) ==
  /\ At("failactive") /\ active[s] # NoRequest
  /\ hd' = [hd EXCEPT ![active[s]] = Ended(@, "error")]
  /\ active' = [active EXCEPT ![s] = NoRequest]
  /\ latest' = Forget(s, active[s])
  /\ \/ eng' = Aborted(s) /\ Survives
     \/ eng' \in AbortRaised(s) /\ Raises
  /\ UNCHANGED <<queues, calls, loop, flags, th>>

ActiveFailed ==
  /\ At("failactive") /\ Idle /\ Goto("drain")
  /\ UNCHANGED <<hd, queues, calls, loop, flags, maps, eng, faults>>

\* _drain_queued_requests
DrainQueued ==
  /\ At("drain")
  /\ IF pending = <<>>
     THEN Goto("draincontrols") /\ UNCHANGED <<hd, pending>>
     ELSE /\ pending' = Tail(pending) /\ UNCHANGED th
          /\ hd' = IF Head(pending) \notin Requests THEN hd
                   ELSE [hd EXCEPT ![Head(pending)] =
                          [Ended(@, "error") EXCEPT !.admission = "error"]]
  /\ UNCHANGED <<aborts, controls, calls, loop, flags, maps, eng, faults>>

\* Mutant: queued control calls are left unanswered.
ForgetQueuedControls ==
  /\ At("draincontrols") /\ Goto("drainaborts")
  /\ UNCHANGED <<hd, queues, calls, loop, flags, maps, eng, faults>>

DrainQueuedControls ==
  /\ At("draincontrols")
  /\ IF controls = <<>>
     THEN Goto("drainaborts") /\ UNCHANGED <<controls, calls>>
     ELSE /\ controls' = Tail(controls) /\ UNCHANGED th
          /\ calls' = [calls EXCEPT ![Head(controls)] = "error"]
  /\ UNCHANGED <<hd, pending, aborts, loop, flags, maps, eng, faults>>

\* _fail_pending_aborts
FailPendingAborts ==
  /\ At("drainaborts")
  /\ IF aborts = <<>>
     THEN Goto("dead") /\ UNCHANGED <<hd, aborts>>
     ELSE /\ aborts' = Tail(aborts) /\ UNCHANGED th
          /\ LET a == Head(aborts)
             IN  hd' = [hd EXCEPT ![a.of] = Answered([@ EXCEPT !.terminal = TRUE], a, "error")]
  /\ UNCHANGED <<pending, controls, calls, loop, flags, maps, eng, faults>>

Thread ==
  \/ DrainControl("controls1", "aborts1") \/ DrainControl("controls2", "aborts2")
  \/ PruneRaises \/ DrainAbort \/ AbortsDrained
  \/ Take \/ NothingMore
  \/ AdmitRefuses \/ AdmitStarts \/ EngineAdmits \/ AdmitEnds
  \/ Step \/ StepRaises
  \/ \E r \in Requests : PublishToken(r) \/ PublishFinished(r) \/ FailActive(r)
  \/ TokensPublished \/ FinishedPublished
  \/ MarkFailed \/ ActiveFailed \/ DrainQueued \/ DrainQueuedControls \/ FailPendingAborts

\* The thread waits for work, or has ended, and nobody waits for it.
Resting ==
  /\ At("dead") \/ (At("get") /\ pending = <<>>)
  /\ loop = Free
  /\ \A r \in Requests : hd[r].client # "preparing" /\ hd[r].discard # "waiting"
  /\ \A c \in Controls : calls[c] # "waiting"
  /\ UNCHANGED vars

Next == EventLoop \/ Thread \/ Resting

\* The thread keeps running, and a method of the event loop that has begun
\* goes on.  Clients, the discard timeout and close() are under no obligation.
Fairness ==
  /\ WF_vars(Thread)
  /\ WF_vars(Wake \/ \E r \in Requests : CancelQueues(r) \/ DiscardQueues(r))
  /\ WF_vars(\E r \in Requests : SubmitQueues(r))

Spec == Init /\ [][Next]_vars /\ Fairness

-----------------------------------------------------------------------------
(* Properties.                                                             *)

\* What a client receives ends with one final or error event: whatever
\* publishing, aborting, failing and draining do, there is never a second
\* ending and never a token after it.
AnsweredOnce ==
  \A r \in Requests : \A i \in 1..(Len(hd[r].out) - 1) : hd[r].out[i] = "token"

\* cancel() and _admit run in different threads: once cancel() has returned,
\* a request it found unfinished is not left running without an abort on its
\* way, however the flag, the sequence id and their reads interleaved.  (A
\* discard that was refused has told its caller.)
CancelsArrive ==
  \A r \in Requests :
    (/\ hd[r].cancelled /\ hd[r].discard # "error"
     /\ loop \notin {In("cancel", r), In("discard", r)}
     /\ \E s \in Requests : active[s] = r
     /\ ~failed /\ th.pc # "except")
    => \E i \in DOMAIN aborts : aborts[i].of = r

\* Whenever the loop starts again, what the engine runs is exactly what the
\* dispatcher tracks: no request computes for nobody, none is waited for that
\* the engine does not know.  (An abort that raised leaves its request behind.)
EngineMatchesActive ==
  (th.pc \in {"controls1", "get"} /\ faults = 0) =>
    {r \in Requests : \E s \in Requests : active[s] = r} = eng.live

\* An abort that was queued for one turn of a chain does not end another turn,
\* and a cancel that comes too late does not take the chain the turn left.
AbortsHitTheirTarget ==
  [][(th.pc \in {"aborts1", "aborts2"} /\ aborts # <<>> /\ aborts' # aborts /\ th'.pc = th.pc) =>
       LET a == Head(aborts)
       IN  /\ \A r \in eng.live \ eng'.live : r = a.of
           /\ \A s \in Requests : eng'.kept[s] # eng.kept[s] =>
                a.force /\ eng.kept[s] = a.of]_vars

\* A discard that reported success has left nothing of its request behind:
\* neither a running sequence nor a chain.
DiscardedIsGone ==
  \A r \in Requests :
    (hd[r].discard = "ok" /\ hd[r].terminal /\ faults = 0) =>
      r \notin eng.live /\ \A s \in Requests : eng.kept[s] # r

\* Clients that still wait for an ending.
Waiting ==
  {r \in Requests :
     /\ hd[r].client = "submitted" /\ ~hd[r].cancelled
     /\ hd[r].admission = "none" \/ hd[r].out = <<>> \/ Last(hd[r].out) = "token"}

\* Once the thread has ended no client is left waiting for the end of its
\* request, whatever was queued, active or being published when it ended.
NobodyLeftWaiting == th.pc = "dead" => Waiting = {}

\* Once the thread has ended everybody has been answered, whatever was queued,
\* active or being admitted: clients, discards and control calls, except the
\* one request whose publication raised after active.pop.
AtMostOneStranded ==
  th.pc = "dead" =>
    /\ Waiting \subseteq th.finished /\ Cardinality(Waiting) <= 1
    /\ \A r \in Requests : hd[r].discard = "waiting" => loop = In("discard", r)
    /\ \A c \in Controls : calls[c] # "waiting"

\* Every submitted request is answered with an ending, unless it is cancelled
\* or among those the thread was publishing when it failed.
EveryRequestAnswered ==
  \A r \in Requests :
    hd[r].client = "submitted" ~>
      \/ hd[r].cancelled \/ (failed /\ r \in th.finished)
      \/ hd[r].out # <<>> /\ Last(hd[r].out) # "token"

\* Every discard and every control call gets an answer from the thread.
EveryCallAnswered ==
  /\ \A r \in Requests : hd[r].discard = "waiting" ~> hd[r].discard # "waiting"
  /\ \A c \in Controls : calls[c] = "waiting" ~> calls[c] # "waiting"

\* The engine holds what the dispatcher tracks, and nothing of what it reported
\* as discarded.
EngineFollows == TypeOK /\ EngineMatchesActive /\ DiscardedIsGone

\* One answer each: never two, and when the thread has ended none is missing but
\* that of the request it was publishing.
OneAnswerEach == AnsweredOnce /\ AtMostOneStranded

\* Requests, discards and control calls are all answered in the end.
EveryoneAnswered == EveryRequestAnswered /\ EveryCallAnswered

=============================================================================
