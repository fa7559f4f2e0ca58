--------------------------- MODULE TensorParallel ---------------------------
(***************************************************************************)
(* The commands rank 0 of a tensor parallel group broadcasts to its        *)
(* workers (engine/model_runner.py: call, write_shm, read_shm, loop and    *)
(* the status synchronisations) and the release of KV slots on every rank  *)
(* through them, with the marker that makes a retried release harmless on  *)
(* a rank where it already happened (_release_runtime_slots_once).         *)
(*                                                                         *)
(* A command goes through one shared buffer and an event per worker.  Rank *)
(* 0 then waits for the workers in one of three ways: for the read only    *)
(* ("ack"), for a status byte and a completion event of each worker        *)
(* ("host"), or in a collective of all ranks ("collective").               *)
(***************************************************************************)
EXTENDS Naturals, FiniteSets

CONSTANTS
  Leader,        \* attention TP rank 0
  Workers,       \* the other ranks
  Ids,           \* sequence ids
  Setups,        \* the configurations to consider, see setup
  SlowTimeouts,  \* a timeout may hit a worker that is alive
  MaxCalls,      \* bound on the commands of a behaviour
  MaxFailures    \* bound on exceptions and worker crashes

ASSUME TensorParallelAssumption ==
  /\ Leader \notin Workers /\ IsFiniteSet(Workers)
  /\ Setups \subseteq [async: BOOLEAN, graph: BOOLEAN] /\ SlowTimeouts \in BOOLEAN
  /\ MaxCalls \in Nat /\ MaxFailures \in Nat

VARIABLES
  setup,     \* async: submit_async and retire_async instead of run and
             \* free_slots; graph: run reports through the host status
  buffer,    \* the command in shared memory
  command,   \* command_event of each worker
  status,    \* status byte of each worker
  completed, \* completion_event of each worker
  meeting,   \* the collective: what each rank brought or got
  ld,        \* rank 0 inside call()
  wk,        \* each worker inside loop()
  st,        \* slots and release markers of each rank
  held,      \* ids the engine has given slots to
  owed,      \* _pending_slot_releases
  calls, failures

mailbox == <<buffer, command, status, completed>>
engine == <<held, owed>>
vars == <<setup, mailbox, meeting, ld, wk, st, engine, calls, failures>>

Ranks == Workers \cup {Leader}
Ops == {"run", "free_slots", "submit_async", "retire_async", "commit_slot_releases"}

\* n numbers the commands: it tells an answer from a late one and is read by
\* no action.
Command == [op: Ops, ids: SUBSET Ids, n: 0..2 * MaxCalls]
NoCommand == [op |-> "run", ids |-> {}, n |-> 0]

\* RECOVERABLE_TP_CONTROL_RPC_METHODS: a worker survives their exceptions.
Recoverable(op) == op = "free_slots"

\* How rank 0 waits for the workers: TP_RPC_STATUS_SYNC_METHODS and the
\* branches of call().
Kind(op) ==
  CASE op = "commit_slot_releases" -> "ack"
    [] op \in {"submit_async", "retire_async"} -> "host"
    [] op = "run" -> IF setup.graph THEN "host" ELSE "collective"
    [] op = "free_slots" -> "collective"

\* A rank keeps the ids with slots, the markers of _slot_release_states, and
\* (ghost) the ids whose free_seq raised half way.
RankState == [own: SUBSET Ids, mark: [Ids -> {"none", "released", "failed"}], torn: SUBSET Ids]

Init ==
  /\ setup \in Setups
  /\ buffer = NoCommand
  /\ command = [w \in Workers |-> FALSE]
  /\ status = [w \in Workers |-> "pending"]
  /\ completed = [w \in Workers |-> FALSE]
  /\ meeting = [k \in Ranks |-> "out"]
  /\ ld = [pc |-> "idle", cmd |-> NoCommand, err |-> FALSE, todo |-> {}]
  /\ wk = [w \in Workers |-> [pc |-> "wait", cmd |-> NoCommand, err |-> FALSE]]
  /\ st = [k \in Ranks |-> [own |-> {}, mark |-> [q \in Ids |-> "none"], torn |-> {}]]
  /\ held = {} /\ owed = {}
  /\ calls = 0 /\ failures = 0

TypeOK ==
  /\ buffer \in Command
  /\ command \in [Workers -> BOOLEAN] /\ completed \in [Workers -> BOOLEAN]
  /\ status \in [Workers -> {"pending", "success", "failed"}]
  /\ meeting \in [Ranks -> {"out", "ok", "error", "all ok", "some error"}]
  /\ ld \in [pc: {"idle", "ack", "local", "status", "meet", "met", "commit"},
             cmd: Command, err: BOOLEAN, todo: SUBSET Workers]
  /\ wk \in [Workers -> [pc: {"wait", "clear", "exec", "status", "complete", "meet", "met", "dead"},
                         cmd: Command, err: BOOLEAN]]
  /\ st \in [Ranks -> RankState]
  /\ held \subseteq Ids /\ owed \subseteq held
  /\ calls \in 0..2 * MaxCalls /\ failures \in 0..MaxFailures

Alive(w) == wk[w].pc # "dead"

-----------------------------------------------------------------------------
(* What a command does on one rank: the states it may end in.              *)

Allocated(s, ids) == [s EXCEPT !.own = @ \cup ids]

\* _release_runtime_slots_once where free_seq returns: ids already marked
\* released are skipped.
Freed(s, ids) ==
  LET todo == {q \in ids : s.mark[q] # "released"}
  IN  [s EXCEPT !.own = @ \ todo,
                !.mark = [q \in Ids |-> IF q \in todo THEN "released" ELSE @[q]]]

\* free_seq raised for q: its slots may or may not be back.
FreeRaised(s, q) ==
  {[t EXCEPT !.mark[q] = "failed", !.torn = @ \cup {q}] :
     t \in {s, [s EXCEPT !.own = @ \ {q}]}}

\* Mutant: the markers stay after the release has been reported.
StaysMarked(s, ids) == s

\* commit_slot_releases
Unmarked(s, ids) == [s EXCEPT !.mark = [q \in Ids |-> IF q \in ids THEN "none" ELSE @[q]]]

\* Mutant: a failed release is simply tried again.
NeverBlocked(s, ids) == FALSE

\* The refusal of _release_runtime_slots_once: an earlier release of one of
\* the ids failed on this rank.
Blocked(s, ids) == \E q \in ids : s.mark[q] = "failed"

\* The states in which the method returns.
Returns(s, c) ==
  CASE c.op \in {"run", "submit_async"} -> {Allocated(s, c.ids)}
    [] c.op \in {"free_slots", "retire_async"} ->
         IF Blocked(s, c.ids) THEN {} ELSE {Freed(s, c.ids)}
    [] c.op = "commit_slot_releases" -> {Unmarked(s, c.ids)}

\* The states in which it raises: before or after the allocation of a run;
\* before, between, inside or after the releases of a batch, or at the id
\* whose release failed earlier.
RaisesIn(s, c) ==
  CASE c.op \in {"run", "submit_async"} -> {s, Allocated(s, c.ids)}
    [] c.op \in {"free_slots", "retire_async"} ->
         LET open == {q \in c.ids : s.mark[q] # "failed"}
         IN  UNION {{Freed(s, done)} \cup
                    UNION {FreeRaised(Freed(s, done), q) : q \in {p \in open \ done : s.mark[p] = "none"}} :
                      done \in SUBSET open}
    [] c.op = "commit_slot_releases" -> {}

\* Rank k runs the method of command c; err tells whether it raised.  To be
\* refused is no new failure.
Execute(k, c, err) ==
  IF err
  THEN /\ \E t \in RaisesIn(st[k], c) : st' = [st EXCEPT ![k] = t]
       /\ IF c.op \in {"free_slots", "retire_async"} /\ Blocked(st[k], c.ids)
          THEN UNCHANGED failures
          ELSE failures < MaxFailures /\ failures' = failures + 1
  ELSE \E t \in Returns(st[k], c) : st' = [st EXCEPT ![k] = t] /\ UNCHANGED failures

-----------------------------------------------------------------------------
(* Rank 0.                                                                 *)

\* Mutant: the completion events of the previous command are left as they are.
WriteKeepsCompletions(c) ==
  /\ buffer' = c
  /\ command' = [w \in Workers |-> TRUE]
  /\ status' = [w \in Workers |-> "pending"]
  /\ UNCHANGED completed

\* write_shm up to its wait: the buffer, then the events of each worker.
Write(c) ==
  /\ buffer' = c
  /\ command' = [w \in Workers |-> TRUE]
  /\ status' = [w \in Workers |-> "pending"]
  /\ completed' = [w \in Workers |-> FALSE]

\* Mutant: no command waits for its read.
AfterWriteWithoutAck(op) == "local"

\* wait_for_read is set for the commands without a status synchronisation.
AfterWrite(op) == IF Kind(op) = "ack" THEN "ack" ELSE "local"

\* call() on rank 0 up to the end of write_shm.
Begin(op, ids) ==
  LET c == [op |-> op, ids |-> ids, n |-> calls + 1]
  IN  /\ calls' = calls + 1
      /\ Write(c)
      /\ ld' = [pc |-> AfterWrite(op), cmd |-> c, err |-> FALSE, todo |-> Workers]
      /\ UNCHANGED <<setup, meeting, wk, st, failures>>

\* The engine runs the first step of a request, which gives it slots (later
\* ones change no ownership).  It refuses to while a release is owed.
Run(q) ==
  /\ ld.pc = "idle" /\ calls < MaxCalls /\ owed = {} /\ q \notin held
  /\ Begin(IF setup.async THEN "submit_async" ELSE "run", {q})
  /\ held' = held \cup {q} /\ UNCHANGED owed

\* The engine releases the slots of finished, preempted or aborted requests:
\* one by one, or in asynchronous mode all that are ready, the ones whose
\* release failed included.
Release(ids) ==
  /\ ld.pc = "idle" /\ calls < MaxCalls /\ ids # {} /\ ids \subseteq held
  /\ IF setup.async THEN owed \subseteq ids ELSE Cardinality(ids) = 1
  /\ Begin(IF setup.async THEN "retire_async" ELSE "free_slots", ids)
  /\ owed' = owed \cup ids /\ UNCHANGED held

\* Mutant: a successful release stays on the list.
ReturnKeepsOwed(raised) ==
  /\ ld' = [ld EXCEPT !.pc = "idle", !.err = FALSE, !.todo = {}]
  /\ IF ~raised /\ ld.cmd.op \in {"free_slots", "commit_slot_releases"}
     THEN held' = held \ ld.cmd.ids /\ UNCHANGED owed
     ELSE UNCHANGED engine

\* The call returns to the engine, which takes a successful release off its
\* list and keeps one that raised.
Return(raised) ==
  /\ ld' = [ld EXCEPT !.pc = "idle", !.err = FALSE, !.todo = {}]
  /\ IF ~raised /\ ld.cmd.op \in {"free_slots", "commit_slot_releases"}
     THEN held' = held \ ld.cmd.ids /\ owed' = owed \ ld.cmd.ids
     ELSE UNCHANGED engine

\* Every command_event is clear again.
Acknowledged ==
  /\ ld.pc = "ack" /\ \A w \in Workers : ~command[w]
  /\ ld' = [ld EXCEPT !.pc = "local"]
  /\ UNCHANGED <<setup, mailbox, meeting, wk, st, engine, calls, failures>>

\* A wait for the given workers reaches its deadline: unless SlowTimeouts, only
\* because they are dead.
Expires(missing) == missing # {} /\ (SlowTimeouts \/ \A w \in missing : ~Alive(w))

\* The 30 seconds of write_shm are over.
AckTimeout ==
  /\ ld.pc = "ack" /\ Expires({w \in Workers : command[w]})
  /\ Return(TRUE)
  /\ UNCHANGED <<setup, mailbox, meeting, wk, st, calls, failures>>

\* Rank 0 runs the method itself.
LocalRun ==
  /\ ld.pc = "local"
  /\ \E err \in BOOLEAN :
       /\ Execute(Leader, ld.cmd, err)
       /\ IF Kind(ld.cmd.op) = "ack"
          THEN Return(FALSE)
          ELSE /\ ld' = [ld EXCEPT !.err = err,
                           !.pc = IF Kind(ld.cmd.op) = "host" THEN "status" ELSE "meet"]
               /\ UNCHANGED engine
  /\ UNCHANGED <<setup, mailbox, meeting, wk, calls>>

\* _sync_tp_host_status of rank 0 with the byte of one worker: an unknown
\* byte raises at once, a failure once every worker has been heard.
Collects(w) ==
  IF status[w] = "pending"
  THEN Return(TRUE)
  ELSE /\ ld' = [ld EXCEPT !.todo = @ \ {w}, !.err = @ \/ status[w] = "failed"]
       /\ UNCHANGED engine

HostCollect(w) ==
  /\ ld.pc = "status" /\ w \in ld.todo /\ completed[w]
  /\ completed' = [completed EXCEPT ![w] = FALSE]
  /\ Collects(w)
  /\ UNCHANGED <<setup, buffer, command, status, meeting, wk, st, calls, failures>>

\* Mutant: the completions are awaited without a deadline.
HostWaitsForever == FALSE

\* The 300 seconds of _sync_tp_host_status are over.
HostTimeout ==
  /\ ld.pc = "status" /\ Expires({w \in ld.todo : ~completed[w]})
  /\ Return(TRUE)
  /\ UNCHANGED <<setup, mailbox, meeting, wk, st, calls, failures>>

\* Every worker has been heard: raise, go on to the commit, or return.
HostDone ==
  /\ ld.pc = "status" /\ ld.todo = {}
  /\ IF ~ld.err /\ ld.cmd.op = "retire_async"
     THEN ld' = [ld EXCEPT !.pc = "commit"] /\ UNCHANGED engine
     ELSE Return(ld.err)
  /\ UNCHANGED <<setup, mailbox, meeting, wk, st, calls, failures>>

\* The commit_slot_releases rank 0 broadcasts at the end of retire_async.
Commit ==
  /\ ld.pc = "commit"
  /\ Begin("commit_slot_releases", ld.cmd.ids)
  /\ UNCHANGED engine

LeaderMeets ==
  /\ ld.pc = "meet"
  /\ meeting' = [meeting EXCEPT ![Leader] = IF ld.err THEN "error" ELSE "ok"]
  /\ ld' = [ld EXCEPT !.pc = "met"]
  /\ UNCHANGED <<setup, mailbox, wk, st, engine, calls, failures>>

\* The ranks that saw every rank succeed commit the release on the spot.
CommitsAfter(k, c, raised) ==
  st' = IF ~raised /\ c.op = "free_slots" THEN [st EXCEPT ![k] = Unmarked(@, c.ids)] ELSE st

LeaderLeaves ==
  /\ ld.pc = "met" /\ meeting[Leader] \in {"all ok", "some error"}
  /\ LET raised == meeting[Leader] = "some error"
     IN  Return(raised) /\ CommitsAfter(Leader, ld.cmd, raised)
  /\ meeting' = [meeting EXCEPT ![Leader] = "out"]
  /\ UNCHANGED <<setup, mailbox, wk, calls, failures>>

-----------------------------------------------------------------------------
(* The collective (torch.distributed): all_reduce(MAX) of the error flags. *)

\* A rank that died fails it for the others.
AllReduce ==
  /\ LET in == {k \in Ranks : meeting[k] \in {"ok", "error"}}
         dead == {w \in Workers : ~Alive(w)}
         failed == dead # {} \/ \E k \in in : meeting[k] = "error"
     IN  /\ in = Ranks \/ (in # {} /\ dead # {})
         /\ meeting' = [k \in Ranks |-> IF k \in in THEN IF failed THEN "some error" ELSE "all ok"
                                                    ELSE meeting[k]]
  /\ UNCHANGED <<setup, mailbox, ld, wk, st, engine, calls, failures>>

-----------------------------------------------------------------------------
(* A worker.                                                               *)

\* read_shm after its wait: the buffer is copied first,
Load(w) ==
  /\ wk[w].pc = "wait" /\ command[w]
  /\ wk' = [wk EXCEPT ![w] = [pc |-> "clear", cmd |-> buffer, err |-> FALSE]]
  /\ UNCHANGED <<setup, mailbox, meeting, ld, st, engine, calls, failures>>

\* then the event cleared.
Clear(w) ==
  /\ wk[w].pc = "clear"
  /\ command' = [command EXCEPT ![w] = FALSE]
  /\ wk' = [wk EXCEPT ![w].pc = "exec"]
  /\ UNCHANGED <<setup, buffer, status, completed, meeting, ld, st, engine, calls, failures>>

\* call() of a worker keeps the exception until the status is reported.
NextPc(op) ==
  CASE Kind(op) = "ack" -> "wait"
    [] Kind(op) = "host" -> "status"
    [] Kind(op) = "collective" -> "meet"

Exec(w) ==
  /\ wk[w].pc = "exec"
  /\ \E err \in BOOLEAN :
       /\ Execute(w, wk[w].cmd, err)
       /\ wk' = [wk EXCEPT ![w].err = err, ![w].pc = NextPc(wk[w].cmd.op)]
  /\ UNCHANGED <<setup, mailbox, meeting, ld, engine, calls>>

\* loop(): an exception ends the worker unless the method is recoverable.
Survives(w, raised) == IF raised /\ ~Recoverable(wk[w].cmd.op) THEN "dead" ELSE "wait"

\* _sync_tp_host_status of a worker: the byte, then the event.
SetStatus(w) ==
  /\ wk[w].pc = "status"
  /\ status' = [status EXCEPT ![w] = IF wk[w].err THEN "failed" ELSE "success"]
  /\ wk' = [wk EXCEPT ![w].pc = "complete"]
  /\ UNCHANGED <<setup, buffer, command, completed, meeting, ld, st, engine, calls, failures>>

Complete(w) ==
  /\ wk[w].pc = "complete"
  /\ completed' = [completed EXCEPT ![w] = TRUE]
  /\ wk' = [wk EXCEPT ![w].pc = Survives(w, wk[w].err)]
  /\ UNCHANGED <<setup, buffer, command, status, meeting, ld, st, engine, calls, failures>>

WorkerMeets(w) ==
  /\ wk[w].pc = "meet"
  /\ meeting' = [meeting EXCEPT ![w] = IF wk[w].err THEN "error" ELSE "ok"]
  /\ wk' = [wk EXCEPT ![w].pc = "met"]
  /\ UNCHANGED <<setup, mailbox, ld, st, engine, calls, failures>>

\* A worker raises when any rank failed.
WorkerLeaves(w) ==
  /\ wk[w].pc = "met" /\ meeting[w] \in {"all ok", "some error"}
  /\ LET raised == meeting[w] = "some error"
     IN  /\ wk' = [wk EXCEPT ![w].pc = Survives(w, raised)]
         /\ CommitsAfter(w, wk[w].cmd, raised)
  /\ meeting' = [meeting EXCEPT ![w] = "out"]
  /\ UNCHANGED <<setup, mailbox, ld, engine, calls, failures>>

\* The process of a worker ends at any moment.
Crash(w) ==
  /\ Alive(w) /\ failures < MaxFailures /\ failures' = failures + 1
  /\ wk' = [wk EXCEPT ![w].pc = "dead"]
  /\ meeting' = [meeting EXCEPT ![w] = "out"]
  /\ UNCHANGED <<setup, mailbox, ld, st, engine, calls>>

LeaderStep ==
  \/ Acknowledged \/ AckTimeout \/ LocalRun \/ HostTimeout \/ HostDone \/ Commit
  \/ \E w \in Workers : HostCollect(w)
  \/ LeaderMeets \/ LeaderLeaves

WorkerStep(w) ==
  Load(w) \/ Clear(w) \/ Exec(w) \/ SetStatus(w) \/ Complete(w) \/ WorkerMeets(w) \/ WorkerLeaves(w)

Next ==
  \/ \E q \in Ids : Run(q)
  \/ \E ids \in SUBSET Ids : Release(ids)
  \/ LeaderStep
  \/ AllReduce
  \/ \E w \in Workers : WorkerStep(w) \/ Crash(w)

Spec == Init /\ [][Next]_vars

\* The processes run, the timeouts fire and a collective with a dead member
\* fails.
FairSpec ==
  /\ Spec /\ WF_vars(LeaderStep) /\ WF_vars(AllReduce)
  /\ \A w \in Workers : WF_vars(WorkerStep(w))

-----------------------------------------------------------------------------
(* Properties.                                                             *)

\* Once the engine no longer counts the slots of an id as held, no living rank
\* has them, nor did a release of them break off half way on one: a retry of
\* _release_slots_transaction or _retire_ready never passes as success on a
\* rank where the outcome is unknown.
ReleasedEverywhere ==
  ld.pc = "idle" =>
    \A q \in Ids \ held : \A k \in Ranks :
      (k \in Workers => Alive(k)) => q \notin st[k].own \cup st[k].torn

\* A "released" marker never meets slots of its id: a preempted request that
\* runs again and is released again is not skipped by
\* _release_runtime_slots_once because of its first release.
CleanMarkers ==
  \A k \in Ranks : \A q \in st[k].own : st[k].mark[q] # "released"

\* "A status-synchronized RPC already waits for every worker before the shared
\* command buffer can be reused" (call), and so does one that waits for the
\* read: while every worker lives, rank 0 is not back in the engine before each
\* has copied its command.
BufferFree ==
  ld.pc = "idle" /\ (\A w \in Workers : Alive(w)) => \A w \in Workers : ~command[w]

\* A completion rank 0 is about to read in _sync_tp_host_status answers the
\* command it waits for, not an earlier one that timed out.
AnswersAreCurrent ==
  ld.pc = "status" => \A w \in ld.todo : completed[w] => wk[w].cmd.n = ld.cmd.n

\* Rank 0 comes back from every call, whatever fails and whoever dies.
CallReturns == ld.pc # "idle" ~> ld.pc = "idle"

\* A release is done when it is done on every rank, and its marker skips no
\* later one (_release_runtime_slots_once, commit_slot_releases).
ReleasesSound == TypeOK /\ ReleasedEverywhere /\ CleanMarkers

\* Commands and answers are paired: none is overwritten unread, none is taken
\* for another's (write_shm, _sync_tp_host_status).
CommandsPaired == BufferFree /\ AnswersAreCurrent

=============================================================================
