------------------------ MODULE TensorParallelProofs ------------------------
(***************************************************************************)
(* Proofs about TensorParallel, for any number of workers, ids, calls and  *)
(* failures, where a timeout hits only workers that are dead.              *)
(*                                                                         *)
(* The protocol (Protocol) is about who has read and finished which        *)
(* command.  While it is intact every living worker is Tight: the place of *)
(* rank 0 tells how far the worker may be.  A death may tear a collective  *)
(* apart (Broken); from then on every collective fails.                    *)
(*                                                                         *)
(* The slots (Slots) then follow the command through the ranks: what a     *)
(* rank has freed, what it still has to unmark, and what it may still run. *)
(***************************************************************************)
EXTENDS TensorParallel, TLAPS

Frees == {"free_slots", "retire_async"}
Runs == {"run", "submit_async"}

\* The commands of a setup.
SetupOps == IF setup.async THEN {"submit_async", "retire_async", "commit_slot_releases"}
                           ELSE {"run", "free_slots"}

Reduced == {"all ok", "some error"}

-----------------------------------------------------------------------------
(* The protocol.                                                           *)

LeaderOK ==
  /\ setup \in Setups
  /\ buffer = ld.cmd /\ ld.cmd.n = calls
  /\ calls <= MaxCalls + 1 /\ (calls # 0 => MaxCalls # 0 /\ ld.cmd.op \in SetupOps)
  /\ ld.pc # "idle" => calls # 0 /\ (ld.cmd.op # "commit_slot_releases" => calls <= MaxCalls)
  /\ ld.pc # "idle" /\ ld.cmd.op \in Frees => ld.cmd.ids # {} /\ ld.cmd.ids \subseteq owed
  /\ ld.pc = "ack" => ld.cmd.op = "commit_slot_releases"
  /\ ld.pc = "commit" => ld.cmd.op = "retire_async"
  /\ ld.pc = "status" => Kind(ld.cmd.op) = "host"
  /\ ld.pc \in {"meet", "met"} => Kind(ld.cmd.op) = "collective"
  /\ ld.pc \in {"ack", "local"} => ~ld.err /\ ld.todo = Workers
  /\ ld.pc = "met" <=> meeting[Leader] # "out"
  /\ meeting[Leader] = "ok" => ~ld.err

WorkerOK(w) ==
  /\ command[w] => calls # 0
  /\ wk[w].pc \notin {"wait", "dead"} => wk[w].cmd.op \in SetupOps
  /\ wk[w].pc \in {"status", "complete"} => Kind(wk[w].cmd.op) = "host"
  /\ wk[w].pc \in {"meet", "met"} => Kind(wk[w].cmd.op) = "collective"
  /\ wk[w].pc = "met" <=> meeting[w] # "out"
  /\ meeting[w] = "ok" => ~wk[w].err

\* A worker died and a collective may have been left by some ranks while
\* others were on their way to it.  Nothing but collectives follows.
Broken ==
  /\ \E w \in Workers : ~Alive(w)
  /\ ~setup.async /\ meeting[Leader] # "all ok"
  /\ setup.graph => owed # {} /\ ld.cmd.op = "free_slots"

\* w has the current command before it, or is inside it.
Working(w) ==
  \/ wk[w].pc = "wait" /\ command[w]
  \/ wk[w].pc = "clear" /\ command[w] /\ wk[w].cmd = ld.cmd
  \/ wk[w].pc = "exec" /\ ~command[w] /\ wk[w].cmd = ld.cmd
  \/ wk[w].pc = "status" /\ ~command[w] /\ wk[w].cmd = ld.cmd
  \/ /\ wk[w].pc = "complete" /\ ~command[w] /\ wk[w].cmd = ld.cmd
     /\ status[w] = IF wk[w].err THEN "failed" ELSE "success"
  \/ wk[w].pc = "meet" /\ ~command[w] /\ wk[w].cmd = ld.cmd
  \/ wk[w].pc = "met" /\ ~command[w] /\ wk[w].cmd = ld.cmd /\ meeting[w] \notin Reduced

\* w has finished it, but for leaving the collective.
Done(w) ==
  /\ ~command[w] /\ wk[w].cmd = ld.cmd
  /\ wk[w].pc = "wait" \/ (wk[w].pc = "met" /\ meeting[w] \in Reduced)

\* w has read a commit and not yet carried it out.
Acked(w) ==
  ~command[w] /\ wk[w].cmd = ld.cmd /\ wk[w].pc = "exec" /\ ld.cmd.op = "commit_slot_releases"

\* w has still to leave the previous command.
Lagging(w) ==
  /\ command[w]
  /\ \/ wk[w].pc = "exec" /\ wk[w].cmd.op = "commit_slot_releases"
     \/ wk[w].pc = "met" /\ meeting[w] \in Reduced

Tight(w) ==
  /\ ld.pc = "idle" => Done(w) \/ Acked(w)
  /\ ld.pc = "ack" => Working(w) \/ Done(w)
  /\ ld.pc = "commit" => Done(w)
  /\ ld.pc = "meet" => Working(w) \/ Lagging(w)
  /\ ld.pc = "met" /\ meeting[Leader] \in Reduced =>
       Done(w) /\ (wk[w].pc = "met" => meeting[w] = meeting[Leader])
  /\ ld.pc = "met" /\ meeting[Leader] \notin Reduced => Working(w) \/ Lagging(w)
  /\ ld.pc = "local" /\ Kind(ld.cmd.op) = "ack" => Done(w) \/ Acked(w)
  /\ ld.pc = "local" /\ Kind(ld.cmd.op) = "collective" => Working(w) \/ Lagging(w)
  /\ ld.pc \in {"local", "status"} /\ Kind(ld.cmd.op) = "host" =>
       IF w \in ld.todo /\ ~completed[w] THEN Working(w) \/ Lagging(w) ELSE Done(w)

\* A completion rank 0 has not read is one of its command.
Answer(w) ==
  ld.pc \in {"local", "status"} /\ Kind(ld.cmd.op) = "host" /\ w \in ld.todo /\ completed[w]
  => wk[w].cmd = ld.cmd /\ status[w] # "pending"

Protocol ==
  /\ LeaderOK
  /\ \A w \in Workers : WorkerOK(w) /\ Answer(w) /\ (Alive(w) => Broken \/ Tight(w))

-----------------------------------------------------------------------------
(* The slots.                                                              *)

Living(k) == k \in Workers => Alive(k)
Has(k, q) == q \in st[k].own \cup st[k].torn

\* What w is about to unmark.
Unmarks(w) ==
  IF \/ wk[w].pc \in {"clear", "exec"} /\ wk[w].cmd.op = "commit_slot_releases"
     \/ wk[w].pc = "met" /\ meeting[w] = "all ok" /\ wk[w].cmd.op = "free_slots"
  THEN wk[w].cmd.ids ELSE {}

\* k may still carry out a run of q.
RunAhead(k, q) ==
  \/ k = Leader /\ ld.pc = "local" /\ ld.cmd.op \in Runs /\ q \in ld.cmd.ids
  \/ k \in Workers /\ command[k] /\ ld.cmd.op \in Runs /\ q \in ld.cmd.ids
  \/ k \in Workers /\ wk[k].pc \in {"clear", "exec"} /\ wk[k].cmd.op \in Runs /\ q \in wk[k].cmd.ids

\* k has released the ids and remembers it.
FreedOn(k, ids) == \A q \in ids : ~Has(k, q) /\ st[k].mark[q] = "released"

\* The same, and it may have forgotten it.
Clean(k, ids) == \A q \in ids : ~Has(k, q)

RankOK(k, q) ==
  /\ q \notin held => ~Has(k, q)
  /\ st[k].mark[q] # "none" => q \in held \/ (k \in Workers /\ q \in Unmarks(k))
  /\ q \in st[k].torn => st[k].mark[q] = "failed"
  /\ k \in Workers /\ q \in Unmarks(k) => ~Has(k, q)
  /\ RunAhead(k, q) => q \in held /\ (st[k].mark[q] = "none" \/ (k \in Workers /\ q \in Unmarks(k)))

\* A worker that has a release before it is one the engine waits for.
Owing(w) ==
  /\ wk[w].pc \in {"clear", "exec"} /\ wk[w].cmd.op \in Frees =>
       wk[w].cmd.ids # {} /\ wk[w].cmd.ids \subseteq owed /\ ld.cmd.op \notin Runs
  /\ command[w] /\ ld.cmd.op \in Frees => ld.cmd.ids # {} /\ ld.cmd.ids \subseteq owed

\* A release that returned on a worker.
WorkerFreed(w) ==
  /\ wk[w].cmd.op \in Frees /\ ~wk[w].err
     /\ (wk[w].pc \in {"status", "complete", "meet"} \/ meeting[w] = "ok")
     => FreedOn(w, wk[w].cmd.ids)
  /\ /\ ld.cmd.op = "retire_async" /\ ld.pc \in {"local", "status"}
     /\ (w \in ld.todo /\ completed[w] /\ status[w] = "success") \/ (w \notin ld.todo /\ ~ld.err)
     => FreedOn(w, ld.cmd.ids)

\* A release that returned on rank 0.
LeaderFreed ==
  ld.cmd.op \in Frees /\ ~ld.err /\ ld.pc \in {"status", "meet", "met"} /\ meeting[Leader] # "some error"
  => FreedOn(Leader, ld.cmd.ids)

\* A release that is about to be reported to the engine.
Reported(k) ==
  /\ ld.pc = "commit" => FreedOn(k, ld.cmd.ids)
  /\ ld.cmd.op = "commit_slot_releases" /\ ld.pc \in {"ack", "local"} =>
       /\ Clean(k, ld.cmd.ids)
       /\ k \in Workers /\ Done(k) => \A q \in ld.cmd.ids : st[k].mark[q] = "none"
  /\ ld.cmd.op = "free_slots" /\ meeting[Leader] = "all ok" =>
       /\ Clean(k, ld.cmd.ids)
       /\ k \in Workers /\ wk[k].pc = "wait" => \A q \in ld.cmd.ids : st[k].mark[q] = "none"

Slots ==
  /\ \A k \in Ranks : Living(k) => Reported(k) /\ \A q \in Ids : RankOK(k, q)
  /\ \A w \in Workers : Alive(w) => Owing(w) /\ WorkerFreed(w)
  /\ LeaderFreed
  /\ CleanMarkers

IInv == TypeOK /\ Protocol /\ Slots

-----------------------------------------------------------------------------
(* Types.                                                                  *)

\* The fields of what a release that raised leaves.
LEMMA FreeRaisedFields ==
  ASSUME NEW s \in RankState, NEW q \in Ids, NEW t \in FreeRaised(s, q)
  PROVE  /\ t \in RankState /\ t.own \subseteq s.own
         /\ t.mark = [s.mark EXCEPT ![q] = "failed"] /\ t.torn = s.torn \cup {q}
<1>1. PICK u \in {s, [s EXCEPT !.own = @ \ {q}]} : t = [u EXCEPT !.mark[q] = "failed", !.torn = @ \cup {q}]
  BY DEF FreeRaised
<1>2. u \in RankState /\ u.own \subseteq s.own /\ u.mark = s.mark /\ u.torn = s.torn BY DEF RankState
<1>3. t = [own |-> u.own, mark |-> [u.mark EXCEPT ![q] = "failed"], torn |-> u.torn \cup {q}]
  BY <1>1, <1>2 DEF RankState
<1> QED BY <1>2, <1>3 DEF RankState

LEMMA RankUpdates ==
  ASSUME NEW s \in RankState, NEW ids \in SUBSET Ids
  PROVE  Allocated(s, ids) \in RankState /\ Freed(s, ids) \in RankState /\ Unmarked(s, ids) \in RankState
BY DEF Allocated, Freed, Unmarked, RankState

\* What a command leaves of the state of a rank is one again.
LEMMA ExecuteType ==
  ASSUME NEW k \in Ranks, NEW c \in Command, NEW err \in BOOLEAN, TypeOK, Execute(k, c, err)
  PROVE  st' \in [Ranks -> RankState] /\ failures' \in 0..MaxFailures
<1>t. st \in [Ranks -> RankState] /\ failures \in 0..MaxFailures /\ c.ids \subseteq Ids BY DEF TypeOK, Command
<1>s. st[k] \in RankState BY <1>t
<1>2. ASSUME NEW s \in RankState, NEW q \in Ids, NEW t \in FreeRaised(s, q) PROVE t \in RankState
  BY FreeRaisedFields
<1>3. ASSUME NEW t \in Returns(st[k], c) PROVE t \in RankState
  BY <1>3, <1>s, <1>t, RankUpdates DEF Returns, Command, Ops
<1>4. ASSUME NEW t \in RaisesIn(st[k], c) PROVE t \in RankState
  <2>1. CASE c.op \in Runs BY <2>1, <1>4, <1>s, <1>t, RankUpdates DEF RaisesIn, Runs
  <2>2. CASE c.op \in Frees
    <3> DEFINE open == {q \in c.ids : st[k].mark[q] # "failed"}
    <3>1. PICK done \in SUBSET open :
            t \in {Freed(st[k], done)} \cup
                  UNION {FreeRaised(Freed(st[k], done), q) : q \in {p \in open \ done : st[k].mark[p] = "none"}}
      BY <2>2, <1>4 DEF RaisesIn, Frees
    <3>2. Freed(st[k], done) \in RankState BY RankUpdates, <1>s, <1>t
    <3> QED BY <3>1, <3>2, <1>2, <1>t
  <2>3. CASE c.op = "commit_slot_releases" BY <2>3, <1>4 DEF RaisesIn
  <2> QED BY <2>1, <2>2, <2>3 DEF Command, Ops, Runs, Frees
<1> QED BY <1>t, <1>3, <1>4, TensorParallelAssumption DEF Execute

\* The counters as numbers.
LEMMA Counters ==
  ASSUME TypeOK
  PROVE  /\ calls \in Nat /\ calls <= 2 * MaxCalls /\ MaxCalls \in Nat
         /\ failures \in Nat /\ failures <= MaxFailures /\ MaxFailures \in Nat
<1>1. MaxCalls \in Nat /\ MaxFailures \in Nat BY TensorParallelAssumption
<1>2. 2 * MaxCalls \in Nat BY <1>1
<1>3. calls \in 0..2 * MaxCalls /\ failures \in 0..MaxFailures BY DEF TypeOK
<1> QED BY <1>1, <1>2, <1>3

\* A call begins: a command of the right number in the buffer.
LEMMA BeginType ==
  ASSUME TypeOK, NEW op \in Ops, NEW ids \in SUBSET Ids, calls + 1 <= 2 * MaxCalls, Begin(op, ids)
  PROVE  /\ buffer' \in Command /\ command' \in [Workers -> BOOLEAN] /\ completed' \in [Workers -> BOOLEAN]
         /\ status' \in [Workers -> {"pending", "success", "failed"}]
         /\ ld' \in [pc: {"idle", "ack", "local", "status", "meet", "met", "commit"},
                     cmd: Command, err: BOOLEAN, todo: SUBSET Workers]
         /\ calls' \in 0..2 * MaxCalls
<1>1. calls \in Nat /\ MaxCalls \in Nat BY Counters
<1>2. [op |-> op, ids |-> ids, n |-> calls + 1] \in Command BY <1>1 DEF Command
<1>3. AfterWrite(op) \in {"ack", "local"} BY DEF AfterWrite
<1> QED BY <1>1, <1>2, <1>3 DEF Begin, Write

LEMMA TypeStep ==
  ASSUME TypeOK, LeaderOK, [Next]_vars
  PROVE  TypeOK'
<1>t. /\ MaxCalls \in Nat /\ MaxFailures \in Nat /\ Leader \in Ranks /\ Workers \subseteq Ranks
  BY TensorParallelAssumption DEF Ranks
<1>1. ASSUME NEW q \in Ids, Run(q) PROVE TypeOK'
  <2>1. PICK op \in Ops : Begin(op, {q}) BY <1>1 DEF Run, Ops
  <2>2. calls + 1 <= 2 * MaxCalls BY <1>1, Counters DEF Run
  <2>3. {q} \in SUBSET Ids OBVIOUS
  <2> QED BY <1>1, <2>1, <2>2, <2>3, BeginType DEF Run, Begin, TypeOK
<1>2. ASSUME NEW ids \in SUBSET Ids, Release(ids) PROVE TypeOK'
  <2>1. PICK op \in Ops : Begin(op, ids) BY <1>2 DEF Release, Ops
  <2>2. calls + 1 <= 2 * MaxCalls BY <1>2, Counters DEF Release
  <2> QED BY <1>2, <2>1, <2>2, BeginType DEF Release, Begin, TypeOK
<1>3. CASE Commit
  <2>1. Begin("commit_slot_releases", ld.cmd.ids) /\ "commit_slot_releases" \in Ops BY <1>3 DEF Commit, Ops
  <2>2. ld.cmd.ids \in SUBSET Ids BY DEF TypeOK, Command
  <2>3. calls + 1 <= 2 * MaxCalls BY <1>3, Counters DEF Commit, LeaderOK
  <2> QED BY <1>3, <2>1, <2>2, <2>3, BeginType DEF Commit, Begin, TypeOK, engine
<1>4. CASE Acknowledged BY <1>4 DEF Acknowledged, TypeOK, mailbox, engine
<1>r. ASSUME NEW raised \in BOOLEAN, Return(raised)
      PROVE  /\ ld' \in [pc: {"idle", "ack", "local", "status", "meet", "met", "commit"},
                         cmd: Command, err: BOOLEAN, todo: SUBSET Workers]
             /\ held' \subseteq Ids /\ owed' \subseteq held'
  BY <1>r DEF Return, TypeOK, engine
<1>5. CASE AckTimeout BY <1>5, <1>r DEF AckTimeout, TypeOK, mailbox
<1>6. CASE LocalRun
  <2>1. PICK err \in BOOLEAN :
          /\ Execute(Leader, ld.cmd, err)
          /\ IF Kind(ld.cmd.op) = "ack" THEN Return(FALSE)
             ELSE /\ ld' = [ld EXCEPT !.err = err, !.pc = IF Kind(ld.cmd.op) = "host" THEN "status" ELSE "meet"]
                  /\ UNCHANGED engine
    BY <1>6 DEF LocalRun
  <2>2. ld.cmd \in Command BY DEF TypeOK
  <2>3. st' \in [Ranks -> RankState] /\ failures' \in 0..MaxFailures BY <2>1, <2>2, <1>t, ExecuteType
  <2>4. CASE Kind(ld.cmd.op) = "ack" BY <1>6, <2>1, <2>3, <2>4, <1>r DEF LocalRun, TypeOK, mailbox
  <2>5. CASE Kind(ld.cmd.op) # "ack" BY <1>6, <2>1, <2>3, <2>5 DEF LocalRun, TypeOK, mailbox, engine
  <2> QED BY <2>4, <2>5
<1>7. CASE HostTimeout BY <1>7, <1>r DEF HostTimeout, TypeOK, mailbox
<1>8. CASE HostDone
  <2>1. ld.err \in BOOLEAN BY DEF TypeOK
  <2>2. CASE ~ld.err /\ ld.cmd.op = "retire_async" BY <1>8, <2>2 DEF HostDone, TypeOK, mailbox, engine
  <2>3. CASE ~(~ld.err /\ ld.cmd.op = "retire_async") BY <1>8, <2>1, <2>3, <1>r DEF HostDone, TypeOK, mailbox
  <2> QED BY <2>2, <2>3
<1>9. ASSUME NEW w \in Workers, HostCollect(w) PROVE TypeOK'
  <2>1. CASE status[w] = "pending" BY <1>9, <2>1, <1>r DEF HostCollect, Collects, TypeOK
  <2>2. CASE status[w] # "pending"
    <3>1. ld' = [ld EXCEPT !.todo = @ \ {w}, !.err = @ \/ status[w] = "failed"] /\ UNCHANGED engine
      BY <1>9, <2>2 DEF HostCollect, Collects
    <3>2. (ld.err \/ status[w] = "failed") \in BOOLEAN BY DEF TypeOK
    <3> QED BY <1>9, <3>1, <3>2 DEF HostCollect, TypeOK, engine
  <2> QED BY <2>1, <2>2
<1>10. CASE LeaderMeets BY <1>10, <1>t DEF LeaderMeets, TypeOK, mailbox, engine
<1>u. ASSUME NEW k \in Ranks, NEW c \in Command, NEW raised \in BOOLEAN, CommitsAfter(k, c, raised)
      PROVE  st' \in [Ranks -> RankState]
  <2>1. st \in [Ranks -> RankState] /\ c.ids \in SUBSET Ids BY DEF TypeOK, Command
  <2>2. Unmarked(st[k], c.ids) \in RankState BY <2>1, RankUpdates
  <2> QED BY <1>u, <2>1, <2>2 DEF CommitsAfter
<1>11. CASE LeaderLeaves
  <2>1. ld.cmd \in Command BY DEF TypeOK
  <2>2. PICK raised \in BOOLEAN : Return(raised) /\ CommitsAfter(Leader, ld.cmd, raised) BY <1>11 DEF LeaderLeaves
  <2>3. st' \in [Ranks -> RankState] BY <2>1, <2>2, <1>t, <1>u
  <2> QED BY <1>11, <2>2, <2>3, <1>r, <1>t DEF LeaderLeaves, TypeOK, mailbox
<1>12. CASE AllReduce BY <1>12 DEF AllReduce, TypeOK, mailbox, engine
<1>13. ASSUME NEW w \in Workers, Load(w) PROVE TypeOK' BY <1>13 DEF Load, TypeOK, mailbox, engine
<1>14. ASSUME NEW w \in Workers, Clear(w) PROVE TypeOK' BY <1>14 DEF Clear, TypeOK, engine
<1>15. ASSUME NEW w \in Workers, Exec(w) PROVE TypeOK'
  <2>1. PICK err \in BOOLEAN : Execute(w, wk[w].cmd, err)
                               /\ wk' = [wk EXCEPT ![w].err = err, ![w].pc = NextPc(wk[w].cmd.op)]
    BY <1>15 DEF Exec
  <2>2. wk[w].cmd \in Command /\ wk[w].cmd.op \in Ops BY DEF TypeOK, Command
  <2>3. st' \in [Ranks -> RankState] /\ failures' \in 0..MaxFailures BY <2>1, <2>2, <1>t, ExecuteType
  <2>4. NextPc(wk[w].cmd.op) \in {"wait", "status", "meet"} BY <2>2 DEF NextPc, Kind, Ops
  <2>5. wk' \in [Workers -> [pc: {"wait", "clear", "exec", "status", "complete", "meet", "met", "dead"},
                             cmd: Command, err: BOOLEAN]]
    BY <2>1, <2>4, ZenonT(30) DEF TypeOK
  <2> QED BY <1>15, <2>3, <2>5 DEF Exec, TypeOK, mailbox, engine
<1>16. ASSUME NEW w \in Workers, SetStatus(w) PROVE TypeOK' BY <1>16 DEF SetStatus, TypeOK, engine
<1>17. ASSUME NEW w \in Workers, Complete(w) PROVE TypeOK' BY <1>17, ZenonT(30) DEF Complete, Survives, TypeOK, engine
<1>18. ASSUME NEW w \in Workers, WorkerMeets(w) PROVE TypeOK' BY <1>18, <1>t DEF WorkerMeets, TypeOK, mailbox, engine
<1>19. ASSUME NEW w \in Workers, WorkerLeaves(w) PROVE TypeOK'
  <2>1. wk[w].cmd \in Command BY DEF TypeOK
  <2>2. PICK raised \in BOOLEAN : CommitsAfter(w, wk[w].cmd, raised) /\ wk' = [wk EXCEPT ![w].pc = Survives(w, raised)]
    BY <1>19 DEF WorkerLeaves
  <2>3. st' \in [Ranks -> RankState] BY <2>1, <2>2, <1>t, <1>u
  <2>4. wk' \in [Workers -> [pc: {"wait", "clear", "exec", "status", "complete", "meet", "met", "dead"},
                             cmd: Command, err: BOOLEAN]]
    BY <2>2, ZenonT(30) DEF TypeOK, Survives
  <2> QED BY <1>19, <2>3, <2>4, <1>t DEF WorkerLeaves, TypeOK, mailbox, engine
<1>20. ASSUME NEW w \in Workers, Crash(w) PROVE TypeOK'
  <2>1. failures' \in 0..MaxFailures BY <1>20, Counters DEF Crash
  <2> QED BY <1>20, <2>1, <1>t DEF Crash, TypeOK, mailbox, engine
<1>21. CASE UNCHANGED vars BY <1>21 DEF vars, mailbox, engine, TypeOK
<1> QED BY <1>1, <1>2, <1>3, <1>4, <1>5, <1>6, <1>7, <1>8, <1>9, <1>10, <1>11, <1>12, <1>13, <1>14,
           <1>15, <1>16, <1>17, <1>18, <1>19, <1>20, <1>21 DEF Next, LeaderStep, WorkerStep

-----------------------------------------------------------------------------
(* The protocol is kept.                                                   *)

\* What is said of rank 0 stays while its own state does.
LEMMA LeaderFrame ==
  ASSUME LeaderOK, UNCHANGED <<setup, buffer, ld, calls, owed>>, meeting'[Leader] = meeting[Leader]
  PROVE  LeaderOK'
BY DEF LeaderOK, Kind, SetupOps

\* What is said of a worker stays while its state and that of rank 0 do.
LEMMA WorkerFrame ==
  ASSUME NEW v \in Workers, UNCHANGED <<setup, ld, calls>>, meeting'[Leader] = meeting[Leader],
         command'[v] = command[v], status'[v] = status[v], completed'[v] = completed[v],
         meeting'[v] = meeting[v], wk'[v] = wk[v]
  PROVE  /\ WorkerOK(v) => WorkerOK(v)'
         /\ Answer(v) => Answer(v)'
         /\ Tight(v) => Tight(v)'
<1>1. ASSUME NEW op PROVE Kind(op)' = Kind(op) BY DEF Kind
<1>2. SetupOps' = SetupOps BY DEF SetupOps
<1>3. WorkerOK(v) => WorkerOK(v)' BY <1>1, <1>2 DEF WorkerOK
<1>4. Answer(v) => Answer(v)' BY <1>1 DEF Answer
<1>5. /\ (Working(v)' <=> Working(v)) /\ (Done(v)' <=> Done(v))
      /\ (Acked(v)' <=> Acked(v)) /\ (Lagging(v)' <=> Lagging(v))
  BY DEF Working, Done, Acked, Lagging
<1>6. Kind(ld.cmd.op)' = Kind(ld.cmd.op) BY DEF Kind
<1>7. Tight(v) => Tight(v)' BY <1>5, <1>6 DEF Tight
<1> QED BY <1>3, <1>4, <1>7

\* Once torn apart, the group stays so: a collective with a dead rank never
\* tells rank 0 that all went well.
LEMMA BrokenStays ==
  ASSUME TypeOK, LeaderOK, [Next]_vars, Broken
  PROVE  Broken'
<1>k. Leader \in Ranks /\ Leader \notin Workers BY TensorParallelAssumption DEF Ranks
<1>1. PICK d \in Workers : ~Alive(d) BY DEF Broken
<1>d. ASSUME UNCHANGED wk PROVE ~Alive(d)' BY <1>d, <1>1 DEF Alive
<1>l. ld \in [pc: {"idle", "ack", "local", "status", "meet", "met", "commit"},
             cmd: Command, err: BOOLEAN, todo: SUBSET Workers]
  BY DEF TypeOK
<1>2. ~setup.async /\ meeting[Leader] # "all ok" /\ (setup.graph => owed # {} /\ ld.cmd.op = "free_slots")
  BY DEF Broken
<1> USE <1>1, <1>l, <1>2 DEF Broken
<1>3. ASSUME NEW q \in Ids, Run(q) PROVE Broken' BY <1>3, <1>d DEF Run, Begin
<1>4. ASSUME NEW ids \in SUBSET Ids, Release(ids) PROVE Broken' BY <1>4, <1>d DEF Release, Begin
<1>5. CASE Commit BY <1>5 DEF Commit, LeaderOK, SetupOps
<1>6. ASSUME Return(TRUE), UNCHANGED <<setup, meeting, wk>> PROVE Broken' BY <1>6, <1>d DEF Return, engine
<1>7. CASE Acknowledged BY <1>7, <1>d DEF Acknowledged, engine
<1>8. CASE AckTimeout BY <1>8, <1>6 DEF AckTimeout
<1>9. CASE LocalRun BY <1>9, <1>d DEF LocalRun, Return, engine, LeaderOK, SetupOps, Kind
<1>10. CASE HostTimeout BY <1>10, <1>6 DEF HostTimeout
<1>11. CASE HostDone BY <1>11, <1>d DEF HostDone, Return, engine, LeaderOK, SetupOps, Kind
<1>12. ASSUME NEW w \in Workers, HostCollect(w) PROVE Broken'
  BY <1>12, <1>d DEF HostCollect, Collects, Return, engine, LeaderOK, SetupOps, Kind
<1>13. CASE LeaderMeets BY <1>13, <1>d, <1>k DEF LeaderMeets, engine, TypeOK
<1>14. CASE LeaderLeaves BY <1>14, <1>d, <1>k DEF LeaderLeaves, Return, engine, TypeOK
<1>15. CASE AllReduce
  <2>1. meeting'[Leader] # "all ok" BY <1>15, <1>k DEF AllReduce
  <2> QED BY <1>15, <2>1, <1>d DEF AllReduce, engine
<1>16. ASSUME NEW w \in Workers, WorkerStep(w) \/ Crash(w) PROVE Broken'
  <2>1. wk \in [Workers -> [pc: {"wait", "clear", "exec", "status", "complete", "meet", "met", "dead"},
                            cmd: Command, err: BOOLEAN]]
    BY DEF TypeOK
  <2>2. ~Alive(d)'
    BY <1>16, <2>1 DEF WorkerStep, Crash, Load, Clear, Exec, SetStatus, Complete, WorkerMeets, WorkerLeaves, Alive
  <2>3. meeting'[Leader] = meeting[Leader] /\ UNCHANGED <<setup, ld, owed>>
    BY <1>16, <1>k DEF WorkerStep, Crash, Load, Clear, Exec, SetStatus, Complete, WorkerMeets, WorkerLeaves,
                       engine, TypeOK
  <2> QED BY <2>2, <2>3
<1>17. CASE UNCHANGED vars BY <1>17, <1>d DEF vars, engine
<1> QED BY <1>3, <1>4, <1>5, <1>7, <1>8, <1>9, <1>10, <1>11, <1>12, <1>13, <1>14, <1>15, <1>16, <1>17
        DEF Next, LeaderStep

\* The actions of a worker concern nobody else.
LEMMA WorkerSteps ==
  ASSUME TypeOK, Protocol, NEW w \in Workers, WorkerStep(w) \/ Crash(w)
  PROVE  /\ LeaderOK' /\ meeting'[Leader] = meeting[Leader]
         /\ UNCHANGED <<setup, buffer, ld, engine, calls>>
         /\ \A v \in Workers \ {w} :
              /\ UNCHANGED <<command[v], status[v], completed[v], meeting[v], wk[v]>>
              /\ WorkerOK(v)' /\ Answer(v)' /\ (Tight(v) => Tight(v)')
         /\ Alive(w)
<1>k. Leader \in Ranks /\ Leader \notin Workers /\ Workers \subseteq Ranks
  BY TensorParallelAssumption DEF Ranks
<1>t. /\ wk \in [Workers -> [pc: {"wait", "clear", "exec", "status", "complete", "meet", "met", "dead"},
                             cmd: Command, err: BOOLEAN]]
      /\ meeting \in [Ranks -> {"out", "ok", "error", "all ok", "some error"}]
      /\ command \in [Workers -> BOOLEAN] /\ completed \in [Workers -> BOOLEAN]
      /\ status \in [Workers -> {"pending", "success", "failed"}]
  BY DEF TypeOK
<1>1. meeting'[Leader] = meeting[Leader] /\ UNCHANGED <<setup, buffer, ld, engine, calls>>
  BY <1>k, <1>t DEF WorkerStep, Crash, Load, Clear, Exec, SetStatus, Complete, WorkerMeets, WorkerLeaves, mailbox
<1>2. ASSUME NEW v \in Workers \ {w}
      PROVE  UNCHANGED <<command[v], status[v], completed[v], meeting[v], wk[v]>>
  BY <1>k, <1>t DEF WorkerStep, Crash, Load, Clear, Exec, SetStatus, Complete, WorkerMeets, WorkerLeaves, mailbox
<1>3. LeaderOK' BY <1>1, LeaderFrame DEF Protocol, engine
<1>4. ASSUME NEW v \in Workers \ {w}
      PROVE  WorkerOK(v)' /\ Answer(v)' /\ (Tight(v) => Tight(v)')
  BY <1>1, <1>2, WorkerFrame DEF Protocol
<1>5. Alive(w)
  BY DEF WorkerStep, Crash, Load, Clear, Exec, SetStatus, Complete, WorkerMeets, WorkerLeaves, Alive
<1> QED BY <1>1, <1>2, <1>3, <1>4, <1>5

LEMMA WorkerProtocol ==
  ASSUME TypeOK, Protocol, NEW w \in Workers, WorkerStep(w) \/ Crash(w)
  PROVE  Protocol'
<1>k. w \in Ranks /\ Leader \notin Workers BY TensorParallelAssumption DEF Ranks
<1>t. /\ wk \in [Workers -> [pc: {"wait", "clear", "exec", "status", "complete", "meet", "met", "dead"},
                             cmd: Command, err: BOOLEAN]]
      /\ meeting \in [Ranks -> {"out", "ok", "error", "all ok", "some error"}]
      /\ command \in [Workers -> BOOLEAN] /\ completed \in [Workers -> BOOLEAN]
      /\ status \in [Workers -> {"pending", "success", "failed"}]
  BY DEF TypeOK
<1>b. Broken => Broken'
  <2>1. [Next]_vars BY DEF Next
  <2> QED BY <2>1, BrokenStays DEF Protocol
<1>f. /\ LeaderOK' /\ meeting'[Leader] = meeting[Leader]
      /\ UNCHANGED <<setup, buffer, ld, calls>>
      /\ \A v \in Workers \ {w} :
           /\ UNCHANGED wk[v]
           /\ WorkerOK(v)' /\ Answer(v)' /\ (Tight(v) => Tight(v)')
  BY WorkerSteps
<1>p. /\ LeaderOK /\ WorkerOK(w) /\ Answer(w) /\ (Broken \/ Tight(w))
  BY WorkerSteps DEF Protocol
<1>s. ASSUME WorkerOK(w)', Answer(w)', Alive(w)' => Broken' \/ Tight(w)' PROVE Protocol'
  <2>1. ASSUME NEW v \in Workers \ {w}, Alive(v)' PROVE Broken' \/ Tight(v)'
    BY <2>1, <1>b, <1>f DEF Protocol, Alive
  <2> QED BY <1>s, <1>f, <2>1 DEF Protocol
<1>h. ASSUME Broken, calls # 0 PROVE Kind(ld.cmd.op) # "host"
  BY <1>h, <1>p DEF Broken, LeaderOK, SetupOps, Kind
<1>q. ASSUME NEW op PROVE Kind(op)' = Kind(op) BY <1>f DEF Kind
<1>o. SetupOps' = SetupOps BY <1>f DEF SetupOps
<1>g. UNCHANGED <<setup, buffer, ld, calls>> /\ meeting'[Leader] = meeting[Leader] BY <1>f
<1>1. CASE Load(w)
  <2>0. /\ wk[w].pc = "wait" /\ command[w] /\ wk'[w].pc = "clear" /\ wk'[w].cmd = buffer
        /\ command'[w] = command[w] /\ status'[w] = status[w] /\ completed'[w] = completed[w] /\ meeting'[w] = meeting[w]
    BY <1>1, <1>k, <1>t DEF Load, Survives, mailbox
  <2>1. WorkerOK(w)' BY <2>0, <1>p, <1>g, <1>q, <1>o DEF WorkerOK, LeaderOK
  <2>2. Answer(w)' BY <2>0, <1>p, <1>g, <1>q DEF Answer, LeaderOK
  <2>3. Tight(w) => Tight(w)'
    BY <2>0, <1>p, <1>g, <1>q DEF Tight, Working, Done, Acked, Lagging, Reduced, LeaderOK, WorkerOK
  <2> QED BY <2>1, <2>2, <2>3, <1>p, <1>b, <1>s
<1>2. CASE Clear(w)
  <2>0. /\ wk[w].pc = "clear" /\ ~command'[w] /\ wk'[w].pc = "exec" /\ wk'[w].cmd = wk[w].cmd
        /\ wk'[w].err = wk[w].err /\ status'[w] = status[w] /\ completed'[w] = completed[w] /\ meeting'[w] = meeting[w]
    BY <1>2, <1>k, <1>t DEF Clear, Survives, mailbox
  <2>1. WorkerOK(w)' BY <2>0, <1>p, <1>g, <1>q, <1>o DEF WorkerOK
  <2>2. Answer(w)' BY <2>0, <1>p, <1>g, <1>q DEF Answer
  <2>3. Tight(w) => Tight(w)'
    BY <2>0, <1>p, <1>g, <1>q DEF Tight, Working, Done, Acked, Lagging, Reduced, LeaderOK, WorkerOK
  <2> QED BY <2>1, <2>2, <2>3, <1>p, <1>b, <1>s
<1>3. CASE Exec(w)
  <2>0. /\ wk[w].pc = "exec" /\ wk'[w].pc = NextPc(wk[w].cmd.op) /\ wk'[w].cmd = wk[w].cmd
        /\ command'[w] = command[w] /\ status'[w] = status[w] /\ completed'[w] = completed[w] /\ meeting'[w] = meeting[w]
    BY <1>3, <1>k, <1>t DEF Exec, mailbox
  <2>1. wk[w].cmd.op \in SetupOps BY <2>0, <1>p DEF WorkerOK
  <2>2. \/ Kind(wk[w].cmd.op) = "ack" /\ wk'[w].pc = "wait" /\ wk[w].cmd.op = "commit_slot_releases"
        \/ Kind(wk[w].cmd.op) = "host" /\ wk'[w].pc = "status" /\ wk[w].cmd.op # "commit_slot_releases"
        \/ Kind(wk[w].cmd.op) = "collective" /\ wk'[w].pc = "meet" /\ wk[w].cmd.op # "commit_slot_releases"
    BY <2>0, <2>1 DEF NextPc, Kind, SetupOps
  <2>3. WorkerOK(w)' BY <2>0, <2>1, <2>2, <1>p, <1>g, <1>q, <1>o DEF WorkerOK
  <2>4. Answer(w)' BY <2>0, <1>p, <1>g, <1>q DEF Answer
  <2>5. Kind("commit_slot_releases") = "ack" BY DEF Kind
  <2>6. Tight(w) => Tight(w)'
    BY <2>0, <2>2, <2>5, <1>p, <1>g, <1>q DEF Tight, Working, Done, Acked, Lagging, Reduced, LeaderOK
  <2> QED BY <2>3, <2>4, <2>6, <1>p, <1>b, <1>s
<1>4. CASE SetStatus(w)
  <2>0. /\ wk[w].pc = "status" /\ wk'[w].pc = "complete" /\ wk'[w].cmd = wk[w].cmd /\ wk'[w].err = wk[w].err
        /\ status'[w] = IF wk[w].err THEN "failed" ELSE "success"
        /\ command'[w] = command[w] /\ completed'[w] = completed[w] /\ meeting'[w] = meeting[w]
    BY <1>4, <1>k, <1>t DEF SetStatus, Survives, mailbox
  <2>1. WorkerOK(w)' BY <2>0, <1>p, <1>g, <1>q, <1>o DEF WorkerOK
  <2>2. Answer(w)' BY <2>0, <1>p, <1>g, <1>q DEF Answer
  <2>3. Tight(w) => Tight(w)'
    BY <2>0, <1>p, <1>g, <1>q DEF Tight, Working, Done, Acked, Lagging, Reduced, LeaderOK, WorkerOK
  <2> QED BY <2>1, <2>2, <2>3, <1>p, <1>b, <1>s
<1>5. CASE Complete(w)
  <2>0. /\ wk[w].pc = "complete" /\ wk'[w].pc \in {"wait", "dead"} /\ wk'[w].cmd = wk[w].cmd
        /\ completed'[w] /\ command'[w] = command[w] /\ status'[w] = status[w] /\ meeting'[w] = meeting[w]
    BY <1>5, <1>k, <1>t DEF Complete, Survives, mailbox
  <2>3. /\ ld.pc \in {"idle", "ack", "local", "status", "meet", "met", "commit"}
        /\ ld.pc = "local" => Kind(ld.cmd.op) \in {"ack", "host", "collective"}
        /\ ld.pc = "status" => Kind(ld.cmd.op) = "host"
    BY <1>p DEF TypeOK, LeaderOK, SetupOps, Kind
  <2>5. Tight(w) => wk[w].cmd = ld.cmd /\ status[w] # "pending" /\ ~command[w]
    <3> SUFFICES ASSUME Tight(w) PROVE wk[w].cmd = ld.cmd /\ status[w] # "pending" /\ ~command[w]
      OBVIOUS
    <3>1. ~Done(w) /\ ~Acked(w) /\ ~Lagging(w) BY <2>0 DEF Done, Acked, Lagging
    <3>2. Working(w) BY <2>3, <3>1 DEF Tight
    <3> QED BY <3>2, <2>0 DEF Working
  <2>1. WorkerOK(w)' BY <2>0, <1>p, <1>g, <1>q, <1>o, <2>5 DEF WorkerOK, LeaderOK
  <2>2. Answer(w)' BY <2>0, <1>p, <1>g, <1>q, <2>5, <1>h DEF Answer, LeaderOK
  <2>6. Tight(w) /\ Alive(w)' => Tight(w)'
    BY <2>0, <1>p, <1>g, <1>q, <2>5 DEF Tight, Working, Done, Acked, Lagging, Reduced, LeaderOK, WorkerOK, Alive
  <2> QED BY <2>1, <2>2, <2>6, <1>p, <1>b, <1>s
<1>6. CASE WorkerMeets(w)
  <2>0. /\ wk[w].pc = "meet" /\ wk'[w].pc = "met" /\ wk'[w].cmd = wk[w].cmd /\ wk'[w].err = wk[w].err
        /\ meeting'[w] = IF wk[w].err THEN "error" ELSE "ok"
        /\ command'[w] = command[w] /\ status'[w] = status[w] /\ completed'[w] = completed[w]
    BY <1>6, <1>k, <1>t DEF WorkerMeets, Survives, mailbox
  <2>1. WorkerOK(w)' BY <2>0, <1>p, <1>g, <1>q, <1>o DEF WorkerOK
  <2>2. Answer(w)' BY <2>0, <1>p, <1>g, <1>q DEF Answer
  <2>3. Tight(w) => Tight(w)'
    BY <2>0, <1>p, <1>g, <1>q DEF Tight, Working, Done, Acked, Lagging, Reduced, LeaderOK, WorkerOK
  <2> QED BY <2>1, <2>2, <2>3, <1>p, <1>b, <1>s
<1>7. CASE WorkerLeaves(w)
  <2>0. /\ wk[w].pc = "met" /\ meeting[w] \in Reduced /\ wk'[w].pc \in {"wait", "dead"}
        /\ wk'[w].cmd = wk[w].cmd /\ meeting'[w] = "out"
        /\ command'[w] = command[w] /\ status'[w] = status[w] /\ completed'[w] = completed[w]
    BY <1>7, <1>k, <1>t DEF WorkerLeaves, Survives, mailbox, Reduced
  <2>1. WorkerOK(w)' BY <2>0, <1>p, <1>g, <1>q, <1>o DEF WorkerOK
  <2>2. Answer(w)' BY <2>0, <1>p, <1>g, <1>q DEF Answer
  <2>3. Tight(w) /\ Alive(w)' => Tight(w)'
    BY <2>0, <1>p, <1>g, <1>q DEF Tight, Working, Done, Acked, Lagging, Reduced, LeaderOK, WorkerOK, Alive
  <2> QED BY <2>1, <2>2, <2>3, <1>p, <1>b, <1>s
<1>8. CASE Crash(w)
  <2>0. /\ wk'[w].pc = "dead" /\ wk'[w].cmd = wk[w].cmd /\ meeting'[w] = "out"
        /\ command'[w] = command[w] /\ status'[w] = status[w] /\ completed'[w] = completed[w]
    <3>1. wk' = [wk EXCEPT ![w].pc = "dead"] /\ meeting' = [meeting EXCEPT ![w] = "out"] /\ UNCHANGED mailbox
      BY <1>8 DEF Crash
    <3> QED BY <3>1, <1>k, <1>t, ZenonT(30) DEF mailbox
  <2>1. WorkerOK(w)' BY <2>0, <1>p, <1>g DEF WorkerOK
  <2>2. Answer(w)' BY <2>0, <1>p, <1>g, <1>q DEF Answer
  <2>3. ~Alive(w)' BY <2>0 DEF Alive
  <2> QED BY <2>1, <2>2, <2>3, <1>s
<1> QED BY <1>1, <1>2, <1>3, <1>4, <1>5, <1>6, <1>7, <1>8 DEF WorkerStep

\* A step of rank 0 leaves the workers where they are.
LEMMA LeaderStepFrame ==
  ASSUME TypeOK, Protocol, [Next]_vars, LeaderOK', UNCHANGED <<setup, wk>>,
         \A w \in Workers : WorkerOK(w)' /\ Answer(w)' /\ (Alive(w) /\ Tight(w) => Tight(w)')
  PROVE  Protocol'
<1>1. Broken => Broken' BY BrokenStays DEF Protocol
<1>2. ASSUME NEW w \in Workers, Alive(w)' PROVE Broken' \/ Tight(w)' BY <1>1, <1>2 DEF Protocol, Alive
<1> QED BY <1>2 DEF Protocol

\* The next command is written: a worker is done with the last one, or left
\* it to leave or to unmark first.
LEMMA BeginProtocol ==
  ASSUME TypeOK, Protocol, [Next]_vars, ld.pc \in {"idle", "commit"},
         NEW op \in SetupOps, NEW ids \in SUBSET Ids, Begin(op, ids),
         op = "commit_slot_releases" => ld.pc = "commit", MaxCalls # 0,
         calls <= MaxCalls, op # "commit_slot_releases" => calls < MaxCalls,
         op \in Frees => ids # {} /\ ids \subseteq owed'
  PROVE  Protocol'
<1>c. calls \in Nat /\ MaxCalls \in Nat BY Counters
<1>p. LeaderOK /\ \A w \in Workers : WorkerOK(w) BY DEF Protocol
<1>q. ASSUME NEW o PROVE Kind(o)' = Kind(o) BY DEF Begin, Kind
<1>o. SetupOps' = SetupOps BY DEF Begin, SetupOps
<1>1. /\ ld'.pc = AfterWrite(op) /\ ld'.cmd.op = op /\ ld'.cmd.ids = ids /\ ld'.cmd.n = calls + 1
      /\ ~ld'.err /\ ld'.todo = Workers /\ buffer' = ld'.cmd /\ calls' = calls + 1
      /\ UNCHANGED <<setup, meeting, wk>>
  BY DEF Begin, Write
<1>2. ASSUME NEW w \in Workers PROVE command'[w] /\ ~completed'[w] /\ meeting'[w] = meeting[w] /\ wk'[w] = wk[w]
  BY <1>1 DEF Begin, Write
<1>3. /\ ld'.pc \in {"ack", "local"} /\ (ld'.pc = "ack" => op = "commit_slot_releases")
      /\ (op = "commit_slot_releases" => ld'.pc = "ack") /\ Kind(op) \in {"ack", "host", "collective"}
  BY <1>1 DEF AfterWrite, Kind, SetupOps
<1>4. LeaderOK'
  <2>1. meeting'[Leader] = "out" BY <1>1, <1>p DEF LeaderOK
  <2>2. calls' # 0 /\ calls' <= MaxCalls + 1 /\ (op # "commit_slot_releases" => calls' <= MaxCalls)
    BY <1>c, <1>1
  <2> QED BY <1>p, <1>1, <1>3, <1>o, <2>1, <2>2 DEF LeaderOK
<1>5. ASSUME NEW w \in Workers PROVE WorkerOK(w)'
  <2>1. calls' # 0 BY <1>c, <1>1
  <2> QED BY <1>p, <1>q, <1>o, <1>2, <2>1 DEF WorkerOK
<1>6. ASSUME NEW w \in Workers PROVE Answer(w)' BY <1>2 DEF Answer
<1>7. ASSUME NEW w \in Workers, Tight(w) PROVE Tight(w)'
  <2>1. Done(w) \/ (Acked(w) /\ ld.pc = "idle") BY <1>7 DEF Tight
  <2>2. CASE op = "commit_slot_releases"
    <3>1. Done(w) /\ ld'.pc = "ack" BY <1>7, <1>3, <2>2 DEF Tight
    <3>2. wk[w].pc # "met" BY <1>p, <2>2 DEF WorkerOK, SetupOps, Kind
    <3>3. Working(w)' BY <3>1, <3>2, <1>2 DEF Done, Working
    <3> QED BY <3>1, <3>3 DEF Tight
  <2>3. CASE op # "commit_slot_releases"
    <3>1. Working(w)' \/ Lagging(w)' BY <2>1, <1>2 DEF Working, Done, Acked, Lagging, Reduced
    <3>2. ld'.pc = "local" /\ w \in ld'.todo /\ ~completed'[w] BY <2>3, <1>1, <1>2, <1>3
    <3>3. Kind(ld.cmd.op)' # "ack" BY <2>3, <1>1, <1>q DEF Kind, SetupOps
    <3> QED BY <3>1, <3>2, <3>3 DEF Tight
  <2> QED BY <2>2, <2>3
<1> QED BY <1>1, <1>4, <1>5, <1>6, <1>7, LeaderStepFrame

\* The call of rank 0 ends: no worker has the command before it.
LEMMA ReturnProtocol ==
  ASSUME TypeOK, Protocol, [Next]_vars, NEW raised \in BOOLEAN, Return(raised), ld.pc # "idle",
         UNCHANGED <<setup, buffer, command, status, wk, calls>>,
         \A w \in Workers : meeting'[w] = meeting[w], meeting'[Leader] = "out",
         \A w \in Workers : Alive(w) /\ Tight(w) => Done(w) \/ Acked(w)
  PROVE  Protocol'
<1>p. LeaderOK /\ \A w \in Workers : WorkerOK(w) BY DEF Protocol
<1>l. ld \in [pc: {"idle", "ack", "local", "status", "meet", "met", "commit"},
             cmd: Command, err: BOOLEAN, todo: SUBSET Workers]
  BY DEF TypeOK
<1>q. ASSUME NEW o PROVE Kind(o)' = Kind(o) BY DEF Kind
<1>o. SetupOps' = SetupOps BY DEF SetupOps
<1>1. ld'.pc = "idle" /\ ld'.cmd = ld.cmd BY <1>l DEF Return
<1>2. LeaderOK' BY <1>p, <1>1, <1>o DEF LeaderOK
<1>3. ASSUME NEW w \in Workers PROVE WorkerOK(w)' /\ Answer(w)'
  BY <1>p, <1>q, <1>o, <1>1 DEF WorkerOK, Answer
<1>4. ASSUME NEW w \in Workers, Alive(w), Tight(w) PROVE Tight(w)'
  BY <1>4, <1>1 DEF Tight, Done, Acked
<1> QED BY <1>2, <1>3, <1>4, LeaderStepFrame

\* A read command that waits for nothing else is a commit to carry out.
LEMMA ReadCommits ==
  ASSUME Protocol, NEW w \in Workers, ld.pc = "ack", ~command[w], Tight(w)
  PROVE  Done(w) \/ Acked(w)
<1>1. ld.cmd.op = "commit_slot_releases" /\ Kind(ld.cmd.op) = "ack" BY DEF Protocol, LeaderOK, Kind
<1>2. /\ wk[w].pc \in {"status", "complete"} => Kind(wk[w].cmd.op) = "host"
      /\ wk[w].pc \in {"meet", "met"} => Kind(wk[w].cmd.op) = "collective"
  BY DEF Protocol, WorkerOK
<1>3. Working(w) \/ Done(w) BY DEF Tight
<1> QED BY <1>1, <1>2, <1>3 DEF Working, Acked

LEMMA CallProtocol ==
  ASSUME TypeOK, Protocol, [Next]_vars,
         (\E q \in Ids : Run(q)) \/ (\E ids \in SUBSET Ids : Release(ids)) \/ Commit
  PROVE  Protocol'
<1>c. calls \in Nat /\ MaxCalls \in Nat BY Counters
<1>1. ASSUME NEW q \in Ids, Run(q) PROVE Protocol'
  <2>1. PICK op \in SetupOps : Begin(op, {q}) /\ op \in Runs BY <1>1 DEF Run, SetupOps, Runs
  <2>2. op # "commit_slot_releases" /\ op \notin Frees BY <2>1 DEF Runs, Frees
  <2>3. ld.pc = "idle" /\ calls < MaxCalls /\ MaxCalls # 0 /\ calls <= MaxCalls BY <1>1, <1>c DEF Run
  <2>4. {q} \in SUBSET Ids OBVIOUS
  <2> QED BY <2>1, <2>2, <2>3, <2>4, BeginProtocol
<1>2. ASSUME NEW ids \in SUBSET Ids, Release(ids) PROVE Protocol'
  <2>1. PICK op \in SetupOps : Begin(op, ids) /\ op \in Frees BY <1>2 DEF Release, SetupOps, Frees
  <2>2. op # "commit_slot_releases" BY <2>1 DEF Frees
  <2>3. /\ ld.pc = "idle" /\ calls < MaxCalls /\ MaxCalls # 0 /\ calls <= MaxCalls
        /\ ids # {} /\ ids \subseteq owed'
    BY <1>2, <1>c DEF Release
  <2> QED BY <2>1, <2>2, <2>3, BeginProtocol
<1>3. CASE Commit
  <2>1. ld.pc = "commit" /\ Begin("commit_slot_releases", ld.cmd.ids) /\ ld.cmd.ids \in SUBSET Ids
    BY <1>3 DEF Commit, TypeOK, Command
  <2>2. ld.cmd.op = "retire_async" /\ calls # 0 /\ MaxCalls # 0 /\ calls <= MaxCalls /\ ld.cmd.op \in SetupOps
    BY <2>1 DEF Protocol, LeaderOK
  <2>3. "commit_slot_releases" \in SetupOps /\ "commit_slot_releases" \notin Frees BY <2>2 DEF SetupOps, Frees
  <2> QED BY <2>1, <2>2, <2>3, BeginProtocol
<1> QED BY <1>1, <1>2, <1>3

LEMMA AckProtocol ==
  ASSUME TypeOK, Protocol, [Next]_vars, ~SlowTimeouts, Acknowledged \/ AckTimeout
  PROVE  Protocol'
<1>l. ld \in [pc: {"idle", "ack", "local", "status", "meet", "met", "commit"},
             cmd: Command, err: BOOLEAN, todo: SUBSET Workers]
  BY DEF TypeOK
<1>p. LeaderOK /\ \A w \in Workers : WorkerOK(w) BY DEF Protocol
<1>1. CASE AckTimeout
  <2>1. ASSUME NEW w \in Workers, Alive(w), Tight(w) PROVE Done(w) \/ Acked(w)
    <3>1. ld.pc = "ack" /\ ~command[w] BY <1>1, <2>1 DEF AckTimeout, Expires
    <3> QED BY <3>1, <2>1, ReadCommits
  <2>2. /\ ld.pc = "ack" /\ Return(TRUE) /\ UNCHANGED <<setup, buffer, command, status, wk, calls>>
        /\ UNCHANGED meeting /\ meeting[Leader] = "out"
    BY <1>1, <1>p DEF AckTimeout, mailbox, LeaderOK
  <2> QED BY <2>1, <2>2, ReturnProtocol
<1>2. CASE Acknowledged
  <2>1. /\ ld.pc = "ack" /\ ld'.pc = "local" /\ ld'.cmd = ld.cmd /\ ld'.err = ld.err /\ ld'.todo = ld.todo
        /\ UNCHANGED <<setup, buffer, command, status, completed, meeting, wk, owed, calls>>
        /\ \A w \in Workers : ~command[w]
    BY <1>2, <1>l DEF Acknowledged, mailbox, engine
  <2>q. ASSUME NEW o PROVE Kind(o)' = Kind(o) BY <2>1 DEF Kind
  <2>o. SetupOps' = SetupOps BY <2>1 DEF SetupOps
  <2>k. Kind(ld.cmd.op) = "ack" BY <1>p, <2>1 DEF LeaderOK, Kind
  <2>2. LeaderOK' BY <1>p, <2>1, <2>o DEF LeaderOK
  <2>3. ASSUME NEW w \in Workers PROVE WorkerOK(w)' /\ Answer(w)'
    BY <1>p, <2>q, <2>o, <2>1, <2>k DEF WorkerOK, Answer
  <2>4. ASSUME NEW w \in Workers, Tight(w) PROVE Tight(w)'
    <3>1. Done(w) \/ Acked(w) BY <2>1, <2>4, ReadCommits
    <3>2. Done(w)' \/ Acked(w)' BY <3>1, <2>1 DEF Done, Acked
    <3>3. ld'.pc = "local" /\ Kind(ld.cmd.op)' = "ack" BY <2>1, <2>q, <2>k
    <3> QED BY <3>2, <3>3 DEF Tight
  <2> QED BY <2>1, <2>2, <2>3, <2>4, LeaderStepFrame
<1> QED BY <1>1, <1>2

LEMMA LocalProtocol ==
  ASSUME TypeOK, Protocol, [Next]_vars, LocalRun
  PROVE  Protocol'
<1>l. ld \in [pc: {"idle", "ack", "local", "status", "meet", "met", "commit"},
             cmd: Command, err: BOOLEAN, todo: SUBSET Workers]
  BY DEF TypeOK
<1>p. LeaderOK /\ \A w \in Workers : WorkerOK(w) /\ Answer(w) BY DEF Protocol
<1>1. ld.pc = "local" /\ UNCHANGED <<setup, buffer, command, status, completed, meeting, wk, calls>>
  BY DEF LocalRun, mailbox
<1>2. CASE Kind(ld.cmd.op) = "ack"
  <2>1. Return(FALSE) BY <1>2 DEF LocalRun
  <2>2. meeting'[Leader] = "out" BY <1>1, <1>p DEF LeaderOK
  <2>3. ASSUME NEW w \in Workers, Tight(w) PROVE Done(w) \/ Acked(w) BY <1>1, <1>2, <2>3 DEF Tight
  <2> QED BY <1>1, <2>1, <2>2, <2>3, ReturnProtocol
<1>3. CASE Kind(ld.cmd.op) # "ack"
  <2>1. PICK err \in BOOLEAN :
          ld' = [ld EXCEPT !.err = err, !.pc = IF Kind(ld.cmd.op) = "host" THEN "status" ELSE "meet"]
            /\ UNCHANGED engine
    BY <1>3 DEF LocalRun
  <2>2. /\ ld'.pc = (IF Kind(ld.cmd.op) = "host" THEN "status" ELSE "meet")
        /\ ld'.cmd = ld.cmd /\ ld'.todo = ld.todo /\ UNCHANGED owed
    BY <2>1, <1>l DEF engine
  <2>q. ASSUME NEW o PROVE Kind(o)' = Kind(o) BY <1>1 DEF Kind
  <2>o. SetupOps' = SetupOps BY <1>1 DEF SetupOps
  <2>k. Kind(ld.cmd.op) \in {"host", "collective"} BY <1>1, <1>3, <1>p DEF LeaderOK, Kind, SetupOps
  <2>m. meeting[Leader] = "out" BY <1>1, <1>p DEF LeaderOK
  <2>3. LeaderOK' BY <1>p, <1>1, <2>2, <2>o, <2>q, <2>k, <2>m DEF LeaderOK
  <2>4. ASSUME NEW w \in Workers PROVE WorkerOK(w)' /\ Answer(w)'
    BY <1>p, <1>1, <2>2, <2>q, <2>o DEF WorkerOK, Answer
  <2>5. ASSUME NEW w \in Workers, Tight(w) PROVE Tight(w)'
    <3>1. (Working(w)' <=> Working(w)) /\ (Lagging(w)' <=> Lagging(w)) /\ (Done(w)' <=> Done(w))
      BY <1>1, <2>2 DEF Working, Lagging, Done
    <3>2. Kind(ld.cmd.op)' = Kind(ld.cmd.op) BY <2>2, <2>q
    <3>3. CASE Kind(ld.cmd.op) = "host" BY <2>5, <3>1, <3>2, <3>3, <1>1, <2>2 DEF Tight
    <3>4. CASE Kind(ld.cmd.op) = "collective" BY <2>5, <3>1, <3>2, <3>4, <1>1, <2>2 DEF Tight
    <3> QED BY <3>3, <3>4, <2>k
  <2> QED BY <1>1, <2>3, <2>4, <2>5, LeaderStepFrame
<1> QED BY <1>2, <1>3

LEMMA HostProtocol ==
  ASSUME TypeOK, Protocol, [Next]_vars, ~SlowTimeouts,
         HostTimeout \/ HostDone \/ \E w \in Workers : HostCollect(w)
  PROVE  Protocol'
<1>l. ld \in [pc: {"idle", "ack", "local", "status", "meet", "met", "commit"},
             cmd: Command, err: BOOLEAN, todo: SUBSET Workers]
  BY DEF TypeOK
<1>p. LeaderOK /\ \A w \in Workers : WorkerOK(w) /\ Answer(w) BY DEF Protocol
<1>1. ld.pc = "status" /\ UNCHANGED <<setup, buffer, command, status, meeting, wk, calls>>
  BY DEF HostTimeout, HostDone, HostCollect, mailbox
<1>k. Kind(ld.cmd.op) = "host" BY <1>1, <1>p DEF LeaderOK
<1>m. meeting[Leader] = "out" BY <1>1, <1>p DEF LeaderOK
<1>q. ASSUME NEW o PROVE Kind(o)' = Kind(o) BY <1>1 DEF Kind
<1>o. SetupOps' = SetupOps BY <1>1 DEF SetupOps
<1>2. CASE HostTimeout
  <2>1. ASSUME NEW w \in Workers, Alive(w), Tight(w) PROVE Done(w)
    BY <1>1, <1>2, <1>k, <2>1 DEF HostTimeout, Expires, Tight
  <2>2. Return(TRUE) BY <1>2 DEF HostTimeout
  <2> QED BY <1>1, <1>m, <2>1, <2>2, ReturnProtocol
<1>3. CASE HostDone
  <2>1. ASSUME NEW w \in Workers, Tight(w) PROVE Done(w) BY <1>1, <1>3, <1>k, <2>1 DEF HostDone, Tight
  <2>2. CASE ~ld.err /\ ld.cmd.op = "retire_async"
    <3>1. ld'.pc = "commit" /\ ld'.cmd = ld.cmd /\ UNCHANGED owed BY <1>3, <2>2, <1>l DEF HostDone, engine
    <3>2. LeaderOK' BY <1>p, <1>1, <1>m, <2>2, <3>1, <1>o DEF LeaderOK
    <3>3. ASSUME NEW w \in Workers PROVE WorkerOK(w)' /\ Answer(w)'
      BY <1>p, <1>1, <3>1, <1>q, <1>o DEF WorkerOK, Answer
    <3>4. ASSUME NEW w \in Workers, Tight(w) PROVE Tight(w)'
      <4>1. Done(w)' BY <2>1, <3>4, <1>1, <3>1 DEF Done
      <4> QED BY <4>1, <3>1 DEF Tight
    <3> QED BY <1>1, <3>2, <3>3, <3>4, LeaderStepFrame
  <2>3. CASE ~(~ld.err /\ ld.cmd.op = "retire_async")
    <3>1. Return(ld.err) /\ ld.err \in BOOLEAN BY <1>3, <2>3, <1>l DEF HostDone
    <3> QED BY <1>1, <1>m, <2>1, <3>1, ReturnProtocol
  <2> QED BY <2>2, <2>3
<1>4. ASSUME NEW v \in Workers, HostCollect(v) PROVE Protocol'
  <2>1. /\ v \in ld.todo /\ completed[v] /\ completed' = [completed EXCEPT ![v] = FALSE]
        /\ completed \in [Workers -> BOOLEAN]
    BY <1>4 DEF HostCollect, TypeOK
  <2>2. status[v] # "pending" BY <2>1, <1>1, <1>k, <1>p DEF Answer
  <2>3. ld'.pc = ld.pc /\ ld'.cmd = ld.cmd /\ ld'.todo = ld.todo \ {v} /\ UNCHANGED owed
    BY <1>4, <2>2, <1>l, ZenonT(30) DEF HostCollect, Collects, engine
  <2>4. LeaderOK' BY <1>p, <1>1, <1>m, <1>k, <2>3, <1>o, <1>q DEF LeaderOK
  <2>5. ASSUME NEW w \in Workers PROVE WorkerOK(w)' /\ Answer(w)'
    BY <1>p, <1>1, <2>1, <2>3, <1>q, <1>o DEF WorkerOK, Answer
  <2>6. ASSUME NEW w \in Workers, Tight(w) PROVE Tight(w)'
    <3>1. (Working(w)' <=> Working(w)) /\ (Lagging(w)' <=> Lagging(w)) /\ (Done(w)' <=> Done(w))
      BY <1>1, <2>3 DEF Working, Lagging, Done
    <3>2. IF w \in ld.todo /\ ~completed[w] THEN Working(w) \/ Lagging(w) ELSE Done(w)
      BY <2>6, <1>1, <1>k DEF Tight
    <3>3. (w \in ld.todo /\ ~completed[w])' <=> (w \in ld.todo /\ ~completed[w]) BY <2>1, <2>3
    <3>4. ld'.pc = "status" BY <1>1, <2>3
    <3> QED BY <3>1, <3>2, <3>3, <3>4 DEF Tight
  <2> QED BY <1>1, <2>4, <2>5, <2>6, LeaderStepFrame
<1> QED BY <1>2, <1>3, <1>4

LEMMA MeetingProtocol ==
  ASSUME TypeOK, Protocol, [Next]_vars, LeaderMeets \/ LeaderLeaves
  PROVE  Protocol'
<1>k. Leader \in Ranks /\ Leader \notin Workers /\ Workers \subseteq Ranks
  BY TensorParallelAssumption DEF Ranks
<1>t. /\ ld \in [pc: {"idle", "ack", "local", "status", "meet", "met", "commit"},
                 cmd: Command, err: BOOLEAN, todo: SUBSET Workers]
      /\ meeting \in [Ranks -> {"out", "ok", "error", "all ok", "some error"}]
  BY DEF TypeOK
<1>p. LeaderOK /\ \A w \in Workers : WorkerOK(w) /\ Answer(w) BY DEF Protocol
<1>1. UNCHANGED <<setup, buffer, command, status, completed, wk, calls>>
  BY DEF LeaderMeets, LeaderLeaves, mailbox
<1>w. ASSUME NEW w \in Workers PROVE meeting'[w] = meeting[w] BY <1>k, <1>t DEF LeaderMeets, LeaderLeaves
<1>q. ASSUME NEW o PROVE Kind(o)' = Kind(o) BY <1>1 DEF Kind
<1>o. SetupOps' = SetupOps BY <1>1 DEF SetupOps
<1>2. CASE LeaderMeets
  <2>1. /\ ld.pc = "meet" /\ ld'.pc = "met" /\ ld'.cmd = ld.cmd /\ ld'.err = ld.err /\ ld'.todo = ld.todo
        /\ UNCHANGED owed /\ meeting'[Leader] = IF ld.err THEN "error" ELSE "ok"
    BY <1>2, <1>k, <1>t DEF LeaderMeets, engine
  <2>2. LeaderOK' BY <1>p, <1>1, <2>1, <1>o, <1>q DEF LeaderOK
  <2>3. ASSUME NEW w \in Workers PROVE WorkerOK(w)' /\ Answer(w)'
    BY <1>p, <1>1, <1>w, <2>1, <1>q, <1>o DEF WorkerOK, Answer
  <2>4. ASSUME NEW w \in Workers, Tight(w) PROVE Tight(w)'
    <3>1. (Working(w)' <=> Working(w)) /\ (Lagging(w)' <=> Lagging(w))
      BY <1>1, <1>w, <2>1 DEF Working, Lagging, Reduced
    <3>2. Working(w) \/ Lagging(w) BY <2>4, <2>1 DEF Tight
    <3>3. ld'.pc = "met" /\ meeting'[Leader] \notin Reduced BY <2>1 DEF Reduced
    <3> QED BY <3>1, <3>2, <3>3 DEF Tight, Reduced
  <2> QED BY <1>1, <2>2, <2>3, <2>4, LeaderStepFrame
<1>3. CASE LeaderLeaves
  <2>1. /\ ld.pc = "met" /\ meeting[Leader] \in Reduced /\ meeting'[Leader] = "out"
    BY <1>3, <1>k, <1>t DEF LeaderLeaves, Reduced
  <2>2. PICK raised \in BOOLEAN : Return(raised) BY <1>3 DEF LeaderLeaves
  <2>3. ASSUME NEW w \in Workers, Tight(w) PROVE Done(w) BY <2>1, <2>3 DEF Tight
  <2> QED BY <1>1, <1>w, <2>1, <2>2, <2>3, ReturnProtocol
<1> QED BY <1>2, <1>3

\* With a dead worker a collective that is not yet torn apart has nobody in it.
LEMMA NobodyMeets ==
  ASSUME TypeOK, Protocol, ~Broken, NEW d \in Workers, ~Alive(d), NEW k \in Ranks, meeting[k] \in {"ok", "error"}
  PROVE  FALSE
<1>p. LeaderOK BY DEF Protocol
<1>b. setup.async \/ meeting[Leader] = "all ok" \/ (setup.graph /\ (owed = {} \/ ld.cmd.op # "free_slots"))
  BY DEF Broken
<1>1. CASE k = Leader
  <2>1. ld.pc = "met" /\ Kind(ld.cmd.op) = "collective" /\ ld.cmd.op \in SetupOps BY <1>p, <1>1 DEF LeaderOK
  <2>2. ~setup.async /\ (setup.graph => ld.cmd.op = "free_slots") BY <2>1 DEF Kind, SetupOps
  <2>3. ld.cmd.op \in Frees => owed # {} BY <1>p, <2>1 DEF LeaderOK
  <2> QED BY <1>1, <1>b, <2>2, <2>3 DEF Frees
<1>2. CASE k \in Workers
  <2>1. /\ wk[k].pc = "met" /\ Kind(wk[k].cmd.op) = "collective" /\ wk[k].cmd.op \in SetupOps
    BY <1>2 DEF Protocol, WorkerOK
  <2>2. Tight(k) BY <1>2, <2>1 DEF Protocol, Alive
  <2>3. ~Done(k) /\ ~Acked(k) /\ ~Lagging(k) BY <2>1 DEF Done, Acked, Lagging, Reduced
  <2>4. ~setup.async /\ (setup.graph => wk[k].cmd.op = "free_slots") BY <2>1 DEF Kind, SetupOps
  <2>5. ld.pc # "idle" /\ meeting[Leader] # "all ok" BY <1>p, <2>2, <2>3 DEF Tight, LeaderOK, Reduced
  <2>6. /\ ld.pc \in {"idle", "ack", "local", "status", "meet", "met", "commit"}
        /\ ld.pc = "local" => Kind(ld.cmd.op) \in {"ack", "host", "collective"}
        /\ ld.pc = "status" => Kind(ld.cmd.op) = "host"
    BY <1>p DEF TypeOK, LeaderOK, SetupOps, Kind
  <2>7. Working(k) BY <2>2, <2>3, <2>6 DEF Tight
  <2>8. wk[k].cmd = ld.cmd BY <2>7, <2>1 DEF Working
  <2>9. ld.cmd.op \in Frees => owed # {} BY <1>p, <2>5 DEF LeaderOK
  <2> QED BY <1>b, <2>4, <2>5, <2>8, <2>9 DEF Frees
<1> QED BY <1>1, <1>2 DEF Ranks

LEMMA ReduceProtocol ==
  ASSUME TypeOK, Protocol, [Next]_vars, AllReduce
  PROVE  Protocol'
<1>k. Leader \in Ranks /\ Leader \notin Workers /\ Workers \subseteq Ranks
  BY TensorParallelAssumption DEF Ranks
<1>t. meeting \in [Ranks -> {"out", "ok", "error", "all ok", "some error"}] BY DEF TypeOK
<1>p. LeaderOK /\ \A w \in Workers : WorkerOK(w) /\ Answer(w) BY DEF Protocol
<1>1. UNCHANGED <<setup, buffer, command, status, completed, ld, wk, owed, calls>>
  BY DEF AllReduce, mailbox, engine
<1>q. ASSUME NEW o PROVE Kind(o)' = Kind(o) BY <1>1 DEF Kind
<1>o. SetupOps' = SetupOps BY <1>1 DEF SetupOps
<1>2. PICK out \in Reduced : \A k \in Ranks :
        meeting'[k] = IF meeting[k] \in {"ok", "error"} THEN out ELSE meeting[k]
  BY DEF AllReduce, Reduced
<1>3. LeaderOK'
  <2>1. (meeting'[Leader] = "out" <=> meeting[Leader] = "out") /\ meeting'[Leader] # "ok"
    BY <1>2, <1>k, <1>t DEF Reduced
  <2> QED BY <1>p, <1>1, <1>q, <1>o, <2>1 DEF LeaderOK
<1>4. ASSUME NEW w \in Workers PROVE WorkerOK(w)' /\ Answer(w)'
  <2>1. (meeting'[w] = "out" <=> meeting[w] = "out") /\ meeting'[w] # "ok" BY <1>2, <1>k, <1>t DEF Reduced
  <2> QED BY <1>p, <1>1, <1>q, <1>o, <2>1 DEF WorkerOK, Answer
<1>5. ASSUME NEW w \in Workers, Alive(w), Tight(w), ~Broken PROVE Tight(w)'
  <2>1. PICK in : in = {k \in Ranks : meeting[k] \in {"ok", "error"}} OBVIOUS
  <2>2. in = Ranks \/ (in # {} /\ \E d \in Workers : ~Alive(d)) BY <2>1 DEF AllReduce
  <2>3. \A k \in Ranks : meeting[k] \in {"ok", "error"} BY <2>1, <2>2, <1>5, NobodyMeets
  <2>4. ld.pc = "met" /\ meeting[Leader] \notin Reduced /\ wk[w].pc = "met" /\ meeting[w] \notin Reduced
    BY <2>3, <1>p, <1>k DEF LeaderOK, WorkerOK, Reduced
  <2>5. Working(w) BY <2>4, <1>5 DEF Tight, Lagging
  <2>6. meeting'[w] = out /\ meeting'[Leader] = out BY <1>2, <1>k, <2>3
  <2>7. Done(w)' BY <2>4, <2>5, <2>6, <1>1 DEF Working, Done, Reduced
  <2>8. ld'.pc = "met" /\ meeting'[Leader] \in Reduced BY <2>4, <2>6, <1>1
  <2> QED BY <2>6, <2>7, <2>8 DEF Tight, Reduced
<1>6. Broken => Broken' BY BrokenStays, <1>p
<1>7. ASSUME NEW w \in Workers, Alive(w)' PROVE Broken' \/ Tight(w)'
  BY <1>7, <1>1, <1>5, <1>6 DEF Protocol, Alive
<1> QED BY <1>3, <1>4, <1>7 DEF Protocol

LEMMA ProtocolStep ==
  ASSUME TypeOK, Protocol, ~SlowTimeouts, [Next]_vars
  PROVE  Protocol'
<1>1. CASE UNCHANGED vars
  <2>1. UNCHANGED <<setup, buffer, command, status, completed, meeting, ld, wk, owed, calls>>
    BY <1>1 DEF vars, mailbox, engine
  <2>2. LeaderOK' BY <2>1, LeaderFrame DEF Protocol
  <2>3. ASSUME NEW w \in Workers PROVE WorkerOK(w)' /\ Answer(w)' /\ (Tight(w) => Tight(w)')
    BY <2>1, WorkerFrame DEF Protocol
  <2> QED BY <2>1, <2>2, <2>3, LeaderStepFrame
<1>2. CASE Next
  BY <1>2, CallProtocol, AckProtocol, LocalProtocol, HostProtocol, MeetingProtocol, ReduceProtocol,
     WorkerProtocol DEF Next, LeaderStep
<1> QED BY <1>1, <1>2

-----------------------------------------------------------------------------
(* The slots are kept.                                                     *)

\* What a rank's markers promise of its slots.
Marked(s) ==
  /\ \A q \in s.torn : s.mark[q] = "failed"
  /\ \A q \in s.own : s.mark[q] # "released"

\* A release of some ids of a batch, whether it goes on or not.
LEMMA FreedFields ==
  ASSUME NEW s \in RankState, NEW ids \in SUBSET Ids, Marked(s), ~Blocked(s, ids)
  PROVE  /\ Freed(s, ids).own = s.own \ ids /\ Freed(s, ids).torn = s.torn
         /\ Freed(s, ids).mark = [q \in Ids |-> IF q \in ids THEN "released" ELSE s.mark[q]]
         /\ s.torn \cap ids = {}
<1>1. s.mark \in [Ids -> {"none", "released", "failed"}] /\ s.own \subseteq Ids /\ s.torn \subseteq Ids BY DEF RankState
<1> DEFINE todo == {q \in ids : s.mark[q] # "released"}
<1>2. Freed(s, ids) = [s EXCEPT !.own = @ \ todo, !.mark = [q \in Ids |-> IF q \in todo THEN "released" ELSE @[q]]]
  BY DEF Freed
<1>3. /\ Freed(s, ids).own = s.own \ todo /\ Freed(s, ids).torn = s.torn
      /\ Freed(s, ids).mark = [q \in Ids |-> IF q \in todo THEN "released" ELSE s.mark[q]]
  BY <1>2 DEF RankState
<1>4. s.own \ todo = s.own \ ids BY DEF Marked
<1>5. [q \in Ids |-> IF q \in todo THEN "released" ELSE s.mark[q]]
        = [q \in Ids |-> IF q \in ids THEN "released" ELSE s.mark[q]]
  OBVIOUS
<1>6. s.torn \cap ids = {} BY <1>1 DEF Marked, Blocked
<1> QED BY <1>3, <1>4, <1>5, <1>6

\* What a command does to the state of the rank that runs it.
RunEffect(s, t, ids) == t.mark = s.mark /\ t.torn = s.torn /\ s.own \subseteq t.own /\ t.own \subseteq s.own \cup ids

FreeEffect(s, t, ids, err) ==
  /\ t.own \subseteq s.own /\ s.torn \subseteq t.torn /\ t.torn \subseteq s.torn \cup ids
  /\ \A q \in Ids \ ids : t.mark[q] = s.mark[q]
  /\ ~err => \A q \in ids : q \notin t.own \cup t.torn /\ t.mark[q] = "released"

CommitEffect(s, t, ids) ==
  /\ t.own = s.own /\ t.torn = s.torn
  /\ \A q \in Ids : t.mark[q] = IF q \in ids THEN "none" ELSE s.mark[q]

LEMMA Effects ==
  ASSUME TypeOK, NEW k \in Ranks, NEW c \in Command, NEW err \in BOOLEAN, Execute(k, c, err), Marked(st[k])
  PROVE  /\ \A j \in Ranks \ {k} : st'[j] = st[j]
         /\ c.op \in Runs => RunEffect(st[k], st'[k], c.ids)
         /\ c.op \in Frees => FreeEffect(st[k], st'[k], c.ids, err) /\ Marked(st'[k])
         /\ c.op = "commit_slot_releases" => ~err /\ CommitEffect(st[k], st'[k], c.ids)
<1>t. st \in [Ranks -> RankState] /\ c.ids \in SUBSET Ids BY DEF TypeOK, Command
<1>s. st[k] \in RankState BY <1>t
<1>1. PICK t : /\ st' = [st EXCEPT ![k] = t]
               /\ t \in IF err THEN RaisesIn(st[k], c) ELSE Returns(st[k], c)
  BY DEF Execute
<1>2. st'[k] = t /\ \A j \in Ranks \ {k} : st'[j] = st[j] BY <1>1, <1>t
<1>3. ASSUME c.op \in Runs PROVE RunEffect(st[k], t, c.ids)
  <2>1. t \in {st[k], Allocated(st[k], c.ids)} BY <1>1, <1>3 DEF RaisesIn, Returns, Runs
  <2> QED BY <2>1, <1>s DEF RunEffect, Allocated, RankState
<1>4. ASSUME c.op = "commit_slot_releases" PROVE ~err /\ CommitEffect(st[k], t, c.ids)
  <2>1. ~err /\ t = Unmarked(st[k], c.ids) BY <1>1, <1>4 DEF RaisesIn, Returns
  <2> QED BY <2>1, <1>s DEF CommitEffect, Unmarked, RankState
<1>5. ASSUME c.op \in Frees PROVE FreeEffect(st[k], t, c.ids, err) /\ Marked(t)
  <2>1. CASE ~err
    <3>1. ~Blocked(st[k], c.ids) /\ t = Freed(st[k], c.ids) BY <1>1, <1>5, <2>1 DEF Returns, Frees
    <3>2. /\ t.own = st[k].own \ c.ids /\ t.torn = st[k].torn /\ st[k].torn \cap c.ids = {}
          /\ t.mark = [q \in Ids |-> IF q \in c.ids THEN "released" ELSE st[k].mark[q]]
      BY <3>1, <1>s, <1>t, FreedFields
    <3>3. st[k].own \subseteq Ids /\ st[k].torn \subseteq Ids BY <1>s DEF RankState
    <3> QED BY <3>2, <3>3, <1>t DEF FreeEffect, Marked
  <2>2. CASE err
    <3> DEFINE open == {q \in c.ids : st[k].mark[q] # "failed"}
    <3>1. PICK done \in SUBSET open :
            t \in {Freed(st[k], done)} \cup
                  UNION {FreeRaised(Freed(st[k], done), q) : q \in {p \in open \ done : st[k].mark[p] = "none"}}
      BY <1>1, <1>5, <2>2 DEF RaisesIn, Frees
    <3>2. done \in SUBSET Ids /\ ~Blocked(st[k], done) BY <1>t DEF Blocked
    <3>3. PICK f \in RankState :
            /\ f = Freed(st[k], done) /\ f.own = st[k].own \ done /\ f.torn = st[k].torn
            /\ f.mark = [q \in Ids |-> IF q \in done THEN "released" ELSE st[k].mark[q]]
            /\ st[k].torn \cap done = {}
      BY <3>2, <1>s, FreedFields, RankUpdates, SMTT(30)
    <3>4. st[k].own \subseteq Ids /\ st[k].torn \subseteq Ids BY <1>s DEF RankState
    <3>5. CASE t = f BY <2>2, <3>3, <3>4, <3>5, <1>t DEF FreeEffect, Marked
    <3>6. ASSUME NEW q \in open \ done, t \in FreeRaised(f, q) PROVE FreeEffect(st[k], t, c.ids, err) /\ Marked(t)
      <4>1. q \in Ids /\ q \in c.ids BY <1>t
      <4>2. t.own \subseteq f.own /\ t.mark = [f.mark EXCEPT ![q] = "failed"] /\ t.torn = f.torn \cup {q}
        BY <3>6, <4>1, FreeRaisedFields
      <4>3. \A p \in Ids : t.mark[p] = IF p = q THEN "failed" ELSE IF p \in done THEN "released" ELSE st[k].mark[p]
        BY <3>3, <4>1, <4>2
      <4> QED BY <2>2, <3>3, <3>4, <4>1, <4>2, <4>3, <1>t DEF FreeEffect, Marked
    <3> QED BY <3>1, <3>3, <3>5, <3>6
  <2> QED BY <2>1, <2>2
<1> QED BY <1>2, <1>3, <1>4, <1>5

\* Where no rank's slots change and the engine gives none back, a rank stays
\* sound unless a run comes up.
LEMMA RankKept ==
  ASSUME NEW k, NEW q, RankOK(k, q), st'[k] = st[k], held \subseteq held',
         k \in Workers => Unmarks(k)' = Unmarks(k), RunAhead(k, q)' => RunAhead(k, q)
  PROVE  RankOK(k, q)'
BY DEF RankOK, Has

\* The actions of rank 0 that change no slots: what is left to show.
LEMMA QuietSlots ==
  ASSUME Slots, UNCHANGED <<wk, st>>,
         \A k \in Ranks : Living(k) => Reported(k)' /\ \A q \in Ids : RankOK(k, q)',
         \A w \in Workers : Alive(w) => Owing(w)' /\ WorkerFreed(w)',
         LeaderFreed'
  PROVE  Slots'
<1>1. \A k \in Ranks : Living(k)' <=> Living(k) BY DEF Living, Alive
<1>2. \A w \in Workers : Alive(w)' <=> Alive(w) BY DEF Alive
<1>3. CleanMarkers' BY DEF Slots, CleanMarkers
<1> QED BY <1>1, <1>2, <1>3 DEF Slots

\* Rank 0 starts a call.
LEMMA BeginSlots ==
  ASSUME TypeOK, Protocol, Slots, NEW op \in SetupOps, NEW ids \in SUBSET Ids, Begin(op, ids), ld.pc \in {"idle", "commit"}
  PROVE  /\ ld'.cmd.op = op /\ ld'.cmd.ids = ids /\ ld'.pc \in {"ack", "local"}
         /\ (ld'.pc = "local" <=> op # "commit_slot_releases") /\ meeting'[Leader] = "out"
         /\ UNCHANGED <<wk, st, meeting>> /\ ld'.todo = Workers
         /\ \A w \in Workers : /\ command'[w] /\ ~completed'[w]
                               /\ Unmarks(w)' = Unmarks(w)
                               /\ WorkerFreed(w) => WorkerFreed(w)'
         /\ LeaderFreed'
<1>1. /\ ld'.cmd.op = op /\ ld'.cmd.ids = ids /\ ld'.pc = AfterWrite(op) /\ UNCHANGED <<wk, st, meeting>>
      /\ ld'.todo = Workers
  BY DEF Begin
<1>2. ld'.pc \in {"ack", "local"} /\ (ld'.pc = "local" <=> op # "commit_slot_releases")
  BY <1>1 DEF AfterWrite, Kind, SetupOps
<1>3. meeting'[Leader] = "out" BY <1>1 DEF Protocol, LeaderOK
<1>4. ASSUME NEW w \in Workers PROVE command'[w] /\ ~completed'[w] BY DEF Begin, Write
<1>5. ASSUME NEW w \in Workers PROVE Unmarks(w)' = Unmarks(w) BY <1>1 DEF Unmarks
<1>6. ASSUME NEW w \in Workers, WorkerFreed(w) PROVE WorkerFreed(w)'
  BY <1>1, <1>4, <1>6 DEF WorkerFreed, FreedOn, Has
<1>7. LeaderFreed' BY <1>2 DEF LeaderFreed
<1> QED BY <1>1, <1>2, <1>3, <1>4, <1>5, <1>6, <1>7

LEMMA CallSlots ==
  ASSUME TypeOK, Protocol, Slots,
         (\E q \in Ids : Run(q)) \/ (\E ids \in SUBSET Ids : Release(ids)) \/ Commit
  PROVE  Slots'
<1>k. Leader \notin Workers /\ Ranks = Workers \cup {Leader} BY TensorParallelAssumption DEF Ranks
<1>s. /\ \A k \in Ranks : Living(k) => Reported(k) /\ \A q \in Ids : RankOK(k, q)
      /\ \A w \in Workers : Alive(w) => Owing(w) /\ WorkerFreed(w)
  BY DEF Slots
<1>1. ASSUME NEW r \in Ids, Run(r) PROVE Slots'
  <2>1. PICK op \in SetupOps : Begin(op, {r}) /\ op \in Runs BY <1>1 DEF Run, SetupOps, Runs
  <2>2. {r} \in SUBSET Ids /\ ld.pc \in {"idle", "commit"} /\ ld.pc = "idle" BY <1>1 DEF Run
  <2>3. /\ ld'.cmd.op = op /\ ld'.cmd.ids = {r} /\ ld'.pc \in {"ack", "local"} /\ meeting'[Leader] = "out"
        /\ UNCHANGED <<wk, st, meeting>>
        /\ \A w \in Workers : /\ command'[w] /\ Unmarks(w)' = Unmarks(w)
                              /\ WorkerFreed(w) => WorkerFreed(w)'
        /\ LeaderFreed'
    BY <2>1, <2>2, BeginSlots
  <2>o. op \notin Frees /\ op # "commit_slot_releases" BY <2>1 DEF Runs, Frees
  <2>h. owed = {} /\ r \notin held /\ held' = held \cup {r} BY <1>1 DEF Run
  <2>4. ASSUME NEW k \in Ranks, Living(k), NEW q \in Ids PROVE RankOK(k, q)'
    <3>1. RankOK(k, q) BY <2>4, <1>s
    <3>2. CASE q # r
      <4>1. RunAhead(k, q)' => RunAhead(k, q) BY <2>3, <3>2 DEF RunAhead
      <4> QED BY <3>1, <4>1, <2>3, <2>h, RankKept
    <3>3. CASE q = r
      <4>1. st'[k] = st[k] /\ (k \in Workers => Unmarks(k)' = Unmarks(k)) /\ q \in held' /\ q \notin held
        BY <2>3, <2>h, <3>3
      <4> QED BY <3>1, <4>1 DEF RankOK, Has
    <3> QED BY <3>2, <3>3
  <2>5. ASSUME NEW k \in Ranks PROVE Reported(k)' BY <2>3, <2>o DEF Reported, Frees
  <2>6. ASSUME NEW w \in Workers, Alive(w) PROVE Owing(w)' BY <2>6, <1>s, <2>3, <2>o, <2>h DEF Owing
  <2> QED BY <2>3, <2>4, <2>5, <2>6, <1>s, QuietSlots
<1>2. ASSUME NEW ids \in SUBSET Ids, Release(ids) PROVE Slots'
  <2>1. PICK op \in SetupOps : Begin(op, ids) /\ op \in Frees BY <1>2 DEF Release, SetupOps, Frees
  <2>2. ld.pc \in {"idle", "commit"} BY <1>2 DEF Release
  <2>3. /\ ld'.cmd.op = op /\ ld'.cmd.ids = ids /\ ld'.pc \in {"ack", "local"} /\ meeting'[Leader] = "out"
        /\ UNCHANGED <<wk, st, meeting>>
        /\ \A w \in Workers : /\ command'[w] /\ Unmarks(w)' = Unmarks(w)
                              /\ WorkerFreed(w) => WorkerFreed(w)'
        /\ LeaderFreed'
    BY <2>1, <2>2, BeginSlots
  <2>o. op \notin Runs /\ op # "commit_slot_releases" BY <2>1 DEF Runs, Frees
  <2>h. owed' = owed \cup ids /\ held' = held /\ ids # {} BY <1>2 DEF Release
  <2>4. ASSUME NEW k \in Ranks, Living(k), NEW q \in Ids PROVE RankOK(k, q)'
    <3>1. RankOK(k, q) BY <2>4, <1>s
    <3>2. RunAhead(k, q)' => RunAhead(k, q) BY <2>3, <2>o DEF RunAhead
    <3> QED BY <3>1, <3>2, <2>3, <2>h, RankKept
  <2>5. ASSUME NEW k \in Ranks PROVE Reported(k)' BY <2>3, <2>o DEF Reported, Frees
  <2>6. ASSUME NEW w \in Workers, Alive(w) PROVE Owing(w)' BY <2>6, <1>s, <2>3, <2>o, <2>h DEF Owing
  <2> QED BY <2>3, <2>4, <2>5, <2>6, <1>s, QuietSlots
<1>3. CASE Commit
  <2>1. Begin("commit_slot_releases", ld.cmd.ids) /\ ld.pc = "commit" /\ UNCHANGED <<held, owed>>
    BY <1>3 DEF Commit, engine
  <2>2. ld.cmd.op = "retire_async" /\ ld.cmd.op \in SetupOps /\ ld.cmd.ids \in SUBSET Ids
    BY <2>1 DEF Protocol, LeaderOK, TypeOK, Command
  <2>3. "commit_slot_releases" \in SetupOps BY <2>2 DEF SetupOps
  <2>4. /\ ld'.cmd.op = "commit_slot_releases" /\ ld'.cmd.ids = ld.cmd.ids /\ ld'.pc = "ack" /\ meeting'[Leader] = "out"
        /\ UNCHANGED <<wk, st, meeting>>
        /\ \A w \in Workers : /\ command'[w] /\ Unmarks(w)' = Unmarks(w)
                              /\ WorkerFreed(w) => WorkerFreed(w)'
        /\ LeaderFreed'
    BY <2>1, <2>2, <2>3, BeginSlots
  <2>5. ASSUME NEW k \in Ranks, Living(k), NEW q \in Ids PROVE RankOK(k, q)'
    <3>1. RankOK(k, q) BY <2>5, <1>s
    <3>2. RunAhead(k, q)' => RunAhead(k, q) BY <2>4 DEF RunAhead, Runs
    <3> QED BY <3>1, <3>2, <2>1, <2>4, RankKept
  <2>6. ASSUME NEW k \in Ranks, Living(k) PROVE Reported(k)'
    <3>1. FreedOn(k, ld.cmd.ids) BY <2>6, <1>s, <2>1 DEF Reported
    <3>2. k \in Workers => ~Done(k)' BY <2>4 DEF Done
    <3> QED BY <3>1, <3>2, <2>4 DEF Reported, Clean, FreedOn, Has
  <2>7. ASSUME NEW w \in Workers, Alive(w) PROVE Owing(w)' BY <2>7, <1>s, <2>1, <2>4 DEF Owing, Frees, Runs
  <2> QED BY <2>4, <2>5, <2>6, <2>7, <1>s, QuietSlots
<1> QED BY <1>1, <1>2, <1>3

\* A call of rank 0 ends and the engine keeps its lists.
LEMMA KeptSlots ==
  ASSUME Slots, ld'.pc = "idle", ld'.cmd = ld.cmd, meeting'[Leader] = "out", UNCHANGED <<wk, st, command, held, owed>>,
         \A w \in Workers : meeting'[w] = meeting[w]
  PROVE  Slots'
<1>s. /\ \A k \in Ranks : Living(k) => Reported(k) /\ \A q \in Ids : RankOK(k, q)
      /\ \A w \in Workers : Alive(w) => Owing(w) /\ WorkerFreed(w)
  BY DEF Slots
<1>1. ASSUME NEW w \in Workers PROVE Unmarks(w)' = Unmarks(w) BY DEF Unmarks
<1>2. ASSUME NEW k \in Ranks, Living(k), NEW q \in Ids PROVE RankOK(k, q)'
  <2>1. RankOK(k, q) BY <1>2, <1>s
  <2>2. RunAhead(k, q)' => RunAhead(k, q) BY DEF RunAhead
  <2> QED BY <2>1, <2>2, <1>1, RankKept
<1>3. ASSUME NEW k \in Ranks PROVE Reported(k)' BY DEF Reported
<1>4. ASSUME NEW w \in Workers, Alive(w) PROVE Owing(w)' /\ WorkerFreed(w)'
  BY <1>4, <1>s DEF Owing, WorkerFreed, FreedOn, Has
<1>5. LeaderFreed' BY DEF LeaderFreed
<1> QED BY <1>2, <1>3, <1>4, <1>5, QuietSlots

LEMMA AckSlots ==
  ASSUME TypeOK, Protocol, Slots, Acknowledged \/ AckTimeout
  PROVE  Slots'
<1>l. ld \in [pc: {"idle", "ack", "local", "status", "meet", "met", "commit"},
             cmd: Command, err: BOOLEAN, todo: SUBSET Workers]
  BY DEF TypeOK
<1>0. ld.pc = "ack" /\ ld.cmd.op = "commit_slot_releases" /\ meeting[Leader] = "out"
  BY DEF Acknowledged, AckTimeout, Protocol, LeaderOK
<1>1. CASE AckTimeout
  BY <1>0, <1>1, <1>l, KeptSlots DEF AckTimeout, Return, mailbox, engine
<1>2. CASE Acknowledged
  <2>1. /\ ld'.pc = "local" /\ ld'.cmd = ld.cmd /\ UNCHANGED <<command, meeting, wk, st, held, owed>>
    BY <1>2, <1>l DEF Acknowledged, mailbox, engine
  <2>s. /\ \A k \in Ranks : Living(k) => Reported(k) /\ \A q \in Ids : RankOK(k, q)
        /\ \A w \in Workers : Alive(w) => Owing(w) /\ WorkerFreed(w)
    BY DEF Slots
  <2>2. ASSUME NEW w \in Workers PROVE Unmarks(w)' = Unmarks(w) BY <2>1 DEF Unmarks
  <2>3. ASSUME NEW k \in Ranks, Living(k), NEW q \in Ids PROVE RankOK(k, q)'
    <3>1. RankOK(k, q) BY <2>3, <2>s
    <3>2. RunAhead(k, q)' => RunAhead(k, q) BY <1>0, <2>1 DEF RunAhead, Runs
    <3> QED BY <3>1, <3>2, <2>1, <2>2, RankKept
  <2>4. ASSUME NEW k \in Ranks, Living(k) PROVE Reported(k)'
    <3>1. k \in Workers => (Done(k)' <=> Done(k)) BY <2>1 DEF Done
    <3>2. Reported(k) BY <2>4, <2>s
    <3> QED BY <1>0, <2>1, <3>1, <3>2 DEF Reported, Clean, Has
  <2>5. ASSUME NEW w \in Workers, Alive(w) PROVE Owing(w)' /\ WorkerFreed(w)'
    BY <2>5, <2>s, <2>1, <1>0 DEF Owing, WorkerFreed, FreedOn, Has
  <2>6. LeaderFreed' BY <2>1 DEF LeaderFreed
  <2> QED BY <2>1, <2>3, <2>4, <2>5, <2>6, QuietSlots
<1> QED BY <1>1, <1>2

LEMMA HostSlots ==
  ASSUME TypeOK, Protocol, Slots, HostTimeout \/ HostDone \/ \E w \in Workers : HostCollect(w)
  PROVE  Slots'
<1>t. /\ ld \in [pc: {"idle", "ack", "local", "status", "meet", "met", "commit"},
                 cmd: Command, err: BOOLEAN, todo: SUBSET Workers]
      /\ completed \in [Workers -> BOOLEAN] /\ status \in [Workers -> {"pending", "success", "failed"}]
  BY DEF TypeOK
<1>0. ld.pc = "status" /\ Kind(ld.cmd.op) = "host" /\ meeting[Leader] = "out" /\ ld.cmd.op \in SetupOps
  BY DEF HostTimeout, HostDone, HostCollect, Protocol, LeaderOK
<1>o. ld.cmd.op # "free_slots" /\ ld.cmd.op # "commit_slot_releases" BY <1>0 DEF SetupOps, Kind
<1>s. /\ \A k \in Ranks : Living(k) => Reported(k) /\ \A q \in Ids : RankOK(k, q)
      /\ \A w \in Workers : Alive(w) => Owing(w) /\ WorkerFreed(w)
      /\ LeaderFreed
  BY DEF Slots
<1>1. CASE HostTimeout
  BY <1>0, <1>1, <1>t, KeptSlots DEF HostTimeout, Return, mailbox, engine
<1>2. CASE HostDone
  <2>0. ld.todo = {} /\ UNCHANGED <<command, status, completed, meeting, wk, st>> BY <1>2 DEF HostDone, mailbox
  <2>1. CASE ~(~ld.err /\ ld.cmd.op = "retire_async")
    <3>1. Return(ld.err) BY <1>2, <2>1 DEF HostDone
    <3>2. ld'.pc = "idle" /\ ld'.cmd = ld.cmd /\ UNCHANGED <<held, owed>> BY <3>1, <1>t, <1>o DEF Return, engine
    <3> QED BY <1>0, <2>0, <3>2, KeptSlots
  <2>2. CASE ~ld.err /\ ld.cmd.op = "retire_async"
    <3>1. ld'.pc = "commit" /\ ld'.cmd = ld.cmd /\ UNCHANGED <<held, owed>> BY <1>2, <2>2, <1>t DEF HostDone, engine
    <3>2. ASSUME NEW w \in Workers PROVE Unmarks(w)' = Unmarks(w) BY <2>0 DEF Unmarks
    <3>3. ASSUME NEW k \in Ranks, Living(k), NEW q \in Ids PROVE RankOK(k, q)'
      <4>1. RankOK(k, q) BY <3>3, <1>s
      <4>2. RunAhead(k, q)' => RunAhead(k, q) BY <2>0, <3>1 DEF RunAhead
      <4> QED BY <4>1, <4>2, <2>0, <3>1, <3>2, RankKept
    <3>4. ASSUME NEW k \in Ranks, Living(k) PROVE Reported(k)'
      <4>1. FreedOn(k, ld.cmd.ids)
        <5>1. CASE k = Leader BY <5>1, <1>s, <1>0, <2>2 DEF LeaderFreed, Frees
        <5>2. CASE k \in Workers BY <5>2, <3>4, <1>s, <1>0, <2>0, <2>2 DEF WorkerFreed, Living
        <5> QED BY <5>1, <5>2 DEF Ranks
      <4> QED BY <4>1, <2>0, <2>2, <3>1, <1>o DEF Reported, FreedOn, Has
    <3>5. ASSUME NEW w \in Workers, Alive(w) PROVE Owing(w)' /\ WorkerFreed(w)'
      BY <3>5, <1>s, <2>0, <3>1 DEF Owing, WorkerFreed, FreedOn, Has
    <3>6. LeaderFreed' BY <3>1 DEF LeaderFreed
    <3> QED BY <2>0, <3>3, <3>4, <3>5, <3>6, QuietSlots
  <2> QED BY <2>1, <2>2
<1>3. ASSUME NEW v \in Workers, HostCollect(v) PROVE Slots'
  <2>0. /\ v \in ld.todo /\ completed[v] /\ completed' = [completed EXCEPT ![v] = FALSE]
        /\ UNCHANGED <<command, status, meeting, wk, st>>
    BY <1>3 DEF HostCollect
  <2>1. status[v] # "pending" BY <2>0, <1>0 DEF Protocol, Answer
  <2>2. /\ ld'.pc = ld.pc /\ ld'.cmd = ld.cmd /\ ld'.todo = ld.todo \ {v} /\ UNCHANGED <<held, owed>>
        /\ ~ld'.err => ~ld.err /\ status[v] = "success"
    BY <1>3, <2>1, <1>t DEF HostCollect, Collects, engine
  <2>3. ASSUME NEW w \in Workers PROVE Unmarks(w)' = Unmarks(w) BY <2>0 DEF Unmarks
  <2>4. ASSUME NEW k \in Ranks, Living(k), NEW q \in Ids PROVE RankOK(k, q)'
    <3>1. RankOK(k, q) BY <2>4, <1>s
    <3>2. RunAhead(k, q)' => RunAhead(k, q) BY <2>0, <2>2 DEF RunAhead
    <3> QED BY <3>1, <3>2, <2>0, <2>2, <2>3, RankKept
  <2>5. ASSUME NEW k \in Ranks PROVE Reported(k)' BY <1>0, <1>o, <2>0, <2>2 DEF Reported
  <2>6. ASSUME NEW w \in Workers, Alive(w) PROVE Owing(w)' BY <2>6, <1>s, <2>0, <2>2 DEF Owing
  <2>7. ASSUME NEW w \in Workers, Alive(w) PROVE WorkerFreed(w)'
    <3>1. WorkerFreed(w) BY <2>7, <1>s
    <3>2. completed'[w] => completed[w] /\ w # v BY <1>t, <2>0
    <3> QED BY <3>1, <3>2, <1>0, <2>0, <2>2 DEF WorkerFreed, FreedOn, Has
  <2>8. LeaderFreed' BY <1>s, <1>0, <2>0, <2>2 DEF LeaderFreed, FreedOn, Has
  <2> QED BY <2>0, <2>4, <2>5, <2>6, <2>7, <2>8, QuietSlots
<1> QED BY <1>1, <1>2, <1>3

LEMMA MeetSlots ==
  ASSUME TypeOK, Protocol, Slots, LeaderMeets
  PROVE  Slots'
<1>k. Leader \in Ranks /\ Leader \notin Workers /\ Workers \subseteq Ranks
  BY TensorParallelAssumption DEF Ranks
<1>t. /\ ld \in [pc: {"idle", "ack", "local", "status", "meet", "met", "commit"},
                 cmd: Command, err: BOOLEAN, todo: SUBSET Workers]
      /\ meeting \in [Ranks -> {"out", "ok", "error", "all ok", "some error"}]
  BY DEF TypeOK
<1>s. /\ \A k \in Ranks : Living(k) => Reported(k) /\ \A q \in Ids : RankOK(k, q)
      /\ \A w \in Workers : Alive(w) => Owing(w) /\ WorkerFreed(w)
      /\ LeaderFreed
  BY DEF Slots
<1>1. /\ ld.pc = "meet" /\ ld'.pc = "met" /\ ld'.cmd = ld.cmd /\ ld'.err = ld.err /\ ld'.todo = ld.todo
      /\ meeting'[Leader] \in {"ok", "error"} /\ meeting[Leader] = "out"
      /\ UNCHANGED <<command, status, completed, wk, st, held, owed>>
  BY <1>k, <1>t DEF LeaderMeets, mailbox, engine, Protocol, LeaderOK
<1>2. ASSUME NEW w \in Workers PROVE meeting'[w] = meeting[w] BY <1>k, <1>t DEF LeaderMeets
<1>3. ASSUME NEW w \in Workers PROVE Unmarks(w)' = Unmarks(w) BY <1>1, <1>2 DEF Unmarks
<1>4. ASSUME NEW k \in Ranks, Living(k), NEW q \in Ids PROVE RankOK(k, q)'
  <2>1. RankOK(k, q) BY <1>4, <1>s
  <2>2. RunAhead(k, q)' => RunAhead(k, q) BY <1>1 DEF RunAhead
  <2> QED BY <2>1, <2>2, <1>1, <1>3, RankKept
<1>5. ASSUME NEW k \in Ranks PROVE Reported(k)' BY <1>1 DEF Reported
<1>6. ASSUME NEW w \in Workers, Alive(w) PROVE Owing(w)' BY <1>6, <1>s, <1>1 DEF Owing
<1>7. ASSUME NEW w \in Workers, Alive(w) PROVE WorkerFreed(w)'
  BY <1>7, <1>s, <1>1, <1>2 DEF WorkerFreed, FreedOn, Has
<1>8. LeaderFreed' BY <1>s, <1>1 DEF LeaderFreed, FreedOn, Has
<1> QED BY <1>1, <1>4, <1>5, <1>6, <1>7, <1>8, QuietSlots

\* A collective of all ranks that went well follows a release on each of them.
LEMMA ReduceSlots ==
  ASSUME TypeOK, Protocol, Slots, AllReduce
  PROVE  Slots'
<1>k. Leader \in Ranks /\ Leader \notin Workers /\ Workers \subseteq Ranks
  BY TensorParallelAssumption DEF Ranks
<1>t. meeting \in [Ranks -> {"out", "ok", "error", "all ok", "some error"}] BY DEF TypeOK
<1>s. /\ \A k \in Ranks : Living(k) => Reported(k) /\ \A q \in Ids : RankOK(k, q)
      /\ \A w \in Workers : Alive(w) => Owing(w) /\ WorkerFreed(w)
      /\ LeaderFreed
  BY DEF Slots
<1>1. UNCHANGED <<command, status, completed, ld, wk, st, held, owed>>
  BY DEF AllReduce, mailbox, engine
<1>2. PICK out \in Reduced :
        /\ \A k \in Ranks : meeting'[k] = IF meeting[k] \in {"ok", "error"} THEN out ELSE meeting[k]
        /\ out = "all ok" => (\A w \in Workers : Alive(w)) /\ \A k \in Ranks : meeting[k] # "error"
        /\ (\A w \in Workers : Alive(w)) => \A k \in Ranks : meeting[k] \in {"ok", "error"}
  <2> DEFINE in == {k \in Ranks : meeting[k] \in {"ok", "error"}}
             dead == {w \in Workers : ~Alive(w)}
             failed == dead # {} \/ \E k \in in : meeting[k] = "error"
             res == IF failed THEN "some error" ELSE "all ok"
  <2>1. /\ in = Ranks \/ (in # {} /\ dead # {})
        /\ meeting' = [k \in Ranks |-> IF k \in in THEN res ELSE meeting[k]]
    BY DEF AllReduce
  <2>2. res \in Reduced BY DEF Reduced
  <2>3. \A k \in Ranks : meeting'[k] = IF meeting[k] \in {"ok", "error"} THEN res ELSE meeting[k] BY <2>1
  <2>4. res = "all ok" => (\A w \in Workers : Alive(w)) /\ \A k \in Ranks : meeting[k] # "error" OBVIOUS
  <2>5. (\A w \in Workers : Alive(w)) => \A k \in Ranks : meeting[k] \in {"ok", "error"} BY <2>1
  <2> QED BY <2>2, <2>3, <2>4, <2>5
<1>3. ASSUME out = "all ok", NEW k \in Ranks, meeting[k] \in {"ok", "error"}
      PROVE  meeting[k] = "ok" /\ (\A j \in Ranks : meeting[j] = "ok") /\ \A w \in Workers : Alive(w)
  BY <1>2, <1>3
<1>4. ASSUME NEW w \in Workers, Alive(w), NEW q \in Unmarks(w)' PROVE q \in Unmarks(w) \/ (~Has(w, q) /\ q \in wk[w].cmd.ids)
  <2>1. CASE meeting'[w] = meeting[w] BY <2>1, <1>4, <1>1 DEF Unmarks
  <2>2. CASE meeting'[w] # meeting[w]
    <3>1. meeting[w] \in {"ok", "error"} /\ meeting'[w] = out BY <1>2, <1>k, <2>2
    <3>2. wk[w].pc = "met" BY <3>1, <1>k DEF Protocol, WorkerOK
    <3>3. out = "all ok" /\ wk[w].cmd.op = "free_slots" /\ q \in wk[w].cmd.ids
      BY <1>1, <1>4, <3>1, <3>2 DEF Unmarks
    <3>4. meeting[w] = "ok" BY <1>3, <1>k, <3>1, <3>3
    <3>5. ~wk[w].err BY <3>4 DEF Protocol, WorkerOK
    <3>6. FreedOn(w, wk[w].cmd.ids) BY <1>s, <1>4, <3>3, <3>4, <3>5 DEF WorkerFreed, Frees
    <3> QED BY <3>3, <3>6 DEF FreedOn
  <2> QED BY <2>1, <2>2
<1>5. ASSUME NEW w \in Workers, NEW q \in Unmarks(w) PROVE q \in Unmarks(w)'
  <2>1. meeting[w] = "all ok" => meeting'[w] = "all ok" BY <1>2, <1>k
  <2> QED BY <2>1, <1>1, <1>5 DEF Unmarks
<1>6. ASSUME NEW k \in Ranks, Living(k), NEW q \in Ids PROVE RankOK(k, q)'
  <2>1. RankOK(k, q) BY <1>6, <1>s
  <2>2. RunAhead(k, q)' <=> RunAhead(k, q) BY <1>1 DEF RunAhead
  <2>3. Has(k, q)' <=> Has(k, q) BY <1>1 DEF Has
  <2>4. k \in Workers /\ q \in Unmarks(k) => q \in Unmarks(k)' BY <1>5
  <2>5. k \in Workers /\ q \in Unmarks(k)' => ~Has(k, q) BY <1>4, <1>6, <2>1 DEF RankOK, Living
  <2> QED BY <2>1, <2>2, <2>3, <2>4, <2>5, <1>1 DEF RankOK
<1>7. ASSUME NEW k \in Ranks, Living(k) PROVE Reported(k)'
  <2>1. Reported(k) BY <1>7, <1>s
  <2>2. k \in Workers /\ Done(k)' /\ ld.cmd.op = "commit_slot_releases" => Done(k)
    <3> SUFFICES ASSUME k \in Workers, Done(k)', ld.cmd.op = "commit_slot_releases" PROVE Done(k) OBVIOUS
    <3>1. wk[k].cmd = ld.cmd /\ ~command[k] /\ wk[k].pc \in {"wait", "met"} BY <1>1 DEF Done
    <3>2. wk[k].pc # "met" BY <3>1 DEF Protocol, WorkerOK, Kind
    <3> QED BY <3>1, <3>2 DEF Done
  <2>3. ASSUME ld.cmd.op = "free_slots", meeting'[Leader] = "all ok"
        PROVE  Clean(k, ld.cmd.ids)
                 /\ (k \in Workers /\ wk[k].pc = "wait" => \A q \in ld.cmd.ids : st[k].mark[q] = "none")
    <3>1. CASE meeting[Leader] = "all ok" BY <2>1, <2>3, <3>1 DEF Reported
    <3>2. CASE meeting[Leader] # "all ok"
      <4>1. meeting[Leader] \in {"ok", "error"} /\ out = "all ok" BY <1>2, <1>k, <2>3, <3>2
      <4>2. (\A j \in Ranks : meeting[j] = "ok") /\ \A w \in Workers : Alive(w) BY <1>3, <1>k, <4>1
      <4>3. CASE k = Leader
        <5>1. ld.pc = "met" /\ ~ld.err BY <4>2, <1>k DEF Protocol, LeaderOK
        <5>2. FreedOn(Leader, ld.cmd.ids) BY <5>1, <1>s, <4>2, <1>k, <2>3 DEF LeaderFreed, Frees
        <5> QED BY <4>3, <5>2, <1>k DEF FreedOn, Clean
      <4>4. CASE k \in Workers
        <5>1. meeting[k] = "ok" /\ meeting[Leader] = "ok" BY <4>2, <1>k
        <5>2. wk[k].pc = "met" /\ ~wk[k].err /\ ld.pc = "met" BY <5>1, <4>4 DEF Protocol, WorkerOK, LeaderOK
        <5>3. Tight(k) BY <4>2, <4>4 DEF Protocol, Broken
        <5>4. wk[k].cmd = ld.cmd BY <5>1, <5>2, <5>3 DEF Tight, Working, Lagging, Reduced
        <5>5. FreedOn(k, ld.cmd.ids) BY <5>1, <5>2, <5>4, <4>2, <4>4, <1>s, <2>3 DEF WorkerFreed, Frees
        <5> QED BY <5>2, <5>5 DEF FreedOn, Clean
      <4> QED BY <4>3, <4>4 DEF Ranks
    <3> QED BY <3>1, <3>2
  <2> QED BY <2>1, <2>2, <2>3, <1>1 DEF Reported, FreedOn, Clean, Has
<1>8. ASSUME NEW w \in Workers, Alive(w) PROVE Owing(w)' BY <1>8, <1>s, <1>1 DEF Owing
<1>9. ASSUME NEW w \in Workers, Alive(w) PROVE WorkerFreed(w)'
  <2>1. meeting'[w] # "ok" BY <1>2, <1>k DEF Reduced
  <2> QED BY <1>9, <1>s, <1>1, <2>1 DEF WorkerFreed, FreedOn, Has
<1>10. LeaderFreed'
  <2>1. meeting'[Leader] # "some error" => meeting[Leader] # "some error" BY <1>2, <1>k
  <2> QED BY <2>1, <1>s, <1>1 DEF LeaderFreed, FreedOn, Has
<1> QED BY <1>1, <1>6, <1>7, <1>8, <1>9, <1>10, QuietSlots

\* A release is reported: the engine takes the ids off its lists.
LEMMA GivenBackSlots ==
  ASSUME TypeOK, Slots, ld.cmd.op \in {"free_slots", "commit_slot_releases"},
         ld'.pc = "idle", ld'.cmd = ld.cmd, meeting'[Leader] = "out", UNCHANGED <<wk, command>>,
         \A w \in Workers : meeting'[w] = meeting[w] /\ st'[w] = st[w],
         held' = held \ ld.cmd.ids, owed' = owed \ ld.cmd.ids,
         CommitEffect(st[Leader], st'[Leader], ld.cmd.ids),
         \A k \in Ranks : Living(k) => Clean(k, ld.cmd.ids),
         \A w \in Workers : Alive(w) =>
           /\ ~command[w] /\ (wk[w].pc \in {"clear", "exec"} => wk[w].cmd.op = "commit_slot_releases")
           /\ \A q \in ld.cmd.ids : st[w].mark[q] = "none" \/ q \in Unmarks(w)
  PROVE  Slots'
<1>k. Leader \in Ranks /\ Leader \notin Workers BY TensorParallelAssumption DEF Ranks
<1>s. /\ \A k \in Ranks : Living(k) => \A q \in Ids : RankOK(k, q)
      /\ \A w \in Workers : Alive(w) => Owing(w) /\ WorkerFreed(w)
      /\ CleanMarkers
  BY DEF Slots
<1>a. /\ \A k \in Ranks : Living(k)' <=> Living(k)
      /\ \A w \in Workers : Alive(w)' <=> Alive(w)
  BY DEF Living, Alive
<1>1. ASSUME NEW w \in Workers PROVE Unmarks(w)' = Unmarks(w) BY DEF Unmarks
<1>2. ASSUME NEW q \in Ids PROVE RankOK(Leader, q)'
  <2>1. RankOK(Leader, q) /\ Clean(Leader, ld.cmd.ids) BY <1>k, <1>s DEF Living
  <2>2. ~RunAhead(Leader, q)' BY <1>k DEF RunAhead
  <2>3. Has(Leader, q)' <=> Has(Leader, q) BY DEF Has, CommitEffect
  <2>4. q \in ld.cmd.ids => ~Has(Leader, q) BY <2>1 DEF Clean
  <2>5. st'[Leader].mark[q] = IF q \in ld.cmd.ids THEN "none" ELSE st[Leader].mark[q] BY DEF CommitEffect
  <2>6. q \in st'[Leader].torn <=> q \in st[Leader].torn BY DEF CommitEffect
  <2>7. q \in st[Leader].torn => Has(Leader, q) BY DEF Has
  <2> QED BY <1>k, <2>1, <2>2, <2>3, <2>4, <2>5, <2>6, <2>7 DEF RankOK
<1>3. ASSUME NEW w \in Workers, Alive(w), NEW q \in Ids PROVE RankOK(w, q)'
  <2>1. RankOK(w, q) /\ Clean(w, ld.cmd.ids) BY <1>3, <1>s DEF Living, Ranks
  <2>2. ~RunAhead(w, q)' BY <1>k, <1>3 DEF RunAhead, Runs
  <2>3. (Has(w, q)' <=> Has(w, q)) /\ st'[w] = st[w] BY DEF Has
  <2>4. q \in ld.cmd.ids => ~Has(w, q) /\ (st[w].mark[q] = "none" \/ q \in Unmarks(w)) BY <1>3, <2>1 DEF Clean
  <2> QED BY <1>1, <2>1, <2>2, <2>3, <2>4 DEF RankOK
<1>4. ASSUME NEW k \in Ranks PROVE Reported(k)' BY DEF Reported
<1>5. ASSUME NEW w \in Workers, Alive(w) PROVE Owing(w)' /\ WorkerFreed(w)'
  BY <1>5, <1>s DEF Owing, Frees, WorkerFreed, FreedOn, Has
<1>6. LeaderFreed' BY DEF LeaderFreed
<1>7. CleanMarkers'
  <2>1. ASSUME NEW k \in Ranks, NEW q \in st'[k].own PROVE st'[k].mark[q] # "released"
    <3>1. CASE k = Leader
      <4>1. q \in st[Leader].own BY <2>1, <3>1 DEF CommitEffect
      <4>2. q \in Ids BY <1>k, <4>1 DEF TypeOK, RankState
      <4> QED BY <1>k, <1>s, <3>1, <4>1, <4>2 DEF CommitEffect, CleanMarkers
    <3>2. CASE k \in Workers BY <2>1, <3>2, <1>s DEF CleanMarkers
    <3> QED BY <3>1, <3>2 DEF Ranks
  <2> QED BY <2>1 DEF CleanMarkers
<1>8. ASSUME NEW k \in Ranks, Living(k), NEW q \in Ids PROVE RankOK(k, q)'
  BY <1>2, <1>3, <1>8 DEF Ranks, Living
<1> QED BY <1>a, <1>4, <1>5, <1>6, <1>7, <1>8 DEF Slots

\* What a rank unmarks.
LEMMA UnmarkedFields ==
  ASSUME NEW s \in RankState, NEW ids
  PROVE  CommitEffect(s, Unmarked(s, ids), ids)
BY DEF CommitEffect, Unmarked, RankState

LEMMA LeaveSlots ==
  ASSUME TypeOK, Protocol, Slots, LeaderLeaves
  PROVE  Slots'
<1>k. Leader \in Ranks /\ Leader \notin Workers /\ Workers \subseteq Ranks
  BY TensorParallelAssumption DEF Ranks
<1>t. /\ ld \in [pc: {"idle", "ack", "local", "status", "meet", "met", "commit"},
                 cmd: Command, err: BOOLEAN, todo: SUBSET Workers]
      /\ meeting \in [Ranks -> {"out", "ok", "error", "all ok", "some error"}]
      /\ st \in [Ranks -> RankState]
  BY DEF TypeOK
<1>s. \A k \in Ranks : Living(k) => Reported(k) BY DEF Slots
<1>1. /\ ld.pc = "met" /\ ld'.pc = "idle" /\ ld'.cmd = ld.cmd /\ meeting[Leader] \in Reduced /\ meeting'[Leader] = "out"
      /\ UNCHANGED <<wk, command>> /\ \A w \in Workers : meeting'[w] = meeting[w]
  BY <1>k, <1>t DEF LeaderLeaves, Return, mailbox, Reduced
<1>2. PICK raised \in BOOLEAN : /\ raised <=> meeting[Leader] = "some error"
                                /\ Return(raised) /\ CommitsAfter(Leader, ld.cmd, raised)
  BY DEF LeaderLeaves
<1>3. CASE ~(~raised /\ ld.cmd.op = "free_slots")
  <2>1. ld.cmd.op # "commit_slot_releases" BY <1>1 DEF Protocol, LeaderOK, Kind
  <2>2. UNCHANGED <<st, held, owed>> BY <1>2, <1>3, <2>1 DEF Return, CommitsAfter, engine
  <2> QED BY <1>1, <2>2, KeptSlots
<1>4. CASE ~raised /\ ld.cmd.op = "free_slots"
  <2>1. /\ st' = [st EXCEPT ![Leader] = Unmarked(@, ld.cmd.ids)]
        /\ held' = held \ ld.cmd.ids /\ owed' = owed \ ld.cmd.ids
    BY <1>2, <1>4 DEF Return, CommitsAfter
  <2>2. CommitEffect(st[Leader], st'[Leader], ld.cmd.ids) BY <1>k, <1>t, <2>1, UnmarkedFields
  <2>3. ASSUME NEW w \in Workers PROVE st'[w] = st[w] BY <1>k, <1>t, <2>1
  <2>4. meeting[Leader] = "all ok" BY <1>1, <1>2, <1>4 DEF Reduced
  <2>5. ASSUME NEW k \in Ranks, Living(k) PROVE Clean(k, ld.cmd.ids) BY <2>5, <1>s, <1>4, <2>4 DEF Reported
  <2>6. ASSUME NEW w \in Workers, Alive(w)
        PROVE  /\ ~command[w] /\ (wk[w].pc \in {"clear", "exec"} => wk[w].cmd.op = "commit_slot_releases")
               /\ \A q \in ld.cmd.ids : st[w].mark[q] = "none" \/ q \in Unmarks(w)
    <3>1. Tight(w) BY <2>4, <2>6 DEF Protocol, Broken
    <3>2. Done(w) /\ (wk[w].pc = "met" => meeting[w] = "all ok") BY <3>1, <1>1, <2>4 DEF Tight
    <3>3. CASE wk[w].pc = "met"
      <4>1. Unmarks(w) = ld.cmd.ids BY <3>2, <3>3, <1>4 DEF Done, Unmarks
      <4> QED BY <3>2, <3>3, <4>1 DEF Done
    <3>4. CASE wk[w].pc = "wait"
      <4>1. Reported(w) BY <1>k, <1>s, <2>6 DEF Living
      <4> QED BY <3>2, <3>4, <4>1, <1>4, <2>4 DEF Done, Reported
    <3> QED BY <3>2, <3>3, <3>4 DEF Done
  <2> QED BY <1>1, <1>4, <2>1, <2>2, <2>3, <2>5, <2>6, GivenBackSlots
<1> QED BY <1>3, <1>4

LEMMA LocalSlots ==
  ASSUME TypeOK, Protocol, Slots, LocalRun
  PROVE  Slots'
<1>k. Leader \in Ranks /\ Leader \notin Workers /\ Workers \subseteq Ranks
  BY TensorParallelAssumption DEF Ranks
<1>t. /\ ld \in [pc: {"idle", "ack", "local", "status", "meet", "met", "commit"},
                 cmd: Command, err: BOOLEAN, todo: SUBSET Workers]
      /\ ld.cmd \in Command /\ ld.cmd.ids \subseteq Ids
  BY DEF TypeOK, Command
<1>s. /\ \A k \in Ranks : Living(k) => Reported(k) /\ \A q \in Ids : RankOK(k, q)
      /\ \A w \in Workers : Alive(w) => Owing(w) /\ WorkerFreed(w)
      /\ CleanMarkers
  BY DEF Slots
<1>r. st[Leader] \in RankState BY <1>k DEF TypeOK
<1>l. \A q \in Ids : RankOK(Leader, q) BY <1>k, <1>s DEF Living
<1>m. Marked(st[Leader]) BY <1>k, <1>l, <1>s, <1>r DEF Marked, RankOK, CleanMarkers, RankState
<1>0. /\ ld.pc = "local" /\ UNCHANGED <<command, status, completed, meeting, wk>> /\ meeting[Leader] = "out"
      /\ ld.cmd.op \in SetupOps /\ ld.todo = Workers
  BY DEF LocalRun, mailbox, Protocol, LeaderOK
<1>1. PICK err \in BOOLEAN :
        /\ Execute(Leader, ld.cmd, err)
        /\ IF Kind(ld.cmd.op) = "ack" THEN Return(FALSE)
           ELSE /\ ld' = [ld EXCEPT !.err = err, !.pc = IF Kind(ld.cmd.op) = "host" THEN "status" ELSE "meet"]
                /\ UNCHANGED engine
  BY DEF LocalRun
<1>2. /\ \A j \in Ranks \ {Leader} : st'[j] = st[j]
      /\ ld.cmd.op \in Runs => RunEffect(st[Leader], st'[Leader], ld.cmd.ids)
      /\ ld.cmd.op \in Frees => FreeEffect(st[Leader], st'[Leader], ld.cmd.ids, err) /\ Marked(st'[Leader])
      /\ ld.cmd.op = "commit_slot_releases" => ~err /\ CommitEffect(st[Leader], st'[Leader], ld.cmd.ids)
  BY <1>1, <1>k, <1>t, <1>m, Effects
<1>w. ASSUME NEW w \in Workers PROVE st'[w] = st[w] BY <1>2, <1>k
<1>3. CASE ld.cmd.op = "commit_slot_releases"
  <2>1. Kind(ld.cmd.op) = "ack" BY <1>3 DEF Kind
  <2>2. ld'.pc = "idle" /\ ld'.cmd = ld.cmd /\ held' = held \ ld.cmd.ids /\ owed' = owed \ ld.cmd.ids
    BY <1>1, <1>3, <1>t, <2>1 DEF Return
  <2>3. ASSUME NEW k \in Ranks, Living(k) PROVE Clean(k, ld.cmd.ids) BY <2>3, <1>s, <1>0, <1>3 DEF Reported
  <2>4. ASSUME NEW w \in Workers, Alive(w)
        PROVE  /\ ~command[w] /\ (wk[w].pc \in {"clear", "exec"} => wk[w].cmd.op = "commit_slot_releases")
               /\ \A q \in ld.cmd.ids : st[w].mark[q] = "none" \/ q \in Unmarks(w)
    <3>1. setup.async BY <1>0, <1>3 DEF SetupOps
    <3>2. Tight(w) BY <2>4, <3>1 DEF Protocol, Broken
    <3>3. CASE Done(w)
      <4>1. Reported(w) BY <1>k, <1>s, <2>4 DEF Living
      <4> QED BY <3>3, <4>1, <1>0, <1>3 DEF Done, Reported
    <3>4. CASE Acked(w)
      <4>1. Unmarks(w) = ld.cmd.ids BY <3>4 DEF Acked, Unmarks
      <4> QED BY <3>4, <4>1 DEF Acked
    <3> QED BY <3>2, <3>3, <3>4, <1>0, <2>1 DEF Tight
  <2> QED BY <1>0, <1>2, <1>3, <1>w, <2>2, <2>3, <2>4, GivenBackSlots
<1>4. CASE ld.cmd.op # "commit_slot_releases"
  <2>1. Kind(ld.cmd.op) \in {"host", "collective"} /\ ld.cmd.op \in Runs \cup Frees
    BY <1>0, <1>4 DEF Kind, SetupOps, Runs, Frees
  <2>2. /\ ld'.pc \in {"status", "meet"} /\ ld'.cmd = ld.cmd /\ ld'.err = err /\ ld'.todo = Workers
        /\ UNCHANGED <<held, owed>>
    BY <1>0, <1>1, <1>t, <2>1 DEF engine
  <2>a. /\ \A k \in Ranks : Living(k)' <=> Living(k)
        /\ \A w \in Workers : Alive(w)' <=> Alive(w)
    BY <1>0 DEF Living, Alive
  <2>3. ASSUME NEW q \in Ids PROVE RankOK(Leader, q)'
    <3>0. ~RunAhead(Leader, q)' BY <1>k, <2>2 DEF RunAhead
    <3>1. RankOK(Leader, q) BY <1>l
    <3>2. CASE ld.cmd.op \in Runs
      <4>1. q \in ld.cmd.ids => q \in held BY <3>1, <3>2, <1>0 DEF RankOK, RunAhead
      <4>2. /\ st'[Leader].mark = st[Leader].mark /\ st'[Leader].torn = st[Leader].torn
            /\ st'[Leader].own \subseteq st[Leader].own \cup ld.cmd.ids
        BY <1>2, <3>2 DEF RunEffect
      <4> QED BY <3>0, <3>1, <4>1, <4>2, <2>2, <1>k DEF RankOK, Has
    <3>3. CASE ld.cmd.op \in Frees
      <4>1. q \in ld.cmd.ids => q \in held BY <3>3, <1>0 DEF Protocol, LeaderOK, TypeOK
      <4>2. /\ st'[Leader].own \subseteq st[Leader].own /\ st'[Leader].torn \subseteq st[Leader].torn \cup ld.cmd.ids
            /\ q \notin ld.cmd.ids => st'[Leader].mark[q] = st[Leader].mark[q]
            /\ q \in st'[Leader].torn => st'[Leader].mark[q] = "failed"
        BY <1>2, <3>3 DEF FreeEffect, Marked
      <4> QED BY <3>0, <3>1, <4>1, <4>2, <2>2, <1>k DEF RankOK, Has
    <3> QED BY <2>1, <3>2, <3>3
  <2>4. ASSUME NEW w \in Workers, Alive(w), NEW q \in Ids PROVE RankOK(w, q)'
    <3>1. RankOK(w, q) BY <1>s, <1>k, <2>4 DEF Living
    <3>2. RunAhead(w, q)' => RunAhead(w, q) BY <1>k, <1>0, <2>2 DEF RunAhead
    <3>3. Unmarks(w)' = Unmarks(w) BY <1>0 DEF Unmarks
    <3> QED BY <3>1, <3>2, <3>3, <1>w, <2>2, RankKept
  <2>5. ASSUME NEW k \in Ranks PROVE Reported(k)' BY <1>0, <1>4, <2>2 DEF Reported
  <2>6. ASSUME NEW w \in Workers, Alive(w) PROVE Owing(w)' /\ WorkerFreed(w)'
    BY <2>6, <1>s, <1>0, <1>w, <2>2 DEF Owing, WorkerFreed, FreedOn, Has
  <2>7. LeaderFreed' BY <1>2, <2>2 DEF LeaderFreed, FreeEffect, FreedOn, Has
  <2>8. CleanMarkers'
    <3>1. ASSUME NEW q \in st'[Leader].own PROVE st'[Leader].mark[q] # "released"
      <4>1. CASE ld.cmd.op \in Frees BY <3>1, <4>1, <1>2 DEF Marked
      <4>2. CASE ld.cmd.op \in Runs
        <5>1. q \in st[Leader].own \cup ld.cmd.ids /\ st'[Leader].mark = st[Leader].mark
          BY <3>1, <4>2, <1>2 DEF RunEffect
        <5>2. q \in ld.cmd.ids => st[Leader].mark[q] = "none"
          BY <4>2, <1>0, <1>k, <1>l, <1>t DEF RankOK, RunAhead
        <5> QED BY <5>1, <5>2, <1>m DEF Marked
      <4> QED BY <2>1, <4>1, <4>2
    <3>2. ASSUME NEW w \in Workers, NEW q \in st'[w].own PROVE st'[w].mark[q] # "released"
      BY <3>2, <1>k, <1>s, <1>w DEF CleanMarkers
    <3> QED BY <3>1, <3>2 DEF CleanMarkers, Ranks
  <2>9. ASSUME NEW k \in Ranks, Living(k), NEW q \in Ids PROVE RankOK(k, q)'
    BY <2>3, <2>4, <2>9 DEF Ranks, Living
  <2> QED BY <2>a, <2>5, <2>6, <2>7, <2>8, <2>9 DEF Slots
<1> QED BY <1>3, <1>4

\* Where a living worker is while a release is on its way back to the engine.
LEMMA Places ==
  ASSUME TypeOK, Protocol, NEW w \in Workers, Alive(w)
  PROVE  /\ ld.pc = "commit" => Done(w)
         /\ ld.cmd.op = "commit_slot_releases" /\ ld.pc \in {"ack", "local"} => Working(w) \/ Done(w) \/ Acked(w)
         /\ ld.cmd.op = "commit_slot_releases" /\ command[w] => ld.pc = "ack"
         /\ ld.cmd.op = "retire_async" /\ ld.pc \in {"local", "status"} =>
              IF w \in ld.todo /\ ~completed[w] THEN Working(w) \/ Lagging(w) ELSE Done(w)
         /\ meeting[Leader] = "all ok" => Done(w) /\ (wk[w].pc = "met" => meeting[w] = "all ok")
<1>p. LeaderOK /\ WorkerOK(w) /\ (Broken \/ Tight(w)) BY DEF Protocol
<1>1. ASSUME ld.cmd.op \in {"retire_async", "commit_slot_releases"}, calls # 0 PROVE Tight(w)
  BY <1>1, <1>p DEF LeaderOK, SetupOps, Broken
<1>2. ld.pc = "commit" => Done(w) BY <1>1, <1>p DEF LeaderOK, Tight
<1>3. ld.cmd.op = "commit_slot_releases" /\ ld.pc \in {"ack", "local"} => Working(w) \/ Done(w) \/ Acked(w)
  BY <1>1, <1>p DEF LeaderOK, Tight, Kind
<1>4. ASSUME ld.cmd.op = "commit_slot_releases", command[w] PROVE ld.pc = "ack"
  <2>1. calls # 0 /\ Kind(ld.cmd.op) = "ack" BY <1>4, <1>p DEF WorkerOK, Kind
  <2>2. Tight(w) BY <2>1, <1>1, <1>4
  <2>3. ~Done(w) /\ ~Acked(w) BY <1>4 DEF Done, Acked
  <2>4. ld.pc \in {"idle", "ack", "local", "status", "meet", "met", "commit"} BY DEF TypeOK
  <2>5. ld.pc # "commit" /\ ld.pc # "status" /\ ld.pc # "meet" /\ ld.pc # "met" BY <1>p, <1>4, <2>1 DEF LeaderOK
  <2> QED BY <2>1, <2>2, <2>3, <2>4, <2>5 DEF Tight
<1>5. ASSUME ld.cmd.op = "retire_async", ld.pc \in {"local", "status"}
      PROVE  IF w \in ld.todo /\ ~completed[w] THEN Working(w) \/ Lagging(w) ELSE Done(w)
  <2>1. Kind(ld.cmd.op) = "host" /\ calls # 0 BY <1>5, <1>p DEF Kind, LeaderOK
  <2>2. Tight(w) BY <2>1, <1>1, <1>5
  <2> QED BY <2>1, <2>2, <1>5 DEF Tight
<1>6. meeting[Leader] = "all ok" => Done(w) /\ (wk[w].pc = "met" => meeting[w] = "all ok")
  BY <1>p DEF Broken, LeaderOK, Tight, Reduced
<1> QED BY <1>2, <1>3, <1>4, <1>5, <1>6

\* The actions of a worker: what is left to show is about that worker.
LEMMA WorkerSlotsFrame ==
  ASSUME TypeOK, Protocol, Slots, NEW w \in Workers, WorkerStep(w) \/ Crash(w),
         \A k \in Ranks \ {w} : st'[k] = st[k],
         Alive(w)' => Reported(w)' /\ (\A q \in Ids : RankOK(w, q)') /\ Owing(w)' /\ WorkerFreed(w)',
         \A q \in st'[w].own : st'[w].mark[q] # "released"
  PROVE  Slots'
<1>k. Leader \in Ranks /\ Leader \notin Workers /\ Workers \subseteq Ranks
  BY TensorParallelAssumption DEF Ranks
<1>s. /\ \A k \in Ranks : Living(k) => Reported(k) /\ \A q \in Ids : RankOK(k, q)
      /\ \A v \in Workers : Alive(v) => Owing(v) /\ WorkerFreed(v)
      /\ LeaderFreed /\ CleanMarkers
  BY DEF Slots
<1>1. /\ meeting'[Leader] = meeting[Leader] /\ UNCHANGED <<ld, held, owed>>
      /\ \A v \in Workers \ {w} : UNCHANGED <<command[v], status[v], completed[v], meeting[v], wk[v]>>
  BY WorkerSteps DEF engine
<1>2. ASSUME NEW v \in Workers \ {w}, Alive(v)'
      PROVE  Reported(v)' /\ (\A q \in Ids : RankOK(v, q)') /\ Owing(v)' /\ WorkerFreed(v)'
  <2>1. Alive(v) /\ v \in Ranks \ {w} BY <1>1, <1>2, <1>k DEF Alive
  <2>2. Reported(v) /\ (\A q \in Ids : RankOK(v, q)) /\ Owing(v) /\ WorkerFreed(v) BY <2>1, <1>s DEF Living
  <2>3. /\ st'[v] = st[v] /\ command'[v] = command[v] /\ status'[v] = status[v] /\ completed'[v] = completed[v]
        /\ meeting'[v] = meeting[v] /\ wk'[v] = wk[v]
    BY <1>1, <2>1
  <2>4. Done(v)' <=> Done(v) BY <1>1, <2>3 DEF Done
  <2>5. Unmarks(v)' = Unmarks(v) BY <2>3 DEF Unmarks
  <2>6. ASSUME NEW q \in Ids PROVE RankOK(v, q)'
    <3>1. RunAhead(v, q)' <=> RunAhead(v, q) BY <1>1, <2>3 DEF RunAhead
    <3> QED BY <3>1, <2>2, <2>3, <2>5, <1>1, RankKept
  <2>7. Reported(v)'
    <3>1. Reported(v) /\ meeting'[Leader] = meeting[Leader] /\ ld' = ld BY <1>1, <2>2
    <3>2. st'[v] = st[v] /\ wk'[v] = wk[v] BY <2>3
    <3> QED BY <3>1, <3>2, <2>4 DEF Reported, FreedOn, Clean, Has
  <2>8. Owing(v)' /\ WorkerFreed(v)' BY <1>1, <2>2, <2>3 DEF Owing, WorkerFreed, FreedOn, Has
  <2> QED BY <2>6, <2>7, <2>8
<1>3. Reported(Leader)' /\ \A q \in Ids : RankOK(Leader, q)'
  <2>1. Reported(Leader) /\ \A q \in Ids : RankOK(Leader, q) BY <1>k, <1>s DEF Living
  <2>2. st'[Leader] = st[Leader] BY <1>k
  <2>3. ASSUME NEW q \in Ids PROVE RankOK(Leader, q)'
    <3>1. RunAhead(Leader, q)' <=> RunAhead(Leader, q) BY <1>1, <1>k DEF RunAhead
    <3> QED BY <3>1, <2>1, <2>2, <1>1, <1>k, RankKept
  <2>4. Reported(Leader)' BY <1>1, <1>k, <2>1, <2>2 DEF Reported, FreedOn, Clean, Has
  <2> QED BY <2>3, <2>4
<1>4. LeaderFreed' BY <1>1, <1>s, <1>k DEF LeaderFreed, FreedOn, Has
<1>5. CleanMarkers' BY <1>s DEF CleanMarkers
<1>6. ASSUME NEW k \in Ranks, Living(k)' PROVE Reported(k)' /\ \A q \in Ids : RankOK(k, q)'
  BY <1>2, <1>3, <1>6 DEF Ranks, Living
<1>7. ASSUME NEW v \in Workers, Alive(v)' PROVE Owing(v)' /\ WorkerFreed(v)' BY <1>2, <1>7
<1> QED BY <1>4, <1>5, <1>6, <1>7 DEF Slots

\* A worker reads the command.
LEMMA ReadSlots ==
  ASSUME TypeOK, Protocol, Slots, NEW w \in Workers, Load(w) \/ Clear(w)
  PROVE  Slots'
<1>k. w \in Ranks /\ Leader \notin Workers BY TensorParallelAssumption DEF Ranks
<1>t. /\ wk \in [Workers -> [pc: {"wait", "clear", "exec", "status", "complete", "meet", "met", "dead"},
                             cmd: Command, err: BOOLEAN]]
      /\ command \in [Workers -> BOOLEAN]
  BY DEF TypeOK
<1>0. Alive(w) /\ WorkerStep(w) BY DEF Load, Clear, WorkerStep, Alive
<1>1. /\ UNCHANGED <<buffer, ld, held, owed, st>> /\ meeting'[Leader] = meeting[Leader]
      /\ meeting'[w] = meeting[w] /\ status'[w] = status[w] /\ completed'[w] = completed[w]
  BY DEF Load, Clear, mailbox, engine
<1>s. /\ Reported(w) /\ (\A q \in Ids : RankOK(w, q)) /\ Owing(w) /\ WorkerFreed(w) /\ CleanMarkers
  BY <1>0, <1>k DEF Slots, Living
<1>m. meeting[w] = "out" BY DEF Load, Clear, Protocol, WorkerOK
<1>2. CASE Load(w)
  <2>1. /\ wk[w].pc = "wait" /\ command[w] /\ command'[w] /\ wk'[w].pc = "clear" /\ wk'[w].cmd = ld.cmd
    BY <1>2, <1>t DEF Load, mailbox, Protocol, LeaderOK
  <2>2. Unmarks(w) = {} BY <2>1 DEF Unmarks
  <2>3. ASSUME NEW q \in Unmarks(w)' PROVE ~Has(w, q)
    <3>1. ld.cmd.op = "commit_slot_releases" /\ q \in ld.cmd.ids BY <2>1, <2>3 DEF Unmarks
    <3>2. ld.pc = "ack" BY <3>1, <2>1, <1>0, Places
    <3> QED BY <3>1, <3>2, <1>s DEF Reported, Clean
  <2>4. ASSUME NEW q \in Ids PROVE RankOK(w, q)'
    <3>1. RankOK(w, q) BY <1>s
    <3>2. RunAhead(w, q)' => RunAhead(w, q) BY <2>1, <1>1, <1>k DEF RunAhead
    <3>3. (Has(w, q)' <=> Has(w, q)) /\ st'[w] = st[w] BY <1>1 DEF Has
    <3>4. q \in Unmarks(w)' => ~Has(w, q) BY <2>3
    <3>5. q \notin Unmarks(w) BY <2>2
    <3> QED BY <3>1, <3>2, <3>3, <3>4, <3>5, <1>1 DEF RankOK
  <2>5. Reported(w)'
    <3>1. ~Done(w)' BY <2>1 DEF Done
    <3> QED BY <1>s, <1>1, <2>1, <3>1 DEF Reported, FreedOn, Clean, Has
  <2>6. Owing(w)' BY <1>s, <1>1, <2>1 DEF Owing, Frees, Runs
  <2>7. WorkerFreed(w)' BY <1>s, <1>1, <1>m, <2>1 DEF WorkerFreed, FreedOn, Has
  <2> QED BY <1>0, <1>1, <1>s, <1>k, <2>4, <2>5, <2>6, <2>7, WorkerSlotsFrame DEF CleanMarkers
<1>3. CASE Clear(w)
  <2>1. /\ wk[w].pc = "clear" /\ ~command'[w] /\ wk'[w].pc = "exec" /\ wk'[w].cmd = wk[w].cmd
    BY <1>3, <1>t DEF Clear
  <2>2. Unmarks(w)' = Unmarks(w) BY <2>1, <1>1 DEF Unmarks
  <2>4. ASSUME NEW q \in Ids PROVE RankOK(w, q)'
    <3>1. RankOK(w, q) BY <1>s
    <3>2. RunAhead(w, q)' => RunAhead(w, q) BY <2>1, <1>1, <1>k DEF RunAhead
    <3> QED BY <3>1, <3>2, <2>2, <1>1, RankKept
  <2>5. Reported(w)'
    <3>1. ~Done(w)' BY <2>1 DEF Done
    <3> QED BY <1>s, <1>1, <2>1, <3>1 DEF Reported, FreedOn, Clean, Has
  <2>6. Owing(w)' BY <1>s, <1>1, <2>1 DEF Owing
  <2>7. WorkerFreed(w)' BY <1>s, <1>1, <1>m, <2>1 DEF WorkerFreed, FreedOn, Has
  <2> QED BY <1>0, <1>1, <1>s, <1>k, <2>4, <2>5, <2>6, <2>7, WorkerSlotsFrame DEF CleanMarkers
<1> QED BY <1>2, <1>3

\* A worker runs the command.
LEMMA ExecSlots ==
  ASSUME TypeOK, Protocol, Slots, NEW w \in Workers, Exec(w)
  PROVE  Slots'
<1>k. w \in Ranks /\ w # Leader BY TensorParallelAssumption DEF Ranks
<1>t. /\ wk \in [Workers -> [pc: {"wait", "clear", "exec", "status", "complete", "meet", "met", "dead"},
                             cmd: Command, err: BOOLEAN]]
      /\ wk[w].cmd \in Command /\ wk[w].cmd.ids \subseteq Ids
  BY DEF TypeOK, Command
<1>0. Alive(w) /\ WorkerStep(w) /\ wk[w].pc = "exec" BY DEF Exec, WorkerStep, Alive
<1>r. st[w] \in RankState BY <1>k DEF TypeOK
<1>s. /\ Reported(w) /\ (\A q \in Ids : RankOK(w, q)) /\ Owing(w) /\ WorkerFreed(w) /\ CleanMarkers
  BY <1>0, <1>k DEF Slots, Living
<1>m. Marked(st[w]) BY <1>k, <1>s, <1>r DEF Marked, RankOK, CleanMarkers, RankState
<1>1. PICK err \in BOOLEAN :
        Execute(w, wk[w].cmd, err) /\ wk' = [wk EXCEPT ![w].err = err, ![w].pc = NextPc(wk[w].cmd.op)]
  BY DEF Exec
<1>2. /\ \A j \in Ranks \ {w} : st'[j] = st[j]
      /\ wk[w].cmd.op \in Runs => RunEffect(st[w], st'[w], wk[w].cmd.ids)
      /\ wk[w].cmd.op \in Frees => FreeEffect(st[w], st'[w], wk[w].cmd.ids, err) /\ Marked(st'[w])
      /\ wk[w].cmd.op = "commit_slot_releases" => ~err /\ CommitEffect(st[w], st'[w], wk[w].cmd.ids)
  BY <1>1, <1>k, <1>t, <1>m, Effects
<1>3. /\ UNCHANGED <<ld, held, owed>> /\ meeting'[Leader] = meeting[Leader] /\ meeting'[w] = meeting[w]
      /\ command'[w] = command[w] /\ status'[w] = status[w] /\ completed'[w] = completed[w]
  BY DEF Exec, mailbox, engine
<1>o. wk[w].cmd.op \in SetupOps /\ meeting[w] = "out" BY <1>0 DEF Protocol, WorkerOK
<1>c. wk[w].cmd.op \in Runs \/ wk[w].cmd.op \in Frees \/ wk[w].cmd.op = "commit_slot_releases"
  BY <1>o DEF SetupOps, Runs, Frees
<1>4. /\ wk'[w].pc \in {"wait", "status", "meet"} /\ wk'[w].cmd = wk[w].cmd /\ wk'[w].err = err
  BY <1>1, <1>t, <1>o DEF NextPc, SetupOps, Kind
<1>5. Unmarks(w)' = {} /\ Unmarks(w) = IF wk[w].cmd.op = "commit_slot_releases" THEN wk[w].cmd.ids ELSE {}
  BY <1>0, <1>4 DEF Unmarks
<1>6. ~Done(w) BY <1>0 DEF Done
<1>7. /\ ld.pc # "commit" /\ meeting[Leader] # "all ok"
      /\ ld.cmd.op = "commit_slot_releases" /\ ld.pc \in {"ack", "local"} => wk[w].cmd = ld.cmd
      /\ ld.cmd.op = "retire_async" /\ ld.pc \in {"local", "status"} => w \in ld.todo /\ ~completed[w]
  <2>1. Working(w) \/ Acked(w) => wk[w].cmd = ld.cmd BY <1>0 DEF Working, Acked
  <2> QED BY <1>0, <1>6, <2>1, Places
<1>8. Owing(w)' BY <1>s, <1>3, <1>4 DEF Owing
<1>9. Reported(w)'
  <2>1. CASE ld.cmd.op = "commit_slot_releases" /\ ld.pc \in {"ack", "local"}
    <3>1. wk[w].cmd = ld.cmd /\ CommitEffect(st[w], st'[w], ld.cmd.ids) BY <2>1, <1>2, <1>7
    <3>2. Clean(w, ld.cmd.ids) BY <2>1, <1>s DEF Reported
    <3>3. Clean(w, ld.cmd.ids)' BY <3>1, <3>2, <1>3 DEF Clean, Has, CommitEffect
    <3>4. \A q \in ld.cmd.ids : st'[w].mark[q] = "none" BY <3>1, <1>t DEF CommitEffect
    <3> QED BY <2>1, <3>3, <3>4, <1>3 DEF Reported
  <2>2. CASE ~(ld.cmd.op = "commit_slot_releases" /\ ld.pc \in {"ack", "local"})
    BY <2>2, <1>3, <1>7 DEF Reported
  <2> QED BY <2>1, <2>2
<1>10. WorkerFreed(w)'
  <2>1. wk[w].cmd.op \in Frees /\ ~err => FreedOn(w, wk[w].cmd.ids)' BY <1>2, <1>4 DEF FreeEffect, FreedOn, Has
  <2>2. ~(ld.cmd.op = "retire_async" /\ ld.pc \in {"local", "status"}
            /\ ((w \in ld.todo /\ completed[w] /\ status[w] = "success") \/ (w \notin ld.todo /\ ~ld.err)))
    BY <1>7
  <2> QED BY <2>1, <2>2, <1>3, <1>4 DEF WorkerFreed
<1>11. ASSUME NEW q \in Ids PROVE RankOK(w, q)' /\ (q \in st'[w].own => st'[w].mark[q] # "released")
  <2>1. RankOK(w, q) /\ q \notin Unmarks(w)' BY <1>s, <1>5
  <2>2. RunAhead(w, q)' => command[w] /\ ld.cmd.op \in Runs /\ q \in ld.cmd.ids BY <1>3, <1>4, <1>k DEF RunAhead
  <2>3. RunAhead(w, q)' => RunAhead(w, q) BY <2>2 DEF RunAhead
  <2>4. CASE wk[w].cmd.op \in Runs
    <3>1. q \in wk[w].cmd.ids => q \in held /\ st[w].mark[q] = "none"
      BY <2>1, <2>4, <1>0, <1>5 DEF RankOK, RunAhead, Runs
    <3>2. /\ st'[w].mark = st[w].mark /\ st'[w].torn = st[w].torn
          /\ st'[w].own \subseteq st[w].own \cup wk[w].cmd.ids
      BY <1>2, <2>4 DEF RunEffect
    <3>3. q \notin Unmarks(w) BY <2>4, <1>5 DEF Runs
    <3>4. q \in st[w].own => st[w].mark[q] # "released" BY <1>m DEF Marked
    <3> QED BY <2>1, <2>3, <3>1, <3>2, <3>3, <3>4, <1>3 DEF RankOK, Has
  <2>5. CASE wk[w].cmd.op \in Frees
    <3>1. q \in wk[w].cmd.ids => q \in held BY <2>5, <1>0, <1>s DEF Owing, TypeOK
    <3>2. ~RunAhead(w, q)' BY <2>2, <2>5, <1>0, <1>s DEF Owing
    <3>3. /\ st'[w].own \subseteq st[w].own /\ st'[w].torn \subseteq st[w].torn \cup wk[w].cmd.ids
          /\ q \notin wk[w].cmd.ids => st'[w].mark[q] = st[w].mark[q]
          /\ q \in st'[w].torn => st'[w].mark[q] = "failed"
          /\ q \in st'[w].own => st'[w].mark[q] # "released"
      BY <1>2, <2>5 DEF FreeEffect, Marked
    <3>4. q \notin Unmarks(w) BY <2>5, <1>5 DEF Frees
    <3> QED BY <2>1, <3>1, <3>2, <3>3, <3>4, <1>3 DEF RankOK, Has
  <2>6. CASE wk[w].cmd.op = "commit_slot_releases"
    <3>1. /\ st'[w].own = st[w].own /\ st'[w].torn = st[w].torn
          /\ st'[w].mark[q] = IF q \in wk[w].cmd.ids THEN "none" ELSE st[w].mark[q]
      BY <1>2, <2>6 DEF CommitEffect
    <3>2. q \in Unmarks(w) <=> q \in wk[w].cmd.ids BY <2>6, <1>5
    <3>3. q \in st[w].own => st[w].mark[q] # "released" BY <1>m DEF Marked
    <3> QED BY <2>1, <2>3, <3>1, <3>2, <3>3, <1>3 DEF RankOK, Has
  <2> QED BY <1>c, <2>4, <2>5, <2>6
<1>12. \A q \in st'[w].own : q \in Ids
  <2>1. st'[w].own \subseteq st[w].own \cup wk[w].cmd.ids BY <1>c, <1>2 DEF RunEffect, FreeEffect, CommitEffect
  <2> QED BY <2>1, <1>t, <1>r DEF RankState
<1> QED BY <1>0, <1>2, <1>8, <1>9, <1>10, <1>11, <1>12, WorkerSlotsFrame

\* A worker answers through the status byte.
LEMMA AnswerSlots ==
  ASSUME TypeOK, Protocol, Slots, NEW w \in Workers, SetStatus(w) \/ Complete(w)
  PROVE  Slots'
<1>k. w \in Ranks /\ w # Leader BY TensorParallelAssumption DEF Ranks
<1>t. /\ wk \in [Workers -> [pc: {"wait", "clear", "exec", "status", "complete", "meet", "met", "dead"},
                             cmd: Command, err: BOOLEAN]]
      /\ status \in [Workers -> {"pending", "success", "failed"}] /\ completed \in [Workers -> BOOLEAN]
  BY DEF TypeOK
<1>0. Alive(w) /\ WorkerStep(w) /\ wk[w].pc \in {"status", "complete"}
  BY DEF SetStatus, Complete, WorkerStep, Alive
<1>s. /\ Reported(w) /\ (\A q \in Ids : RankOK(w, q)) /\ Owing(w) /\ WorkerFreed(w) /\ CleanMarkers
  BY <1>0, <1>k DEF Slots, Living
<1>3. /\ UNCHANGED <<ld, held, owed, st, command>> /\ meeting'[Leader] = meeting[Leader] /\ meeting'[w] = meeting[w]
  BY DEF SetStatus, Complete, mailbox, engine
<1>o. Kind(wk[w].cmd.op) = "host" /\ meeting[w] = "out" BY <1>0 DEF Protocol, WorkerOK
<1>4. /\ wk'[w].pc \in {"complete", "wait", "dead"} /\ wk'[w].cmd = wk[w].cmd
  BY <1>t DEF SetStatus, Complete, Survives
<1>5. Unmarks(w)' = {} /\ Unmarks(w) = {} BY <1>0, <1>4 DEF Unmarks
<1>6. ~Done(w) /\ ~Acked(w) BY <1>0 DEF Done, Acked
<1>7. /\ ld.pc # "commit" /\ meeting[Leader] # "all ok"
      /\ ~(ld.cmd.op = "commit_slot_releases" /\ ld.pc \in {"ack", "local"})
      /\ ld.cmd.op = "retire_async" /\ ld.pc \in {"local", "status"} =>
           w \in ld.todo /\ ~completed[w] /\ Working(w)
  <2>1. Kind("commit_slot_releases") # "host" BY DEF Kind
  <2>2. Working(w) => wk[w].cmd = ld.cmd BY <1>0 DEF Working
  <2>3. ~Lagging(w) BY <1>0 DEF Lagging
  <2> QED BY <1>0, <1>6, <1>o, <2>1, <2>2, <2>3, Places
<1>8. Owing(w)' BY <1>s, <1>3, <1>4 DEF Owing
<1>9. Reported(w)' BY <1>3, <1>7 DEF Reported
<1>10. WorkerFreed(w)'
  <2>2. CASE SetStatus(w)
    <3>1. wk[w].pc = "status" /\ wk'[w].err = wk[w].err /\ completed'[w] = completed[w]
      BY <2>2, <1>t DEF SetStatus
    <3> QED BY <1>s, <1>3, <1>4, <1>7, <1>o, <3>1 DEF WorkerFreed, FreedOn, Has
  <2>3. CASE Complete(w)
    <3>1. wk[w].pc = "complete" /\ wk'[w].pc \in {"wait", "dead"} /\ status'[w] = status[w] BY <2>3, <1>t DEF Complete, Survives
    <3>2. Working(w) /\ status[w] = "success" => ~wk[w].err /\ wk[w].cmd = ld.cmd BY <3>1 DEF Working
    <3>3. ld.cmd.op = "retire_async" /\ ld.pc \in {"local", "status"} /\ status[w] = "success" => FreedOn(w, ld.cmd.ids)
      BY <3>1, <3>2, <1>7, <1>s DEF WorkerFreed, Frees
    <3> QED BY <1>3, <1>4, <1>7, <1>o, <3>1, <3>3 DEF WorkerFreed, FreedOn, Has
  <2> QED BY <2>2, <2>3
<1>11. ASSUME NEW q \in Ids PROVE RankOK(w, q)'
  <2>1. RunAhead(w, q)' => RunAhead(w, q) BY <1>0, <1>3, <1>4, <1>k DEF RunAhead
  <2> QED BY <2>1, <1>s, <1>3, <1>5, RankKept
<1> QED BY <1>0, <1>3, <1>8, <1>9, <1>10, <1>11, <1>s, <1>k, WorkerSlotsFrame DEF CleanMarkers

\* A worker enters and leaves a collective.
LEMMA CollectiveSlots ==
  ASSUME TypeOK, Protocol, Slots, NEW w \in Workers, WorkerMeets(w) \/ WorkerLeaves(w)
  PROVE  Slots'
<1>k. w \in Ranks /\ Leader \in Ranks /\ w # Leader BY TensorParallelAssumption DEF Ranks
<1>t. /\ wk \in [Workers -> [pc: {"wait", "clear", "exec", "status", "complete", "meet", "met", "dead"},
                             cmd: Command, err: BOOLEAN]]
      /\ meeting \in [Ranks -> {"out", "ok", "error", "all ok", "some error"}]
      /\ st \in [Ranks -> RankState] /\ wk[w].cmd.ids \subseteq Ids
  BY DEF TypeOK, Command
<1>0. Alive(w) /\ WorkerStep(w) /\ wk[w].pc \in {"meet", "met"}
  BY DEF WorkerMeets, WorkerLeaves, WorkerStep, Alive
<1>s. /\ Reported(w) /\ (\A q \in Ids : RankOK(w, q)) /\ Owing(w) /\ WorkerFreed(w) /\ CleanMarkers
  BY <1>0, <1>k DEF Slots, Living
<1>3. /\ UNCHANGED <<ld, held, owed>> /\ meeting'[Leader] = meeting[Leader]
      /\ command'[w] = command[w] /\ status'[w] = status[w] /\ completed'[w] = completed[w] /\ wk'[w].cmd = wk[w].cmd
  <2>1. CASE WorkerMeets(w) BY <2>1, <1>k, <1>t DEF WorkerMeets, mailbox, engine
  <2>2. CASE WorkerLeaves(w)
    <3>1. PICK pc : wk' = [wk EXCEPT ![w].pc = pc] BY <2>2 DEF WorkerLeaves
    <3>2. wk'[w].cmd = wk[w].cmd BY <3>1, <1>t
    <3>3. meeting' = [meeting EXCEPT ![w] = "out"] /\ UNCHANGED <<mailbox, ld, engine>> BY <2>2 DEF WorkerLeaves
    <3> QED BY <3>2, <3>3, <1>k, <1>t DEF mailbox, engine
  <2> QED BY <2>1, <2>2
<1>o. ~setup.async /\ wk[w].cmd.op # "commit_slot_releases"
  BY <1>0 DEF Protocol, WorkerOK, Kind, SetupOps
<1>a. /\ ld.cmd.op = "retire_async" => ld.pc = "idle"
      /\ ld.cmd.op = "commit_slot_releases" => ld.pc = "idle"
      /\ ld.pc # "commit"
  BY <1>o DEF Protocol, LeaderOK, SetupOps
<1>1. CASE WorkerMeets(w)
  <2>1. /\ wk[w].pc = "meet" /\ wk'[w].pc = "met" /\ wk'[w].err = wk[w].err /\ UNCHANGED st
        /\ meeting'[w] = (IF wk[w].err THEN "error" ELSE "ok")
    BY <1>1, <1>k, <1>t DEF WorkerMeets
  <2>2. Unmarks(w)' = {} /\ Unmarks(w) = {} BY <2>1 DEF Unmarks
  <2>3. Owing(w)' BY <1>s, <1>3, <2>1 DEF Owing
  <2>4. meeting[Leader] # "all ok" BY <1>0, <2>1, Places DEF Done
  <2>5. Reported(w)' BY <1>3, <1>a, <2>4 DEF Reported
  <2>6. WorkerFreed(w)' BY <1>s, <1>3, <1>a, <2>1 DEF WorkerFreed, FreedOn, Has
  <2>7. ASSUME NEW q \in Ids PROVE RankOK(w, q)'
    <3>1. RunAhead(w, q)' => RunAhead(w, q) BY <1>3, <2>1, <1>k DEF RunAhead
    <3> QED BY <3>1, <1>s, <1>3, <2>1, <2>2, RankKept
  <2> QED BY <1>0, <1>s, <1>k, <2>1, <2>3, <2>5, <2>6, <2>7, WorkerSlotsFrame DEF CleanMarkers
<1>2. CASE WorkerLeaves(w)
  <2>1. /\ wk[w].pc = "met" /\ meeting[w] \in Reduced /\ wk'[w].pc \in {"wait", "dead"} /\ meeting'[w] = "out"
        /\ CommitsAfter(w, wk[w].cmd, meeting[w] = "some error")
    BY <1>2, <1>k, <1>t DEF WorkerLeaves, Survives, Reduced
  <2> DEFINE commits == meeting[w] = "all ok" /\ wk[w].cmd.op = "free_slots"
  <2>2. Unmarks(w)' = {} /\ Unmarks(w) = IF commits THEN wk[w].cmd.ids ELSE {}
    BY <2>1, <1>o DEF Unmarks
  <2>3. /\ commits => st' = [st EXCEPT ![w] = Unmarked(@, wk[w].cmd.ids)]
        /\ ~commits => st' = st
    BY <2>1 DEF CommitsAfter, Reduced
  <2>4. /\ \A k \in Ranks \ {w} : st'[k] = st[k]
        /\ st'[w].own = st[w].own /\ st'[w].torn = st[w].torn
        /\ \A q \in Ids : st'[w].mark[q] = IF q \in Unmarks(w) THEN "none" ELSE st[w].mark[q]
    <3>1. CASE commits
      <4>0. st'[w] = Unmarked(st[w], wk[w].cmd.ids) /\ st[w] \in RankState BY <1>k, <1>t, <2>3, <3>1
      <4>1. CommitEffect(st[w], st'[w], wk[w].cmd.ids) BY <4>0, UnmarkedFields
      <4> QED BY <1>k, <1>t, <2>2, <2>3, <3>1, <4>1 DEF CommitEffect
    <3>2. CASE ~commits BY <2>2, <2>3, <3>2
    <3> QED BY <3>1, <3>2
  <2>5. Owing(w)' BY <1>s, <1>3, <2>1 DEF Owing
  <2>6. WorkerFreed(w)' BY <1>3, <1>a, <2>1 DEF WorkerFreed
  <2>7. Reported(w)'
    <3>1. CASE ld.cmd.op = "free_slots" /\ meeting[Leader] = "all ok"
      <4>1. wk[w].cmd = ld.cmd /\ meeting[w] = "all ok" BY <1>0, <2>1, <3>1, Places DEF Done
      <4>2. Unmarks(w) = ld.cmd.ids BY <2>2, <3>1, <4>1
      <4>3. Clean(w, ld.cmd.ids) BY <1>s, <3>1 DEF Reported
      <4>4. \A q \in ld.cmd.ids : st'[w].mark[q] = "none" /\ ~Has(w, q)'
        BY <1>t, <2>4, <4>1, <4>2, <4>3 DEF Clean, Has
      <4> QED BY <1>3, <1>a, <3>1, <4>4 DEF Reported, Clean
    <3>2. CASE ~(ld.cmd.op = "free_slots" /\ meeting[Leader] = "all ok")
      BY <1>3, <1>a, <3>2 DEF Reported
    <3> QED BY <3>1, <3>2
  <2>8. ASSUME NEW q \in Ids PROVE RankOK(w, q)'
    <3>1. RunAhead(w, q)' => RunAhead(w, q) BY <1>3, <2>1, <1>k DEF RunAhead
    <3>2. RankOK(w, q) /\ q \notin Unmarks(w)' BY <1>s, <2>2
    <3>3. st'[w].mark[q] = IF q \in Unmarks(w) THEN "none" ELSE st[w].mark[q] BY <2>4
    <3> QED BY <3>1, <3>2, <3>3, <2>4, <1>3 DEF RankOK, Has
  <2>9. ASSUME NEW q \in st'[w].own PROVE st'[w].mark[q] # "released"
    <3>1. q \in Ids /\ q \in st[w].own BY <1>k, <1>t, <2>4, <2>9 DEF RankState
    <3> QED BY <3>1, <1>k, <1>s, <2>4 DEF CleanMarkers
  <2> QED BY <1>0, <2>4, <2>5, <2>6, <2>7, <2>8, <2>9, WorkerSlotsFrame
<1> QED BY <1>1, <1>2

LEMMA CrashSlots ==
  ASSUME TypeOK, Protocol, Slots, NEW w \in Workers, Crash(w)
  PROVE  Slots'
<1>k. w \in Ranks BY DEF Ranks
<1>1. wk' = [wk EXCEPT ![w].pc = "dead"] /\ UNCHANGED st BY DEF Crash
<1>2. wk \in [Workers -> [pc: {"wait", "clear", "exec", "status", "complete", "meet", "met", "dead"},
                          cmd: Command, err: BOOLEAN]]
  BY DEF TypeOK
<1>3. ~Alive(w)' BY <1>1, <1>2 DEF Alive
<1>4. \A q \in st'[w].own : st'[w].mark[q] # "released" BY <1>k, <1>1 DEF Slots, CleanMarkers
<1> QED BY <1>1, <1>3, <1>4, WorkerSlotsFrame

LEMMA SlotsStep ==
  ASSUME TypeOK, Protocol, Slots, [Next]_vars
  PROVE  Slots'
<1>1. CASE UNCHANGED vars
  <2>1. UNCHANGED <<command, status, completed, meeting, ld, wk, st, held, owed>>
    BY <1>1 DEF vars, mailbox, engine
  <2>2. ASSUME NEW k \in Ranks PROVE Reported(k)' <=> Reported(k)
    BY <2>1 DEF Reported, FreedOn, Clean, Has, Done
  <2>3. ASSUME NEW k \in Ranks, NEW q \in Ids PROVE RankOK(k, q)' <=> RankOK(k, q)
    BY <2>1 DEF RankOK, RunAhead, Unmarks, Has
  <2>4. ASSUME NEW w \in Workers PROVE (Owing(w)' <=> Owing(w)) /\ (WorkerFreed(w)' <=> WorkerFreed(w))
    BY <2>1 DEF Owing, WorkerFreed, FreedOn, Has
  <2>5. LeaderFreed' <=> LeaderFreed BY <2>1 DEF LeaderFreed, FreedOn, Has
  <2> QED BY <2>1, <2>2, <2>3, <2>4, <2>5, QuietSlots DEF Slots
<1>2. ASSUME NEW w \in Workers, WorkerStep(w) PROVE Slots'
  BY <1>2, ReadSlots, ExecSlots, AnswerSlots, CollectiveSlots DEF WorkerStep
<1>3. CASE LeaderStep
  BY <1>3, AckSlots, LocalSlots, HostSlots, CallSlots, MeetSlots, LeaveSlots DEF LeaderStep
<1> QED BY <1>1, <1>2, <1>3, CallSlots, ReduceSlots, CrashSlots DEF Next

-----------------------------------------------------------------------------
(* The theorems.                                                           *)

LEMMA IInvInit ==
  ASSUME Init
  PROVE  IInv
<1>c. MaxCalls \in Nat /\ MaxFailures \in Nat /\ 2 * MaxCalls \in Nat BY TensorParallelAssumption
<1>k. Leader \in Ranks /\ Workers \subseteq Ranks BY DEF Ranks
<1>n. NoCommand \in Command BY <1>c DEF NoCommand, Command, Ops
<1>1. TypeOK
  <2>1. [own |-> {}, mark |-> [q \in Ids |-> "none"], torn |-> {}] \in RankState BY DEF RankState
  <2>2. st \in [Ranks -> RankState] BY <2>1 DEF Init
  <2>3. /\ wk \in [Workers -> [pc: {"wait", "clear", "exec", "status", "complete", "meet", "met", "dead"},
                               cmd: Command, err: BOOLEAN]]
        /\ ld \in [pc: {"idle", "ack", "local", "status", "meet", "met", "commit"},
                   cmd: Command, err: BOOLEAN, todo: SUBSET Workers]
    BY <1>n DEF Init
  <2>4. calls \in 0..2 * MaxCalls /\ failures \in 0..MaxFailures BY <1>c DEF Init
  <2> QED BY <1>n, <2>2, <2>3, <2>4 DEF Init, TypeOK
<1>2. Protocol
  <2>1. LeaderOK BY <1>c, <1>k DEF Init, LeaderOK, NoCommand
  <2>2. ASSUME NEW w \in Workers PROVE WorkerOK(w) /\ Answer(w) /\ Tight(w)
    BY <1>k DEF Init, WorkerOK, Answer, Tight, Done
  <2> QED BY <2>1, <2>2 DEF Protocol
<1>3. Slots
  <2>1. ASSUME NEW k \in Ranks PROVE Reported(k) /\ \A q \in Ids : RankOK(k, q)
    BY <1>k DEF Init, Reported, RankOK, Has, RunAhead, Unmarks
  <2>2. ASSUME NEW w \in Workers PROVE Owing(w) /\ WorkerFreed(w)
    BY <1>k DEF Init, Owing, WorkerFreed, NoCommand, Frees
  <2>3. LeaderFreed /\ CleanMarkers BY DEF Init, LeaderFreed, CleanMarkers
  <2> QED BY <2>1, <2>2, <2>3 DEF Slots
<1> QED BY <1>1, <1>2, <1>3 DEF IInv

LEMMA IInvStep ==
  ASSUME IInv, ~SlowTimeouts, [Next]_vars
  PROVE  IInv'
<1>1. TypeOK' BY TypeStep DEF IInv, Protocol
<1>2. Protocol' BY ProtocolStep DEF IInv
<1>3. Slots' BY SlotsStep DEF IInv
<1> QED BY <1>1, <1>2, <1>3 DEF IInv

LEMMA IInvReleases ==
  ASSUME IInv
  PROVE  ReleasesSound
<1>1. ASSUME ld.pc = "idle", NEW q \in Ids \ held, NEW k \in Ranks, k \in Workers => Alive(k)
      PROVE  q \notin st[k].own \cup st[k].torn
  BY <1>1 DEF IInv, Slots, Living, RankOK, Has
<1> QED BY <1>1 DEF ReleasesSound, ReleasedEverywhere, IInv, Slots

LEMMA IInvPaired ==
  ASSUME IInv
  PROVE  CommandsPaired
<1>1. BufferFree
  <2>1. ASSUME ld.pc = "idle", \A w \in Workers : Alive(w), NEW w \in Workers PROVE ~command[w]
    <3>1. Tight(w) BY <2>1 DEF IInv, Protocol, Broken
    <3> QED BY <2>1, <3>1 DEF Tight, Done, Acked
  <2> QED BY <2>1 DEF BufferFree
<1>2. AnswersAreCurrent
  <2>1. ASSUME ld.pc = "status", NEW w \in ld.todo, completed[w] PROVE wk[w].cmd.n = ld.cmd.n
    <3>1. w \in Workers /\ Kind(ld.cmd.op) = "host" BY <2>1 DEF IInv, TypeOK, Protocol, LeaderOK
    <3>2. Answer(w) BY <3>1 DEF IInv, Protocol
    <3> QED BY <2>1, <3>1, <3>2 DEF Answer
  <2> QED BY <2>1 DEF AnswersAreCurrent
<1> QED BY <1>1, <1>2 DEF CommandsPaired

\* Where a timeout of rank 0 means that a worker is dead, a release the engine
\* takes off its list happened on every living rank, whatever raised and
\* whoever died, and no marker of it makes _release_runtime_slots_once skip a
\* later one.
THEOREM ReleasesAlwaysSound == ~SlowTimeouts => (Spec => []ReleasesSound)
<1> SUFFICES ASSUME ~SlowTimeouts PROVE Spec => []ReleasesSound OBVIOUS
<1>1. Init => IInv BY IInvInit
<1>2. IInv /\ [Next]_vars => IInv' BY IInvStep
<1>3. IInv => ReleasesSound BY IInvReleases
<1> QED BY <1>1, <1>2, <1>3, PTL DEF Spec

\* Under the same condition no command in the shared buffer is overwritten
\* unread (write_shm), and no status rank 0 reads is one of an earlier command
\* (_sync_tp_host_status).
THEOREM CommandsAlwaysPaired == ~SlowTimeouts => (Spec => []CommandsPaired)
<1> SUFFICES ASSUME ~SlowTimeouts PROVE Spec => []CommandsPaired OBVIOUS
<1>1. Init => IInv BY IInvInit
<1>2. IInv /\ [Next]_vars => IInv' BY IInvStep
<1>3. IInv => CommandsPaired BY IInvPaired
<1> QED BY <1>1, <1>2, <1>3, PTL DEF Spec

=============================================================================
