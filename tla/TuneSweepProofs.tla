--------------------------- MODULE TuneSweepProofs ---------------------------
(***************************************************************************)
(* What TLAPS proves of TuneSweep, for every value of its constants: every *)
(* safety invariant the runs check, that finished trials are final, and    *)
(* that the sweep implements StudyLedger.                                  *)
(*                                                                         *)
(* The argument is one inductive invariant, IInv.  What a trial shows when *)
(* it ends depends on what its worker did many steps earlier, so IInv says *)
(* for each program point of a worker what the row of its trial holds; and *)
(* as rows are only written by the worker that holds them (and, to FAIL,   *)
(* by the parent), it also says that no two workers hold the same row.     *)
(***************************************************************************)
EXTENDS TuneSweep, TLAPS

-----------------------------------------------------------------------------
(* The inductive invariant                                                 *)

\* What a row holds by its state: a trial nobody started has no evidence.
RowOK(row) ==
  /\ row.state \in {"absent", "WAITING"} =>
       row.attrs = "none" /\ row.arts = 0 /\ row.reported = 0
  /\ row.state = "COMPLETE" =>
       row.attrs = "full" /\ row.arts = 2 /\ row.reported = Folds
  /\ row.state = "PRUNED" =>
       row.attrs = "full" /\ row.arts = 0 /\ row.reported > 0

RowsOK == \A t \in Ids : RowOK(trials[t])

\* What the row of a worker's trial holds by the worker's program point.
PhaseOK(w, row) ==
  /\ row.state \notin {"absent", "WAITING"}
  /\ w.pc = "prepare" => /\ row.attrs = "none" /\ row.arts = 0
                         /\ row.reported = 0 /\ w.out = "none"
  /\ w.pc = "folds"   => /\ row.attrs = "none" /\ row.arts = 0
                         /\ row.reported < Folds /\ w.out = "none"
  /\ w.pc = "attrs"   => row.attrs # "full" /\ row.arts = 0
  /\ w.pc = "judge"   => row.attrs = "full" /\ row.arts = 0
  /\ w.pc = "upload"  => row.attrs = "full" /\ row.arts < 2 /\ w.out = "COMPLETE"
  /\ w.pc = "tell"    => /\ w.out = "COMPLETE" => row.attrs = "full" /\ row.arts = 2
                         /\ w.out = "PRUNED" => row.attrs = "full" /\ row.arts = 0
  /\ w.pc \in {"attrs", "judge", "upload", "tell"} =>
       /\ w.out # "none"
       /\ w.out = "COMPLETE" => row.reported = Folds
       /\ w.out = "PRUNED" => row.reported > 0

WorkerOK(w) ==
  /\ w.pc \in {"boot", "ask"} \cup Busy => w.quota > 0
  /\ w.pc \in Busy => w.trial # 0 /\ PhaseOK(w, trials[w.trial])
  /\ w.pc \notin Busy => w.trial = 0

WorkersOK == \A p \in Procs : WorkerOK(worker[p])

CliOK ==
  /\ cli.pc \in {"wait", "mark", "marking"} => cli.left > 0
  /\ cli.pc \in {"wait", "inproc"} => cli.proc \in Procs
  /\ cli.pc \notin {"wait", "inproc"} => cli.proc = NoProc

\* Until a cli is killed, every process is the one the cli waits for, and
\* what it marks failed is what nobody works on.
SupervisedOK ==
  faults.crashes = 0 =>
    /\ \A p \in Procs : worker[p].pc # "none" => cli.proc = p
    /\ \A p \in Procs : worker[p].pc \in Busy => trials[worker[p].trial].state = "RUNNING"
    /\ cli.pc = "marking" => \A t \in cli.marks : trials[t].state = "RUNNING"
    /\ cli.pc # "aborted"

\* Until the first fault, a RUNNING trial is held by a process or about to
\* be marked failed.
Held(t) == \E p \in Procs : worker[p].pc \in Busy /\ worker[p].trial = t

NoFault == faults.kills = 0 /\ faults.interrupts = 0 /\ faults.crashes = 0

AccountedOK ==
  NoFault =>
    \A t \in Ids : trials[t].state = "RUNNING" =>
      Held(t) \/ cli.pc = "mark" \/ (cli.pc = "marking" /\ t \in cli.marks)

IInv ==
  /\ TypeOK /\ RowsOK /\ WorkersOK /\ OneWorkerPerTrial
  /\ CliOK /\ SupervisedOK /\ AccountedOK

USE MaxTrialsAssumption, FoldsAssumption, NTrialsAssumption, NoProcAssumption
USE DEF Ids

\* The types of a worker without a trial.
LEMMA UnassignedType ==
  ASSUME NEW pc \in {"none", "boot", "ask", "leaving", "exited"},
         NEW n \in 0 .. NTrials
  PROVE  /\ Unassigned(pc, n) \in Worker /\ Unassigned(pc, n).pc = pc
         /\ Unassigned(pc, n).quota = n /\ Unassigned(pc, n).trial = 0
  BY DEF Unassigned, Worker, Outcomes

LEMMA NoWorkerType == NoWorker \in Worker /\ NoWorker.pc = "none" /\ NoWorker.trial = 0
  BY UnassignedType DEF NoWorker

\* The types of a cli without a command.
LEMMA NoCliType ==
  /\ NoCli \in Cli /\ NoCli.pc = "idle" /\ NoCli.left = 0 /\ NoCli.proc = NoProc
  /\ NoCli.own = 0 /\ NoCli.marks = {}
  BY DEF NoCli, Cli

-----------------------------------------------------------------------------
(* Steps of a worker that holds a trial                                    *)

\* What is left to show of such a step: the worker keeps the trial, in the
\* same state, or lets go of it, no longer RUNNING; and what becomes of the
\* two records is right.
LEMMA HolderStep ==
  ASSUME IInv, NEW p \in Procs, NEW row \in Trial, NEW w \in Worker,
         worker[p].pc \in Busy,
         trials' = [trials EXCEPT ![worker[p].trial] = row],
         worker' = [worker EXCEPT ![p] = w],
         UNCHANGED <<cli, commands, faults>>,
         RowOK(row),
         w.pc \in {"boot", "ask"} \cup Busy => w.quota > 0,
         \/ /\ w.pc \in Busy /\ w.trial = worker[p].trial
            /\ PhaseOK(w, row) /\ row.state = trials[worker[p].trial].state
         \/ w.pc \in {"ask", "leaving"} /\ w.trial = 0 /\ row.state \in Finished
  PROVE  IInv'
<1> DEFINE t == worker[p].trial
<1>1. t \in Ids /\ trials \in [Ids -> Trial] /\ worker \in [Procs -> Worker]
  BY DEF IInv, TypeOK, WorkersOK, WorkerOK, Worker, Busy
<1>2. \A q \in Procs : q # p /\ worker[q].pc \in Busy =>
         worker[q].trial # t /\ worker[q].trial \in Ids
  BY <1>1 DEF IInv, OneWorkerPerTrial, WorkersOK, WorkerOK, Worker
<1>3. /\ trials' \in [Ids -> Trial] /\ trials'[t] = row
      /\ \A u \in Ids : u # t => trials'[u] = trials[u]
  BY <1>1
<1>4. /\ worker' \in [Procs -> Worker] /\ worker'[p] = w
      /\ \A q \in Procs : q # p => worker'[q] = worker[q]
  BY <1>1
<1>5. TypeOK'
  BY <1>3, <1>4 DEF IInv, TypeOK
<1>6. RowsOK'
  BY <1>3 DEF IInv, RowsOK, RowOK
<1>7. WorkersOK'
  <2> SUFFICES ASSUME NEW q \in Procs PROVE WorkerOK(worker[q])'
    BY DEF WorkersOK
  <2>1. CASE q = p
    BY <2>1, <1>1, <1>3, <1>4 DEF IInv, WorkersOK, WorkerOK, PhaseOK, Busy
  <2>2. CASE q # p
    BY <2>2, <1>2, <1>3, <1>4 DEF IInv, WorkersOK, WorkerOK, PhaseOK
  <2>. QED  BY <2>1, <2>2
<1>8. OneWorkerPerTrial'
  BY <1>2, <1>4, <1>1 DEF IInv, OneWorkerPerTrial, WorkersOK, WorkerOK, Busy
<1>9. CliOK'
  BY DEF IInv, CliOK
<1>10. SupervisedOK'
  <2> SUFFICES ASSUME faults.crashes = 0 PROVE SupervisedOK'
    BY DEF SupervisedOK
  <2>1. /\ \A q \in Procs : worker[q].pc # "none" => cli.proc = q
        /\ \A q \in Procs : worker[q].pc \in Busy => trials[worker[q].trial].state = "RUNNING"
        /\ cli.pc # "aborted"
    BY DEF IInv, SupervisedOK
  <2>2. \A q \in Procs : worker'[q].pc # "none" => cli.proc = q
    BY <2>1, <1>4 DEF Busy
  <2>3. \A q \in Procs : worker'[q].pc \in Busy => trials'[worker'[q].trial].state = "RUNNING"
    BY <2>1, <1>2, <1>3, <1>4 DEF Busy
  <2>4. cli.pc # "marking"
    BY <2>1 DEF IInv, CliOK, Busy
  <2>. QED  BY <2>1, <2>2, <2>3, <2>4 DEF SupervisedOK
<1>11. AccountedOK'
  BY <1>2, <1>3, <1>4 DEF IInv, AccountedOK, Held, NoFault, Finished, Busy
<1>. QED  BY <1>5, <1>6, <1>7, <1>8, <1>9, <1>10, <1>11 DEF IInv

\* The facts about its trial that every step of a holder starts from.
LEMMA HolderFacts ==
  ASSUME IInv, NEW p \in Procs, worker[p].pc \in Busy
  PROVE  /\ worker[p].trial \in Ids /\ Row(p) \in Trial /\ worker[p] \in Worker
         /\ worker[p].quota > 0 /\ PhaseOK(worker[p], Row(p)) /\ RowOK(Row(p))
         /\ trials = [trials EXCEPT ![worker[p].trial] = Row(p)]
  BY DEF IInv, TypeOK, WorkersOK, WorkerOK, RowsOK, Worker, Busy, Row

LEMMA PrepareKeepsIInv == ASSUME NEW p \in Procs, IInv, Prepare(p) PROVE IInv'
<1>1. worker[p].pc \in Busy
  BY DEF Prepare, At, Busy
<1>2. CASE Goto(p, "folds")
  <2> DEFINE w == [worker[p] EXCEPT !.pc = "folds"]
  <2>1. w \in Worker /\ w.pc = "folds" /\ w.trial = worker[p].trial /\ w.quota > 0
        /\ PhaseOK(w, Row(p))
    BY <1>1, HolderFacts DEF PhaseOK, Worker, Busy, Prepare, At
  <2>. QED
    BY <2>1, <1>1, <1>2, HolderFacts, HolderStep DEF Prepare, Goto, Row, Busy
<1>3. CASE GotoWith(p, "tell", "FAIL")
  <2> DEFINE w == [worker[p] EXCEPT !.pc = "tell", !.out = "FAIL"]
  <2>1. w \in Worker /\ w.pc = "tell" /\ w.trial = worker[p].trial /\ w.quota > 0
        /\ PhaseOK(w, Row(p))
    BY <1>1, HolderFacts DEF PhaseOK, Worker, Busy, Outcomes
  <2>. QED
    BY <2>1, <1>1, <1>3, HolderFacts, HolderStep DEF Prepare, GotoWith, Row, Busy
<1>. QED  BY <1>2, <1>3 DEF Prepare

LEMMA FoldKeepsIInv == ASSUME NEW p \in Procs, IInv, Fold(p) PROVE IInv'
<1> DEFINE row == [Row(p) EXCEPT !.reported = @ + 1]
<1>1. worker[p].pc \in Busy /\ worker[p].pc = "folds" /\ Row(p).state = "RUNNING"
  BY DEF Fold, At, Busy, Write, Is, Row
<1>2. row \in Trial /\ RowOK(row) /\ row.state = "RUNNING" /\ row.attrs = "none"
      /\ row.arts = 0 /\ row.reported = Row(p).reported + 1
      /\ Row(p).reported \in Nat /\ row.reported > 0
  BY <1>1, HolderFacts DEF PhaseOK, RowOK, Trial
<1>3. trials' = [trials EXCEPT ![worker[p].trial] = row]
  BY DEF Fold, Write
<1>4. CASE GotoWith(p, "attrs", "PRUNED")
  <2> DEFINE w == [worker[p] EXCEPT !.pc = "attrs", !.out = "PRUNED"]
  <2>1. w \in Worker /\ w.pc = "attrs" /\ w.trial = worker[p].trial /\ w.quota > 0
        /\ PhaseOK(w, row)
    BY <1>1, <1>2, HolderFacts DEF PhaseOK, Worker, Busy, Outcomes
  <2>. QED
    BY <2>1, <1>1, <1>2, <1>3, <1>4, HolderFacts, HolderStep DEF Fold, GotoWith, Row, Busy
<1>5. CASE Row(p).reported + 1 < Folds /\ UNCHANGED worker
  <2> DEFINE w == worker[p]
  <2>1. worker' = [worker EXCEPT ![p] = w] /\ PhaseOK(w, row)
    BY <1>1, <1>2, <1>5, HolderFacts DEF PhaseOK, Busy, IInv, TypeOK
  <2>. QED
    BY <2>1, <1>1, <1>2, <1>3, HolderFacts, HolderStep DEF Fold, Row
<1>6. CASE Row(p).reported + 1 = Folds /\ GotoWith(p, "attrs", "COMPLETE")
  <2> DEFINE w == [worker[p] EXCEPT !.pc = "attrs", !.out = "COMPLETE"]
  <2>1. w \in Worker /\ w.pc = "attrs" /\ w.trial = worker[p].trial /\ w.quota > 0
        /\ PhaseOK(w, row)
    BY <1>1, <1>2, <1>6, HolderFacts DEF PhaseOK, Worker, Busy, Outcomes
  <2>. QED
    BY <2>1, <1>1, <1>2, <1>3, <1>6, HolderFacts, HolderStep DEF Fold, GotoWith, Row, Busy
<1>. QED  BY <1>4, <1>5, <1>6 DEF Fold

\* The raising exits: the trial's row stays, the outcome becomes FAIL.
LEMMA FoldRaisesKeepsIInv == ASSUME NEW p \in Procs, IInv, FoldRaises(p) PROVE IInv'
<1> DEFINE w == [worker[p] EXCEPT !.pc = "attrs", !.out = "FAIL"]
<1>1. worker[p].pc \in Busy /\ worker[p].pc = "folds"
  BY DEF FoldRaises, At, Busy
<1>2. w \in Worker /\ w.pc = "attrs" /\ w.trial = worker[p].trial /\ w.quota > 0
      /\ PhaseOK(w, Row(p))
  BY <1>1, HolderFacts DEF PhaseOK, Worker, Busy, Outcomes
<1>. QED
  BY <1>1, <1>2, HolderFacts, HolderStep DEF FoldRaises, GotoWith, Row, Busy

LEMMA RecordRaisesKeepsIInv == ASSUME NEW p \in Procs, IInv, RecordRaises(p) PROVE IInv'
<1> DEFINE w == [worker[p] EXCEPT !.pc = "tell", !.out = "FAIL"]
<1>1. worker[p].pc \in Busy
  BY DEF RecordRaises, At, Busy
<1>2. w \in Worker /\ w.pc = "tell" /\ w.trial = worker[p].trial /\ w.quota > 0
      /\ PhaseOK(w, Row(p))
  BY <1>1, HolderFacts DEF PhaseOK, Worker, Busy, Outcomes
<1>. QED
  BY <1>1, <1>2, HolderFacts, HolderStep DEF RecordRaises, GotoWith, Row, Busy

LEMMA UploadRaisesKeepsIInv == ASSUME NEW p \in Procs, IInv, UploadRaises(p) PROVE IInv'
<1> DEFINE w == [worker[p] EXCEPT !.pc = "tell", !.out = "FAIL"]
<1>1. worker[p].pc \in Busy
  BY DEF UploadRaises, At, Busy
<1>2. w \in Worker /\ w.pc = "tell" /\ w.trial = worker[p].trial /\ w.quota > 0
      /\ PhaseOK(w, Row(p))
  BY <1>1, HolderFacts DEF PhaseOK, Worker, Busy, Outcomes
<1>. QED
  BY <1>1, <1>2, HolderFacts, HolderStep DEF UploadRaises, GotoWith, Row, Busy

LEMMA TripKeepsIInv == ASSUME NEW p \in Procs, IInv, Trip(p) PROVE IInv'
<1> DEFINE w == [worker[p] EXCEPT !.tripped = TRUE]
<1>1. worker[p].pc \in Busy
  BY DEF Trip, Busy
<1>2. w \in Worker /\ w.pc = worker[p].pc /\ w.trial = worker[p].trial /\ w.quota > 0
      /\ PhaseOK(w, Row(p))
  BY <1>1, HolderFacts DEF PhaseOK, Worker
<1>. QED
  BY <1>1, <1>2, HolderFacts, HolderStep DEF Trip, Row

LEMMA RecordRequiredKeepsIInv == ASSUME NEW p \in Procs, IInv, RecordRequired(p) PROVE IInv'
<1> DEFINE row == [Row(p) EXCEPT !.attrs = "required"]
           w == worker[p]
<1>1. w.pc \in Busy /\ w.pc = "attrs" /\ Row(p).state = "RUNNING"
  BY DEF RecordRequired, At, Busy, Write, Is, Row
<1>2. row \in Trial /\ RowOK(row) /\ row.state = "RUNNING" /\ PhaseOK(w, row)
  BY <1>1, HolderFacts DEF PhaseOK, RowOK, Trial, AttrsLevels
<1>3. worker' = [worker EXCEPT ![p] = w]
      /\ trials' = [trials EXCEPT ![worker[p].trial] = row]
      /\ UNCHANGED <<cli, commands, faults>>
  BY DEF RecordRequired, Write, IInv, TypeOK
<1>. QED
  BY <1>1, <1>2, <1>3, HolderFacts, HolderStep DEF Row

LEMMA RecordOptionalKeepsIInv == ASSUME NEW p \in Procs, IInv, RecordOptional(p) PROVE IInv'
<1> DEFINE row == [Row(p) EXCEPT !.attrs = "full"]
           w == [worker[p] EXCEPT !.pc = "judge"]
<1>1. worker[p].pc \in Busy /\ worker[p].pc = "attrs" /\ Row(p).state = "RUNNING"
  BY DEF RecordOptional, At, Busy, Write, Is, Row
<1>2. row \in Trial /\ RowOK(row) /\ row.state = "RUNNING"
  BY <1>1, HolderFacts DEF RowOK, Trial, AttrsLevels
<1>3. w \in Worker /\ w.pc = "judge" /\ w.trial = worker[p].trial /\ w.quota > 0
      /\ PhaseOK(w, row)
  BY <1>1, HolderFacts DEF PhaseOK, Worker, Busy, Trial
<1>. QED
  BY <1>1, <1>2, <1>3, HolderFacts, HolderStep DEF RecordOptional, Write, Goto, Row, Busy

LEMMA JudgeKeepsIInv == ASSUME NEW p \in Procs, IInv, Judge(p) PROVE IInv'
<1>1. worker[p].pc \in Busy /\ worker[p].pc = "judge"
  BY DEF Judge, At, Busy
<1>2. CASE worker[p].out # "COMPLETE" /\ Goto(p, "tell")
  <2> DEFINE w == [worker[p] EXCEPT !.pc = "tell"]
  <2>1. w \in Worker /\ w.pc = "tell" /\ w.trial = worker[p].trial /\ w.quota > 0
        /\ PhaseOK(w, Row(p))
    BY <1>1, <1>2, HolderFacts DEF PhaseOK, Worker, Busy
  <2>. QED
    BY <2>1, <1>1, <1>2, HolderFacts, HolderStep DEF Judge, Goto, Row, Busy
<1>3. CASE worker[p].out = "COMPLETE" /\ GotoWith(p, "tell", "PRUNED")
  <2> DEFINE w == [worker[p] EXCEPT !.pc = "tell", !.out = "PRUNED"]
  <2>1. Row(p).reported > 0
    BY <1>1, <1>3, HolderFacts DEF PhaseOK
  <2>2. w \in Worker /\ w.pc = "tell" /\ w.trial = worker[p].trial /\ w.quota > 0
        /\ PhaseOK(w, Row(p))
    BY <2>1, <1>1, HolderFacts DEF PhaseOK, Worker, Busy, Outcomes
  <2>. QED
    BY <2>2, <1>1, <1>3, HolderFacts, HolderStep DEF Judge, GotoWith, Row, Busy
<1>4. CASE worker[p].out = "COMPLETE" /\ Goto(p, "upload")
  <2> DEFINE w == [worker[p] EXCEPT !.pc = "upload"]
  <2>1. w \in Worker /\ w.pc = "upload" /\ w.trial = worker[p].trial /\ w.quota > 0
        /\ PhaseOK(w, Row(p))
    BY <1>1, <1>4, HolderFacts DEF PhaseOK, Worker, Busy
  <2>. QED
    BY <2>1, <1>1, <1>4, HolderFacts, HolderStep DEF Judge, Goto, Row, Busy
<1>. QED  BY <1>2, <1>3, <1>4 DEF Judge

LEMMA UploadKeepsIInv == ASSUME NEW p \in Procs, IInv, Upload(p) PROVE IInv'
<1> DEFINE row == [Row(p) EXCEPT !.arts = @ + 1]
<1>1. worker[p].pc \in Busy /\ worker[p].pc = "upload" /\ Row(p).state = "RUNNING"
  BY DEF Upload, At, Busy, Write, Is, Row
<1>2. row \in Trial /\ RowOK(row) /\ row.state = "RUNNING" /\ row.arts = Row(p).arts + 1
      /\ row.attrs = "full" /\ row.reported = Folds /\ Row(p).arts \in {0, 1}
  BY <1>1, HolderFacts DEF PhaseOK, RowOK, Trial
<1>3. trials' = [trials EXCEPT ![worker[p].trial] = row]
  BY DEF Upload, Write
<1>4. CASE Row(p).arts = 0
  <2> DEFINE w == worker[p]
  <2>1. worker' = [worker EXCEPT ![p] = w] /\ PhaseOK(w, row)
    BY <1>1, <1>2, <1>4, HolderFacts DEF Upload, PhaseOK, Busy, IInv, TypeOK
  <2>. QED
    BY <2>1, <1>1, <1>2, <1>3, HolderFacts, HolderStep DEF Upload, Row
<1>5. CASE Row(p).arts # 0
  <2> DEFINE w == [worker[p] EXCEPT !.pc = "tell"]
  <2>1. w \in Worker /\ w.pc = "tell" /\ w.trial = worker[p].trial /\ w.quota > 0
        /\ PhaseOK(w, row)
    BY <1>1, <1>2, <1>5, HolderFacts DEF PhaseOK, Worker, Busy
  <2>. QED
    BY <2>1, <1>1, <1>2, <1>3, <1>5, HolderFacts, HolderStep DEF Upload, Goto, Row, Busy
<1>. QED  BY <1>4, <1>5

\* study.tell: the worker lets go of its trial, which ends as the outcome or,
\* for a mean that is not a number, as FAIL.
LEMMA BetweenType ==
  ASSUME NEW n \in 0 .. NTrials
  PROVE  /\ Between(n) \in Worker /\ Between(n).pc \in {"ask", "leaving"}
         /\ Between(n).trial = 0
         /\ Between(n).pc \in {"boot", "ask"} \cup Busy => Between(n).quota > 0
  BY UnassignedType DEF Between, Busy

LEMMA TellKeepsIInv == ASSUME NEW p \in Procs, IInv, Tell(p) PROVE IInv'
<1> DEFINE t == worker[p].trial
           row(s) == [Row(p) EXCEPT !.state = s]
<1>1. worker[p].pc \in Busy /\ worker[p].pc = "tell" /\ worker[p].out \in Finished
  BY HolderFacts DEF Tell, At, Busy, PhaseOK, Worker, Outcomes, Finished
<1>2. \A s \in Finished : row(s) \in Trial /\ row(s).state = s
  BY <1>1, HolderFacts DEF Trial, States, Finished
<1>3. RowOK(row(worker[p].out)) /\ RowOK(row("FAIL"))
  BY <1>1, HolderFacts DEF PhaseOK, RowOK, Trial, Busy, Finished
<1>4. \A s \in Finished : SetState(t, s) => trials' = [trials EXCEPT ![t] = row(s)]
  BY DEF SetState, Row
<1>5. \E n \in 0 .. NTrials : worker' = [worker EXCEPT ![p] = Between(n)]
  BY HolderFacts, <1>1 DEF Tell, NextTrial, Propagate, Worker
<1>6. \E s \in {worker[p].out, "FAIL"} : SetState(t, s)
  BY DEF Tell
<1>7. PICK r \in Trial :
        trials' = [trials EXCEPT ![t] = r] /\ RowOK(r) /\ r.state \in Finished
  BY <1>1, <1>2, <1>3, <1>4, <1>6 DEF Finished
<1>8. PICK n \in 0 .. NTrials : worker' = [worker EXCEPT ![p] = Between(n)]
  BY <1>5
<1>9. UNCHANGED <<cli, commands, faults>>
  BY DEF Tell
<1> HIDE DEF row
<1>. QED  BY <1>1, <1>7, <1>8, <1>9, BetweenType, HolderStep

LEMMA TellRefusedKeepsIInv == ASSUME NEW p \in Procs, IInv, TellRefused(p) PROVE IInv'
<1>1. worker[p].pc \in Busy /\ Row(p).state \in Finished
  BY HolderFacts DEF TellRefused, At, Busy, PhaseOK, Row, Is, Trial, States
<1>2. worker' = [worker EXCEPT ![p] = Between(0)] /\ UNCHANGED <<trials, cli, commands, faults>>
  BY DEF TellRefused, Propagate
<1>3. 0 \in 0 .. NTrials
  OBVIOUS
<1>. QED  BY <1>1, <1>2, <1>3, BetweenType, HolderFacts, HolderStep

-----------------------------------------------------------------------------
(* Steps of a worker that holds no trial before and after                  *)

LEMMA FreeStep ==
  ASSUME IInv, NEW p \in Procs, NEW w \in Worker,
         worker[p].pc \notin Busy, w.pc \notin Busy, w.trial = 0,
         w.pc \in {"boot", "ask"} => w.quota > 0,
         w.pc # "none" => worker[p].pc # "none",
         worker' = [worker EXCEPT ![p] = w],
         UNCHANGED <<trials, cli, commands, faults>>
  PROVE  IInv'
<1>1. worker \in [Procs -> Worker]
  BY DEF IInv, TypeOK
<1>2. /\ worker' \in [Procs -> Worker] /\ worker'[p] = w
      /\ \A q \in Procs : q # p => worker'[q] = worker[q]
  BY <1>1
<1>3. TypeOK'
  BY <1>2 DEF IInv, TypeOK
<1>4. RowsOK'
  BY DEF IInv, RowsOK, RowOK
<1>5. WorkersOK'
  <2> SUFFICES ASSUME NEW q \in Procs PROVE WorkerOK(worker[q])'
    BY DEF WorkersOK
  <2>. QED  BY <1>2 DEF IInv, WorkersOK, WorkerOK, PhaseOK, Busy
<1>6. OneWorkerPerTrial'
  BY <1>1, <1>2 DEF IInv, OneWorkerPerTrial, WorkersOK, WorkerOK, Busy
<1>7. CliOK'
  BY DEF IInv, CliOK
<1>8. SupervisedOK'
  BY <1>2 DEF IInv, SupervisedOK, Busy
<1>9. AccountedOK'
  BY <1>2 DEF IInv, AccountedOK, Held, NoFault, Busy
<1>. QED  BY <1>3, <1>4, <1>5, <1>6, <1>7, <1>8, <1>9 DEF IInv

LEMMA BootKeepsIInv == ASSUME NEW p \in Procs, IInv, Boot(p) PROVE IInv'
<1>1. worker[p] \in Worker /\ worker[p].pc = "boot" /\ worker[p].quota > 0 /\ worker[p].trial = 0
  BY DEF IInv, TypeOK, WorkersOK, WorkerOK, Boot, At, Busy
<1>2. PICK pc \in {"ask", "leaving"} : Goto(p, pc)
  BY DEF Boot
<1> DEFINE w == [worker[p] EXCEPT !.pc = pc]
<1>3. w \in Worker /\ w.pc = pc /\ w.quota > 0 /\ w.trial = 0
  BY <1>1, <1>2 DEF Worker
<1>4. worker' = [worker EXCEPT ![p] = w] /\ UNCHANGED <<trials, cli, commands, faults>>
  BY <1>2 DEF Boot, Goto
<1> HIDE DEF w
<1>. QED  BY <1>1, <1>2, <1>3, <1>4, FreeStep DEF Busy

LEMMA EndedWorker ==
  ASSUME NEW p \in Procs
  PROVE  Ended(p) \in Worker /\ Ended(p).pc \in {"none", "exited"} /\ Ended(p).trial = 0
  BY UnassignedType DEF Ended

LEMMA LeaveKeepsIInv == ASSUME NEW p \in Procs, IInv, Leave(p) PROVE IInv'
<1>1. worker[p].pc = "leaving"
  BY DEF Leave, At
<1>2. worker' = [worker EXCEPT ![p] = Ended(p)] /\ UNCHANGED <<trials, cli, commands, faults>>
  BY DEF Leave
<1>. QED  BY <1>1, <1>2, EndedWorker, FreeStep DEF Busy

-----------------------------------------------------------------------------
(* study.ask: a worker takes a trial nobody holds                          *)

LEMMA AskKeepsIInv == ASSUME NEW p \in Procs, IInv, Ask(p) PROVE IInv'
<1>1. PICK t \in Ids :
        /\ Asked(t)
        /\ SetState(t, "RUNNING")
        /\ worker' = [worker EXCEPT ![p] = [pc |-> "prepare", quota |-> worker[p].quota,
                        trial |-> t, out |-> "none", tripped |-> FALSE]]
  BY DEF Ask
<1> DEFINE w == [pc |-> "prepare", quota |-> worker[p].quota,
                 trial |-> t, out |-> "none", tripped |-> FALSE]
           row == [trials[t] EXCEPT !.state = "RUNNING"]
<1>2. /\ worker \in [Procs -> Worker] /\ trials \in [Ids -> Trial]
      /\ worker[p].pc = "ask" /\ worker[p].quota > 0 /\ worker[p].trial = 0
      /\ UNCHANGED <<cli, commands, faults>>
  BY DEF IInv, TypeOK, WorkersOK, WorkerOK, Ask, At, Busy
<1>3. trials[t].state \in {"absent", "WAITING"}
  BY <1>1 DEF Asked, NextNumber, Is
<1>4. /\ row \in Trial /\ row.state = "RUNNING" /\ row.attrs = "none" /\ row.arts = 0
      /\ row.reported = 0 /\ RowOK(row)
  BY <1>2, <1>3 DEF IInv, RowsOK, RowOK, Trial, States
<1>5. /\ w \in Worker /\ w.pc = "prepare" /\ w.trial = t /\ w.quota > 0 /\ t # 0
      /\ PhaseOK(w, row)
  BY <1>2, <1>4 DEF Worker, Busy, Outcomes, PhaseOK
<1>6. /\ worker' \in [Procs -> Worker] /\ worker'[p] = w
      /\ \A q \in Procs : q # p => worker'[q] = worker[q]
  BY <1>1, <1>2, <1>5
<1>7. /\ trials' \in [Ids -> Trial] /\ trials'[t] = row
      /\ \A u \in Ids : u # t => trials'[u] = trials[u]
  BY <1>1, <1>2, <1>4 DEF SetState
<1> HIDE DEF w, row
<1>8. \A q \in Procs : worker[q].pc \in Busy => worker[q].trial # t /\ worker[q].trial \in Ids
  BY <1>2, <1>3 DEF IInv, WorkersOK, WorkerOK, PhaseOK, Worker
<1>9. TypeOK'
  BY <1>2, <1>6, <1>7 DEF IInv, TypeOK
<1>10. RowsOK'
  BY <1>4, <1>7 DEF IInv, RowsOK, RowOK
<1>11. WorkersOK'
  <2> SUFFICES ASSUME NEW q \in Procs PROVE WorkerOK(worker[q])'
    BY DEF WorkersOK
  <2>1. CASE q = p
    BY <2>1, <1>5, <1>6, <1>7 DEF WorkerOK, PhaseOK, Busy
  <2>2. CASE q # p
    BY <2>2, <1>6, <1>7, <1>8 DEF IInv, WorkersOK, WorkerOK, PhaseOK
  <2>. QED  BY <2>1, <2>2
<1>12. OneWorkerPerTrial'
  BY <1>2, <1>5, <1>6, <1>8 DEF IInv, OneWorkerPerTrial, WorkersOK, WorkerOK, Busy
<1>13. CliOK'
  BY <1>2 DEF IInv, CliOK
<1>14. SupervisedOK'
  <2> SUFFICES ASSUME faults.crashes = 0 PROVE SupervisedOK'
    BY <1>2 DEF SupervisedOK
  <2>1. /\ \A q \in Procs : worker[q].pc # "none" => cli.proc = q
        /\ \A q \in Procs : worker[q].pc \in Busy => trials[worker[q].trial].state = "RUNNING"
        /\ cli.pc # "aborted"
    BY DEF IInv, SupervisedOK
  <2>2. \A q \in Procs : worker'[q].pc # "none" => cli.proc = q
    BY <2>1, <1>2, <1>6
  <2>3. \A q \in Procs : worker'[q].pc \in Busy => trials'[worker'[q].trial].state = "RUNNING"
    BY <2>1, <1>4, <1>5, <1>6, <1>7, <1>8
  <2>4. cli.pc # "marking"
    BY <2>1, <1>2 DEF IInv, CliOK
  <2>. QED  BY <2>1, <2>2, <2>3, <2>4, <1>2 DEF SupervisedOK
<1>15. AccountedOK'
  BY <1>2, <1>5, <1>6, <1>7 DEF IInv, AccountedOK, Held, NoFault, Busy
<1>. QED  BY <1>9, <1>10, <1>11, <1>12, <1>13, <1>14, <1>15 DEF IInv

-----------------------------------------------------------------------------
(* Steps of the command line process                                       *)

\* Putting a worker without a trial into a slot disturbs no other worker.
LEMMA SlotStep ==
  ASSUME IInv, NEW p \in Procs, NEW w \in Worker,
         w.pc \notin Busy, w.trial = 0, w.pc \in {"boot", "ask"} => w.quota > 0,
         worker' = [worker EXCEPT ![p] = w], UNCHANGED trials
  PROVE  /\ worker' \in [Procs -> Worker] /\ worker'[p] = w
         /\ \A q \in Procs : q # p => worker'[q] = worker[q]
         /\ RowsOK' /\ WorkersOK' /\ OneWorkerPerTrial'
<1>1. /\ worker' \in [Procs -> Worker] /\ worker'[p] = w
      /\ \A q \in Procs : q # p => worker'[q] = worker[q]
  BY DEF IInv, TypeOK
<1>2. RowsOK'
  BY DEF IInv, RowsOK, RowOK
<1>3. WorkersOK'
  <2> SUFFICES ASSUME NEW q \in Procs PROVE WorkerOK(worker[q])'
    BY DEF WorkersOK
  <2>. QED  BY <1>1 DEF IInv, WorkersOK, WorkerOK, PhaseOK, Busy
<1>4. OneWorkerPerTrial'
  BY <1>1 DEF IInv, OneWorkerPerTrial, WorkersOK, WorkerOK, Busy
<1>. QED  BY <1>1, <1>2, <1>3, <1>4

\* With no cli running and none ever killed, no process runs.
LEMMA IdleAlone ==
  ASSUME IInv, faults.crashes = 0, cli.proc = NoProc
  PROVE  \A p \in Procs : worker[p].pc = "none"
  BY DEF IInv, SupervisedOK

LEMMA IssueType == IInv /\ Issue => commands' \in 0 .. MaxCommands
  BY BoundsAssumption DEF IInv, TypeOK, Issue

LEMMA StartSweepKeepsIInv == ASSUME IInv, StartSweep PROVE IInv'
<1>1. /\ cli.pc = "idle" /\ cli.proc = NoProc /\ UNCHANGED <<trials, faults>>
      /\ commands' \in 0 .. MaxCommands
  <2>1. cli.pc = "idle" /\ Issue /\ UNCHANGED <<trials, faults>>
    BY DEF StartSweep
  <2>2. commands' \in 0 .. MaxCommands
    BY <2>1, IssueType
  <2>. QED  BY <2>1, <2>2 DEF IInv, CliOK
<1>2. CASE cli' = [NoCli EXCEPT !.pc = "dispatch", !.left = NTrials] /\ UNCHANGED worker
  <2>1. cli' \in Cli /\ cli'.pc = "dispatch" /\ cli'.proc = NoProc
    <3>1. NTrials \in 0 .. NTrials
      OBVIOUS
    <3>. QED  BY <1>2, <3>1, NoCliType DEF Cli
  <2>2. TypeOK' /\ RowsOK' /\ WorkersOK' /\ OneWorkerPerTrial' /\ CliOK'
    BY <1>1, <1>2, <2>1 DEF IInv, TypeOK, RowsOK, RowOK, WorkersOK, WorkerOK, PhaseOK,
         OneWorkerPerTrial, CliOK
  <2>3. SupervisedOK'
    BY <1>1, <1>2, <2>1, IdleAlone DEF SupervisedOK, Busy
  <2>4. AccountedOK'
    BY <1>1, <1>2, <2>1 DEF IInv, AccountedOK, Held, NoFault
  <2>. QED  BY <2>2, <2>3, <2>4 DEF IInv
<1>3. ASSUME NEW p \in Procs, Free(p), NewWorker(p, NTrials),
             cli' = [NoCli EXCEPT !.pc = "inproc", !.proc = p]
      PROVE  IInv'
  <2>1. cli' \in Cli /\ cli'.pc = "inproc" /\ cli'.proc = p
    BY <1>3, NoCliType DEF Cli
  <2> DEFINE w == Unassigned("boot", NTrials)
  <2>2. w \in Worker /\ w.pc = "boot" /\ w.quota > 0 /\ w.trial = 0
        /\ worker' = [worker EXCEPT ![p] = w] /\ worker[p].pc = "none"
    BY <1>3, UnassignedType DEF NewWorker, Free
  <2> HIDE DEF w
  <2>3. /\ worker' \in [Procs -> Worker] /\ worker'[p] = w
        /\ \A q \in Procs : q # p => worker'[q] = worker[q]
        /\ RowsOK' /\ WorkersOK' /\ OneWorkerPerTrial'
    BY <1>1, <2>2, SlotStep DEF Busy
  <2>4. TypeOK' /\ CliOK'
    BY <1>1, <2>1, <2>3 DEF IInv, TypeOK, CliOK
  <2>5. SupervisedOK'
    BY <1>1, <2>1, <2>2, <2>3, IdleAlone DEF SupervisedOK, Busy
  <2>6. AccountedOK'
    BY <1>1, <2>1, <2>2, <2>3 DEF IInv, AccountedOK, Held, NoFault, Busy
  <2>. QED  BY <2>3, <2>4, <2>5, <2>6 DEF IInv
<1>. QED  BY <1>2, <1>3 DEF StartSweep

LEMMA DispatchKeepsIInv == ASSUME IInv, Dispatch PROVE IInv'
<1>1. /\ cli.pc = "dispatch" /\ cli.left > 0 /\ cli.proc = NoProc
      /\ UNCHANGED <<trials, commands, faults>>
  BY DEF Dispatch, IInv, CliOK
<1>2. PICK p \in Procs : /\ worker[p].pc = "none" /\ NewWorker(p, 1)
                         /\ cli' = [cli EXCEPT !.pc = "wait", !.proc = p]
  BY DEF Dispatch, Free
<1>3. cli' \in Cli /\ cli'.pc = "wait" /\ cli'.proc = p /\ cli'.left > 0
  BY <1>1, <1>2 DEF IInv, TypeOK, Cli
<1> DEFINE w == Unassigned("boot", 1)
<1>4. w \in Worker /\ w.pc = "boot" /\ w.quota > 0 /\ w.trial = 0
      /\ worker' = [worker EXCEPT ![p] = w]
  BY <1>2, UnassignedType DEF NewWorker
<1> HIDE DEF w
<1>5. /\ worker' \in [Procs -> Worker] /\ worker'[p] = w
      /\ \A q \in Procs : q # p => worker'[q] = worker[q]
      /\ RowsOK' /\ WorkersOK' /\ OneWorkerPerTrial'
  BY <1>1, <1>4, SlotStep DEF Busy
<1>6. TypeOK' /\ CliOK'
  BY <1>1, <1>3, <1>5 DEF IInv, TypeOK, CliOK
<1>7. SupervisedOK'
  BY <1>1, <1>3, <1>4, <1>5, IdleAlone DEF SupervisedOK, Busy
<1>8. AccountedOK'
  BY <1>1, <1>2, <1>3, <1>4, <1>5 DEF IInv, AccountedOK, Held, NoFault, Busy
<1>. QED  BY <1>5, <1>6, <1>7, <1>8 DEF IInv

\* The slot of the process the cli waited for is emptied.
LEMMA Vacated ==
  ASSUME IInv, cli.pc \in {"wait", "inproc"}, UNCHANGED trials,
         worker' = [worker EXCEPT ![cli.proc] = NoWorker]
  PROVE  /\ cli.proc \in Procs
         /\ worker' \in [Procs -> Worker] /\ worker'[cli.proc] = NoWorker
         /\ \A q \in Procs : q # cli.proc => worker'[q] = worker[q]
         /\ faults.crashes = 0 => \A q \in Procs : worker'[q].pc = "none"
         /\ RowsOK' /\ WorkersOK' /\ OneWorkerPerTrial'
<1>1. cli.proc \in Procs
  BY DEF IInv, CliOK
<1>2. /\ worker' \in [Procs -> Worker] /\ worker'[cli.proc] = NoWorker
      /\ \A q \in Procs : q # cli.proc => worker'[q] = worker[q]
      /\ RowsOK' /\ WorkersOK' /\ OneWorkerPerTrial'
  BY <1>1, NoWorkerType, SlotStep DEF Busy
<1>3. faults.crashes = 0 => \A q \in Procs : worker'[q].pc = "none"
  BY <1>2, NoWorkerType DEF IInv, SupervisedOK
<1>. QED  BY <1>1, <1>2, <1>3

LEMMA ReapKeepsIInv == ASSUME IInv, Reap PROVE IInv'
<1>1. /\ cli.pc = "wait" /\ worker[cli.proc].pc = "exited"
      /\ worker' = [worker EXCEPT ![cli.proc] = NoWorker]
      /\ cli' = [cli EXCEPT !.pc = "dispatch", !.proc = NoProc, !.left = @ - 1]
      /\ UNCHANGED <<trials, commands, faults>>
  BY DEF Reap, At
<1>2. cli' \in Cli /\ cli'.pc = "dispatch" /\ cli'.proc = NoProc
  <2>1. cli.left - 1 \in 0 .. NTrials
    BY <1>1 DEF IInv, TypeOK, Cli, CliOK
  <2>. QED  BY <1>1, <2>1 DEF IInv, TypeOK, Cli
<1>3. TypeOK' /\ RowsOK' /\ WorkersOK' /\ OneWorkerPerTrial' /\ CliOK'
  BY <1>1, <1>2, Vacated DEF IInv, TypeOK, CliOK
<1>4. SupervisedOK'
  BY <1>1, <1>2, Vacated DEF SupervisedOK, Busy
<1>5. AccountedOK'
  BY <1>1, <1>2, Vacated DEF IInv, AccountedOK, Held, NoFault, Busy
<1>. QED  BY <1>3, <1>4, <1>5 DEF IInv

LEMMA TimeoutKillKeepsIInv == ASSUME IInv, TimeoutKill PROVE IInv'
<1>1. /\ cli.pc = "wait"
      /\ worker' = [worker EXCEPT ![cli.proc] = NoWorker]
      /\ cli' = [cli EXCEPT !.pc = "mark", !.proc = NoProc]
      /\ UNCHANGED <<trials, commands, faults>>
  BY DEF TimeoutKill
<1>2. cli' \in Cli /\ cli'.pc = "mark" /\ cli'.proc = NoProc /\ cli'.left > 0
  BY <1>1 DEF IInv, TypeOK, Cli, CliOK
<1>3. TypeOK' /\ RowsOK' /\ WorkersOK' /\ OneWorkerPerTrial' /\ CliOK'
  BY <1>1, <1>2, Vacated DEF IInv, TypeOK, CliOK
<1>4. SupervisedOK'
  BY <1>1, <1>2, Vacated DEF SupervisedOK, Busy
<1>5. AccountedOK'
  BY <1>2 DEF AccountedOK
<1>. QED  BY <1>3, <1>4, <1>5 DEF IInv

LEMMA InProcessExitKeepsIInv == ASSUME IInv, InProcessExit PROVE IInv'
<1>1. /\ cli.pc = "inproc" /\ worker[cli.proc].pc = "exited"
      /\ worker' = [worker EXCEPT ![cli.proc] = NoWorker]
      /\ cli' = NoCli /\ UNCHANGED <<trials, commands, faults>>
  BY DEF InProcessExit, At
<1>2. cli' \in Cli /\ cli'.pc = "idle" /\ cli'.proc = NoProc
  BY <1>1, NoCliType DEF Cli
<1>3. TypeOK' /\ RowsOK' /\ WorkersOK' /\ OneWorkerPerTrial' /\ CliOK'
  BY <1>1, <1>2, Vacated DEF IInv, TypeOK, CliOK
<1>4. SupervisedOK'
  BY <1>1, <1>2, Vacated DEF SupervisedOK, Busy
<1>5. AccountedOK'
  BY <1>1, <1>2, Vacated DEF IInv, AccountedOK, Held, NoFault, Busy
<1>. QED  BY <1>3, <1>4, <1>5 DEF IInv

\* A step that changes nothing but the cli keeps what is said of the rest.
LEMMA CliOnlyStep ==
  ASSUME IInv, cli' \in Cli, UNCHANGED <<trials, worker, commands, faults>>
  PROVE  TypeOK' /\ RowsOK' /\ WorkersOK' /\ OneWorkerPerTrial'
  BY DEF IInv, TypeOK, RowsOK, RowOK, WorkersOK, WorkerOK, PhaseOK, OneWorkerPerTrial

LEMMA MarkSnapshotKeepsIInv == ASSUME IInv, MarkSnapshot PROVE IInv'
<1>1. /\ cli.pc = "mark" /\ cli.proc = NoProc /\ cli.left > 0
      /\ cli' = [cli EXCEPT !.pc = "marking", !.marks = {t \in Ids : Is(t, "RUNNING")}]
      /\ UNCHANGED <<trials, worker, commands, faults>>
  BY DEF MarkSnapshot, IInv, CliOK
<1>2. cli' \in Cli /\ cli'.pc = "marking" /\ cli'.proc = NoProc /\ cli'.left > 0
      /\ cli'.marks = {t \in Ids : trials[t].state = "RUNNING"}
  BY <1>1 DEF IInv, TypeOK, Cli, Is
<1>3. TypeOK' /\ RowsOK' /\ WorkersOK' /\ OneWorkerPerTrial'
  BY <1>1, <1>2, CliOnlyStep
<1>4. CliOK'
  BY <1>2 DEF CliOK
<1>5. SupervisedOK'
  BY <1>1, <1>2, IdleAlone DEF SupervisedOK, Busy
<1>6. AccountedOK'
  BY <1>1, <1>2 DEF AccountedOK
<1>. QED  BY <1>3, <1>4, <1>5, <1>6 DEF IInv

LEMMA MarkRefusedKeepsIInv == ASSUME IInv, MarkRefused PROVE IInv'
<1>1. /\ cli.pc = "marking" /\ cli.proc = NoProc
      /\ cli' = [NoCli EXCEPT !.pc = "aborted"]
      /\ UNCHANGED <<trials, worker, commands, faults>>
  BY DEF MarkRefused, IInv, CliOK
<1>2. cli' \in Cli /\ cli'.pc = "aborted" /\ cli'.proc = NoProc
  BY <1>1, NoCliType DEF Cli
<1>3. faults.crashes # 0
  BY <1>1 DEF MarkRefused, NextMark, Is, IInv, SupervisedOK
<1>4. TypeOK' /\ RowsOK' /\ WorkersOK' /\ OneWorkerPerTrial'
  BY <1>1, <1>2, CliOnlyStep
<1>5. CliOK' /\ SupervisedOK' /\ AccountedOK'
  BY <1>1, <1>2, <1>3 DEF CliOK, SupervisedOK, AccountedOK, NoFault
<1>. QED  BY <1>4, <1>5 DEF IInv

LEMMA MarkDoneKeepsIInv == ASSUME IInv, MarkDone PROVE IInv'
<1>1. /\ cli.pc = "marking" /\ cli.marks = {} /\ cli.proc = NoProc /\ cli.left > 0
      /\ cli' = [cli EXCEPT !.pc = "dispatch", !.left = @ - 1]
      /\ UNCHANGED <<trials, worker, commands, faults>>
  BY DEF MarkDone, IInv, CliOK
<1>2. cli' \in Cli /\ cli'.pc = "dispatch" /\ cli'.proc = NoProc
  <2>1. cli.left - 1 \in 0 .. NTrials
    BY <1>1 DEF IInv, TypeOK, Cli
  <2>. QED  BY <1>1, <2>1 DEF IInv, TypeOK, Cli
<1>3. TypeOK' /\ RowsOK' /\ WorkersOK' /\ OneWorkerPerTrial'
  BY <1>1, <1>2, CliOnlyStep
<1>4. CliOK'
  BY <1>2 DEF CliOK
<1>5. SupervisedOK'
  BY <1>1, <1>2, IdleAlone DEF SupervisedOK, Busy
<1>6. AccountedOK'
  BY <1>1, <1>2 DEF IInv, AccountedOK, Held, NoFault
<1>. QED  BY <1>3, <1>4, <1>5, <1>6 DEF IInv

LEMMA CliExitKeepsIInv == ASSUME IInv, CliExit PROVE IInv'
<1>1. /\ cli.pc \in {"dispatch", "aborted"} /\ cli.proc = NoProc
      /\ cli' = NoCli /\ UNCHANGED <<trials, worker, commands, faults>>
  BY DEF CliExit, IInv, CliOK
<1>2. cli' \in Cli /\ cli'.pc = "idle" /\ cli'.proc = NoProc
  BY <1>1, NoCliType DEF Cli
<1>3. TypeOK' /\ RowsOK' /\ WorkersOK' /\ OneWorkerPerTrial'
  BY <1>1, <1>2, CliOnlyStep
<1>4. CliOK'
  BY <1>2 DEF CliOK
<1>5. SupervisedOK'
  BY <1>1, <1>2, IdleAlone DEF SupervisedOK, Busy
<1>6. AccountedOK'
  BY <1>1, <1>2 DEF IInv, AccountedOK, Held, NoFault, SupervisedOK
<1>. QED  BY <1>3, <1>4, <1>5, <1>6 DEF IInv

\* A row nobody holds may change its state, if what is said of rows holds.
LEMMA RowStep ==
  ASSUME IInv, NEW t \in Ids, NEW s \in States, SetState(t, s),
         \A q \in Procs : worker[q].pc \in Busy /\ worker[q].trial = t => s = "FAIL",
         s = "FAIL" \/ (trials[t].state = "absent" /\ s = "WAITING")
  PROVE  /\ trials' \in [Ids -> Trial] /\ trials'[t].state = s
         /\ \A u \in Ids : u # t => trials'[u] = trials[u]
         /\ \A u \in Ids : u # t => trials'[u].state = trials[u].state
         /\ RowsOK'
         /\ \A w \in Worker : w.trial \in Ids /\ PhaseOK(w, trials[w.trial])
                /\ (w.trial = t => s = "FAIL") => PhaseOK(w, trials'[w.trial])
<1> DEFINE row == [trials[t] EXCEPT !.state = s]
<1>1. trials \in [Ids -> Trial] /\ trials[t] \in Trial /\ RowOK(trials[t])
  BY DEF IInv, TypeOK, RowsOK
<1>2. /\ row \in Trial /\ row.state = s /\ row.attrs = trials[t].attrs
      /\ row.arts = trials[t].arts /\ row.reported = trials[t].reported
  BY <1>1 DEF Trial
<1>3. RowOK(row)
  BY <1>1, <1>2 DEF RowOK
<1>4. /\ trials' \in [Ids -> Trial] /\ trials'[t] = row
      /\ \A u \in Ids : u # t => trials'[u] = trials[u]
  BY <1>1, <1>2 DEF SetState
<1> HIDE DEF row
<1>5. RowsOK'
  BY <1>3, <1>4 DEF IInv, RowsOK, RowOK
<1>6. ASSUME NEW w \in Worker, w.trial \in Ids, PhaseOK(w, trials[w.trial]),
             w.trial = t => s = "FAIL"
      PROVE  PhaseOK(w, trials'[w.trial])
  <2>1. CASE w.trial = t
    BY <2>1, <1>2, <1>4, <1>6 DEF PhaseOK
  <2>2. CASE w.trial # t
    BY <2>2, <1>4, <1>6
  <2>. QED  BY <2>1, <2>2
<1>. QED  BY <1>2, <1>4, <1>5, <1>6

LEMMA MarkOneKeepsIInv == ASSUME IInv, MarkOne PROVE IInv'
<1>1. PICK t \in Ids : /\ NextMark(t) /\ trials[t].state = "RUNNING" /\ SetState(t, "FAIL")
                       /\ cli' = [cli EXCEPT !.marks = @ \ {t}]
  BY DEF MarkOne, Is
<1>2. cli.pc = "marking" /\ cli.proc = NoProc /\ cli.left > 0
      /\ UNCHANGED <<worker, commands, faults>>
  BY DEF MarkOne, IInv, CliOK
<1>3. /\ cli' \in Cli /\ cli'.pc = "marking" /\ cli'.proc = NoProc /\ cli'.left > 0
      /\ cli'.marks = cli.marks \ {t}
  BY <1>1, <1>2 DEF IInv, TypeOK, Cli
<1>4. /\ trials' \in [Ids -> Trial] /\ trials'[t].state = "FAIL" /\ RowsOK'
      /\ \A u \in Ids : u # t => trials'[u] = trials[u]
      /\ \A w \in Worker : w.trial \in Ids /\ PhaseOK(w, trials[w.trial])
           => PhaseOK(w, trials'[w.trial])
  BY <1>1, RowStep DEF States, Finished
<1>5. TypeOK'
  BY <1>2, <1>3, <1>4 DEF IInv, TypeOK
<1>6. WorkersOK'
  <2> SUFFICES ASSUME NEW q \in Procs PROVE WorkerOK(worker[q])'
    BY DEF WorkersOK
  <2>1. worker[q] \in Worker /\ WorkerOK(worker[q]) /\ worker'[q] = worker[q]
        /\ (worker[q].pc \in Busy => worker[q].trial \in Ids)
    BY <1>2 DEF IInv, TypeOK, WorkersOK, WorkerOK, Worker
  <2>. QED  BY <2>1, <1>4 DEF WorkerOK
<1>7. OneWorkerPerTrial'
  BY <1>2 DEF IInv, OneWorkerPerTrial
<1>8. CliOK'
  BY <1>3 DEF CliOK
<1>9. SupervisedOK'
  <2> SUFFICES ASSUME faults.crashes = 0 PROVE SupervisedOK'
    BY <1>2 DEF SupervisedOK
  <2>1. \A q \in Procs : worker'[q].pc = "none"
    BY <1>2, IdleAlone
  <2>2. \A u \in cli'.marks : trials'[u].state = "RUNNING"
    BY <1>2, <1>3, <1>4 DEF IInv, TypeOK, Cli, SupervisedOK
  <2>. QED  BY <1>3, <2>1, <2>2 DEF SupervisedOK, Busy
<1>10. AccountedOK'
  BY <1>2, <1>3, <1>4 DEF IInv, AccountedOK, Held, NoFault
<1>. QED  BY <1>4, <1>5, <1>6, <1>7, <1>8, <1>9, <1>10 DEF IInv

LEMMA RetryTrialKeepsIInv == ASSUME IInv, RetryTrial PROVE IInv'
<1>1. PICK t \in Ids, p \in Procs :
        /\ NextNumber(t) /\ SetState(t, "WAITING") /\ Free(p)
        /\ cli' = [NoCli EXCEPT !.pc = "inproc", !.proc = p, !.own = t]
        /\ NewWorker(p, 1)
  BY DEF RetryTrial
<1>2. cli.pc = "idle" /\ cli.proc = NoProc /\ UNCHANGED faults
      /\ commands' \in 0 .. MaxCommands
  BY IssueType DEF RetryTrial, IInv, CliOK
<1>3. cli' \in Cli /\ cli'.pc = "inproc" /\ cli'.proc = p
  <2>1. t \in 0 .. MaxTrials
    OBVIOUS
  <2>. QED  BY <1>1, <2>1, NoCliType DEF Cli
<1> DEFINE w == Unassigned("boot", 1)
<1>4. w \in Worker /\ w.pc = "boot" /\ w.quota > 0 /\ w.trial = 0
      /\ worker' = [worker EXCEPT ![p] = w] /\ worker[p].pc = "none"
  BY <1>1, UnassignedType DEF NewWorker, Free
<1> HIDE DEF w
<1>5. trials[t].state = "absent" /\ "WAITING" \in States
  BY <1>1 DEF NextNumber, Is, States
<1>6. \A q \in Procs : worker[q].pc \in Busy =>
        worker[q].trial # t /\ worker[q].trial \in Ids /\ worker[q] \in Worker
  BY <1>5 DEF IInv, TypeOK, WorkersOK, WorkerOK, PhaseOK, Worker
<1>7. /\ trials' \in [Ids -> Trial] /\ trials'[t].state = "WAITING" /\ RowsOK'
      /\ \A u \in Ids : u # t => trials'[u] = trials[u]
  BY <1>1, <1>5, <1>6, RowStep
<1>8. /\ worker' \in [Procs -> Worker] /\ worker'[p] = w
      /\ \A q \in Procs : q # p => worker'[q] = worker[q]
  BY <1>4 DEF IInv, TypeOK
<1>9. TypeOK' /\ CliOK'
  BY <1>2, <1>3, <1>7, <1>8 DEF IInv, TypeOK, CliOK
<1>10. WorkersOK'
  <2> SUFFICES ASSUME NEW q \in Procs PROVE WorkerOK(worker[q])'
    BY DEF WorkersOK
  <2>1. CASE q = p
    BY <2>1, <1>4, <1>8 DEF WorkerOK, Busy
  <2>2. CASE q # p
    BY <2>2, <1>6, <1>7, <1>8 DEF IInv, WorkersOK, WorkerOK, PhaseOK
  <2>. QED  BY <2>1, <2>2
<1>11. OneWorkerPerTrial'
  BY <1>4, <1>6, <1>8 DEF IInv, OneWorkerPerTrial, WorkersOK, WorkerOK, Busy
<1>12. SupervisedOK'
  BY <1>2, <1>3, <1>4, <1>8, IdleAlone DEF SupervisedOK, Busy
<1>13. AccountedOK'
  BY <1>2, <1>3, <1>4, <1>7, <1>8 DEF IInv, AccountedOK, Held, NoFault, Busy
<1>. QED  BY <1>7, <1>9, <1>10, <1>11, <1>12, <1>13 DEF IInv

-----------------------------------------------------------------------------
(* Faults                                                                  *)

LEMMA KillKeepsIInv == ASSUME NEW p \in Procs, IInv, Kill(p) PROVE IInv'
<1>1. /\ worker[p].pc \notin {"none", "exited"}
      /\ worker' = [worker EXCEPT ![p] = Ended(p)]
      /\ UNCHANGED <<trials, cli, commands>>
      /\ faults' = [faults EXCEPT !.kills = @ + 1] /\ faults.kills < MaxKills
  BY DEF Kill, Alive
<1>2. faults' \in Faults /\ faults'.kills # 0 /\ faults'.crashes = faults.crashes
  <2>1. faults.kills \in Nat /\ faults.kills + 1 \in 0 .. MaxKills
    BY <1>1, BoundsAssumption DEF IInv, TypeOK, Faults
  <2>. QED  BY <1>1, <2>1 DEF IInv, TypeOK, Faults
<1>3. /\ worker' \in [Procs -> Worker] /\ worker'[p] = Ended(p)
      /\ \A q \in Procs : q # p => worker'[q] = worker[q]
      /\ RowsOK' /\ WorkersOK' /\ OneWorkerPerTrial'
  BY <1>1, EndedWorker, SlotStep DEF Busy
<1>4. TypeOK' /\ CliOK'
  BY <1>1, <1>2, <1>3 DEF IInv, TypeOK, CliOK
<1>5. SupervisedOK'
  BY <1>1, <1>2, <1>3, EndedWorker DEF IInv, SupervisedOK, Busy
<1>6. AccountedOK'
  BY <1>2 DEF AccountedOK, NoFault
<1>. QED  BY <1>3, <1>4, <1>5, <1>6 DEF IInv

LEMMA InterruptKeepsIInv == ASSUME IInv, Interrupt PROVE IInv'
<1>1. /\ cli.pc = "wait" /\ worker' = [worker EXCEPT ![cli.proc] = NoWorker]
      /\ cli' = NoCli /\ UNCHANGED <<trials, commands>>
      /\ faults' = [faults EXCEPT !.interrupts = @ + 1]
      /\ faults.interrupts < MaxInterrupts
  BY DEF Interrupt
<1>2. faults' \in Faults /\ faults'.interrupts # 0 /\ faults'.crashes = faults.crashes
  <2>1. faults.interrupts \in Nat /\ faults.interrupts + 1 \in 0 .. MaxInterrupts
    BY <1>1, BoundsAssumption DEF IInv, TypeOK, Faults
  <2>. QED  BY <1>1, <2>1 DEF IInv, TypeOK, Faults
<1>3. cli' \in Cli /\ cli'.pc = "idle" /\ cli'.proc = NoProc
  BY <1>1, NoCliType
<1>4. TypeOK' /\ RowsOK' /\ WorkersOK' /\ OneWorkerPerTrial' /\ CliOK'
  BY <1>1, <1>2, <1>3, Vacated DEF IInv, TypeOK, CliOK
<1>5. SupervisedOK'
  BY <1>1, <1>2, <1>3, Vacated DEF SupervisedOK, Busy
<1>6. AccountedOK'
  BY <1>2 DEF AccountedOK, NoFault
<1>. QED  BY <1>4, <1>5, <1>6 DEF IInv

LEMMA CliCrashKeepsIInv == ASSUME IInv, CliCrash PROVE IInv'
<1>1. /\ cli' = NoCli /\ UNCHANGED <<trials, commands>>
      /\ faults' = [faults EXCEPT !.crashes = @ + 1] /\ faults.crashes < MaxCrashes
      /\ \A q \in Procs : worker'[q] \in {NoWorker, worker[q]}
      /\ worker' \in [Procs -> Worker]
  BY NoWorkerType DEF CliCrash, IInv, TypeOK
<1>2. faults' \in Faults /\ faults'.crashes # 0
  <2>1. faults.crashes \in Nat /\ faults.crashes + 1 \in 0 .. MaxCrashes
    BY <1>1, BoundsAssumption DEF IInv, TypeOK, Faults
  <2>. QED  BY <1>1, <2>1 DEF IInv, TypeOK, Faults
<1>3. TypeOK' /\ CliOK'
  BY <1>1, <1>2, NoCliType DEF IInv, TypeOK, CliOK
<1>4. RowsOK'
  BY <1>1 DEF IInv, RowsOK, RowOK
<1>5. WorkersOK'
  <2> SUFFICES ASSUME NEW q \in Procs PROVE WorkerOK(worker[q])'
    BY DEF WorkersOK
  <2>. QED  BY <1>1, NoWorkerType DEF IInv, WorkersOK, WorkerOK, PhaseOK, Busy
<1>6. OneWorkerPerTrial'
  BY <1>1, NoWorkerType DEF IInv, OneWorkerPerTrial, WorkersOK, WorkerOK, Busy
<1>7. SupervisedOK' /\ AccountedOK'
  BY <1>2 DEF SupervisedOK, AccountedOK, NoFault
<1>. QED  BY <1>3, <1>4, <1>5, <1>6, <1>7 DEF IInv

-----------------------------------------------------------------------------
(* The invariant holds                                                     *)

LEMMA InitIInv == Init => IInv
<1> SUFFICES ASSUME Init PROVE IInv
  OBVIOUS
<1>1. NoTrial \in Trial /\ NoTrial.state = "absent" /\ NoTrial.attrs = "none"
      /\ NoTrial.arts = 0 /\ NoTrial.reported = 0
  BY DEF NoTrial, Trial, States, Finished, AttrsLevels
<1>2. TypeOK
  BY <1>1, NoWorkerType, NoCliType, BoundsAssumption DEF Init, TypeOK, Faults
<1>3. RowsOK
  BY <1>1 DEF Init, RowsOK, RowOK
<1>4. WorkersOK /\ OneWorkerPerTrial
  BY NoWorkerType DEF Init, WorkersOK, WorkerOK, OneWorkerPerTrial, Busy
<1>5. CliOK /\ SupervisedOK
  BY NoWorkerType, NoCliType DEF Init, CliOK, SupervisedOK, Busy
<1>6. AccountedOK
  BY <1>1 DEF Init, AccountedOK
<1>. QED  BY <1>2, <1>3, <1>4, <1>5, <1>6 DEF IInv

LEMMA StutterKeepsIInv == IInv /\ UNCHANGED vars => IInv'
  BY DEF vars, IInv, TypeOK, RowsOK, RowOK, WorkersOK, WorkerOK, PhaseOK,
     OneWorkerPerTrial, CliOK, SupervisedOK, AccountedOK, Held, NoFault

LEMMA StepKeepsIInv == IInv /\ [Next]_vars => IInv'
<1> SUFFICES ASSUME IInv, [Next]_vars PROVE IInv'
  OBVIOUS
<1>1. CASE StartSweep  BY <1>1, StartSweepKeepsIInv
<1>2. CASE RetryTrial  BY <1>2, RetryTrialKeepsIInv
<1>3. CASE CliStep
  BY <1>3, DispatchKeepsIInv, ReapKeepsIInv, TimeoutKillKeepsIInv, MarkSnapshotKeepsIInv,
     MarkOneKeepsIInv, MarkRefusedKeepsIInv, MarkDoneKeepsIInv, CliExitKeepsIInv,
     InProcessExitKeepsIInv DEF CliStep
<1>4. ASSUME NEW p \in Procs, WorkerStep(p) PROVE IInv'
  BY <1>4, BootKeepsIInv, AskKeepsIInv, PrepareKeepsIInv, FoldKeepsIInv, FoldRaisesKeepsIInv,
     RecordRequiredKeepsIInv, RecordOptionalKeepsIInv, RecordRaisesKeepsIInv, JudgeKeepsIInv,
     UploadKeepsIInv, UploadRaisesKeepsIInv, TellKeepsIInv, TellRefusedKeepsIInv,
     LeaveKeepsIInv DEF WorkerStep
<1>5. ASSUME NEW p \in Procs, Trip(p) PROVE IInv'
  BY <1>5, TripKeepsIInv
<1>6. ASSUME NEW p \in Procs, Kill(p) PROVE IInv'
  BY <1>6, KillKeepsIInv
<1>7. CASE Interrupt  BY <1>7, InterruptKeepsIInv
<1>8. CASE CliCrash  BY <1>8, CliCrashKeepsIInv
<1>9. CASE Quiet \/ UNCHANGED vars
  BY <1>9, StutterKeepsIInv DEF Quiet
<1>. QED  BY <1>1, <1>2, <1>3, <1>4, <1>5, <1>6, <1>7, <1>8, <1>9 DEF Next

\* The strengthened invariant is invariant: Init and every step keep it.
THEOREM SweepInvariant == Spec => []IInv
  BY InitIInv, StepKeepsIInv, PTL DEF Spec

\* Every variable keeps its type (TuneSweep's state is what the code keeps).
THEOREM SweepTyped == Spec => []TypeOK
<1>1. IInv => TypeOK  BY DEF IInv
<1>. QED  BY <1>1, SweepInvariant, PTL

\* A COMPLETE trial carries everything, whatever died on the way.
THEOREM CompleteEvidence == Spec => []CompleteIsFullyEvidenced
<1>1. IInv => CompleteIsFullyEvidenced
  BY DEF IInv, RowsOK, RowOK, CompleteIsFullyEvidenced, Is, Evidence
<1>. QED  BY <1>1, SweepInvariant, PTL

\* A PRUNED trial has its provenance and no diagnostic file.
THEOREM PrunedEvidence == Spec => []PrunedHasProvenanceOnly
<1>1. IInv => PrunedHasProvenanceOnly
  BY DEF IInv, RowsOK, RowOK, PrunedHasProvenanceOnly, Is
<1>. QED  BY <1>1, SweepInvariant, PTL

\* No two processes work on one trial, orphans of a killed cli included.
THEOREM ExclusiveTrials == Spec => []OneWorkerPerTrial
<1>1. IInv => OneWorkerPerTrial  BY DEF IInv
<1>. QED  BY <1>1, SweepInvariant, PTL

\* Before any cli is killed, the trial a live process works on is RUNNING:
\* no timeout marks it failed.
THEOREM LiveTrialsRun == Spec => []LiveTrialIsRunning
<1>1. IInv => LiveTrialIsRunning
  BY DEF IInv, SupervisedOK, LiveTrialIsRunning, Is
<1>. QED  BY <1>1, SweepInvariant, PTL

\* Before any cli is killed, a timeout never ends a sweep.
THEOREM TimeoutsDoNotAbort == Spec => []TimeoutNeverAborts
<1>1. IInv => TimeoutNeverAborts  BY DEF IInv, SupervisedOK, TimeoutNeverAborts
<1>. QED  BY <1>1, SweepInvariant, PTL

\* Without faults no RUNNING trial is left behind by timeouts and failures.
THEOREM NothingStale == Spec => []NoStaleRunning
<1>1. ASSUME IInv PROVE NoStaleRunning
  <2> SUFFICES ASSUME NoFault, cli.pc \in {"idle", "dispatch"}, NEW t \in Ids
               PROVE  trials[t].state # "RUNNING"
    BY DEF NoStaleRunning, NoFault, Is
  <2>1. \A p \in Procs : worker[p].pc = "none"
    BY <1>1, IdleAlone DEF NoFault, IInv, CliOK
  <2>. QED  BY <1>1, <2>1 DEF IInv, AccountedOK, Held, Busy
<1>. QED  BY <1>1, SweepInvariant, PTL

-----------------------------------------------------------------------------
(* What retry-trial runs                                                   *)

\* From its command to its worker's ask the queued trial waits; afterwards the
\* worker holds it, or an older one while it goes on waiting.  The worker asks
\* once only.
QueueOK ==
  cli.own # 0 /\ faults.crashes = 0 =>
    /\ cli.pc = "inproc" /\ worker[cli.proc].quota < 2
    /\ worker[cli.proc].pc \in {"boot", "ask"} => trials[cli.own].state = "WAITING"
    /\ worker[cli.proc].pc \in Busy =>
         \/ worker[cli.proc].trial = cli.own
         \/ worker[cli.proc].trial < cli.own /\ trials[cli.own].state = "WAITING"

\* Only the row and the program point change, or the worker lets go.
LEMMA HolderActionKeepsQueue ==
  ASSUME IInv, QueueOK, NEW p \in Procs,
         \/ Prepare(p) \/ Fold(p) \/ FoldRaises(p) \/ RecordRequired(p) \/ RecordOptional(p)
         \/ RecordRaises(p) \/ Judge(p) \/ Upload(p) \/ UploadRaises(p) \/ Trip(p)
  PROVE  QueueOK'
<1> SUFFICES ASSUME cli.own # 0, faults.crashes = 0 PROVE QueueOK'
  BY DEF QueueOK, Prepare, Fold, FoldRaises, RecordRequired, RecordOptional, RecordRaises,
         Judge, Upload, UploadRaises, Trip
<1>1. worker[p].pc \in Busy /\ UNCHANGED <<cli, faults>>
  BY DEF Prepare, Fold, FoldRaises, RecordRequired, RecordOptional, RecordRaises, Judge,
         Upload, UploadRaises, Trip, At, Busy
<1>2. /\ worker \in [Procs -> Worker] /\ trials \in [Ids -> Trial]
      /\ worker[p].trial \in Ids /\ cli.own \in Ids
  BY <1>1 DEF IInv, TypeOK, WorkersOK, WorkerOK, Worker, Cli
<1>3. p = cli.proc
  BY <1>1 DEF IInv, SupervisedOK, CliOK, Busy
<1>4. \A u \in Ids : u # worker[p].trial => trials'[u] = trials[u]
  <2>1. CASE trials' = trials
    BY <2>1
  <2>2. ASSUME NEW row, Write(worker[p].trial, row)
        PROVE  \A u \in Ids : u # worker[p].trial => trials'[u] = trials[u]
    BY <1>2, <2>2 DEF Write
  <2>3. CASE Fold(p)
    BY <2>2, <2>3 DEF Fold
  <2>4. CASE RecordRequired(p) \/ RecordOptional(p)
    BY <2>2, <2>4 DEF RecordRequired, RecordOptional
  <2>5. CASE Upload(p)
    BY <2>2, <2>5 DEF Upload
  <2>6. CASE Prepare(p) \/ FoldRaises(p) \/ RecordRaises(p) \/ Judge(p) \/ UploadRaises(p) \/ Trip(p)
    BY <2>1, <2>6 DEF Prepare, FoldRaises, RecordRaises, Judge, UploadRaises, Trip
  <2>. QED  BY <2>3, <2>4, <2>5, <2>6
<1>5. /\ worker'[p].trial = worker[p].trial /\ worker'[p].quota = worker[p].quota
      /\ worker'[p].pc \notin {"boot", "ask"}
  <2> DEFINE Kept == /\ worker'[p].trial = worker[p].trial
                     /\ worker'[p].quota = worker[p].quota
                     /\ worker'[p].pc \notin {"boot", "ask"}
  <2>1. worker[p] \in Worker
    BY <1>2
  <2>2. CASE worker' = worker
    BY <1>1, <2>2 DEF Busy
  <2>3. ASSUME NEW pc \in {"folds", "attrs", "judge", "upload", "tell"},
               NEW out \in Outcomes,
               Goto(p, pc) \/ GotoWith(p, pc, out)
        PROVE  Kept
    <3>1. CASE Goto(p, pc)
      BY <1>2, <2>1, <3>1 DEF Goto, Worker
    <3>2. CASE GotoWith(p, pc, out)
      <4> DEFINE moved == [worker[p] EXCEPT !.pc = pc]
      <4>1. moved \in [pc : {pc}, quota : 0 .. NTrials, trial : 0 .. MaxTrials,
                       out : Outcomes, tripped : BOOLEAN]
        BY <2>1 DEF Worker
      <4>2. moved.pc = pc /\ moved.trial = worker[p].trial /\ moved.quota = worker[p].quota
        BY <2>1 DEF Worker
      <4>3. worker'[p] = [moved EXCEPT !.out = out]
        BY <1>2, <3>2 DEF GotoWith
      <4> HIDE DEF moved
      <4>. QED  BY <4>1, <4>2, <4>3
    <3>. QED  BY <2>3, <3>1, <3>2
  <2>4. CASE Prepare(p) \/ Fold(p)
    <3>1. CASE Goto(p, "folds")
      BY <2>3, <3>1 DEF Outcomes
    <3>2. CASE GotoWith(p, "tell", "FAIL") \/ GotoWith(p, "attrs", "PRUNED")
                 \/ GotoWith(p, "attrs", "COMPLETE")
      BY <2>3, <3>2 DEF Outcomes
    <3>. QED  BY <2>2, <2>4, <3>1, <3>2 DEF Prepare, Fold
  <2>5. CASE FoldRaises(p) \/ RecordRaises(p) \/ UploadRaises(p)
    <3>1. \E pc \in {"attrs", "tell"} : GotoWith(p, pc, "FAIL")
      BY <2>5 DEF FoldRaises, RecordRaises, UploadRaises
    <3>. QED  BY <2>3, <3>1 DEF Outcomes
  <2>6. CASE RecordRequired(p) \/ RecordOptional(p)
    <3>1. worker' = worker \/ Goto(p, "judge")
      BY <2>6 DEF RecordRequired, RecordOptional
    <3>. QED  BY <2>2, <2>3, <3>1 DEF Outcomes
  <2>7. CASE Judge(p)
    <3>1. Goto(p, "tell") \/ Goto(p, "upload") \/ GotoWith(p, "tell", "PRUNED")
      BY <2>7 DEF Judge
    <3>. QED  BY <2>3, <3>1 DEF Outcomes
  <2>8. CASE Upload(p)
    <3>1. worker' = worker \/ Goto(p, "tell")
      BY <2>8 DEF Upload
    <3>. QED  BY <2>2, <2>3, <3>1 DEF Outcomes
  <2>9. CASE Trip(p)
    BY <1>1, <1>2, <2>1, <2>9 DEF Trip, Busy, Worker
  <2>. QED  BY <2>4, <2>5, <2>6, <2>7, <2>8, <2>9
<1>. QED  BY <1>1, <1>2, <1>3, <1>4, <1>5 DEF QueueOK

\* The result is told; retry-trial's worker does not ask again.
LEMMA TellKeepsQueue ==
  ASSUME IInv, QueueOK, NEW p \in Procs, Tell(p) \/ TellRefused(p) PROVE QueueOK'
<1> SUFFICES ASSUME cli.own # 0, faults.crashes = 0 PROVE QueueOK'
  BY DEF QueueOK, Tell, TellRefused
<1>1. worker[p].pc \in Busy /\ UNCHANGED <<cli, faults>>
  BY DEF Tell, TellRefused, At, Busy
<1>2. worker \in [Procs -> Worker] /\ worker[p].quota \in 0 .. NTrials /\ worker[p].quota > 0
  BY <1>1 DEF IInv, TypeOK, WorkersOK, WorkerOK, Worker
<1>3. p = cli.proc
  BY <1>1 DEF IInv, SupervisedOK, CliOK, Busy
<1>4. worker[p].quota = 1
  BY <1>2, <1>3 DEF QueueOK
<1>5. Between(0).pc = "leaving" /\ Between(0).quota = 0
  BY UnassignedType DEF Between
<1>6. worker' = [worker EXCEPT ![p] = Between(0)]
  BY <1>4 DEF Tell, TellRefused, NextTrial, Propagate
<1>7. worker'[p].pc = "leaving" /\ worker'[p].quota = 0
  BY <1>2, <1>5, <1>6
<1>. QED  BY <1>1, <1>3, <1>7 DEF QueueOK, Busy

\* The worker takes the oldest trial that waits, and the queued one waits.
LEMMA AskKeepsQueue == ASSUME IInv, QueueOK, NEW p \in Procs, Ask(p) PROVE QueueOK'
<1> SUFFICES ASSUME cli.own # 0, faults.crashes = 0 PROVE QueueOK'
  BY DEF QueueOK, Ask
<1>1. worker[p].pc = "ask" /\ UNCHANGED <<cli, faults>>
  BY DEF Ask, At
<1>2. PICK t \in Ids :
        /\ Asked(t)
        /\ SetState(t, "RUNNING")
        /\ worker' = [worker EXCEPT ![p] = [pc |-> "prepare", quota |-> worker[p].quota,
                        trial |-> t, out |-> "none", tripped |-> FALSE]]
  BY DEF Ask
<1>3. /\ worker \in [Procs -> Worker] /\ trials \in [Ids -> Trial] /\ cli.own \in Ids
  BY DEF IInv, TypeOK, Cli
<1>4. p = cli.proc
  BY <1>1 DEF IInv, SupervisedOK, CliOK
<1>5. trials[cli.own].state = "WAITING"
  BY <1>1, <1>4 DEF QueueOK
<1>6. t = cli.own \/ t < cli.own
  BY <1>2, <1>3, <1>5 DEF Asked, Is
<1>7. t # cli.own => trials'[cli.own].state = "WAITING"
  BY <1>2, <1>3, <1>5 DEF SetState
<1>8. worker'[p].pc = "prepare" /\ worker'[p].trial = t /\ worker'[p].quota = worker[p].quota
  BY <1>2, <1>3
<1>. QED  BY <1>1, <1>4, <1>6, <1>7, <1>8 DEF QueueOK, Busy

\* A worker before its ask or after its last trial.
LEMMA FreeKeepsQueue ==
  ASSUME IInv, QueueOK, NEW p \in Procs, Boot(p) \/ Leave(p) PROVE QueueOK'
<1> SUFFICES ASSUME cli.own # 0, faults.crashes = 0 PROVE QueueOK'
  BY DEF QueueOK, Boot, Leave
<1>1. UNCHANGED <<trials, cli, faults>> /\ worker[p].pc \in {"boot", "leaving"}
  BY DEF Boot, Leave, At
<1>2. worker \in [Procs -> Worker]
  BY DEF IInv, TypeOK
<1>3. p = cli.proc
  BY <1>1 DEF IInv, SupervisedOK, CliOK
<1>4. CASE Boot(p)
  <2>1. worker[p].pc = "boot" /\ worker'[p].pc \in {"ask", "leaving"}
        /\ worker'[p].quota = worker[p].quota
    BY <1>2, <1>4 DEF Boot, Goto, At, Worker
  <2>. QED  BY <1>1, <1>3, <2>1 DEF QueueOK, Busy
<1>5. CASE Leave(p)
  <2>1. Ended(p).pc \in {"none", "exited"} /\ Ended(p).quota = 0
    BY UnassignedType DEF Ended
  <2>2. worker'[p] = Ended(p)
    BY <1>2, <1>5 DEF Leave
  <2>. QED  BY <1>1, <1>3, <2>1, <2>2 DEF QueueOK, Busy
<1>. QED  BY <1>4, <1>5 DEF Boot

\* The command that queues the trial.
LEMMA RetryKeepsQueue == ASSUME IInv, RetryTrial PROVE QueueOK'
<1>1. PICK t \in Ids, p \in Procs :
        /\ SetState(t, "WAITING")
        /\ cli' = [NoCli EXCEPT !.pc = "inproc", !.proc = p, !.own = t]
        /\ NewWorker(p, 1)
  BY DEF RetryTrial
<1>2. cli'.pc = "inproc" /\ cli'.proc = p /\ cli'.own = t
  BY <1>1, NoCliType DEF Cli
<1>3. trials'[t].state = "WAITING"
  BY <1>1 DEF SetState, IInv, TypeOK, Trial
<1>4. Unassigned("boot", 1).pc = "boot" /\ Unassigned("boot", 1).quota = 1
  BY UnassignedType
<1>5. worker'[p].pc = "boot" /\ worker'[p].quota = 1
  BY <1>1, <1>4 DEF NewWorker, IInv, TypeOK
<1>. QED  BY <1>2, <1>3, <1>5 DEF QueueOK, Busy

\* Everything else ends the command, or is impossible while it runs, or comes
\* after a command line process was killed.
LEMMA OtherKeepsQueue ==
  ASSUME IInv, QueueOK,
         StartSweep \/ CliStep \/ Interrupt \/ CliCrash \/ Quiet \/ UNCHANGED vars
           \/ \E p \in Procs : Kill(p)
  PROVE  QueueOK'
<1>1. CASE StartSweep
  BY <1>1, NoCliType DEF StartSweep, QueueOK, Cli
<1>2. CASE CliStep
  <2>1. cli.own # 0 /\ faults.crashes = 0 => InProcessExit
    BY <1>2 DEF CliStep, QueueOK, Dispatch, Reap, TimeoutKill, MarkSnapshot, MarkOne,
           MarkRefused, MarkDone, CliExit
  <2>2. InProcessExit => cli'.own = 0
    BY NoCliType DEF InProcessExit
  <2>3. ~InProcessExit => cli'.own \in {cli.own, 0} /\ UNCHANGED faults
    BY <1>2, NoCliType DEF CliStep, Dispatch, Reap, TimeoutKill, MarkSnapshot, MarkOne,
           MarkRefused, MarkDone, CliExit, IInv, TypeOK, Cli
  <2>. QED  BY <2>1, <2>2, <2>3 DEF QueueOK
<1>3. CASE Interrupt
  BY <1>3, NoCliType DEF Interrupt, QueueOK
<1>4. CASE CliCrash
  BY <1>4, NoCliType DEF CliCrash, QueueOK
<1>5. CASE Quiet \/ UNCHANGED vars
  BY <1>5 DEF Quiet, vars, QueueOK
<1>6. ASSUME NEW p \in Procs, Kill(p) PROVE QueueOK'
  <2>1. /\ worker[p].pc # "none" /\ ~(cli.pc = "inproc" /\ cli.proc = p)
        /\ UNCHANGED <<trials, cli>> /\ faults'.crashes = faults.crashes
    BY <1>6 DEF Kill, Alive, IInv, TypeOK, Faults
  <2>2. faults.crashes = 0 => cli.proc = p
    BY <2>1 DEF IInv, SupervisedOK
  <2>. QED  BY <2>1, <2>2 DEF QueueOK
<1>. QED  BY <1>1, <1>2, <1>3, <1>4, <1>5, <1>6

\* retry-trial runs what it queued, or an older trial in the queue: for any
\* number of commands, so after any number of retries that failed.
THEOREM RetriesKeepTheQueue == Spec => []RetryKeepsTheQueue
<1>1. Init => QueueOK
  BY NoCliType DEF Init, QueueOK
<1>2. IInv /\ QueueOK /\ [Next]_vars => QueueOK'
  <2> SUFFICES ASSUME IInv, QueueOK, [Next]_vars PROVE QueueOK'
    OBVIOUS
  <2>1. CASE RetryTrial  BY <2>1, RetryKeepsQueue
  <2>2. ASSUME NEW p \in Procs, WorkerStep(p) \/ Trip(p) PROVE QueueOK'
    BY <2>2, HolderActionKeepsQueue, TellKeepsQueue, AskKeepsQueue, FreeKeepsQueue DEF WorkerStep
  <2>. QED  BY <2>1, <2>2, OtherKeepsQueue DEF Next
<1>3. IInv /\ QueueOK => RetryKeepsTheQueue
  BY DEF QueueOK, RetryKeepsTheQueue, Is
<1>. QED  BY <1>1, <1>2, <1>3, SweepInvariant, PTL DEF Spec

-----------------------------------------------------------------------------
(* What a step does to the study, and the refinement                       *)

EnqueueEffect == \E t \in Ids : NextNumber(t) /\ SetState(t, "WAITING")

AskEffect == \E t \in Ids : Asked(t) /\ SetState(t, "RUNNING")

GatherEffect ==
  \E t \in Ids, row \in Trial :
    /\ trials[t].state = "RUNNING" /\ row.state = "RUNNING"
    /\ trials' = [trials EXCEPT ![t] = row]
    /\ Grade(row) \in Ledger!Better(Grade(trials[t]))

CloseEffect ==
  \E t \in Ids, s \in Finished :
    /\ trials[t].state = "RUNNING" /\ SetState(t, s)
    /\ Grade(trials[t]) \in Ledger!Allowed(s)

LEMMA GradeInGrades ==
  ASSUME NEW row \in Trial
  PROVE  Grade(row) \in Ledger!Grades
  BY DEF Grade, Ledger!Grades

LEMMA FailAllowed ==
  ASSUME NEW row \in Trial
  PROVE  Grade(row) \in Ledger!Allowed("FAIL")
  BY GradeInGrades DEF Ledger!Allowed

LEMMA FoldGathers == ASSUME NEW p \in Procs, IInv, Fold(p) PROVE GatherEffect
<1> DEFINE row == [Row(p) EXCEPT !.reported = @ + 1]
<1>1. /\ worker[p].pc \in Busy /\ worker[p].pc = "folds" /\ Row(p).state = "RUNNING"
      /\ trials' = [trials EXCEPT ![worker[p].trial] = row]
  BY DEF Fold, At, Busy, Write, Is, Row
<1>2. /\ row \in Trial /\ row.state = "RUNNING" /\ row.attrs = "none" /\ row.reported # 0
      /\ Row(p).attrs = "none"
  BY <1>1, HolderFacts DEF PhaseOK, Trial
<1>3. Grade(row) = "partial" /\ Grade(Row(p)) \in {"none", "partial"}
  BY <1>2 DEF Grade
<1>4. Grade(row) \in Ledger!Better(Grade(Row(p)))
  BY <1>3 DEF Ledger!Better
<1> HIDE DEF row
<1>. QED  BY <1>1, <1>2, <1>4, HolderFacts DEF GatherEffect, Row

LEMMA RecordRequiredGathers ==
  ASSUME NEW p \in Procs, IInv, RecordRequired(p) PROVE GatherEffect
<1> DEFINE row == [Row(p) EXCEPT !.attrs = "required"]
<1>1. /\ worker[p].pc \in Busy /\ worker[p].pc = "attrs" /\ Row(p).state = "RUNNING"
      /\ Row(p).attrs = "none" /\ trials' = [trials EXCEPT ![worker[p].trial] = row]
  BY DEF RecordRequired, At, Busy, Write, Is, Row
<1>2. row \in Trial /\ row.state = "RUNNING" /\ row.attrs = "required"
  BY <1>1, HolderFacts DEF Trial, AttrsLevels
<1>3. Grade(row) = "partial" /\ Grade(Row(p)) \in {"none", "partial"}
  BY <1>1, <1>2 DEF Grade
<1>4. Grade(row) \in Ledger!Better(Grade(Row(p)))
  BY <1>3 DEF Ledger!Better
<1> HIDE DEF row
<1>. QED  BY <1>1, <1>2, <1>4, HolderFacts DEF GatherEffect, Row

LEMMA RecordOptionalGathers ==
  ASSUME NEW p \in Procs, IInv, RecordOptional(p) PROVE GatherEffect
<1> DEFINE row == [Row(p) EXCEPT !.attrs = "full"]
<1>1. /\ worker[p].pc \in Busy /\ worker[p].pc = "attrs" /\ Row(p).state = "RUNNING"
      /\ Row(p).attrs = "required" /\ trials' = [trials EXCEPT ![worker[p].trial] = row]
  BY DEF RecordOptional, At, Busy, Write, Is, Row
<1>2. row \in Trial /\ row.state = "RUNNING" /\ row.attrs = "full" /\ row.arts = 0
  BY <1>1, HolderFacts DEF PhaseOK, Trial, AttrsLevels
<1>3. Grade(row) = "provenance" /\ Grade(Row(p)) = "partial"
  BY <1>1, <1>2 DEF Grade
<1>4. Grade(row) \in Ledger!Better(Grade(Row(p)))
  BY <1>3 DEF Ledger!Better
<1> HIDE DEF row
<1>. QED  BY <1>1, <1>2, <1>4, HolderFacts DEF GatherEffect, Row

LEMMA UploadGathers == ASSUME NEW p \in Procs, IInv, Upload(p) PROVE GatherEffect
<1> DEFINE row == [Row(p) EXCEPT !.arts = @ + 1]
<1>1. /\ worker[p].pc \in Busy /\ worker[p].pc = "upload" /\ Row(p).state = "RUNNING"
      /\ trials' = [trials EXCEPT ![worker[p].trial] = row]
  BY DEF Upload, At, Busy, Write, Is, Row
<1>2. /\ row \in Trial /\ row.state = "RUNNING" /\ row.attrs = "full"
      /\ row.reported = Folds /\ row.arts = Row(p).arts + 1
      /\ Row(p).attrs = "full" /\ Row(p).arts \in {0, 1}
  BY <1>1, HolderFacts DEF PhaseOK, Trial
<1>3. \/ Grade(row) = "diagnosed" /\ Grade(Row(p)) = "provenance"
      \/ Grade(row) = "full" /\ Grade(Row(p)) = "diagnosed"
  BY <1>2 DEF Grade
<1>4. Grade(row) \in Ledger!Better(Grade(Row(p)))
  BY <1>3 DEF Ledger!Better
<1> HIDE DEF row
<1>. QED  BY <1>1, <1>2, <1>4, HolderFacts DEF GatherEffect, Row

LEMMA TellCloses == ASSUME NEW p \in Procs, IInv, Tell(p) PROVE CloseEffect
<1> DEFINE t == worker[p].trial
<1>1. /\ worker[p].pc \in Busy /\ worker[p].pc = "tell" /\ Row(p).state = "RUNNING"
      /\ worker[p].out \in Finished
  BY HolderFacts DEF Tell, At, Busy, Is, Row, PhaseOK, Worker, Outcomes, Finished
<1>2. Grade(Row(p)) \in Ledger!Allowed("FAIL")
  BY <1>1, HolderFacts, FailAllowed
<1>3. worker[p].out = "COMPLETE" => Grade(Row(p)) \in Ledger!Allowed("COMPLETE")
  BY <1>1, HolderFacts DEF PhaseOK, Grade, Ledger!Allowed
<1>4. worker[p].out = "PRUNED" => Grade(Row(p)) \in Ledger!Allowed("PRUNED")
  BY <1>1, HolderFacts DEF PhaseOK, Grade, Ledger!Allowed
<1>5. PICK s \in {worker[p].out, "FAIL"} : SetState(t, s)
  BY DEF Tell
<1>6. s \in Finished /\ Grade(trials[t]) \in Ledger!Allowed(s)
  BY <1>1, <1>2, <1>3, <1>4, <1>5 DEF Finished, Row
<1>. QED  BY <1>1, <1>5, <1>6, HolderFacts DEF CloseEffect, Row

LEMMA MarkOneCloses == ASSUME IInv, MarkOne PROVE CloseEffect
<1>1. PICK t \in Ids : trials[t].state = "RUNNING" /\ SetState(t, "FAIL")
  BY DEF MarkOne, Is
<1>2. Grade(trials[t]) \in Ledger!Allowed("FAIL")
  BY FailAllowed DEF IInv, TypeOK
<1>. QED  BY <1>1, <1>2 DEF CloseEffect, Finished

LEMMA StepEffect ==
  ASSUME IInv, [Next]_vars
  PROVE  EnqueueEffect \/ AskEffect \/ GatherEffect \/ CloseEffect \/ UNCHANGED trials
<1>1. CASE StartSweep  BY <1>1 DEF StartSweep
<1>2. CASE RetryTrial  BY <1>2 DEF RetryTrial, EnqueueEffect
<1>3. CASE CliStep
  BY <1>3, MarkOneCloses DEF CliStep, Dispatch, Reap, TimeoutKill, MarkSnapshot, MarkRefused,
     MarkDone, CliExit, InProcessExit
<1>4. ASSUME NEW p \in Procs, WorkerStep(p)
      PROVE  AskEffect \/ GatherEffect \/ CloseEffect \/ UNCHANGED trials
  <2>1. CASE Ask(p)  BY <2>1 DEF Ask, AskEffect
  <2>. QED
    BY <1>4, <2>1, FoldGathers, RecordRequiredGathers, RecordOptionalGathers, UploadGathers,
       TellCloses DEF WorkerStep, Boot, Prepare, FoldRaises, RecordRaises, Judge, UploadRaises,
       TellRefused, Leave
<1>5. CASE \E p \in Procs : Trip(p) \/ Kill(p)
  BY <1>5 DEF Trip, Kill
<1>6. CASE Interrupt \/ CliCrash \/ Quiet \/ UNCHANGED vars
  BY <1>6 DEF Interrupt, CliCrash, Quiet, vars
<1>. QED  BY <1>1, <1>2, <1>3, <1>4, <1>5, <1>6 DEF Next

\* A finished trial is never touched again, and a started one never unstarts.
THEOREM FinishedTrialsAreFinal == Spec => FinishedIsFinal
<1> DEFINE Final(t) ==
      /\ trials[t].state \in Finished => trials'[t] = trials[t]
      /\ trials[t].state = "RUNNING" => trials'[t].state \in Finished \cup {"RUNNING"}
<1>1. ASSUME IInv, [Next]_vars, NEW t \in Ids PROVE Final(t)
  <2>1. trials \in [Ids -> Trial]
    BY <1>1 DEF IInv, TypeOK
  <2>2. CASE EnqueueEffect
    BY <2>1, <2>2 DEF EnqueueEffect, NextNumber, SetState, Is, Trial, Finished
  <2>3. CASE AskEffect
    BY <2>1, <2>3 DEF AskEffect, Asked, NextNumber, SetState, Is, Trial, Finished
  <2>4. CASE GatherEffect
    BY <2>1, <2>4 DEF GatherEffect, Finished
  <2>5. CASE CloseEffect
    BY <2>1, <2>5 DEF CloseEffect, SetState, Trial, Finished
  <2>6. CASE UNCHANGED trials
    BY <2>6
  <2>. QED  BY <1>1, <2>2, <2>3, <2>4, <2>5, <2>6, StepEffect
<1>2. IInv /\ [Next]_vars =>
        [\A t \in Ids :
          /\ trials[t].state \in Finished => trials'[t] = trials[t]
          /\ Is(t, "RUNNING") => trials'[t].state \in Finished \cup {"RUNNING"}]_vars
  BY <1>1 DEF Is
<1>. QED  BY <1>2, SweepInvariant, PTL DEF Spec, FinishedIsFinal

Bar == [t \in Ids |-> [state |-> trials[t].state, grade |-> Grade(trials[t])]]

\* What the study shows changes exactly where the row changes.
LEMMA BarStep ==
  ASSUME NEW t \in Ids, NEW row \in Trial, trials \in [Ids -> Trial],
         trials' = [trials EXCEPT ![t] = row]
  PROVE  Bar' = [Bar EXCEPT ![t] = [state |-> row.state, grade |-> Grade(row)]]
<1>1. \A u \in Ids : trials'[u] = IF u = t THEN row ELSE trials[u]
  OBVIOUS
<1>. QED  BY <1>1 DEF Bar, Grade

LEMMA StateRow ==
  ASSUME NEW t \in Ids, NEW s \in States, trials \in [Ids -> Trial], SetState(t, s)
  PROVE  /\ Bar' = [Bar EXCEPT ![t].state = s]
<1> DEFINE row == [trials[t] EXCEPT !.state = s]
<1>1. /\ row \in Trial /\ row.state = s /\ Grade(row) = Grade(trials[t])
  BY DEF Trial, Grade
<1>2. trials' = [trials EXCEPT ![t] = row]
  BY DEF SetState
<1>3. Bar' = [Bar EXCEPT ![t] = [state |-> s, grade |-> Grade(trials[t])]]
  BY <1>1, <1>2, BarStep
<1>. QED  BY <1>3 DEF Bar

LEMMA BarStates ==
  ASSUME NEW s
  PROVE  Ledger!InState(s) = {t \in Ids : trials[t].state = s}
  BY DEF Ledger!InState

LEMMA InitLedger == Init => Ledger!LedgerInit
  BY DEF Init, NoTrial, Grade, Ledger!LedgerInit, Ledger!NoEntry

LEMMA StepLedger ==
  ASSUME IInv, [Next]_vars
  PROVE  [Ledger!LedgerNext]_Bar
<1>1. trials \in [Ids -> Trial]
  BY DEF IInv, TypeOK
<1>2. CASE EnqueueEffect
  <2>1. PICK t \in Ids : NextNumber(t) /\ SetState(t, "WAITING")
    BY <1>2 DEF EnqueueEffect
  <2>2. Bar' = [Bar EXCEPT ![t].state = "WAITING"]
    BY <1>1, <2>1, StateRow DEF States
  <2>3. Ledger!First(t, Ledger!InState("absent"))
    BY <2>1, BarStates DEF Ledger!First, NextNumber, Is
  <2>4. Ledger!Enqueue(t)
    BY <2>2, <2>3 DEF Ledger!Enqueue, Bar
  <2>. QED  BY <2>4 DEF Ledger!LedgerNext
<1>3. CASE AskEffect
  <2>1. PICK t \in Ids : Asked(t) /\ SetState(t, "RUNNING")
    BY <1>3 DEF AskEffect
  <2>2. Bar' = [Bar EXCEPT ![t].state = "RUNNING"]
    BY <1>1, <2>1, StateRow DEF States
  <2>3. \/ Ledger!First(t, Ledger!InState("WAITING"))
        \/ Ledger!InState("WAITING") = {} /\ Ledger!First(t, Ledger!InState("absent"))
    BY <2>1, BarStates DEF Ledger!First, Asked, NextNumber, Is
  <2>4. Ledger!Begin(t)
    BY <2>2, <2>3 DEF Ledger!Begin, Bar
  <2>. QED  BY <2>4 DEF Ledger!LedgerNext
<1>4. CASE GatherEffect
  <2>1. PICK t \in Ids, row \in Trial :
          /\ trials[t].state = "RUNNING" /\ row.state = "RUNNING"
          /\ trials' = [trials EXCEPT ![t] = row]
          /\ Grade(row) \in Ledger!Better(Grade(trials[t]))
    BY <1>4 DEF GatherEffect
  <2>2. Bar' = [Bar EXCEPT ![t].grade = Grade(row)]
    BY <1>1, <2>1, BarStep DEF Bar
  <2>3. Ledger!Gather(t)
    BY <1>1, <2>1, <2>2, BarStates DEF Ledger!Gather, Bar
  <2>. QED  BY <2>3 DEF Ledger!LedgerNext
<1>5. CASE CloseEffect
  <2>1. PICK t \in Ids, s \in Finished :
          /\ trials[t].state = "RUNNING" /\ SetState(t, s)
          /\ Grade(trials[t]) \in Ledger!Allowed(s)
    BY <1>5 DEF CloseEffect
  <2>2. Bar' = [Bar EXCEPT ![t].state = s]
    BY <1>1, <2>1, StateRow DEF States
  <2>3. t \in Ledger!InState("RUNNING") /\ Bar[t].grade \in Ledger!Allowed(s)
    BY <2>1, BarStates DEF Bar
  <2>4. Ledger!Close(t)
    BY <2>2, <2>3 DEF Ledger!Close, Finished, Bar
  <2>. QED  BY <2>4 DEF Ledger!LedgerNext
<1>6. CASE UNCHANGED trials
  BY <1>6 DEF Bar, Grade
<1>. QED  BY <1>2, <1>3, <1>4, <1>5, <1>6, StepEffect

\* The processes together implement the study their readers rely on.
THEOREM SweepImplementsLedger == Spec => KeepsLedger
<1>1. IInv /\ [Next]_vars => [Ledger!LedgerNext]_Bar
  BY StepLedger
<1>. QED
  BY <1>1, InitLedger, SweepInvariant, PTL DEF Spec, KeepsLedger, Ledger!LedgerSpec, Bar
=============================================================================
