------------------------------ MODULE TuneSweep ------------------------------
(***************************************************************************)
(* An HPO sweep: the `rux-ml tune` command line process (start, resume,    *)
(* retry-trial), the processes that run trials, and the study they share.  *)
(*                                                                         *)
(* `cli` is the command line process.  In subprocess isolation it spawns   *)
(* one child per trial (tuning/isolation.py, _internal/trial_runner.py)    *)
(* and waits for it, with an optional timeout.  In in-process isolation,   *)
(* and for retry-trial, it runs study.optimize itself; its trial loop is   *)
(* then the worker cli.proc, which lives and dies with it.                 *)
(* `worker[p]` runs build_objective and study.optimize.                    *)
(*                                                                         *)
(* Faults, each with a budget: a worker dies (OOM killer, SIGKILL, a crash *)
(* of native code, storage unavailable while a result is told); Ctrl-C     *)
(* while the cli waits for a child; the cli itself is killed, which leaves *)
(* a subprocess child running without a parent.                            *)
(***************************************************************************)
EXTENDS TrialStore, FiniteSets

CONSTANTS
  Procs,           \* slots for processes that run trials
  NoProc,          \* no process
  NTrials,         \* --n-trials
  Isolations,      \* values of tuning.trial_isolation the commands run with
  HasTimeout,      \* tuning.trial_timeout_s # None
  MaxCommands,     \* bound: tune commands issued
  MaxKills, MaxInterrupts, MaxCrashes   \* bounds: faults of each kind

ASSUME NoProcAssumption == NoProc \notin Procs
ASSUME NTrialsAssumption == NTrials \in Nat \ {0}
ASSUME IsolationsAssumption == Isolations \subseteq {"subprocess", "in_process"}
ASSUME HasTimeoutAssumption == HasTimeout \in BOOLEAN
ASSUME BoundsAssumption ==
  /\ MaxCommands \in Nat /\ MaxKills \in Nat
  /\ MaxInterrupts \in Nat /\ MaxCrashes \in Nat

VARIABLES
  cli,        \* the tune command line process
  worker,     \* the processes that run study.optimize
  commands,   \* tune commands issued so far
  faults      \* faults injected so far

vars == <<trials, cli, worker, commands, faults>>

-----------------------------------------------------------------------------
(* State                                                                   *)

Outcomes == {"none", "COMPLETE", "PRUNED", "FAIL"}

\* Program points of a worker at which it holds a trial.
Busy == {"prepare", "folds", "attrs", "judge", "upload", "tell"}

Worker == [pc      : {"none", "boot", "ask", "leaving", "exited"} \cup Busy,
           quota   : 0 .. NTrials,            \* trials left to run, this one included
           trial   : 0 .. MaxTrials,          \* the trial held; 0 for none
           out     : Outcomes,                \* what study.tell will be told
           tripped : BOOLEAN]                 \* Watchdog.tripped

\* A worker that holds no trial.
Unassigned(pc, n) == [pc |-> pc, quota |-> n, trial |-> 0, out |-> "none",
                      tripped |-> FALSE]

NoWorker == Unassigned("none", 0)

Cli == [pc    : {"idle", "dispatch", "wait", "mark", "marking", "aborted", "inproc"},
        left  : 0 .. NTrials,                 \* iterations left of the trial loop
        proc  : Procs \cup {NoProc},          \* the child waited for, or own loop
        own   : 0 .. MaxTrials,               \* the trial retry-trial enqueued
        marks : SUBSET Ids]                   \* _mark_trial_failed: still to visit

NoCli == [pc |-> "idle", left |-> 0, proc |-> NoProc, own |-> 0, marks |-> {}]

Faults == [kills : 0 .. MaxKills, interrupts : 0 .. MaxInterrupts,
           crashes : 0 .. MaxCrashes]

TypeOK ==
  /\ trials \in [Ids -> Trial]
  /\ cli \in Cli
  /\ worker \in [Procs -> Worker]
  /\ commands \in 0 .. MaxCommands
  /\ faults \in Faults

Init ==
  /\ trials = [t \in Ids |-> NoTrial]
  /\ cli = NoCli
  /\ worker = [p \in Procs |-> NoWorker]
  /\ commands = 0
  /\ faults = [kills |-> 0, interrupts |-> 0, crashes |-> 0]

Free(p) == worker[p].pc = "none"

NewWorker(p, n) == worker' = [worker EXCEPT ![p] = Unassigned("boot", n)]

At(p, pc) == worker[p].pc = pc

Goto(p, pc) == worker' = [worker EXCEPT ![p].pc = pc]

\* Move on with the outcome decided so far.
GotoWith(p, pc, out) ==
  worker' = [worker EXCEPT ![p] = [@ EXCEPT !.pc = pc, !.out = out]]

Row(p) == trials[worker[p].trial]

-----------------------------------------------------------------------------
(* The command line process                                                *)

Issue == commands < MaxCommands /\ commands' = commands + 1

\* tune start / tune resume: the study exists, the trial loop begins.
StartSweep ==
  /\ cli.pc = "idle"
  /\ Issue
  /\ \/ /\ "subprocess" \in Isolations
        /\ cli' = [NoCli EXCEPT !.pc = "dispatch", !.left = NTrials]
        /\ UNCHANGED worker
     \/ /\ "in_process" \in Isolations
        /\ \E p \in Procs :
             /\ Free(p)
             /\ cli' = [NoCli EXCEPT !.pc = "inproc", !.proc = p]
             /\ NewWorker(p, NTrials)
  /\ UNCHANGED <<trials, faults>>

\* Mutant of RetryTrial: the failed trial itself is queued again.
RetryTrial_InPlace ==
  /\ cli.pc = "idle"
  /\ Issue
  /\ \E t \in Ids, p \in Procs :
       /\ Is(t, "FAIL")
       /\ SetState(t, "WAITING")
       /\ Free(p)
       /\ cli' = [NoCli EXCEPT !.pc = "inproc", !.proc = p, !.own = t]
       /\ NewWorker(p, 1)
  /\ UNCHANGED faults

\* tune retry-trial: any existing trial may be named.  Its params are
\* enqueued first; the objective is built and one trial optimised afterwards.
RetryTrial ==
  /\ cli.pc = "idle"
  /\ Issue
  /\ \E prior \in Ids : ~Is(prior, "absent")
  /\ \E t \in Ids, p \in Procs :
       /\ NextNumber(t)
       /\ SetState(t, "WAITING")
       /\ Free(p)
       /\ cli' = [NoCli EXCEPT !.pc = "inproc", !.proc = p, !.own = t]
       /\ NewWorker(p, 1)
  /\ UNCHANGED faults

Dispatch ==
  /\ cli.pc = "dispatch" /\ cli.left > 0
  /\ \E p \in Procs :
       /\ Free(p)
       /\ cli' = [cli EXCEPT !.pc = "wait", !.proc = p]
       /\ NewWorker(p, 1)
  /\ UNCHANGED <<trials, commands, faults>>

\* The child's exit code is echoed; the loop goes on whatever it is.
Reap ==
  /\ cli.pc = "wait" /\ At(cli.proc, "exited")
  /\ worker' = [worker EXCEPT ![cli.proc] = NoWorker]
  /\ cli' = [cli EXCEPT !.pc = "dispatch", !.proc = NoProc, !.left = @ - 1]
  /\ UNCHANGED <<trials, commands, faults>>

\* Mutant of TimeoutKill: the timeout does not end the child.
TimeoutKill_NoKill ==
  /\ HasTimeout
  /\ cli.pc = "wait" /\ ~At(cli.proc, "exited")
  /\ cli' = [cli EXCEPT !.pc = "mark", !.proc = NoProc]
  /\ UNCHANGED <<trials, worker, commands, faults>>

\* Mutant of TimeoutKill: the killed child's trial is not marked.
TimeoutKill_NoMark ==
  /\ HasTimeout
  /\ cli.pc = "wait" /\ ~At(cli.proc, "exited")
  /\ worker' = [worker EXCEPT ![cli.proc] = NoWorker]
  /\ cli' = [cli EXCEPT !.pc = "dispatch", !.proc = NoProc, !.left = @ - 1]
  /\ UNCHANGED <<trials, commands, faults>>

\* Mutant of TimeoutKill: the clock only runs while the child holds a trial.
TimeoutKill_BusyOnly ==
  /\ HasTimeout
  /\ cli.pc = "wait" /\ worker[cli.proc].pc \in Busy
  /\ worker' = [worker EXCEPT ![cli.proc] = NoWorker]
  /\ cli' = [cli EXCEPT !.pc = "mark", !.proc = NoProc]
  /\ UNCHANGED <<trials, commands, faults>>

\* subprocess.run(timeout=...): the child is killed and reaped, then raises.
TimeoutKill ==
  /\ HasTimeout
  /\ cli.pc = "wait" /\ ~At(cli.proc, "exited")
  /\ worker' = [worker EXCEPT ![cli.proc] = NoWorker]
  /\ cli' = [cli EXCEPT !.pc = "mark", !.proc = NoProc]
  /\ UNCHANGED <<trials, commands, faults>>

\* study.trials: one read of every trial's state.
MarkSnapshot ==
  /\ cli.pc = "mark"
  /\ cli' = [cli EXCEPT !.pc = "marking", !.marks = {t \in Ids : Is(t, "RUNNING")}]
  /\ UNCHANGED <<trials, worker, commands, faults>>

NextMark(t) == t \in cli.marks /\ \A u \in cli.marks : t <= u

\* Mutant of MarkOne: the state is not checked when it is overwritten.
MarkOne_Blind ==
  /\ cli.pc = "marking"
  /\ \E t \in Ids :
       /\ NextMark(t)
       /\ SetState(t, "FAIL")
       /\ cli' = [cli EXCEPT !.marks = @ \ {t}]
  /\ UNCHANGED <<worker, commands, faults>>

MarkOne ==
  /\ cli.pc = "marking"
  /\ \E t \in Ids :
       /\ NextMark(t)
       /\ Is(t, "RUNNING")
       /\ SetState(t, "FAIL")
       /\ cli' = [cli EXCEPT !.marks = @ \ {t}]
  /\ UNCHANGED <<worker, commands, faults>>

\* The trial finished since the snapshot: storage raises, nobody catches.
MarkRefused ==
  /\ cli.pc = "marking"
  /\ \E t \in Ids : NextMark(t) /\ ~Is(t, "RUNNING")
  /\ cli' = [NoCli EXCEPT !.pc = "aborted"]
  /\ UNCHANGED <<trials, worker, commands, faults>>

MarkDone ==
  /\ cli.pc = "marking" /\ cli.marks = {}
  /\ cli' = [cli EXCEPT !.pc = "dispatch", !.left = @ - 1]
  /\ UNCHANGED <<trials, worker, commands, faults>>

\* Summary printed, or traceback of the aborted sweep: the process ends.
CliExit ==
  /\ \/ cli.pc = "dispatch" /\ cli.left = 0
     \/ cli.pc = "aborted"
  /\ cli' = NoCli
  /\ UNCHANGED <<trials, worker, commands, faults>>

\* The in-process trial loop returned or raised.
InProcessExit ==
  /\ cli.pc = "inproc" /\ At(cli.proc, "exited")
  /\ worker' = [worker EXCEPT ![cli.proc] = NoWorker]
  /\ cli' = NoCli
  /\ UNCHANGED <<trials, commands, faults>>

CliStep ==
  \/ Dispatch \/ Reap \/ TimeoutKill \/ MarkSnapshot \/ MarkOne
  \/ MarkRefused \/ MarkDone \/ CliExit \/ InProcessExit

-----------------------------------------------------------------------------
(* A worker: build_objective, then study.optimize                          *)

\* Config load, study open, data load, substrate carve, hashes.
Boot(p) ==
  /\ At(p, "boot")
  /\ \E pc \in {"ask", "leaving"} : Goto(p, pc)
  /\ UNCHANGED <<trials, cli, commands, faults>>

Ask(p) ==
  /\ At(p, "ask")
  /\ \E t \in Ids :
       /\ Asked(t)
       /\ SetState(t, "RUNNING")
       /\ worker' = [worker EXCEPT ![p] = [pc |-> "prepare", quota |-> @.quota,
                       trial |-> t, out |-> "none", tripped |-> FALSE]]
  /\ UNCHANGED <<cli, commands, faults>>

\* Overrides, validation, splitter, the ExtMem gate: a raise here is before
\* the Watchdog and its `finally`, so no attribute is recorded.
Prepare(p) ==
  /\ At(p, "prepare")
  /\ \/ Goto(p, "folds")
     \/ GotoWith(p, "tell", "FAIL")
  /\ UNCHANGED <<trials, cli, commands, faults>>

\* One fold fitted, scored and reported; then the pruner is asked.
Fold(p) ==
  /\ At(p, "folds")
  /\ Write(worker[p].trial, [Row(p) EXCEPT !.reported = @ + 1])
  /\ \/ GotoWith(p, "attrs", "PRUNED")
     \/ Row(p).reported + 1 < Folds /\ UNCHANGED worker
     \/ Row(p).reported + 1 = Folds /\ GotoWith(p, "attrs", "COMPLETE")
  /\ UNCHANGED <<cli, commands, faults>>

\* The fit raises, or storage refuses the report.
FoldRaises(p) ==
  /\ At(p, "folds")
  /\ GotoWith(p, "attrs", "FAIL")
  /\ UNCHANGED <<trials, cli, commands, faults>>

\* The sampling thread sees RSS above the threshold inside the `with` block.
Trip(p) ==
  /\ worker[p].pc \in {"folds", "attrs"} /\ ~worker[p].tripped
  /\ worker' = [worker EXCEPT ![p].tripped = TRUE]
  /\ UNCHANGED <<trials, cli, commands, faults>>

\* The `finally`: TrialAttrs.record, one set_user_attr at a time, required
\* fields before optional ones.
RecordRequired(p) ==
  /\ At(p, "attrs") /\ Row(p).attrs = "none"
  /\ Write(worker[p].trial, [Row(p) EXCEPT !.attrs = "required"])
  /\ UNCHANGED <<cli, worker, commands, faults>>

RecordOptional(p) ==
  /\ At(p, "attrs") /\ Row(p).attrs = "required"
  /\ Write(worker[p].trial, [Row(p) EXCEPT !.attrs = "full"])
  /\ Goto(p, "judge")
  /\ UNCHANGED <<cli, commands, faults>>

\* Mutant of RecordRaises: a failure to record is swallowed.
RecordRaises_Swallowed(p) ==
  /\ At(p, "attrs")
  /\ Goto(p, "judge")
  /\ UNCHANGED <<trials, cli, commands, faults>>

\* An exception inside `finally` replaces the one in flight, TrialPruned too.
RecordRaises(p) ==
  /\ At(p, "attrs")
  /\ GotoWith(p, "tell", "FAIL")
  /\ UNCHANGED <<trials, cli, commands, faults>>

\* After the `with` block: an exception in flight propagates; otherwise a
\* tripped watchdog prunes, and an untripped one goes on to the uploads.
Judge(p) ==
  /\ At(p, "judge")
  /\ \/ worker[p].out # "COMPLETE" /\ Goto(p, "tell")
     \/ worker[p].out = "COMPLETE" /\ worker[p].tripped /\ GotoWith(p, "tell", "PRUNED")
     \/ worker[p].out = "COMPLETE" /\ ~worker[p].tripped /\ Goto(p, "upload")
  /\ UNCHANGED <<trials, cli, commands, faults>>

\* Mutants of Upload: one file too few, one file too many.
Upload_Once(p) ==
  /\ At(p, "upload")
  /\ Write(worker[p].trial, [Row(p) EXCEPT !.arts = @ + 1])
  /\ Goto(p, "tell")
  /\ UNCHANGED <<cli, commands, faults>>

Upload_Thrice(p) ==
  /\ At(p, "upload")
  /\ Write(worker[p].trial, [Row(p) EXCEPT !.arts = @ + 1])
  /\ IF Row(p).arts < 2 THEN UNCHANGED worker ELSE Goto(p, "tell")
  /\ UNCHANGED <<cli, commands, faults>>

\* metrics.json, then fold_meta.json.
Upload(p) ==
  /\ At(p, "upload")
  /\ Write(worker[p].trial, [Row(p) EXCEPT !.arts = @ + 1])
  /\ IF Row(p).arts = 0 THEN UNCHANGED worker ELSE Goto(p, "tell")
  /\ UNCHANGED <<cli, commands, faults>>

UploadRaises(p) ==
  /\ At(p, "upload")
  /\ GotoWith(p, "tell", "FAIL")
  /\ UNCHANGED <<trials, cli, commands, faults>>

\* study.optimize with n trials left goes on with the next one or returns.
Between(n) == Unassigned(IF n = 0 THEN "leaving" ELSE "ask", n)

NextTrial(p) == worker' = [worker EXCEPT ![p] = Between(worker[p].quota - 1)]

\* study.optimize lets the objective's exception, or its own, propagate.
Propagate(p) == worker' = [worker EXCEPT ![p] = Between(0)]

\* A mean that is not a number is stored as FAIL without an exception.
Tell(p) ==
  /\ At(p, "tell")
  /\ Is(worker[p].trial, "RUNNING")
  /\ \/ /\ SetState(worker[p].trial, worker[p].out)
        /\ IF worker[p].out = "FAIL" THEN Propagate(p) ELSE NextTrial(p)
     \/ /\ worker[p].out = "COMPLETE"
        /\ SetState(worker[p].trial, "FAIL")
        /\ NextTrial(p)
  /\ UNCHANGED <<cli, commands, faults>>

\* Somebody else finished the trial: study.tell raises.
TellRefused(p) ==
  /\ At(p, "tell")
  /\ ~Is(worker[p].trial, "RUNNING")
  /\ Propagate(p)
  /\ UNCHANGED <<trials, cli, commands, faults>>

\* A process nobody waits for is gone when it ends.
Ended(p) == Unassigned(IF cli.proc = p THEN "exited" ELSE "none", 0)

Leave(p) ==
  /\ At(p, "leaving")
  /\ worker' = [worker EXCEPT ![p] = Ended(p)]
  /\ UNCHANGED <<trials, cli, commands, faults>>

WorkerStep(p) ==
  \/ Boot(p) \/ Ask(p) \/ Prepare(p) \/ Fold(p) \/ FoldRaises(p)
  \/ RecordRequired(p) \/ RecordOptional(p) \/ RecordRaises(p) \/ Judge(p)
  \/ Upload(p) \/ UploadRaises(p) \/ Tell(p) \/ TellRefused(p) \/ Leave(p)

-----------------------------------------------------------------------------
(* Faults                                                                  *)

Alive(p) == worker[p].pc \notin {"none", "exited"}

\* A subprocess child dies; the parent sees a non-zero exit code.
Kill(p) ==
  /\ faults.kills < MaxKills
  /\ Alive(p) /\ ~(cli.pc = "inproc" /\ cli.proc = p)
  /\ worker' = [worker EXCEPT ![p] = Ended(p)]
  /\ faults' = [faults EXCEPT !.kills = @ + 1]
  /\ UNCHANGED <<trials, cli, commands>>

\* Ctrl-C in subprocess.run: the child is killed, KeyboardInterrupt ends the
\* command; nothing marks the trial.
Interrupt ==
  /\ faults.interrupts < MaxInterrupts
  /\ cli.pc = "wait"
  /\ worker' = [worker EXCEPT ![cli.proc] = NoWorker]
  /\ cli' = NoCli
  /\ faults' = [faults EXCEPT !.interrupts = @ + 1]
  /\ UNCHANGED <<trials, commands>>

\* The cli is killed.  Its own trial loop dies with it; a child does not.
CliCrash ==
  /\ faults.crashes < MaxCrashes
  /\ cli.pc # "idle"
  /\ worker' = [p \in Procs |->
                  IF cli.proc = p /\ (cli.pc = "inproc" \/ At(p, "exited"))
                  THEN NoWorker ELSE worker[p]]
  /\ cli' = NoCli
  /\ faults' = [faults EXCEPT !.crashes = @ + 1]
  /\ UNCHANGED <<trials, commands>>

-----------------------------------------------------------------------------

\* The bound on commands is reached and every process has ended.
Quiet ==
  /\ commands = MaxCommands /\ cli.pc = "idle"
  /\ \A p \in Procs : ~Alive(p)
  /\ UNCHANGED vars

Next ==
  \/ StartSweep \/ RetryTrial \/ CliStep
  \/ \E p \in Procs : WorkerStep(p) \/ Trip(p) \/ Kill(p)
  \/ Interrupt \/ CliCrash \/ Quiet

Spec == Init /\ [][Next]_vars

(***************************************************************************)
(* Fairness.  The command line process is scheduled and its timer expires. *)
(* A worker may hang (a fit, a GPU call): only FairSpec assumes it runs.   *)
(* Nobody has to issue a command and no fault has to happen.               *)
(***************************************************************************)
CliFairness == WF_vars(CliStep)

HungWorkerSpec == Spec /\ CliFairness

FairSpec == Spec /\ CliFairness /\ \A p \in Procs : WF_vars(WorkerStep(p))

-----------------------------------------------------------------------------
(* Properties                                                              *)

Evidence(t) == [attrs |-> trials[t].attrs, arts |-> trials[t].arts,
                reported |-> trials[t].reported]

(***************************************************************************)
(* A COMPLETE trial carries everything a later reader relies on, whatever  *)
(* was killed or refused on the way: a score of every fold, the whole      *)
(* provenance record and both diagnostic files.  registry promote and      *)
(* `runs show` take a COMPLETE trial's record to be whole.                 *)
(***************************************************************************)
CompleteIsFullyEvidenced ==
  \A t \in Ids : Is(t, "COMPLETE") =>
    Evidence(t) = [attrs |-> "full", arts |-> 2, reported |-> Folds]

(***************************************************************************)
(* A PRUNED trial has its provenance (peak RSS included) and no diagnostic *)
(* file, whether the pruner or the watchdog stopped it.                    *)
(***************************************************************************)
PrunedHasProvenanceOnly ==
  \A t \in Ids : Is(t, "PRUNED") => trials[t].attrs = "full" /\ trials[t].arts = 0

(***************************************************************************)
(* No two processes ever work on one trial: a retried, resumed or orphaned *)
(* worker never shares a trial with another.                               *)
(***************************************************************************)
OneWorkerPerTrial ==
  \A p, q \in Procs :
    p # q /\ worker[p].pc \in Busy => worker[p].trial # worker[q].trial

(***************************************************************************)
(* While no command line process was killed, the trial a live process      *)
(* works on is RUNNING: the blanket FAIL of _mark_trial_failed never hits  *)
(* a trial somebody still computes, and no result told is refused.         *)
(***************************************************************************)
LiveTrialIsRunning ==
  faults.crashes = 0 =>
    \A p \in Procs : worker[p].pc \in Busy => Is(worker[p].trial, "RUNNING")

(***************************************************************************)
(* While no command line process was killed, marking trials failed after a *)
(* timeout never meets a finished trial, so a timeout never ends a sweep.  *)
(***************************************************************************)
TimeoutNeverAborts == faults.crashes = 0 => cli.pc # "aborted"

(***************************************************************************)
(* Without kills, interrupts and crashes no RUNNING trial is left between  *)
(* two iterations of the trial loop or between two commands, timeouts and  *)
(* failing trials included.                                                *)
(***************************************************************************)
NoStaleRunning ==
  faults = [kills |-> 0, interrupts |-> 0, crashes |-> 0]
    /\ cli.pc \in {"idle", "dispatch"}
    => \A t \in Ids : ~Is(t, "RUNNING")

(***************************************************************************)
(* docs/ARCHITECTURE.md:200-201: a hard OOM of the child makes it exit     *)
(* non-zero and the parent marks its trial FAIL.  Then no trial of a child *)
(* that died is RUNNING once the parent has reaped the child.              *)
(***************************************************************************)
DeadChildTrialIsFailed ==
  faults.interrupts = 0 /\ faults.crashes = 0 /\ cli.pc = "dispatch"
    => \A t \in Ids : ~Is(t, "RUNNING")

(****************************************************************************)
(* retry-trial runs the trial it queued, unless an older one is waiting: an *)
(* earlier retry-trial that could not build its objective left that, and    *)
(* its own stays in the queue.  The child of a killed sweep might take it;  *)
(* no other process does.                                                   *)
(****************************************************************************)
RetryKeepsTheQueue ==
  faults.crashes = 0 /\ cli.own # 0 /\ worker[cli.proc].pc \in Busy =>
    LET t == worker[cli.proc].trial
    IN  t = cli.own \/ (t < cli.own /\ Is(cli.own, "WAITING"))

(***************************************************************************)
(* A finished trial is never touched again, whoever is still alive: not    *)
(* its state and not its evidence; and a trial never becomes unstarted.    *)
(***************************************************************************)
FinishedIsFinal ==
  [][\A t \in Ids :
       /\ trials[t].state \in Finished => trials'[t] = trials[t]
       /\ Is(t, "RUNNING") => trials'[t].state \in Finished \cup {"RUNNING"}]_vars

\* The grade of a row as the study's readers see it: complete provenance,
\* then one diagnostic file, then both with a score of every fold.
Grade(row) ==
  IF row.attrs # "full" THEN
    IF row.attrs = "none" /\ row.reported = 0 THEN "none" ELSE "partial"
  ELSE IF row.arts = 0 THEN "provenance"
  ELSE IF row.arts = 2 /\ row.reported = Folds THEN "full" ELSE "diagnosed"

Ledger == INSTANCE StudyLedger WITH
  N <- MaxTrials,
  ledger <- [t \in Ids |-> [state |-> trials[t].state, grade |-> Grade(trials[t])]]

(***************************************************************************)
(* The processes together keep the promise of StudyLedger: FIFO start of   *)
(* queued trials, evidence only while RUNNING, and an end state that tells *)
(* which evidence there is.                                                *)
(***************************************************************************)
KeepsLedger == Ledger!LedgerSpec

(***************************************************************************)
(* trial_timeout_s: a sweep in subprocess isolation ends even if every     *)
(* child hangs at any point.                                               *)
(***************************************************************************)
SweepTerminates == cli.pc = "dispatch" ~> cli.pc = "idle"

(***************************************************************************)
(* Every trial that started is settled, if processes run and none dies.    *)
(***************************************************************************)
RunningIsSettled ==
  \A t \in Ids : Is(t, "RUNNING") ~> trials[t].state \in Finished

=============================================================================
