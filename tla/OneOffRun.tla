------------------------------ MODULE OneOffRun ------------------------------
(***************************************************************************)
(* `rux-ml train` and `rux-ml solve`: one trial, asked and told by hand    *)
(* inside the one_off_run context manager (runs/ask_tell.py).              *)
(*                                                                         *)
(* Each process runs one command.  It asks the study for a trial, runs the *)
(* body of the `with` statement, and settles the trial: the body tells it, *)
(* or the context manager's handler fails it.  Exceptions, Ctrl-C          *)
(* included, may come at any point; storage may refuse any write; the      *)
(* process may be killed.  Two commands share a study when its name says   *)
(* so: no {stamp} in the template, or the same second.                     *)
(***************************************************************************)
EXTENDS TrialStore

CONSTANTS
  Procs,
  MaxRaises,      \* bound: exceptions, Ctrl-C and refused writes
  MaxKills        \* bound: processes killed

ASSUME BoundsAssumption == MaxRaises \in Nat /\ MaxKills \in Nat

VARIABLES
  run,      \* the process of each command
  raises, kills

vars == <<trials, run, raises, kills>>

\* pc: idle, open, asked, body, attrs, judge, upload, tell, told, handler,
\* exited, escaped (hit where the handler does not reach) or killed;
\* told: OneOffRun._told; tripped: Watchdog.tripped.
NotStarted == [pc |-> "idle", verb |-> "none", trial |-> 0, told |-> FALSE,
               tripped |-> FALSE]

Init ==
  /\ trials = [t \in Ids |-> NoTrial]
  /\ run = [p \in Procs |-> NotStarted]
  /\ raises = 0 /\ kills = 0

At(p, pc) == run[p].pc = pc
Goto(p, pc) == run' = [run EXCEPT ![p].pc = pc]
Row(p) == trials[run[p].trial]

\* Program points inside the `with` block, after `yield run`.
InBody == {"body", "attrs", "judge", "upload", "tell", "told"}

Fault == raises < MaxRaises /\ raises' = raises + 1

-----------------------------------------------------------------------------
(* one_off_run                                                             *)

\* Configuration, hashes, versions or the problem module; then the study.
Begin(p) ==
  /\ At(p, "idle")
  /\ \E verb \in {"train", "solve"} :
       run' = [run EXCEPT ![p].pc = "open", ![p].verb = verb]
  /\ UNCHANGED <<trials, raises, kills>>

Ask(p) ==
  /\ At(p, "open")
  /\ \E t \in Ids :
       /\ Asked(t)
       /\ SetState(t, "RUNNING")
       /\ run' = [run EXCEPT ![p].pc = "asked", ![p].trial = t]
  /\ UNCHANGED <<raises, kills>>

Enter(p) ==
  /\ At(p, "asked")
  /\ Goto(p, "body")
  /\ UNCHANGED <<trials, raises, kills>>

\* The body raises: the handler takes over, BaseException included.
Raise(p) ==
  /\ run[p].pc \in InBody
  /\ Fault
  /\ Goto(p, "handler")
  /\ UNCHANGED <<trials, kills>>

\* Before ask() nothing is left behind; between ask() and the `try` a
\* RUNNING trial is.
RaiseEarly(p) ==
  /\ run[p].pc \in {"open", "asked"}
  /\ Fault
  /\ Goto(p, "escaped")
  /\ UNCHANGED <<trials, kills>>

\* Mutant of Handle: the trial is failed whether it was told or not.
Handle_Always(p) ==
  /\ At(p, "handler")
  /\ SetState(run[p].trial, "FAIL")
  /\ Goto(p, "exited")
  /\ UNCHANGED <<raises, kills>>

Handle(p) ==
  /\ At(p, "handler")
  /\ IF ~run[p].told /\ Is(run[p].trial, "RUNNING")
     THEN SetState(run[p].trial, "FAIL")
     ELSE UNCHANGED trials      \* told, or study.tell raises: already finished
  /\ Goto(p, "exited")
  /\ UNCHANGED <<raises, kills>>

\* Storage refuses the FAIL as well, or a second Ctrl-C.
HandlerRaises(p) ==
  /\ At(p, "handler")
  /\ Fault
  /\ Goto(p, "escaped")
  /\ UNCHANGED <<trials, kills>>

-----------------------------------------------------------------------------
(* The body of the `with` block                                            *)

\* train: the fit, under the watchdog.
FitAndScore(p) ==
  /\ run[p].verb = "train"
  /\ \E tripped \in BOOLEAN :
       run' = [run EXCEPT ![p].pc = "attrs", ![p].tripped = tripped]

\* solve: no watchdog.
Solve(p) ==
  /\ run[p].verb = "solve"
  /\ Goto(p, "attrs")

Body(p) ==
  /\ At(p, "body")
  /\ FitAndScore(p) \/ Solve(p)
  /\ UNCHANGED <<trials, raises, kills>>

\* Mutant of RecordAttrs: the optional fields are not written.
RecordAttrs_RequiredOnly(p) ==
  /\ At(p, "attrs")
  /\ Write(run[p].trial, [Row(p) EXCEPT !.attrs = "required"])
  /\ Goto(p, IF run[p].verb = "train" THEN "judge" ELSE "tell")
  /\ UNCHANGED <<raises, kills>>

\* TrialAttrs.record: required fields, then the optional ones.
RecordAttrs(p) ==
  /\ At(p, "attrs")
  /\ IF Row(p).attrs = "none"
     THEN Write(run[p].trial, [Row(p) EXCEPT !.attrs = "required"]) /\ UNCHANGED run
     ELSE Write(run[p].trial, [Row(p) EXCEPT !.attrs = "full"])
          /\ Goto(p, IF run[p].verb = "train" THEN "judge" ELSE "tell")
  /\ UNCHANGED <<raises, kills>>

\* Mutant of Judge: a tripped fit goes on like any other.
Judge_Untripped(p) ==
  /\ At(p, "judge")
  /\ Goto(p, "upload")
  /\ UNCHANGED <<trials, raises, kills>>

\* A tripped watchdog raises optuna.TrialPruned, inside the `with` block.
Judge(p) ==
  /\ At(p, "judge")
  /\ IF run[p].tripped
     THEN Goto(p, "handler")
     ELSE Goto(p, "upload")
  /\ UNCHANGED <<trials, raises, kills>>

\* metrics.json, then fold_meta.json.
Upload(p) ==
  /\ At(p, "upload")
  /\ Write(run[p].trial, [Row(p) EXCEPT !.arts = @ + 1])
  /\ IF Row(p).arts = 0 THEN UNCHANGED run ELSE Goto(p, "tell")
  /\ UNCHANGED <<raises, kills>>

\* Mutant of Tell: the flag goes up before storage has taken the result.
Tell_FlagFirst(p) ==
  /\ At(p, "tell")
  /\ \/ ~run[p].told /\ UNCHANGED trials
        /\ run' = [run EXCEPT ![p].told = TRUE]
     \/ run[p].told /\ SetState(run[p].trial, "COMPLETE") /\ Goto(p, "told")
  /\ UNCHANGED <<raises, kills>>

\* study.tell commits the score; a NaN score is told as FAIL.
Tell(p) ==
  /\ At(p, "tell")
  /\ \E s \in {"COMPLETE", "FAIL"} : SetState(run[p].trial, s)
  /\ Goto(p, "told")
  /\ UNCHANGED <<raises, kills>>

\* _told is set; the summary is printed and the `with` block is left.
Leave(p) ==
  /\ At(p, "told")
  /\ IF run[p].told
     THEN Goto(p, "exited")
     ELSE run' = [run EXCEPT ![p].told = TRUE]
  /\ UNCHANGED <<trials, raises, kills>>

-----------------------------------------------------------------------------

Kill(p) ==
  /\ run[p].pc \notin {"idle", "exited", "escaped", "killed"}
  /\ kills < MaxKills /\ kills' = kills + 1
  /\ Goto(p, "killed")
  /\ UNCHANGED <<trials, raises>>

Step(p) ==
  \/ Ask(p) \/ Enter(p) \/ Body(p) \/ RecordAttrs(p) \/ Judge(p)
  \/ Upload(p) \/ Tell(p) \/ Leave(p) \/ Handle(p)

Ended(p) == run[p].pc \in {"exited", "escaped", "killed"}

Quiet == (\A p \in Procs : Ended(p)) /\ UNCHANGED vars

Next ==
  \/ \E p \in Procs : Begin(p) \/ Step(p) \/ Raise(p) \/ RaiseEarly(p)
                      \/ HandlerRaises(p) \/ Kill(p)
  \/ Quiet

Spec == Init /\ [][Next]_vars

\* A process that lives is scheduled, and its fit or solve returns.
FairSpec == Spec /\ \A p \in Procs : WF_vars(Step(p))

-----------------------------------------------------------------------------
(* Properties                                                              *)

(***************************************************************************)
(* A COMPLETE one-off trial has its whole provenance, and both files if it *)
(* is a training; nothing uploads files for a solver.                      *)
(***************************************************************************)
OneOffIsEvidenced ==
  \A p \in Procs :
    run[p].trial # 0 /\ Is(run[p].trial, "COMPLETE") =>
      /\ Row(p).attrs = "full"
      /\ Row(p).arts = IF run[p].verb = "train" THEN 2 ELSE 0

(***************************************************************************)
(* cli/train.py:240-241: a baseline whose fit crossed the memory threshold *)
(* does not get into the pool of best trials.                              *)
(***************************************************************************)
TrippedNeverCompletes ==
  \A p \in Procs : run[p].tripped => ~Is(run[p].trial, "COMPLETE")

(***************************************************************************)
(* A settled trial is never touched again: an exception between the tell   *)
(* and the end of the `with` block does not turn a result into a failure.  *)
(***************************************************************************)
SettledIsFinal ==
  [][\A t \in Ids : trials[t].state \in Finished => trials'[t] = trials[t]]_vars

(***************************************************************************)
(* runs/ask_tell.py:37-38: storage does not keep a RUNNING trial.  A trial *)
(* asked for is settled in the end, or its process was killed or hit where *)
(* the handler does not reach: between ask() and `try`, or in the handler. *)
(***************************************************************************)
EverySettles ==
  \A p \in Procs :
    At(p, "asked") ~> \/ run[p].trial # 0 /\ trials[run[p].trial].state \in Finished
                      \/ run[p].pc \in {"escaped", "killed"}

=============================================================================
