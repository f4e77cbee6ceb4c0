----------------------------- MODULE TrialStore -----------------------------
(***************************************************************************)
(* The Optuna study storage (SQLite) as rux-ml uses it.  Optuna is not     *)
(* part of the repository; what is written here is the contract the code   *)
(* in tuning/, runs/ and cli/ relies on:                                   *)
(*   - a trial number is handed out once, in increasing order;             *)
(*   - `study.ask` takes the oldest WAITING trial before it creates one;   *)
(*   - every write names a trial and is one transaction;                   *)
(*   - a finished trial refuses every further write                        *)
(*     (UpdateFinishedTrialError).                                         *)
(* A trial keeps what the properties tell apart: its state, how much of    *)
(* its provenance and how many of its diagnostic files are attached, and   *)
(* how many folds reported a score.                                        *)
(***************************************************************************)
EXTENDS Naturals

CONSTANTS
  MaxTrials,   \* bound: trial numbers of the study are 1..MaxTrials
  Folds        \* cfg.cv.n_splits: fits per trial

ASSUME MaxTrialsAssumption == MaxTrials \in Nat
ASSUME FoldsAssumption == Folds \in Nat \ {0}

VARIABLE trials   \* the rows of the study, by trial number

Ids == 1 .. MaxTrials

Finished == {"COMPLETE", "PRUNED", "FAIL"}

States == {"absent", "WAITING", "RUNNING"} \cup Finished

\* "required" is every field TrialAttrs needs; "full" adds the optional ones.
AttrsLevels == {"none", "required", "full"}

Trial == [state    : States,
          attrs    : AttrsLevels,
          arts     : 0 .. 2,
          reported : 0 .. Folds]

NoTrial == [state |-> "absent", attrs |-> "none", arts |-> 0, reported |-> 0]

Is(t, s) == trials[t].state = s

\* Trials are numbered in the order they are added.
NextNumber(t) ==
  /\ Is(t, "absent")
  /\ \A u \in Ids : u < t => ~Is(u, "absent")

\* Mutant of Asked: a trial found RUNNING is taken up again.
Asked_Running(t) ==
  \/ Is(t, "RUNNING")
  \/ NextNumber(t) /\ \A u \in Ids : ~Is(u, "RUNNING")

\* Mutant of Asked: the queue is forgotten.
Asked_New(t) == NextNumber(t)

\* The trial study.ask hands out: the oldest WAITING one, else a new one.
Asked(t) ==
  \/ Is(t, "WAITING") /\ \A u \in Ids : u < t => ~Is(u, "WAITING")
  \/ NextNumber(t) /\ \A u \in Ids : ~Is(u, "WAITING")

SetState(t, s) == trials' = [trials EXCEPT ![t].state = s]

\* A write to a trial that storage accepts, and the trial's new row.
Write(t, row) ==
  /\ Is(t, "RUNNING")
  /\ trials' = [trials EXCEPT ![t] = row]
=============================================================================
