---------------------------- MODULE TrainingData ----------------------------
(*****************************************************************************)
(* How the rows of a command reach the booster.  A trial of `tune` carves    *)
(* its substrate into folds, if ingest and splitter go together              *)
(* (tuning/objective.py); `train` with training.use_native builds one matrix *)
(* of its training rows, in memory or by an iterator over chunks             *)
(* (training/xgboost/native_adapter.py, data/data_iter.py).  Both ask        *)
(* select_ingest whether the rows fit.                                       *)
(*                                                                           *)
(* The trials to be looked at are given as groups of configurations, frames  *)
(* and values of the label or group column that go together.  How the        *)
(* iterator is driven is xgboost's: any number of passes, each a reset and   *)
(* then next until it says False.                                            *)
(*****************************************************************************)
EXTENDS Splitters, Sequences

CONSTANTS Trials,      \* of tune: [cvs, frames, values]
          Heights,     \* of the training rows of train
          MaxPasses    \* passes xgboost makes over the chunks

\* CVConfig: a tagged union.  The gaps and horizons of a configuration are
\* meant as counts, a max_train_size of 0 as none; nothing in the code refuses
\* a negative one.  skfolio wants blocks, and some of them tested.
CVConfigs ==
  [kind : {"kfold", "stratified_kfold"}, n_splits : Int, shuffle : BOOLEAN]
    \cup [kind : {"group_kfold"}, n_splits : Int]
    \cup [kind : {"time_series"}, n_splits : Int, gap : Nat, max_train_size : Nat,
          embargo : {"none", "rows", "time"}, embargo_time : Nat]
    \cup [kind : {"cpcv"}, n_folds : Nat, n_test_folds : Nat, purged_size : Nat,
          embargo_size : Nat, target_horizon_bars : Nat, embargo_pct : Nat]
    \cup [kind : {"panel_cpcv"}, n_folds : Nat, n_test_folds : Nat,
          target_horizon_bars : Nat, embargo_pct : Nat]

ASSUME TrialsAssumption ==
  \A t \in Trials :
    /\ \A cv \in t.cvs :
         /\ cv \in CVConfigs
         /\ cv.kind \in {"cpcv", "panel_cpcv"} => cv.n_test_folds \in 1 .. cv.n_folds
    /\ \A f \in t.frames : /\ Height(f) \in Nat
                            /\ f \in [0 .. Height(f) - 1 -> Int]
ASSUME HeightsAssumption == Heights \subseteq Nat /\ MaxPasses \in Nat

VARIABLES job,      \* the call
          pc,       \* where it is
          folds,    \* tune: what the splitter yields
          files,    \* train: the chunks, as intervals of rows
          idx,      \* ParquetDataIter._idx, counted from 0
          fed,      \* the rows handed over in this pass, in order
          passes

vars == <<job, pc, folds, files, idx, fed, passes>>

Rows == DOMAIN job.time

\* time_ordered: the frame is sorted before it is cut.
Sorted(time) == \A r, s \in DOMAIN time : r < s => time[r] <= time[s]

\* A configuration is refused when its strategy is temporal and the split is
\* not, so that the substrate of such a trial is sorted.
TuneCalls ==
  \E t \in Trials : \E cv \in t.cvs, time \in t.frames, big \in BOOLEAN :
    /\ cv.kind \in TemporalKinds => Sorted(time)
    /\ \E column \in [DOMAIN time -> t.values] :
         job = [command |-> "tune", cv |-> cv, time |-> time, column |-> column,
                big |-> big]

TrainCalls ==
  \E h \in Heights, big \in BOOLEAN :
    job = [command |-> "train", time |-> [r \in 0 .. h - 1 |-> 0], big |-> big]

Init ==
  /\ TuneCalls \/ TrainCalls
  /\ pc = "start"
  /\ folds = {} /\ files = <<>> /\ idx = 0 /\ fed = <<>> /\ passes = 0

Goto(at) == pc' = at

-----------------------------------------------------------------------------
(* select_ingest, as each command uses it *)

\* _check_extmem_compat: too many rows for the device are refused unless the
\* splitter could do with chunks.  The folds are then fitted in memory.
Gate ==
  /\ pc = "start" /\ job.command = "tune"
  /\ Goto(IF job.big /\ ~ExtmemCompatible(job.cv) THEN "error" ELSE "split")
  /\ UNCHANGED <<job, folds, files, idx, fed, passes>>

\* _build_train_dmatrix: QuantileDMatrix of the whole frame, or chunks.
SelectIngest ==
  /\ pc = "start" /\ job.command = "train"
  /\ Goto(IF job.big THEN "chunk" ELSE "fitted")
  /\ UNCHANGED <<job, folds, files, idx, fed, passes>>

-----------------------------------------------------------------------------
(* A trial of tune *)

Split ==
  /\ pc = "split"
  /\ folds' \in Families(job.cv, job.time, job.column)
  /\ Goto("folds")
  /\ UNCHANGED <<job, files, idx, fed, passes>>

SplitRaises ==
  /\ pc = "split"
  /\ Families(job.cv, job.time, job.column) = {}
  /\ Goto("error")
  /\ UNCHANGED <<job, folds, files, idx, fed, passes>>

-----------------------------------------------------------------------------
(* train through chunks *)

BatchCount == 4

BatchSize(h) == IF h < BatchCount THEN 1 ELSE Ceil(h, BatchCount)

\* iter_slices: chunks of one size, the last of what is left.
Slices(h, size) ==
  [i \in 1 .. Ceil(h, size) |-> (i - 1) * size .. Least(i * size, h) - 1]

\* single_source_iter
Chunk ==
  /\ pc = "chunk"
  /\ LET h == Height(job.time)
     IN  IF h = 0
         THEN Goto("error") /\ UNCHANGED files
         ELSE Goto("reset") /\ files' = Slices(h, BatchSize(h))
  /\ UNCHANGED <<job, folds, idx, fed, passes>>

\* Mutant of Reset: the position is kept.
Reset_Keeps ==
  /\ pc = "reset" /\ passes < MaxPasses
  /\ fed' = <<>> /\ Goto("feed")
  /\ UNCHANGED <<job, folds, files, idx, passes>>

Reset ==
  /\ pc = "reset" /\ passes < MaxPasses
  /\ idx' = 0 /\ fed' = <<>> /\ Goto("feed")
  /\ UNCHANGED <<job, folds, files, passes>>

Ascending(I) ==
  [k \in 1 .. Cardinality(I) |-> CHOOSE r \in I : Cardinality({s \in I : s <= r}) = k]

\* next(): one file read and handed over, True.
NextBatch ==
  /\ pc = "feed" /\ idx < Len(files)
  /\ fed' = fed \o Ascending(files[idx + 1])
  /\ idx' = idx + 1
  /\ UNCHANGED <<job, pc, folds, files, passes>>

\* next() says False: the pass is over.
PassEnds ==
  /\ pc = "feed" /\ idx >= Len(files)
  /\ passes' = passes + 1
  /\ Goto("reset")
  /\ UNCHANGED <<job, folds, files, idx, fed>>

\* The matrix is built, the booster trained.
Fit ==
  /\ pc = "reset" /\ passes > 0
  /\ Goto("fitted")
  /\ UNCHANGED <<job, folds, files, idx, fed, passes>>

Done == pc \in {"folds", "fitted", "error"} /\ UNCHANGED vars

Next ==
  \/ Gate \/ SelectIngest \/ Split \/ SplitRaises
  \/ Chunk \/ Reset \/ NextBatch \/ PassEnds \/ Fit \/ Done

Spec == Init /\ [][Next]_vars

-----------------------------------------------------------------------------
(* Distance between training and test rows *)

Time(r) == job.time[r]
StampOf(r) == IndexOf(job.time, r)

\* A panel of equally spaced timestamps with equally many rows, the last of
\* which may be cut: train and val are the first rows of a sorted file, and the
\* cut knows nothing of timestamps.
RowsAt(time, u) == Cardinality({r \in DOMAIN time : time[r] = u})
Spacing(time) == Median(Deltas(Stamps(time)))
Even(time) ==
  LET U == Stamps(time)
      last == CHOOSE u \in U : \A w \in U : w <= u
  IN  /\ Cardinality(U) > 1
      /\ \A u \in DOMAIN Deltas(U) : Deltas(U)[u] = Spacing(time)
      /\ \A u, w \in U \ {last} : RowsAt(time, u) = RowsAt(time, w)
      /\ \A u \in U : RowsAt(time, last) <= RowsAt(time, u)
Whole(time) == \A u, w \in Stamps(time) : RowsAt(time, u) = RowsAt(time, w)

WalkForwardIsApart(train, test) ==
  \A a \in train, b \in test :
    CASE job.cv.embargo = "none" -> b - a > job.cv.gap
      [] job.cv.embargo = "rows" -> b - a > job.cv.embargo_time
      [] job.cv.embargo = "time" ->
           /\ a < b
           /\ Even(job.time) =>
                Time(b) - Time(a) + (IF Whole(job.time) THEN 0 ELSE Spacing(job.time))
                  >= job.cv.embargo_time

PanelIsApart(train, test) ==
  \A a \in train, b \in test :
    /\ StampOf(b) - StampOf(a) \notin 0 .. job.cv.target_horizon_bars
    /\ StampOf(a) - StampOf(b) \notin
         0 .. job.cv.target_horizon_bars
                + Percent(Cardinality(Stamps(job.time)), job.cv.embargo_pct)

\* A row count that is given wins over the knob that stands for it, be it
\* smaller or not.
PurgedIsApart(train, test) ==
  \A a \in train, b \in test :
    /\ job.cv.purged_size = 0 => b - a \notin 0 .. job.cv.target_horizon_bars
    /\ b - a \notin 0 .. job.cv.purged_size
    /\ a - b \notin 0 .. job.cv.purged_size + job.cv.embargo_size
    /\ job.cv.embargo_size = 0 =>
         a - b \notin 0 .. job.cv.purged_size + Percent(Height(job.time), job.cv.embargo_pct)

\* No fold trains on what it tests, on a row of a tested group, or on a row
\* nearer to a tested one than the configured embargo and horizon allow, counted
\* in the unit the configuration counts in.  A duration is kept by an even panel
\* of whole timestamps; a cut last timestamp makes the mean too small and may
\* cost one timestamp of it.
FoldsKeepDistance ==
  \A f \in folds :
    /\ f.train \cap f.test = {}
    /\ CASE job.cv.kind = "group_kfold" ->
              \A a \in f.train, b \in f.test : job.column[a] # job.column[b]
         [] job.cv.kind = "time_series" -> WalkForwardIsApart(f.train, f.test)
         [] job.cv.kind = "cpcv" -> PurgedIsApart(f.train, f.test)
         [] job.cv.kind = "panel_cpcv" -> PanelIsApart(f.train, f.test)
         [] OTHER -> f.train \cup f.test = Rows

-----------------------------------------------------------------------------
(* Every row its turn *)

TestedIn(r) == Cardinality({f \in folds : r \in f.test})

Tests == {f.test : f \in folds}

\* The mean of the fold scores is a mean over the rows: get_n_splits() folds
\* test every row equally often, whatever the remainder.  Walking forward, the
\* tests do not overlap, are equally long and reach the last row.
EveryRowIsTested ==
  pc = "folds" =>
    /\ Cardinality(folds) = NSplits(job.cv)
    /\ CASE job.cv.kind = "time_series" ->
              /\ \A S, T \in Tests : S # T => S \cap T = {}
              /\ \A S, T \in Tests : Cardinality(S) = Cardinality(T)
              /\ \A r \in Rows, s \in UNION Tests : s < r => r \in UNION Tests
              /\ \A f \in folds : f.train # {} /\ f.test # {}
         [] job.cv.kind \in {"cpcv", "panel_cpcv"} ->
              \A r \in Rows : TestedIn(r) =
                Binomial(job.cv.n_folds - 1, job.cv.n_test_folds - 1)
         [] OTHER -> \A r \in Rows : TestedIn(r) = 1

-----------------------------------------------------------------------------
(* The chunks *)

\* Every pass xgboost makes over the iterator is handed every training row once,
\* in the order of the frame and so next to its label, in at most as many
\* batches as asked for and none of them empty.
BatchesCoverRows ==
  /\ pc = "reset" /\ passes > 0 => fed = [k \in 1 .. Height(job.time) |-> k - 1]
  /\ Len(files) <= BatchCount
  /\ \A i \in 1 .. Len(files) : files[i] # {}
=============================================================================
