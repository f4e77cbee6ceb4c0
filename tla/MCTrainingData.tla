--------------------------- MODULE MCTrainingData ---------------------------
(* Small configurations and frames for TrainingData. *)
EXTENDS TrainingData

Splits == 1 .. 3                      \* n_splits
Tested == {<<3, 2>>, <<4, 2>>}        \* n_folds and n_test_folds

\* n rows of one time.
Flat(N) == {[r \in 0 .. n - 1 |-> 0] : n \in N}

\* m rows at each of u timestamps `step` apart, but only c at the last.
Panel(m, u, c, step) == [r \in 0 .. m * (u - 1) + c - 1 |-> (r \div m) * step]
Cuts(M, U, steps) == UNION {{Panel(m, u, c, step) : c \in 1 .. m} :
                               m \in M, u \in U, step \in steps}
\* The wide ones are where a cut last timestamp costs the embargo one timestamp.
Panels == Cuts(1 .. 4, 1 .. 7, {1, 2}) \cup Cuts({7, 8}, {3}, {1}) \cup Cuts({11}, {4}, {2})

\* Sorted frames of n rows over the times 0 .. t, even or not.
Ragged(n, t) == {f \in [0 .. n - 1 -> 0 .. t] : Sorted(f)}

KFoldCV == [kind : {"kfold"}, n_splits : Splits, shuffle : BOOLEAN]
StratifiedKFoldCV == [kind : {"stratified_kfold"}, n_splits : Splits, shuffle : BOOLEAN]
GroupKFoldCV == [kind : {"group_kfold"}, n_splits : Splits]

TimeSeries(gaps, embargo, times) ==
  [kind : {"time_series"}, n_splits : Splits, gap : gaps, max_train_size : {0, 2},
   embargo : {embargo}, embargo_time : times]
RowGapCV == TimeSeries(0 .. 2, "none", {0}) \cup TimeSeries({1}, "rows", {0, 2})
DurationCV == TimeSeries({1}, "time", 0 .. 5)

CombinatorialPurgedCV ==
  {[kind |-> "cpcv", n_folds |-> t[1], n_test_folds |-> t[2], purged_size |-> p,
    embargo_size |-> e, target_horizon_bars |-> h, embargo_pct |-> pct] :
      t \in Tested, p \in {0, 1}, e \in {0, 1}, h \in {0, 2}, pct \in {0, 20}}
PanelCombinatorialPurgedCV ==
  {[kind |-> "panel_cpcv", n_folds |-> t[1], n_test_folds |-> t[2],
    target_horizon_bars |-> h, embargo_pct |-> pct] :
      t \in Tested, h \in {0, 1}, pct \in {0, 25}}

Group(cvs, frames, values) == [cvs |-> cvs, frames |-> frames, values |-> values]

MCTrials ==
  {Group(KFoldCV, Flat(0 .. 5), {0}),
   Group(StratifiedKFoldCV, Flat(0 .. 5), {0, 1}),
   Group(GroupKFoldCV, Flat(0 .. 4), {0, 1, 2}),
   Group(RowGapCV, Flat(0 .. 9), {0}),
   Group(DurationCV, Panels \cup Ragged(4, 4) \cup Ragged(5, 5), {0}),
   Group(CombinatorialPurgedCV, Flat(0 .. 9), {0}),
   Group(PanelCombinatorialPurgedCV, Ragged(4, 4) \cup Ragged(6, 5), {0})}
=============================================================================
