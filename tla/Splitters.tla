------------------------------ MODULE Splitters ------------------------------
(****************************************************************************)
(* The cross-validation strategies of data/cv.py as operators.              *)
(*                                                                          *)
(* A frame is its column of timestamps: a function from the row positions   *)
(* 0 .. n-1 to times.  A fold is a record of two sets of positions, and a   *)
(* splitter is the set of the fold families it may yield, since the shuffle *)
(* of sklearn is random; it has none where split() raises.                  *)
(*                                                                          *)
(* sklearn and skfolio are not part of the repository.  Their splits are    *)
(* modelled from what cv.py and its tests take from them; KFold,            *)
(* StratifiedKFold and GroupKFold by the partitions they promise.           *)
(****************************************************************************)
EXTENDS Integers, FiniteSets

Least(a, b) == IF b < a THEN b ELSE a
Ceil(a, b) == (a + b - 1) \div b                     \* of a/b, b > 0

Height(time) == Cardinality(DOMAIN time)

\* Mutant of BlockStart: the remainder belongs to no block.
BlockStart_Even(n, k, i) == i * (n \div k)

\* Position i of n sorted things belongs to which of k contiguous blocks: the
\* first n % k blocks are one longer.
BlockStart(n, k, i) == i * (n \div k) + Least(i, n % k)
Block(n, k, i) == BlockStart(n, k, i) .. BlockStart(n, k, i + 1) - 1

-----------------------------------------------------------------------------
(* KFold, StratifiedKFold, GroupKFold: every row is tested in one fold. *)

\* part says of each row in which fold it is tested.
FoldsOf(part, k) ==
  {[train |-> {r \in DOMAIN part : part[r] # i},
    test |-> {r \in DOMAIN part : part[r] = i}] : i \in 0 .. k - 1}

TestSize(part, i) == Cardinality({r \in DOMAIN part : part[r] = i})

\* In a shuffled KFold any rows may make up the blocks.
KFoldFamilies(cv, time) ==
  LET n == Height(time)
      size(i) == Cardinality(Block(n, cv.n_splits, i))
      parts == {p \in [DOMAIN time -> 0 .. cv.n_splits - 1] :
                  IF cv.shuffle
                  THEN \A i \in 0 .. cv.n_splits - 1 : TestSize(p, i) = size(i)
                  ELSE \A r \in DOMAIN p : r \in Block(n, cv.n_splits, p[r])}
  IN  IF cv.n_splits > n THEN {} ELSE {FoldsOf(p, cv.n_splits) : p \in parts}

\* Every fold tests the same number of each class, and of rows, give or take
\* one; without a shuffle a class is dealt out in the order of its rows.  Some
\* class has to reach every fold.
StratifiedFamilies(cv, label) ==
  LET of(p, i, c) == Cardinality({r \in DOMAIN p : p[r] = i /\ label[r] = c})
      classes == {label[r] : r \in DOMAIN label}
      folds == 0 .. cv.n_splits - 1
      parts == {p \in [DOMAIN label -> folds] :
                  /\ \A i, j \in folds : TestSize(p, i) - TestSize(p, j) <= 1
                  /\ \A c \in classes, i, j \in folds : of(p, i, c) - of(p, j, c) <= 1
                  /\ cv.shuffle \/ \A r, s \in DOMAIN p :
                       r < s /\ label[r] = label[s] => p[r] <= p[s]}
      rows(c) == {r \in DOMAIN label : label[r] = c}
  IN  IF \A c \in classes : Cardinality(rows(c)) < cv.n_splits THEN {}
      ELSE {FoldsOf(p, cv.n_splits) : p \in parts}

\* groups = X[cv.groups_column]: a group is tested as a whole.
GroupFamilies(cv, group) ==
  LET parts == {p \in [DOMAIN group -> 0 .. cv.n_splits - 1] :
                  /\ \A r, s \in DOMAIN p : group[r] = group[s] => p[r] = p[s]
                  /\ \A i \in 0 .. cv.n_splits - 1 : TestSize(p, i) > 0}
  IN  {FoldsOf(p, cv.n_splits) : p \in parts}

-----------------------------------------------------------------------------
(* TimeSeriesSplitter *)

Stamps(time) == {time[r] : r \in DOMAIN time}
IndexOf(time, r) == Cardinality({u \in Stamps(time) : u < time[r]})

\* np.diff of the sorted unique timestamps, by the stamp it starts at.
Later(U, u) == CHOOSE v \in U : u < v /\ \A w \in U : u < w => v <= w
Deltas(U) == [u \in {v \in U : \E w \in U : v < w} |-> Later(U, u) - u]

\* The k-th smallest value of f, and int(np.median(f)).
Ranked(f, k) ==
  CHOOSE x \in {f[u] : u \in DOMAIN f} :
    /\ Cardinality({u \in DOMAIN f : f[u] < x}) < k
    /\ k <= Cardinality({u \in DOMAIN f : f[u] <= x})
Median(f) ==
  LET n == Cardinality(DOMAIN f)
  IN  (Ranked(f, (n + 1) \div 2) + Ranked(f, n \div 2 + 1)) \div 2

\* Mutant of EmbargoRows: timestamps taken for rows.
EmbargoRows_Stamps(time, d) ==
  LET U == Stamps(time)
  IN  IF Cardinality(U) < 2 THEN 0 ELSE Ceil(d, Median(Deltas(U)))

\* The rows left out for an embargo of d time units: so many timestamps, and
\* for each of them the mean number of rows of a timestamp.  A frame of a single
\* timestamp gets none.
EmbargoRows(time, d) ==
  LET U == Stamps(time)
      n == Cardinality(U)
      skip == Ceil(d, Median(Deltas(U)))
  IN  IF n < 2 THEN 0 ELSE Ceil(skip * Height(time), n)

\* embargo_time wins over gap; an integer counts rows, a duration time.
EffectiveGap(cv, time) ==
  CASE cv.embargo = "none" -> cv.gap
    [] cv.embargo = "rows" -> cv.embargo_time
    [] cv.embargo = "time" -> EmbargoRows(time, cv.embargo_time)

\* sklearn's TimeSeriesSplit: the last n_splits blocks are tested in turn.
WalkForward(n, k, gap, max) ==
  LET size == n \div (k + 1)
      first(i) == n - (k - i) * size
      end(i) == first(i) - gap
      begin(i) == IF max # 0 /\ max < end(i) THEN end(i) - max ELSE 0
  IN  IF k + 1 > n \/ n - gap - k * size <= 0 THEN {}
      ELSE {{[train |-> begin(i) .. end(i) - 1,
              test |-> first(i) .. first(i) + size - 1] : i \in 0 .. k - 1}}

TimeSeriesFamilies(cv, time) ==
  WalkForward(Height(time), cv.n_splits, EffectiveGap(cv, time), cv.max_train_size)

-----------------------------------------------------------------------------
(* CombinatorialPurgedSplitter, PanelCombinatorialPurgedSplitter *)

\* skfolio's CombinatorialPurgedCV over n positions: any `tests` of `folds`
\* blocks are tested; the rest trains, but for `purge` positions on either side
\* of a tested one and `embargo` more after it.  A family has one fold per
\* combination; the arrays of test paths are joined.
Combinatorial(n, folds, tests, purge, embargo) ==
  {LET test == UNION {Block(n, folds, i) : i \in T}
   IN  [train |-> {p \in (0 .. n - 1) \ test :
                     \A t \in test : p < t - purge \/ p > t + purge + embargo},
        test |-> test] : T \in {S \in SUBSET (0 .. folds - 1) : Cardinality(S) = tests}}

\* int(n * embargo_pct), the fraction given in hundredths.
Percent(n, pct) == (n * pct) \div 100

CpcvFamilies(cv, time) ==
  LET n == Height(time)
      purge == IF cv.purged_size > 0 THEN cv.purged_size ELSE cv.target_horizon_bars
      embargo == IF cv.embargo_size > 0 THEN cv.embargo_size
                 ELSE Percent(n, cv.embargo_pct)
  IN  IF n < cv.n_folds THEN {}
      ELSE {Combinatorial(n, cv.n_folds, cv.n_test_folds, purge, embargo)}

\* Folds over the unique timestamps; a row goes where its timestamp goes.
PanelFamilies(cv, time) ==
  LET n == Cardinality(Stamps(time))
      folds == Combinatorial(n, cv.n_folds, cv.n_test_folds,
                             cv.target_horizon_bars, Percent(n, cv.embargo_pct))
      rows(I) == {r \in DOMAIN time : IndexOf(time, r) \in I}
  IN  IF n < cv.n_folds THEN {}
      ELSE {{[train |-> rows(f.train), test |-> rows(f.test)] : f \in folds}}

-----------------------------------------------------------------------------
TemporalKinds == {"time_series", "cpcv", "panel_cpcv"}

\* The k-fold strategies of sklearn ask for two folds at least.
Accepted(cv) == cv.kind \in {"cpcv", "panel_cpcv"} \/ cv.n_splits >= 2

\* make_splitter and .split(X, y, groups): the column is labels or groups.
Families(cv, time, column) ==
  IF ~Accepted(cv) THEN {}
  ELSE CASE cv.kind = "kfold" -> KFoldFamilies(cv, time)
         [] cv.kind = "stratified_kfold" -> StratifiedFamilies(cv, column)
         [] cv.kind = "group_kfold" -> GroupFamilies(cv, column)
         [] cv.kind = "time_series" -> TimeSeriesFamilies(cv, time)
         [] cv.kind = "cpcv" -> CpcvFamilies(cv, time)
         [] cv.kind = "panel_cpcv" -> PanelFamilies(cv, time)

\* get_n_splits
Binomial(n, k) == Cardinality({S \in SUBSET (1 .. n) : Cardinality(S) = k})
NSplits(cv) ==
  IF cv.kind \in {"cpcv", "panel_cpcv"} THEN Binomial(cv.n_folds, cv.n_test_folds)
  ELSE cv.n_splits

\* Only the walk-forward strategy may be paired with external memory.
ExtmemCompatible(cv) == cv.kind = "time_series"
=============================================================================
