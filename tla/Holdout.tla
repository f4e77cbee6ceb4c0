------------------------------- MODULE Holdout -------------------------------
(***************************************************************************)
(* Which rows of the data a trial, a promoted bundle and a holdout score   *)
(* get to see.  No split is stored: every process splits the source file   *)
(* again, from the seed it has at hand.                                    *)
(*   - a tune process carves the substrate of all its trials once, with    *)
(*     the bag of trial number 0 (tuning/objective.py _carve_substrate);   *)
(*   - `rux-ml train` splits with the bag of its own trial;                *)
(*   - `registry promote` and `registry score` split with the bag rebuilt  *)
(*     from the entropy_hex the trial recorded.                            *)
(* The source file may have grown in between: rows arrive in the order of  *)
(* their timestamps.  Rows are numbered in that order, ties broken as the  *)
(* sort breaks them.                                                       *)
(***************************************************************************)
EXTENDS Naturals

CONSTANTS
  MinSize, MaxSize,    \* bounds: rows of the source file
  TrainN, ValN,        \* int(n * ratio) by height n; test has the rest
  Configs,             \* the configurations checked
  Shuffle,             \* DataFrame.sample(shuffle=True, seed): row order by bag and height
  MaxTrials,           \* bound: trials of the study
  MaxDraws,            \* bound: seeds drawn from os.urandom
  Procs,               \* tune processes
  NoTrial

Sizes == MinSize .. MaxSize
Rows == 1 .. MaxSize
Numbers == 0 .. MaxTrials - 1

\* A seed bag is known by the entropy and the trial number it is derived
\* from; entropy 0 is tuning.entropy, k > 0 the k-th draw of os.urandom.
Bags == (0 .. MaxDraws) \X Numbers

Config == [split_kind : {"random", "time_ordered"}, pinned : BOOLEAN]

ASSUME SizesAssumption == MinSize \in Nat /\ MaxSize \in Nat /\ 1 <= MinSize /\ MinSize <= MaxSize
\* Ratios are not negative and sum to 1: truncated products grow with n,
\* however the floating point product is rounded.
ASSUME RatioAssumption ==
  /\ TrainN \in [Sizes -> Nat] /\ ValN \in [Sizes -> Nat]
  /\ \A n \in Sizes : TrainN[n] + ValN[n] <= n
  /\ \A m, n \in Sizes : m <= n => TrainN[m] <= TrainN[n] /\ ValN[m] <= ValN[n]
ASSUME ConfigsAssumption == Configs \subseteq Config
ASSUME CountsAssumption == MaxTrials \in Nat /\ 1 <= MaxTrials /\ MaxDraws \in Nat
ASSUME ShuffleAssumption ==
  \A b \in Bags, n \in Sizes :
    /\ Shuffle[<<b, n>>] \in [1 .. n -> 1 .. n]
    /\ \A i, j \in 1 .. n : Shuffle[<<b, n>>][i] = Shuffle[<<b, n>>][j] => i = j
ASSUME NoTrialAssumption == NoTrial \notin Numbers

VARIABLES
  cfg,        \* the resolved configuration all commands are run with
  size,       \* rows in the source file
  draws,      \* seeds drawn from os.urandom so far
  substrate,  \* by tune process: the rows its trials see; {} before it is built
  trials,     \* by number: recorded bag, rows seen, command and size of the file
  next,       \* the next trial number
  bundle,     \* the champion: trial, rows it was fitted on, size of the file
  receipt     \* the last score: trial, rows scored, and the bundle scored

vars == <<cfg, size, draws, substrate, trials, next, bundle, receipt>>

-----------------------------------------------------------------------------
(* data/splits.py                                                          *)

\* Rows before the test fold.
Cut(n) == TrainN[n] + ValN[n]

\* Mutant of Order: temporal splits are shuffled like any other.
Order_AlwaysShuffled(c, b, n) == Shuffle[<<b, n>>]

\* make_splits: the rows in the order they are sliced.
Order(c, b, n) ==
  IF c.split_kind = "time_ordered" THEN [i \in 1 .. n |-> i] ELSE Shuffle[<<b, n>>]

Slice(c, b, n, from, to) == {Order(c, b, n)[i] : i \in from + 1 .. to}

Train(c, b, n) == Slice(c, b, n, 0, TrainN[n])
Val(c, b, n) == Slice(c, b, n, TrainN[n], Cut(n))

\* Mutant of Test: the slice starts one row early.
Test_OneEarly(c, b, n) == Slice(c, b, n, Cut(n) - 1, n)

Test(c, b, n) == Slice(c, b, n, Cut(n), n)

TrainVal(c, b, n) == Train(c, b, n) \cup Val(c, b, n)

-----------------------------------------------------------------------------
(* _internal/seeds.py                                                      *)

\* make_seed_bag(master_entropy, trial_number) at the k-th draw.
MakeBag(number, k) == IF cfg.pinned THEN <<0, number>> ELSE <<k, number>>

Draw == IF cfg.pinned THEN UNCHANGED draws ELSE draws < MaxDraws /\ draws' = draws + 1

-----------------------------------------------------------------------------
(* Actions                                                                 *)

NoRecord == [bag |-> <<0, 0>>, seen |-> {}, by |-> "none", size |-> MinSize]

NoBundle == [trial |-> NoTrial, train |-> {}, val |-> {}, size |-> MinSize]

NoReceipt == [trial |-> NoTrial, rows |-> {}, size |-> MinSize, bundle |-> NoBundle]

Init ==
  /\ cfg \in Configs
  /\ size = MinSize
  /\ draws = 0
  /\ substrate = [p \in Procs |-> [rows |-> {}, size |-> MinSize]]
  /\ trials = [t \in Numbers |-> NoRecord]
  /\ next = 0
  /\ bundle = NoBundle
  /\ receipt = NoReceipt

\* New rows, later than the ones there are.
Append ==
  /\ size < MaxSize /\ size' = size + 1
  /\ UNCHANGED <<cfg, draws, substrate, trials, next, bundle, receipt>>

\* Mutant of BuildObjective: the carve uses the number of the next trial.
BuildObjective_OwnNumber(p) ==
  /\ substrate[p].rows = {} /\ next < MaxTrials
  /\ Draw
  /\ substrate' = [substrate EXCEPT ![p] =
       [rows |-> TrainVal(cfg, MakeBag(next, draws + 1), size), size |-> size]]
  /\ UNCHANGED <<cfg, size, trials, next, bundle, receipt>>

\* A tune process loads the file and carves the substrate for its trials.
BuildObjective(p) ==
  /\ substrate[p].rows = {}
  /\ Draw
  /\ substrate' = [substrate EXCEPT ![p] =
       [rows |-> TrainVal(cfg, MakeBag(0, draws + 1), size), size |-> size]]
  /\ UNCHANGED <<cfg, size, trials, next, bundle, receipt>>

\* A trial is recorded with its own bag, whatever rows it saw.
Record(rows, by, n) ==
  /\ next < MaxTrials /\ next' = next + 1
  /\ Draw
  /\ trials' = [trials EXCEPT ![next] =
       [bag |-> MakeBag(next, draws + 1), seen |-> rows, by |-> by, size |-> n]]

SweepTrial(p) ==
  /\ substrate[p].rows # {}
  /\ Record(substrate[p].rows, "tune", substrate[p].size)
  /\ UNCHANGED <<cfg, size, substrate, bundle, receipt>>

ExitTune(p) ==
  /\ substrate[p].rows # {}
  /\ substrate' = [substrate EXCEPT ![p].rows = {}]
  /\ UNCHANGED <<cfg, size, draws, trials, next, bundle, receipt>>

Baseline ==
  /\ Record(TrainVal(cfg, MakeBag(next, draws + 1), size), "train", size)
  /\ UNCHANGED <<cfg, size, substrate, bundle, receipt>>

\* Mutant of Promote: the bag is derived anew instead of from entropy_hex.
Promote_NewBag ==
  /\ Draw
  /\ \E t \in Numbers :
       /\ t < next
       /\ bundle' = [trial |-> t, train |-> Train(cfg, MakeBag(t, draws + 1), size),
                     val |-> Val(cfg, MakeBag(t, draws + 1), size), size |-> size]
  /\ UNCHANGED <<cfg, size, substrate, trials, next, receipt>>

\* make_seed_bag_from_hex: the bag the trial recorded, with no draw.
SeedBagOf(t) == trials[t].bag

Promote ==
  /\ \E t \in Numbers :
       /\ t < next
       /\ bundle' = [trial |-> t, train |-> Train(cfg, SeedBagOf(t), size),
                     val |-> Val(cfg, SeedBagOf(t), size), size |-> size]
  /\ UNCHANGED <<cfg, size, draws, substrate, trials, next, receipt>>

\* An empty test fold raises.
Score ==
  /\ bundle.trial # NoTrial
  /\ Test(cfg, SeedBagOf(bundle.trial), size) # {}
  /\ receipt' = [trial |-> bundle.trial, rows |-> Test(cfg, SeedBagOf(bundle.trial), size),
                 size |-> size, bundle |-> bundle]
  /\ UNCHANGED <<cfg, size, draws, substrate, trials, next, bundle>>

Next ==
  \/ Append \/ Baseline \/ Promote \/ Score
  \/ \E p \in Procs : BuildObjective(p) \/ SweepTrial(p) \/ ExitTune(p)

Spec == Init /\ [][Next]_vars

-----------------------------------------------------------------------------
(* Properties                                                              *)

FoldRecord == [bag : Bags, seen : SUBSET Rows, by : {"none", "tune", "train"}, size : Sizes]
Bundle == [trial : Numbers \cup {NoTrial}, train : SUBSET Rows, val : SUBSET Rows, size : Sizes]
Receipts == [trial : Numbers \cup {NoTrial}, rows : SUBSET Rows, size : Sizes,
             bundle : Bundle]

TypeOK ==
  /\ cfg \in Configs
  /\ size \in Sizes
  /\ draws \in 0 .. MaxDraws
  /\ substrate \in [Procs -> [rows : SUBSET Rows, size : Sizes]]
  /\ trials \in [Numbers -> FoldRecord]
  /\ next \in 0 .. MaxTrials
  /\ bundle \in Bundle
  /\ receipt \in Receipts

Temporal == cfg.split_kind = "time_ordered"

SeenByAll == UNION {trials[t].seen : t \in Numbers}

(***************************************************************************)
(* With temporal splits no row that is scored was seen by any trial of the *)
(* study before, tuned or not, by whichever process, though the file grew  *)
(* at any point in between.                                                *)
(***************************************************************************)
TemporalHoldoutIsUnseen ==
  [][Temporal /\ receipt' # receipt => receipt'.rows \cap SeenByAll = {}]_vars

(***************************************************************************)
(* With temporal splits every scored row is later than every row the       *)
(* scored bundle was fitted on.                                            *)
(***************************************************************************)
TemporalScoreIsLater ==
  Temporal =>
    \A r \in receipt.rows, s \in receipt.bundle.train \cup receipt.bundle.val : s < r

(***************************************************************************)
(* A bundle is never scored on rows it was fitted on, or stopped on: score *)
(* and promote rebuild the same split, if the file did not change between. *)
(***************************************************************************)
BundleIsNotScoredOnItsRows ==
  receipt.size = receipt.bundle.size =>
    receipt.rows \cap (receipt.bundle.train \cup receipt.bundle.val) = {}

(****************************************************************************)
(* registry/promote.py:102-106: the bundle of a baseline is fitted on the   *)
(* rows the baseline was, so that the metrics it recorded are the bundle's. *)
(****************************************************************************)
BundleMatchesBaseline ==
  bundle.trial # NoTrial =>
    LET t == trials[bundle.trial] IN
    t.by = "train" /\ t.size = bundle.size => bundle.train \cup bundle.val = t.seen

(***************************************************************************)
(* tuning/objective.py:171-174: all trials of a study share one substrate, *)
(* whichever process runs them, if the file is the same and the entropy is *)
(* pinned or the split is temporal.                                        *)
(***************************************************************************)
TrialsShareSubstrate ==
  cfg.pinned \/ Temporal =>
    \A t, u \in Numbers :
      trials[t].by = "tune" /\ trials[u].by = "tune" /\ trials[t].size = trials[u].size
        => trials[t].seen = trials[u].seen

(***************************************************************************)
(* registry/promote.py:97-98, README.md:512: the test fold is truly held   *)
(* out from HPO.  No row a bundle is scored on was seen by its own trial.  *)
(***************************************************************************)
ScoredRowsAreHeldOut ==
  receipt.trial # NoTrial => receipt.rows \cap trials[receipt.trial].seen = {}

=============================================================================
