---------------------------- MODULE HoldoutProofs ----------------------------
(***************************************************************************)
(* What TLAPS proves of Holdout, for every file size, every pair of split  *)
(* ratios, every shuffle and any number of trials, draws and processes.    *)
(*                                                                         *)
(* The lemmas are about the splits themselves: the slices of one order are *)
(* disjoint, and a temporal cut only moves forward as the file grows.  The *)
(* inductive invariant then says, of every row set that is kept anywhere,  *)
(* which split it is a slice of; that is all the properties need.          *)
(***************************************************************************)
EXTENDS Holdout, TLAPS

-----------------------------------------------------------------------------
(* Splits                                                                  *)

\* The cut is inside the file and moves forward as the file grows.
LEMMA CutMoves ==
  /\ \A n \in Sizes : n \in Nat /\ TrainN[n] \in Nat /\ Cut(n) \in Nat
                      /\ TrainN[n] <= Cut(n) /\ Cut(n) <= n /\ n <= MaxSize
  /\ \A m, n \in Sizes : m <= n => Cut(m) <= Cut(n)
<1>1. \A n \in Sizes : n \in Nat /\ n <= MaxSize
  BY SizesAssumption DEF Sizes
<1>2. \A n \in Sizes : TrainN[n] \in Nat /\ ValN[n] \in Nat
  BY RatioAssumption
<1>3. \A n \in Sizes : Cut(n) \in Nat /\ TrainN[n] <= Cut(n) /\ Cut(n) <= n
  BY <1>1, <1>2, RatioAssumption DEF Cut
<1>4. ASSUME NEW m \in Sizes, NEW n \in Sizes, m <= n PROVE Cut(m) <= Cut(n)
  BY <1>2, <1>4, RatioAssumption DEF Cut
<1> QED BY <1>1, <1>2, <1>3, <1>4

\* The order of a split lists rows of the file, none twice.
LEMMA OrderIsInjective ==
  ASSUME NEW c, NEW b \in Bags, NEW n \in Sizes
  PROVE  /\ \A i \in 1 .. n : Order(c, b, n)[i] \in 1 .. n
         /\ \A i, j \in 1 .. n : Order(c, b, n)[i] = Order(c, b, n)[j] => i = j
<1>1. CASE c.split_kind = "time_ordered"
  BY <1>1 DEF Order
<1>2. CASE c.split_kind # "time_ordered"
  BY <1>2, ShuffleAssumption DEF Order
<1> QED BY <1>1, <1>2

\* Slices are sets of rows.
LEMMA SliceIsRows ==
  ASSUME NEW c, NEW b \in Bags, NEW n \in Sizes,
         NEW from \in Nat, NEW to \in Nat, to <= n
  PROVE  Slice(c, b, n, from, to) \subseteq 1 .. n
<1>1. ASSUME NEW i \in from + 1 .. to PROVE i \in 1 .. n
  BY CutMoves
<1>2. \A i \in from + 1 .. to : Order(c, b, n)[i] \in 1 .. n
  BY <1>1, OrderIsInjective
<1> QED BY <1>2 DEF Slice

\* Two slices that do not overlap have no row in common.
LEMMA SlicesAreDisjoint ==
  ASSUME NEW c, NEW b \in Bags, NEW n \in Sizes,
         NEW f1 \in Nat, NEW t1 \in Nat, NEW f2 \in Nat, NEW t2 \in Nat,
         t1 <= f2, t2 <= n, t1 <= n
  PROVE  Slice(c, b, n, f1, t1) \cap Slice(c, b, n, f2, t2) = {}
<1>1. ASSUME NEW i \in f1 + 1 .. t1, NEW j \in f2 + 1 .. t2
      PROVE  Order(c, b, n)[i] # Order(c, b, n)[j]
  <2>1. i \in 1 .. n /\ j \in 1 .. n /\ i # j
    BY CutMoves
  <2> QED BY <2>1, OrderIsInjective
<1> QED BY <1>1 DEF Slice

\* The three folds are rows of the file, and the test fold is apart.
LEMMA FoldsOfASplit ==
  ASSUME NEW c, NEW b \in Bags, NEW n \in Sizes
  PROVE  /\ Train(c, b, n) \in SUBSET Rows /\ Val(c, b, n) \in SUBSET Rows
         /\ Test(c, b, n) \in SUBSET Rows
         /\ TrainVal(c, b, n) \cap Test(c, b, n) = {}
<1>1. /\ n \in Nat /\ TrainN[n] \in Nat /\ Cut(n) \in Nat
      /\ TrainN[n] <= Cut(n) /\ Cut(n) <= n /\ n <= MaxSize
  BY CutMoves
<1>2. 1 .. n \subseteq Rows
  BY <1>1, SizesAssumption DEF Rows
<1>3. Train(c, b, n) \subseteq 1 .. n
  BY <1>1, SliceIsRows DEF Train
<1>4. Val(c, b, n) \subseteq 1 .. n
  BY <1>1, SliceIsRows DEF Val
<1>5. Test(c, b, n) \subseteq 1 .. n
  BY <1>1, SliceIsRows DEF Test
<1>6. Train(c, b, n) \cap Test(c, b, n) = {}
  BY <1>1, SlicesAreDisjoint DEF Train, Test
<1>7. Val(c, b, n) \cap Test(c, b, n) = {}
  BY <1>1, SlicesAreDisjoint DEF Val, Test
<1> QED BY <1>2, <1>3, <1>4, <1>5, <1>6, <1>7 DEF TrainVal

Chronological(c) == c.split_kind = "time_ordered"

\* A temporal split does not depend on the bag: the rows up to the cut, and
\* the rows after it.
LEMMA TemporalFolds ==
  ASSUME NEW c, Chronological(c), NEW b, NEW n \in Sizes
  PROVE  TrainVal(c, b, n) = 1 .. Cut(n) /\ Test(c, b, n) = Cut(n) + 1 .. n
<1>1. /\ n \in Nat /\ TrainN[n] \in Nat /\ Cut(n) \in Nat
      /\ TrainN[n] <= Cut(n) /\ Cut(n) <= n
  BY CutMoves
<1>2. Order(c, b, n) = [i \in 1 .. n |-> i]
  BY DEF Order, Chronological
<1>3. ASSUME NEW from \in Nat, NEW to \in Nat, to <= n
      PROVE  Slice(c, b, n, from, to) = from + 1 .. to
  <2>1. \A i \in from + 1 .. to : i \in 1 .. n
    BY <1>1, <1>3
  <2>2. \A i \in from + 1 .. to : Order(c, b, n)[i] = i
    BY <1>2, <2>1
  <2> QED BY <2>2 DEF Slice
<1>4. Train(c, b, n) = 0 + 1 .. TrainN[n]
  BY <1>1, <1>3 DEF Train
<1>5. Val(c, b, n) = TrainN[n] + 1 .. Cut(n)
  BY <1>1, <1>3 DEF Val
<1>6. Test(c, b, n) = Cut(n) + 1 .. n
  BY <1>1, <1>3 DEF Test
<1>7. (0 + 1 .. TrainN[n]) \cup (TrainN[n] + 1 .. Cut(n)) = 1 .. Cut(n)
  BY <1>1
<1> QED BY <1>4, <1>5, <1>6, <1>7 DEF TrainVal

\* Rows up to an earlier cut are rows up to a later one.
LEMMA CutsNest ==
  ASSUME NEW m \in Sizes, NEW n \in Sizes, m <= n
  PROVE  1 .. Cut(m) \subseteq 1 .. Cut(n)
<1>1. Cut(m) \in Nat /\ Cut(n) \in Nat /\ Cut(m) <= Cut(n)
  BY CutMoves
<1> QED BY <1>1
-----------------------------------------------------------------------------
(* The inductive invariant                                                 *)

\* Every sweep of one study has this substrate, at a given file size.
SharedSubstrate(c, n) == TrainVal(c, <<0, 0>>, n)

\* Temporal splits, or seeds derived from tuning.entropy.
Repeatable(c) == c.pinned \/ Chronological(c)

\* What a tune process carved, now that the file has n rows.
SubstrateOK(c, s, n) ==
  /\ s.size <= n
  /\ Chronological(c) => s.rows \subseteq 1 .. Cut(n)
  /\ Repeatable(c) /\ s.rows # {} => s.rows = SharedSubstrate(c, s.size)

\* What a recorded trial saw.
RecordOK(c, r, n) ==
  /\ Chronological(c) => r.seen \subseteq 1 .. Cut(n)
  /\ r.by = "train" => r.seen = TrainVal(c, r.bag, r.size)
  /\ Repeatable(c) /\ r.by = "tune" => r.seen = SharedSubstrate(c, r.size)

\* What a bundle was fitted on: slices by the bag of its trial.
BundleOK(c, b, ts, nx, n) ==
  IF b.trial = NoTrial THEN b.train = {} /\ b.val = {}
  ELSE /\ b.trial < nx /\ b.size <= n
       /\ b.train = Train(c, ts[b.trial].bag, b.size)
       /\ b.val = Val(c, ts[b.trial].bag, b.size)

\* What a score was taken on: the slice after them, by the same bag.
ReceiptOK(c, r, ts, nx) ==
  /\ r.trial = r.bundle.trial
  /\ BundleOK(c, r.bundle, ts, nx, r.size)
  /\ IF r.trial = NoTrial THEN r.rows = {} ELSE r.rows = Test(c, ts[r.trial].bag, r.size)

SubstratesOK == \A p \in Procs : SubstrateOK(cfg, substrate[p], size)
RecordsOK == \A t \in Numbers : RecordOK(cfg, trials[t], size)

IInv ==
  /\ TypeOK /\ SubstratesOK /\ RecordsOK
  /\ BundleOK(cfg, bundle, trials, next, size)
  /\ ReceiptOK(cfg, receipt, trials, next)

LEMMA InitHolds == Init => IInv
<1> SUFFICES ASSUME Init PROVE IInv
  OBVIOUS
<1> USE DEF Init
<1>1. MinSize \in Sizes /\ size \in Sizes /\ size = MinSize /\ MinSize <= MinSize
  BY SizesAssumption DEF Sizes
<1>2. <<0, 0>> \in Bags
  BY CountsAssumption DEF Bags, Numbers
<1>3. NoRecord \in FoldRecord
  BY <1>1, <1>2 DEF NoRecord, FoldRecord
<1>4. NoBundle \in Bundle
  BY <1>1 DEF NoBundle, Bundle
<1>4a. NoReceipt \in Receipts
  BY <1>1, <1>4 DEF NoReceipt, Receipts
<1>4b. 0 \in 0 .. MaxDraws /\ 0 \in 0 .. MaxTrials
  BY CountsAssumption
<1>5. TypeOK
  BY <1>1, <1>3, <1>4, <1>4a, <1>4b DEF TypeOK
<1>6. SubstratesOK
  BY <1>1 DEF SubstratesOK, SubstrateOK
<1>7. RecordsOK
  BY <1>1 DEF RecordsOK, RecordOK, NoRecord
<1>8. BundleOK(cfg, bundle, trials, next, size)
  BY DEF BundleOK, NoBundle
<1>9. ReceiptOK(cfg, receipt, trials, next)
  BY DEF ReceiptOK, BundleOK, NoReceipt, NoBundle
<1> QED BY <1>5, <1>6, <1>7, <1>8, <1>9 DEF IInv

-----------------------------------------------------------------------------
(* What the actions leave true                                             *)

\* Facts kept about a smaller file hold of a larger one.
LEMMA FileMayGrow ==
  ASSUME NEW c, NEW m \in Sizes, NEW n \in Sizes, m <= n
  PROVE  /\ \A s \in [rows : SUBSET Rows, size : Sizes] :
              SubstrateOK(c, s, m) => SubstrateOK(c, s, n)
         /\ \A r : RecordOK(c, r, m) => RecordOK(c, r, n)
         /\ \A b \in Bundle : \A ts, nx : BundleOK(c, b, ts, nx, m) => BundleOK(c, b, ts, nx, n)
<1>1. 1 .. Cut(m) \subseteq 1 .. Cut(n)
  BY CutsNest
<1>2. \A k \in Sizes : k \in Nat
  BY CutMoves
<1>3. ASSUME NEW s \in [rows : SUBSET Rows, size : Sizes], SubstrateOK(c, s, m)
      PROVE  SubstrateOK(c, s, n)
  <2>1. s.size <= n
    BY <1>2, <1>3 DEF SubstrateOK
  <2> QED BY <1>1, <1>3, <2>1 DEF SubstrateOK
<1>4. ASSUME NEW r, RecordOK(c, r, m) PROVE RecordOK(c, r, n)
  BY <1>1, <1>4 DEF RecordOK
<1>5. ASSUME NEW b \in Bundle, NEW ts, NEW nx, BundleOK(c, b, ts, nx, m)
      PROVE  BundleOK(c, b, ts, nx, n)
  <2>1. b.size \in Sizes
    BY DEF Bundle
  <2> QED BY <1>2, <1>5, <2>1 DEF BundleOK
<1> QED BY <1>3, <1>4, <1>5

\* New trials leave what is known of a bundle and of a receipt.
LEMMA TrialsMayBeAdded ==
  ASSUME NEW c, NEW ts, NEW us, NEW nx \in Nat,
         \A t \in Numbers : t < nx => us[t] = ts[t]
  PROVE  /\ \A b \in Bundle : \A n : BundleOK(c, b, ts, nx, n) => BundleOK(c, b, us, nx + 1, n)
         /\ \A r \in Receipts : ReceiptOK(c, r, ts, nx) => ReceiptOK(c, r, us, nx + 1)
<1>1. ASSUME NEW b \in Bundle, NEW n, BundleOK(c, b, ts, nx, n)
      PROVE  BundleOK(c, b, us, nx + 1, n)
  <2>1. CASE b.trial = NoTrial
    BY <1>1, <2>1 DEF BundleOK
  <2>2. CASE b.trial # NoTrial
    <3>1. b.trial \in Numbers /\ b.trial < nx
      BY <1>1, <2>2 DEF BundleOK, Bundle
    <3>2. b.trial < nx + 1
      BY <3>1 DEF Numbers
    <3> QED BY <1>1, <2>2, <3>1, <3>2 DEF BundleOK
  <2> QED BY <2>1, <2>2
<1>2. ASSUME NEW r \in Receipts, ReceiptOK(c, r, ts, nx)
      PROVE  ReceiptOK(c, r, us, nx + 1)
  <2>1. r.bundle \in Bundle
    BY DEF Receipts
  <2>2. BundleOK(c, r.bundle, us, nx + 1, r.size)
    BY <1>1, <1>2, <2>1 DEF ReceiptOK
  <2>3. r.trial # NoTrial => r.trial \in Numbers /\ r.trial < nx
    BY <1>2, <2>1 DEF ReceiptOK, BundleOK, Bundle
  <2> QED BY <1>2, <2>2, <2>3 DEF ReceiptOK
<1> QED BY <1>1, <1>2

\* A bag made for a trial is a bag, and the draw for it is counted.
LEMMA MadeBags ==
  ASSUME TypeOK, Draw, NEW number \in Numbers
  PROVE  /\ MakeBag(number, draws + 1) \in Bags
         /\ draws' \in 0 .. MaxDraws
<1>1. MaxDraws \in Nat /\ draws \in 0 .. MaxDraws
  BY CountsAssumption DEF TypeOK
<1>2. CASE cfg.pinned
  <2>1. 0 \in 0 .. MaxDraws
    BY <1>1
  <2> QED BY <1>1, <1>2, <2>1 DEF Draw, MakeBag, Bags
<1>3. CASE ~cfg.pinned
  <2>1. draws + 1 \in 0 .. MaxDraws /\ draws' = draws + 1
    BY <1>1, <1>3 DEF Draw
  <2> QED BY <1>3, <2>1 DEF MakeBag, Bags
<1> QED BY <1>2, <1>3

LEMMA AppendKeeps ==
  ASSUME IInv, Append PROVE IInv'
<1> USE DEF Append, IInv
<1>1. size \in Sizes /\ size' \in Sizes /\ size <= size'
  BY SizesAssumption DEF TypeOK, Sizes
<1>2. TypeOK'
  BY <1>1 DEF TypeOK
<1>3. SubstratesOK'
  BY <1>1, FileMayGrow DEF SubstratesOK, TypeOK
<1>4. RecordsOK'
  BY <1>1, FileMayGrow DEF RecordsOK
<1>5. BundleOK(cfg, bundle, trials, next, size)'
  BY <1>1, FileMayGrow DEF TypeOK
<1> QED BY <1>2, <1>3, <1>4, <1>5

LEMMA BuildObjectiveKeeps ==
  ASSUME IInv, NEW p \in Procs, BuildObjective(p) PROVE IInv'
<1> DEFINE b == MakeBag(0, draws + 1)
           s == [rows |-> TrainVal(cfg, b, size), size |-> size]
<1> USE DEF BuildObjective, IInv
<1>1. size \in Sizes /\ size <= size
  BY CutMoves DEF TypeOK
<1>2. b \in Bags /\ draws' \in 0 .. MaxDraws
  BY MadeBags, CountsAssumption DEF Numbers
<1>3. substrate' = [substrate EXCEPT ![p] = s]
  OBVIOUS
<1>4. TrainVal(cfg, b, size) \in SUBSET Rows
  BY <1>1, <1>2, FoldsOfASplit DEF TrainVal
<1>5. SubstrateOK(cfg, s, size)
  <2>1. CASE Chronological(cfg)
    <3>1. TrainVal(cfg, b, size) = 1 .. Cut(size)
      BY <1>1, <2>1, TemporalFolds
    <3>2. SharedSubstrate(cfg, size) = 1 .. Cut(size)
      BY <1>1, <2>1, TemporalFolds DEF SharedSubstrate
    <3>3. s.rows = 1 .. Cut(size) /\ s.size = size
      BY <3>1
    <3> HIDE DEF s
    <3> QED BY <1>1, <3>2, <3>3 DEF SubstrateOK
  <2>2. CASE ~Chronological(cfg)
    <3>1. cfg.pinned => b = <<0, 0>>
      BY DEF MakeBag
    <3> QED BY <1>1, <2>2, <3>1 DEF SubstrateOK, SharedSubstrate, Repeatable
  <2> QED BY <2>1, <2>2
<1> HIDE DEF b
<1>6. s \in [rows : SUBSET Rows, size : Sizes]
  BY <1>1, <1>4
<1> HIDE DEF s
<1>7. TypeOK'
  BY <1>2, <1>3, <1>6 DEF TypeOK
<1>8. SubstratesOK'
  BY <1>3, <1>5 DEF SubstratesOK, TypeOK
<1> QED BY <1>7, <1>8 DEF RecordsOK

\* Both kinds of trial: what is recorded is right, and nothing else changes.
LEMMA RecordKeeps ==
  ASSUME IInv, NEW rows \in SUBSET Rows, NEW by \in {"tune", "train"}, NEW n \in Sizes,
         Record(rows, by, n), UNCHANGED <<cfg, size, substrate, bundle, receipt>>,
         RecordOK(cfg, [bag |-> MakeBag(next, draws + 1), seen |-> rows,
                        by |-> by, size |-> n], size)
  PROVE  IInv'
<1> DEFINE r == [bag |-> MakeBag(next, draws + 1), seen |-> rows, by |-> by, size |-> n]
<1> USE DEF Record, IInv
<1>1. next \in Numbers /\ next \in Nat /\ next' = next + 1 /\ next' \in 0 .. MaxTrials
  BY CountsAssumption DEF TypeOK, Numbers
<1>2. MakeBag(next, draws + 1) \in Bags /\ draws' \in 0 .. MaxDraws
  BY <1>1, MadeBags
<1>3. r \in FoldRecord
  BY <1>2 DEF FoldRecord
<1>4. trials' = [trials EXCEPT ![next] = r] /\ RecordOK(cfg, r, size)
  OBVIOUS
<1> HIDE DEF r
<1>5. TypeOK'
  BY <1>1, <1>2, <1>3, <1>4 DEF TypeOK
<1>6. RecordsOK'
  BY <1>4 DEF RecordsOK, TypeOK
<1>7. \A t \in Numbers : t < next => trials'[t] = trials[t]
  BY <1>1, <1>4 DEF TypeOK
<1>11. /\ \A b \in Bundle : \A k : BundleOK(cfg, b, trials, next, k)
                              => BundleOK(cfg, b, trials', next + 1, k)
       /\ \A q \in Receipts : ReceiptOK(cfg, q, trials, next)
                              => ReceiptOK(cfg, q, trials', next + 1)
  BY <1>1, <1>7, TrialsMayBeAdded
<1>12. bundle \in Bundle /\ receipt \in Receipts
  BY DEF TypeOK
<1>8. BundleOK(cfg, bundle, trials, next, size)'
  <2>1. BundleOK(cfg, bundle, trials', next + 1, size)
    BY <1>11, <1>12
  <2> QED BY <1>1, <2>1
<1>9. ReceiptOK(cfg, receipt, trials, next)'
  <2>1. ReceiptOK(cfg, receipt, trials', next + 1)
    BY <1>11, <1>12
  <2> QED BY <1>1, <2>1
<1>10. SubstratesOK'
  BY DEF SubstratesOK
<1> QED BY <1>5, <1>6, <1>8, <1>9, <1>10

LEMMA SweepTrialKeeps ==
  ASSUME IInv, NEW p \in Procs, SweepTrial(p) PROVE IInv'
<1> DEFINE s == substrate[p]
           r == [bag |-> MakeBag(next, draws + 1), seen |-> s.rows, by |-> "tune",
                 size |-> s.size]
<1> USE DEF SweepTrial, IInv
<1>1. s \in [rows : SUBSET Rows, size : Sizes] /\ SubstrateOK(cfg, s, size) /\ s.rows # {}
  BY DEF TypeOK, SubstratesOK
<1> HIDE DEF s
<1>2. RecordOK(cfg, r, size)
  BY <1>1 DEF RecordOK, SubstrateOK
<1>3. Record(s.rows, "tune", s.size)
  BY DEF s
<1> QED BY <1>1, <1>2, <1>3, RecordKeeps

LEMMA BaselineKeeps ==
  ASSUME IInv, Baseline PROVE IInv'
<1> DEFINE b == MakeBag(next, draws + 1)
           r == [bag |-> b, seen |-> TrainVal(cfg, b, size), by |-> "train", size |-> size]
<1> USE DEF Baseline, IInv
<1>1. size \in Sizes /\ next \in Numbers
  BY CountsAssumption DEF TypeOK, Record, Numbers
<1>2. b \in Bags
  BY <1>1, MadeBags DEF Record
<1>3. Record(TrainVal(cfg, b, size), "train", size)
  OBVIOUS
<1>4. [bag |-> MakeBag(next, draws + 1), seen |-> TrainVal(cfg, b, size), by |-> "train",
       size |-> size] = r
  OBVIOUS
<1> HIDE DEF b
<1>5. TrainVal(cfg, b, size) \in SUBSET Rows
  BY <1>1, <1>2, FoldsOfASplit DEF TrainVal
<1>6. RecordOK(cfg, r, size)
  BY <1>1, TemporalFolds DEF RecordOK
<1> HIDE DEF r
<1> QED BY <1>1, <1>3, <1>4, <1>5, <1>6, RecordKeeps

LEMMA ExitTuneKeeps ==
  ASSUME IInv, NEW p \in Procs, ExitTune(p) PROVE IInv'
<1> USE DEF ExitTune, IInv
<1>1. substrate' = [substrate EXCEPT ![p] = [@ EXCEPT !.rows = {}]]
  OBVIOUS
<1>2. TypeOK'
  BY <1>1 DEF TypeOK
<1>3. SubstratesOK'
  BY <1>1 DEF SubstratesOK, SubstrateOK, TypeOK
<1> QED BY <1>2, <1>3 DEF RecordsOK

LEMMA PromoteKeeps ==
  ASSUME IInv, Promote PROVE IInv'
<1> USE DEF Promote, SeedBagOf, IInv
<1>1. PICK t \in Numbers :
        /\ t < next
        /\ bundle' = [trial |-> t, train |-> Train(cfg, trials[t].bag, size),
                      val |-> Val(cfg, trials[t].bag, size), size |-> size]
  OBVIOUS
<1>2. size \in Sizes /\ size <= size /\ trials[t].bag \in Bags /\ t # NoTrial
  BY CutMoves, NoTrialAssumption DEF TypeOK, FoldRecord
<1>3. bundle' \in Bundle
  BY <1>1, <1>2, FoldsOfASplit DEF Bundle
<1>4. TypeOK'
  BY <1>3 DEF TypeOK
<1>5. BundleOK(cfg, bundle, trials, next, size)'
  BY <1>1, <1>2 DEF BundleOK
<1> QED BY <1>4, <1>5 DEF SubstratesOK, RecordsOK

LEMMA ScoreKeeps ==
  ASSUME IInv, Score PROVE IInv'
<1> USE DEF Score, SeedBagOf, IInv
<1>1. size \in Sizes /\ bundle \in Bundle /\ bundle.trial \in Numbers
  BY DEF TypeOK, Bundle
<1>2. trials[bundle.trial].bag \in Bags
  BY <1>1 DEF TypeOK, FoldRecord
<1>3. Test(cfg, trials[bundle.trial].bag, size) \in SUBSET Rows
  BY <1>1, <1>2, FoldsOfASplit
<1>4. receipt' \in Receipts
  BY <1>1, <1>3 DEF Receipts
<1>5. TypeOK'
  BY <1>4 DEF TypeOK
<1>6. ReceiptOK(cfg, receipt, trials, next)'
  BY DEF ReceiptOK
<1> QED BY <1>5, <1>6 DEF SubstratesOK, RecordsOK

LEMMA StepKeeps == IInv /\ [Next]_vars => IInv'
<1> SUFFICES ASSUME IInv, [Next]_vars PROVE IInv'
  OBVIOUS
<1>1. CASE Append BY <1>1, AppendKeeps
<1>2. CASE Baseline BY <1>2, BaselineKeeps
<1>3. CASE Promote BY <1>3, PromoteKeeps
<1>4. CASE Score BY <1>4, ScoreKeeps
<1>5. ASSUME NEW p \in Procs, BuildObjective(p) PROVE IInv'
  BY <1>5, BuildObjectiveKeeps
<1>6. ASSUME NEW p \in Procs, SweepTrial(p) PROVE IInv'
  BY <1>6, SweepTrialKeeps
<1>7. ASSUME NEW p \in Procs, ExitTune(p) PROVE IInv'
  BY <1>7, ExitTuneKeeps
<1>8. CASE UNCHANGED vars
  BY <1>8 DEF vars, IInv, TypeOK, SubstratesOK, RecordsOK
<1> QED BY <1>1, <1>2, <1>3, <1>4, <1>5, <1>6, <1>7, <1>8 DEF Next

\* The invariant, for every size, ratio and number of trials.
THEOREM HoldoutInvariant == Spec => []IInv
<1>1. Init => IInv BY InitHolds
<1>2. IInv /\ [Next]_vars => IInv' BY StepKeeps
<1> QED BY <1>1, <1>2, PTL DEF Spec

-----------------------------------------------------------------------------
(* The properties                                                          *)

\* Every variable keeps its type.
THEOREM HoldoutTyped == Spec => []TypeOK
<1>1. IInv => TypeOK BY DEF IInv
<1> QED BY <1>1, HoldoutInvariant, PTL

\* What the invariant says of a receipt there is a score in.
LEMMA ScoredBundle ==
  ASSUME IInv, receipt.trial # NoTrial
  PROVE  LET b == trials[receipt.trial].bag IN
         /\ b \in Bags /\ receipt.size \in Sizes /\ receipt.bundle.size \in Sizes
         /\ receipt.bundle.size <= receipt.size
         /\ receipt.rows = Test(cfg, b, receipt.size)
         /\ receipt.bundle.train \cup receipt.bundle.val = TrainVal(cfg, b, receipt.bundle.size)
<1> DEFINE b == trials[receipt.trial].bag
<1>1. receipt.trial \in Numbers /\ receipt.bundle \in Bundle /\ receipt.size \in Sizes
  BY DEF IInv, TypeOK, Receipts
<1>2. b \in Bags /\ receipt.bundle.size \in Sizes
  BY <1>1 DEF IInv, TypeOK, FoldRecord, Bundle
<1>3. /\ receipt.trial = receipt.bundle.trial
      /\ BundleOK(cfg, receipt.bundle, trials, next, receipt.size)
      /\ receipt.rows = Test(cfg, b, receipt.size)
  BY DEF IInv, ReceiptOK
<1>4. /\ receipt.bundle.size <= receipt.size
      /\ receipt.bundle.train = Train(cfg, b, receipt.bundle.size)
      /\ receipt.bundle.val = Val(cfg, b, receipt.bundle.size)
  BY <1>3 DEF BundleOK
<1> QED BY <1>1, <1>2, <1>3, <1>4 DEF TrainVal

\* A bundle is not scored on the rows it was fitted on, if the file is the
\* one it was fitted on: the folds are slices of one order.
THEOREM BundlesAreScoredApart == Spec => []BundleIsNotScoredOnItsRows
<1>1. IInv => BundleIsNotScoredOnItsRows
  <2> SUFFICES ASSUME IInv, receipt.size = receipt.bundle.size
               PROVE  receipt.rows \cap (receipt.bundle.train \cup receipt.bundle.val) = {}
    BY DEF BundleIsNotScoredOnItsRows
  <2>1. CASE receipt.trial = NoTrial
    BY <2>1 DEF IInv, ReceiptOK
  <2>2. CASE receipt.trial # NoTrial
    <3> DEFINE b == trials[receipt.trial].bag
               n == receipt.size
    <3>1. /\ b \in Bags /\ n \in Sizes
          /\ receipt.rows = Test(cfg, b, n)
          /\ receipt.bundle.train \cup receipt.bundle.val = TrainVal(cfg, b, n)
      BY <2>2, ScoredBundle
    <3> HIDE DEF b, n
    <3>2. TrainVal(cfg, b, n) \cap Test(cfg, b, n) = {}
      BY <3>1, FoldsOfASplit
    <3> QED BY <3>1, <3>2
  <2> QED BY <2>1, <2>2
<1> QED BY <1>1, HoldoutInvariant, PTL

\* With temporal splits the rows scored are later than all that was fitted,
\* even if the file grew in between: the cut only moves forward.
THEOREM ScoresAreLater == Spec => []TemporalScoreIsLater
<1>1. IInv => TemporalScoreIsLater
  <2> SUFFICES ASSUME IInv, Temporal, NEW r \in receipt.rows,
                      NEW s \in receipt.bundle.train \cup receipt.bundle.val
               PROVE  s < r
    BY DEF TemporalScoreIsLater
  <2>1. receipt.trial # NoTrial
    BY DEF IInv, ReceiptOK
  <2> DEFINE m == receipt.bundle.size
             n == receipt.size
             b == trials[receipt.trial].bag
  <2>2. m \in Sizes /\ n \in Sizes /\ m <= n /\ b \in Bags
    BY <2>1, ScoredBundle
  <2>3. r \in Test(cfg, b, n) /\ s \in TrainVal(cfg, b, m)
    BY <2>1, ScoredBundle
  <2> HIDE DEF m, n, b
  <2>4. Chronological(cfg)
    BY DEF Temporal, Chronological
  <2>5. r \in Cut(n) + 1 .. n /\ s \in 1 .. Cut(m)
    BY <2>2, <2>3, <2>4, TemporalFolds
  <2>6. Cut(m) \in Nat /\ Cut(n) \in Nat /\ Cut(m) <= Cut(n) /\ n \in Nat
    BY <2>2, CutMoves
  <2> QED BY <2>5, <2>6
<1> QED BY <1>1, HoldoutInvariant, PTL

\* The bundle of a baseline is fitted on the rows the baseline was.
THEOREM BundlesMatchBaselines == Spec => []BundleMatchesBaseline
<1>1. IInv => BundleMatchesBaseline
  <2> SUFFICES ASSUME IInv, bundle.trial # NoTrial,
                      trials[bundle.trial].by = "train",
                      trials[bundle.trial].size = bundle.size
               PROVE  bundle.train \cup bundle.val = trials[bundle.trial].seen
    BY DEF BundleMatchesBaseline
  <2> DEFINE t == bundle.trial
  <2>1. t \in Numbers
    BY DEF IInv, TypeOK, Bundle
  <2>2. RecordOK(cfg, trials[t], size) /\ BundleOK(cfg, bundle, trials, next, size)
    BY <2>1 DEF IInv, RecordsOK
  <2>3. trials[t].seen = TrainVal(cfg, trials[t].bag, trials[t].size)
    BY <2>2 DEF RecordOK
  <2>4. /\ bundle.train = Train(cfg, trials[t].bag, bundle.size)
        /\ bundle.val = Val(cfg, trials[t].bag, bundle.size)
    BY <2>2 DEF BundleOK
  <2> QED BY <2>3, <2>4 DEF TrainVal
<1> QED BY <1>1, HoldoutInvariant, PTL

\* The trials of a study share one substrate, if its split is repeatable.
THEOREM SubstrateIsShared == Spec => []TrialsShareSubstrate
<1>1. IInv => TrialsShareSubstrate
  <2> SUFFICES ASSUME IInv, cfg.pinned \/ Temporal, NEW t \in Numbers, NEW u \in Numbers,
                      trials[t].by = "tune", trials[u].by = "tune",
                      trials[t].size = trials[u].size
               PROVE  trials[t].seen = trials[u].seen
    BY DEF TrialsShareSubstrate
  <2>1. Repeatable(cfg)
    BY DEF Repeatable, Temporal, Chronological
  <2>2. RecordOK(cfg, trials[t], size) /\ RecordOK(cfg, trials[u], size)
    BY DEF IInv, RecordsOK
  <2> QED BY <2>1, <2>2 DEF RecordOK
<1> QED BY <1>1, HoldoutInvariant, PTL

UnseenStep == [Temporal /\ receipt' # receipt => receipt'.rows \cap SeenByAll = {}]_vars

\* With temporal splits no scored row was seen by any trial before.
THEOREM TemporalHoldoutsAreUnseen == Spec => TemporalHoldoutIsUnseen
<1>1. IInv /\ [Next]_vars =>
        UnseenStep
  <2> SUFFICES ASSUME IInv, Next, Temporal, receipt' # receipt
               PROVE  receipt'.rows \cap SeenByAll = {}
    BY DEF vars, UnseenStep
  <2>1. Score
    BY DEF Next, Append, Baseline, Promote, BuildObjective, SweepTrial, ExitTune
  <2> DEFINE b == trials[bundle.trial].bag
  <2>2. receipt'.rows = Test(cfg, b, size)
    BY <2>1 DEF Score, SeedBagOf
  <2>3. size \in Sizes /\ Chronological(cfg)
    BY DEF IInv, TypeOK, Temporal, Chronological
  <2> HIDE DEF b
  <2>4. receipt'.rows = Cut(size) + 1 .. size
    BY <2>2, <2>3, TemporalFolds
  <2>5. ASSUME NEW t \in Numbers PROVE trials[t].seen \subseteq 1 .. Cut(size)
    BY <2>3 DEF IInv, RecordsOK, RecordOK
  <2>6. (Cut(size) + 1 .. size) \cap (1 .. Cut(size)) = {}
    BY <2>3, CutMoves
  <2> QED BY <2>4, <2>5, <2>6 DEF SeenByAll
<1> QED BY <1>1, HoldoutInvariant, PTL DEF Spec, TemporalHoldoutIsUnseen, UnseenStep
=============================================================================
