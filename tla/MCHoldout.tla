------------------------------ MODULE MCHoldout ------------------------------
(* Files of a few rows; a shuffle that puts other rows last for every seed. *)
EXTENDS Holdout, TLC

MCShuffle ==
  [bn \in Bags \X Sizes |->
     LET seed == 2 * bn[1][1] + bn[1][2] IN
     [i \in 1 .. bn[2] |-> 1 + ((i + seed) % bn[2])]]

\* Ratios 1/2, 1/4, 1/4.
MCTrainN == [n \in Sizes |-> n \div 2]
MCValN == [n \in Sizes |-> n \div 4]

AllConfigs == Config
PinnedRandom == {[split_kind |-> "random", pinned |-> TRUE]}

MCSymmetry == Permutations(Procs)
=============================================================================
