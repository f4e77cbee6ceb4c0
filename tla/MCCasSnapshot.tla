---------------------------- MODULE MCCasSnapshot ----------------------------
(* Two partitions that share a base name, three layouts of two sets of rows. *)
EXTENDS CasSnapshot, TLC

CONSTANTS a, b, c, r1, r2

MCSources == {1, 2}
MCNameOf == [s \in MCSources |-> "part.parquet"]
MCRowsOf == [x \in {a, b, c} |-> IF x = c THEN "later" ELSE "rows"]
MCInodes == 1..6
Symmetric == Permutations({r1, r2})
=============================================================================
