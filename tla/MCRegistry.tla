------------------------------ MODULE MCRegistry ------------------------------
(* One problem and trials of one configuration: promoted on one day they    *)
(* get the same version id, on two days they do not.                        *)
EXTENDS Registry, TLC

CONSTANT cfg

MCCfgOf == [t \in Trials |-> cfg]

\* Processes are interchangeable, and so are trials of one configuration.
MCSymmetry == Permutations(Procs) \cup Permutations(Trials)
=============================================================================
