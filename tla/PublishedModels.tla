---------------------------- MODULE PublishedModels ----------------------------
(***************************************************************************)
(* What the model registry of one problem promises those who read it, with *)
(* no file, no process and no crash in sight.  A version that is published *)
(* is whole from then on and never changes, and the champion is a version  *)
(* that was published before.  Two things end a promise: a version id that *)
(* is taken a second time, and writers that did not take turns.            *)
(***************************************************************************)
EXTENDS Naturals

CONSTANTS Versions, Trials

VARIABLES
  bundle,     \* version -> the trial whose bundle it holds: {} or one
  champion,   \* version and trial readers are told of: {} or one
  reused,     \* the versions taken twice
  shared      \* writers of the champion have overlapped

published == <<bundle, champion, reused, shared>>

PublishedInit ==
  /\ bundle = [v \in Versions |-> {}] /\ champion = {}
  /\ reused = {} /\ shared = FALSE

Publish(v, t) ==
  /\ v \notin reused /\ bundle[v] = {}
  /\ bundle' = [bundle EXCEPT ![v] = {t}]
  /\ UNCHANGED <<champion, reused, shared>>

\* By a promotion or a rollback.
Install(v, t) ==
  /\ v \in reused \/ bundle[v] = {t}
  /\ champion' = {[ver |-> v, trial |-> t]}
  /\ UNCHANGED <<bundle, reused, shared>>

\* A job starts that ends a promise or two.
Lapse(V) ==
  /\ reused' = reused \cup V
  /\ bundle' = [v \in Versions |-> IF v \in V THEN {} ELSE bundle[v]]
  /\ shared' \in {shared, TRUE}
  /\ UNCHANGED champion

\* What two writers leave may not parse.
Garble ==
  /\ shared /\ champion' = {}
  /\ UNCHANGED <<bundle, reused, shared>>

PublishedNext ==
  \/ \E v \in Versions, t \in Trials : Publish(v, t) \/ Install(v, t)
  \/ \E V \in {{}} \cup {{v} : v \in Versions} : Lapse(V)
  \/ Garble

PublishedSpec == PublishedInit /\ [][PublishedNext]_published
=============================================================================
