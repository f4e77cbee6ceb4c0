----------------------------- MODULE StudyLedger -----------------------------
(***************************************************************************)
(* What a study promises to those who read it later, with no process, no   *)
(* crash and no schedule in sight: trials are started in the order they    *)
(* were queued, evidence is only ever added to a trial that runs, and the  *)
(* state a trial ends in says what evidence it has.                        *)
(***************************************************************************)
EXTENDS Naturals

CONSTANT N   \* trial numbers are 1..N

VARIABLE ledger

Grades == {"none", "partial", "provenance", "diagnosed", "full"}

Entry == [state : {"absent", "WAITING", "RUNNING", "COMPLETE", "PRUNED", "FAIL"},
          grade : Grades]

NoEntry == [state |-> "absent", grade |-> "none"]

\* The grades a trial may move to from g while it runs.
Better(g) ==
  CASE g = "none"       -> {"none", "partial"}
    [] g = "partial"    -> {"partial", "provenance"}
    [] g = "provenance" -> {"diagnosed"}
    [] g = "diagnosed"  -> {"full"}
    [] OTHER            -> {}

\* The grades a trial may end with in state s.
Allowed(s) ==
  CASE s = "COMPLETE" -> {"full"}
    [] s = "PRUNED"   -> {"provenance"}
    [] OTHER          -> Grades

LedgerInit == ledger = [t \in 1 .. N |-> NoEntry]

InState(s) == {t \in 1 .. N : ledger[t].state = s}

First(t, S) == t \in S /\ \A u \in S : t <= u

Enqueue(t) ==
  /\ First(t, InState("absent"))
  /\ ledger' = [ledger EXCEPT ![t].state = "WAITING"]

Begin(t) ==
  /\ \/ First(t, InState("WAITING"))
     \/ InState("WAITING") = {} /\ First(t, InState("absent"))
  /\ ledger' = [ledger EXCEPT ![t].state = "RUNNING"]

Gather(t) ==
  /\ t \in InState("RUNNING")
  /\ \E g \in Better(ledger[t].grade) : ledger' = [ledger EXCEPT ![t].grade = g]

Close(t) ==
  /\ t \in InState("RUNNING")
  /\ \E s \in {"COMPLETE", "PRUNED", "FAIL"} :
       /\ ledger[t].grade \in Allowed(s)
       /\ ledger' = [ledger EXCEPT ![t].state = s]

LedgerNext == \E t \in 1 .. N : Enqueue(t) \/ Begin(t) \/ Gather(t) \/ Close(t)

LedgerSpec == LedgerInit /\ [][LedgerNext]_ledger
=============================================================================
