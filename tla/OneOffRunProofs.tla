--------------------------- MODULE OneOffRunProofs ---------------------------
(***************************************************************************)
(* Theorems about OneOffRun, for any number of trials, commands,           *)
(* exceptions and kills.                                                   *)
(*                                                                         *)
(* What a settled trial shows depends on how far the body of its `with`    *)
(* block came.  IInv says for each program point what the row of the trial *)
(* holds, and that two commands in one study never hold the same row: rows *)
(* are then written by their own command only, and only while they run.    *)
(***************************************************************************)
EXTENDS OneOffRun, TLAPS

Pcs == {"idle", "open", "asked", "body", "attrs", "judge", "upload", "tell",
        "told", "handler", "exited", "escaped", "killed"}

Run == [pc : Pcs, verb : {"none", "train", "solve"}, trial : 0 .. MaxTrials,
        told : BOOLEAN, tripped : BOOLEAN]

TypeOK ==
  /\ trials \in [Ids -> Trial]
  /\ run \in [Procs -> Run]
  /\ raises \in Nat /\ kills \in Nat

\* The diagnostic files of a finished train; a solve has none.
Files(verb) == IF verb = "train" THEN 2 ELSE 0

\* What the row of a command's trial holds by the command's program point.
PhaseOK(r, row) ==
  /\ row.state \in {"RUNNING"} \cup Finished
  /\ r.pc \in {"asked", "body", "attrs", "judge", "upload", "tell"} =>
       row.state = "RUNNING"
  /\ r.pc \in {"asked", "body"} =>
       row.attrs = "none" /\ row.arts = 0 /\ ~r.tripped
  /\ r.pc = "attrs" => row.attrs # "full" /\ row.arts = 0
  /\ r.pc = "judge" => row.attrs = "full" /\ row.arts = 0 /\ r.verb = "train"
  /\ r.pc = "upload" => /\ row.attrs = "full" /\ row.arts < 2
                        /\ r.verb = "train" /\ ~r.tripped
  /\ r.pc = "tell" => /\ row.attrs = "full" /\ row.arts = Files(r.verb)
                      /\ ~r.tripped
  /\ r.pc = "told" => row.state \in Finished
  /\ r.told => row.state \in Finished
  /\ row.state = "COMPLETE" => /\ row.attrs = "full" /\ row.arts = Files(r.verb)
                               /\ ~r.tripped

\* A command has a trial once it has asked, and the trial is in its phase.
RunOK(r) ==
  /\ r.pc \in {"idle", "open"} => r.trial = 0
  /\ r.pc \in InBody \cup {"asked", "handler", "exited"} => r.trial # 0
  /\ r.pc \in InBody \cup {"open", "asked"} => r.verb # "none"
  /\ r.tripped => r.verb = "train" /\ r.trial # 0
  /\ r.told => r.trial # 0
  /\ r.trial # 0 => PhaseOK(r, trials[r.trial])

RunsOK == \A p \in Procs : RunOK(run[p])

\* A trial nobody asked for holds nothing.
RowsOK == \A t \in Ids : trials[t].state \in {"absent", "WAITING"} =>
                           trials[t].attrs = "none" /\ trials[t].arts = 0

\* Two commands hold two trials.
ApartOK == \A p, q \in Procs : run[p].trial # 0 /\ run[p].trial = run[q].trial => p = q

IInv == TypeOK /\ RunsOK /\ RowsOK /\ ApartOK

USE MaxTrialsAssumption, FoldsAssumption DEF Ids

-----------------------------------------------------------------------------
(* What a step has to keep                                                 *)

\* A command that moves on with its trial, and writes to no other row.
LEMMA HolderStep ==
  ASSUME IInv, NEW p \in Procs, NEW r \in Run, NEW row \in Trial,
         run[p].trial # 0, r.trial = run[p].trial,
         run' = [run EXCEPT ![p] = r],
         trials' = [trials EXCEPT ![run[p].trial] = row],
         raises' \in Nat, kills' \in Nat,
         r.pc \notin {"idle", "open"},
         r.pc = "asked" => r.verb # "none",
         r.pc \in InBody => r.verb # "none",
         r.tripped => r.verb = "train",
         PhaseOK(r, row)
  PROVE  IInv'
<1> DEFINE t == run[p].trial
<1>1. t \in Ids /\ trials \in [Ids -> Trial] /\ run \in [Procs -> Run]
  BY DEF IInv, TypeOK, Run
<1>2. /\ trials' \in [Ids -> Trial] /\ trials'[t] = row
      /\ \A u \in Ids : u # t => trials'[u] = trials[u]
  BY <1>1
<1>3. /\ run' \in [Procs -> Run] /\ run'[p] = r
      /\ \A q \in Procs : q # p => run'[q] = run[q]
  BY <1>1
<1>4. TypeOK'
  BY <1>2, <1>3 DEF TypeOK
<1>5. RunsOK'
  <2> SUFFICES ASSUME NEW q \in Procs PROVE RunOK(run[q])'
    BY DEF RunsOK
  <2>1. CASE q = p
    BY <2>1, <1>2, <1>3 DEF RunOK, InBody
  <2>2. CASE q # p
    <3>1. run[q].trial # t
      BY <2>2 DEF IInv, ApartOK
    <3>2. run[q].trial # 0 => run[q].trial \in Ids
      BY <1>1 DEF Run
    <3>3. RunOK(run[q])
      BY DEF IInv, RunsOK
    <3>4. run'[q] = run[q] /\ (run[q].trial # 0 => trials'[run[q].trial] = trials[run[q].trial])
      BY <2>2, <3>1, <3>2, <1>2, <1>3
    <3> QED BY <3>3, <3>4 DEF RunOK
  <2> QED BY <2>1, <2>2
<1>6. RowsOK'
  BY <1>2 DEF IInv, RowsOK, PhaseOK, Finished
<1>7. ApartOK'
  BY <1>3 DEF IInv, ApartOK
<1> QED BY <1>4, <1>5, <1>6, <1>7 DEF IInv

\* A command that has no trial, before and after.
LEMMA FreeStep ==
  ASSUME IInv, NEW p \in Procs, NEW r \in Run,
         r.trial = 0, r.pc \in {"idle", "open", "escaped", "killed"},
         r.pc = "open" => r.verb # "none", ~r.tripped, ~r.told,
         run' = [run EXCEPT ![p] = r], UNCHANGED trials,
         raises' \in Nat, kills' \in Nat
  PROVE  IInv'
<1>1. run \in [Procs -> Run]
  BY DEF IInv, TypeOK
<1>2. /\ run' \in [Procs -> Run] /\ run'[p] = r
      /\ \A q \in Procs : q # p => run'[q] = run[q]
  BY <1>1
<1>3. TypeOK'
  BY <1>2 DEF IInv, TypeOK
<1>4. RunsOK'
  <2> SUFFICES ASSUME NEW q \in Procs PROVE RunOK(run[q])'
    BY DEF RunsOK
  <2>1. CASE q = p
    BY <2>1, <1>2 DEF RunOK, InBody
  <2>2. CASE q # p
    BY <2>2, <1>2 DEF IInv, RunsOK, RunOK
  <2> QED BY <2>1, <2>2
<1>5. RowsOK' /\ ApartOK'
  BY <1>2 DEF IInv, RowsOK, ApartOK
<1> QED BY <1>3, <1>4, <1>5 DEF IInv

\* What a command that holds a trial starts from.
LEMMA HolderFacts ==
  ASSUME IInv, NEW p \in Procs,
         run[p].pc \in InBody \cup {"asked", "handler"}
  PROVE  /\ run[p] \in Run /\ run[p].trial \in Ids /\ run[p].trial # 0
         /\ Row(p) \in Trial /\ PhaseOK(run[p], Row(p))
         /\ run[p].pc # "handler" => run[p].verb # "none"
         /\ run[p].tripped => run[p].verb = "train"
         /\ trials = [trials EXCEPT ![run[p].trial] = Row(p)]
         /\ raises \in Nat /\ kills \in Nat
<1>1. run[p] \in Run /\ trials \in [Ids -> Trial] /\ RunOK(run[p])
  BY DEF IInv, TypeOK, RunsOK
<1>2. run[p].trial # 0 /\ PhaseOK(run[p], Row(p))
  BY <1>1 DEF RunOK, Row
<1>3. run[p].trial \in Ids
  BY <1>1, <1>2 DEF Run
<1>4. run[p].pc # "handler" => run[p].verb # "none"
  BY <1>1 DEF RunOK
<1>5. run[p].tripped => run[p].verb = "train"
  BY <1>1 DEF RunOK
<1> QED BY <1>1, <1>2, <1>3, <1>4, <1>5 DEF Row, IInv, TypeOK

-----------------------------------------------------------------------------
(* One lemma for each action                                               *)

LEMMA BeginStep == ASSUME IInv, NEW p \in Procs, Begin(p) PROVE IInv'
<1>1. PICK verb \in {"train", "solve"} :
        run' = [run EXCEPT ![p].pc = "open", ![p].verb = verb]
  BY DEF Begin
<1> DEFINE r == [run[p] EXCEPT !.pc = "open", !.verb = verb]
<1>2. run[p] \in Run /\ RunOK(run[p]) /\ run[p].pc = "idle"
  BY DEF IInv, TypeOK, RunsOK, Begin, At
<1>3. /\ r \in Run /\ r.trial = 0 /\ r.pc = "open" /\ r.verb # "none"
      /\ ~r.tripped /\ ~r.told
  BY <1>2 DEF Run, RunOK, Pcs
<1>4. run' = [run EXCEPT ![p] = r]
  BY <1>1
<1> QED BY <1>3, <1>4, FreeStep DEF Begin, IInv, TypeOK

\* The trial asked for was held by nobody: nothing was in its row.
LEMMA AskStep == ASSUME IInv, NEW p \in Procs, Ask(p) PROVE IInv'
<1>1. PICK t \in Ids :
        /\ Asked(t) /\ SetState(t, "RUNNING")
        /\ run' = [run EXCEPT ![p].pc = "asked", ![p].trial = t]
  BY DEF Ask
<1> DEFINE r == [run[p] EXCEPT !.pc = "asked", !.trial = t]
           row == [trials[t] EXCEPT !.state = "RUNNING"]
<1>2. /\ trials \in [Ids -> Trial] /\ run \in [Procs -> Run]
      /\ run[p] \in Run /\ RunOK(run[p]) /\ run[p].pc = "open"
  BY DEF IInv, TypeOK, RunsOK, Ask, At
<1>3. trials[t].state \in {"absent", "WAITING"}
  BY <1>1 DEF Asked, NextNumber, Is
<1>4. /\ row \in Trial /\ row.state = "RUNNING"
      /\ row.attrs = "none" /\ row.arts = 0
  BY <1>2, <1>3 DEF IInv, RowsOK, Trial, States
<1>5. /\ r \in Run /\ r.pc = "asked" /\ r.trial = t /\ r.verb # "none"
      /\ ~r.tripped /\ ~r.told
  <2>1. /\ run[p].trial = 0 /\ run[p].verb # "none"
        /\ ~run[p].tripped /\ ~run[p].told
    BY <1>2 DEF RunOK
  <2>2. t \in 0 .. MaxTrials
    OBVIOUS
  <2> QED BY <1>2, <2>1, <2>2 DEF Run, Pcs
<1>6. /\ trials' \in [Ids -> Trial] /\ trials'[t] = row
      /\ \A u \in Ids : u # t => trials'[u] = trials[u]
  BY <1>1, <1>2, <1>4 DEF SetState
<1>7. /\ run' \in [Procs -> Run] /\ run'[p] = r
      /\ \A q \in Procs : q # p => run'[q] = run[q]
  BY <1>1, <1>2, <1>5
<1>8. \A q \in Procs : run[q].trial # t
  BY <1>2, <1>3 DEF IInv, RunsOK, RunOK, PhaseOK, Finished
<1>9. TypeOK'
  BY <1>6, <1>7 DEF Ask, IInv, TypeOK
<1>10. RunsOK'
  <2> SUFFICES ASSUME NEW q \in Procs PROVE RunOK(run[q])'
    BY DEF RunsOK
  <2>1. CASE q = p
    <3>1. PhaseOK(r, row)
      BY <1>4, <1>5 DEF PhaseOK
    <3>2. run'[q] = r /\ trials'[r.trial] = row /\ r.trial # 0
      BY <2>1, <1>5, <1>6, <1>7
    <3> QED BY <3>1, <3>2, <1>5 DEF RunOK, InBody
  <2>2. CASE q # p
    <3>1. run[q].trial # 0 => run[q].trial \in Ids /\ run[q].trial # t
      BY <1>2, <1>8 DEF Run
    <3>2. run'[q] = run[q] /\ (run[q].trial # 0 => trials'[run[q].trial] = trials[run[q].trial])
      BY <2>2, <3>1, <1>6, <1>7
    <3> QED BY <3>2 DEF IInv, RunsOK, RunOK
  <2> QED BY <2>1, <2>2
<1>11. RowsOK'
  BY <1>4, <1>6 DEF IInv, RowsOK
<1>12. ApartOK'
  <2> SUFFICES ASSUME NEW q1 \in Procs, NEW q2 \in Procs,
                      run'[q1].trial # 0, run'[q1].trial = run'[q2].trial
               PROVE  q1 = q2
    BY DEF ApartOK
  <2>1. \A q \in Procs : q # p => run'[q].trial = run[q].trial /\ run'[q].trial # t
    BY <1>7, <1>8
  <2>2. run'[p].trial = t
    BY <1>5, <1>7
  <2>3. CASE q1 = p \/ q2 = p
    BY <2>1, <2>2, <2>3
  <2>4. CASE q1 # p /\ q2 # p
    BY <2>1, <2>4 DEF IInv, ApartOK
  <2> QED BY <2>3, <2>4
<1> QED BY <1>9, <1>10, <1>11, <1>12 DEF IInv

LEMMA EnterStep == ASSUME IInv, NEW p \in Procs, Enter(p) PROVE IInv'
<1> DEFINE r == [run[p] EXCEPT !.pc = "body"]
<1>1. run[p].pc \in InBody \cup {"asked", "handler"}
  BY DEF Enter, At, InBody
<1>2. /\ r \in Run /\ r.pc = "body" /\ r.trial = run[p].trial
      /\ r.verb = run[p].verb /\ r.tripped = run[p].tripped
      /\ r.told = run[p].told
  BY <1>1, HolderFacts DEF Run, Pcs
<1>3. PhaseOK(r, Row(p))
  BY <1>1, <1>2, HolderFacts DEF PhaseOK, Enter, At
<1> QED
  BY <1>1, <1>2, <1>3, HolderFacts, HolderStep DEF Enter, Goto, At

LEMMA RaiseStep == ASSUME IInv, NEW p \in Procs, Raise(p) PROVE IInv'
<1> DEFINE r == [run[p] EXCEPT !.pc = "handler"]
<1>1. run[p].pc \in InBody \cup {"asked", "handler"}
  BY DEF Raise, At, InBody
<1>2. /\ r \in Run /\ r.pc = "handler" /\ r.trial = run[p].trial
      /\ r.verb = run[p].verb /\ r.tripped = run[p].tripped
      /\ r.told = run[p].told
  BY <1>1, HolderFacts DEF Run, Pcs
<1>3. PhaseOK(r, Row(p))
  BY <1>1, <1>2, HolderFacts DEF PhaseOK
<1>4. raises' \in Nat
  BY <1>1, HolderFacts DEF Raise, Fault
<1> QED
  BY <1>1, <1>2, <1>3, <1>4, HolderFacts, HolderStep DEF Raise, Goto, InBody

LEMMA HandlerRaisesStep == ASSUME IInv, NEW p \in Procs, HandlerRaises(p) PROVE IInv'
<1> DEFINE r == [run[p] EXCEPT !.pc = "escaped"]
<1>1. run[p].pc \in InBody \cup {"asked", "handler"}
  BY DEF HandlerRaises, At, InBody
<1>2. /\ r \in Run /\ r.pc = "escaped" /\ r.trial = run[p].trial
      /\ r.verb = run[p].verb /\ r.tripped = run[p].tripped
      /\ r.told = run[p].told
  BY <1>1, HolderFacts DEF Run, Pcs
<1>3. PhaseOK(r, Row(p))
  BY <1>1, <1>2, HolderFacts DEF PhaseOK
<1>4. raises' \in Nat
  BY <1>1, HolderFacts DEF HandlerRaises, Fault
<1> QED
  BY <1>1, <1>2, <1>3, <1>4, HolderFacts, HolderStep
     DEF HandlerRaises, Goto, InBody

\* Leaving for good at any place, with a trial or without.
LEMMA GoneStep ==
  ASSUME IInv, NEW p \in Procs, NEW pc \in {"escaped", "killed"}, Goto(p, pc),
         UNCHANGED trials, raises' \in Nat, kills' \in Nat
  PROVE  IInv'
<1> DEFINE r == [run[p] EXCEPT !.pc = pc]
<1>1. /\ run[p] \in Run /\ RunOK(run[p]) /\ trials \in [Ids -> Trial]
  BY DEF IInv, TypeOK, RunsOK
<1>2. /\ r \in Run /\ r.pc = pc /\ r.trial = run[p].trial
      /\ r.verb = run[p].verb /\ r.tripped = run[p].tripped
      /\ r.told = run[p].told
  BY <1>1 DEF Run, Pcs
<1>3. run' = [run EXCEPT ![p] = r]
  BY DEF Goto
<1>4. CASE run[p].trial = 0
  BY <1>1, <1>2, <1>3, <1>4, FreeStep DEF RunOK
<1>5. CASE run[p].trial # 0
  <2>1. run[p].trial \in Ids
    BY <1>1, <1>5 DEF Run
  <2>2. Row(p) \in Trial /\ trials = [trials EXCEPT ![run[p].trial] = Row(p)]
    BY <1>1, <2>1 DEF Row
  <2>3. PhaseOK(r, Row(p))
    BY <1>1, <1>2, <1>5 DEF RunOK, PhaseOK, Row
  <2>4. r.tripped => r.verb = "train"
    BY <1>1, <1>2 DEF RunOK
  <2> QED
    BY <1>2, <1>3, <1>5, <2>2, <2>3, <2>4, HolderStep DEF InBody
<1> QED BY <1>4, <1>5

LEMMA RaiseEarlyStep == ASSUME IInv, NEW p \in Procs, RaiseEarly(p) PROVE IInv'
<1>1. raises' \in Nat /\ kills' \in Nat
  BY DEF RaiseEarly, Fault, IInv, TypeOK
<1> QED BY <1>1, GoneStep DEF RaiseEarly

LEMMA KillStep == ASSUME IInv, NEW p \in Procs, Kill(p) PROVE IInv'
<1>1. raises' \in Nat /\ kills' \in Nat
  BY DEF Kill, IInv, TypeOK
<1> QED BY <1>1, GoneStep DEF Kill

\* What the handler does to a trial that was not told leaves it FAIL.
LEMMA HandleStep == ASSUME IInv, NEW p \in Procs, Handle(p) PROVE IInv'
<1> DEFINE r == [run[p] EXCEPT !.pc = "exited"]
           row == [Row(p) EXCEPT !.state = "FAIL"]
<1>1. run[p].pc = "handler" /\ run[p].pc \in InBody \cup {"asked", "handler"}
  BY DEF Handle, At
<1>2. /\ r \in Run /\ r.pc = "exited" /\ r.trial = run[p].trial
      /\ r.verb = run[p].verb /\ r.tripped = run[p].tripped
      /\ r.told = run[p].told
  BY <1>1, HolderFacts DEF Run, Pcs
<1>3. row \in Trial /\ row.state = "FAIL"
  BY <1>1, HolderFacts DEF Trial, States, Finished
<1>4. PhaseOK(r, Row(p)) /\ PhaseOK(r, row)
  BY <1>1, <1>2, <1>3, HolderFacts DEF PhaseOK, Finished
<1>5. trials' = [trials EXCEPT ![run[p].trial] = row] \/ trials' = trials
  BY DEF Handle, SetState, Row
<1>6. run' = [run EXCEPT ![p] = r] /\ UNCHANGED <<raises, kills>>
  BY DEF Handle, Goto
<1> QED
  BY <1>1, <1>2, <1>3, <1>4, <1>5, <1>6, HolderFacts, HolderStep DEF InBody

LEMMA BodyStep == ASSUME IInv, NEW p \in Procs, Body(p) PROVE IInv'
<1>1. /\ run[p].pc = "body" /\ run[p].pc \in InBody \cup {"asked", "handler"}
      /\ run[p] \in Run /\ (run[p].tripped => run[p].verb = "train")
  BY HolderFacts DEF Body, At, InBody
<1>2. PICK b \in BOOLEAN :
        /\ run' = [run EXCEPT ![p] = [run[p] EXCEPT !.pc = "attrs", !.tripped = b]]
        /\ b => run[p].verb = "train"
  <2>1. CASE FitAndScore(p)
    BY <2>1 DEF FitAndScore
  <2>2. CASE Solve(p)
    <3>1. /\ run[p].tripped \in BOOLEAN
          /\ [run[p] EXCEPT !.pc = "attrs"]
               = [run[p] EXCEPT !.pc = "attrs", !.tripped = run[p].tripped]
      BY <1>1 DEF Run
    <3> QED BY <1>1, <2>2, <3>1 DEF Solve, Goto
  <2> QED BY <2>1, <2>2 DEF Body
<1> DEFINE r == [run[p] EXCEPT !.pc = "attrs", !.tripped = b]
<1>4. /\ r \in Run /\ r.pc = "attrs" /\ r.trial = run[p].trial
      /\ r.verb = run[p].verb /\ r.tripped = b /\ r.told = run[p].told
  BY <1>1, <1>2 DEF Run, Pcs
<1>5. PhaseOK(r, Row(p))
  BY <1>1, <1>4, HolderFacts DEF PhaseOK, Finished
<1>6. /\ run' = [run EXCEPT ![p] = r] /\ UNCHANGED <<raises, kills>>
      /\ trials' = [trials EXCEPT ![run[p].trial] = Row(p)]
  BY <1>1, <1>2, HolderFacts DEF Body
<1>7. r.tripped => r.verb = "train"
  BY <1>2, <1>4
<1> HIDE DEF r
<1> QED
  BY <1>1, <1>4, <1>5, <1>6, <1>7, HolderFacts, HolderStep

LEMMA RecordAttrsStep == ASSUME IInv, NEW p \in Procs, RecordAttrs(p) PROVE IInv'
<1>1. run[p].pc = "attrs" /\ run[p].pc \in InBody \cup {"asked", "handler"}
  BY DEF RecordAttrs, At, InBody
<1>2. PhaseOK(run[p], Row(p)) /\ Row(p) \in Trial /\ run[p] \in Run
  BY <1>1, HolderFacts
<1>3. CASE Row(p).attrs = "none"
  <2> DEFINE row == [Row(p) EXCEPT !.attrs = "required"]
  <2>1. row \in Trial /\ row.attrs = "required" /\ row.arts = Row(p).arts
        /\ row.state = Row(p).state
    BY <1>2 DEF Trial, AttrsLevels
  <2>2. PhaseOK(run[p], row)
    BY <1>1, <1>2, <2>1 DEF PhaseOK, Finished
  <2>3. /\ run' = [run EXCEPT ![p] = run[p]]
        /\ trials' = [trials EXCEPT ![run[p].trial] = row]
    BY <1>3 DEF RecordAttrs, Write, IInv, TypeOK
  <2> QED
    BY <1>1, <1>2, <2>1, <2>2, <2>3, HolderFacts, HolderStep DEF RecordAttrs
<1>4. CASE Row(p).attrs # "none"
  <2> DEFINE row == [Row(p) EXCEPT !.attrs = "full"]
             pc == IF run[p].verb = "train" THEN "judge" ELSE "tell"
             r == [run[p] EXCEPT !.pc = pc]
  <2>1. row \in Trial /\ row.attrs = "full" /\ row.arts = Row(p).arts
        /\ row.state = Row(p).state
    BY <1>2 DEF Trial, AttrsLevels
  <2>2. pc \in {"judge", "tell"} /\ (pc = "judge" <=> run[p].verb = "train")
    OBVIOUS
  <2>3. /\ r \in Run /\ r.pc = pc /\ r.trial = run[p].trial
        /\ r.verb = run[p].verb /\ r.tripped = run[p].tripped
        /\ r.told = run[p].told
    BY <1>2, <2>2 DEF Run, Pcs
  <2>4. run[p].tripped => run[p].verb = "train"
    BY <1>1, HolderFacts
  <2>5. PhaseOK(r, row)
    BY <1>1, <1>2, <2>1, <2>2, <2>3, <2>4 DEF PhaseOK, Finished, Files
  <2>6. /\ run' = [run EXCEPT ![p] = r]
        /\ trials' = [trials EXCEPT ![run[p].trial] = row]
    BY <1>4 DEF RecordAttrs, Write, Goto
  <2> QED
    BY <1>1, <2>1, <2>2, <2>3, <2>4, <2>5, <2>6, HolderFacts, HolderStep
       DEF RecordAttrs
<1> QED BY <1>3, <1>4

LEMMA JudgeStep == ASSUME IInv, NEW p \in Procs, Judge(p) PROVE IInv'
<1> DEFINE pc == IF run[p].tripped THEN "handler" ELSE "upload"
           r == [run[p] EXCEPT !.pc = pc]
<1>1. run[p].pc = "judge" /\ run[p].pc \in InBody \cup {"asked", "handler"}
  BY DEF Judge, At, InBody
<1>2. pc \in {"handler", "upload"} /\ (pc = "upload" => ~run[p].tripped)
  OBVIOUS
<1>3. /\ r \in Run /\ r.pc = pc /\ r.trial = run[p].trial
      /\ r.verb = run[p].verb /\ r.tripped = run[p].tripped
      /\ r.told = run[p].told
  BY <1>1, <1>2, HolderFacts DEF Run, Pcs
<1>4. PhaseOK(r, Row(p))
  BY <1>1, <1>2, <1>3, HolderFacts DEF PhaseOK, Finished
<1>5. run' = [run EXCEPT ![p] = r]
  BY DEF Judge, Goto
<1> QED
  BY <1>1, <1>2, <1>3, <1>4, <1>5, HolderFacts, HolderStep DEF Judge

LEMMA UploadStep == ASSUME IInv, NEW p \in Procs, Upload(p) PROVE IInv'
<1> DEFINE row == [Row(p) EXCEPT !.arts = @ + 1]
<1>1. run[p].pc = "upload" /\ run[p].pc \in InBody \cup {"asked", "handler"}
  BY DEF Upload, At, InBody
<1>2. PhaseOK(run[p], Row(p)) /\ Row(p) \in Trial /\ run[p] \in Run
  BY <1>1, HolderFacts
<1>3. /\ row \in Trial /\ row.arts = Row(p).arts + 1 /\ Row(p).arts \in 0 .. 1
      /\ row.attrs = "full" /\ row.state = "RUNNING"
  BY <1>1, <1>2 DEF Trial, PhaseOK
<1>4. trials' = [trials EXCEPT ![run[p].trial] = row]
  BY DEF Upload, Write
<1>5. CASE Row(p).arts = 0
  <2>1. run' = [run EXCEPT ![p] = run[p]]
    BY <1>5 DEF Upload, IInv, TypeOK
  <2>2. PhaseOK(run[p], row)
    BY <1>1, <1>2, <1>3, <1>5 DEF PhaseOK, Finished
  <2> QED
    BY <1>1, <1>2, <1>3, <1>4, <2>1, <2>2, HolderFacts, HolderStep DEF Upload
<1>6. CASE Row(p).arts # 0
  <2> DEFINE r == [run[p] EXCEPT !.pc = "tell"]
  <2>1. /\ r \in Run /\ r.pc = "tell" /\ r.trial = run[p].trial
        /\ r.verb = run[p].verb /\ r.tripped = run[p].tripped
        /\ r.told = run[p].told
    BY <1>2 DEF Run, Pcs
  <2>2. PhaseOK(r, row)
    BY <1>1, <1>2, <1>3, <1>6, <2>1 DEF PhaseOK, Finished, Files
  <2>3. run' = [run EXCEPT ![p] = r]
    BY <1>6 DEF Upload, Goto
  <2> QED
    BY <1>1, <1>3, <1>4, <2>1, <2>2, <2>3, HolderFacts, HolderStep DEF Upload
<1> QED BY <1>5, <1>6

LEMMA TellStep == ASSUME IInv, NEW p \in Procs, Tell(p) PROVE IInv'
<1>1. PICK s \in {"COMPLETE", "FAIL"} : SetState(run[p].trial, s)
  BY DEF Tell
<1> DEFINE r == [run[p] EXCEPT !.pc = "told"]
           row == [Row(p) EXCEPT !.state = s]
<1>2. run[p].pc = "tell" /\ run[p].pc \in InBody \cup {"asked", "handler"}
  BY DEF Tell, At, InBody
<1>3. /\ r \in Run /\ r.pc = "told" /\ r.trial = run[p].trial
      /\ r.verb = run[p].verb /\ r.tripped = run[p].tripped
      /\ r.told = run[p].told
  BY <1>2, HolderFacts DEF Run, Pcs
<1>4. row \in Trial /\ row.state = s /\ row.attrs = Row(p).attrs
      /\ row.arts = Row(p).arts /\ s \in Finished
  BY <1>2, HolderFacts DEF Trial, States, Finished
<1>5. PhaseOK(r, row)
  BY <1>2, <1>3, <1>4, HolderFacts DEF PhaseOK
<1>6. /\ run' = [run EXCEPT ![p] = r]
      /\ trials' = [trials EXCEPT ![run[p].trial] = row]
  BY <1>1 DEF Tell, Goto, SetState, Row
<1> QED
  BY <1>2, <1>3, <1>4, <1>5, <1>6, HolderFacts, HolderStep DEF Tell, InBody

LEMMA LeaveStep == ASSUME IInv, NEW p \in Procs, Leave(p) PROVE IInv'
<1> DEFINE r == IF run[p].told THEN [run[p] EXCEPT !.pc = "exited"]
                ELSE [run[p] EXCEPT !.told = TRUE]
<1>1. run[p].pc = "told" /\ run[p].pc \in InBody \cup {"asked", "handler"}
  BY DEF Leave, At, InBody
<1>2. /\ r \in Run /\ r.pc \in {"told", "exited"} /\ r.trial = run[p].trial
      /\ r.verb = run[p].verb /\ r.tripped = run[p].tripped
  BY <1>1, HolderFacts DEF Run, Pcs
<1>3. PhaseOK(r, Row(p))
  BY <1>1, <1>2, HolderFacts DEF PhaseOK
<1>4. run' = [run EXCEPT ![p] = r]
  BY DEF Leave, Goto
<1> QED
  BY <1>1, <1>2, <1>3, <1>4, HolderFacts, HolderStep DEF Leave, InBody

-----------------------------------------------------------------------------
(* Theorems                                                                *)

LEMMA InitHolds == Init => IInv
<1> SUFFICES ASSUME Init PROVE IInv
  OBVIOUS
<1>1. NotStarted \in Run /\ NoTrial \in Trial
  BY DEF NotStarted, NoTrial, Run, Pcs, Trial, States, AttrsLevels
<1>2. TypeOK
  BY <1>1 DEF Init, TypeOK
<1>3. RunsOK /\ ApartOK
  BY DEF Init, NotStarted, RunsOK, RunOK, ApartOK, InBody
<1>4. RowsOK
  BY DEF Init, NoTrial, RowsOK
<1> QED BY <1>2, <1>3, <1>4 DEF IInv

LEMMA StepHolds == IInv /\ [Next]_vars => IInv'
<1> SUFFICES ASSUME IInv, [Next]_vars PROVE IInv'
  OBVIOUS
<1>1. ASSUME NEW p \in Procs, Step(p) PROVE IInv'
  BY <1>1, AskStep, EnterStep, BodyStep, RecordAttrsStep, JudgeStep, UploadStep,
     TellStep, LeaveStep, HandleStep DEF Step
<1>2. ASSUME NEW p \in Procs,
             Begin(p) \/ Raise(p) \/ RaiseEarly(p) \/ HandlerRaises(p) \/ Kill(p)
      PROVE  IInv'
  BY <1>2, BeginStep, RaiseStep, RaiseEarlyStep, HandlerRaisesStep, KillStep
<1>3. CASE UNCHANGED vars
  <2>1. UNCHANGED <<trials, run, raises, kills>>
    BY <1>3 DEF vars
  <2> QED BY <2>1 DEF IInv, TypeOK, RunsOK, RunOK, RowsOK, ApartOK
<1> QED BY <1>1, <1>2, <1>3 DEF Next, Quiet

\* What one-off commands rely on, in every reachable state.
THEOREM OneOffInvariant == Spec => []IInv
  BY InitHolds, StepHolds, PTL DEF Spec

\* cli/train.py, cli/solve.py: a COMPLETE one-off trial has its whole
\* provenance, and both files if it is a training, whatever exception hit
\* either command in its study.
THEOREM OneOffsAreEvidenced == Spec => []OneOffIsEvidenced
<1>1. IInv => OneOffIsEvidenced
  BY DEF IInv, RunsOK, RunOK, PhaseOK, OneOffIsEvidenced, Is, Row, Files
<1> QED BY <1>1, OneOffInvariant, PTL

\* cli/train.py:240-241: a baseline that crossed the memory threshold never
\* becomes COMPLETE.
THEOREM TrippedNeverComplete == Spec => []TrippedNeverCompletes
<1>1. IInv => TrippedNeverCompletes
  BY DEF IInv, RunsOK, RunOK, PhaseOK, TrippedNeverCompletes, Is
<1> QED BY <1>1, OneOffInvariant, PTL

\* runs/ask_tell.py:80-88: whatever is raised after the tell, the handler of no
\* command touches a trial that is settled.
THEOREM SettledTrialsAreFinal == Spec => SettledIsFinal
<1>1. ASSUME IInv, [Next]_vars, NEW t \in Ids, trials[t].state \in Finished
      PROVE  trials'[t] = trials[t]
  <2>1. trials \in [Ids -> Trial]
    BY <1>1 DEF IInv, TypeOK
  <2>2. ASSUME NEW p \in Procs, Ask(p) PROVE trials'[t] = trials[t]
    BY <1>1, <2>1, <2>2
       DEF Ask, Asked, NextNumber, SetState, Is, Finished
  <2>3. ASSUME NEW p \in Procs, RecordAttrs(p) \/ Upload(p) \/ Handle(p)
        PROVE  trials'[t] = trials[t]
    BY <1>1, <2>1, <2>3
       DEF RecordAttrs, Upload, Handle, Write, SetState, Is, Finished
  <2>4. ASSUME NEW p \in Procs, Tell(p) PROVE trials'[t] = trials[t]
    <3>1. run[p].pc = "tell" /\ run[p].pc \in InBody \cup {"asked", "handler"}
      BY <2>4 DEF Tell, At, InBody
    <3>2. trials[run[p].trial].state = "RUNNING"
      BY <1>1, <3>1, HolderFacts DEF PhaseOK, Row
    <3> QED BY <1>1, <2>1, <2>4, <3>2 DEF Tell, SetState, Finished
  <2>5. ASSUME NEW p \in Procs,
               \/ Begin(p) \/ Enter(p) \/ Body(p) \/ Judge(p) \/ Leave(p)
               \/ Raise(p) \/ RaiseEarly(p) \/ HandlerRaises(p) \/ Kill(p)
        PROVE  trials' = trials
    BY <2>5 DEF Begin, Enter, Body, Judge, Leave, Raise, RaiseEarly,
                HandlerRaises, Kill
  <2> QED
    BY <1>1, <2>2, <2>3, <2>4, <2>5 DEF Next, Step, Quiet, vars
<1>2. IInv /\ [Next]_vars =>
        [\A t \in Ids : trials[t].state \in Finished => trials'[t] = trials[t]]_vars
  BY <1>1
<1> QED BY <1>2, OneOffInvariant, PTL DEF Spec, SettledIsFinal
=============================================================================
