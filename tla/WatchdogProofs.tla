---------------------------- MODULE WatchdogProofs ----------------------------
(***************************************************************************)
(* Theorems about Watchdog, for any amount of memory and any threshold.    *)
(*                                                                         *)
(* What is recorded depends on which of two threads wrote the peak last,   *)
(* so neither property is inductive.  IInv says where every reading is     *)
(* until it is in the peak: in the hands of the thread that made it, which *)
(* has read the peak it will overwrite.  Until the join nobody but the     *)
(* sampling thread writes; after a join that did not give up, it is gone.  *)
(***************************************************************************)
EXTENDS Watchdog, TLAPS

Mains == {"enter", "work", "record", "exit", "join", "last read", "last keep",
          "judge", "upload", "done"}
Polls == {"off", "check", "read", "compare", "keep", "judge", "sleep", "gone"}

TypeOK ==
  /\ host \in {"objective", "train"}
  /\ main \in Mains
  /\ poll \in [pc : Polls, rss : Nat, old : Nat]
  /\ peak \in Nat /\ tripped \in BOOLEAN /\ stop \in BOOLEAN
  /\ final \in [rss : Nat, old : Nat]
  /\ recorded \in Nat /\ metrics \in Nat
  /\ verdict \in {"unread", "raised", "pruned", "kept"}
  /\ seen \in SUBSET Rss /\ ends \in SUBSET Rss
  /\ overran \in BOOLEAN

\* The thread has been joined, or given up.
Joined ==
  \/ main \in {"last read", "last keep", "judge", "upload", "done"}
  \/ main = "record" /\ host = "train"

\* Before the block there is nothing; every value in a variable was read, and a
\* thread that was joined in time is gone.
HeldOK ==
  /\ main = "enter" => /\ poll.pc = "off" /\ seen = {} /\ ends = {}
                       /\ recorded = Nothing /\ metrics = Nothing
  /\ main # "enter" => peak \in Readings /\ poll.pc # "off"
  /\ poll.pc \in {"compare", "keep", "judge"} => poll.rss \in seen
  /\ poll.pc = "keep" => poll.old \in Readings
  /\ main = "last keep" => final.rss \in Readings /\ final.old \in Readings
  /\ recorded # Nothing => recorded \in Readings
  /\ ~overran /\ Joined => poll.pc = "gone"

\* A reading above the peak is still on its way into it, and whoever carries it
\* knows the peak.
PeakOK ==
  ~overran =>
    /\ \A m \in Readings : \/ m <= peak
                           \/ poll.pc \in {"compare", "keep"} /\ m = poll.rss
                           \/ main = "last keep" /\ m = final.rss
    /\ poll.pc = "keep" => poll.old = peak
    /\ main = "last keep" => final.old = peak

\* train records, and metrics.json is written, when nothing more is read.
RecordedOK ==
  /\ host = "train" /\ recorded # Nothing =>
       main \in {"judge", "upload", "done"}
  /\ metrics # Nothing => main = "done"
  /\ ~overran => /\ host = "train" /\ recorded # Nothing => IsGreatest(recorded)
                 /\ metrics # Nothing => IsGreatest(metrics)

\* A crossing sample is judged or about to be.
VerdictOK ==
  /\ tripped => \E m \in seen : m > Threshold
  /\ ~tripped => \A m \in seen : \/ m <= Threshold
                                 \/ /\ poll.pc \in {"compare", "keep", "judge"}
                                    /\ m = poll.rss
  /\ verdict = "pruned" => tripped
  /\ verdict = "kept" => main \in {"upload", "done"} /\ (~overran => ~tripped)

IInv == TypeOK /\ HeldOK /\ PeakOK /\ RecordedOK /\ VerdictOK

-----------------------------------------------------------------------------
\* Every reading can be compared with the peak.
LEMMA ReadingsAreNumbers == TypeOK => Readings \subseteq Nat
<1>1. Rss \subseteq Nat
  BY RssAssumption DEF Rss
<1> QED BY <1>1 DEF TypeOK, Readings

\* max() of two readings is at least as great as both.
LEMMA LargerIsGreater ==
  ASSUME NEW a \in Nat, NEW b \in Nat
  PROVE  Larger(a, b) \in Nat /\ a <= Larger(a, b) /\ b <= Larger(a, b)
  BY DEF Larger

\* Before __enter__ nothing was read.
LEMMA InitHolds == Init => IInv
<1> SUFFICES ASSUME Init PROVE IInv
  OBVIOUS
<1> USE RssAssumption DEF Init
<1>1. TypeOK
  BY DEF TypeOK, Joined, Readings, IsGreatest, Mains, Polls, Nothing, Rss
<1>2. HeldOK
  BY DEF HeldOK, Joined, Readings, IsGreatest, Mains, Polls, Nothing, Rss
<1>3. PeakOK
  BY DEF PeakOK, Joined, Readings, IsGreatest, Mains, Polls, Nothing, Rss
<1>4. RecordedOK
  BY DEF RecordedOK, Joined, Readings, IsGreatest, Mains, Polls, Nothing, Rss
<1>5. VerdictOK
  BY DEF VerdictOK, Joined, Readings, IsGreatest, Mains, Polls, Nothing, Rss
<1> QED BY <1>1, <1>2, <1>3, <1>4, <1>5 DEF IInv

\* A step that leaves all variables alone.
LEMMA StutterHolds == IInv /\ UNCHANGED vars => IInv'
<1> SUFFICES ASSUME IInv, UNCHANGED vars PROVE IInv'
  OBVIOUS
<1>1. UNCHANGED <<host, main, poll, peak, tripped, stop, final, recorded,
                  metrics, verdict, seen, ends, overran>>
  BY DEF vars, state, results, history
<1>2. TypeOK'
  BY <1>1 DEF IInv, TypeOK
<1>3. HeldOK'
  BY <1>1 DEF IInv, HeldOK, Joined, Readings
<1>4. PeakOK'
  BY <1>1 DEF IInv, PeakOK, Readings
<1>5. RecordedOK'
  BY <1>1 DEF IInv, RecordedOK, IsGreatest, Readings
<1>6. VerdictOK'
  BY <1>1 DEF IInv, VerdictOK
<1> QED BY <1>2, <1>3, <1>4, <1>5, <1>6 DEF IInv

\* No step of either thread loses a reading on its way into the peak.
LEMMA StepHolds == IInv /\ [Next]_vars => IInv'
<1> SUFFICES ASSUME IInv, [Next]_vars PROVE IInv'
  OBVIOUS
<1> USE DEF IInv, Joined, Readings, IsGreatest, Mains, Polls, Nothing, Rss,
        state, results, history
<1>1. CASE CheckStop
  <2>1. TypeOK'
    BY <1>1, RssAssumption DEF TypeOK, CheckStop, Poll, PollKeeps
  <2>2. HeldOK'
    BY <1>1, RssAssumption DEF TypeOK, HeldOK, CheckStop, Poll, PollKeeps
  <2>3. PeakOK'
    BY <1>1, RssAssumption
       DEF TypeOK, HeldOK, PeakOK, CheckStop, Poll, PollKeeps
  <2>4. RecordedOK'
    BY <1>1, RssAssumption
       DEF TypeOK, HeldOK, PeakOK, RecordedOK, CheckStop, Poll, PollKeeps
  <2>5. VerdictOK'
    BY <1>1, RssAssumption
       DEF TypeOK, HeldOK, VerdictOK, CheckStop, Poll, PollKeeps
  <2> QED BY <2>1, <2>2, <2>3, <2>4, <2>5
<1>2. CASE ReadRss
  <2> PICK m \in Rss :
      poll' = [poll EXCEPT !.pc = "compare", !.rss = m] /\ seen' = seen \cup {m}
    BY <1>2 DEF ReadRss
  <2>0. m \in Nat /\ m # 0
    BY RssAssumption
  <2>1. TypeOK'
    BY <1>2, <2>0, RssAssumption DEF TypeOK, ReadRss, PollKeeps
  <2>2. HeldOK'
    BY <1>2, <2>0, RssAssumption DEF TypeOK, HeldOK, ReadRss, PollKeeps
  <2>3. PeakOK'
    BY <1>2, <2>0, RssAssumption DEF TypeOK, HeldOK, PeakOK, ReadRss, PollKeeps
  <2>4. RecordedOK'
    BY <1>2, <2>0, RssAssumption
       DEF TypeOK, HeldOK, PeakOK, RecordedOK, ReadRss, PollKeeps
  <2>5. VerdictOK'
    BY <1>2, <2>0, RssAssumption
       DEF TypeOK, HeldOK, VerdictOK, ReadRss, PollKeeps
  <2> QED BY <2>1, <2>2, <2>3, <2>4, <2>5
<1>3. CASE ComparePeak
  <2>1. TypeOK'
    BY <1>3, RssAssumption DEF TypeOK, ComparePeak, PollKeeps
  <2>2. HeldOK'
    BY <1>3, RssAssumption DEF TypeOK, HeldOK, ComparePeak, PollKeeps
  <2>3. PeakOK'
    BY <1>3, RssAssumption DEF TypeOK, HeldOK, PeakOK, ComparePeak, PollKeeps
  <2>4. RecordedOK'
    BY <1>3, RssAssumption
       DEF TypeOK, HeldOK, PeakOK, RecordedOK, ComparePeak, PollKeeps
  <2>5. VerdictOK'
    BY <1>3, RssAssumption DEF TypeOK, HeldOK, VerdictOK, ComparePeak, PollKeeps
  <2> QED BY <2>1, <2>2, <2>3, <2>4, <2>5
<1>4. CASE KeepPeak
  <2>1. TypeOK'
    BY <1>4, RssAssumption DEF TypeOK, Larger, KeepPeak, Poll, PollKeeps
  <2>2. HeldOK'
    BY <1>4, RssAssumption DEF TypeOK, HeldOK, Larger, KeepPeak, Poll, PollKeeps
  <2>3. ASSUME ~overran
        PROVE  /\ main # "last keep" /\ poll.old = peak /\ poll.pc = "keep"
               /\ peak \in Nat /\ peak' \in Nat
               /\ peak <= peak' /\ poll.rss <= peak'
               /\ poll'.pc = "judge" /\ ~overran'
               /\ UNCHANGED <<seen, ends, main>>
    BY <1>4, <2>3, LargerIsGreater
       DEF TypeOK, HeldOK, PeakOK, KeepPeak, Poll, PollKeeps
  <2>4. ASSUME ~overran, NEW m \in Readings PROVE m <= peak'
    <3>1. m <= peak \/ m = poll.rss
      BY <2>3, <2>4 DEF PeakOK
    <3>2. m \in Nat
      BY <2>4, ReadingsAreNumbers
    <3>3. peak \in Nat /\ peak' \in Nat /\ peak <= peak' /\ poll.rss <= peak'
      BY <2>3, <2>4
    <3>4. CASE m <= peak
      BY <3>2, <3>3, <3>4
    <3>5. CASE m = poll.rss
      BY <3>3, <3>5
    <3> QED BY <3>1, <3>4, <3>5
  <2>5. PeakOK'
    BY <1>4, <2>3, <2>4 DEF PeakOK, KeepPeak, PollKeeps
  <2>6. RecordedOK'
    BY <1>4, RssAssumption
       DEF TypeOK, HeldOK, PeakOK, RecordedOK, KeepPeak, Poll, PollKeeps
  <2>7. VerdictOK'
    BY <1>4, RssAssumption
       DEF TypeOK, HeldOK, VerdictOK, KeepPeak, Poll, PollKeeps
  <2> QED BY <2>1, <2>2, <2>5, <2>6, <2>7
<1>5. CASE Trip
  <2>1. TypeOK'
    BY <1>5, RssAssumption DEF TypeOK, Trip, Poll, PollKeeps
  <2>2. HeldOK'
    BY <1>5, RssAssumption DEF TypeOK, HeldOK, Trip, Poll, PollKeeps
  <2>3. PeakOK'
    BY <1>5, RssAssumption DEF TypeOK, HeldOK, PeakOK, Trip, Poll, PollKeeps
  <2>4. RecordedOK'
    BY <1>5, RssAssumption
       DEF TypeOK, HeldOK, PeakOK, RecordedOK, Trip, Poll, PollKeeps
  <2>5. /\ poll.pc = "judge" /\ poll.rss \in seen /\ poll'.pc = "sleep"
        /\ tripped' = (tripped \/ poll.rss > Threshold)
        /\ UNCHANGED <<seen, main, verdict, overran>>
    BY <1>5 DEF TypeOK, HeldOK, Trip, Poll, PollKeeps
  <2>6. \A m \in seen : m \in Nat
    BY ReadingsAreNumbers
  <2>7. tripped' => \E m \in seen : m > Threshold
    BY <2>5 DEF VerdictOK
  <2>8. ASSUME ~tripped', NEW m \in seen PROVE m <= Threshold
    <3>1. m <= Threshold \/ m = poll.rss
      BY <2>5, <2>8 DEF VerdictOK
    <3>2. poll.rss \in Nat /\ ~(poll.rss > Threshold)
      BY <2>5, <2>6, <2>8
    <3> QED BY <3>1, <3>2, RssAssumption
  <2>9. /\ verdict' = "pruned" => tripped'
        /\ verdict' = "kept" => /\ main' \in {"upload", "done"}
                                /\ ~overran' => ~tripped'
    BY <2>5 DEF VerdictOK, HeldOK
  <2>10. VerdictOK'
    BY <2>5, <2>7, <2>8, <2>9 DEF VerdictOK
  <2> QED BY <2>1, <2>2, <2>3, <2>4, <2>10
<1>6. CASE Wake
  <2>1. TypeOK'
    BY <1>6, RssAssumption DEF TypeOK, Wake, Poll, PollKeeps
  <2>2. HeldOK'
    BY <1>6, RssAssumption DEF TypeOK, HeldOK, Wake, Poll, PollKeeps
  <2>3. PeakOK'
    BY <1>6, RssAssumption DEF TypeOK, HeldOK, PeakOK, Wake, Poll, PollKeeps
  <2>4. RecordedOK'
    BY <1>6, RssAssumption
       DEF TypeOK, HeldOK, PeakOK, RecordedOK, Wake, Poll, PollKeeps
  <2>5. VerdictOK'
    BY <1>6, RssAssumption DEF TypeOK, HeldOK, VerdictOK, Wake, Poll, PollKeeps
  <2> QED BY <2>1, <2>2, <2>3, <2>4, <2>5
<1>7. CASE Enter
  <2>1. TypeOK'
    BY <1>7, RssAssumption DEF TypeOK, Enter, Main
  <2>2. HeldOK'
    BY <1>7, RssAssumption DEF TypeOK, HeldOK, Enter, Main
  <2>3. PeakOK'
    BY <1>7, RssAssumption DEF TypeOK, HeldOK, PeakOK, Enter, Main
  <2>4. RecordedOK'
    BY <1>7, RssAssumption DEF TypeOK, HeldOK, PeakOK, RecordedOK, Enter, Main
  <2>5. VerdictOK'
    BY <1>7, RssAssumption DEF TypeOK, HeldOK, VerdictOK, Enter, Main
  <2> QED BY <2>1, <2>2, <2>3, <2>4, <2>5
<1>8. CASE Work
  <2>1. TypeOK'
    BY <1>8, RssAssumption DEF TypeOK, Work
  <2>2. HeldOK'
    BY <1>8, RssAssumption DEF TypeOK, HeldOK, Work
  <2>3. PeakOK'
    BY <1>8, RssAssumption DEF TypeOK, HeldOK, PeakOK, Work
  <2>4. RecordedOK'
    BY <1>8, RssAssumption DEF TypeOK, HeldOK, PeakOK, RecordedOK, Work
  <2>5. VerdictOK'
    BY <1>8, RssAssumption DEF TypeOK, HeldOK, VerdictOK, Work
  <2> QED BY <2>1, <2>2, <2>3, <2>4, <2>5
<1>9. CASE Record
  <2>1. TypeOK'
    BY <1>9, RssAssumption DEF TypeOK, Record
  <2>2. HeldOK'
    BY <1>9, RssAssumption DEF TypeOK, HeldOK, Record
  <2>3. PeakOK'
    BY <1>9, RssAssumption DEF TypeOK, HeldOK, PeakOK, Record
  <2>4. RecordedOK'
    BY <1>9, RssAssumption DEF TypeOK, HeldOK, PeakOK, RecordedOK, Record
  <2>5. VerdictOK'
    BY <1>9, RssAssumption DEF TypeOK, HeldOK, VerdictOK, Record
  <2> QED BY <2>1, <2>2, <2>3, <2>4, <2>5
<1>10. CASE SetStop
  <2>1. TypeOK'
    BY <1>10, RssAssumption DEF TypeOK, SetStop, Main
  <2>2. HeldOK'
    BY <1>10, RssAssumption DEF TypeOK, HeldOK, SetStop, Main
  <2>3. PeakOK'
    BY <1>10, RssAssumption DEF TypeOK, HeldOK, PeakOK, SetStop, Main
  <2>4. RecordedOK'
    BY <1>10, RssAssumption
       DEF TypeOK, HeldOK, PeakOK, RecordedOK, SetStop, Main
  <2>5. VerdictOK'
    BY <1>10, RssAssumption DEF TypeOK, HeldOK, VerdictOK, SetStop, Main
  <2> QED BY <2>1, <2>2, <2>3, <2>4, <2>5
<1>11. CASE Join
  <2>1. TypeOK'
    BY <1>11, RssAssumption DEF TypeOK, Join, Main
  <2>2. HeldOK'
    BY <1>11, RssAssumption DEF TypeOK, HeldOK, Join, Main
  <2>3. PeakOK'
    BY <1>11, RssAssumption DEF TypeOK, HeldOK, PeakOK, Join, Main
  <2>4. RecordedOK'
    BY <1>11, RssAssumption DEF TypeOK, HeldOK, PeakOK, RecordedOK, Join, Main
  <2>5. VerdictOK'
    BY <1>11, RssAssumption DEF TypeOK, HeldOK, VerdictOK, Join, Main
  <2> QED BY <2>1, <2>2, <2>3, <2>4, <2>5
<1>12. CASE JoinTimeout
  <2>1. TypeOK'
    BY <1>12, RssAssumption DEF TypeOK, JoinTimeout, Main
  <2>2. HeldOK'
    BY <1>12, RssAssumption DEF TypeOK, HeldOK, JoinTimeout, Main
  <2>3. PeakOK'
    BY <1>12, RssAssumption DEF TypeOK, HeldOK, PeakOK, JoinTimeout, Main
  <2>4. RecordedOK'
    BY <1>12, RssAssumption
       DEF TypeOK, HeldOK, PeakOK, RecordedOK, JoinTimeout, Main
  <2>5. VerdictOK'
    BY <1>12, RssAssumption DEF TypeOK, HeldOK, VerdictOK, JoinTimeout, Main
  <2> QED BY <2>1, <2>2, <2>3, <2>4, <2>5
<1>13. CASE LastRead
  <2> PICK m \in Rss :
      final' = [rss |-> m, old |-> peak] /\ ends' = ends \cup {m}
    BY <1>13 DEF LastRead
  <2>0. m \in Nat /\ m # 0
    BY RssAssumption
  <2>1. TypeOK'
    BY <1>13, <2>0, RssAssumption DEF TypeOK, LastRead, Main
  <2>2. HeldOK'
    BY <1>13, <2>0, RssAssumption DEF TypeOK, HeldOK, LastRead, Main
  <2>3. PeakOK'
    BY <1>13, <2>0, RssAssumption DEF TypeOK, HeldOK, PeakOK, LastRead, Main
  <2>4. RecordedOK'
    BY <1>13, <2>0, RssAssumption
       DEF TypeOK, HeldOK, PeakOK, RecordedOK, LastRead, Main
  <2>5. VerdictOK'
    BY <1>13, <2>0, RssAssumption DEF TypeOK, HeldOK, VerdictOK, LastRead, Main
  <2> QED BY <2>1, <2>2, <2>3, <2>4, <2>5
<1>14. CASE LastKeep
  <2>1. TypeOK'
    BY <1>14, RssAssumption DEF TypeOK, Larger, LastKeep
  <2>2. HeldOK'
    BY <1>14, RssAssumption DEF TypeOK, HeldOK, Larger, LastKeep
  <2>3. ASSUME ~overran
        PROVE  /\ main = "last keep" /\ main' # "last keep" /\ final.old = peak
               /\ peak \in Nat /\ peak' \in Nat
               /\ peak <= peak' /\ final.rss <= peak'
               /\ poll.pc = "gone" /\ UNCHANGED <<seen, ends, poll>>
    BY <1>14, <2>3, LargerIsGreater DEF TypeOK, HeldOK, PeakOK, LastKeep
  <2>4. ASSUME ~overran, NEW m \in Readings PROVE m <= peak'
    <3>1. m <= peak \/ m = final.rss
      BY <2>3, <2>4 DEF PeakOK
    <3>2. m \in Nat
      BY <2>4, ReadingsAreNumbers
    <3>3. peak \in Nat /\ peak' \in Nat /\ peak <= peak' /\ final.rss <= peak'
      BY <2>3, <2>4
    <3>4. CASE m <= peak
      BY <3>2, <3>3, <3>4
    <3>5. CASE m = final.rss
      BY <3>3, <3>5
    <3> QED BY <3>1, <3>4, <3>5
  <2>5. PeakOK'
    BY <1>14, <2>3, <2>4 DEF PeakOK, LastKeep
  <2>6. RecordedOK'
    BY <1>14, RssAssumption DEF TypeOK, HeldOK, PeakOK, RecordedOK, LastKeep
  <2>7. VerdictOK'
    BY <1>14, RssAssumption DEF TypeOK, HeldOK, VerdictOK, LastKeep
  <2> QED BY <2>1, <2>2, <2>5, <2>6, <2>7
<1>15. CASE Judge
  <2>1. TypeOK'
    BY <1>15, RssAssumption DEF TypeOK, Judge
  <2>2. HeldOK'
    BY <1>15, RssAssumption DEF TypeOK, HeldOK, Judge
  <2>3. PeakOK'
    BY <1>15, RssAssumption DEF TypeOK, HeldOK, PeakOK, Judge
  <2>4. RecordedOK'
    BY <1>15, RssAssumption DEF TypeOK, HeldOK, PeakOK, RecordedOK, Judge
  <2>5. VerdictOK'
    BY <1>15, RssAssumption DEF TypeOK, HeldOK, VerdictOK, Judge
  <2> QED BY <2>1, <2>2, <2>3, <2>4, <2>5
<1>16. CASE Upload
  <2>1. TypeOK'
    BY <1>16, RssAssumption DEF TypeOK, Upload, Main
  <2>2. HeldOK'
    BY <1>16, RssAssumption DEF TypeOK, HeldOK, Upload, Main
  <2>3. PeakOK'
    BY <1>16, RssAssumption DEF TypeOK, HeldOK, PeakOK, Upload, Main
  <2>4. RecordedOK'
    BY <1>16, RssAssumption
       DEF TypeOK, HeldOK, PeakOK, RecordedOK, Upload, Main
  <2>5. VerdictOK'
    BY <1>16, RssAssumption DEF TypeOK, HeldOK, VerdictOK, Upload, Main
  <2> QED BY <2>1, <2>2, <2>3, <2>4, <2>5
<1>17. CASE UNCHANGED vars
  BY <1>17, StutterHolds
<1> QED BY <1>1, <1>2, <1>3, <1>4, <1>5, <1>6, <1>7, <1>8, <1>9,
           <1>10, <1>11, <1>12, <1>13, <1>14, <1>15, <1>16, <1>17
        DEF Next, Sampler, Host, Ended

\* What a run relies on, in every reachable state.
THEOREM SpecInvariant == Spec => []IInv
  BY InitHolds, StepHolds, PTL DEF Spec

-----------------------------------------------------------------------------
\* _internal/memory.py:108: whatever the two threads do, no update of the peak
\* is lost unless the join gave up on the sampling thread; what train records and
\* what metrics.json holds is the greatest reading, and what an objective
\* records is a reading.
THEOREM PeakIsKept == Spec => []RecordedPeak
<1>1. IInv => RecordedPeak
  BY DEF IInv, HeldOK, RecordedOK, RecordedPeak
<1> QED BY <1>1, SpecInvariant, PTL

\* tuning/objective.py:373, cli/train.py:209: a trial is pruned only if a sample
\* crossed the threshold, and kept only if none did or the join gave up.
THEOREM VerdictsAreFair == Spec => []VerdictIsFair
<1>1. IInv => VerdictIsFair
  <2> SUFFICES ASSUME IInv PROVE VerdictIsFair
    OBVIOUS
  <2>1. verdict = "pruned" => \E m \in seen : m > Threshold
    BY DEF IInv, VerdictOK
  <2>2. verdict = "kept" /\ ~overran => poll.pc = "gone" /\ ~tripped
    BY DEF IInv, HeldOK, VerdictOK, Joined
  <2>3. verdict = "kept" /\ ~overran => \A m \in seen : m <= Threshold
    BY <2>2 DEF IInv, VerdictOK
  <2> QED BY <2>1, <2>3 DEF VerdictIsFair
<1> QED BY <1>1, SpecInvariant, PTL
=============================================================================
