------------------------------- MODULE Watchdog -------------------------------
(***************************************************************************)
(* The memory watchdog of _internal/memory.py and its two hosts: the trial *)
(* objective, which records the peak inside the `with` block, and          *)
(* `rux-ml train`, which records it after the block.  A sampling thread    *)
(* shares peak_bytes, tripped and stop with the thread that does the work; *)
(* `peak = max(peak, rss)` is a read and a write, and the two threads may  *)
(* be switched in between.  The join of the sampling thread has a timeout. *)
(***************************************************************************)
EXTENDS Integers

CONSTANTS
  MaxRss,        \* resident memory is 1 .. MaxRss
  Threshold      \* watchdog_threshold_gb

ASSUME RssAssumption == MaxRss \in Nat /\ Threshold \in Nat

VARIABLES
  host,          \* "objective" or "train"
  main,          \* where the working thread is
  poll,          \* the sampling thread: where it is and what it has read
  peak, tripped, stop,        \* _WatchdogState
  final,         \* __exit__'s own reading: rss and the peak it compares with
  recorded,      \* peak_rss_mb of the trial's attributes
  metrics,       \* peak_rss_mb of metrics.json
  verdict,       \* what the host makes of wd.tripped
  seen,          \* history: readings of the thread
  ends,          \* history: readings of __enter__ and __exit__
  overran        \* history: join gave up on the thread

state == <<peak, tripped, stop>>
results == <<recorded, metrics, verdict>>
history == <<seen, ends, overran>>
vars == <<host, main, poll, final, state, results, history>>

Rss == 1 .. MaxRss
Nothing == 0     \* no reading yet, not recorded

Larger(a, b) == IF a < b THEN b ELSE a

Init ==
  /\ host \in {"objective", "train"}
  /\ main = "enter"
  /\ poll = [pc |-> "off", rss |-> Nothing, old |-> Nothing]
  /\ peak = 0 /\ tripped = FALSE /\ stop = FALSE
  /\ final = [rss |-> Nothing, old |-> Nothing]
  /\ recorded = Nothing /\ metrics = Nothing /\ verdict = "unread"
  /\ seen = {} /\ ends = {} /\ overran = FALSE
-----------------------------------------------------------------------------
(* The sampling thread: _sample_loop. *)

Poll(from, to) == poll.pc = from /\ poll' = [poll EXCEPT !.pc = to]
PollKeeps == UNCHANGED <<host, main, final, results, ends, overran>>

\* while not state.stop.is_set()
CheckStop ==
  /\ IF stop THEN Poll("check", "gone") ELSE Poll("check", "read")
  /\ PollKeeps /\ UNCHANGED <<state, seen>>

ReadRss ==
  /\ poll.pc = "read"
  /\ \E m \in Rss : /\ poll' = [poll EXCEPT !.pc = "compare", !.rss = m]
                    /\ seen' = seen \cup {m}
  /\ PollKeeps /\ UNCHANGED state

\* max(state.peak_bytes, rss): the peak is read here and written in KeepPeak.
ComparePeak ==
  /\ poll.pc = "compare"
  /\ poll' = [poll EXCEPT !.pc = "keep", !.old = peak]
  /\ PollKeeps /\ UNCHANGED <<state, seen>>

KeepPeak ==
  /\ Poll("keep", "judge")
  /\ peak' = Larger(poll.old, poll.rss)
  /\ PollKeeps /\ UNCHANGED <<tripped, stop, seen>>

\* Mutant of Trip: the last sample decides.
Trip_Last ==
  /\ Poll("judge", "sleep")
  /\ tripped' = (poll.rss > Threshold)
  /\ PollKeeps /\ UNCHANGED <<peak, stop, seen>>

\* The thread sleeps until its interval ends or stop is set.
Trip ==
  /\ Poll("judge", "sleep")
  /\ tripped' = (tripped \/ poll.rss > Threshold)
  /\ PollKeeps /\ UNCHANGED <<peak, stop, seen>>

Wake ==
  /\ Poll("sleep", "check")
  /\ PollKeeps /\ UNCHANGED <<state, seen>>

Sampler ==
  CheckStop \/ ReadRss \/ ComparePeak \/ KeepPeak \/ Trip \/ Wake
-----------------------------------------------------------------------------
(* The working thread. *)

Main(from, to) == main = from /\ main' = to

\* __enter__: the peak is seeded, then the thread is started.
Enter ==
  /\ Main("enter", "work")
  /\ \E m \in Rss : peak' = m /\ ends' = ends \cup {m}
  /\ poll' = [poll EXCEPT !.pc = "check"]
  /\ UNCHANGED <<host, tripped, stop, final, results, seen, overran>>

\* The fit returns or raises (nothing in the code raises MemoryPressureError).
\* The objective records either way, in a finally clause of the body; train
\* records when the block is left without exception.
Work ==
  /\ main = "work"
  /\ main' = IF host = "objective" THEN "record" ELSE "exit"
  /\ verdict' \in {"unread", "raised"}
  /\ UNCHANGED <<host, poll, final, state, recorded, metrics, history>>

\* _record_attrs(..., wd.peak_mb)
Record ==
  /\ main = "record"
  /\ main' = IF host = "objective" THEN "exit" ELSE "judge"
  /\ recorded' = peak
  /\ UNCHANGED <<host, poll, final, state, metrics, verdict, history>>

\* __exit__: stop is set, then the thread is joined.
SetStop ==
  /\ Main("exit", "join")
  /\ stop' = TRUE
  /\ UNCHANGED <<host, poll, final, peak, tripped, results, history>>

Join ==
  /\ Main("join", "last read")
  /\ poll.pc = "gone"
  /\ UNCHANGED <<host, poll, final, state, results, history>>

\* Mutant of JoinTimeout: a join without a timeout.
JoinTimeout_None == FALSE

\* join(timeout = two intervals) returns though the thread lives.
JoinTimeout ==
  /\ Main("join", "last read")
  /\ poll.pc # "gone"
  /\ overran' = TRUE
  /\ UNCHANGED <<host, poll, final, state, results, seen, ends>>

LastRead ==
  /\ Main("last read", "last keep")
  /\ \E m \in Rss : /\ final' = [rss |-> m, old |-> peak]
                    /\ ends' = ends \cup {m}
  /\ UNCHANGED <<host, poll, state, results, seen, overran>>

\* Mutant of LastKeep: the last reading is the peak.
LastKeep_Overwrites ==
  /\ main = "last keep"
  /\ main' = IF verdict = "raised" THEN "done"
             ELSE IF host = "objective" THEN "judge" ELSE "record"
  /\ peak' = final.rss
  /\ UNCHANGED <<host, poll, final, tripped, stop, results, history>>

\* The last reading counts for the peak and not for the verdict.
LastKeep ==
  /\ main = "last keep"
  /\ main' = IF verdict = "raised" THEN "done"
             ELSE IF host = "objective" THEN "judge" ELSE "record"
  /\ peak' = Larger(final.old, final.rss)
  /\ UNCHANGED <<host, poll, final, tripped, stop, results, history>>

\* if wd.tripped: raise TrialPruned; else metrics.json with wd.peak_mb.
Judge ==
  /\ main = "judge"
  /\ main' = IF tripped THEN "done" ELSE "upload"
  /\ verdict' = IF tripped THEN "pruned" ELSE "kept"
  /\ UNCHANGED <<host, poll, final, state, recorded, metrics, history>>

Upload ==
  /\ Main("upload", "done")
  /\ metrics' = peak
  /\ UNCHANGED <<host, poll, final, state, recorded, verdict, history>>

Host ==
  \/ Enter \/ Work \/ Record \/ SetStop \/ Join \/ JoinTimeout
  \/ LastRead \/ LastKeep \/ Judge \/ Upload

\* daemon=True: the thread may live on until the process ends.
Ended == main = "done" /\ UNCHANGED vars

Next == Sampler \/ Host \/ Ended

Spec == Init /\ [][Next]_vars

\* Work that ends, and a timer that expires; nothing makes the thread run.
FairSpec == Spec /\ WF_vars(Host)
-----------------------------------------------------------------------------
(* Properties *)

Readings == seen \cup ends
IsGreatest(p) == p \in Readings /\ \A m \in Readings : m <= p

\* No update of the peak is lost between the two threads unless join gave up
\* on the sampling thread, and memory.py:108 has "the recorded peak reflects
\* post-fit memory if higher": in train it does.  The objective records before
\* __exit__ reads for the last time; there metrics.json has the greatest
\* reading, and the attribute an earlier one that may fall short of it.
RecordedPeak ==
  /\ recorded # Nothing => recorded \in Readings
  /\ ~overran =>
       /\ host = "train" /\ recorded # Nothing => IsGreatest(recorded)
       /\ metrics # Nothing => IsGreatest(metrics)

\* A trial is pruned only if a sample crossed the threshold, and a crossing
\* sample prunes it, unless join gave up.  Readings of __enter__ and __exit__
\* prune nothing, though the recorded peak may be one of them.
VerdictIsFair ==
  /\ verdict = "pruned" => \E m \in seen : m > Threshold
  /\ verdict = "kept" /\ ~overran => \A m \in seen : m <= Threshold

\* The block is left although the sampling thread may hang for ever.
BlockIsLeft == main = "work" ~> main = "done"
=============================================================================
