---------------------------- MODULE RegistryProofs ----------------------------
(***************************************************************************)
(* Theorems about Registry, for any number of processes, trials, days,     *)
(* jobs and crashes.                                                       *)
(*                                                                         *)
(* Nothing locks anything, so what a pointer promises rests on who may     *)
(* still write where.  Two facts carry the argument.  The manifest of a    *)
(* version whose id was promoted once is the last file to appear there and *)
(* is never changed: who finds it finds a whole bundle (DirOK).  And       *)
(* everything in the root directory, and every stamp a process still       *)
(* carries there, was read from such a manifest or put it there itself     *)
(* (StampOK).  Both hold under any overlap; only what a half written root  *)
(* file may look like depends on writers taking turns (TurnsOK).           *)
(***************************************************************************)
EXTENDS Registry, TLAPS

Jobs == {"none", "promote", "rollback", "load", "score"}

Last(job) == CASE job = "promote"  -> 10
               [] job = "rollback" -> 4
               [] job = "load"     -> 3
               [] job = "score"    -> 8
               [] OTHER            -> 0

Job == [job : Jobs, at : 0 .. 10, raised : BOOLEAN, ver : Versions \cup {NoVersion},
        trial : Trials \cup {NoTrial}, seen : SUBSET Trials, champ : BOOLEAN]

TypeOK ==
  /\ content \in [Paths -> Stamps \cup {Absent, Empty, Torn}]
  /\ handle \in [Procs -> Paths \cup {Unlinked}]
  /\ proc \in [Procs -> Job]
  /\ day \in 1 .. MaxDays
  /\ jobs \in Nat /\ promotions \in Nat /\ crashes \in Nat
  /\ uses \in [Versions -> Nat]
  /\ overlapped \in BOOLEAN

VersionFiles == BundleFiles \cup {"manifest.json.tmp"}
RootNames == RootFiles \cup {"champion.json.tmp", "receipt.json.tmp"}

Is(p, job) == proc[p].job = job

JobOK(p) ==
  /\ proc[p].at <= Last(proc[p].job)
  /\ Is(p, "none") => ~proc[p].raised
  /\ proc[p].raised => proc[p].at < Last(proc[p].job)
  /\ ~Is(p, "none") => proc[p].ver \in Versions
  /\ Is(p, "promote") => proc[p].trial \in Trials
  /\ (Is(p, "rollback") \/ Is(p, "score")) /\ proc[p].at >= 1 =>
       proc[p].trial \in Trials

At(p, job, n) == Is(p, job) /\ proc[p].at = n

WritesChampion(p) == At(p, "promote", 8) \/ At(p, "rollback", 2)
RenamesChampion(p) == At(p, "promote", 9) \/ At(p, "rollback", 3)

\* The places a process is at between open and write, and the file it has
\* open: under the name it opened or the one somebody renamed it to.
HandleOK(p) ==
  handle[p] # Unlinked =>
    LET v == proc[p].ver
    IN  /\ ~proc[p].raised
        /\ \/ At(p, "promote", 1) /\ handle[p] = <<v, "pipeline.skops">>
           \/ At(p, "promote", 3) /\ handle[p] = <<v, "model.ubj">>
           \/ /\ At(p, "promote", 5)
              /\ handle[p] \in {<<v, "manifest.json.tmp">>, <<v, "manifest.json">>}
           \/ /\ WritesChampion(p)
              /\ handle[p] \in {<<Root, "champion.json.tmp">>, Champion}
           \/ At(p, "score", 4) /\ handle[p] = <<Root, "predictions">>
           \/ /\ At(p, "score", 6)
              /\ handle[p] \in {<<Root, "receipt.json.tmp">>, Receipt}

\* Nothing is in the directory of an id never promoted, and an id promoted
\* once has one promotion.
UsesOK ==
  \A v \in Versions :
    /\ uses[v] = 0 =>
         /\ \A p \in Procs : Is(p, "promote") => proc[p].ver # v
         /\ \A f \in VersionFiles : ~Exists(<<v, f>>)
    /\ uses[v] <= 1 =>
         \A p, q \in Procs : /\ Is(p, "promote") /\ proc[p].ver = v
                             /\ Is(q, "promote") /\ proc[q].ver = v
                             => p = q

\* Where there is a manifest there is a bundle.
DirOK ==
  \A v \in Versions :
    uses[v] <= 1 /\ Exists(<<v, "manifest.json">>) => \E t \in Trials : Whole(v, t)

\* Nobody else writes to the version directory of a promotion.
Sole(p) == uses[proc[p].ver] <= 1 \/ (~overlapped /\ Running(p))

Own(p) == Stamp(proc[p].ver, proc[p].trial)

\* What a promotion has put into its directory so far.
PromoteOK(p) ==
  Is(p, "promote") =>
    LET at == proc[p].at
        v  == proc[p].ver
    IN  /\ Sole(p) =>
             /\ at = 1 => /\ handle[p] = <<v, "pipeline.skops">>
                          /\ content[<<v, "pipeline.skops">>] = Empty
             /\ at >= 2 => content[<<v, "pipeline.skops">>] = Own(p)
             /\ at = 3 => /\ handle[p] = <<v, "model.ubj">>
                          /\ content[<<v, "model.ubj">>] = Empty
             /\ at >= 4 => content[<<v, "model.ubj">>] = Own(p)
             /\ at = 5 => /\ handle[p] = <<v, "manifest.json.tmp">>
                          /\ content[<<v, "manifest.json.tmp">>] = Empty
             /\ at = 6 => content[<<v, "manifest.json.tmp">>] = Own(p)
             /\ at >= 7 => content[<<v, "manifest.json">>] = Own(p)
        /\ uses[v] <= 1 /\ at <= 6 => ~Exists(<<v, "manifest.json">>)

\* A stamp that is not stale is that of the manifest it names.
StampOK(s) == uses[s.ver] <= 1 => content[<<s.ver, "manifest.json">>] = s

RootOK ==
  \A f \in {"champion.json", "champion.json.tmp", "receipt.json", "receipt.json.tmp"} :
    Readable(<<Root, f>>) => StampOK(content[<<Root, f>>])

\* What a process still carries to the root directory.
Carries(p) == \/ Is(p, "rollback") /\ proc[p].at >= 1
              \/ Is(p, "score") /\ proc[p].at >= 3
CarryOK(p) == Carries(p) => StampOK(Own(p))

LoadOK(p) ==
  Is(p, "load") /\ proc[p].champ /\ uses[proc[p].ver] <= 1 =>
    /\ ~proc[p].raised
    /\ Exists(<<proc[p].ver, "manifest.json">>)
    /\ proc[p].seen = IF proc[p].at = 0 THEN {}
                      ELSE {content[<<proc[p].ver, "manifest.json">>].trial}

\* While no two writers of one root file are alive, a temporary file is its
\* writer's, and what is renamed is whole.
TurnOK(p) ==
  /\ WritesChampion(p) => /\ handle[p] = <<Root, "champion.json.tmp">>
                          /\ content[<<Root, "champion.json.tmp">>] = Empty
  /\ RenamesChampion(p) => content[<<Root, "champion.json.tmp">>] = Own(p)
  /\ At(p, "score", 6) => /\ handle[p] = <<Root, "receipt.json.tmp">>
                          /\ content[<<Root, "receipt.json.tmp">>] = Empty
  /\ At(p, "score", 7) => content[<<Root, "receipt.json.tmp">>] = Own(p)

TurnsOK ==
  ~overlapped =>
    /\ \A p, q \in Procs : /\ Running(p) /\ Running(q)
                           /\ proc[p].job \in Competitors(proc[q].job)
                           => p = q
    /\ content[Champion] \in Stamps \cup {Absent}
    /\ content[Receipt] \in Stamps \cup {Absent}
    /\ \A p \in Procs : Running(p) => TurnOK(p)

ProcOK(p) == JobOK(p) /\ HandleOK(p) /\ PromoteOK(p) /\ CarryOK(p) /\ LoadOK(p)

ProcsOK == \A p \in Procs : ProcOK(p)

IInv == TypeOK /\ ProcsOK /\ UsesOK /\ DirOK /\ RootOK /\ TurnsOK

-----------------------------------------------------------------------------
(* Scripts                                                                 *)

Call(op, f) == [op |-> op, file |-> f]

LEMMA PromoteCalls ==
  /\ Len(Script("promote")) = 10
  /\ Script("promote")[1] = Call("open", "pipeline.skops")
  /\ Script("promote")[2] = Call("write", "pipeline.skops")
  /\ Script("promote")[3] = Call("open", "model.ubj")
  /\ Script("promote")[4] = Call("write", "model.ubj")
  /\ Script("promote")[5] = Call("open", "manifest.json.tmp")
  /\ Script("promote")[6] = Call("write", "manifest.json.tmp")
  /\ Script("promote")[7] = Call("replace", "manifest.json")
  /\ Script("promote")[8] = Call("open", "champion.json.tmp")
  /\ Script("promote")[9] = Call("write", "champion.json.tmp")
  /\ Script("promote")[10] = Call("replace", "champion.json")
  BY DEF Script, PromoteScript, SaveBundle, WriteChampion, WriteInPlace,
         WriteAtomically, Do, Tmp, Call

LEMMA RollbackCalls ==
  /\ Len(Script("rollback")) = 4
  /\ Script("rollback")[1] = Call("read", "manifest.json")
  /\ Script("rollback")[2] = Call("open", "champion.json.tmp")
  /\ Script("rollback")[3] = Call("write", "champion.json.tmp")
  /\ Script("rollback")[4] = Call("replace", "champion.json")
  BY DEF Script, RollbackScript, WriteChampion, WriteInPlace, WriteAtomically, Do,
         Tmp, Call

LEMMA LoadCalls ==
  /\ Len(Script("load")) = 3
  /\ Script("load")[1] = Call("read", "pipeline.skops")
  /\ Script("load")[2] = Call("read", "model.ubj")
  /\ Script("load")[3] = Call("read", "manifest.json")
  BY DEF Script, LoadBundle, Do, Call

LEMMA ScoreCalls ==
  /\ Len(Script("score")) = 8
  /\ Script("score")[1] = Call("read", "pipeline.skops")
  /\ Script("score")[2] = Call("read", "model.ubj")
  /\ Script("score")[3] = Call("read", "manifest.json")
  /\ Script("score")[4] = Call("open", "predictions")
  /\ Script("score")[5] = Call("write", "predictions")
  /\ Script("score")[6] = Call("open", "receipt.json.tmp")
  /\ Script("score")[7] = Call("write", "receipt.json.tmp")
  /\ Script("score")[8] = Call("replace", "receipt.json")
  BY DEF Script, ScoreScript, LoadBundle, WriteInPlace, WriteAtomically, Do, Tmp,
         Call

LEMMA ScriptLengths == \A job \in Jobs : Len(Script(job)) = Last(job)
<1>1. Len(Script("none")) = 0
  BY DEF Script
<1> QED
  BY <1>1, PromoteCalls, RollbackCalls, LoadCalls, ScoreCalls DEF Jobs, Last

\* The places a process is at when it is about to make a call of some kind.
LEMMA Sites ==
  ASSUME TypeOK, NEW p \in Procs, Running(p)
  PROVE  /\ Step(p).op = "open" =>
              \/ At(p, "promote", 0) /\ Step(p).file = "pipeline.skops"
              \/ At(p, "promote", 2) /\ Step(p).file = "model.ubj"
              \/ At(p, "promote", 4) /\ Step(p).file = "manifest.json.tmp"
              \/ At(p, "promote", 7) /\ Step(p).file = "champion.json.tmp"
              \/ At(p, "rollback", 1) /\ Step(p).file = "champion.json.tmp"
              \/ At(p, "score", 3) /\ Step(p).file = "predictions"
              \/ At(p, "score", 5) /\ Step(p).file = "receipt.json.tmp"
         /\ Step(p).op = "write" =>
              \/ At(p, "promote", 1) /\ Step(p).file = "pipeline.skops"
              \/ At(p, "promote", 3) /\ Step(p).file = "model.ubj"
              \/ At(p, "promote", 5) /\ Step(p).file = "manifest.json.tmp"
              \/ WritesChampion(p) /\ Step(p).file = "champion.json.tmp"
              \/ At(p, "score", 4) /\ Step(p).file = "predictions"
              \/ At(p, "score", 6) /\ Step(p).file = "receipt.json.tmp"
         /\ Step(p).op = "replace" =>
              \/ At(p, "promote", 6) /\ Step(p).file = "manifest.json"
              \/ RenamesChampion(p) /\ Step(p).file = "champion.json"
              \/ At(p, "score", 7) /\ Step(p).file = "receipt.json"
         /\ Step(p).op = "read" =>
              \/ At(p, "rollback", 0) /\ Step(p).file = "manifest.json"
              \/ /\ Is(p, "load") \/ Is(p, "score")
                 /\ proc[p].at \in 0 .. 1
                 /\ Step(p).file \in {"pipeline.skops", "model.ubj"}
              \/ /\ At(p, "load", 2) \/ At(p, "score", 2)
                 /\ Step(p).file = "manifest.json"
<1> USE DEF Is, At, WritesChampion, RenamesChampion, Call
<1>1. proc[p].job \in Jobs /\ proc[p].at \in Nat /\ proc[p].at < Last(proc[p].job)
  <2>1. proc[p].job \in Jobs /\ proc[p].at \in Nat
    BY DEF TypeOK, Job
  <2>2. Length(p) = Last(proc[p].job)
    BY <2>1, ScriptLengths DEF Length
  <2>3. proc[p].at < Length(p)
    BY DEF Running
  <2> QED BY <2>1, <2>2, <2>3
<1>2. CASE Is(p, "promote")
  <2>1. proc[p].at \in 0 .. 9
    BY <1>1, <1>2 DEF Last
  <2> QED BY <1>2, <2>1, PromoteCalls DEF Step
<1>3. CASE Is(p, "rollback")
  <2>1. proc[p].at \in 0 .. 3
    BY <1>1, <1>3 DEF Last
  <2> QED BY <1>3, <2>1, RollbackCalls DEF Step
<1>4. CASE Is(p, "load")
  <2>1. proc[p].at \in 0 .. 2
    BY <1>1, <1>4 DEF Last
  <2> QED BY <1>4, <2>1, LoadCalls DEF Step
<1>5. CASE Is(p, "score")
  <2>1. proc[p].at \in 0 .. 7
    BY <1>1, <1>5 DEF Last
  <2> QED BY <1>5, <2>1, ScoreCalls DEF Step
<1>6. ~Is(p, "none")
  BY <1>1 DEF Last
<1> QED BY <1>1, <1>2, <1>3, <1>4, <1>5, <1>6 DEF Jobs

-----------------------------------------------------------------------------
(* Frames                                                                  *)

LEMMA PathFacts ==
  /\ \A v \in Versions, f \in VersionFiles : <<v, f>> \in Paths
  /\ \A f \in RootNames : <<Root, f>> \in Paths
  /\ Root \notin Versions /\ Unlinked \notin Paths
  /\ Absent \notin Stamps /\ Empty \notin Stamps /\ Torn \notin Stamps
  /\ Absent # Empty /\ Absent # Torn /\ Empty # Torn
  BY FilesAssumption DEF Distinct, Paths, VersionFiles, RootNames

LEMMA CarriedStamp ==
  ASSUME IInv, NEW p \in Procs, Carries(p)
  PROVE  Own(p) \in Stamps /\ proc[p].ver \in Versions
<1>1. proc[p] \in Job /\ JobOK(p)
  BY DEF IInv, TypeOK, ProcsOK, ProcOK
<1>2. proc[p].at \in Nat
  BY <1>1 DEF Job
<1>3. proc[p].ver \in Versions /\ proc[p].trial \in Trials
  BY <1>1, <1>2 DEF Carries, JobOK, Is
<1> QED BY <1>3 DEF Own, Stamp, Stamps

\* A process whose own facts hold, and whose version directory and handle stay,
\* goes on as before.
LEMMA OtherStays ==
  ASSUME IInv, NEW q \in Procs, proc'[q] = proc[q], HandleOK(q)',
         \A f \in VersionFiles : proc[q].ver \in Versions =>
           content'[<<proc[q].ver, f>>] = content[<<proc[q].ver, f>>],
         handle'[q] = handle[q] \/ \E f \in RootNames : handle[q] = <<Root, f>>,
         proc[q].ver \in Versions => uses[proc[q].ver] <= uses'[proc[q].ver],
         proc[q].ver \in Versions => uses'[proc[q].ver] \in Nat,
         overlapped => overlapped'
  PROVE  ProcOK(q)'
<1>1. /\ JobOK(q) /\ PromoteOK(q) /\ CarryOK(q) /\ LoadOK(q)
      /\ uses \in [Versions -> Nat] /\ proc[q] \in Job
  BY DEF IInv, ProcsOK, ProcOK, TypeOK
<1>2. JobOK(q)'
  BY <1>1 DEF JobOK, Is
<1>3. (Running(q) <=> Running(q)') /\ Own(q)' = Own(q)
  BY DEF Running, Length, Own
<1>4. /\ proc[q].ver \in Versions => (uses'[proc[q].ver] <= 1 => uses[proc[q].ver] <= 1)
      /\ proc[q].ver \in Versions /\ Sole(q)' => Sole(q)
  BY <1>1, <1>3 DEF Sole
<1>5. \A f \in RootNames : handle[q] = <<Root, f>> =>
        \A g : proc[q].ver \in Versions => handle[q] # <<proc[q].ver, g>>
  BY PathFacts
<1>6. PromoteOK(q)'
  BY <1>1, <1>3, <1>4, <1>5 DEF PromoteOK, Is, JobOK, VersionFiles, BundleFiles,
     Exists
<1>7. CarryOK(q)'
  BY <1>1, <1>3, <1>4 DEF CarryOK, Carries, StampOK, Is, JobOK, VersionFiles, BundleFiles,
     Own, Stamp
<1>8. LoadOK(q)'
  <2>1. Is(q, "load") =>
          content'[<<proc[q].ver, "manifest.json">>] = content[<<proc[q].ver, "manifest.json">>]
    BY <1>1 DEF JobOK, Is, VersionFiles, BundleFiles
  <2>2. Is(q, "load") => proc[q].ver \in Versions
    BY <1>1 DEF JobOK, Is
  <2> QED BY <1>1, <1>4, <2>1, <2>2 DEF LoadOK, Is, Exists
<1> QED BY <1>2, <1>6, <1>7, <1>8 DEF ProcOK

\* A step of p that writes to no version directory.
LEMMA RootStep ==
  ASSUME IInv, NEW p \in Procs, TypeOK',
         \A q \in Procs \ {p} : proc'[q] = proc[q],
         \A v \in Versions, f \in VersionFiles : content'[<<v, f>>] = content[<<v, f>>],
         \A q \in Procs \ {p} : \/ handle'[q] = handle[q]
                                \/ \E f \in RootNames : handle[q] = <<Root, f>>,
         \A q \in Procs \ {p} : HandleOK(q)',
         Is(p, "promote")' => Is(p, "promote") /\ proc'[p].ver = proc[p].ver,
         UNCHANGED <<uses, overlapped>>,
         ProcOK(p)', RootOK', TurnsOK'
  PROVE  IInv'
<1>1. uses \in [Versions -> Nat] /\ proc \in [Procs -> Job]
  BY DEF IInv, TypeOK
<1>2. ProcsOK'
  <2> SUFFICES ASSUME NEW q \in Procs, q # p PROVE ProcOK(q)'
    BY DEF ProcsOK
  <2> QED BY <1>1, OtherStays
<1>3. UsesOK'
  <2>1. \A q \in Procs : Is(q, "promote")' => Is(q, "promote") /\ proc'[q].ver = proc[q].ver
    BY DEF Is
  <2> QED BY <2>1, <1>1 DEF IInv, UsesOK, Exists, VersionFiles
<1>4. DirOK'
  BY <1>1 DEF IInv, DirOK, Exists, Whole, VersionFiles, BundleFiles
<1> QED BY <1>2, <1>3, <1>4 DEF IInv

\* A step of a promotion in its own version directory.
LEMMA DirStep ==
  ASSUME IInv, NEW p \in Procs, TypeOK',
         Is(p, "promote"), Running(p), proc[p].at <= 6, Advance(p),
         \A v \in Versions \ {proc[p].ver}, f \in VersionFiles :
           content'[<<v, f>>] = content[<<v, f>>],
         \A f \in RootNames : content'[<<Root, f>>] = content[<<Root, f>>],
         \A q \in Procs \ {p} :
           \/ handle'[q] = handle[q]
           \/ \E f \in VersionFiles : handle[q] = <<proc[p].ver, f>>,
         \A q \in Procs : HandleOK(q)',
         UNCHANGED <<uses, overlapped>>,
         PromoteOK(p)',
         uses[proc[p].ver] <= 1 =>
           \/ content'[<<proc[p].ver, "manifest.json">>] = Absent
           \/ \A f \in BundleFiles : content'[<<proc[p].ver, f>>] = Own(p)
  PROVE  IInv'
<1> DEFINE v == proc[p].ver
<1>1. /\ uses \in [Versions -> Nat] /\ proc \in [Procs -> Job] /\ proc[p] \in Job
      /\ JobOK(p) /\ v \in Versions /\ proc[p].trial \in Trials
      /\ proc[p].at \in Nat
  BY DEF IInv, TypeOK, ProcsOK, ProcOK, JobOK, Is, Job
<1>2. /\ proc' \in [Procs -> Job] /\ proc'[p] = [proc[p] EXCEPT !.at = @ + 1]
      /\ \A q \in Procs \ {p} : proc'[q] = proc[q]
  BY <1>1 DEF Advance, TypeOK
<1>3. /\ proc'[p].job = "promote" /\ proc'[p].at = proc[p].at + 1 /\ proc'[p].ver = v
      /\ proc'[p].raised = proc[p].raised /\ proc'[p].trial = proc[p].trial
  BY <1>1, <1>2 DEF Is, Job
<1>4. \A q \in Procs : (Running(q) <=> Running(q)') /\ Own(q)' = Own(q)
  <2>1. \A q \in Procs \ {p} : (Running(q) <=> Running(q)') /\ Own(q)' = Own(q)
    BY <1>2 DEF Running, Length, Own
  <2>2. Own(p)' = Own(p)
    BY <1>3 DEF Own
  <2>3. Len(Script(proc'[p].job)) = 10 /\ proc'[p].at < 10 /\ ~proc'[p].raised
    <3>1. Len(Script("promote")) = 10
      BY PromoteCalls
    <3>2. proc'[p].at < 10 /\ ~proc'[p].raised
      BY <1>1, <1>3 DEF Running
    <3> QED BY <1>3, <3>1, <3>2
  <2>4. Running(p)'
    BY <2>3 DEF Running, Length
  <2> QED BY <2>1, <2>2, <2>4
\* Nobody else promotes this version while p is sure of it.
<1>5. \A q \in Procs \ {p} : Is(q, "promote") /\ Sole(q) => proc[q].ver # v
  BY <1>1 DEF IInv, UsesOK, TurnsOK, Sole, Is, Competitors
\* Nothing in the root directory leads here yet.
<1>6. uses[v] <= 1 => ~Exists(<<v, "manifest.json">>)
  BY <1>1 DEF IInv, ProcsOK, ProcOK, PromoteOK
<1>7. /\ \A s \in Stamps : StampOK(s) => StampOK(s)'
  <2> SUFFICES ASSUME NEW s \in Stamps, StampOK(s) PROVE StampOK(s)'
    OBVIOUS
  <2>1. CASE s.ver = v
    BY <2>1, <1>1, <1>6, PathFacts DEF StampOK, Exists
  <2>2. CASE s.ver # v
    BY <2>2 DEF StampOK, Stamps, VersionFiles, BundleFiles
  <2> QED BY <2>1, <2>2
<1>8. ASSUME NEW q \in Procs, q # p PROVE ProcOK(q)'
  <2>1. ProcOK(q) /\ proc'[q] = proc[q] /\ proc[q] \in Job
    BY <1>1, <1>2, <1>8 DEF IInv, ProcsOK
  <2>2. JobOK(q)' /\ (Sole(q) <=> Sole(q)')
    BY <2>1, <1>4 DEF ProcOK, JobOK, Is, Sole
  <2>5. CarryOK(q)'
    <3>1. CASE Carries(q)
      BY <1>4, <1>7, <2>1, <3>1, CarriedStamp DEF ProcOK, CarryOK
    <3>2. CASE ~Carries(q)
      BY <2>1, <3>2 DEF CarryOK, Carries, Is
    <3> QED BY <3>1, <3>2
  <2>3. CASE proc[q].ver # v
    <3>1. handle'[q] = handle[q] \/ \E f \in VersionFiles : handle[q] = <<v, f>>
      BY <1>8
    <3>2. PromoteOK(q)'
      BY <1>4, <2>1, <2>2, <2>3, <3>1
         DEF ProcOK, JobOK, PromoteOK, Is, VersionFiles, BundleFiles, Exists
    <3>3. Is(q, "load") =>
            content'[<<proc[q].ver, "manifest.json">>] = content[<<proc[q].ver, "manifest.json">>]
      BY <2>1, <2>3 DEF ProcOK, JobOK, Is, VersionFiles, BundleFiles
    <3>4. LoadOK(q)'
      BY <2>1, <3>3 DEF ProcOK, LoadOK, Is, Exists
    <3> QED BY <2>2, <2>5, <3>2, <3>4, <1>8 DEF ProcOK
  <2>4. CASE proc[q].ver = v
    <3>1. PromoteOK(q)'
      BY <1>5, <1>8, <2>1, <2>2, <2>4, <1>1 DEF PromoteOK, Sole, Is
    <3>2. LoadOK(q)'
      BY <1>1, <1>6, <2>1, <2>4 DEF ProcOK, LoadOK, Is
    <3> QED BY <2>2, <2>5, <3>1, <3>2, <1>8 DEF ProcOK
  <2> QED BY <2>3, <2>4
<1>9. ProcOK(p)'
  <2>1. JobOK(p)'
    BY <1>1, <1>3 DEF JobOK, Is, Last
  <2>2. CarryOK(p)' /\ LoadOK(p)'
    BY <1>3 DEF CarryOK, Carries, LoadOK, Is
  <2> QED BY <2>1, <2>2 DEF ProcOK
<1>10. ProcsOK'
  BY <1>8, <1>9 DEF ProcsOK
<1>11. UsesOK'
  <2>1. \A q \in Procs : (Is(q, "promote")' <=> Is(q, "promote")) /\ proc'[q].ver = proc[q].ver
    BY <1>2, <1>3 DEF Is
  <2>2. uses[v] # 0
    BY <1>1 DEF IInv, UsesOK
  <2>3. ASSUME NEW w \in Versions, uses[w] = 0, NEW f \in VersionFiles
        PROVE ~Exists(<<w, f>>)'
    BY <2>2, <2>3 DEF IInv, UsesOK, Exists
  <2> QED BY <2>1, <2>3, <1>1 DEF IInv, UsesOK
<1>12. DirOK'
  <2> SUFFICES ASSUME NEW w \in Versions, uses[w] <= 1, Exists(<<w, "manifest.json">>)'
               PROVE  \E t \in Trials : Whole(w, t)'
    BY DEF DirOK
  <2>1. CASE w = v
    <3>1. \A f \in BundleFiles : content'[<<v, f>>] = Own(p)
      BY <2>1 DEF Exists
    <3>2. PICK t \in Trials : t = proc[p].trial
      BY <1>1
    <3>3. \A f \in BundleFiles : content'[<<w, f>>] = Stamp(w, t)
      BY <2>1, <3>1, <3>2 DEF Own
    <3> QED BY <3>3 DEF Whole
  <2>2. CASE w # v
    <3>1. \A f \in VersionFiles : content'[<<w, f>>] = content[<<w, f>>]
      BY <2>2
    <3>2. PICK t \in Trials : Whole(w, t)
      BY <3>1 DEF IInv, DirOK, Exists, VersionFiles, BundleFiles
    <3>3. Whole(w, t)'
      BY <3>1, <3>2 DEF Whole, VersionFiles
    <3> QED BY <3>3
  <2> QED BY <2>1, <2>2
<1>13. RootOK'
  <2>1. \A f \in RootNames : Readable(<<Root, f>>)' =>
           Readable(<<Root, f>>) /\ content'[<<Root, f>>] = content[<<Root, f>>]
           /\ content[<<Root, f>>] \in Stamps
    BY DEF Readable
  <2> QED BY <2>1, <1>7 DEF IInv, RootOK, RootNames, RootFiles
<1>14. TurnsOK'
  <2> SUFFICES ASSUME ~overlapped PROVE TurnsOK'
    BY DEF TurnsOK
  <2>1. \A q \in Procs : proc'[q].job = proc[q].job
    BY <1>2, <1>3 DEF Is
  <2>2. ASSUME NEW q \in Procs, NEW r \in Procs, Running(q)', Running(r)',
               proc'[q].job \in Competitors(proc'[r].job)
        PROVE  q = r
    BY <2>1, <2>2, <1>4 DEF IInv, TurnsOK
  <2>3. content'[Champion] = content[Champion] /\ content'[Receipt] = content[Receipt]
    BY DEF Champion, Receipt, RootNames, RootFiles
  <2>4. ~WritesChampion(p)' /\ ~RenamesChampion(p)' /\ ~At(p, "score", 6)' /\ ~At(p, "score", 7)'
    BY <1>1, <1>3 DEF WritesChampion, RenamesChampion, At, Is
  <2>5. \A q \in Procs \ {p} : \A f \in RootNames :
          handle[q] = <<Root, f>> => handle'[q] = handle[q]
    BY <1>1, PathFacts
  <2>6. ASSUME NEW q \in Procs, Running(q)' PROVE TurnOK(q)'
    <3>1. CASE q = p
      BY <2>4, <3>1 DEF TurnOK
    <3>2. CASE q # p
      <4>1. TurnOK(q) /\ proc'[q] = proc[q] /\ Own(q)' = Own(q)
        BY <1>2, <1>4, <2>6, <3>2 DEF IInv, TurnsOK
      <4> QED
        BY <2>5, <3>2, <4>1 DEF TurnOK, WritesChampion, RenamesChampion, At, Is,
           RootNames
    <3> QED BY <3>1, <3>2
  <2> QED BY <2>2, <2>3, <2>6 DEF IInv, TurnsOK
<1> QED BY <1>10, <1>11, <1>12, <1>13, <1>14 DEF IInv

-----------------------------------------------------------------------------
(* What holds at a step                                                    *)

LEMMA State ==
  ASSUME IInv, NEW p \in Procs
  PROVE  /\ content \in [Paths -> Stamps \cup {Absent, Empty, Torn}]
         /\ handle \in [Procs -> Paths \cup {Unlinked}]
         /\ uses \in [Versions -> Nat] /\ proc \in [Procs -> Job]
         /\ proc[p] \in Job /\ proc[p].at \in Nat /\ proc[p].job \in Jobs
         /\ TypeOK /\ ProcOK(p)
         /\ JobOK(p) /\ HandleOK(p) /\ PromoteOK(p) /\ CarryOK(p) /\ LoadOK(p)
         /\ UsesOK /\ DirOK /\ RootOK /\ TurnsOK
  BY DEF IInv, TypeOK, ProcsOK, ProcOK, Job

LEMMA Busy ==
  ASSUME IInv, NEW p \in Procs, Running(p)
  PROVE  /\ ~Is(p, "none") /\ proc[p].ver \in Versions
         /\ proc[p].at < Last(proc[p].job) /\ proc[p].at \in 0 .. 9
         /\ ~proc[p].raised /\ Last(proc[p].job) \in 0 .. 10
<1>1. Length(p) = Last(proc[p].job)
  BY State, ScriptLengths DEF Length
<1>2. Last(proc[p].job) \in 0 .. 10 /\ Last("none") = 0
  BY DEF Last
<1>3. proc[p].at < Last(proc[p].job)
  BY <1>1 DEF Running
<1> QED BY <1>1, <1>2, <1>3, State DEF Running, JobOK, Is

\* The process after a call that did not raise.
LEMMA Advanced ==
  ASSUME IInv, NEW p \in Procs, Running(p), Advance(p),
         Is(p, "rollback") \/ Is(p, "score") => proc[p].at >= 1
  PROVE  /\ proc' \in [Procs -> Job] /\ JobOK(p)'
         /\ \A q \in Procs \ {p} : proc'[q] = proc[q]
         /\ \A j : Is(p, j)' <=> Is(p, j)
         /\ proc'[p].job = proc[p].job /\ proc'[p].at = proc[p].at + 1
         /\ proc'[p].ver = proc[p].ver /\ proc'[p].trial = proc[p].trial
         /\ proc'[p].seen = proc[p].seen /\ proc'[p].champ = proc[p].champ
         /\ proc'[p].raised = proc[p].raised
         /\ Own(p)' = Own(p)
<1>1. proc'[p] = [proc[p] EXCEPT !.at = proc[p].at + 1]
  BY State DEF Advance
<1>2. /\ proc'[p].job = proc[p].job /\ proc'[p].at = proc[p].at + 1
      /\ proc'[p].ver = proc[p].ver /\ proc'[p].trial = proc[p].trial
      /\ proc'[p].seen = proc[p].seen /\ proc'[p].champ = proc[p].champ
      /\ proc'[p].raised = proc[p].raised
  BY <1>1, State DEF Job
<1>3. proc'[p] \in Job
  BY <1>1, State, Busy DEF Job
<1>4. proc' \in [Procs -> Job] /\ \A q \in Procs \ {p} : proc'[q] = proc[q]
  BY <1>1, <1>3, State DEF Advance
<1>5. JobOK(p)'
  BY <1>2, State, Busy DEF JobOK, Is
<1>6. Own(p)' = Own(p) /\ \A j : Is(p, j)' <=> Is(p, j)
  BY <1>2 DEF Own, Is
<1> QED BY <1>2, <1>4, <1>5, <1>6

\* What a process writes is a stamp of a trial.
LEMMA Writes ==
  ASSUME IInv, NEW p \in Procs, Is(p, "promote") \/ Carries(p)
  PROVE  Own(p) \in Stamps /\ proc[p].ver \in Versions /\ proc[p].trial \in Trials
         /\ Own(p).ver = proc[p].ver
<1>1. proc[p].ver \in Versions /\ proc[p].trial \in Trials
  BY State DEF JobOK, Is, Carries
<1> QED BY <1>1 DEF Own, Stamp, Stamps

\* A process goes on and the versions' files stay: what it knew it still knows.
LEMMA TurnsStep ==
  ASSUME IInv, NEW p \in Procs,
         \A q \in Procs \ {p} : proc'[q] = proc[q],
         Running(p)' => Running(p) /\ proc'[p].job = proc[p].job,
         UNCHANGED overlapped,
         ~overlapped => /\ content'[Champion] \in Stamps \cup {Absent}
                        /\ content'[Receipt] \in Stamps \cup {Absent},
         ~overlapped /\ Running(p)' => TurnOK(p)',
         ASSUME NEW q \in Procs \ {p}, ~overlapped, Running(q), TurnOK(q) PROVE TurnOK(q)'
  PROVE  TurnsOK'
<1> SUFFICES ASSUME ~overlapped PROVE TurnsOK'
  BY DEF TurnsOK
<1>1. TurnsOK
  BY DEF IInv
<1>2. \A q \in Procs \ {p} : Running(q)' <=> Running(q)
  BY DEF Running, Length
<1>3. \A q \in Procs : Running(q)' => Running(q) /\ proc'[q].job = proc[q].job
  BY <1>2
<1>4. \A q \in Procs : Running(q)' => TurnOK(q)'
  BY <1>1, <1>3 DEF TurnsOK
<1> QED BY <1>1, <1>3, <1>4 DEF TurnsOK

LEMMA TurnStays ==
  ASSUME NEW q \in Procs, TurnOK(q), proc'[q] = proc[q],
         proc[q].job \in {"promote", "rollback"} =>
           /\ handle'[q] = handle[q]
           /\ content'[<<Root, "champion.json.tmp">>] = content[<<Root, "champion.json.tmp">>],
         proc[q].job = "score" =>
           /\ handle'[q] = handle[q]
           /\ content'[<<Root, "receipt.json.tmp">>] = content[<<Root, "receipt.json.tmp">>]
  PROVE  TurnOK(q)'
  BY DEF TurnOK, WritesChampion, RenamesChampion, At, Is, Own

\* Nobody takes turns with a process in the same file.
LEMMA Alone ==
  ASSUME IInv, NEW p \in Procs, NEW q \in Procs \ {p}, ~overlapped, Running(p), Running(q)
  PROVE  /\ proc[p].job \in {"promote", "rollback"} => proc[q].job \notin {"promote", "rollback"}
         /\ proc[p].job = "score" => proc[q].job # "score"
  BY State DEF TurnsOK, Competitors

-----------------------------------------------------------------------------
(* Jobs start                                                              *)

LEMMA StartStep ==
  ASSUME IInv, NEW p \in Procs, NEW job \in Jobs \ {"none"}, NEW v \in Versions,
         NEW t \in Trials \cup {NoTrial}, NEW champ \in BOOLEAN,
         Start(p, job, v, t, champ), promotions' \in Nat,
         \/ job = "promote" /\ t \in Trials /\ uses' = [uses EXCEPT ![v] = @ + 1]
         \/ job # "promote" /\ uses' = uses,
         LoadOK(p)'
  PROVE  IInv'
<1>1. /\ uses \in [Versions -> Nat] /\ proc \in [Procs -> Job] /\ Is(p, "none")
      /\ UNCHANGED <<content, handle, day, crashes>> /\ TypeOK /\ UsesOK /\ DirOK
      /\ RootOK /\ TurnsOK /\ HandleOK(p)
  BY State DEF Start, Is
<1>2. /\ proc'[p].job = job /\ proc'[p].at = 0 /\ proc'[p].ver = v /\ proc'[p].trial = t
      /\ ~proc'[p].raised /\ proc'[p] \in Job /\ proc' \in [Procs -> Job]
      /\ \A q \in Procs \ {p} : proc'[q] = proc[q]
  <2>1. proc'[p] = [NoJob EXCEPT !.job = job, !.ver = v, !.trial = t, !.champ = champ]
    BY <1>1 DEF Start
  <2>2. /\ proc'[p].job = job /\ proc'[p].at = 0 /\ proc'[p].ver = v /\ proc'[p].trial = t
        /\ ~proc'[p].raised /\ proc'[p] \in Job
    <3>1. proc'[p] = [job |-> job, at |-> 0, raised |-> FALSE, ver |-> v, trial |-> t,
                      seen |-> {}, champ |-> champ]
      BY <2>1 DEF NoJob
    <3> QED BY <3>1 DEF Job
  <2> QED BY <1>1, <2>1, <2>2 DEF Start
<1>3. /\ uses' \in [Versions -> Nat]
      /\ \A w \in Versions : uses[w] <= uses'[w] /\ (w # v => uses'[w] = uses[w])
      /\ job = "promote" => uses'[v] = uses[v] + 1
  BY <1>1
<1>4. TypeOK' /\ (overlapped => overlapped')
  BY <1>1, <1>2, <1>3 DEF TypeOK, Start
<1>5. handle[p] = Unlinked
  BY <1>1 DEF HandleOK, At, WritesChampion, Is
<1>6. ASSUME NEW q \in Procs, q # p PROVE ProcOK(q)'
  <2>1. HandleOK(q) /\ proc'[q] = proc[q]
    BY <1>2, <1>6, State
  <2>2. HandleOK(q)'
    BY <1>1, <2>1 DEF HandleOK, At, WritesChampion, Is
  <2> QED BY <1>1, <1>3, <1>4, <2>1, <2>2, OtherStays
<1>7. ProcOK(p)'
  <2>1. JobOK(p)' /\ CarryOK(p)'
    BY <1>2 DEF JobOK, CarryOK, Carries, Is, Last, Jobs
  <2>2. HandleOK(p)'
    BY <1>1, <1>5 DEF HandleOK
  <2>3. job = "promote" /\ uses'[v] <= 1 => ~Exists(<<v, "manifest.json">>)
    <3>1. job = "promote" /\ uses'[v] <= 1 => uses[v] = 0
      BY <1>1, <1>3
    <3>2. "manifest.json" \in VersionFiles
      BY DEF VersionFiles, BundleFiles
    <3> QED BY <1>1, <3>1, <3>2 DEF UsesOK
  <2>4. PromoteOK(p)'
    BY <1>1, <1>2, <2>3 DEF PromoteOK, Is, Exists
  <2> QED BY <2>1, <2>2, <2>4 DEF ProcOK
<1>8. UsesOK'
  <2> SUFFICES ASSUME NEW w \in Versions
               PROVE  /\ uses'[w] = 0 =>
                           /\ \A q \in Procs : Is(q, "promote")' => proc'[q].ver # w
                           /\ \A f \in VersionFiles : ~Exists(<<w, f>>)
                      /\ uses'[w] <= 1 =>
                           \A q, r \in Procs : /\ Is(q, "promote")' /\ proc'[q].ver = w
                                               /\ Is(r, "promote")' /\ proc'[r].ver = w
                                               => q = r
    BY <1>1 DEF UsesOK, Exists
  <2>1. \A q \in Procs \ {p} : Is(q, "promote")' /\ proc'[q].ver = w
                               => Is(q, "promote") /\ proc[q].ver = w
    BY <1>2 DEF Is
  <2>2. Is(p, "promote")' /\ proc'[p].ver = w => v = w /\ uses'[w] = uses[w] + 1
    BY <1>2, <1>3 DEF Is
  <2> QED BY <1>1, <1>3, <2>1, <2>2 DEF UsesOK
<1>9. DirOK'
  BY <1>1, <1>3 DEF DirOK, Exists, Whole
<1>10. RootOK'
  <2>1. \A s \in Stamps : StampOK(s) => StampOK(s)'
    BY <1>1, <1>3 DEF StampOK, Stamps
  <2> QED BY <1>1, <2>1 DEF RootOK, Readable
<1>11. TurnsOK'
  <2> SUFFICES ASSUME ~overlapped' PROVE TurnsOK'
    BY DEF TurnsOK
  <2>1. ~overlapped /\ \A q \in Procs : Running(q) => proc[q].job \notin Competitors(job)
    BY DEF Start
  <2>2. \A q \in Procs \ {p} : Running(q)' <=> Running(q)
    BY <1>2 DEF Running, Length
  <2>3. \A a, b : a \in Competitors(b) <=> b \in Competitors(a)
    BY DEF Competitors
  <2>4. ASSUME NEW q \in Procs, Running(q)' PROVE TurnOK(q)'
    <3>1. CASE q = p
      BY <1>2, <3>1 DEF TurnOK, WritesChampion, RenamesChampion, At, Is
    <3>2. CASE q # p
      <4>1. TurnOK(q)
        BY <1>1, <2>1, <2>2, <2>4, <3>2 DEF TurnsOK
      <4> QED BY <1>1, <1>2, <3>2, <4>1, TurnStays
    <3> QED BY <3>1, <3>2
  <2>5. ASSUME NEW q \in Procs, NEW r \in Procs, Running(q)', Running(r)',
               proc'[q].job \in Competitors(proc'[r].job)
        PROVE  q = r
    <3>1. CASE q # p /\ r # p
      BY <1>1, <1>2, <2>1, <2>2, <2>5, <3>1 DEF TurnsOK
    <3>2. CASE q # p /\ r = p
      BY <1>2, <2>1, <2>2, <2>5, <3>2
    <3>3. CASE q = p /\ r # p
      BY <1>2, <2>1, <2>2, <2>3, <2>5, <3>3
    <3> QED BY <3>1, <3>2, <3>3
  <2>6. content'[Champion] = content[Champion] /\ content'[Receipt] = content[Receipt]
    BY <1>1
  <2> QED BY <1>1, <2>1, <2>4, <2>5, <2>6 DEF TurnsOK
<1> QED BY <1>4, <1>6, <1>7, <1>8, <1>9, <1>10, <1>11 DEF IInv, ProcsOK

LEMMA Promoting ==
  ASSUME IInv, NEW p \in Procs, StartPromote(p)
  PROVE  IInv'
<1>1. PICK t \in Trials : /\ Start(p, "promote", VersionOf(t), t, FALSE)
                          /\ promotions' = promotions + 1
                          /\ uses' = [uses EXCEPT ![VersionOf(t)] = @ + 1]
  BY DEF StartPromote
<1>2. VersionOf(t) \in Versions /\ promotions' \in Nat
  BY <1>1, State, CfgOfAssumption DEF VersionOf, Versions, TypeOK
<1>3. proc'[p].job = "promote"
  BY <1>1, State DEF Start, NoJob
<1>4. LoadOK(p)'
  BY <1>3 DEF LoadOK, Is
<1> QED BY <1>1, <1>2, <1>4, StartStep DEF Jobs

LEMMA RollingBack ==
  ASSUME IInv, NEW p \in Procs, StartRollback(p)
  PROVE  IInv'
<1>1. PICK v \in Versions : Start(p, "rollback", v, NoTrial, FALSE)
  BY DEF StartRollback
<1>2. promotions' \in Nat /\ uses' = uses
  BY State DEF StartRollback, TypeOK
<1>3. proc'[p].job = "rollback"
  BY <1>1, State DEF Start, NoJob
<1>4. LoadOK(p)'
  BY <1>3 DEF LoadOK, Is
<1> QED BY <1>1, <1>2, <1>4, StartStep DEF Jobs

LEMMA Reading ==
  ASSUME IInv, NEW p \in Procs, StartLoad(p) \/ StartScore(p)
  PROVE  IInv'
<1>1. PICK job \in {"load", "score"} : StartReader(p, job)
  BY DEF StartLoad, StartScore
<1>2. promotions' \in Nat /\ uses' = uses /\ content' = content
  BY <1>1, State DEF StartReader, TypeOK, Start
<1>3. PICK v \in Versions, champ \in BOOLEAN :
        /\ Start(p, job, v, NoTrial, champ)
        /\ champ => Readable(Champion) /\ v = content[Champion].ver
  BY <1>1 DEF StartReader, Readable, Stamps
<1>4. champ /\ uses[v] <= 1 => Exists(<<v, "manifest.json">>)
  <2> SUFFICES ASSUME champ, uses[v] <= 1 PROVE Exists(<<v, "manifest.json">>)
    OBVIOUS
  <2>1. content[Champion] \in Stamps /\ StampOK(content[Champion])
    BY <1>3, State DEF RootOK, Readable, Champion
  <2> QED BY <1>3, <2>1, PathFacts DEF StampOK, Exists
<1>5. /\ proc'[p].champ = champ /\ ~proc'[p].raised /\ proc'[p].seen = {}
      /\ proc'[p].at = 0 /\ proc'[p].ver = v
  BY <1>3, State DEF Start, NoJob
<1>6. LoadOK(p)'
  BY <1>2, <1>4, <1>5 DEF LoadOK, Exists
<1> QED BY <1>2, <1>3, <1>6, StartStep DEF Jobs

-----------------------------------------------------------------------------
(* Files are opened                                                        *)

LEMMA OpenSites ==
  ASSUME IInv, NEW p \in Procs, OpenFile(p)
  PROVE  /\ Running(p) /\ Advance(p) /\ UNCHANGED <<uses, overlapped>>
         /\ TypeOK'
         /\ \/ At(p, "promote", 0) /\ Open(p, <<proc[p].ver, "pipeline.skops">>)
            \/ At(p, "promote", 2) /\ Open(p, <<proc[p].ver, "model.ubj">>)
            \/ At(p, "promote", 4) /\ Open(p, <<proc[p].ver, "manifest.json.tmp">>)
            \/ At(p, "promote", 7) /\ Open(p, <<Root, "champion.json.tmp">>)
            \/ At(p, "rollback", 1) /\ Open(p, <<Root, "champion.json.tmp">>)
            \/ At(p, "score", 3) /\ Open(p, <<Root, "predictions">>)
            \/ At(p, "score", 5) /\ Open(p, <<Root, "receipt.json.tmp">>)
<1>1. Running(p) /\ Step(p).op = "open" /\ Advance(p) /\ Open(p, PathOf(p, Step(p).file))
  BY DEF OpenFile, Doing
<1>2. \A f \in VersionFiles : PathOf(p, f) = <<proc[p].ver, f>>
  BY DEF PathOf, VersionFiles
<1>3. PathOf(p, "champion.json.tmp") = <<Root, "champion.json.tmp">>
  BY DEF PathOf, BundleFiles
<1>4. PathOf(p, "predictions") = <<Root, "predictions">>
  BY DEF PathOf, BundleFiles
<1>5. PathOf(p, "receipt.json.tmp") = <<Root, "receipt.json.tmp">>
  BY DEF PathOf, BundleFiles
<1>6. {"pipeline.skops", "model.ubj", "manifest.json.tmp"} \subseteq VersionFiles
  BY DEF VersionFiles, BundleFiles
<1>7. /\ \/ At(p, "promote", 0) /\ Open(p, <<proc[p].ver, "pipeline.skops">>)
         \/ At(p, "promote", 2) /\ Open(p, <<proc[p].ver, "model.ubj">>)
         \/ At(p, "promote", 4) /\ Open(p, <<proc[p].ver, "manifest.json.tmp">>)
         \/ At(p, "promote", 7) /\ Open(p, <<Root, "champion.json.tmp">>)
         \/ At(p, "rollback", 1) /\ Open(p, <<Root, "champion.json.tmp">>)
         \/ At(p, "score", 3) /\ Open(p, <<Root, "predictions">>)
         \/ At(p, "score", 5) /\ Open(p, <<Root, "receipt.json.tmp">>)
  BY <1>1, <1>2, <1>3, <1>4, <1>5, <1>6, State, Sites
<1>8. \E f \in Paths : Open(p, f)
  BY <1>6, <1>7, Busy, <1>1, PathFacts DEF RootNames, RootFiles
<1>9. content' \in [Paths -> Stamps \cup {Absent, Empty, Torn}]
      /\ handle' \in [Procs -> Paths \cup {Unlinked}]
  BY <1>8, State DEF Open
<1>10. Is(p, "rollback") \/ Is(p, "score") => proc[p].at >= 1
  BY <1>7 DEF At, Is
<1>11. proc' \in [Procs -> Job]
  BY <1>1, <1>10, Advanced
<1>12. UNCHANGED <<day, jobs, promotions, crashes, uses, overlapped>>
  BY DEF OpenFile
<1>13. TypeOK'
  BY <1>9, <1>11, <1>12, State DEF TypeOK
<1> QED BY <1>1, <1>7, <1>12, <1>13

LEMMA Opened ==
  ASSUME IInv, NEW p \in Procs, NEW f \in Paths, Open(p, f)
  PROVE  /\ content'[f] = Empty /\ \A g \in Paths \ {f} : content'[g] = content[g]
         /\ handle'[p] = f /\ \A q \in Procs \ {p} : handle'[q] = handle[q]
  BY State DEF Open

LEMMA OpenInVersion ==
  ASSUME IInv, NEW p \in Procs, OpenFile(p), Is(p, "promote"), proc[p].at <= 6
  PROVE  IInv'
<1>1. /\ Running(p) /\ Advance(p) /\ UNCHANGED <<uses, overlapped>> /\ TypeOK'
      /\ proc[p].ver \in Versions
  BY OpenSites, Busy
<1>2. PICK f \in VersionFiles :
        /\ Open(p, <<proc[p].ver, f>>)
        /\ \/ At(p, "promote", 0) /\ f = "pipeline.skops"
           \/ At(p, "promote", 2) /\ f = "model.ubj"
           \/ At(p, "promote", 4) /\ f = "manifest.json.tmp"
  <2>1. {"pipeline.skops", "model.ubj", "manifest.json.tmp"} \subseteq VersionFiles
    BY DEF VersionFiles, BundleFiles
  <2> QED BY <2>1, OpenSites DEF At, Is
<1>3. PICK w \in Versions : w = proc[p].ver
  BY <1>1
<1>4. /\ content'[<<w, f>>] = Empty
      /\ \A g \in Paths \ {<<w, f>>} : content'[g] = content[g]
      /\ handle'[p] = <<w, f>> /\ \A q \in Procs \ {p} : handle'[q] = handle[q]
  BY <1>2, <1>3, PathFacts, Opened
<1>5. Is(p, "rollback") \/ Is(p, "score") => proc[p].at >= 1
  BY DEF Is
<1>6. /\ \A q \in Procs \ {p} : proc'[q] = proc[q]
      /\ proc'[p].job = "promote" /\ proc'[p].at = proc[p].at + 1
      /\ proc'[p].ver = w /\ ~proc'[p].raised /\ Own(p)' = Own(p)
  BY <1>1, <1>3, <1>5, Advanced, Busy DEF Is
<1>7. \A q \in Procs : HandleOK(q)'
  <2>1. HandleOK(p)'
    BY <1>2, <1>4, <1>6 DEF HandleOK, At, Is
  <2>2. ASSUME NEW q \in Procs, q # p PROVE HandleOK(q)'
    BY <1>4, <1>6, <2>2, State DEF HandleOK, At, Is, WritesChampion
  <2> QED BY <2>1, <2>2
<1>8. \A g \in VersionFiles \ {f} : content'[<<w, g>>] = content[<<w, g>>]
  BY <1>4, PathFacts
<1>9. Sole(p)' => Sole(p)
  BY <1>1, <1>3, <1>6 DEF Sole
<1>10. PromoteOK(p)'
  <2>1. /\ Sole(p) => /\ proc[p].at >= 2 => content[<<w, "pipeline.skops">>] = Own(p)
                      /\ proc[p].at >= 4 => content[<<w, "model.ubj">>] = Own(p)
        /\ uses[w] <= 1 => ~Exists(<<w, "manifest.json">>)
    BY <1>2, <1>3, State DEF PromoteOK, Is, At
  <2>2. {"pipeline.skops", "model.ubj", "manifest.json"} \subseteq VersionFiles
    BY DEF VersionFiles, BundleFiles
  <2>3. uses[w] <= 1 => ~Exists(<<w, "manifest.json">>)'
    BY <1>2, <1>8, <2>1, <2>2 DEF Exists
  <2>4. CASE f = "pipeline.skops"
    BY <1>1, <1>2, <1>4, <1>6, <1>9, <2>3, <2>4 DEF PromoteOK, At
  <2>5. CASE f = "model.ubj"
    <3>1. proc'[p].at = 3
      BY <1>2, <1>6, <2>5 DEF At
    <3>2. Sole(p)' => content'[<<w, "pipeline.skops">>] = Own(p)
      BY <1>2, <1>8, <1>9, <2>1, <2>2, <2>5 DEF At
    <3> QED BY <1>1, <1>4, <1>6, <2>3, <2>5, <3>1, <3>2 DEF PromoteOK
  <2>6. CASE f = "manifest.json.tmp"
    <3>1. proc'[p].at = 5
      BY <1>2, <1>6, <2>6 DEF At
    <3>2. Sole(p)' => /\ content'[<<w, "pipeline.skops">>] = Own(p)
                      /\ content'[<<w, "model.ubj">>] = Own(p)
      BY <1>2, <1>8, <1>9, <2>1, <2>2, <2>6 DEF At
    <3> QED BY <1>1, <1>4, <1>6, <2>3, <2>6, <3>1, <3>2 DEF PromoteOK
  <2> QED BY <1>2, <2>4, <2>5, <2>6
<1>11. uses[w] <= 1 => content'[<<w, "manifest.json">>] = Absent
  BY <1>2, <1>3, <1>8, State DEF PromoteOK, Exists, VersionFiles, BundleFiles
<1>12. \A v \in Versions \ {w}, g \in VersionFiles : content'[<<v, g>>] = content[<<v, g>>]
  BY <1>4, PathFacts
<1>13. \A g \in RootNames : content'[<<Root, g>>] = content[<<Root, g>>]
  BY <1>4, PathFacts
<1> QED
  BY <1>1, <1>3, <1>4, <1>7, <1>10, <1>11, <1>12, <1>13, DirStep

\* A process at work in the root directory.
AtRoot(p) == (Is(p, "promote") /\ proc[p].at >= 7) \/ Carries(p)

LEMMA AtRootFacts ==
  ASSUME IInv, NEW p \in Procs, AtRoot(p)
  PROVE  /\ Own(p) \in Stamps /\ proc[p].ver \in Versions
         /\ Running(p) => StampOK(Own(p))
<1>1. Own(p) \in Stamps /\ proc[p].ver \in Versions /\ Own(p).ver = proc[p].ver
  BY Writes DEF AtRoot
<1>2. CASE Carries(p)
  BY <1>1, <1>2, State DEF CarryOK
<1>3. CASE Is(p, "promote") /\ proc[p].at >= 7
  <2>1. uses[proc[p].ver] <= 1 => content[<<proc[p].ver, "manifest.json">>] = Own(p)
    BY <1>3, State DEF PromoteOK, Sole
  <2> QED BY <1>1, <2>1 DEF StampOK
<1> QED BY <1>1, <1>2, <1>3 DEF AtRoot

StampedNames == {"champion.json", "champion.json.tmp", "receipt.json", "receipt.json.tmp"}

LEMMA RootAdvance ==
  ASSUME IInv, NEW p \in Procs, TypeOK', Running(p), Advance(p), AtRoot(p),
         \A v \in Versions, f \in VersionFiles : content'[<<v, f>>] = content[<<v, f>>],
         \A q \in Procs \ {p} : \/ handle'[q] = handle[q]
                                \/ \E f \in RootNames : handle[q] = <<Root, f>>,
         \A q \in Procs : HandleOK(q)',
         UNCHANGED <<uses, overlapped>>,
         \A f \in StampedNames :
           \/ content'[<<Root, f>>] \notin Stamps
           \/ content'[<<Root, f>>] = Own(p)
           \/ \E g \in StampedNames : content'[<<Root, f>>] = content[<<Root, g>>],
         TurnsOK'
  PROVE  IInv'
<1>1. Is(p, "rollback") \/ Is(p, "score") => proc[p].at >= 1
  BY State DEF AtRoot, Carries, Is
<1>2. /\ proc' \in [Procs -> Job] /\ JobOK(p)'
      /\ \A q \in Procs \ {p} : proc'[q] = proc[q]
      /\ proc'[p].job = proc[p].job /\ proc'[p].at = proc[p].at + 1
      /\ proc'[p].ver = proc[p].ver /\ proc'[p].trial = proc[p].trial
      /\ Own(p)' = Own(p)
  BY <1>1, Advanced
<1>3. \A s \in Stamps : StampOK(s) => StampOK(s)'
  BY DEF StampOK, Stamps, VersionFiles, BundleFiles
<1>4. PICK w \in Versions : w = proc[p].ver
  BY AtRootFacts
<1>5. PICK s \in Stamps : s = Own(p) /\ StampOK(s)
  BY AtRootFacts
<1>6. PromoteOK(p)'
  <2>1. CASE Is(p, "promote") /\ proc[p].at >= 7
    <3>1. Sole(p)' => Sole(p)
      BY <1>2 DEF Sole
    <3>2. Sole(p)' => /\ content'[<<w, "pipeline.skops">>] = Own(p)
                      /\ content'[<<w, "model.ubj">>] = Own(p)
                      /\ content'[<<w, "manifest.json">>] = Own(p)
      <4>1. Sole(p) => /\ content[<<w, "pipeline.skops">>] = Own(p)
                       /\ content[<<w, "model.ubj">>] = Own(p)
                       /\ content[<<w, "manifest.json">>] = Own(p)
        <5>1. PromoteOK(p) /\ proc[p].at \in Nat
          BY State
        <5> QED BY <1>4, <2>1, <5>1 DEF PromoteOK
      <4> QED BY <3>1, <4>1 DEF VersionFiles, BundleFiles
    <3>3. proc'[p].at \in Nat /\ proc'[p].at >= 8 /\ proc'[p].ver = w
      BY <1>2, <1>4, <2>1, State
    <3> QED BY <1>2, <3>2, <3>3 DEF PromoteOK
  <2>2. CASE Carries(p)
    BY <1>2, <2>2 DEF PromoteOK, Carries, Is
  <2> QED BY <2>1, <2>2 DEF AtRoot
<1>7. CarryOK(p)' /\ LoadOK(p)'
  <2>1. StampOK(s)'
    BY <1>3, <1>5
  <2>2. CarryOK(p)'
    BY <1>2, <1>5, <2>1 DEF CarryOK
  <2>3. LoadOK(p)'
    BY <1>2 DEF LoadOK, Is, AtRoot, Carries
  <2> QED BY <2>2, <2>3
<1>8. RootOK'
  <2> SUFFICES ASSUME NEW f \in StampedNames, content'[<<Root, f>>] \in Stamps
               PROVE  StampOK(content[<<Root, f>>])'
    BY DEF RootOK, StampedNames, Readable
  <2>1. PICK r \in Stamps : r = content'[<<Root, f>>]
    OBVIOUS
  <2>2. CASE r = Own(p)
    BY <1>3, <1>5, <2>1, <2>2
  <2>3. CASE \E g \in StampedNames : r = content[<<Root, g>>]
    <3>1. StampOK(r)
      BY <2>1, <2>3, State DEF RootOK, StampedNames, Readable
    <3> QED BY <1>3, <2>1, <3>1
  <2> QED BY <2>1, <2>2, <2>3
<1>9. Is(p, "promote")' => Is(p, "promote") /\ proc'[p].ver = proc[p].ver
  BY <1>2 DEF Is
<1>10. ProcOK(p)'
  BY <1>2, <1>6, <1>7 DEF ProcOK
<1> QED BY <1>2, <1>8, <1>9, <1>10, RootStep

LEMMA OpenInRoot ==
  ASSUME IInv, NEW p \in Procs, OpenFile(p), ~(Is(p, "promote") /\ proc[p].at <= 6)
  PROVE  IInv'
<1>1. /\ Running(p) /\ Advance(p) /\ UNCHANGED <<uses, overlapped>> /\ TypeOK'
      /\ proc[p].ver \in Versions
  BY OpenSites, Busy
<1>2. PICK f \in RootNames :
        /\ Open(p, <<Root, f>>)
        /\ \/ At(p, "promote", 7) /\ f = "champion.json.tmp"
           \/ At(p, "rollback", 1) /\ f = "champion.json.tmp"
           \/ At(p, "score", 3) /\ f = "predictions"
           \/ At(p, "score", 5) /\ f = "receipt.json.tmp"
  <2>1. {"champion.json.tmp", "predictions", "receipt.json.tmp"} \subseteq RootNames
    BY DEF RootNames, RootFiles
  <2>2. \/ At(p, "promote", 7) /\ Open(p, <<Root, "champion.json.tmp">>)
        \/ At(p, "rollback", 1) /\ Open(p, <<Root, "champion.json.tmp">>)
        \/ At(p, "score", 3) /\ Open(p, <<Root, "predictions">>)
        \/ At(p, "score", 5) /\ Open(p, <<Root, "receipt.json.tmp">>)
    <3>1. ~At(p, "promote", 0) /\ ~At(p, "promote", 2) /\ ~At(p, "promote", 4)
      BY DEF At
    <3> QED BY <3>1, OpenSites, Zenon
  <2> QED BY <2>1, <2>2
<1>3. AtRoot(p)
  BY <1>2 DEF AtRoot, Carries, At, Is
<1>4. /\ content'[<<Root, f>>] = Empty
      /\ \A g \in Paths \ {<<Root, f>>} : content'[g] = content[g]
      /\ handle'[p] = <<Root, f>> /\ \A q \in Procs \ {p} : handle'[q] = handle[q]
  BY <1>2, PathFacts, Opened
<1>5. Is(p, "rollback") \/ Is(p, "score") => proc[p].at >= 1
  BY <1>2 DEF Is, At
<1>6. /\ \A q \in Procs \ {p} : proc'[q] = proc[q]
      /\ proc'[p].job = proc[p].job /\ proc'[p].at = proc[p].at + 1
      /\ ~proc'[p].raised /\ Own(p)' = Own(p)
  BY <1>1, <1>5, Advanced, Busy
<1>7. /\ \A v \in Versions, g \in VersionFiles : content'[<<v, g>>] = content[<<v, g>>]
      /\ \A g \in RootNames \ {f} : content'[<<Root, g>>] = content[<<Root, g>>]
  BY <1>4, PathFacts
<1>8. \A q \in Procs : HandleOK(q)'
  <2>1. HandleOK(p)'
    BY <1>2, <1>4, <1>6 DEF HandleOK, At, Is, WritesChampion
  <2>2. ASSUME NEW q \in Procs, q # p PROVE HandleOK(q)'
    BY <1>4, <1>6, <2>2, State DEF HandleOK, At, Is, WritesChampion
  <2> QED BY <2>1, <2>2
<1>9. \A g \in StampedNames : \/ content'[<<Root, g>>] \notin Stamps
                              \/ content'[<<Root, g>>] = content[<<Root, g>>]
  BY <1>4, <1>7, PathFacts DEF StampedNames, RootNames, RootFiles
<1>10. TurnsOK'
  <2>1. f \notin {"champion.json", "receipt.json"}
        /\ "champion.json" \in RootNames /\ "receipt.json" \in RootNames
        /\ "champion.json.tmp" \in RootNames /\ "receipt.json.tmp" \in RootNames
    BY <1>2 DEF RootNames, RootFiles
  <2>2. content'[Champion] = content[Champion] /\ content'[Receipt] = content[Receipt]
    BY <1>7, <2>1 DEF Champion, Receipt
  <2>3. TurnOK(p)'
    BY <1>2, <1>4, <1>6 DEF TurnOK, WritesChampion, RenamesChampion, At, Is
  <2>4. ASSUME NEW q \in Procs \ {p}, ~overlapped, Running(q), TurnOK(q) PROVE TurnOK(q)'
    <3>1. /\ proc[q].job \in {"promote", "rollback"} => f # "champion.json.tmp"
          /\ proc[q].job = "score" => f # "receipt.json.tmp"
      BY <1>1, <1>2, <2>4, Alone DEF At, Is
    <3> QED BY <1>4, <1>6, <1>7, <2>1, <2>4, <3>1, TurnStays
  <2> QED BY <1>1, <1>6, <2>2, <2>3, <2>4, State, TurnsStep DEF TurnsOK
<1> QED BY <1>1, <1>3, <1>4, <1>7, <1>8, <1>9, <1>10, RootAdvance

LEMMA Opening ==
  ASSUME IInv, NEW p \in Procs, OpenFile(p)
  PROVE  IInv'
  BY OpenInVersion, OpenInRoot

-----------------------------------------------------------------------------
(* Files are written                                                       *)

LEMMA Written ==
  ASSUME IInv, NEW p \in Procs, WriteFile(p)
  PROVE  /\ Running(p) /\ Advance(p) /\ UNCHANGED <<uses, overlapped>> /\ TypeOK'
         /\ \/ At(p, "promote", 1) \/ At(p, "promote", 3) \/ At(p, "promote", 5)
            \/ WritesChampion(p) \/ At(p, "score", 4) \/ At(p, "score", 6)
         /\ handle'[p] = Unlinked /\ \A q \in Procs \ {p} : handle'[q] = handle[q]
         /\ \A f \in Paths : f # handle[p] => content'[f] = content[f]
         /\ handle[p] # Unlinked =>
              /\ handle[p] \in Paths /\ content'[handle[p]] \in {Own(p), Torn}
              /\ content[handle[p]] = Empty => content'[handle[p]] = Own(p)
<1>1. /\ Running(p) /\ Step(p).op = "write" /\ Advance(p) /\ Write(p, Own(p))
      /\ UNCHANGED <<day, jobs, promotions, crashes, uses, overlapped>>
  BY DEF WriteFile, Doing, Own
<1>2. \/ At(p, "promote", 1) \/ At(p, "promote", 3) \/ At(p, "promote", 5)
      \/ WritesChampion(p) \/ At(p, "score", 4) \/ At(p, "score", 6)
  BY <1>1, State, Sites
<1>3. Is(p, "promote") \/ Carries(p)
  BY <1>2 DEF At, WritesChampion, Carries, Is
<1>4. Is(p, "rollback") \/ Is(p, "score") => proc[p].at >= 1
  BY <1>2 DEF At, WritesChampion, Is
<1>5. Own(p) \in Stamps /\ proc' \in [Procs -> Job]
  BY <1>1, <1>3, <1>4, Writes, Advanced
<1>6. handle'[p] = Unlinked /\ \A q \in Procs \ {p} : handle'[q] = handle[q]
  BY <1>1, State DEF Write
<1>7. handle' \in [Procs -> Paths \cup {Unlinked}]
  BY <1>1, State DEF Write
<1>8. CASE handle[p] = Unlinked
  <2>1. content' = content
    BY <1>1, <1>8 DEF Write
  <2>2. TypeOK'
    BY <1>1, <1>5, <1>7, <2>1, State DEF TypeOK
  <2> QED BY <1>1, <1>2, <1>6, <1>8, <2>1, <2>2
<1>9. CASE handle[p] # Unlinked
  <2>1. PICK c \in {Own(p), Torn} :
          /\ content' = [content EXCEPT ![handle[p]] = c]
          /\ content[handle[p]] = Empty => c = Own(p)
    BY <1>1, <1>9 DEF Write, Overwritten
  <2>2. handle[p] \in Paths
    BY <1>9, State
  <2>3. /\ content' \in [Paths -> Stamps \cup {Absent, Empty, Torn}]
        /\ content'[handle[p]] = c
        /\ \A f \in Paths : f # handle[p] => content'[f] = content[f]
    BY <1>5, <2>1, <2>2, State
  <2>4. TypeOK'
    BY <1>1, <1>5, <1>7, <2>3, State DEF TypeOK
  <2> QED BY <1>1, <1>2, <1>6, <2>1, <2>2, <2>3, <2>4
<1> QED BY <1>8, <1>9

LEMMA ClosedHandles ==
  ASSUME IInv, NEW p \in Procs, handle'[p] = Unlinked,
         \A q \in Procs \ {p} : handle'[q] = handle[q] /\ proc'[q] = proc[q]
  PROVE  \A q \in Procs : HandleOK(q)'
<1>1. HandleOK(p)'
  BY DEF HandleOK
<1>2. ASSUME NEW q \in Procs, q # p PROVE HandleOK(q)'
  BY <1>2, State DEF HandleOK, At, Is, WritesChampion
<1> QED BY <1>1, <1>2

LEMMA WriteInVersion ==
  ASSUME IInv, NEW p \in Procs, WriteFile(p), Is(p, "promote"), proc[p].at <= 6
  PROVE  IInv'
<1>1. /\ Running(p) /\ Advance(p) /\ UNCHANGED <<uses, overlapped>> /\ TypeOK'
      /\ proc[p].ver \in Versions /\ ~proc[p].raised
      /\ proc[p].at \in Nat /\ PromoteOK(p) /\ HandleOK(p)
  BY Written, Busy, State
<1>2. PICK w \in Versions : w = proc[p].ver
  BY <1>1
<1>3. PICK o \in Stamps : o = Own(p)
  BY Writes
<1>4. At(p, "promote", 1) \/ At(p, "promote", 3) \/ At(p, "promote", 5)
  BY Written DEF At, WritesChampion, Is
<1>5. Is(p, "rollback") \/ Is(p, "score") => proc[p].at >= 1
  BY DEF Is
<1>6. /\ \A q \in Procs \ {p} : proc'[q] = proc[q]
      /\ proc'[p].job = "promote" /\ proc'[p].at = proc[p].at + 1
      /\ proc'[p].ver = w /\ ~proc'[p].raised /\ Own(p)' = o
  BY <1>1, <1>2, <1>3, <1>5, Advanced, Busy DEF Is
<1>7. \A q \in Procs : HandleOK(q)'
  BY <1>6, Written, ClosedHandles
<1>8. handle[p] = Unlinked \/ \E f \in VersionFiles : handle[p] = <<w, f>>
  BY <1>1, <1>2, <1>4 DEF HandleOK, At, Is, WritesChampion, VersionFiles, BundleFiles
<1>9. /\ \A v \in Versions \ {w}, g \in VersionFiles : content'[<<v, g>>] = content[<<v, g>>]
      /\ \A g \in RootNames : content'[<<Root, g>>] = content[<<Root, g>>]
  BY <1>8, Written, PathFacts
<1>10. Sole(p)' => Sole(p)
  BY <1>1, <1>2, <1>6 DEF Sole
<1>11. uses[w] <= 1 => Sole(p) /\ content[<<w, "manifest.json">>] = Absent
  BY <1>1, <1>2 DEF Sole, PromoteOK, Exists, Is
<1>12. /\ {"pipeline.skops", "model.ubj", "manifest.json", "manifest.json.tmp"} \subseteq VersionFiles
       /\ \A g \in VersionFiles : <<w, g>> \in Paths /\ <<w, g>> # Unlinked
  BY PathFacts DEF VersionFiles, BundleFiles
\* The file just written, and what was there before.
<1>13. ASSUME NEW f \in VersionFiles, Sole(p), handle[p] = <<w, f>>, content[<<w, f>>] = Empty
       PROVE  /\ content'[<<w, f>>] = o
              /\ \A g \in VersionFiles \ {f} : content'[<<w, g>>] = content[<<w, g>>]
  <2>1. content'[<<w, f>>] = o
    BY <1>3, <1>12, <1>13, Written
  <2>2. \A g \in VersionFiles \ {f} : <<w, g>> # handle[p]
    BY <1>13
  <2> QED BY <1>12, <2>1, <2>2, Written
<1>14. Sole(p) =>
         /\ proc[p].at = 1 => content'[<<w, "pipeline.skops">>] = o
         /\ proc[p].at = 3 => /\ content'[<<w, "pipeline.skops">>] = o
                              /\ content'[<<w, "model.ubj">>] = o
         /\ proc[p].at = 5 => /\ content'[<<w, "pipeline.skops">>] = o
                              /\ content'[<<w, "model.ubj">>] = o
                              /\ content'[<<w, "manifest.json.tmp">>] = o
         /\ content'[<<w, "manifest.json">>] = content[<<w, "manifest.json">>]
  <2> SUFFICES ASSUME Sole(p)
      PROVE /\ proc[p].at = 1 => content'[<<w, "pipeline.skops">>] = o
            /\ proc[p].at = 3 => /\ content'[<<w, "pipeline.skops">>] = o
                                 /\ content'[<<w, "model.ubj">>] = o
            /\ proc[p].at = 5 => /\ content'[<<w, "pipeline.skops">>] = o
                                 /\ content'[<<w, "model.ubj">>] = o
                                 /\ content'[<<w, "manifest.json.tmp">>] = o
            /\ content'[<<w, "manifest.json">>] = content[<<w, "manifest.json">>]
    OBVIOUS
  <2>1. CASE proc[p].at = 1
    <3>1. handle[p] = <<w, "pipeline.skops">> /\ content[<<w, "pipeline.skops">>] = Empty
      BY <1>1, <1>2, <2>1 DEF PromoteOK
    <3> QED BY <1>12, <1>13, <2>1, <3>1
  <2>2. CASE proc[p].at = 3
    <3>1. /\ handle[p] = <<w, "model.ubj">> /\ content[<<w, "model.ubj">>] = Empty
          /\ content[<<w, "pipeline.skops">>] = o
      BY <1>1, <1>2, <1>3, <2>2 DEF PromoteOK
    <3> QED BY <1>12, <1>13, <2>2, <3>1
  <2>3. CASE proc[p].at = 5
    <3>1. /\ handle[p] = <<w, "manifest.json.tmp">>
          /\ content[<<w, "manifest.json.tmp">>] = Empty
          /\ content[<<w, "pipeline.skops">>] = o /\ content[<<w, "model.ubj">>] = o
      BY <1>1, <1>2, <1>3, <2>3 DEF PromoteOK
    <3> QED BY <1>12, <1>13, <2>3, <3>1
  <2> QED BY <1>4, <2>1, <2>2, <2>3 DEF At
<1>15. uses[w] <= 1 => content'[<<w, "manifest.json">>] = Absent
  BY <1>11, <1>14
<1>16. PromoteOK(p)'
  <2>1. proc'[p].at = 2 \/ proc'[p].at = 4 \/ proc'[p].at = 6
    BY <1>4, <1>6 DEF At
  <2> QED BY <1>1, <1>4, <1>6, <1>10, <1>14, <1>15, <2>1 DEF PromoteOK, Exists, At
<1>17. \A q \in Procs \ {p} : handle'[q] = handle[q]
  BY Written
<1> QED
  BY <1>1, <1>2, <1>7, <1>9, <1>15, <1>16, <1>17, DirStep

LEMMA WriteInRoot ==
  ASSUME IInv, NEW p \in Procs, WriteFile(p), ~(Is(p, "promote") /\ proc[p].at <= 6)
  PROVE  IInv'
<1>1. /\ Running(p) /\ Advance(p) /\ UNCHANGED <<uses, overlapped>> /\ TypeOK'
      /\ ~proc[p].raised /\ proc[p].at \in Nat /\ HandleOK(p)
  BY Written, Busy, State
<1>2. WritesChampion(p) \/ At(p, "score", 4) \/ At(p, "score", 6)
  <2>1. ~At(p, "promote", 1) /\ ~At(p, "promote", 3) /\ ~At(p, "promote", 5)
    BY DEF At
  <2> QED BY <2>1, Written, Zenon
<1>3. AtRoot(p)
  BY <1>2 DEF AtRoot, Carries, WritesChampion, At, Is
<1>4. PICK o \in Stamps : o = Own(p)
  BY <1>3, AtRootFacts
<1>5. Is(p, "rollback") \/ Is(p, "score") => proc[p].at >= 1
  BY <1>2 DEF Is, At, WritesChampion
<1>6. /\ \A q \in Procs \ {p} : proc'[q] = proc[q] /\ handle'[q] = handle[q]
      /\ proc'[p].job = proc[p].job /\ proc'[p].at = proc[p].at + 1
      /\ ~proc'[p].raised /\ Own(p)' = o
  BY <1>1, <1>4, <1>5, Advanced, Busy, Written
<1>7. \A q \in Procs : HandleOK(q)'
  BY <1>6, Written, ClosedHandles
<1>8. \/ handle[p] = Unlinked
      \/ WritesChampion(p) /\ handle[p] \in {<<Root, "champion.json.tmp">>, Champion}
      \/ At(p, "score", 4) /\ handle[p] = <<Root, "predictions">>
      \/ At(p, "score", 6) /\ handle[p] \in {<<Root, "receipt.json.tmp">>, Receipt}
  BY <1>2, <1>1 DEF HandleOK, At, Is, WritesChampion
<1>9. handle[p] = Unlinked \/ \E f \in RootNames : handle[p] = <<Root, f>>
  BY <1>8 DEF RootNames, RootFiles, Champion, Receipt
<1>10. \A v \in Versions, g \in VersionFiles : content'[<<v, g>>] = content[<<v, g>>]
  <2>1. ASSUME NEW v \in Versions, NEW g \in VersionFiles
        PROVE  <<v, g>> \in Paths /\ <<v, g>> # handle[p]
    BY <1>9, PathFacts
  <2> QED BY <2>1, Written
<1>11. \A f \in Paths : content'[f] \in {o, Torn} \/ content'[f] = content[f]
  <2> SUFFICES ASSUME NEW f \in Paths
               PROVE  content'[f] \in {o, Torn} \/ content'[f] = content[f]
    OBVIOUS
  <2>1. CASE f = handle[p]
    BY <1>4, <2>1, PathFacts, Written
  <2>2. CASE f # handle[p]
    BY <2>2, Written
  <2> QED BY <2>1, <2>2
<1>12. \A f \in StampedNames : \/ content'[<<Root, f>>] \notin Stamps
                               \/ content'[<<Root, f>>] = o
                               \/ content'[<<Root, f>>] = content[<<Root, f>>]
  BY <1>11, PathFacts DEF StampedNames, RootNames, RootFiles
<1>13. {"champion.json.tmp", "champion.json", "predictions", "receipt.json.tmp", "receipt.json"}
         \subseteq RootNames
  BY DEF RootNames, RootFiles
<1>14. TurnsOK'
  <2>1. ASSUME ~overlapped
        PROVE  /\ WritesChampion(p) =>
                    /\ handle[p] = <<Root, "champion.json.tmp">>
                    /\ content[<<Root, "champion.json.tmp">>] = Empty
               /\ At(p, "score", 6) =>
                    /\ handle[p] = <<Root, "receipt.json.tmp">>
                    /\ content[<<Root, "receipt.json.tmp">>] = Empty
    BY <1>1, <2>1, State DEF TurnsOK, TurnOK
  <2>2. ~overlapped => /\ handle[p] # Champion /\ handle[p] # Receipt
                       /\ WritesChampion(p) => content'[<<Root, "champion.json.tmp">>] = o
                       /\ At(p, "score", 6) => content'[<<Root, "receipt.json.tmp">>] = o
    <3>1. Unlinked # Champion /\ Unlinked # Receipt
          /\ <<Root, "champion.json.tmp">> # Unlinked
          /\ <<Root, "receipt.json.tmp">> # Unlinked
      BY <1>13, PathFacts DEF Champion, Receipt
    <3>2. ~overlapped => handle[p] # Champion /\ handle[p] # Receipt
      BY <1>8, <2>1, <3>1 DEF Champion, Receipt, WritesChampion, At, Is
    <3> QED BY <1>4, <2>1, <3>1, <3>2, Written
  <2>3. ~overlapped => content'[Champion] = content[Champion] /\ content'[Receipt] = content[Receipt]
    BY <1>13, <2>2, PathFacts, Written DEF Champion, Receipt
  <2>4. ~overlapped => TurnOK(p)'
    <3>1. CASE WritesChampion(p)
      BY <1>6, <2>2, <3>1 DEF TurnOK, WritesChampion, RenamesChampion, At, Is
    <3>2. CASE At(p, "score", 4)
      BY <1>6, <3>2 DEF TurnOK, WritesChampion, RenamesChampion, At, Is
    <3>3. CASE At(p, "score", 6)
      BY <1>6, <2>2, <3>3 DEF TurnOK, WritesChampion, RenamesChampion, At, Is
    <3> QED BY <1>2, <3>1, <3>2, <3>3
  <2>5. ASSUME NEW q \in Procs \ {p}, ~overlapped, Running(q), TurnOK(q) PROVE TurnOK(q)'
    <3>1. /\ proc[q].job \in {"promote", "rollback"} =>
               handle[p] # <<Root, "champion.json.tmp">>
          /\ proc[q].job = "score" => handle[p] # <<Root, "receipt.json.tmp">>
      <4>1. /\ WritesChampion(p) => proc[q].job \notin {"promote", "rollback"}
            /\ At(p, "score", 6) => proc[q].job # "score"
        BY <1>1, <2>5, Alone DEF WritesChampion, At, Is
      <4>2. /\ <<Root, "champion.json.tmp">> # Unlinked
            /\ <<Root, "receipt.json.tmp">> # Unlinked
        BY <1>13, PathFacts
      <4> QED BY <1>8, <4>1, <4>2 DEF Champion, Receipt
    <3>2. /\ <<Root, "champion.json.tmp">> \in Paths /\ <<Root, "receipt.json.tmp">> \in Paths
      BY <1>13, PathFacts
    <3>3. /\ proc[q].job \in {"promote", "rollback"} =>
               content'[<<Root, "champion.json.tmp">>] = content[<<Root, "champion.json.tmp">>]
          /\ proc[q].job = "score" =>
               content'[<<Root, "receipt.json.tmp">>] = content[<<Root, "receipt.json.tmp">>]
      BY <3>1, <3>2, Written
    <3> QED BY <1>6, <2>5, <3>3, TurnStays
  <2> QED BY <1>1, <1>6, <2>3, <2>4, <2>5, State, TurnsStep DEF TurnsOK
<1> QED BY <1>1, <1>3, <1>4, <1>6, <1>7, <1>10, <1>12, <1>14, RootAdvance

LEMMA Writing ==
  ASSUME IInv, NEW p \in Procs, WriteFile(p)
  PROVE  IInv'
  BY WriteInVersion, WriteInRoot

-----------------------------------------------------------------------------
(* Files are replaced                                                      *)

LEMMA ReplaceSites ==
  ASSUME IInv, NEW p \in Procs, ReplaceFile(p)
  PROVE  /\ Running(p) /\ UNCHANGED <<day, jobs, promotions, crashes, uses, overlapped>>
         /\ \/ /\ At(p, "promote", 6)
               /\ Advance(p)
               /\ Replace(<<proc[p].ver, "manifest.json.tmp">>, <<proc[p].ver, "manifest.json">>)
            \/ /\ RenamesChampion(p)
               /\ Advance(p)
               /\ Replace(<<Root, "champion.json.tmp">>, Champion)
            \/ /\ At(p, "score", 7)
               /\ Advance(p)
               /\ Replace(<<Root, "receipt.json.tmp">>, Receipt)
            \/ /\ At(p, "promote", 6) \/ RenamesChampion(p) \/ At(p, "score", 7)
               /\ Raise(p) /\ UNCHANGED <<content, handle>>
<1>1. /\ Running(p) /\ Step(p).op = "replace"
      /\ UNCHANGED <<day, jobs, promotions, crashes, uses, overlapped>>
      /\ \/ /\ Replace(PathOf(p, Tmp(Step(p).file)), PathOf(p, Step(p).file)) /\ Advance(p)
         \/ Raise(p) /\ UNCHANGED <<content, handle>>
  BY DEF ReplaceFile, Doing
<1>2. \/ At(p, "promote", 6) /\ Step(p).file = "manifest.json"
      \/ RenamesChampion(p) /\ Step(p).file = "champion.json"
      \/ At(p, "score", 7) /\ Step(p).file = "receipt.json"
  BY <1>1, State, Sites
<1>3. /\ PathOf(p, Tmp("manifest.json")) = <<proc[p].ver, "manifest.json.tmp">>
      /\ PathOf(p, "manifest.json") = <<proc[p].ver, "manifest.json">>
  BY DEF PathOf, Tmp, BundleFiles
<1>4. /\ PathOf(p, Tmp("champion.json")) = <<Root, "champion.json.tmp">>
      /\ PathOf(p, "champion.json") = Champion
  BY DEF PathOf, Tmp, BundleFiles, Champion
<1>5. /\ PathOf(p, Tmp("receipt.json")) = <<Root, "receipt.json.tmp">>
      /\ PathOf(p, "receipt.json") = Receipt
  BY DEF PathOf, Tmp, BundleFiles, Receipt
<1> QED BY <1>1, <1>2, <1>3, <1>4, <1>5

LEMMA Replaced ==
  ASSUME IInv, NEW p \in Procs, NEW src \in Paths, NEW dst \in Paths, src # dst,
         Replace(src, dst), Running(p), Advance(p),
         UNCHANGED <<day, jobs, promotions, crashes, uses, overlapped>>,
         Is(p, "rollback") \/ Is(p, "score") => proc[p].at >= 1
  PROVE  /\ TypeOK'
         /\ content[src] # Absent /\ content'[src] = Absent /\ content'[dst] = content[src]
         /\ \A f \in Paths \ {src, dst} : content'[f] = content[f]
         /\ \A q \in Procs : \/ handle'[q] = handle[q] /\ handle[q] \notin {src, dst}
                             \/ handle[q] = src /\ handle'[q] = dst
                             \/ handle[q] = dst /\ handle'[q] = Unlinked
<1>1. /\ content' = [content EXCEPT ![dst] = content[src], ![src] = Absent]
      /\ handle' = [q \in Procs |-> IF handle[q] = src THEN dst
                                    ELSE IF handle[q] = dst THEN Unlinked ELSE handle[q]]
      /\ content[src] # Absent
  BY DEF Replace, Exists
<1>2. /\ content'[src] = Absent /\ content'[dst] = content[src]
      /\ \A f \in Paths \ {src, dst} : content'[f] = content[f]
      /\ content' \in [Paths -> Stamps \cup {Absent, Empty, Torn}]
  BY <1>1, State
<1>3. handle' \in [Procs -> Paths \cup {Unlinked}]
  BY <1>1, State
<1>4. proc' \in [Procs -> Job]
  BY Advanced
<1>5. TypeOK'
  BY <1>2, <1>3, <1>4, State DEF TypeOK
<1> QED BY <1>1, <1>2, <1>5

LEMMA ReplaceInVersion ==
  ASSUME IInv, NEW p \in Procs, At(p, "promote", 6), Running(p), Advance(p),
         Replace(<<proc[p].ver, "manifest.json.tmp">>, <<proc[p].ver, "manifest.json">>),
         UNCHANGED <<day, jobs, promotions, crashes, uses, overlapped>>
  PROVE  IInv'
<1>1. /\ proc[p].ver \in Versions /\ ~proc[p].raised /\ PromoteOK(p) /\ HandleOK(p)
      /\ Is(p, "promote") /\ proc[p].at = 6
  BY Busy, State DEF At
<1>2. PICK w \in Versions : w = proc[p].ver
  BY <1>1
<1>3. PICK o \in Stamps : o = Own(p)
  BY <1>1, Writes
<1>4. PICK src \in Paths, dst \in Paths : /\ src = <<w, "manifest.json.tmp">>
                                          /\ dst = <<w, "manifest.json">>
  BY PathFacts DEF VersionFiles, BundleFiles
<1>5. Is(p, "rollback") \/ Is(p, "score") => proc[p].at >= 1
  BY <1>1
<1>6. /\ \A q \in Procs \ {p} : proc'[q] = proc[q]
      /\ proc'[p].job = "promote" /\ proc'[p].at = 7
      /\ proc'[p].ver = w /\ ~proc'[p].raised /\ Own(p)' = o
  BY <1>1, <1>2, <1>3, <1>5, Advanced DEF Is
<1>7. /\ TypeOK'
      /\ content[src] # Absent /\ content'[src] = Absent /\ content'[dst] = content[src]
      /\ \A f \in Paths \ {src, dst} : content'[f] = content[f]
      /\ \A q \in Procs : \/ handle'[q] = handle[q] /\ handle[q] \notin {src, dst}
                          \/ handle[q] = src /\ handle'[q] = dst
                          \/ handle[q] = dst /\ handle'[q] = Unlinked
  BY <1>2, <1>4, <1>5, Replaced
<1>8. \A q \in Procs : HandleOK(q)'
  <2>1. handle'[p] = Unlinked
    <3>1. handle[p] = Unlinked
      BY <1>1 DEF HandleOK, At, Is, WritesChampion
    <3> QED BY <1>7, <3>1, PathFacts
  <2>2. HandleOK(p)'
    BY <2>1 DEF HandleOK
  <2>3. ASSUME NEW q \in Procs, q # p PROVE HandleOK(q)'
    <3>1. HandleOK(q) /\ proc'[q] = proc[q]
      BY <1>6, <2>3, State
    <3>2. CASE handle'[q] = handle[q]
      BY <3>1, <3>2 DEF HandleOK, At, Is, WritesChampion
    <3>3. CASE handle[q] = src /\ handle'[q] = dst
      <4>1. src # Unlinked
        BY PathFacts
      <4>2. ~proc[q].raised /\ At(q, "promote", 5) /\ proc[q].ver = w
        BY <1>4, <3>1, <3>3, <4>1 DEF HandleOK, Champion, Receipt
      <4> QED BY <1>4, <3>1, <3>3, <4>2 DEF HandleOK, At, Is
    <3>4. CASE handle'[q] = Unlinked
      BY <3>4 DEF HandleOK
    <3> QED BY <1>7, <3>2, <3>3, <3>4
  <2> QED BY <2>2, <2>3
<1>9. /\ \A v \in Versions \ {w}, g \in VersionFiles : content'[<<v, g>>] = content[<<v, g>>]
      /\ \A g \in RootNames : content'[<<Root, g>>] = content[<<Root, g>>]
  <2>1. \A v \in Versions \ {w}, g \in VersionFiles : <<v, g>> \in Paths \ {src, dst}
    BY <1>4, PathFacts
  <2>2. \A g \in RootNames : <<Root, g>> \in Paths \ {src, dst}
    BY <1>4, PathFacts
  <2> QED BY <1>7, <2>1, <2>2
<1>10. /\ content'[<<w, "pipeline.skops">>] = content[<<w, "pipeline.skops">>]
       /\ content'[<<w, "model.ubj">>] = content[<<w, "model.ubj">>]
  <2>1. /\ <<w, "pipeline.skops">> \in Paths \ {src, dst}
        /\ <<w, "model.ubj">> \in Paths \ {src, dst}
    BY <1>4, PathFacts DEF VersionFiles, BundleFiles
  <2> QED BY <1>7, <2>1
<1>11. Sole(p) => /\ content'[<<w, "pipeline.skops">>] = o
                  /\ content'[<<w, "model.ubj">>] = o
                  /\ content'[<<w, "manifest.json">>] = o
  BY <1>1, <1>2, <1>3, <1>4, <1>7, <1>10 DEF PromoteOK
<1>12. Sole(p)' => Sole(p)
  BY <1>1, <1>2, <1>6 DEF Sole
<1>13. PromoteOK(p)'
  BY <1>6, <1>11, <1>12 DEF PromoteOK
<1>14. uses[w] <= 1 => \A f \in BundleFiles : content'[<<w, f>>] = o
  BY <1>2, <1>11 DEF Sole, BundleFiles
<1>15. \A q \in Procs \ {p} : \/ handle'[q] = handle[q]
                              \/ \E f \in VersionFiles : handle[q] = <<w, f>>
  BY <1>4, <1>7 DEF VersionFiles, BundleFiles
<1>16. Is(p, "promote") /\ proc[p].at <= 6
  BY <1>1
<1> QED BY <1>2, <1>3, <1>7, <1>8, <1>9, <1>13, <1>14, <1>15, <1>16, DirStep

LEMMA ReplaceInRoot ==
  ASSUME IInv, NEW p \in Procs, Running(p), Advance(p),
         \/ RenamesChampion(p) /\ Replace(<<Root, "champion.json.tmp">>, Champion)
         \/ At(p, "score", 7) /\ Replace(<<Root, "receipt.json.tmp">>, Receipt),
         UNCHANGED <<day, jobs, promotions, crashes, uses, overlapped>>
  PROVE  IInv'
<1>1. ~proc[p].raised /\ HandleOK(p) /\ proc[p].at \in Nat /\ proc[p].ver \in Versions
  BY Busy, State
<1>2. PICK f \in StampedNames, g \in StampedNames :
        /\ Replace(<<Root, f>>, <<Root, g>>)
        /\ \/ RenamesChampion(p) /\ f = "champion.json.tmp" /\ g = "champion.json"
           \/ At(p, "score", 7) /\ f = "receipt.json.tmp" /\ g = "receipt.json"
  BY DEF StampedNames, Champion, Receipt
<1>3. AtRoot(p)
  BY <1>2 DEF AtRoot, Carries, RenamesChampion, At, Is
<1>4. StampedNames \subseteq RootNames
  BY DEF StampedNames, RootNames, RootFiles
<1>5. PICK src \in Paths, dst \in Paths : src = <<Root, f>> /\ dst = <<Root, g>>
  BY <1>4, PathFacts
<1>6. src # dst
  BY <1>2, <1>5
<1>7. Is(p, "rollback") \/ Is(p, "score") => proc[p].at >= 1
  BY <1>2 DEF Is, At, RenamesChampion
<1>8. /\ \A q \in Procs \ {p} : proc'[q] = proc[q]
      /\ proc'[p].job = proc[p].job /\ proc'[p].at = proc[p].at + 1
      /\ ~proc'[p].raised
  BY <1>1, <1>7, Advanced
<1>9. /\ TypeOK'
      /\ content[src] # Absent /\ content'[src] = Absent /\ content'[dst] = content[src]
      /\ \A h \in Paths \ {src, dst} : content'[h] = content[h]
      /\ \A q \in Procs : \/ handle'[q] = handle[q] /\ handle[q] \notin {src, dst}
                          \/ handle[q] = src /\ handle'[q] = dst
                          \/ handle[q] = dst /\ handle'[q] = Unlinked
  BY <1>2, <1>5, <1>6, <1>7, Replaced
<1>10. \A q \in Procs : HandleOK(q)'
  <2>1. handle'[p] = Unlinked
    <3>1. handle[p] = Unlinked
      BY <1>1, <1>2 DEF HandleOK, At, Is, WritesChampion, RenamesChampion
    <3> QED BY <1>9, <3>1, PathFacts
  <2>2. HandleOK(p)'
    BY <2>1 DEF HandleOK
  <2>3. ASSUME NEW q \in Procs, q # p PROVE HandleOK(q)'
    <3>1. HandleOK(q) /\ proc'[q] = proc[q]
      BY <1>8, <2>3, State
    <3>2. CASE handle'[q] = handle[q]
      BY <3>1, <3>2 DEF HandleOK, At, Is, WritesChampion
    <3>3. CASE handle[q] = src /\ handle'[q] = dst
      <4>1. src # Unlinked
        BY PathFacts
      <4>2. /\ ~proc[q].raised
            /\ f = "champion.json.tmp" => WritesChampion(q)
            /\ f = "receipt.json.tmp" => At(q, "score", 6)
        BY <1>5, <3>1, <3>3, <4>1 DEF HandleOK, Champion, Receipt
      <4> QED BY <1>2, <1>5, <3>1, <3>3, <4>2
              DEF HandleOK, At, Is, WritesChampion, Champion, Receipt
    <3>4. CASE handle'[q] = Unlinked
      BY <3>4 DEF HandleOK
    <3> QED BY <1>9, <3>2, <3>3, <3>4
  <2> QED BY <2>2, <2>3
<1>11. \A v \in Versions, h \in VersionFiles : content'[<<v, h>>] = content[<<v, h>>]
  <2>1. \A v \in Versions, h \in VersionFiles : <<v, h>> \in Paths \ {src, dst}
    BY <1>5, PathFacts
  <2> QED BY <1>9, <2>1
<1>12. \A h \in RootNames \ {f, g} : content'[<<Root, h>>] = content[<<Root, h>>]
  <2>1. \A h \in RootNames \ {f, g} : <<Root, h>> \in Paths \ {src, dst}
    BY <1>5, PathFacts
  <2> QED BY <1>9, <2>1
<1>13. \A h \in StampedNames :
          \/ content'[<<Root, h>>] \notin Stamps
          \/ \E k \in StampedNames : content'[<<Root, h>>] = content[<<Root, k>>]
  BY <1>4, <1>5, <1>9, <1>12, PathFacts
<1>14. \A q \in Procs \ {p} : \/ handle'[q] = handle[q]
                              \/ \E h \in RootNames : handle[q] = <<Root, h>>
  BY <1>4, <1>5, <1>9
<1>15. TurnsOK'
  <2>1. ~overlapped => content[src] = Own(p)
    BY <1>2, <1>5, State DEF TurnsOK, TurnOK
  <2>2. Own(p) \in Stamps
    BY <1>3, AtRootFacts
  <2>3. ~overlapped => /\ content'[Champion] \in Stamps \cup {Absent}
                       /\ content'[Receipt] \in Stamps \cup {Absent}
    <3>1. CASE g = "champion.json"
      <4>1. content'[Champion] = content[src]
        BY <1>5, <1>9, <3>1 DEF Champion
      <4>2. content'[Receipt] = content[Receipt]
        BY <1>2, <1>4, <1>12, <3>1 DEF Receipt, StampedNames
      <4> QED BY <2>1, <2>2, <4>1, <4>2, State DEF TurnsOK
    <3>2. CASE g = "receipt.json"
      <4>1. content'[Receipt] = content[src]
        BY <1>5, <1>9, <3>2 DEF Receipt
      <4>2. content'[Champion] = content[Champion]
        BY <1>2, <1>4, <1>12, <3>2 DEF Champion, StampedNames
      <4> QED BY <2>1, <2>2, <4>1, <4>2, State DEF TurnsOK
    <3> QED BY <1>2, <3>1, <3>2
  <2>4. TurnOK(p)'
    BY <1>1, <1>2, <1>8 DEF TurnOK, WritesChampion, RenamesChampion, At, Is
  <2>5. ASSUME NEW q \in Procs \ {p}, ~overlapped, Running(q), TurnOK(q) PROVE TurnOK(q)'
    <3>1. /\ proc[q].job \in {"promote", "rollback"} => f = "receipt.json.tmp"
          /\ proc[q].job = "score" => f = "champion.json.tmp"
      BY <1>2, <2>5, Alone DEF At, Is, RenamesChampion
    <3>2. TurnOK(q) /\ HandleOK(q) /\ proc'[q] = proc[q]
      BY <1>8, <2>5, State
    <3>3. CASE handle'[q] = handle[q]
      BY <1>2, <1>4, <1>12, <2>5, <3>1, <3>2, <3>3, TurnStays DEF StampedNames
    <3>4. CASE handle[q] = src \/ handle[q] = dst
      <4>1. src # Unlinked /\ dst # Unlinked
        BY PathFacts
      <4>2. \/ WritesChampion(q) /\ f = "champion.json.tmp"
            \/ At(q, "score", 6) /\ f = "receipt.json.tmp"
        BY <1>2, <1>5, <3>2, <3>4, <4>1 DEF HandleOK, Champion, Receipt
      <4> QED BY <3>1, <4>2 DEF WritesChampion, At, Is
    <3> QED BY <1>9, <3>3, <3>4
  <2> QED BY <1>8, <2>3, <2>4, <2>5, State, TurnsStep
<1>16. UNCHANGED <<uses, overlapped>>
  OBVIOUS
<1> QED BY <1>3, <1>9, <1>10, <1>11, <1>13, <1>14, <1>15, <1>16, RootAdvance

LEMMA Replacing ==
  ASSUME IInv, NEW p \in Procs, ReplaceFile(p), ~Raise(p)
  PROVE  IInv'
<1>1. /\ Running(p) /\ UNCHANGED <<day, jobs, promotions, crashes, uses, overlapped>>
      /\ Advance(p)
      /\ \/ /\ At(p, "promote", 6)
            /\ Replace(<<proc[p].ver, "manifest.json.tmp">>, <<proc[p].ver, "manifest.json">>)
         \/ RenamesChampion(p) /\ Replace(<<Root, "champion.json.tmp">>, Champion)
         \/ At(p, "score", 7) /\ Replace(<<Root, "receipt.json.tmp">>, Receipt)
  BY ReplaceSites
<1> QED BY <1>1, ReplaceInVersion, ReplaceInRoot

-----------------------------------------------------------------------------
(* Steps that write nothing                                                *)

\* A step of p that leaves the files alone.
LEMMA QuietStep ==
  ASSUME IInv, NEW p \in Procs,
         UNCHANGED <<content, day, jobs, promotions, uses, overlapped>>, crashes' \in Nat,
         handle' \in [Procs -> Paths \cup {Unlinked}],
         \A q \in Procs \ {p} : proc'[q] = proc[q] /\ handle'[q] = handle[q],
         proc' \in [Procs -> Job],
         Is(p, "promote")' => Is(p, "promote") /\ proc'[p].ver = proc[p].ver,
         Running(p)' => Running(p) /\ proc'[p].job = proc[p].job /\ TurnOK(p)',
         ProcOK(p)'
  PROVE  IInv'
<1>1. TypeOK'
  BY State DEF TypeOK
<1>2. \A q \in Procs \ {p} : HandleOK(q)'
  BY State DEF HandleOK, At, Is, WritesChampion
<1>3. RootOK'
  BY State DEF RootOK, StampOK, Readable
<1>4. TurnsOK'
  <2>1. ASSUME NEW q \in Procs \ {p}, ~overlapped, Running(q), TurnOK(q) PROVE TurnOK(q)'
    BY <2>1, TurnStays
  <2>2. ~overlapped => /\ content'[Champion] \in Stamps \cup {Absent}
                       /\ content'[Receipt] \in Stamps \cup {Absent}
    BY State DEF TurnsOK
  <2> QED BY <2>1, <2>2, TurnsStep
<1>5. /\ \A v \in Versions, f \in VersionFiles : content'[<<v, f>>] = content[<<v, f>>]
      /\ UNCHANGED <<uses, overlapped>>
  OBVIOUS
<1> QED BY <1>1, <1>2, <1>3, <1>4, <1>5, RootStep

LEMMA RaiseStep ==
  ASSUME IInv, NEW p \in Procs, Running(p), Raise(p), handle[p] = Unlinked,
         UNCHANGED <<content, handle, day, jobs, promotions, crashes, uses, overlapped>>,
         ~(Is(p, "load") /\ proc[p].champ /\ uses[proc[p].ver] <= 1)
  PROVE  IInv'
<1>1. proc'[p] = [proc[p] EXCEPT !.raised = TRUE]
  BY State DEF Raise
<1>2. /\ proc'[p].job = proc[p].job /\ proc'[p].at = proc[p].at
      /\ proc'[p].ver = proc[p].ver /\ proc'[p].trial = proc[p].trial
      /\ proc'[p].seen = proc[p].seen /\ proc'[p].champ = proc[p].champ
      /\ proc'[p].raised
  BY <1>1, State DEF Job
<1>3. proc' \in [Procs -> Job] /\ \A q \in Procs \ {p} : proc'[q] = proc[q]
  <2>1. [proc[p] EXCEPT !.raised = TRUE] \in Job
    BY State DEF Job
  <2> QED BY <2>1, State DEF Raise
<1>4. ~Running(p)'
  BY <1>2 DEF Running
<1>5. Own(p)' = Own(p) /\ \A j : Is(p, j)' <=> Is(p, j)
  BY <1>2 DEF Own, Is
<1>6. JobOK(p)'
  BY <1>2, State, Busy DEF JobOK, Is
<1>7. HandleOK(p)'
  BY DEF HandleOK
<1>8. PromoteOK(p)'
  <2>1. Sole(p)' => Sole(p)
    BY <1>2, <1>4 DEF Sole
  <2> QED BY <1>2, <1>5, <2>1, State DEF PromoteOK, Exists
<1>9. CarryOK(p)' /\ LoadOK(p)'
  BY <1>2, <1>5, State DEF CarryOK, Carries, StampOK, LoadOK
<1>10. ProcOK(p)'
  BY <1>6, <1>7, <1>8, <1>9 DEF ProcOK
<1>11. crashes' \in Nat /\ handle' \in [Procs -> Paths \cup {Unlinked}]
  BY State DEF TypeOK
<1> QED BY <1>2, <1>3, <1>4, <1>5, <1>10, <1>11, QuietStep

LEMMA Failing ==
  ASSUME IInv, NEW p \in Procs, ReplaceFile(p), Raise(p)
  PROVE  IInv'
<1>1. /\ Running(p) /\ UNCHANGED <<day, jobs, promotions, crashes, uses, overlapped>>
      /\ At(p, "promote", 6) \/ RenamesChampion(p) \/ At(p, "score", 7)
  BY ReplaceSites
<1>2. UNCHANGED <<content, handle>>
  <2>1. ~Advance(p)
    <3>1. proc'[p] = [proc[p] EXCEPT !.raised = TRUE]
      BY State DEF Raise
    <3>2. proc'[p].at = proc[p].at
      BY <3>1, State DEF Job
    <3>3. ASSUME Advance(p) PROVE FALSE
      <4>1. proc'[p] = [proc[p] EXCEPT !.at = proc[p].at + 1]
        BY <3>3, State DEF Advance
      <4>2. proc'[p].at = proc[p].at + 1
        BY <4>1, State DEF Job
      <4> QED BY <3>2, <4>2, State
    <3> QED BY <3>3
  <2> QED BY <2>1, ReplaceSites
<1>3. handle[p] = Unlinked
  BY <1>1, State DEF HandleOK, RenamesChampion, WritesChampion, At, Is
<1>4. ~Is(p, "load")
  BY <1>1 DEF RenamesChampion, At, Is
<1> QED BY <1>1, <1>2, <1>3, <1>4, RaiseStep

LEMMA NoJobOK ==
  ASSUME NEW p \in Procs, proc'[p] = NoJob, handle'[p] = Unlinked
  PROVE  /\ ProcOK(p)' /\ proc'[p] \in Job /\ ~Running(p)'
         /\ ~Is(p, "promote")'
<1>1. /\ proc'[p].job = "none" /\ proc'[p].at = 0 /\ ~proc'[p].raised
      /\ proc'[p] \in Job
  BY DEF NoJob, Job, Jobs
<1>2. JobOK(p)' /\ HandleOK(p)' /\ PromoteOK(p)' /\ CarryOK(p)' /\ LoadOK(p)'
  BY <1>1 DEF JobOK, HandleOK, PromoteOK, CarryOK, Carries, LoadOK, Is, Last
<1>3. ~Running(p)'
  BY <1>1, ScriptLengths DEF Running, Length, Jobs, Last
<1> QED BY <1>1, <1>2, <1>3 DEF ProcOK, Is

LEMMA Exiting ==
  ASSUME IInv, NEW p \in Procs, Exit(p)
  PROVE  IInv'
<1>1. /\ Done(p) \/ proc[p].raised
      /\ UNCHANGED <<content, handle, day, jobs, promotions, crashes, uses, overlapped>>
      /\ proc'[p] = NoJob /\ \A q \in Procs \ {p} : proc'[q] = proc[q]
  BY State DEF Exit
<1>2. handle[p] = Unlinked
  <2>1. Done(p) => proc[p].at = Last(proc[p].job)
    BY State, ScriptLengths DEF Done, Length
  <2> QED BY <1>1, <2>1, State DEF HandleOK, WritesChampion, At, Is, Last
<1>3. /\ ProcOK(p)' /\ proc'[p] \in Job /\ ~Running(p)' /\ ~Is(p, "promote")'
  BY <1>1, <1>2, NoJobOK
<1>4. proc' \in [Procs -> Job]
  BY <1>1, <1>3, State DEF Exit
<1>5. crashes' \in Nat /\ handle' \in [Procs -> Paths \cup {Unlinked}]
  BY <1>1, State DEF TypeOK
<1> QED BY <1>1, <1>3, <1>4, <1>5, QuietStep

LEMMA Dying ==
  ASSUME IInv, NEW p \in Procs, Crash(p)
  PROVE  IInv'
<1>1. /\ UNCHANGED <<content, day, jobs, promotions, uses, overlapped>>
      /\ crashes' \in Nat /\ handle' = [handle EXCEPT ![p] = Unlinked]
      /\ proc' = [proc EXCEPT ![p] = NoJob]
  BY State DEF Crash, CloseAll, TypeOK
<1>2. /\ proc'[p] = NoJob /\ handle'[p] = Unlinked
      /\ \A q \in Procs \ {p} : proc'[q] = proc[q] /\ handle'[q] = handle[q]
  BY <1>1, State
<1>3. /\ ProcOK(p)' /\ proc'[p] \in Job /\ ~Running(p)' /\ ~Is(p, "promote")'
  BY <1>2, NoJobOK
<1>4. proc' \in [Procs -> Job] /\ handle' \in [Procs -> Paths \cup {Unlinked}]
  BY <1>1, <1>2, <1>3, State
<1> QED BY <1>1, <1>2, <1>3, <1>4, QuietStep

-----------------------------------------------------------------------------
(* Files are read                                                          *)

LEMMA ReadSites ==
  ASSUME IInv, NEW p \in Procs, ReadFile(p)
  PROVE  /\ Running(p) /\ proc[p].ver \in Versions
         /\ UNCHANGED <<content, handle, day, jobs, promotions, crashes, uses, overlapped>>
         /\ handle[p] = Unlinked
         /\ \E f \in BundleFiles :
              /\ \/ At(p, "rollback", 0) /\ f = "manifest.json"
                 \/ /\ Is(p, "load") \/ Is(p, "score")
                    /\ proc[p].at \in 0 .. 1
                 \/ /\ At(p, "load", 2) \/ At(p, "score", 2)
                    /\ f = "manifest.json"
              /\ \/ /\ Readable(<<proc[p].ver, f>>)
                    /\ proc' = [proc EXCEPT ![p].at = @ + 1,
                                            ![p].trial = content[<<proc[p].ver, f>>].trial,
                                            ![p].seen = @ \cup {content[<<proc[p].ver, f>>].trial}]
                 \/ ~Readable(<<proc[p].ver, f>>) /\ Raise(p)
<1>1. /\ Running(p) /\ Step(p).op = "read"
      /\ UNCHANGED <<content, handle, day, jobs, promotions, crashes, uses, overlapped>>
  BY DEF ReadFile, Doing
<1>2. PICK f \in BundleFiles :
        /\ Step(p).file = f
        /\ \/ At(p, "rollback", 0) /\ f = "manifest.json"
           \/ /\ Is(p, "load") \/ Is(p, "score")
              /\ proc[p].at \in 0 .. 1
           \/ /\ At(p, "load", 2) \/ At(p, "score", 2)
              /\ f = "manifest.json"
  BY <1>1, State, Sites DEF BundleFiles
<1>3. PathOf(p, f) = <<proc[p].ver, f>>
  BY DEF PathOf
<1>4. \/ /\ Readable(PathOf(p, Step(p).file))
         /\ proc' = [proc EXCEPT ![p].at = @ + 1,
                                 ![p].trial = content[PathOf(p, Step(p).file)].trial,
                                 ![p].seen = @ \cup {content[PathOf(p, Step(p).file)].trial}]
      \/ ~Readable(PathOf(p, Step(p).file)) /\ Raise(p)
  BY DEF ReadFile
<1>5. handle[p] = Unlinked
  BY <1>2, State DEF HandleOK, At, Is, WritesChampion
<1> QED BY <1>1, <1>2, <1>3, <1>4, <1>5, Busy

LEMMA ReadingFile ==
  ASSUME IInv, NEW p \in Procs, ReadFile(p)
  PROVE  IInv'
<1>1. /\ Running(p) /\ proc[p].ver \in Versions /\ handle[p] = Unlinked
      /\ UNCHANGED <<content, handle, day, jobs, promotions, crashes, uses, overlapped>>
  BY ReadSites
<1>2. PICK f \in BundleFiles :
        /\ \/ At(p, "rollback", 0) /\ f = "manifest.json"
           \/ /\ Is(p, "load") \/ Is(p, "score")
              /\ proc[p].at \in 0 .. 1
           \/ /\ At(p, "load", 2) \/ At(p, "score", 2)
              /\ f = "manifest.json"
        /\ \/ /\ Readable(<<proc[p].ver, f>>)
              /\ proc' = [proc EXCEPT ![p].at = @ + 1,
                                      ![p].trial = content[<<proc[p].ver, f>>].trial,
                                      ![p].seen = @ \cup {content[<<proc[p].ver, f>>].trial}]
           \/ ~Readable(<<proc[p].ver, f>>) /\ Raise(p)
  BY ReadSites
<1>3. PICK w \in Versions : w = proc[p].ver
  BY <1>1
\* What an id promoted once offers its readers.
<1>4. uses[w] <= 1 /\ Exists(<<w, "manifest.json">>) =>
        \E t \in Trials : \A g \in BundleFiles : content[<<w, g>>] = Stamp(w, t)
  BY State DEF DirOK, Whole
<1>5. \A t \in Trials : /\ Stamp(w, t) \in Stamps /\ Stamp(w, t).trial = t
                        /\ Stamp(w, t).ver = w
  BY DEF Stamp, Stamps
<1>6. "manifest.json" \in BundleFiles
  BY DEF BundleFiles
<1>7. CASE ~Readable(<<w, f>>) /\ Raise(p)
  <2>1. ~(Is(p, "load") /\ proc[p].champ /\ uses[w] <= 1)
    BY <1>3, <1>4, <1>5, <1>7, State DEF LoadOK, Readable
  <2> QED BY <1>1, <1>3, <1>7, <2>1, RaiseStep
<1>8. CASE /\ Readable(<<w, f>>)
           /\ proc' = [proc EXCEPT ![p].at = @ + 1,
                                   ![p].trial = content[<<w, f>>].trial,
                                   ![p].seen = @ \cup {content[<<w, f>>].trial}]
  <2>1. PICK t \in Trials : t = content[<<w, f>>].trial /\ content[<<w, f>>] \in Stamps
    BY <1>8 DEF Readable, Stamps
  <2>2. proc'[p] = [proc[p] EXCEPT !.at = proc[p].at + 1, !.trial = t,
                                   !.seen = proc[p].seen \cup {t}]
        /\ \A q \in Procs \ {p} : proc'[q] = proc[q]
    BY <1>8, <2>1, State
  <2>3. /\ proc'[p].job = proc[p].job /\ proc'[p].at = proc[p].at + 1
        /\ proc'[p].ver = w /\ proc'[p].trial = t
        /\ proc'[p].seen = proc[p].seen \cup {t} /\ proc'[p].champ = proc[p].champ
        /\ ~proc'[p].raised /\ proc[p].at \in Nat
    BY <1>1, <1>3, <2>2, State, Busy DEF Job
  <2>4. proc'[p] \in Job
    <3>1. /\ proc[p].at + 1 \in 0 .. 10
          /\ proc[p].seen \cup {t} \in SUBSET Trials
      BY <1>1, State, Busy DEF Job
    <3> QED BY <2>2, <3>1, State DEF Job
  <2>5. proc' \in [Procs -> Job]
    BY <1>8, <2>2, <2>4, State
  <2>6. JobOK(p)' /\ HandleOK(p)' /\ PromoteOK(p)'
    <3>1. proc[p].job \in {"rollback", "load", "score"}
      BY <1>2 DEF At, Is
    <3>2. JobOK(p)'
      BY <1>1, <1>3, <2>3, <3>1, Busy DEF JobOK, Is
    <3>3. HandleOK(p)'
      BY <1>1 DEF HandleOK
    <3>4. PromoteOK(p)'
      BY <2>3, <3>1 DEF PromoteOK, Is
    <3> QED BY <3>2, <3>3, <3>4
  <2>7. CarryOK(p)'
    <3> SUFFICES ASSUME Carries(p)' PROVE StampOK(Own(p))'
      BY DEF CarryOK
    <3>1. f = "manifest.json"
      BY <1>2, <2>3 DEF Carries, Is, At
    <3>2. Own(p)' = Stamp(w, t)
      BY <2>3 DEF Own
    <3>3. uses[w] <= 1 => content[<<w, "manifest.json">>] = Stamp(w, t)
      BY <1>4, <1>5, <1>6, <1>8, <2>1, <3>1, PathFacts DEF Readable, Exists
    <3>4. PICK s \in Stamps : s = Stamp(w, t) /\ s.ver = w
      BY <1>5
    <3>5. StampOK(s)'
      BY <1>1, <3>3, <3>4 DEF StampOK
    <3> QED BY <3>2, <3>4, <3>5
  <2>8. LoadOK(p)'
    <3> SUFFICES ASSUME Is(p, "load")', proc'[p].champ, uses[w] <= 1
                 PROVE  /\ Exists(<<w, "manifest.json">>)
                        /\ proc[p].seen \cup {t} = {content[<<w, "manifest.json">>].trial}
      BY <1>1, <2>3 DEF LoadOK, Exists
    <3>1. /\ Is(p, "load") /\ proc[p].champ
          /\ Exists(<<w, "manifest.json">>)
          /\ proc[p].seen \in {{}, {content[<<w, "manifest.json">>].trial}}
      BY <1>3, <2>3, State DEF LoadOK, Is
    <3>2. content[<<w, "manifest.json">>].trial = t
      BY <1>4, <1>5, <1>6, <2>1, <3>1
    <3> QED BY <3>1, <3>2
  <2>9. TurnOK(p)'
    <3>1. \/ Is(p, "rollback") /\ proc'[p].at = 1
          \/ (Is(p, "load") \/ Is(p, "score")) /\ proc'[p].at \in 1 .. 3
      BY <1>2, <2>3 DEF At, Is
    <3> QED BY <2>3, <3>1 DEF TurnOK, WritesChampion, RenamesChampion, At, Is
  <2>10. ProcOK(p)' /\ ~Is(p, "promote")'
    <3>1. ~Is(p, "promote")'
      BY <1>2, <2>3 DEF At, Is
    <3> QED BY <2>6, <2>7, <2>8, <3>1 DEF ProcOK
  <2>11. crashes' \in Nat /\ handle' \in [Procs -> Paths \cup {Unlinked}]
    BY <1>1, State DEF TypeOK
  <2> QED BY <1>1, <2>2, <2>3, <2>5, <2>9, <2>10, <2>11, QuietStep
<1> QED BY <1>2, <1>3, <1>7, <1>8

-----------------------------------------------------------------------------
(* The invariant                                                           *)

\* Nothing happens but that a day may pass.
LEMMA Idle ==
  ASSUME IInv, UNCHANGED <<content, handle, proc, jobs, promotions, crashes, uses, overlapped>>,
         day' \in 1 .. MaxDays
  PROVE  IInv'
<1>1. TypeOK'
  BY DEF IInv, TypeOK
<1>2. ProcsOK'
  <2> SUFFICES ASSUME NEW q \in Procs PROVE ProcOK(q)'
    BY DEF ProcsOK
  <2>1. HandleOK(q)'
    BY State DEF HandleOK, At, Is, WritesChampion
  <2>2. proc'[q] = proc[q] /\ uses \in [Versions -> Nat]
    BY State
  <2> QED BY <2>1, <2>2, OtherStays
<1>3. UsesOK'
  BY DEF IInv, UsesOK, Is, Exists
<1>4. DirOK'
  BY DEF IInv, DirOK, Exists, Whole
<1>5. RootOK'
  BY DEF IInv, RootOK, Readable, StampOK
<1>6. TurnsOK'
  <2>1. \A q \in Procs : (Running(q)' <=> Running(q)) /\ (TurnOK(q) => TurnOK(q)')
    BY TurnStays DEF Running, Length
  <2> QED BY <2>1 DEF IInv, TurnsOK
<1> QED BY <1>1, <1>2, <1>3, <1>4, <1>5, <1>6 DEF IInv

LEMMA InitHolds == Init => IInv
<1> SUFFICES ASSUME Init PROVE IInv
  OBVIOUS
<1>1. /\ content = [f \in Paths |-> Absent] /\ handle = [p \in Procs |-> Unlinked]
      /\ proc = [p \in Procs |-> NoJob] /\ day = 1 /\ jobs = 0 /\ promotions = 0
      /\ crashes = 0 /\ uses = [v \in Versions |-> 0] /\ overlapped = FALSE
  BY DEF Init, FilesInit
<1>2. /\ NoJob \in Job /\ NoJob.job = "none" /\ NoJob.at = 0 /\ ~NoJob.raised
  BY DEF NoJob, Job, Jobs
<1>3. TypeOK
  <2>1. /\ content \in [Paths -> Stamps \cup {Absent, Empty, Torn}]
        /\ handle \in [Procs -> Paths \cup {Unlinked}] /\ uses \in [Versions -> Nat]
    BY <1>1
  <2>2. proc \in [Procs -> Job]
    BY <1>1, <1>2
  <2>3. day \in 1 .. MaxDays
    BY <1>1, BoundsAssumption
  <2> QED BY <1>1, <2>1, <2>2, <2>3 DEF TypeOK
<1>4. ProcsOK
  <2> SUFFICES ASSUME NEW p \in Procs PROVE ProcOK(p)
    BY DEF ProcsOK
  <2>1. /\ proc[p].job = "none" /\ proc[p].at = 0 /\ ~proc[p].raised
        /\ handle[p] = Unlinked
    BY <1>1, <1>2
  <2>2. JobOK(p) /\ HandleOK(p) /\ PromoteOK(p) /\ CarryOK(p) /\ LoadOK(p)
    BY <2>1 DEF JobOK, HandleOK, PromoteOK, CarryOK, Carries, LoadOK, Is, Last
  <2> QED BY <2>2 DEF ProcOK
<1>5. \A f \in Paths : content[f] = Absent
  BY <1>1
<1>6. UsesOK
  BY <1>1, <1>2, <1>5, PathFacts DEF UsesOK, Is, Exists
<1>7. DirOK
  BY <1>5, PathFacts DEF DirOK, Exists, VersionFiles, BundleFiles
<1>8. RootOK
  BY <1>5, PathFacts DEF RootOK, Readable, RootNames, RootFiles
<1>9. TurnsOK
  <2>1. \A p \in Procs : ~Running(p)
    <3>1. Len(Script("none")) = 0
      BY DEF Script
    <3> SUFFICES ASSUME NEW p \in Procs PROVE ~Running(p)
      OBVIOUS
    <3>2. proc[p].job = "none" /\ proc[p].at = 0
      BY <1>1, <1>2
    <3> QED BY <3>1, <3>2 DEF Running, Length
  <2>2. content[Champion] = Absent /\ content[Receipt] = Absent
    BY <1>5, PathFacts DEF Champion, Receipt, RootNames, RootFiles
  <2> QED BY <2>1, <2>2 DEF TurnsOK
<1> QED BY <1>3, <1>4, <1>6, <1>7, <1>8, <1>9 DEF IInv

LEMMA StepHolds ==
  ASSUME IInv, [Next]_vars
  PROVE  IInv'
<1>1. CASE Midnight
  <2>1. day' \in 1 .. MaxDays
    BY <1>1, BoundsAssumption DEF Midnight, IInv, TypeOK
  <2> QED BY <1>1, <2>1, Idle DEF Midnight
<1>2. CASE Quiet \/ UNCHANGED vars
  BY <1>2, Idle DEF Quiet, vars, IInv, TypeOK
<1>3. ASSUME NEW p \in Procs, ProcStep(p) PROVE IInv'
  BY <1>3, Promoting, RollingBack, Reading, Opening, Writing, Replacing, Failing,
     ReadingFile, Exiting, Dying DEF ProcStep
<1> QED BY <1>1, <1>2, <1>3 DEF Next

\* What the files, the counters and the running jobs owe each other, in every
\* state any of the four commands can reach (registry/promote.py:204-304,
\* bundle.py:40-97, champion.py:21-38, scorer.py:60-190, __init__.py).
THEOREM RegistryInvariant == Spec => []IInv
<1>1. Init => IInv
  BY InitHolds
<1>2. IInv /\ [Next]_vars => IInv'
  BY StepHolds
<1> QED BY <1>1, <1>2, PTL DEF Spec

-----------------------------------------------------------------------------
(* What it says of the properties                                          *)

\* A stamp that is not stale is that of a whole bundle.
LEMMA StampedIsWhole ==
  ASSUME IInv, NEW s \in Stamps, StampOK(s), uses[s.ver] <= 1
  PROVE  Whole(s.ver, s.trial)
<1>1. content[<<s.ver, "manifest.json">>] = s /\ s.ver \in Versions
  BY DEF StampOK, Stamps
<1>2. PICK t \in Trials : Whole(s.ver, t)
  BY <1>1, State, PathFacts DEF IInv, DirOK, Exists
<1>3. Stamp(s.ver, t) = s
  BY <1>1, <1>2 DEF Whole, BundleFiles
<1>4. t = s.trial
  BY <1>3 DEF Stamp
<1> QED BY <1>2, <1>4

\* champion.json leads to a whole bundle of the trial it names, whatever else
\* ran or died, as long as its version id was not promoted twice
\* (registry/champion.py:21-50, bundle.py:36-52).
THEOREM ChampionLeadsToBundle == Spec => []ChampionIsWhole
<1>1. ASSUME IInv PROVE ChampionIsWhole
  <2> SUFFICES ASSUME Readable(Champion), uses[content[Champion].ver] <= 1
               PROVE  Whole(content[Champion].ver, content[Champion].trial)
    BY DEF ChampionIsWhole
  <2>1. content[Champion] \in Stamps /\ StampOK(content[Champion])
    BY <1>1 DEF IInv, RootOK, Readable, Champion
  <2> QED BY <1>1, <2>1, StampedIsWhole
<1> QED BY <1>1, RegistryInvariant, PTL

\* No reader finds part of a champion.json while its writers take turns
\* (registry/champion.py:48-50: tmp.write_text, then os.replace).
THEOREM NobodyReadsHalfAPointer == Spec => []ChampionIsReadable
<1>1. ASSUME IInv PROVE ChampionIsReadable
  BY <1>1 DEF IInv, TurnsOK, ChampionIsReadable, Exists, Readable
<1> QED BY <1>1, RegistryInvariant, PTL

\* load_model of the champion returns three files of one trial and never raises
\* (registry/__init__.py:35-61, bundle.py:55-79).
THEOREM LoadingTheChampionWorks == Spec => []ChampionLoads
<1>1. ASSUME IInv PROVE ChampionLoads
  <2> SUFFICES ASSUME NEW p \in Procs, Is(p, "load"), proc[p].champ, uses[proc[p].ver] <= 1
               PROVE  /\ ~proc[p].raised
                      /\ Done(p) => proc[p].seen = {content[<<proc[p].ver, "manifest.json">>].trial}
    BY DEF ChampionLoads, Is
  <2>1. Done(p) => proc[p].at = 3
    BY LoadCalls DEF Done, Length, Is
  <2>2. LoadOK(p)
    BY <1>1 DEF IInv, ProcsOK, ProcOK
  <2> QED BY <2>1, <2>2 DEF LoadOK
<1> QED BY <1>1, RegistryInvariant, PTL

\* The receipt of a score names the trial whose bundle was scored
\* (registry/scorer.py:256-334).
THEOREM ReceiptTellsTheTruth == Spec => []ReceiptIsTrue
<1>1. ASSUME IInv PROVE ReceiptIsTrue
  <2> SUFFICES ASSUME Exists(Receipt), ~overlapped
               PROVE  /\ Readable(Receipt)
                      /\ uses[content[Receipt].ver] <= 1 =>
                           Whole(content[Receipt].ver, content[Receipt].trial)
    BY DEF ReceiptIsTrue
  <2>1. content[Receipt] \in Stamps
    BY <1>1 DEF IInv, TurnsOK, Exists
  <2>2. Readable(Receipt) /\ StampOK(content[Receipt])
    BY <1>1, <2>1 DEF IInv, RootOK, Readable, Receipt
  <2> QED BY <1>1, <2>1, <2>2, StampedIsWhole
<1> QED BY <1>1, RegistryInvariant, PTL

\* The one step that ends a promotion.
LEMMA LastStep ==
  ASSUME IInv, Next, NEW p \in Procs, Is(p, "promote"), Running(p), Done(p)'
  PROVE  /\ At(p, "promote", 9) /\ Advance(p)
         /\ Replace(<<Root, "champion.json.tmp">>, Champion)
         /\ UNCHANGED <<day, jobs, promotions, crashes, uses, overlapped>>
<1>1. /\ proc[p].at < 10 /\ proc[p].at \in Nat /\ proc[p].job = "promote"
      /\ ~proc[p].raised /\ proc[p] \in Job /\ ~Done(p)
  <2>1. /\ proc[p].at < 10 /\ proc[p].at \in Nat /\ proc[p].job = "promote"
        /\ ~proc[p].raised /\ proc[p] \in Job
    BY Busy, State DEF Is, Last
  <2>2. Len(Script("promote")) = 10
    BY PromoteCalls
  <2>3. ~Done(p)
    <3>1. Len(Script(proc[p].job)) = 10 /\ proc[p].at # 10
      BY <2>1, <2>2
    <3> QED BY <3>1 DEF Done, Length
  <2> QED BY <2>1, <2>3
<1>2. proc'[p] # proc[p]
  BY <1>1 DEF Done, Length
<1>3. PICK q \in Procs : ProcStep(q)
  BY <1>2 DEF Next, Midnight, Quiet, vars
<1>4. q = p
  BY <1>2, <1>3, State DEF ProcStep, StartPromote, StartRollback, StartLoad, StartScore,
     StartReader, Start, OpenFile, WriteFile, ReplaceFile, ReadFile, Advance, Raise, Exit, Crash
<1>5. ~(StartPromote(p) \/ StartRollback(p) \/ StartLoad(p) \/ StartScore(p))
  BY <1>1 DEF StartPromote, StartRollback, StartLoad, StartScore, StartReader, Start
<1>6. ~Exit(p) /\ ~Crash(p)
  <2>1. Exit(p) \/ Crash(p) => proc'[p].job = "none"
    BY State DEF Exit, Crash, NoJob
  <2> QED BY <2>1 DEF Done
<1>7. ~ReadFile(p)
  BY <1>1, ReadSites DEF At, Is
<1>8. Advance(p) => proc'[p].at = proc[p].at + 1 /\ proc'[p].job = "promote"
  <2>1. ~Is(p, "rollback") /\ ~Is(p, "score")
    BY <1>1 DEF Is
  <2> QED BY <1>1, <2>1, Advanced
<1>9. Done(p)' => (proc'[p].job = "promote" => proc'[p].at = 10)
  BY PromoteCalls DEF Done, Length
<1>10. ~OpenFile(p)
  <2> SUFFICES ASSUME OpenFile(p) PROVE FALSE
    OBVIOUS
  <2>1. Advance(p)
    BY OpenSites
  <2>2. At(p, "promote", 9)
    BY <1>1, <1>8, <1>9, <2>1 DEF At, Is
  <2>3. \A n \in {0, 2, 4, 7} : ~At(p, "promote", n)
    BY <2>2 DEF At
  <2>4. ~At(p, "rollback", 1) /\ ~At(p, "score", 3) /\ ~At(p, "score", 5)
    BY <2>2 DEF At, Is
  <2> QED BY <2>3, <2>4, OpenSites, Zenon
<1>11. ~WriteFile(p)
  BY <1>1, <1>8, <1>9, Written DEF At, Is, WritesChampion
<1>12. ReplaceFile(p)
  BY <1>3, <1>4, <1>5, <1>6, <1>7, <1>10, <1>11 DEF ProcStep
<1>13. ~Raise(p)
  <2>1. Raise(p) => proc'[p] = [proc[p] EXCEPT !.raised = TRUE]
    BY State DEF Raise
  <2>2. Raise(p) => proc'[p].job = "promote" /\ proc'[p].at = proc[p].at
    BY <1>1, <2>1 DEF Job
  <2> QED BY <1>1, <1>9, <2>2
<1>14. ~At(p, "promote", 6) /\ ~At(p, "score", 7)
  <2>1. Advance(p)
    BY <1>12, <1>13, ReplaceSites
  <2> QED BY <1>1, <1>8, <1>9, <2>1 DEF At, Is
<1>15. At(p, "promote", 9) /\ Advance(p) /\ Replace(<<Root, "champion.json.tmp">>, Champion)
  BY <1>1, <1>12, <1>13, <1>14, ReplaceSites DEF RenamesChampion, At, Is
<1> QED BY <1>12, <1>15, ReplaceSites

\* A promotion that returns, alone, has installed its own bundle and points to
\* it (registry/promote.py:265-275).
THEOREM PromotionInstallsItsBundle == Spec => PromoteDelivers
<1>1. ASSUME IInv, [Next]_vars
      PROVE  [\A p \in Procs :
               proc[p].job = "promote" /\ Running(p) /\ Done(p)' /\ ~overlapped
                 => /\ content'[Champion] = Stamp(proc[p].ver, proc[p].trial)
                    /\ Whole(proc[p].ver, proc[p].trial)']_vars
  <2> SUFFICES ASSUME Next, NEW p \in Procs, Is(p, "promote"), Running(p), Done(p)', ~overlapped
               PROVE  /\ content'[Champion] = Stamp(proc[p].ver, proc[p].trial)
                      /\ Whole(proc[p].ver, proc[p].trial)'
    BY <1>1 DEF Is
  <2>1. /\ At(p, "promote", 9) /\ Advance(p)
        /\ Replace(<<Root, "champion.json.tmp">>, Champion)
        /\ UNCHANGED <<day, jobs, promotions, crashes, uses, overlapped>>
    BY <1>1, LastStep
  <2>2. PICK w \in Versions, t \in Trials : w = proc[p].ver /\ t = proc[p].trial
    BY <1>1, Writes
  <2>3. proc'[p].ver = w /\ proc'[p].trial = t
    BY <1>1, <2>1, <2>2, Advanced DEF At, Is
  <2>4. PICK src \in Paths, dst \in Paths :
          src = <<Root, "champion.json.tmp">> /\ dst = Champion /\ src # dst
    BY PathFacts DEF RootNames, RootFiles, Champion
  <2>5. /\ content'[dst] = content[src]
        /\ \A f \in Paths \ {src, dst} : content'[f] = content[f]
    BY <1>1, <2>1, <2>4, Replaced DEF At, Is
  <2>6. content[src] = Stamp(w, t)
    BY <1>1, <2>1, <2>2, <2>4, State DEF TurnsOK, TurnOK, RenamesChampion, Own
  <2>7. \A f \in BundleFiles : content[<<w, f>>] = Stamp(w, t)
    <3>1. Sole(p) /\ PromoteOK(p)
      BY <1>1, State DEF Sole
    <3> QED BY <2>1, <2>2, <3>1 DEF PromoteOK, Own, At, Is, BundleFiles
  <2>8. \A f \in BundleFiles : content'[<<w, f>>] = Stamp(w, t)
    <3>1. \A f \in BundleFiles : <<w, f>> \in Paths \ {src, dst}
      BY <2>4, PathFacts DEF VersionFiles, Champion
    <3> QED BY <2>5, <2>7, <3>1
  <2> QED BY <2>2, <2>3, <2>4, <2>5, <2>6, <2>8 DEF Whole
<1> QED BY <1>1, RegistryInvariant, PTL DEF Spec, PromoteDelivers

-----------------------------------------------------------------------------
(* The promises of PublishedModels *)

BundleBar == [v \in Versions |-> IF Lapsed(v) THEN {} ELSE {t \in Trials : Whole(v, t)}]
ChampionBar == {content[Champion]} \cap Stamps
ReusedBar == {v \in Versions : Lapsed(v)}
Bar == <<BundleBar, ChampionBar, ReusedBar, overlapped>>

\* A call on a file touches one version, of whose promotion it is, or none.
LEMMA CallsTouch ==
  ASSUME IInv, NEW p \in Procs, OpenFile(p) \/ WriteFile(p) \/ ReplaceFile(p)
  PROVE  /\ UNCHANGED <<uses, overlapped>>
         /\ \/ /\ Is(p, "promote") /\ proc[p].at <= 6 /\ proc[p].ver \in Versions
               /\ \A v \in Versions \ {proc[p].ver}, f \in BundleFiles :
                    content'[<<v, f>>] = content[<<v, f>>]
               /\ content'[Champion] = content[Champion]
            \/ /\ \A v \in Versions, f \in BundleFiles : content'[<<v, f>>] = content[<<v, f>>]
               /\ content[Champion] # Absent => content'[Champion] # Absent
<1>1. PICK w : w = proc[p].ver
  OBVIOUS
<1>2. /\ \A v \in Versions, f \in VersionFiles : <<v, f>> \in Paths
      /\ \A f \in RootNames : <<Root, f>> \in Paths
      /\ \A f \in BundleFiles : f \in VersionFiles
      /\ Champion = <<Root, "champion.json">> /\ Champion \in Paths
      /\ \A v \in Versions : \A f, g : <<v, f>> # <<Root, g>>
  BY PathFacts DEF VersionFiles, RootNames, RootFiles, Champion
<1>3. CASE OpenFile(p)
  <2>1. /\ Running(p) /\ UNCHANGED <<uses, overlapped>> /\ w \in Versions
    BY <1>1, <1>3, OpenSites, Busy
  <2>2. CASE Is(p, "promote") /\ proc[p].at <= 6
    <3>1. PICK f \in VersionFiles : Open(p, <<w, f>>)
      BY <1>1, <1>3, <2>2, OpenSites DEF At, Is, VersionFiles, BundleFiles
    <3>2. \A g \in Paths : g # <<w, f>> => content'[g] = content[g]
      BY <1>2, <2>1, <3>1, Opened
    <3> QED BY <1>1, <1>2, <2>1, <2>2, <3>2
  <2>3. CASE ~(Is(p, "promote") /\ proc[p].at <= 6)
    <3>1. PICK f \in RootNames : Open(p, <<Root, f>>) /\ f # "champion.json"
      <4>1. \/ Open(p, <<Root, "champion.json.tmp">>)
            \/ Open(p, <<Root, "predictions">>)
            \/ Open(p, <<Root, "receipt.json.tmp">>)
        <5>1. \/ At(p, "promote", 0) \/ At(p, "promote", 2) \/ At(p, "promote", 4)
              \/ Open(p, <<Root, "champion.json.tmp">>)
              \/ Open(p, <<Root, "predictions">>)
              \/ Open(p, <<Root, "receipt.json.tmp">>)
          BY <1>3, OpenSites
        <5> QED BY <2>3, <5>1 DEF At
      <4>2. {"champion.json.tmp", "predictions", "receipt.json.tmp"} \subseteq RootNames
        BY DEF RootNames, RootFiles
      <4> QED BY <4>1, <4>2
    <3>2. \A g \in Paths : g # <<Root, f>> => content'[g] = content[g]
      BY <1>2, <3>1, Opened
    <3> QED BY <1>2, <2>1, <3>1, <3>2
  <2> QED BY <2>2, <2>3
<1>4. CASE WriteFile(p)
  <2>1. /\ Running(p) /\ UNCHANGED <<uses, overlapped>> /\ w \in Versions
        /\ \A f \in Paths : f # handle[p] => content'[f] = content[f]
        /\ handle[p] # Unlinked => content'[handle[p]] \in {Own(p), Torn}
        /\ HandleOK(p)
    BY <1>1, <1>4, Written, Busy, State DEF ProcOK
  <2>2. Is(p, "promote") \/ Carries(p)
    BY <1>4, Written DEF At, WritesChampion, Carries, Is
  <2>3. Own(p) # Absent /\ Torn # Absent
    BY <2>2, Writes, PathFacts
  <2>4. CASE Is(p, "promote") /\ proc[p].at <= 6
    <3>1. handle[p] = Unlinked \/ \E f \in VersionFiles : handle[p] = <<w, f>>
      BY <1>1, <2>1, <2>4 DEF HandleOK, At, Is, WritesChampion, VersionFiles, BundleFiles
    <3>2. /\ \A v \in Versions \ {w}, f \in BundleFiles : <<v, f>> # handle[p]
          /\ Champion # handle[p]
      BY <1>2, <2>1, <3>1, PathFacts
    <3> QED BY <1>1, <1>2, <2>1, <2>4, <3>2
  <2>5. CASE ~(Is(p, "promote") /\ proc[p].at <= 6)
    <3>1. handle[p] = Unlinked \/ \E f \in RootNames : handle[p] = <<Root, f>>
      BY <2>1, <2>5, <1>4, Written
         DEF HandleOK, At, Is, WritesChampion, RootNames, RootFiles, Champion, Receipt
    <3>2. \A v \in Versions, f \in BundleFiles : content'[<<v, f>>] = content[<<v, f>>]
      <4>1. \A v \in Versions, f \in BundleFiles : <<v, f>> # handle[p]
        BY <1>2, <3>1, PathFacts
      <4> QED BY <1>2, <2>1, <4>1
    <3>3. content[Champion] # Absent => content'[Champion] # Absent
      BY <1>2, <2>1, <2>3, PathFacts
    <3> QED BY <2>1, <3>2, <3>3
  <2> QED BY <2>4, <2>5
<1>5. CASE ReplaceFile(p)
  <2>1. /\ Running(p) /\ UNCHANGED <<day, jobs, promotions, crashes, uses, overlapped>>
        /\ w \in Versions
    BY <1>1, <1>5, ReplaceSites, Busy
  <2>2. CASE UNCHANGED content
    BY <2>1, <2>2
  <2>3. CASE /\ At(p, "promote", 6) /\ Advance(p)
             /\ Replace(<<w, "manifest.json.tmp">>, <<w, "manifest.json">>)
    <3>1. PICK src \in Paths, dst \in Paths : /\ src = <<w, "manifest.json.tmp">>
                                              /\ dst = <<w, "manifest.json">>
      BY <1>2, <2>1 DEF VersionFiles, BundleFiles
    <3>2. \A f \in Paths \ {src, dst} : content'[f] = content[f]
      BY <2>1, <2>3, <3>1, Replaced DEF At, Is
    <3>3. Is(p, "promote") /\ proc[p].at <= 6
      BY <2>3 DEF At
    <3> QED BY <1>1, <1>2, <2>1, <3>1, <3>2, <3>3
  <2>4. CASE /\ RenamesChampion(p) /\ Advance(p)
             /\ Replace(<<Root, "champion.json.tmp">>, Champion)
    <3>1. PICK src \in Paths, dst \in Paths : /\ src = <<Root, "champion.json.tmp">>
                                              /\ dst = Champion
      BY <1>2 DEF RootNames, RootFiles
    <3>2. /\ content[src] # Absent /\ content'[dst] = content[src]
          /\ \A f \in Paths \ {src, dst} : content'[f] = content[f]
      BY <1>2, <2>1, <2>4, <3>1, Replaced DEF RenamesChampion, At, Is
    <3> QED BY <1>2, <2>1, <3>1, <3>2
  <2>5. CASE /\ At(p, "score", 7) /\ Advance(p)
             /\ Replace(<<Root, "receipt.json.tmp">>, Receipt)
    <3>1. PICK src \in Paths, dst \in Paths : /\ src = <<Root, "receipt.json.tmp">>
                                              /\ dst = <<Root, "receipt.json">>
      BY <1>2 DEF RootNames, RootFiles
    <3>2. \A f \in Paths \ {src, dst} : content'[f] = content[f]
      BY <2>1, <2>5, <3>1, Replaced DEF At, Is, Receipt
    <3> QED BY <1>2, <2>1, <3>1, <3>2
  <2> QED BY <1>1, <1>5, <2>2, <2>3, <2>4, <2>5, ReplaceSites
<1> QED BY <1>3, <1>4, <1>5

\* A stamp is of one trial.
LEMMA OneBundle ==
  ASSUME NEW v, NEW t, NEW u, Whole(v, t), Whole(v, u)
  PROVE  t = u
<1>1. "manifest.json" \in BundleFiles
  BY DEF BundleFiles
<1>2. /\ content[<<v, "manifest.json">>] = Stamp(v, t)
      /\ content[<<v, "manifest.json">>] = Stamp(v, u)
  BY <1>1 DEF Whole
<1> QED BY <1>2 DEF Stamp

\* The files of a promotion in progress are not those of a published version.
LEMMA PublishStep ==
  ASSUME IInv, IInv', NEW p \in Procs, UNCHANGED <<uses, overlapped>>,
         Is(p, "promote"), proc[p].at <= 6, proc[p].ver \in Versions,
         \A v \in Versions \ {proc[p].ver}, f \in BundleFiles :
           content'[<<v, f>>] = content[<<v, f>>],
         content'[Champion] = content[Champion]
  PROVE  [Published!PublishedNext]_Bar
<1>1. PICK w \in Versions : w = proc[p].ver
  OBVIOUS
<1>2. ReusedBar' = ReusedBar /\ ChampionBar' = ChampionBar
  BY DEF ReusedBar, ChampionBar, Lapsed
<1>3. \A v \in Versions \ {w} : BundleBar'[v] = BundleBar[v]
  <2>1. \A v \in Versions \ {w} : Lapsed(v)' = Lapsed(v)
    BY DEF Lapsed
  <2>2. \A v \in Versions \ {w}, t \in Trials : Whole(v, t)' <=> Whole(v, t)
    BY <1>1 DEF Whole
  <2> QED BY <2>1, <2>2 DEF BundleBar
<1>4. CASE Lapsed(w)
  <2>1. BundleBar'[w] = BundleBar[w]
    BY <1>4 DEF BundleBar, Lapsed
  <2>2. BundleBar' = BundleBar
    BY <1>3, <2>1 DEF BundleBar
  <2> QED BY <1>2, <2>2 DEF Bar
<1>5. CASE ~Lapsed(w)
  <2>1. uses[w] <= 1
    BY <1>5, State DEF Lapsed
  <2>2. content[<<w, "manifest.json">>] = Absent
    BY <1>1, <2>1, State DEF ProcOK, PromoteOK, Exists
  <2>3. \A t \in Trials : ~Whole(w, t)
    <3>1. \A t \in Trials : Stamp(w, t) \in Stamps
      BY DEF Stamp, Stamps
    <3> QED BY <2>2, <3>1, PathFacts DEF Whole, BundleFiles
  <2>4. BundleBar[w] = {}
    BY <2>3 DEF BundleBar
  <2>5. BundleBar'[w] = {t \in Trials : Whole(w, t)'}
    BY <1>5 DEF BundleBar, Lapsed
  <2>6. CASE BundleBar'[w] = {}
    <3>1. BundleBar' = BundleBar
      BY <1>3, <2>4, <2>6 DEF BundleBar
    <3> QED BY <1>2, <3>1 DEF Bar
  <2>7. CASE BundleBar'[w] # {}
    <3>1. PICK t \in Trials : Whole(w, t)'
      BY <2>5, <2>7
    <3>2. \A u \in Trials : Whole(w, u)' => u = t
      <4>1. ASSUME NEW u \in Trials, Whole(w, u)' PROVE u = t
        <5>1. Stamp(w, u) = Stamp(w, t)
          BY <3>1, <4>1 DEF Whole, BundleFiles
        <5> QED BY <5>1 DEF Stamp
      <4> QED BY <4>1
    <3>3. BundleBar'[w] = {t}
      BY <2>5, <3>1, <3>2
    <3>4. BundleBar' = [BundleBar EXCEPT ![w] = {t}]
      BY <1>3, <3>3 DEF BundleBar
    <3>5. w \notin ReusedBar
      BY <1>5 DEF ReusedBar
    <3>6. Published!Publish(w, t)
      BY <1>2, <2>4, <3>4, <3>5 DEF Published!Publish, BundleBar, ChampionBar, ReusedBar
    <3> QED BY <3>6 DEF Published!PublishedNext
  <2> QED BY <2>6, <2>7
<1> QED BY <1>4, <1>5

\* The champion becomes a version that was published, or lapsed.
LEMMA InstallStep ==
  ASSUME IInv, IInv', UNCHANGED <<uses, overlapped>>,
         \A v \in Versions, f \in BundleFiles : content'[<<v, f>>] = content[<<v, f>>],
         content[Champion] # Absent => content'[Champion] # Absent
  PROVE  [Published!PublishedNext]_Bar
<1>1. ReusedBar' = ReusedBar /\ BundleBar' = BundleBar
  BY DEF ReusedBar, BundleBar, Lapsed, Whole
<1>2. CASE content'[Champion] \in Stamps
  <2>1. PICK s \in Stamps : s = content'[Champion]
    BY <1>2
  <2>2. StampOK(s)' /\ s.ver \in Versions /\ s.trial \in Trials
        /\ s = [ver |-> s.ver, trial |-> s.trial]
    BY <2>1 DEF IInv, RootOK, Readable, Champion, Stamps
  <2>3. ChampionBar' = {[ver |-> s.ver, trial |-> s.trial]}
    BY <2>1, <2>2 DEF ChampionBar
  <2>4. ASSUME s.ver \notin ReusedBar PROVE BundleBar[s.ver] = {s.trial}
    <3>1. ~Lapsed(s.ver) /\ uses[s.ver] <= 1 /\ uses'[s.ver] <= 1
      BY <2>2, <2>4 DEF ReusedBar, Lapsed, IInv, TypeOK
    <3>2. content'[<<s.ver, "manifest.json">>] = s
      BY <2>2, <3>1 DEF StampOK
    <3>3. PICK t \in Trials : Whole(s.ver, t)'
      BY <2>2, <3>1, <3>2, PathFacts DEF IInv, DirOK, Exists
    <3>4. Whole(s.ver, t)
      BY <2>2, <3>3 DEF Whole
    <3>5. Stamp(s.ver, t) = s
      BY <3>2, <3>3 DEF Whole, BundleFiles
    <3>6. t = s.trial
      BY <2>2, <3>5 DEF Stamp
    <3>7. {u \in Trials : Whole(s.ver, u)} = {s.trial}
      BY <3>4, <3>6, OneBundle
    <3> QED BY <2>2, <3>1, <3>7 DEF BundleBar
  <2>5. Published!Install(s.ver, s.trial)
    BY <1>1, <2>3, <2>4 DEF Published!Install, BundleBar, ChampionBar, ReusedBar
  <2> QED BY <2>2, <2>5 DEF Published!PublishedNext
<1>3. CASE content'[Champion] \notin Stamps
  <2>1. ChampionBar' = {}
    BY <1>3 DEF ChampionBar
  <2>2. CASE ChampionBar = {}
    BY <1>1, <2>1, <2>2 DEF Bar
  <2>3. CASE ChampionBar # {}
    <3>1. content[Champion] \in Stamps
      BY <2>3 DEF ChampionBar
    <3>2. content'[Champion] # Absent
      BY <3>1, PathFacts
    <3>3. overlapped
      BY <1>3, <3>2 DEF IInv, TurnsOK, TypeOK
    <3>4. Published!Garble
      BY <1>1, <2>1, <3>3 DEF Published!Garble, BundleBar, ChampionBar, ReusedBar
    <3> QED BY <3>4 DEF Published!PublishedNext
  <2> QED BY <2>2, <2>3
<1> QED BY <1>2, <1>3

\* A job starts: it may take an id again, or not wait for its turn.
LEMMA LapseStep ==
  ASSUME IInv, UNCHANGED content, overlapped' \in {overlapped, TRUE},
         uses' = uses \/ \E w \in Versions : uses' = [uses EXCEPT ![w] = @ + 1]
  PROVE  [Published!PublishedNext]_Bar
<1>1. uses \in [Versions -> Nat]
  BY DEF IInv, TypeOK
<1>2. PICK V : /\ V \in {{}} \cup {{v} : v \in Versions}
               /\ \A v \in Versions : Lapsed(v)' <=> Lapsed(v) \/ v \in V
  <2>1. CASE uses' = uses
    <3>1. \A v \in Versions : Lapsed(v)' <=> Lapsed(v) \/ v \in {}
      BY <2>1 DEF Lapsed
    <3>2. {} \in {{}} \cup {{v} : v \in Versions}
      OBVIOUS
    <3> QED BY <3>1, <3>2
  <2>2. CASE \E w \in Versions : uses' = [uses EXCEPT ![w] = @ + 1]
    <3>1. PICK w \in Versions : uses' = [uses EXCEPT ![w] = @ + 1]
      BY <2>2
    <3>2. uses'[w] = uses[w] + 1 /\ \A v \in Versions \ {w} : uses'[v] = uses[v]
      BY <1>1, <3>1
    <3>3. CASE uses[w] = 0
      <4>1. uses'[w] = 1
        BY <3>2, <3>3
      <4>2. \A v \in Versions : Lapsed(v)' <=> Lapsed(v) \/ v \in {}
        BY <3>2, <3>3, <4>1 DEF Lapsed
      <4>3. {} \in {{}} \cup {{v} : v \in Versions}
        OBVIOUS
      <4> QED BY <4>2, <4>3
    <3>4. CASE uses[w] # 0
      <4>1. uses'[w] > 1
        BY <1>1, <3>2, <3>4
      <4>2. \A v \in Versions : Lapsed(v)' <=> Lapsed(v) \/ v \in {w}
        BY <3>2, <4>1 DEF Lapsed
      <4> QED BY <4>2
    <3> QED BY <3>3, <3>4
  <2> QED BY <2>1, <2>2
<1>3. ChampionBar' = ChampionBar
  BY DEF ChampionBar
<1>4. ReusedBar' = ReusedBar \cup V
  BY <1>2 DEF ReusedBar
<1>5. BundleBar' = [v \in Versions |-> IF v \in V THEN {} ELSE BundleBar[v]]
  <2>1. \A v \in Versions, t \in Trials : Whole(v, t)' <=> Whole(v, t)
    BY DEF Whole
  <2> QED BY <1>2, <2>1 DEF BundleBar
<1>6. Published!Lapse(V)
  BY <1>3, <1>4, <1>5 DEF Published!Lapse, BundleBar, ChampionBar, ReusedBar
<1> QED BY <1>2, <1>6 DEF Published!PublishedNext

LEMMA KeepsPublishedStep ==
  ASSUME IInv, IInv', [Next]_vars
  PROVE  [Published!PublishedNext]_Bar
<1>1. CASE UNCHANGED <<content, uses, overlapped>>
  <2>1. Bar' = Bar
    BY <1>1 DEF Bar, BundleBar, ChampionBar, ReusedBar, Lapsed, Whole
  <2> QED BY <2>1
<1>2. ASSUME NEW p \in Procs, OpenFile(p) \/ WriteFile(p) \/ ReplaceFile(p)
      PROVE  [Published!PublishedNext]_Bar
  BY <1>2, CallsTouch, PublishStep, InstallStep
<1>3. ASSUME NEW p \in Procs, NEW job, NEW v, NEW t, NEW c, Start(p, job, v, t, c),
             uses' = uses \/ \E w \in Versions : uses' = [uses EXCEPT ![w] = @ + 1]
      PROVE  [Published!PublishedNext]_Bar
  <2>1. UNCHANGED content /\ overlapped' \in {overlapped, TRUE}
    BY <1>3 DEF Start, IInv, TypeOK
  <2> QED BY <1>3, <2>1, LapseStep
<1>4. ASSUME NEW p \in Procs, StartPromote(p) PROVE [Published!PublishedNext]_Bar
  <2>1. PICK t \in Trials : /\ Start(p, "promote", VersionOf(t), t, FALSE)
                            /\ uses' = [uses EXCEPT ![VersionOf(t)] = @ + 1]
    BY <1>4 DEF StartPromote
  <2>2. VersionOf(t) \in Versions
    BY CfgOfAssumption DEF VersionOf, Versions, IInv, TypeOK
  <2> QED BY <1>3, <2>1, <2>2
<1>5. ASSUME NEW p \in Procs, StartRollback(p) PROVE [Published!PublishedNext]_Bar
  BY <1>3, <1>5 DEF StartRollback
<1>6. ASSUME NEW p \in Procs, StartLoad(p) \/ StartScore(p)
      PROVE  [Published!PublishedNext]_Bar
  BY <1>3, <1>6 DEF StartLoad, StartScore, StartReader
<1>7. ASSUME NEW p \in Procs, ReadFile(p) \/ Exit(p) \/ Crash(p)
      PROVE  [Published!PublishedNext]_Bar
  BY <1>1, <1>7 DEF ReadFile, Exit, Crash, CloseAll
<1>8. CASE Midnight \/ Quiet \/ UNCHANGED vars
  BY <1>1, <1>8 DEF Midnight, Quiet, vars
<1> QED BY <1>2, <1>4, <1>5, <1>6, <1>7, <1>8 DEF Next, ProcStep

LEMMA BeginsUnpublished == Init => Published!PublishedInit
<1> SUFFICES ASSUME Init PROVE Published!PublishedInit
  OBVIOUS
<1>1. /\ \A f \in Paths : content[f] = Absent
      /\ uses = [v \in Versions |-> 0] /\ overlapped = FALSE
  BY DEF Init, FilesInit
<1>2. \A v \in Versions, t \in Trials : ~Whole(v, t)
  <2>1. \A v \in Versions, t \in Trials : Stamp(v, t) \in Stamps
    BY DEF Stamp, Stamps
  <2>2. \A v \in Versions : content[<<v, "manifest.json">>] = Absent
    BY <1>1, PathFacts DEF VersionFiles, BundleFiles
  <2> QED BY <2>1, <2>2, PathFacts DEF Whole, BundleFiles
<1>3. \A v \in Versions : ~Lapsed(v)
  BY <1>1 DEF Lapsed
<1>4. content[Champion] = Absent
  BY <1>1, PathFacts DEF Champion, RootNames, RootFiles
<1>5. BundleBar = [v \in Versions |-> {}] /\ ReusedBar = {} /\ ChampionBar = {}
  BY <1>2, <1>3, <1>4, PathFacts DEF BundleBar, ReusedBar, ChampionBar
<1> QED BY <1>1, <1>5 DEF Published!PublishedInit, BundleBar, ReusedBar, ChampionBar

\* The jobs implement the promises readers rely on: bundles appear whole and
\* stay, and the champion is one of them (registry/bundle.py:36-52,
\* champion.py:22-50, promote.py:204-304), for any number of processes, jobs and
\* crashes, until an id is taken twice or writers overlap.
THEOREM RegistryKeepsPromises == Spec => KeepsPublished
<1>1. IInv /\ IInv' /\ [Next]_vars => [Published!PublishedNext]_Bar
  BY KeepsPublishedStep
<1> QED
  BY <1>1, BeginsUnpublished, RegistryInvariant, PTL
     DEF Spec, KeepsPublished, Published!PublishedSpec, Bar, BundleBar, ChampionBar, ReusedBar,
         Published!published
=============================================================================
