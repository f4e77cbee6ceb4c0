------------------------------- MODULE Registry -------------------------------
(***************************************************************************)
(* The model registry of one problem: registry/<problem>/champion.json and *)
(* a directory per version with pipeline.skops, model.ubj, manifest.json;  *)
(* and the receipts `registry score` leaves.                               *)
(*                                                                         *)
(* Four jobs touch it, each a process of its own: `registry promote`,      *)
(* `registry rollback`, `registry score`, and load_model in a client.      *)
(* Nothing locks anything, so a job is its script of file system calls,    *)
(* one step each; a process may die between any two.                       *)
(*                                                                         *)
(* A file's value says which version and which trial it belongs to.        *)
(***************************************************************************)
EXTENDS Naturals, Sequences

CONSTANTS
  Procs, Root, Absent, Empty, Torn, Unlinked,
  Trials,       \* trials of the storage whose provenance validates
  Cfgs,         \* root_cfg_hash[:6]
  CfgOf,        \* the configuration each trial ran with
  NoVersion, NoTrial,
  MaxDays,      \* bound: days that pass
  MaxJobs,      \* bound: jobs started
  MaxPromotions, \* bound: promotions among them
  MaxCrashes    \* bound: processes that die

ASSUME CfgOfAssumption == CfgOf \in [Trials -> Cfgs]
ASSUME BoundsAssumption ==
  /\ MaxDays \in Nat \ {0}
  /\ \A b \in {MaxJobs, MaxPromotions, MaxCrashes} : b \in Nat

\* Version ids: {date}_{short_hash}.
Versions == (1 .. MaxDays) \X Cfgs

BundleFiles == {"pipeline.skops", "model.ubj", "manifest.json"}
RootFiles == {"champion.json", "predictions", "receipt.json"}
Tmp(f) == CASE f = "manifest.json" -> "manifest.json.tmp"
            [] f = "champion.json" -> "champion.json.tmp"
            [] f = "receipt.json"  -> "receipt.json.tmp"

Paths == (Versions \X (BundleFiles \cup {"manifest.json.tmp"}))
         \cup ({Root} \X (RootFiles \cup {"champion.json.tmp", "receipt.json.tmp"}))

Stamps == [ver : Versions, trial : Trials]
Stamp(v, t) == [ver |-> v, trial |-> t]

VARIABLES
  content, handle,   \* the file system
  proc,              \* the job of each process and how far it is
  day, jobs, promotions, crashes,
  uses,              \* history: promotions that wrote to each version
  overlapped         \* history: two writers of one root file were alive at once

INSTANCE FileTree WITH Values <- Stamps

\* The directory of a problem is not one of its version directories.
ASSUME FilesAssumption == Distinct /\ Root \notin Versions

vars == <<content, handle, proc, day, jobs, promotions, crashes, uses, overlapped>>

-----------------------------------------------------------------------------
(* Scripts                                                                 *)

Do(op, f) == <<[op |-> op, file |-> f]>>

\* Opened under its own name and written.
WriteInPlace(f) == Do("open", f) \o Do("write", f)

\* tmp.write_text(...); os.replace(tmp, path)
WriteAtomically(f) == WriteInPlace(Tmp(f)) \o Do("replace", f)

\* Mutant of SaveBundle: the manifest is there before the files it describes.
SaveBundle_ManifestFirst ==
  WriteAtomically("manifest.json") \o WriteInPlace("pipeline.skops")
    \o WriteInPlace("model.ubj")

SaveBundle ==
  WriteInPlace("pipeline.skops") \o WriteInPlace("model.ubj")
    \o WriteAtomically("manifest.json")

\* Mutant of WriteChampion: the pointer is rewritten in place.
WriteChampion_InPlace == WriteInPlace("champion.json")

WriteChampion == WriteAtomically("champion.json")

\* Mutant of PromoteScript: the pointer moves before the bundle is there.
PromoteScript_ChampionFirst == WriteChampion \o SaveBundle

PromoteScript == SaveBundle \o WriteChampion

\* Mutant of RollbackScript: a rollback notes itself in the old manifest.
RollbackScript_Annotates ==
  Do("read", "manifest.json") \o WriteInPlace("manifest.json") \o WriteChampion

\* The manifest says which trial the old version came from.
RollbackScript == Do("read", "manifest.json") \o WriteChampion

LoadBundle ==
  Do("read", "pipeline.skops") \o Do("read", "model.ubj") \o Do("read", "manifest.json")

\* Mutant of ScoreScript: the receipt is written under its own name.
ScoreScript_InPlace ==
  LoadBundle \o WriteInPlace("predictions") \o WriteInPlace("receipt.json")

\* Predictions first, then the receipt that names them.
ScoreScript == LoadBundle \o WriteInPlace("predictions") \o WriteAtomically("receipt.json")

Script(job) ==
  CASE job = "promote"  -> PromoteScript
    [] job = "rollback" -> RollbackScript
    [] job = "load"     -> LoadBundle
    [] job = "score"    -> ScoreScript
    [] OTHER            -> <<>>

-----------------------------------------------------------------------------
(* State                                                                   *)

\* at: script steps done; raised: it ended with an exception; trial: the one
\* promoted, or of the manifest read; seen: the trials the files read belong
\* to; champ: the version came from champion.json.
NoJob == [job |-> "none", at |-> 0, raised |-> FALSE, ver |-> NoVersion,
          trial |-> NoTrial, seen |-> {}, champ |-> FALSE]

Init ==
  /\ FilesInit
  /\ proc = [p \in Procs |-> NoJob]
  /\ day = 1 /\ jobs = 0 /\ promotions = 0 /\ crashes = 0
  /\ uses = [v \in Versions |-> 0]
  /\ overlapped = FALSE

Champion == <<Root, "champion.json">>
Receipt == <<Root, "receipt.json">>

PathOf(p, f) == <<IF f \in BundleFiles \cup {"manifest.json.tmp"} THEN proc[p].ver ELSE Root, f>>

Length(p) == Len(Script(proc[p].job))

Done(p) == proc[p].job # "none" /\ proc[p].at = Length(p)

Running(p) == proc[p].at < Length(p) /\ ~proc[p].raised

Step(p) == Script(proc[p].job)[proc[p].at + 1]

Doing(p, op) == Running(p) /\ Step(p).op = op

Advance(p) == proc' = [proc EXCEPT ![p].at = @ + 1]

Raise(p) == proc' = [proc EXCEPT ![p].raised = TRUE]

\* Jobs that replace a root file through its one .tmp name.
Competitors(job) ==
  CASE job \in {"promote", "rollback"} -> {"promote", "rollback"}
    [] job = "score" -> {"score"}
    [] OTHER -> {}

-----------------------------------------------------------------------------
(* Actions                                                                 *)

Start(p, job, v, t, viaChampion) ==
  /\ proc[p].job = "none"
  /\ jobs < MaxJobs /\ jobs' = jobs + 1
  /\ proc' = [proc EXCEPT ![p] = [NoJob EXCEPT !.job = job, !.ver = v, !.trial = t,
                                               !.champ = viaChampion]]
  /\ overlapped' = (overlapped \/ \E q \in Procs : Running(q) /\ proc[q].job \in Competitors(job))
  /\ UNCHANGED <<content, handle, day, crashes>>

VersionOf(t) == <<day, CfgOf[t]>>

\* Provenance checked, model fitted again; then the version id is taken.
StartPromote(p) ==
  \E t \in Trials :
    /\ Start(p, "promote", VersionOf(t), t, FALSE)
    /\ promotions < MaxPromotions /\ promotions' = promotions + 1
    /\ uses' = [uses EXCEPT ![VersionOf(t)] = @ + 1]

StartRollback(p) ==
  \E v \in Versions :
    /\ Exists(<<v, "manifest.json">>)
    /\ Start(p, "rollback", v, NoTrial, FALSE)
    /\ UNCHANGED <<promotions, uses>>

\* The version is given, or is the champion's.  A champion.json or a version
\* directory that is missing, or a champion.json that does not parse, raises
\* before anything is written.
StartReader(p, job) ==
  /\ \/ \E v \in Versions : uses[v] > 0 /\ Start(p, job, v, NoTrial, FALSE)
     \/ Readable(Champion) /\ Start(p, job, content[Champion].ver, NoTrial, TRUE)
  /\ UNCHANGED <<promotions, uses>>

StartLoad(p) == StartReader(p, "load")

StartScore(p) == StartReader(p, "score")

\* Mutant of OpenFile: a file that is already there is kept.
OpenFile_Keep(p) ==
  /\ Doing(p, "open")
  /\ IF Exists(PathOf(p, Step(p).file))
     THEN proc' = [proc EXCEPT ![p].at = @ + 2] /\ UNCHANGED <<content, handle>>
     ELSE Open(p, PathOf(p, Step(p).file)) /\ Advance(p)
  /\ UNCHANGED <<day, jobs, promotions, crashes, uses, overlapped>>

OpenFile(p) ==
  /\ Doing(p, "open")
  /\ Open(p, PathOf(p, Step(p).file))
  /\ Advance(p)
  /\ UNCHANGED <<day, jobs, promotions, crashes, uses, overlapped>>

WriteFile(p) ==
  /\ Doing(p, "write")
  /\ Write(p, Stamp(proc[p].ver, proc[p].trial))
  /\ Advance(p)
  /\ UNCHANGED <<day, jobs, promotions, crashes, uses, overlapped>>

\* Somebody else may have moved the .tmp away: FileNotFoundError.
ReplaceFile(p) ==
  /\ Doing(p, "replace")
  /\ LET src == PathOf(p, Tmp(Step(p).file)) IN
     \/ Replace(src, PathOf(p, Step(p).file)) /\ Advance(p)
     \/ ~Exists(src) /\ Raise(p) /\ UNCHANGED <<content, handle>>
  /\ UNCHANGED <<day, jobs, promotions, crashes, uses, overlapped>>

\* A file that is missing or does not parse raises.
ReadFile(p) ==
  /\ Doing(p, "read")
  /\ LET f == PathOf(p, Step(p).file) IN
     \/ /\ Readable(f)
        /\ proc' = [proc EXCEPT ![p].at = @ + 1, ![p].trial = content[f].trial,
                                ![p].seen = @ \cup {content[f].trial}]
     \/ ~Readable(f) /\ Raise(p)
  /\ UNCHANGED <<content, handle, day, jobs, promotions, crashes, uses, overlapped>>

Exit(p) ==
  /\ Done(p) \/ proc[p].raised
  /\ proc' = [proc EXCEPT ![p] = NoJob]
  /\ UNCHANGED <<content, handle, day, jobs, promotions, crashes, uses, overlapped>>

\* A reader that dies leaves nothing behind, like one that raises.
Crash(p) ==
  /\ Running(p) /\ proc[p].job # "load"
  /\ crashes < MaxCrashes /\ crashes' = crashes + 1
  /\ CloseAll(p)
  /\ proc' = [proc EXCEPT ![p] = NoJob]
  /\ UNCHANGED <<day, jobs, promotions, uses, overlapped>>

Midnight ==
  /\ day < MaxDays /\ day' = day + 1
  /\ UNCHANGED <<content, handle, proc, jobs, promotions, crashes, uses, overlapped>>

ProcStep(p) ==
  \/ StartPromote(p) \/ StartRollback(p) \/ StartLoad(p) \/ StartScore(p)
  \/ OpenFile(p) \/ WriteFile(p) \/ ReplaceFile(p) \/ ReadFile(p)
  \/ Exit(p) \/ Crash(p)

\* All jobs are over.
Quiet ==
  /\ jobs = MaxJobs /\ day = MaxDays
  /\ \A p \in Procs : proc[p].job = "none"
  /\ UNCHANGED vars

Next == Midnight \/ (\E p \in Procs : ProcStep(p)) \/ Quiet

Spec == Init /\ [][Next]_vars
-----------------------------------------------------------------------------
(* Properties                                                              *)

Whole(v, t) == \A f \in BundleFiles : content[<<v, f>>] = Stamp(v, t)

(***************************************************************************)
(* Whatever dies and whoever else writes, a champion.json that can be read *)
(* names a version whose three files are there, whole, and of the trial it *)
(* says, as long as that version id was not promoted twice.                *)
(***************************************************************************)
ChampionIsWhole ==
  Readable(Champion) /\ uses[content[Champion].ver] <= 1
    => Whole(content[Champion].ver, content[Champion].trial)

(***************************************************************************)
(* registry/champion.py:3-5: once there is a champion.json no reader finds *)
(* part of one, provided no two of promote and rollback ran at a time:     *)
(* they share the name of the temporary file.                              *)
(***************************************************************************)
ChampionIsReadable == ~overlapped /\ Exists(Champion) => Readable(Champion)

(***************************************************************************)
(* load_model of the champion returns the pipeline, booster and manifest   *)
(* of one trial and never raises, while promotions, rollbacks and crashes  *)
(* go on; unless its version id is promoted again, or champion.json was    *)
(* written by two at a time.                                               *)
(***************************************************************************)
ChampionLoads ==
  \A p \in Procs :
    proc[p].job = "load" /\ proc[p].champ /\ uses[proc[p].ver] <= 1
    => ~proc[p].raised /\ (Done(p) => proc[p].seen = {content[<<proc[p].ver, "manifest.json">>].trial})

(***************************************************************************)
(* A receipt on disk is whole, and tells the trial whose bundle it scored, *)
(* unless the version id was promoted again or two scorers overlapped.     *)
(***************************************************************************)
ReceiptIsTrue ==
  Exists(Receipt) /\ ~overlapped =>
    /\ Readable(Receipt)
    /\ uses[content[Receipt].ver] <= 1 => Whole(content[Receipt].ver, content[Receipt].trial)

(***************************************************************************)
(* A promotion that returns, alone, has installed exactly its own bundle,  *)
(* over whatever a crash or an earlier promotion left under that version.  *)
(***************************************************************************)
PromoteDelivers ==
  [][\A p \in Procs :
       proc[p].job = "promote" /\ Running(p) /\ Done(p)' /\ ~overlapped
         => /\ content'[Champion] = Stamp(proc[p].ver, proc[p].trial)
            /\ Whole(proc[p].ver, proc[p].trial)']_vars

Lapsed(v) == uses[v] > 1

Published == INSTANCE PublishedModels WITH
  bundle   <- [v \in Versions |-> IF Lapsed(v) THEN {} ELSE {t \in Trials : Whole(v, t)}],
  champion <- {content[Champion]} \cap Stamps,
  reused   <- {v \in Versions : Lapsed(v)},
  shared   <- overlapped

(***************************************************************************)
(* The four jobs together keep the promises of PublishedModels: a version  *)
(* appears whole and in one step, stays as it is while others promote,     *)
(* roll back, score and crash, and is the champion only after it appeared; *)
(* unless its id is taken twice or two jobs wrote one root file at a time. *)
(***************************************************************************)
KeepsPublished == Published!PublishedSpec

(***************************************************************************)
(* registry/bundle.py:45-46: the pipeline and the booster are not          *)
(* rewritten in place; they are written once per version directory.        *)
(***************************************************************************)
BundleWrittenOnce ==
  [][\A v \in Versions, f \in {"pipeline.skops", "model.ubj"} :
       Readable(<<v, f>>) => content'[<<v, f>>] = content[<<v, f>>]]_vars

=============================================================================
