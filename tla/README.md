# TLA+ verification of rux-ml

rux-ml is a machine-learning workbench for one user on one machine: a command
line (`rux-ml tune | train | solve | registry | runs | data`) over an Optuna
study in SQLite, a registry of promoted models in plain directories, and
parquet files.  Nothing runs as a service and nothing takes a lock.  What is
hard about it is therefore what several short-lived processes leave behind in
one database and one directory tree: children that time out or are killed,
commands interrupted half way, readers between two writes, and a source file
that every process loads and splits anew.

Paths in this document are relative to `src/rux_ml/` unless they start with
`docs/` or `README.md`.

## 1. Inventory

| Component | State it keeps | Operations | Talks to |
|---|---|---|---|
| Sweep dispatcher: `cli/tune.py`, `tuning/isolation.py`, `_internal/trial_runner.py` | the trial loop of one command; one child at a time; a temporary file of overrides | `start`, `resume`, `retry-trial`, (`status`) | spawns and kills children; reads and writes the study |
| Trial objective: `tuning/objective.py` | the substrate (rows for HPO), hashes, versions, captured by the closure | `build_objective`, `objective(trial)` | Optuna calls it back; it writes reports, attributes and files of its trial |
| Study storage: Optuna's SQLite (not in the repository), `tuning/study.py` | rows of trials: state, values, attributes, artifacts | `create_or_load`, `ask`, `report`, `set_user_attr`, `tell`, `enqueue_trial` | shared by every process |
| One-off runs: `runs/ask_tell.py`, `cli/train.py`, `cli/solve.py` | `OneOffRun._told` | `one_off_run`, `tell` | one trial of a study |
| Provenance and artifacts: `runs/{attrs,provenance,artifacts}.py` | none of their own | `TrialAttrs.record`, `from_trial`, `upload_diagnostics` | attributes and files of a trial |
| Memory watchdog: `_internal/memory.py` | peak, tripped, stop; a sampling thread | `__enter__`, `__exit__`, the sampling loop | the objective reads its verdict |
| Model registry: `registry/{promote,bundle,champion,manifest,paths}.py`, `load_model` | `registry/<problem>/champion.json`, a directory per version with three files | `promote`, `rollback`, `load_model`, (`list`) | reads the study; other processes read its files |
| Holdout scorer: `registry/scorer.py` | predictions and a receipt per problem and day | `score_bundle_on_holdout` | reads champion, bundle, study, source file |
| Splits and seeds: `data/splits.py`, `_internal/seeds.py` | none: recomputed by every process | `make_splits`, `make_seed_bag`, `make_seed_bag_from_hex` | objective, train, promote, score |
| Cross-validation: `data/cv.py`, `config/cv.py` | none | `split` of six splitters | objective |
| Data versioning: `data/versioning.py` | content-addressed files, manifests | `snapshot` | file system |
| External-memory ingest: `data/data_iter.py`, `training/xgboost/{ingest,native_adapter}.py` | index of the next batch | `reset`, `next` | called back by xgboost |
| Configuration: `config/*`, `cli/_shared.py` | class attribute with the TOML paths of one load | `from_layers`, `cfg_hash`, `layer_cfg_hash`; the merge of a trial's draws | every process loads its own; hashes go to trials and manifests |
| Samplers, pruners, features, trainers, metrics, solvers, environment capture, listings, scripts, container | none that outlives a call | factories and adapters | libraries |

What makes each of them correct, and what is hard about it:

* **Sweeps.** A finished trial says truthfully what evidence it has; no trial
  is worked on twice, touched after it ended, or left RUNNING; a sweep ends
  though its children hang.  Hard: a timeout at any point of a child, a child
  that dies by itself, a parent that dies and leaves a child, the blanket
  marking of failed trials from a stale read, exceptions in a `finally`.
* **One-off runs.** The trial is settled exactly once however the `with` block
  is left.  Hard: the window between the tell and its flag, a handler that
  fails, Ctrl-C between `ask` and `try`, two commands in one study.
* **Registry.** What `champion.json` names can be loaded and is whole; a
  promotion that returns has installed its own bundle.  Hard: crashes between
  any two file system calls, readers in the middle, version ids used twice, one
  temporary name for all writers.
* **Splits.** The rows a model is scored on were not used to find or to fit it.
  Hard: four commands split the same file independently, from different
  seeds, at different times, while the file grows.
* **Watchdog.** The peak recorded and the verdict read agree with what was
  sampled.  Hard: a thread whose join has a timeout.
* **Data versioning.** A manifest describes the bytes it points to.  Hard:
  partial copies, hard links, a source that changes between two reads.
* **Cross-validation.** No training row within the embargo or purge window of
  a test row; every row is tested equally often.  Hard: the arithmetic from
  durations to rows, remainders, joined test paths.
* **Ingest.** Every pass over the chunks gives every row once, in order.  Hard:
  a callback protocol with resets, a rounded batch size.
* **Configuration.** Every field has the value of the highest layer that sets
  it, and the processes that are meant to work with one configuration do.  Hard:
  seven sources, tagged unions whose variants have different fields, files that
  are edited between the load of a parent and that of its child.

`PROJECT.json` lists every component with its status, and 40 hazards at the
line where each bites, with the properties that cover it or the reason why
none does yet.

## 2. Modules

| Module | What it is |
|---|---|
| `TrialStore` | the contract of the study storage the code relies on; extended by the two modules that use a study |
| `StudyLedger` | what a study promises its readers, without processes: the abstract specification |
| `TuneSweep` | tune commands, children, in-process loops, faults; implements `StudyLedger` |
| `OneOffRun` | `train` and `solve` in `one_off_run` |
| `Watchdog` | the sampling thread and the two threads that use it, step by step |
| `PublishedModels` | what the registry promises its readers, without files or processes: the abstract specification |
| `FileTree` | open, write, replace on shared paths; instantiated by `Registry` |
| `Registry` | promote, rollback, load, score as scripts of file system calls; implements `PublishedModels` |
| `Holdout` | which rows trials, bundles and scores see |
| `CasSnapshot` | snapshots, the sources they read and the store they share |
| `Splitters` | the cross-validation strategies as operators on a column of timestamps |
| `TrainingData` | how rows reach the booster: the gate, the folds of a trial, the chunks of a native fit; extends `Splitters` |
| `ConfigLayers` | sources, merge, validation, hashes, overrides as operators |
| `ConfiguredStudy` | which process loads which configuration and what it leaves in studies and bundles; extends `ConfigLayers` |
| `TuneSweepProofs`, `OneOffRunProofs`, `WatchdogProofs`, `RegistryProofs`, `HoldoutProofs`, `CasSnapshotProofs`, `TrainingDataProofs`, `ConfiguredStudyProofs` | theorems about the module of that name, and the lemmas they rest on |
| `MCRegistry`, `MCHoldout`, `MCCasSnapshot`, `MCTrainingData`, `MCConfiguredStudy` | constants for TLC |

### TrialStore

A trial number has a row: `state` (WAITING, RUNNING, COMPLETE, PRUNED, FAIL, or
absent), `attrs` (none of the provenance, the fields `TrialAttrs` requires, or
all), `arts` (diagnostic files uploaded), `reported` (folds scored).  `Asked`
is the order of `study.ask`: the oldest WAITING trial, else a new number.
`Write` is refused once the trial is finished.  Optuna is external; this is the
contract its documentation gives and the code uses.

### TuneSweep

`cli` is the command line process: `pc` is the place in `_run_trials` and
`run_subprocess_trial`, `left` the iterations left, `proc` the child waited
for (or its own loop), `own` the trial retry-trial queued, `marks` what
`_mark_trial_failed` has still to visit.  `worker[p]` is a process, or the
in-process loop, that runs `build_objective` and `study.optimize`: its program
point, the trial it holds, the outcome it will tell and `Watchdog.tripped`.

| Action | Code |
|---|---|
| `StartSweep`, `RetryTrial` | `cli/tune.py` start, resume, retry_trial |
| `Dispatch`, `Reap` | one iteration of `_run_trials`; any exit code goes on |
| `TimeoutKill`, `MarkSnapshot`, `MarkOne`, `MarkRefused`, `MarkDone` | `run_subprocess_trial` after `TimeoutExpired`; `_mark_trial_failed` reads all trials once, then writes one by one, and the storage may refuse |
| `Boot`, `Ask`, `Leave` | `trial_runner.main`, `study.optimize` |
| `Prepare`, `Fold`, `FoldRaises`, `Trip` | the objective up to the end of `_fold_scores` |
| `RecordRequired`, `RecordOptional`, `RecordRaises` | the `finally` with `TrialAttrs.record`; its exception replaces the one in flight |
| `Judge`, `Upload`, `UploadRaises` | the watchdog's verdict, two uploads |
| `Tell`, `TellRefused` | what Optuna does with the objective's result, NaN included, or with a trial somebody else finished |
| `Kill`, `Interrupt`, `CliCrash` | faults, each with a budget |

Ctrl-C in an in-process loop reaches the objective as an exception that Optuna
tells as FAIL and raises again: that is `FoldRaises`.  In subprocess isolation
it reaches the child as well, which may get as far as any of its steps before
`subprocess.run` kills it: those steps, then `Interrupt`.

The refinement of `StudyLedger` maps a row to its state and a grade of its
evidence.  It says that queued trials start in order, that evidence is only
added while a trial runs, and that COMPLETE means all of it and PRUNED means
provenance only.

### OneOffRun

`run[p]` is a `train` or `solve` process: its place in `one_off_run` and in the
`with` body, its trial, `_told` and the watchdog's verdict.  The body is
`FitAndScore` (train, under the watchdog) or `Solve`; both then write their
attributes with `TrialAttrs.record`, and only train judges and uploads.  `Raise` is any exception (Ctrl-C too) in the body,
`RaiseEarly` one before the `try`, `HandlerRaises` one in the handler.

### Watchdog

`main` is the thread of the objective or of `train`, `poll` the sampling thread.
`peak = max(peak, rss)` is two steps in either thread, a read (`ComparePeak`,
`LastRead`) and a write (`KeepPeak`, `LastKeep`), so that an update can be lost
where the code allows it.  `Join` waits until the thread is gone, `JoinTimeout`
goes on without it.  The objective does `Record` before `SetStop`, because the
attributes are recorded inside the `with` block; `train` does it after
`LastKeep`.  `Judge` is `if wd.tripped`, `Upload` the `metrics.json`.

### FileTree and Registry

A file holds nothing, a value, or the torn bytes of two writers; a value is the
version and trial it belongs to.  A job (`promote`, `rollback`, `load`,
`score`) is the sequence of its file system calls, built from `WriteInPlace`
and `WriteAtomically` as the code builds them, and a step executes one call.
Choosing the version id is part of `StartPromote`; the fit before it changes
nothing on disk.  `uses` and `overlapped` are history variables: how often a
version id was promoted, and whether two writers of one root file ever ran at
the same time.  They name the two conditions under which the registry keeps
its promises.

The refinement of `PublishedModels` maps a version to the trial whose three whole
files it holds, the champion to what `champion.json` says if it parses, and the
two history variables to the two ends of a promise.  It says that a version
appears in one step, whole, and stays as it is, and that the champion is always
a version that appeared before.

### Holdout

Rows are numbered in order of time.  `Train`, `Val` and `Test` are the slices
of `data/splits.py`; a seed bag is the pair of entropy and trial number it is
derived from, and `Shuffle` the permutation a bag gives at a height.  `Append`
lets the file grow between any two commands.  A tune process carves its
substrate once (`BuildObjective`, bag of trial 0) and uses it for all its trials
(`SweepTrial`, each recorded with its own bag); `Baseline`, `Promote` and
`Score` split the file as it is then, the last two with the bag the trial
recorded (`SeedBagOf`).

### CasSnapshot

A path leads to an inode and an inode holds bytes, so that a hard link is two
paths to one inode.  A run passes `Start` (the first listing), `List` (the
second, inside `compute_data_hash`), `DigestFile` and `ReadRows` for every file,
then for every file `NameFile` (a third read), `CheckStored` (`dst.exists()`),
`Link`, and on another device `OpenCopy` and `FillCopy`; then `WriteTmp` and
`Publish`.  `RewriteInPlace`, `ReplaceSource` and `RemoveSource` are the owners
of the source, `Crash` the death of a run.  `happened` is a history variable: it
names the four disturbances the promises depend on.

A digest is the content it was taken of (no collisions), a version id the
multisets of digests of files and of their rows, as `_bytes_hash` sorts them.
A file is read in one step, and temporary manifest and `replace` are one step each.

### Splitters and TrainingData

A frame is its column of timestamps; a fold two sets of row positions; a splitter
the set of fold families it may yield, empty where `split` raises.
`EmbargoRows` is the arithmetic of `_effective_gap` with its median and mean.
What scikit-learn and skfolio do inside is external and modelled from what
`cv.py` and its tests take from it: partitions of stated sizes for the k-folds,
`WalkForward` for `TimeSeriesSplit`, `Combinatorial` for `CombinatorialPurgedCV`.

`job` is one call: a trial of `tune` with a configuration, a frame and a column
of labels or groups, or a native `train` with a number of rows; whether the rows
fit the device (`select_ingest`) is a free choice, `big`.  `Gate` is
`_check_extmem_compat`, `SelectIngest` the choice in `_build_train_dmatrix`,
`Split`/`SplitRaises` the splitter, `Chunk` the writing of batches, and `Reset`,
`NextBatch`, `PassEnds` the callbacks of `ParquetDataIter`, of which xgboost may
make as many passes as it likes before `Fit`.

### ConfigLayers and ConfiguredStudy

A nested dict is a function from paths to leaves.  `DeepMerge`, `Leaves` and
`Unflatten` (the dicts of single `--set` values, and their merge), `Sources`, `Settings`, `Validated`, `CfgHash`, `LayerCfgHash`, `Draws`,
`ApplyOverrides` and `ApplyTrialParams` are the functions of those names; a load
that is refused yields the empty set.  `pydantic-settings` is external:
its sources are merged leaf by leaf from the last to the first.  A merge of any
number of dicts, `MergeAll`, is the last step of the recursive function the loop
computes (`Merges`).  The fields kept are those that layers disagree about or the code branches on.

A `shell` is what a command was typed in: which layers, which `--set` values,
which environment.  `Tune` loads in the parent, `Dispatch` in the child (the
layers by name, the overrides through their JSON file, the environment
inherited), `TrialInProcess` and `ChildTrial` run a trial with the merge of its
draws and record the hashes, `RetryTrial` queues the earlier draws and
runs the oldest queued trial, `Promote` merges a trial's draws over what this shell
loads.  `Edit` saves a file between any two loads.

## 3. Runs

| Run | Specification | Distinct states | Shows |
|---|---|---|---|
| `TuneSweepFaults` | `HungWorkerSpec` | 251,586 | evidence, exclusivity and finality under a kill, a Ctrl-C and a dead parent; refinement of `StudyLedger`; a retry keeps the queue; a sweep ends though children hang |
| `TuneSweepClean` | `FairSpec` | 175,867 | without kills nothing stays RUNNING, timeouts and failures included |
| `OneOffRun` | `FairSpec` | 24,487 | the context manager settles its trial once |
| `Registry` | `Spec` | 1,524,598 | what a `champion.json` guarantees under crashes and concurrent jobs; refinement of `PublishedModels` |
| `Holdout` | `Spec` | 1,006,340 | who sees which rows |
| `CasSnapshot` | `Spec` | 456,451 | what a manifest and the store guarantee, and which disturbances break it |
| `Watchdog` | `FairSpec` | 147,570 | the recorded peak and the verdict agree with the samples; the block is left though the thread hangs |
| `TrainingData` | `Spec` | 128,613 | folds keep their distance, rows are tested equally often, chunks cover the rows |
| `ConfiguredStudy` | `Spec` | 88,937 | precedence of layers; children, retries and promotions run the configuration they are meant to |
| `KilledChild` | `Spec` | violation | a child killed by the OS leaves its trial RUNNING |
| `RewrittenBundle` | `Spec` | violation | the files of a version are rewritten in place |
| `LeakyHoldout` | `Spec` | violation | with random splits the holdout overlaps the HPO substrate |

The three violations are disagreements between the code and what its own
comments or documentation say; `PROJECT.json` quotes both under `findings`.
In short:

1. `docs/ARCHITECTURE.md:200-201` has the parent mark the trial of an OOM-killed
   child FAIL; the code marks only after a timeout.
2. `registry/bundle.py:45-46` has pipeline and booster written once per version
   directory; the same configuration promoted twice on a day rewrites them.
3. `registry/promote.py:97-98` and `README.md:512` have the test fold held out
   from HPO; for `split_kind = "random"` it is not, except for trial 0.

### Seen while modelling, without a run of their own

* A baseline the watchdog tripped ends FAIL: `cli/train.py:209` and `:240-241`
  have it PRUNED, but `one_off_run` catches the `TrialPruned`
  (`runs/ask_tell.py:82-85`).  `TrippedNeverCompletes` is what holds.
* The comment at `cli/tune.py:240` has `optimize` pick up the enqueued trial; one
  left over from an earlier, failed retry comes first.  `RetryKeepsTheQueue` is
  what holds.
* `docs/ARCHITECTURE.md:403` has the embargo honored in time units.  On a panel
  of equally spaced timestamps with equally many rows it is; a cut of the frame
  may leave the last timestamp fewer rows, which lowers the mean number of rows
  per timestamp.  With 7 rows at each of two timestamps, one at the third, an
  embargo of one step and three splits, train and test share a timestamp.
  `FoldsKeepDistance` says how much is lost at most (one timestamp).
* `WilcoxonPruner` pairs the scores of two trials fold by fold
  (`tuning/objective.py:304-308`), while a shuffled splitter is seeded per trial
  (line 341): fold i of one trial holds other rows than fold i of the next.
* Nothing refuses a negative `gap` or `embargo_time` (`config/cv.py:90` and `:93`), with
  which training rows would reach into the tested ones.  The model takes them as
  the counts they are meant to be.
* `_internal/memory.py:108` has the recorded peak include the reading after the
  fit.  In `train` and in `metrics.json` it does; the objective records its
  attribute before that reading.  `RecordedPeak` says both.
* `config/root.py:8` and `README.md:203` name a `.env` layer; the model
  configuration sets no `env_file`, so none is read.  A TOML layer that does not
  exist counts as empty.
* A search space over the `kind` of a union cannot draw another kind when the
  variants differ in fields: the draws are merged into a dump that holds the
  first variant's fields, and the other variant forbids them.  Such a trial
  fails.

### Bounds

* `TuneSweepFaults`: two commands of one trial each, four trial numbers, two
  folds, two process slots, one fault of each kind.  Two commands and two slots
  are what an orphan needs to meet a later sweep; two folds let a trial be
  pruned in the middle; with one trial per command each iteration starts from
  every state the one before can leave.  Five trial numbers are never needed:
  a command adds at most two (the queued one and its own).
* `TuneSweepClean`: two commands of two trials, so that loops go on after a
  failure; one slot, since without faults processes do not overlap.
* `OneOffRun`: two processes in one study, two exceptions (one of them in the
  handler of the other) and one kill.
* `Registry`: two trials of one configuration and two days give both equal and
  different version ids; four jobs, two promotions, two at a time, one crash.
  Version ids, trials and processes have no order, and no property names one:
  `MCSymmetry` permutes trials and processes, and no liveness is checked there.
* `CasSnapshot`: two partitions with one base name, three contents of which two
  are layouts of the same rows; two runs, one change of the source and one crash
  in any order.  One change is enough for a source that moves between two reads,
  two runs for two writers of one name.  Runs are symmetric; the property about
  steps names none.  `CHECK_DEADLOCK FALSE`: runs and changes run out.
* `Watchdog`: four readings, two above the threshold, so that a lost maximum and
  a crossing that is not the maximum differ.
* `TrainingData`: all sorted frames of 4 rows over 5 times and of 5 over 6, even
  panels of up to 4 by 7 with any cut of the last timestamp, and three wide
  ones where the cut costs one timestamp; up to 9 rows for the row-counting
  strategies, purges and embargos of 0 and 2 rows for the combinatorial one, n_splits up to 3, combinations 2 of 3 and 2 of 4; heights 0 to 9
  and two passes over the chunks.
* `ConfiguredStudy`: one base, three problem (one of them
  with a scalar where other layers have a table) and four study files, five shells, two
  storages, two trials per sweep and three rows in all, one edit, one promotion.
  One edit between the load of a parent and that of its child is what makes the
  two differ.  `CHECK_DEADLOCK FALSE`: commands and bounds run out.
* `Holdout`: four to six rows in ratios 1/2, 1/4, 1/4, so that each fold has a
  row and the cut moves when the file grows from four rows to six; three trials and two tune
  processes; up to five draws of fresh entropy; a shuffle that puts different
  rows last for different bags.  `CHECK_DEADLOCK FALSE`: no command is ever due.

### Fairness

`CliFairness` is weak fairness of the steps of the command line process: it is
an ordinary process, its timer expires, and none of its own steps waits for
anything but a child that exits or a timeout that strikes.  `HungWorkerSpec`
assumes nothing else, so a child may hang forever at any point: that is what
`trial_timeout_s` is for, and `SweepTerminates` needs `HasTimeout = TRUE` and
subprocess isolation.  `FairSpec` adds that workers run: a fit returns.  Nobody
is assumed to issue commands, and no fault or timeout is assumed to happen
(a timeout is a command line step, but a worker that exits disables it).
In `OneOffRun` a living process is scheduled and its fit or solve returns.
`Watchdog`'s `FairSpec` is fair to the working thread only (its fit returns, the
timer of the join expires): the sampling thread may never be scheduled again.

## 4. Proofs

TLAPS checks 45 listed theorems in eight modules, for every value of the
constants that satisfies the named assumptions.  Every invariant and every
action property that a passing run checks is stated by one of them.

**`TuneSweepProofs`** (any number of trials, folds, processes, commands and
faults).  What a trial shows when it ends depends on what its worker did many
steps before, so the invariants of the runs are not inductive.  `IInv` adds:
what the row of a trial holds at every program point of the worker that holds
it (`PhaseOK`); that rows nobody started hold nothing (`RowOK`); that no two
workers hold one row; that until a parent dies every process is the one it
waits for and whatever it marks is still RUNNING (`SupervisedOK`); and that
without faults every RUNNING trial is held or about to be marked
(`AccountedOK`).  From it follow type correctness, the six safety invariants
of the runs, `RetryKeepsTheQueue` (with `QueueOK`: which trials wait, and since
when), `FinishedIsFinal`, and that every step of the sweep is a step of
`StudyLedger` or leaves the ledger unchanged (`SweepImplementsLedger`).

**`OneOffRunProofs`** (any number of trials, commands, exceptions and kills).
What a settled trial shows depends on how far the body of its `with` block came.
`IInv` says for each program point what the row of the command's trial holds
(`RunsOK`), that rows nobody asked for hold nothing (`RowsOK`), and that two
commands in one study never hold one row (`ApartOK`).  `OneOffIsEvidenced`,
`TrippedNeverCompletes` and `SettledIsFinal` follow.

**`RegistryProofs`** (any number of processes, trials, days, jobs and crashes).
Nothing locks anything, so `IInv` follows every script call by call: what a job
has read or written by the place it is at, and which file its handle is on
(`ProcsOK`).  Three parts carry the argument.  The manifest of a version whose id
was promoted once is the last file to appear and never changes (`DirOK`); the
root files, and every stamp a process still carries there, come from such a
manifest (`RootOK`); and while writers of one root file take turns, none is left
half written (`TurnsOK`).  What a crashed job wrote stays under the same claims.
`ChampionIsWhole`, `ChampionIsReadable`, `ChampionLoads`, `ReceiptIsTrue` and
`PromoteDelivers` follow, and every call of every job is a step of
`PublishedModels` or changes nothing readers are told (`RegistryKeepsPromises`).

**`HoldoutProofs`** (any ratios, any injective shuffle, any number of rows,
trials and draws).  Two facts about splits carry everything: slices of one
order do not overlap, and a temporal cut only moves forward as the file grows.
`IInv` says of every set of rows kept anywhere which slice, by which bag and at
which height it is; the invariants and `TemporalHoldoutIsUnseen` follow.

**`WatchdogProofs`** (any memory and threshold).  Neither property is
inductive, since the peak depends on who wrote it last.  `IInv` says that a
reading above the peak is in the hands of the thread that made it, that this
thread knows the peak it will overwrite (`PeakOK`), that a thread joined in time
is gone (`HeldOK`), and that a crossing sample is judged or about to be
(`VerdictOK`).  `RecordedPeak` and `VerdictIsFair` follow.

**`CasSnapshotProofs`** (any sources, contents, runs, snapshots, changes and
crashes).  `IInv` says who may share a file: on one device only whole files
are shared, on two no stored file is a source or is stored twice (`DevicesOK`);
and that a run without company goes on finding free the name it found free
(`AloneOK`).  `ManifestIsReadable` and `StoreIsStable` follow.  `TruthOK`, proved
on top of it, relates the three readings of a source to what it holds now, as
long as nobody disturbed it (`NotesOK`, `OwnOK`), the store to the names in it
(`StoreOK`) and the manifest to both (`RecordsOK`); `ManifestIsTrue` and
`FailsForACause` follow.

**`TrainingDataProofs`** (frames of any height, even or with any cut of the last
timestamp, any configuration, any number of passes).  The states are few and the
arithmetic is the proof.  `BatchInv`: the chunks are intervals that follow each
other from the first row to the last, a batch size rounded up gives no more of
them than asked for, and the callback's index counts what was fed.  `FoldInv`
reduces the two properties of folds to the splitters.  `FoldsKeepDistance`
rests on `EmbargoRows`: on an even panel a median or mean of rows per timestamp
turns a duration into enough rows, and the cut of the last timestamp loses at
most one.  `EveryRowIsTested` rests on two counts: of the blocks that hold a row
(remainders included), and of the sets of blocks that hold a given block.

**`ConfiguredStudyProofs`** (any files, shells, `--set` values and storages, any
number of trials, edits and promotions).  First the operators: in a merge of any
number of dicts the last one to say anything about a path decides, and what no
later dict speaks of is not lost; the fields of a configuration do not lie
within each other, so that a validated tree is a set of independent fields; a
load is determined by its shell and its files.  `LayersKeepPrecedence` is a
statement about every such load.  The processes add what happens between loads: a child is of the parent's shell, and only of a sweep in
subprocesses (`ChildOK`); a trial runs what was loaded with its draws in it and
nothing else changed, since the environment, which is read again, adds nothing
and no draw changes the kind of a union (`DerivedIs`); and every trial and bundle
can name the load and the draws it came from (`StudiesOK`, `BundlesOK`).
`TrialIsTheSweeps` and `SameWorldSameConfig` follow.

The library's induction theorems take an operator as a parameter and cannot be
used.  Where a proof needs induction over numbers, or that a recursive function
exists (the passes of `MergeAll`, counts of blocks), it takes the least
counterexample of a set of naturals instead (`LeastNatural`, `NoneFails`).

The assumptions on constants are stated in the modules and evaluated by TLC.
Most say of which kind a constant is.  `TrialsAssumption` has configurations with
the fields of `config/cv.py`, gaps and horizons not negative (see section 3);
`FilesAssumption` and `ShellsAssumption` of `ConfiguredStudy` have layers whose
storage is one of the studies; `Registry` has at least one day, and a root
directory whose name is no version id.  Two say something about the world:

* `RatioAssumption`: the first two folds fit in the file and do not shrink when
  it grows.  It follows from ratios that sum to 1; the validator tolerates
  1e-6 more, which only matters with millions of rows (listed as a hazard).
* `ShuffleAssumption`: sampling a frame completely permutes its rows.

### Model-checked only

Liveness (`SweepTerminates`, `RunningIsSettled`, `EverySettles`, `BlockIsLeft`)
depends on fairness and is out of the prover's reach.  The two
refinements are checked by TLC as properties and proved (`SweepImplementsLedger`,
`RegistryKeepsPromises`).  `TypeOK` of a module whose run does not list it is part
of the invariant its proof starts from.

## 5. Abstractions, and what is not modelled

* Model fits, metrics, sampled parameters and the pruner's arithmetic: a fit is
  a step that returns, raises or hangs, and the pruner decides freely.
* One tune command at a time: two sweeps of one study in two terminals are not
  modelled, except through an orphaned child.
* A file system call is atomic and durable: no torn single write and no
  reordering of writes by a power loss.
* Rows with equal timestamps are ordered in one way in all processes, though
  the sort does not promise that.  In `Holdout` a file that is rewritten rather
  than appended to is left out, and so is a configuration that changes between
  commands; the latter is in `ConfiguredStudy`.
* The registry takes trials as given; that promote does not look at a trial's
  state is a listed hazard without a property, since nothing in the repository
  says which states may be promoted.
* `ConfiguredStudy` runs a trial in one step after its process has loaded, and
  reads the three files of a load in one step.  Values are scalars: a JSON object
  given by `--set` is left out.
* An exception of `TemporaryDirectory`'s cleanup after the second upload is left
  out of `TuneSweep`: the trial then ends FAIL, evidence and all.
* `Registry`'s load meets a missing file when it reads it; the code looks for all
  three first and raises the same error.  `ConfiguredStudy` does not model that
  Optuna refuses an enqueued value an edited search space no longer offers.
* What scikit-learn's shuffles choose is free in `Splitters`; which rows fold i of
  two trials share is therefore not said.
* Not modelled: the components marked so in `PROJECT.json`, with the reason.
  Samplers, feature pipelines, trainers and solvers are numeric adapters of
  libraries without a protocol; environment capture, listings and the command
  line entry only read; the scripts are development tooling.

## 6. Plan

What is left, in this order:

1. `PromotedTrial`: `TrialStore` composed with `Registry`, for the state of a
   trial at the time it is promoted.
2. Two sweeps of one study at a time.
3. Ties in `Holdout`: an order of equal timestamps chosen by each process.
4. An abstract data version (a name for bytes), and `CasSnapshot` shown to
   implement it while nothing is disturbed.
