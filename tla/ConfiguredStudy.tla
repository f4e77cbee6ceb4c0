-------------------------- MODULE ConfiguredStudy --------------------------
(***************************************************************************)
(* Which configuration runs.  Every command loads its own: the parent of a *)
(* sweep once, each of its children again, a retry and a promotion in      *)
(* their turn, while somebody edits the TOML files between any two loads   *)
(* and each command is typed in a shell of its own (options and RUXML_*    *)
(* variables).  The trial and the bundle keep only the hashes of it.       *)
(*                                                                         *)
(* The three files of a load are read in one step, a trial runs in one     *)
(* step after its process has loaded, and what happens inside a trial      *)
(* (folds, failures, crashes) is in TuneSweep: here a trial is WAITING or  *)
(* settled, with provenance iff its configuration was accepted.            *)
(***************************************************************************)
EXTENDS ConfigLayers, FiniteSets

CONSTANTS
  Shells,      \* the shells a command may be typed in
  Contents,    \* what each of the three files may hold, by layer
  Storages,    \* the values of runs.storage_url
  NTrials,     \* --n-trials
  MaxTrials,   \* bound: rows of all the studies together
  MaxEdits,    \* bound: edits of a file
  MaxBundles   \* bound: promotions

IsList(s) == Len(s) \in Nat /\ s = [i \in 1 .. Len(s) |-> s[i]]

\* A nested dict: its paths are sequences, none of them empty.
IsDict(tree) == \A p \in DOMAIN tree : IsList(p) /\ Len(p) # 0

SetsStorageIn(tree, urls) ==
  <<"runs", "storage_url">> \in DOMAIN tree => tree[<<"runs", "storage_url">>] \in urls

ASSUME FilesAssumption ==
  /\ DOMAIN Contents = {"base", "problem", "study"}
  /\ \A layer \in DOMAIN Contents : \A tree \in Contents[layer] :
       IsDict(tree) /\ SetsStorageIn(tree, Storages)

ASSUME ShellsAssumption ==
  \A shell \in Shells :
    /\ shell \in [problem : BOOLEAN, study : BOOLEAN, env : {shell.env},
                  overrides : {shell.overrides}]
    /\ IsDict(shell.env) /\ SetsStorageIn(shell.env, Storages)
    /\ IsList(shell.overrides)
    /\ \A i \in DOMAIN shell.overrides : shell.overrides[i][1] \in DOMAIN Split

ASSUME StoragesAssumption == PlainDefaults[<<"runs", "storage_url">>] \in Storages

VARIABLES
  files,     \* the TOML files: layer -> leaves
  sweep,     \* the running `tune start` or `resume`: {} or one record
  child,     \* its child: {} or what the child has loaded
  studies,   \* the study of one name in each storage: its rows
  bundles,   \* the promoted bundles, in order
  edits      \* edits so far

vars == <<files, sweep, child, studies, bundles, edits>>

World(shell) == [shell |-> shell, files |-> files]

\* One load: what a process read, and what it made of it.
LoadsOf(world) == {[world |-> world, cfg |-> cfg] : cfg \in FromLayers(world)}

Rows == LET count(acc, s) == acc + Len(studies[s])
        IN FoldLeft(count, 0, SetToSeq(Storages))

-----------------------------------------------------------------------------
(* One trial *)

\* Attrs: the hashes TrialAttrs.from_cfg takes.
Attrs(cfg) == [root   |-> CfgHash(cfg),
               layers |-> [l \in HashLayers |-> LayerCfgHash(cfg, l)]]

Waiting(fixed, of) == [state |-> "WAITING", fixed |-> fixed, params |-> NoLeaves,
                       attrs |-> {}, of |-> of, run |-> {}]

\* study.ask: the oldest WAITING row, else a new one.
Asked(rows) ==
  LET first == SelectInSeq(rows, LAMBDA row : row.state = "WAITING")
  IN IF first # 0 THEN first ELSE Len(rows) + 1

\* _require
HasData(cfg) == cfg[<<"data", "source_path">>] # "none"

\* objective(trial): draw, derive the configuration, record its hashes.  plan
\* is the load of the sweep's parent, when there is one.
Settled(row, load, plan, draw) ==
  LET derived == ApplyOverrides(load.cfg, load.world.shell.env, draw)
  IN [row EXCEPT !.state = "SETTLED", !.params = draw,
                 !.attrs = {Attrs(cfg) : cfg \in derived},
                 !.run = {[world |-> load.world, cfg |-> cfg, plan |-> plan] :
                            cfg \in derived}]

\* The rows study.optimize(n_trials=1) may leave.
Optimized(rows, load, plan) ==
  LET n   == Asked(rows)
      row == IF n <= Len(rows) THEN rows[n] ELSE Waiting(NoLeaves, 0)
      after(draw) == [i \in 1 .. Len(rows) \cup {n} |->
                        IF i = n THEN Settled(row, load, plan, draw) ELSE rows[i]]
  IN {[rows |-> after(draw), raised |-> after(draw)[n].run = {}] :
        draw \in Draws(load.cfg, row.fixed)}

Storage(cfg) == cfg[<<"runs", "storage_url">>]

-----------------------------------------------------------------------------
(* Actions *)

\* Somebody saves one of the files.
Edit(layer) ==
  /\ edits < MaxEdits
  /\ edits' = edits + 1
  /\ \E content \in Contents[layer] \ {files[layer]} :
       files' = [files EXCEPT ![layer] = content]
  /\ UNCHANGED <<sweep, child, studies, bundles>>

InProcess(load) == load.cfg[<<"tuning", "trial_isolation">>] = "in_process"

\* `rux-ml tune start`: a load that is refused ends the command, and so does
\* build_objective in this process when no data is configured.
Tune(shell) ==
  /\ sweep = {} /\ Rows + NTrials <= MaxTrials
  /\ \E load \in LoadsOf(World(shell)) :
       /\ InProcess(load) => HasData(load.cfg)
       /\ sweep' = {[load |-> load, left |-> NTrials]}
  /\ UNCHANGED <<files, child, studies, bundles, edits>>

OneLess(s) == IF s.left = 1 THEN {} ELSE {[s EXCEPT !.left = @ - 1]}

\* The in-process path: one objective for all trials; a refused derivation
\* leaves study.optimize and ends the command.
TrialInProcess ==
  \E s \in sweep :
    /\ InProcess(s.load)
    /\ \E o \in Optimized(studies[Storage(s.load.cfg)], s.load, {s.load}) :
         /\ studies' = [studies EXCEPT ![Storage(s.load.cfg)] = o.rows]
         /\ sweep' = IF o.raised THEN {} ELSE OneLess(s)
    /\ UNCHANGED <<files, child, bundles, edits>>

\* _write_overrides_json, only when there are any; _load_overrides.
OverridesJson(overrides) == IF overrides = <<>> THEN {} ELSE {overrides}
LoadOverrides(json) == IF json = {} THEN <<>> ELSE CHOOSE o \in json : TRUE

\* Mutant of ChildShell: the argv carries no --study.
ChildShell_NoStudy(shell) ==
  [shell EXCEPT !.study = FALSE, !.overrides = LoadOverrides(OverridesJson(@))]

\* _child_argv: the layers by name, the overrides in a file; the environment
\* is inherited.
ChildShell(shell) == [shell EXCEPT !.overrides = LoadOverrides(OverridesJson(@))]

\* run_subprocess_trial up to the child's from_layers.  A refused load is an
\* exit code, and the loop goes on.
Dispatch ==
  \E s \in sweep :
    /\ ~InProcess(s.load) /\ child = {}
    /\ child' = LoadsOf(World(ChildShell(s.load.world.shell)))
    /\ sweep' = IF child' = {} THEN OneLess(s) ELSE sweep
    /\ UNCHANGED <<files, studies, bundles, edits>>

\* The rest of the child: it opens the study of the storage it has loaded,
\* and without data it never asks for a trial.
ChildTrial ==
  \E s \in sweep, load \in child :
    /\ IF HasData(load.cfg)
       THEN \E o \in Optimized(studies[Storage(load.cfg)], load, {s.load}) :
              studies' = [studies EXCEPT ![Storage(load.cfg)] = o.rows]
       ELSE UNCHANGED studies
    /\ child' = {}
    /\ sweep' = OneLess(s)
    /\ UNCHANGED <<files, bundles, edits>>

\* `rux-ml tune retry-trial`, in a process of its own: the parameters are
\* queued first, then the objective is built, then one trial is run, the
\* oldest that waits.
RetryTrial(shell) ==
  /\ Rows + 1 + Cardinality(sweep) * NTrials <= MaxTrials
  /\ \E load \in LoadsOf(World(shell)) :
       LET s == Storage(load.cfg)
       IN \E n \in DOMAIN studies[s] :
            LET prior  == studies[s][n]
                of     == IF prior.state = "WAITING" THEN 0 ELSE n
                queued == Append(studies[s], Waiting(prior.params, of))
            IN IF HasData(load.cfg)
               THEN \E o \in Optimized(queued, load, {}) :
                      studies' = [studies EXCEPT ![s] = o.rows]
               ELSE studies' = [studies EXCEPT ![s] = queued]
  /\ UNCHANGED <<files, sweep, child, bundles, edits>>

\* load_run: the trial's parameters and its provenance, nothing where the
\* provenance does not validate.  A trial's state is not looked at.
LoadRun(s, n) ==
  {[params |-> row.params, attrs |-> attrs] :
     row \in {studies[s][n]}, attrs \in studies[s][n].attrs}

\* `rux-ml registry promote`: the trial's parameters over the configuration
\* of this shell and these files; the manifest takes its hashes from the
\* trial, and nothing compares the two.
Promote(shell) ==
  /\ Len(bundles) < MaxBundles
  /\ \E load \in LoadsOf(World(shell)) :
       LET s == Storage(load.cfg)
       IN \E n \in DOMAIN studies[s] : \E run \in LoadRun(s, n) :
            \E cfg \in ApplyTrialParams(load.cfg, shell.env, run.params) :
              /\ HasData(cfg)
              /\ bundles' = Append(bundles,
                   [world |-> load.world, cfg |-> cfg, hashes |-> run.attrs,
                    storage |-> s, trial |-> n])
  /\ UNCHANGED <<files, sweep, child, studies, edits>>

Init ==
  /\ files \in [DOMAIN Contents -> UNION {Contents[l] : l \in DOMAIN Contents}]
  /\ \A l \in DOMAIN Contents : files[l] \in Contents[l]
  /\ sweep = {} /\ child = {}
  /\ studies = [s \in Storages |-> <<>>]
  /\ bundles = <<>> /\ edits = 0

Next ==
  \/ \E layer \in DOMAIN Contents : Edit(layer)
  \/ \E shell \in Shells : Tune(shell) \/ RetryTrial(shell) \/ Promote(shell)
  \/ TrialInProcess
  \/ Dispatch
  \/ ChildTrial

Spec == Init /\ [][Next]_vars

-----------------------------------------------------------------------------
(* Properties *)

\* All that is said of a configuration, the lowest layer first.
Stack(world) ==
  Layers(world) \o <<world.shell.env>> \o Leaves(world.shell.overrides)

\* The layers that set a path, something in it, or something it lies in.
Meet(world, p) ==
  {i \in DOMAIN Stack(world) : \E q \in DOMAIN Stack(world)[i] : Related(p, q)}

\* Every field of a configuration in use has the value of the highest layer
\* that says anything of it: `--set`, environment, study, problem, base, and the
\* field's default only where none does or that layer put something else in its
\* place (config/root.py:5-12), though the variants of a union bring different
\* fields and tables are merged leaf by leaf.
LayersKeepPrecedence ==
  \A load \in child \cup {s.load : s \in sweep} : \A p \in DOMAIN load.cfg :
    LET stack == Stack(load.world)
        meet  == Meet(load.world, p)
    IN /\ meet = {} => load.cfg[p] = Defaults(load.cfg)[p]
       /\ \A i \in meet : (\A j \in meet : j <= i) =>
            load.cfg[p] = IF p \in DOMAIN stack[i] THEN stack[i][p]
                          ELSE Defaults(load.cfg)[p]

\* A trial of a sweep ran the configuration its parent printed, with its own
\* draws in it and nothing else changed, unless a file was edited between the
\* two loads (tuning/isolation.py:102-105, _apply_overrides): the options, the
\* `--set` values and the environment reach every child.
TrialIsTheSweeps ==
  \A s \in Storages : \A n \in DOMAIN studies[s] : \A run \in studies[s][n].run :
    \A plan \in run.plan :
      LET params == studies[s][n].params
          drawn  == {Split[name] : name \in DOMAIN params}
      IN run.world.files = plan.world.files =>
           /\ DOMAIN run.cfg = DOMAIN plan.cfg \cup drawn
           /\ \A name \in DOMAIN params : run.cfg[Split[name]] = params[name]
           /\ \A p \in DOMAIN plan.cfg \ drawn : run.cfg[p] = plan.cfg[p]

\* A retry or a promotion made in the shell of the trial, with the files the
\* trial read, has the trial's configuration: the retried trial records the
\* same hashes, and the hashes in the manifest are those of the configuration
\* the bundle was fitted with (registry/promote.py:81-89, 175-193).
SameWorldSameConfig ==
  /\ \A s \in Storages : \A n \in DOMAIN studies[s] :
       LET row == studies[s][n]
       IN row.of # 0 =>
            \A run \in row.run, first \in studies[s][row.of].run :
              run.world = first.world => row.attrs = studies[s][row.of].attrs
  /\ \A i \in DOMAIN bundles :
       LET b == bundles[i]
       IN \A run \in studies[b.storage][b.trial].run :
            run.world = b.world => b.hashes = Attrs(b.cfg)
=============================================================================
