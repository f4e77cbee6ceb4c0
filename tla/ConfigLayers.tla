---------------------------- MODULE ConfigLayers ----------------------------
(***************************************************************************)
(* How rux-ml puts one configuration together (config/root.py): pydantic's *)
(* sources in the order settings_customise_sources gives them, the TOML    *)
(* stack deep-merged, `--set` dot-paths unflattened, the result validated, *)
(* and the hashes taken of it.                                             *)
(*                                                                         *)
(* A nested dict is its leaves: a function from paths to values, in which  *)
(* no path is a proper prefix of another.  A load gives a set: the one     *)
(* configuration it ends with, or nothing when it is refused (a            *)
(* ValidationError or a ValueError).  A hash is what it is taken of        *)
(* (SHA-256 is collision-free here).                                       *)
(*                                                                         *)
(* The fields kept are those the layers disagree about or the code looks   *)
(* at: the rest of the schema adds no case.                                *)
(***************************************************************************)
EXTENDS Naturals, SequencesExt

NoLeaves == <<>>

\* One leaf; the function from a single path.
Leaf(path, value) == [p \in {path} |-> value]

\* key.split("."), for the dot-paths that are used as keys.
Split == [key \in {"training.kind", "training.learning_rate", "cv.kind",
                   "training.model_kwargs", "training.model_kwargs.gamma"} |->
  CASE key = "training.kind" -> <<"training", "kind">>
    [] key = "training.learning_rate" -> <<"training", "learning_rate">>
    [] key = "cv.kind" -> <<"cv", "kind">>
    [] key = "training.model_kwargs" -> <<"training", "model_kwargs">>
    [] OTHER -> <<"training", "model_kwargs", "gamma">>]

Related(p, q) == IsPrefix(p, q) \/ IsPrefix(q, p)

\* The overlay wins wherever the two meet: scalar on scalar, scalar on table,
\* table on scalar.
DeepMerge(base, overlay) ==
  LET kept == {p \in DOMAIN base : \A q \in DOMAIN overlay : ~Related(p, q)}
  IN [p \in kept \cup DOMAIN overlay |->
        IF p \in DOMAIN overlay THEN overlay[p] ELSE base[p]]

\* What the first n of the trees come to, each merged over those before it.
Merges(trees) ==
  LET merged[n \in 0 .. Len(trees)] ==
        IF n = 0 THEN NoLeaves ELSE DeepMerge(merged[n - 1], trees[n])
  IN merged

MergeAll(trees) == Merges(trees)[Len(trees)]

\* flat is the dict in its order, a sequence of <<key, value>>: one tree each.
Leaves(flat) == [i \in DOMAIN flat |-> Leaf(Split[flat[i][1]], flat[i][2])]

\* A key that leads through a scalar raises; one that ends on a table replaces
\* it.
Unflatten(flat) ==
  IF \E n \in DOMAIN flat : \E p \in DOMAIN Merges(Leaves(flat))[n - 1] :
       IsStrictPrefix(p, Split[flat[n][1]])
  THEN {}
  ELSE {MergeAll(Leaves(flat))}

-----------------------------------------------------------------------------
(* Validation *)

Kind(tree, table) ==
  IF <<table, "kind">> \in DOMAIN tree THEN tree[<<table, "kind">>] ELSE "absent"

\* The variants of TrainingConfig, each with its defaults.
TrainingDefaults(kind) ==
  CASE kind = "xgboost" ->
         [p \in {<<"training", "kind">>, <<"training", "learning_rate">>,
                 <<"training", "tree_method">>} |->
            CASE p[2] = "kind" -> "xgboost"
              [] p[2] = "learning_rate" -> "0.1" [] OTHER -> "hist"]
    [] kind = "lightgbm" ->
         [p \in {<<"training", "kind">>, <<"training", "learning_rate">>,
                 <<"training", "num_leaves">>} |->
            CASE p[2] = "kind" -> "lightgbm"
              [] p[2] = "learning_rate" -> "0.1" [] OTHER -> "31"]

CvKinds == {"kfold", "time_series"}

TemporalCvKinds == {"time_series"}

\* The layers whose fields do not depend on a kind.
PlainDefaults ==
  [p \in {<<"data", "source_path">>, <<"data", "split_kind">>,
          <<"data", "time_column">>, <<"cv", "kind">>,
          <<"tuning", "trial_isolation">>, <<"runs", "storage_url">>} |->
     CASE p[2] = "split_kind" -> "random"
       [] p[1] = "cv" -> "kfold"
       [] p[1] = "tuning" -> "subprocess"
       [] p[1] = "runs" -> "studies.db"
       [] OTHER -> "none"]

\* Without a [training] table the default factory gives XGBoost.
TrainingKind(tree) ==
  IF \E p \in DOMAIN tree : p[1] = "training" THEN Kind(tree, "training")
  ELSE "xgboost"

Defaults(tree) == DeepMerge(PlainDefaults, TrainingDefaults(TrainingKind(tree)))

\* search_space and model_kwargs take any key below them; a table of a tagged
\* union must name its kind; whatever else no field declares is refused.
Declared(tree, p) ==
  \/ p[1] = "search_space" /\ Len(p) = 2
  \/ p[1] = "training" /\ Len(p) = 3 /\ p[2] = "model_kwargs"
  \/ p \in DOMAIN Defaults(tree)

FitsSchema(tree) ==
  /\ TrainingKind(tree) \in {"xgboost", "lightgbm"}
  /\ Kind(tree, "cv") \in CvKinds \cup {"absent"}
  /\ \A p \in DOMAIN tree : Declared(tree, p)

\* _validate_split_kind_consistency
SplitKindIsConsistent(cfg) ==
  /\ cfg[<<"data", "split_kind">>] = "time_ordered" => cfg[<<"data", "time_column">>] # "none"
  /\ cfg[<<"cv", "kind">>] \in TemporalCvKinds => cfg[<<"data", "split_kind">>] = "time_ordered"

Validated(tree) ==
  IF FitsSchema(tree)
  THEN {cfg \in {DeepMerge(Defaults(tree), tree)} : SplitKindIsConsistent(cfg)}
  ELSE {}

-----------------------------------------------------------------------------
(* Sources *)

\* TomlConfigSettingsSource: the files in the order of the paths, a file that
\* is not there counting as empty.
TomlStack(toml) == MergeAll(toml)

\* Mutant of Sources: the files are asked before the environment.
Sources_FilesFirst(init, env, toml) ==
  <<init>> \o (IF toml = <<>> THEN <<>> ELSE <<TomlStack(toml)>>) \o <<env, NoLeaves>>

\* settings_customise_sources, highest first.  No env_file is configured, so
\* the third source, .env, is always empty.
Sources(init, env, toml) ==
  <<init, env, NoLeaves>> \o (IF toml = <<>> THEN <<>> ELSE <<TomlStack(toml)>>)

\* RuxMLConfig(**init): the sources merged from the lowest to the highest.
Settings(init, env, toml) ==
  Validated(MergeAll(Reverse(Sources(init, env, toml))))

\* What a command was given and finds: the shell it was typed in, with its
\* options and RUXML_* variables, and the files' contents.
Layers(world) ==
  <<world.files["base"]>>
    \o (IF world.shell.problem THEN <<world.files["problem"]>> ELSE <<>>)
    \o (IF world.shell.study THEN <<world.files["study"]>> ELSE <<>>)

FromLayers(world) ==
  UNION {Settings(init, world.shell.env, Layers(world)) :
           init \in Unflatten(world.shell.overrides)}

-----------------------------------------------------------------------------
(* Hashes *)

HashElidedFields ==
  {<<"data", "cas_root">>, <<"data", "manifests_root">>, <<"data", "source_path">>,
   <<"runs", "storage_url">>, <<"runs", "artifacts_root">>, <<"registry", "root">>}

HashLayers == {"data", "training", "tuning", "runs", "cv"}

CfgHash(cfg) == [p \in DOMAIN cfg \ HashElidedFields |-> cfg[p]]

LayerCfgHash(cfg, layer) ==
  [p \in {q \in DOMAIN cfg \ HashElidedFields : q[1] = layer} |-> cfg[p]]

-----------------------------------------------------------------------------
(* A trial's configuration *)

SearchSpace(cfg) == {name \in DOMAIN Split : <<"search_space", name>> \in DOMAIN cfg}

\* What walk_search_space may come back with: one choice for each entry, the
\* enqueued value where the trial has one.
Draws(cfg, fixed) ==
  {draw \in [SearchSpace(cfg) -> UNION {cfg[<<"search_space", n>>] : n \in SearchSpace(cfg)}
                                   \cup {fixed[n] : n \in DOMAIN fixed}] :
     \A name \in SearchSpace(cfg) :
       IF name \in DOMAIN fixed THEN draw[name] = fixed[name]
       ELSE draw[name] \in cfg[<<"search_space", name>>]}

\* A dict of parameters, in some order.
Items(params) == SetToSeq({<<name, params[name]>> : name \in DOMAIN params})

\* _apply_overrides: model_validate of the dump with the draws merged in.
\* RuxMLConfig reads its sources then too, below what it is given; the class
\* holds no TOML paths any more.
ApplyOverrides(cfg, env, params) ==
  UNION {Settings(DeepMerge(cfg, nested), env, <<>>) : nested \in Unflatten(Items(params))}

\* Mutant of ApplyTrialParams: the bundle is fitted with the file's values.
ApplyTrialParams_Dropped(cfg, env, params) == {cfg}

\* promote's copy of the same.
ApplyTrialParams(cfg, env, params) ==
  UNION {Settings(DeepMerge(cfg, nested), env, <<>>) : nested \in Unflatten(Items(params))}
=============================================================================
