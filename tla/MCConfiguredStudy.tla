------------------------- MODULE MCConfiguredStudy -------------------------
(* Small files and shells for ConfiguredStudy. *)
EXTENDS ConfiguredStudy

Training(field, value) == Leaf(<<"training", field>>, value)
Space(name, choices) == Leaf(<<"search_space", name>>, choices)
All(trees) == MergeAll(trees)

\* base.toml names the kinds and nothing else (its hygiene test).
Base == All(<<Training("kind", "xgboost"), Leaf(<<"cv", "kind">>, "kfold")>>)

Panel == All(<<Training("kind", "xgboost"), Training("learning_rate", "0.05"),
               Leaf(<<"data", "source_path">>, "panel"),
               Leaf(<<"data", "split_kind">>, "time_ordered"),
               Leaf(<<"data", "time_column">>, "timestamp")>>)

Table == All(<<Training("kind", "lightgbm"), Training("num_leaves", "63"),
                  Leaf(<<"data", "source_path">>, "table")>>)

\* A scalar where the other files have a table.
Scalar == All(<<Leaf(<<"training">>, "xgboost"), Leaf(<<"data", "source_path">>, "table")>>)

Tuned == All(<<Space("training.learning_rate", {"0.01", "0.2"}),
               Training("learning_rate", "0.3")>>)

Families == All(<<Space("training.kind", {"xgboost", "lightgbm"}),
                  Space("training.model_kwargs.gamma", {"0"}),
                  Leaf(<<"tuning", "trial_isolation">>, "in_process")>>)

Temporal == All(<<Space("cv.kind", {"kfold", "time_series"}),
                  Training("kind", "xgboost"), Training("tree_method", "approx"),
                  Leaf(<<"runs", "storage_url">>, "other.db")>>)

MCContents == [base |-> {Base}, problem |-> {Panel, Table, Scalar},
               study |-> {NoLeaves, Tuned, Families, Temporal}]

Shell(problem, study, env, overrides) ==
  [problem |-> problem, study |-> study, env |-> env, overrides |-> overrides]

MCShells ==
  {Shell(TRUE, TRUE, NoLeaves, <<>>),
   Shell(TRUE, TRUE, Training("learning_rate", "0.7"), <<>>),
   Shell(TRUE, TRUE, Training("learning_rate", "0.7"), <<<<"training.learning_rate", "0.9">>>>),
   Shell(FALSE, TRUE, NoLeaves, <<<<"training.model_kwargs.gamma", "1">>>>),
   Shell(TRUE, FALSE, NoLeaves, <<<<"training.model_kwargs", "1">>,
                                  <<"training.model_kwargs.gamma", "1">>>>)}
=============================================================================
