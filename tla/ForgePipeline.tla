--------------------------- MODULE ForgePipeline ---------------------------
(* What a Forge workflow means: the steps a learner drops on the canvas,    *)
(* which sequences the server stores, what a run does with a stored one and *)
(* what the exported Python script does with it.  Data is symbolic: a table *)
(* is the set of its columns and the list of what was done to it, so two    *)
(* pipelines agree when they do the same things to the same columns.        *)
EXTENDS Naturals, SequencesExt

CONSTANTS
  Csv,        \* the columns of the uploaded CSV, as <<name, suffix>>
  TextColumn, \* those holding text
  Archive,    \* the ZIP archives learners upload: sets of entries
  MinPerClass, MaxBytes, MaxTotalBytes, MaxImages,
  Palette,    \* the steps, with the parameters a learner gives them
  Template,   \* the draft a canvas opens with, per workflow kind
  MaxEdits    \* bound on the edits of one draft

VARIABLES
  kind,   \* of the workflow
  photos, \* the usable images of its archive, when it is about images
  draft,  \* the sequence on the canvas
  edits,
  saved   \* the stored steps, << >> before the first save

vars == <<kind, photos, draft, edits, saved>>

-----------------------------------------------------------------------------
(* The vocabulary. *)

WorkflowKinds == {"tabular_classification", "tabular_regression", "timeseries_forecast", "image_classification",
                  "llm_playground", "llm_vision"}

Classifier == {"logistic_regression", "random_forest_classifier", "decision_tree_classifier"}
Regressor  == {"linear_regression", "ridge", "random_forest_regressor"}

AlgorithmsFor(k) == IF k \in {"tabular_classification", "image_classification"} THEN Classifier ELSE Regressor

TabularSteps == {"load_csv", "handle_missing", "encode_categorical", "scale_features", "select_features",
                 "select_target", "train_test_split", "train_model", "evaluate"}
ImageSteps   == {"load_images", "resize_images", "grayscale_images", "flatten_images", "scale_features",
                 "train_test_split", "train_model", "evaluate"}

StepsFor(k) ==
  CASE k \in {"tabular_classification", "tabular_regression"} -> TabularSteps
    [] k = "timeseries_forecast"  -> TabularSteps \cup {"lag_features"}
    [] k = "image_classification" -> ImageSteps
    [] k = "llm_playground"       -> {"prompt"}
    [] k = "llm_vision"           -> {"vision_prompt"}

AllowedHyperparameters == {"n_estimators", "max_depth", "min_samples_leaf", "max_iter", "C", "alpha", "random_state"}

(* The parameters a step gets when the learner leaves them out.  A column   *)
(* list left out is empty; fractions are in percent.                        *)
Defaults(step) ==
  CASE step = "handle_missing"     -> [strategy |-> "drop_rows", columns |-> {}]
    [] step = "encode_categorical" -> [strategy |-> "one_hot", columns |-> {}]
    [] step = "scale_features"     -> [strategy |-> "standard", columns |-> {}]
    [] step = "select_features"    -> [columns |-> {}]
    [] step = "lag_features"       -> [lags |-> 3, horizon |-> 1]
    [] step = "train_test_split"   -> [test_size |-> 20, random_state |-> 42, shuffle |-> TRUE]
    [] step = "train_model"        -> [hyper |-> {}]
    [] step = "resize_images"      -> [width |-> 32, height |-> 32]
    [] step = "vision_prompt"      -> [prompt |-> "caption", system |-> "plain", max_tokens |-> 300]
    [] step = "prompt"             -> [context |-> "none", system |-> "helpful", max_tokens |-> 500]
    [] OTHER                       -> << >>

Cleaned(s) ==
  LET default == Defaults(s.kind)
  IN  [field \in DOMAIN s \cup DOMAIN default |-> IF field \in DOMAIN s THEN s[field] ELSE default[field]]

Gives(s, field) == field \in DOMAIN s

ValidStep(k, raw) ==
  LET s == Cleaned(raw) IN
  /\ s.kind \in StepsFor(k)
  /\ s.kind = "handle_missing" => (s.strategy = "constant" => Gives(raw, "fill_value"))
  /\ s.kind \in {"select_target", "lag_features"} => Gives(raw, "column")
  /\ s.kind = "lag_features" => s.lags \in 1 .. 50 /\ s.horizon \in 1 .. 50
  /\ s.kind = "train_test_split" => s.test_size \in 5 .. 50
  /\ s.kind = "train_model" =>
       Gives(raw, "algorithm") /\ s.algorithm \in AlgorithmsFor(k) /\ s.hyper \subseteq AllowedHyperparameters
  /\ s.kind = "resize_images" => s.width \in 8 .. 64 /\ s.height \in 8 .. 64
  /\ s.kind = "vision_prompt" => Gives(raw, "image")
  /\ s.kind = "prompt" => Gives(raw, "prompt")
  /\ s.kind \in {"prompt", "vision_prompt"} => s.max_tokens \in 1 .. 4000

KindsOf(steps) == [i \in DOMAIN steps |-> steps[i].kind]

Times(steps, k) == Cardinality({i \in DOMAIN steps : steps[i].kind = k})

First(steps, k) == CHOOSE i \in DOMAIN steps :
  steps[i].kind = k /\ \A j \in 1 .. i - 1 : steps[j].kind # k

(* What every training workflow must have. *)
TrainsThenScores(steps) ==
  /\ Times(steps, "train_model") > 0
  /\ Times(steps, "evaluate") > 0
  /\ First(steps, "train_model") < First(steps, "evaluate")

ValidImageSequence(steps) ==
  /\ steps[1].kind = "load_images"
  /\ \A k \in ImageSteps : Times(steps, k) <= 1
  /\ Times(steps, "resize_images") = 1
  /\ Times(steps, "flatten_images") = 1
  /\ TrainsThenScores(steps)

ValidSequence(k, steps) ==
  /\ steps # << >>
  /\ \A i \in DOMAIN steps : ValidStep(k, steps[i])
  /\ CASE k = "llm_playground" -> KindsOf(steps) = <<"prompt">>
       [] k = "llm_vision" -> KindsOf(steps) = <<"vision_prompt">>
       [] k = "image_classification" -> ValidImageSequence(steps)
       [] OTHER -> /\ steps[1].kind = "load_csv"
                   /\ Times(steps, "load_csv") = 1
                   /\ TrainsThenScores(steps)
                   /\ IF k = "timeseries_forecast"
                      THEN Times(steps, "lag_features") > 0
                      ELSE Times(steps, "select_target") > 0

(* A canvas opens with a sequence of steps, and every step says its kind.   *)
Step == Palette \cup UNION {Range(Template[k]) : k \in DOMAIN Template}

Settings ==
  /\ \A s \in Step : "kind" \in DOMAIN s
  /\ DOMAIN Template \subseteq WorkflowKinds
  /\ \A k \in DOMAIN Template : Template[k] \in Seq(Step)

CanonicalOrder ==
  [load_csv |-> 0, lag_features |-> 1, select_target |-> 2, handle_missing |-> 3, encode_categorical |-> 4,
   select_features |-> 5, train_test_split |-> 6, scale_features |-> 7, train_model |-> 8, evaluate |-> 9,
   prompt |-> 0, load_images |-> 0, resize_images |-> 1, grayscale_images |-> 2, flatten_images |-> 3,
   vision_prompt |-> 0]

(* Fault: the canvas's order is taken for the pipeline's. *)
AsDropped(steps) == steps

(* ordered_steps: by canonical place, then by position on the canvas.  A    *)
(* step is the n-th when n steps, itself one of them, come no later.        *)
ComesBy(steps, j, i) ==
  LET place(n) == CanonicalOrder[steps[n].kind]
  IN  place(j) < place(i) \/ (place(j) = place(i) /\ j <= i)

Rank(steps, i) == Cardinality({j \in DOMAIN steps : ComesBy(steps, j, i)})

Ordered(steps) == [n \in DOMAIN steps |-> steps[CHOOSE i \in DOMAIN steps : Rank(steps, i) = n]]

-----------------------------------------------------------------------------
(* Symbolic tables.  "done" lists every operation on the values, the        *)
(* columns it touched and its number.                                       *)

ReadCsv == [cols |-> Csv, text |-> TextColumn, done |-> << >>]

Derived(c, suffix) == <<c[1], c[2] \o suffix>>

NoColumn == <<"none", "none">>

Target(s) == Derived(s.column, "_t_plus_" \o ToString(s.horizon))

Touch(frame, op, on, by) ==
  IF on = {} THEN frame ELSE [frame EXCEPT !.done = Append(@, [op |-> op, on |-> on, by |-> by])]

ApplyMissing(frame, s) ==
  Touch(frame, s.strategy, (IF s.columns = {} THEN frame.cols ELSE s.columns) \cap frame.cols, 0)

Encodable(frame, s, target) ==
  (IF s.columns = {} THEN frame.text ELSE s.columns \cap frame.cols) \ {target}

ApplyEncoding(frame, s, target) ==
  LET on == Encodable(frame, s, target)
      encoded == Touch(frame, s.strategy, on, 0)
  IN  IF s.strategy = "ordinal" THEN [encoded EXCEPT !.text = @ \ on]
      ELSE [encoded EXCEPT !.text = @ \ on, !.cols = (@ \ on) \cup {Derived(c, "_is") : c \in on}]

(* The lag columns come from s.column; the target column is named by the    *)
(* caller and holds the reading s.horizon steps ahead.                      *)
Lagged(frame, s, target) ==
  [cols |-> {Derived(s.column, "_lag_" \o ToString(i)) : i \in 1 .. s.lags} \cup {target},
   text |-> {},
   done |-> frame.done \o <<[op |-> "lags", on |-> {s.column}, by |-> s.lags],
                            [op |-> "ahead", on |-> {target}, by |-> s.horizon]>>]

ApplyLags(frame, s) == Lagged(frame, s, Target(s))

(* _target_name, the same in both: the first step that names one wins. *)
NamesTarget(k, s) == s.kind = "select_target" \/ (s.kind = "lag_features" /\ k = "timeseries_forecast")

TargetName(k, ordered) ==
  LET naming == {i \in DOMAIN ordered : NamesTarget(k, ordered[i])}
      first == ordered[Min(naming)]
  IN  IF naming = {} THEN NoColumn ELSE IF first.kind = "select_target" THEN first.column ELSE Target(first)

-----------------------------------------------------------------------------
(* A run. *)

Refused(why) == [refused |-> why]

NoSplitStep(k) == [test_size |-> 20, random_state |-> 42, shuffle |-> k # "timeseries_forecast"]

Split(s) == [test_size |-> s.test_size, random_state |-> s.random_state, shuffle |-> s.shuffle]

(* The settings a scikit-learn estimator takes. *)
Takes(algorithm) ==
  CASE algorithm = "linear_regression"   -> {}
    [] algorithm = "ridge"               -> {"alpha", "max_iter", "random_state"}
    [] algorithm = "logistic_regression" -> {"C", "max_iter", "random_state"}
    [] algorithm = "decision_tree_classifier" -> {"max_depth", "min_samples_leaf", "random_state"}
    [] OTHER -> {"n_estimators", "max_depth", "min_samples_leaf", "random_state"}

(* _build_estimator: the linear regression is built without any setting. *)
Estimator(s) == [algorithm |-> s.algorithm, hyper |-> IF s.algorithm = "linear_regression" THEN {} ELSE s.hyper]

Scores(k) ==
  IF k = "tabular_classification" THEN {"accuracy", "precision_macro", "recall_macro", "f1_macro"}
  ELSE {"r2", "mae", "rmse"} \cup IF k = "timeseries_forecast" THEN {"mape"} ELSE {}

Fits(model) == model.hyper \subseteq Takes(model.algorithm)

(* One step of run_tabular's loop, on what the earlier ones prepared. *)
Prepare(p, s, target) ==
  CASE p.refused # "no" -> p
    [] s.kind = "lag_features" ->
         IF s.column \in p.frame.cols \ p.frame.text
         THEN [p EXCEPT !.frame = ApplyLags(@, s)] ELSE [p EXCEPT !.refused = "column"]
    [] s.kind = "handle_missing" -> [p EXCEPT !.frame = ApplyMissing(@, s)]
    [] s.kind = "encode_categorical" -> [p EXCEPT !.frame = ApplyEncoding(@, s, target)]
    [] s.kind = "select_target" ->
         IF target \in p.frame.cols THEN p ELSE [p EXCEPT !.refused = "column"]
    [] s.kind = "select_features" -> [p EXCEPT !.features = s.columns \ {target}]
    [] s.kind = "train_test_split" -> [p EXCEPT !.split = Split(s)]
    [] s.kind = "scale_features" -> [p EXCEPT !.scale = s.strategy]
    [] s.kind = "train_model" -> [p EXCEPT !.model = <<Estimator(s)>>]
    [] OTHER -> p

Prepared(k, ordered, target) ==
  LET start == [frame |-> ReadCsv, refused |-> "no", features |-> {}, split |-> NoSplitStep(k), scale |-> "none",
                model |-> << >>]
  IN  FoldLeft(LAMBDA p, s : Prepare(p, s, target), start, ordered)

Features(p, target) == IF p.features = {} THEN p.frame.cols \ {target} ELSE p.features

Complaint(k, p, target) ==
  CASE target = NoColumn -> "no target"
    [] p.refused # "no" -> p.refused
    [] target \notin p.frame.cols \/ ~ Features(p, target) \subseteq p.frame.cols -> "column"
    [] Features(p, target) = {} \/ Features(p, target) \cap p.frame.text # {} -> "features"
    [] k # "tabular_classification" /\ target \in p.frame.text -> "labels"
    [] p.model = << >> -> "no model"
    [] ~ Fits(p.model[1]) -> "fit"
    [] OTHER -> "no"

RunTabular(k, steps) ==
  LET ordered == Ordered(steps)
      target == TargetName(k, ordered)
      p == Prepared(k, ordered, target)
      why == Complaint(k, p, target)
  IN  IF why # "no" THEN Refused(why)
      ELSE [refused |-> "no", done |-> p.frame.done, features |-> Features(p, target), target |-> target,
            split |-> p.split, scale |-> p.scale, model |-> p.model[1], scores |-> Scores(k)]

-----------------------------------------------------------------------------
(* The exported script.  by_kind keeps the last step of each kind, and the  *)
(* blocks come in the order the generator writes them.                      *)

Has(steps, k) == Times(steps, k) > 0

ByKind(steps, k) == steps[Max({i \in DOMAIN steps : steps[i].kind = k})]

(* The estimator is written with every setting of the step. *)
WrittenModel(steps) ==
  LET s == ByKind(steps, "train_model") IN [algorithm |-> s.algorithm, hyper |-> s.hyper]

WrittenSplit(k, steps) ==
  IF Has(steps, "train_test_split") THEN Split(ByKind(steps, "train_test_split")) ELSE NoSplitStep(k)

WrittenScale(steps) == IF Has(steps, "scale_features") THEN ByKind(steps, "scale_features").strategy ELSE "none"

WrittenScores(k) ==
  (IF k = "tabular_classification" THEN {"accuracy", "precision_macro", "recall_macro", "f1_macro"}
   ELSE {"r2", "mae", "rmse"}) \cup {m \in {"mape"} : k = "timeseries_forecast"}

(* A list of columns is used as it is written: only fillna by a constant    *)
(* overlooks a column that is not there.                                    *)
MissingBlockFails(frame, s) == s.strategy # "constant" /\ ~ s.columns \subseteq frame.cols

LagBlock(ordered, target) ==
  IF Has(ordered, "lag_features") THEN Lagged(ReadCsv, ByKind(ordered, "lag_features"), target) ELSE ReadCsv

MissingBlock(ordered, target) ==
  LET lagged == LagBlock(ordered, target)
  IN  IF Has(ordered, "handle_missing") THEN ApplyMissing(lagged, ByKind(ordered, "handle_missing")) ELSE lagged

EncodingBlock(ordered, target) ==
  LET filled == MissingBlock(ordered, target)
  IN  IF Has(ordered, "encode_categorical")
      THEN ApplyEncoding(filled, ByKind(ordered, "encode_categorical"), target) ELSE filled

WrittenFeatures(ordered, target) ==
  LET chosen == IF Has(ordered, "select_features") THEN ByKind(ordered, "select_features").columns ELSE {}
  IN  (IF chosen = {} THEN EncodingBlock(ordered, target).cols ELSE chosen) \ {target}

ScriptFails(ordered, target) ==
  LET frame == EncodingBlock(ordered, target)
      features == WrittenFeatures(ordered, target)
  IN  \/ Has(ordered, "select_target") /\ target \notin Csv
      \/ Has(ordered, "lag_features") /\ ByKind(ordered, "lag_features").column \notin Csv
      \/ Has(ordered, "handle_missing") /\
           MissingBlockFails(LagBlock(ordered, target), ByKind(ordered, "handle_missing"))
      \/ ~ features \cup {target} \subseteq frame.cols
      \/ features = {} \/ features \cap frame.text # {}
      \/ ~ Fits(WrittenModel(ordered))

RunScript(k, steps) ==
  LET ordered == Ordered(steps)
      target == TargetName(k, ordered)
  IN  IF ScriptFails(ordered, target) THEN Refused("script")
      ELSE [refused |-> "no", done |-> EncodingBlock(ordered, target).done,
            features |-> WrittenFeatures(ordered, target), target |-> target, split |-> WrittenSplit(k, ordered),
            scale |-> WrittenScale(ordered), model |-> WrittenModel(ordered), scores |-> WrittenScores(k)]

-----------------------------------------------------------------------------
(* Images, and the questions put to a model. *)

(* An entry is [sort, class, name, bytes]: an image directly in a class     *)
(* folder or, without one, loose; a folder; a file the archiver added; or   *)
(* what no archive may hold, such as a link, a path that leads outside, a   *)
(* deeper folder or another type of file.                                   *)
Unlabelled == "none"
ImageKinds == {"image_classification", "llm_vision"}

(* _entries skips folders and what archivers add. *)
Usable(archive) == {e \in archive : e.sort = "image"}

NamedClasses(entries) == {e.class : e \in entries} \ {Unlabelled}

(* build_manifest: the archive is stored or refused as a whole. *)
ValidArchive(archive) ==
  LET usable == Usable(archive) IN
  /\ \A e \in archive : e.sort \in {"image", "folder", "ignored"}
  /\ \A e \in usable : e.bytes <= MaxBytes
  /\ MapThenSumSet(LAMBDA e : e.bytes, usable) <= MaxTotalBytes
  /\ Cardinality(usable) \in 1 .. MaxImages
  /\ \A e \in archive : e.sort = "folder" => e.class \in NamedClasses(usable)

(* check_trainable: the loose images are not counted. *)
Trainable(entries) ==
  /\ Cardinality(NamedClasses(entries)) >= 2
  /\ \A c \in NamedClasses(entries) : Cardinality({e \in entries : e.class = c}) >= MinPerClass

ImageRun(steps, read, model) ==
  LET size == ByKind(steps, "resize_images") IN
  [refused |-> "no", size |-> <<size.width, size.height>>, grayscale |-> Has(steps, "grayscale_images"),
   split |-> WrittenSplit("image_classification", steps), scale |-> WrittenScale(steps), images |-> read,
   model |-> model]

(* load_matrix reads the loose images too. *)
RunImages(steps) ==
  LET model == Estimator(ByKind(steps, "train_model"))
  IN  IF ~ Trainable(photos) THEN Refused("images") ELSE IF ~ Fits(model) THEN Refused("fit")
      ELSE ImageRun(steps, photos, model)

(* The script reads the folders. *)
RunImageScript(steps) ==
  IF Cardinality(NamedClasses(photos)) >= 2 /\ Fits(WrittenModel(steps))
  THEN ImageRun(steps, {e \in photos : e.class # Unlabelled}, WrittenModel(steps)) ELSE Refused("script")

Question(s) == [refused |-> "no", system |-> s.system, prompt |-> s.prompt, max_tokens |-> s.max_tokens,
                on |-> IF s.kind = "prompt" THEN s.context ELSE s.image]

Execute(k, steps) ==
  CASE k \in {"llm_playground", "llm_vision"} -> Question(steps[1])
    [] k = "image_classification" -> RunImages(steps)
    [] OTHER -> RunTabular(k, steps)

Script(k, steps) ==
  CASE k \in {"llm_playground", "llm_vision"} -> Question(Ordered(steps)[1])
    [] k = "image_classification" -> RunImageScript(steps)
    [] OTHER -> RunScript(k, steps)

-----------------------------------------------------------------------------
(* The canvas: edits of a draft, and saves of the whole sequence. *)

Init ==
  /\ kind \in DOMAIN Template
  /\ IF kind \in ImageKinds THEN photos \in {Usable(a) : a \in {a \in Archive : ValidArchive(a)}} ELSE photos = {}
  /\ draft = Template[kind]
  /\ edits = 0
  /\ saved = << >>

Edit(steps) ==
  /\ edits < MaxEdits
  /\ edits' = edits + 1
  /\ draft' = steps
  /\ UNCHANGED <<kind, photos, saved>>

AddStep == \E s \in Palette, i \in 1 .. Len(draft) + 1 : Edit(InsertAt(draft, i, s))

RemoveStep == \E i \in DOMAIN draft : Edit(RemoveAt(draft, i))

MoveStep == \E i, j \in DOMAIN draft : i < j /\ Edit(InsertAt(RemoveAt(draft, j), i, draft[j]))

(* create_workflow and replace_steps store the cleaned steps or none. *)
Save ==
  /\ ValidSequence(kind, draft)
  /\ saved' = [i \in DOMAIN draft |-> Cleaned(draft[i])]
  /\ UNCHANGED <<kind, photos, draft, edits>>

Next == AddStep \/ RemoveStep \/ MoveStep \/ Save

Spec == Init /\ [][Next]_vars

-----------------------------------------------------------------------------
(* The cases in which the generator and the runner read the same steps      *)
(* differently; everywhere else they must agree.                            *)
OnePerKind(steps) == \A k \in TabularSteps \cup {"lag_features"} : Times(steps, k) <= 1

PlainlyWritten(k, steps) ==
  /\ OnePerKind(steps)
  /\ Has(steps, "lag_features") =>
       ~ Has(steps, "select_target") /\ (Has(steps, "handle_missing") => ByKind(steps, "handle_missing").columns = {})
  /\ \A i \in DOMAIN steps : Gives(steps[i], "columns") => steps[i].columns \subseteq Csv
  /\ Has(steps, "select_features") => ByKind(steps, "select_features").columns # {TargetName(k, steps)}
  /\ Has(steps, "train_model") => Fits(WrittenModel(steps))
  /\ k = "image_classification" => \A e \in photos : e.class # Unlabelled

(* Whatever the order of the steps on the canvas, a run that succeeds did   *)
(* what the exported script does.                                           *)
ExportMatchesRun ==
  (saved # << >> /\ PlainlyWritten(kind, saved) /\ Execute(kind, saved).refused = "no") =>
    Script(kind, saved) = Execute(kind, saved)

(* steps.py, above CANONICAL_ORDER: "Execution and code generation both     *)
(* sort through here, so what runs and what is exported can never disagree" *)
(* (asked of the tables alone).                                             *)
NeverDisagree ==
  (saved # << >> /\ kind \notin ImageKinds /\ Execute(kind, saved).refused = "no") =>
    Script(kind, saved) = Execute(kind, saved)
=============================================================================
