---------------------------- MODULE MCBackground ----------------------------
(* Instances for TLC of what workers do in the background: the code index   *)
(* of MCRepoIndex, the runs of ForgeRuns and the canvases of ForgePipeline. *)
(* The parts share no state: a behaviour is of one of them, the others      *)
(* staying as they began.                                                   *)
EXTENDS MCRepoIndex

CONSTANTS
  Run, Request, Processor, Kind, Cost, DailyCap, MaxWasted, MaxKills, MaxLost,
  Csv, TextColumn, Archive, MinPerClass, MaxBytes, MaxTotalBytes, MaxImages, Palette, Template, MaxEdits

VARIABLES
  part, data, flow, run, queue, req, job, billed, wasted, ledger, crowded, kills, lost, kind, photos, draft, edits, saved

index  == vars
runs   == <<data, flow, run, queue, req, job, billed, wasted, ledger, crowded, kills, lost>>
canvas == <<kind, photos, draft, edits, saved>>

Forge == INSTANCE ForgeRuns WITH Worker <- Processor, Cap <- DailyCap

Canvas == INSTANCE ForgePipeline

ASSUME BackgroundAssumption == Forge!Settings /\ Canvas!Settings

RunsIdle ==
  /\ data = FALSE
  /\ flow = Forge!Flow("tabular_regression", FALSE, 1, FALSE)
  /\ run = [r \in Run |-> "free"] /\ queue = [r \in Run |-> 0]
  /\ req = [q \in Request |-> Forge!Idle] /\ job = [w \in Processor |-> Forge!Free]
  /\ billed = 0 /\ wasted = 0 /\ ledger = 0 /\ crowded = FALSE /\ kills = 0 /\ lost = 0

CanvasIdle == kind = "llm_vision" /\ photos = {} /\ draft = << >> /\ edits = 0 /\ saved = << >>

IndexIdle == head = shaOne /\ used = 0

MCInit ==
  /\ Init
  /\ \/ part = "index" /\ RunsIdle /\ CanvasIdle
     \/ part = "runs" /\ Forge!Init /\ IndexIdle /\ CanvasIdle
     \/ part = "canvas" /\ Canvas!Init /\ IndexIdle /\ RunsIdle

MCNext ==
  \/ part = "index" /\ Next /\ UNCHANGED <<part, runs, canvas>>
  \/ part = "runs" /\ Forge!Next /\ UNCHANGED <<part, index, canvas>>
  \/ part = "canvas" /\ Canvas!Next /\ UNCHANGED <<part, index, runs>>

MCSpec == MCInit /\ [][MCNext]_<<part, index, runs, canvas>> /\ Fairness /\ Forge!Fairness

(* What ForgeRuns and ForgePipeline promise. *)
LedgerIsExact    == Forge!LedgerIsExact
RunsArePursued   == Forge!RunsArePursued
RunsFinish       == Forge!RunsFinish
ExportMatchesRun == Canvas!ExportMatchesRun
NeverDisagree    == Canvas!NeverDisagree

-----------------------------------------------------------------------------
(* The canvas of the instance: a CSV of two numbers and a text.             *)
Column(name) == <<name, "">>

MCText == {Column("c")}
MCCsv == {Column("x"), Column("y")} \cup MCText

Image(class, name) == [sort |-> "image", class |-> class, name |-> name, bytes |-> 1]
Folder(class) == [sort |-> "folder", class |-> class, name |-> class, bytes |-> 0]

TwoClasses == {Image("cat", "1"), Image("dog", "2"), Folder("cat"), [Image("cat", "3") EXCEPT !.sort = "ignored"]}

(* Trainable; with a loose image beside the classes; a single loose image;  *)
(* and two that no one may upload: a link, and a class without an image.    *)
MCArchive ==
  {TwoClasses, TwoClasses \cup {Image("none", "4")}, {Image("none", "4")},
   TwoClasses \cup {[Image("cat", "5") EXCEPT !.sort = "link"]}, TwoClasses \cup {Folder("cow")}}

MCPalette ==
  {[kind |-> "load_csv"], [kind |-> "evaluate"], [kind |-> "encode_categorical"],
   [kind |-> "encode_categorical", strategy |-> "ordinal", columns |-> {Column("y"), Column("c")}],
   [kind |-> "handle_missing"], [kind |-> "handle_missing", strategy |-> "mean", columns |-> {Column("x")}],
   [kind |-> "handle_missing", strategy |-> "constant"], [kind |-> "handle_missing", columns |-> {Column("z")}],
   [kind |-> "select_features", columns |-> {Column("x")}], [kind |-> "select_features", columns |-> {Column("y")}],
   [kind |-> "select_target", column |-> Column("y")], [kind |-> "select_target"],
   [kind |-> "lag_features", column |-> Column("x"), lags |-> 1, horizon |-> 2], [kind |-> "lag_features", column |-> Column("y")],
   [kind |-> "train_test_split"], [kind |-> "train_test_split", test_size |-> 60],
   [kind |-> "scale_features"], [kind |-> "scale_features", strategy |-> "minmax"],
   [kind |-> "train_model", algorithm |-> "ridge"], [kind |-> "train_model", algorithm |-> "logistic_regression"],
   [kind |-> "train_model", algorithm |-> "linear_regression", hyper |-> {"max_iter"}],
   [kind |-> "resize_images", width |-> 8], [kind |-> "resize_images", width |-> 128],
   [kind |-> "grayscale_images"], [kind |-> "prompt", prompt |-> "why"]}

Training(algorithm) ==
  <<[kind |-> "train_model", algorithm |-> algorithm], [kind |-> "evaluate"]>>

MCTemplate ==
  [tabular_classification |->
     <<[kind |-> "load_csv"], [kind |-> "select_target", column |-> Column("c")]>> \o Training("random_forest_classifier"),
   tabular_regression |->
     <<[kind |-> "load_csv"], [kind |-> "select_target", column |-> Column("y")]>> \o Training("ridge"),
   timeseries_forecast |->
     <<[kind |-> "load_csv"], [kind |-> "lag_features", column |-> Column("y"), lags |-> 2]>> \o Training("linear_regression"),
   image_classification |->
     <<[kind |-> "load_images"], [kind |-> "resize_images"], [kind |-> "flatten_images"]>>
       \o Training("decision_tree_classifier"),
   llm_playground |-> <<[kind |-> "prompt", prompt |-> "why"]>>,
   llm_vision |-> <<[kind |-> "vision_prompt", image |-> "cat.png"]>>]
=============================================================================
