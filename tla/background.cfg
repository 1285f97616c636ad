CONSTANTS
  shaOne = shaOne
  shaTwo = shaTwo
  Sha = {shaOne, shaTwo}
  Tree <- MCTree
  Price <- MCPrice
  Batch = 2
  Cap = 3
  Worker = {w1}
  None = None
  MaxAsked = 2
  MaxCrashes = 1
  Run = {r1, r2}
  Request = {q1}
  Processor = {v1, v2}
  Kind = {"llm_playground", "llm_vision", "tabular_regression"}
  Cost = {1, 2}
  DailyCap = 2
  MaxWasted = 1
  MaxKills = 1
  MaxLost = 1
  Csv <- MCCsv
  TextColumn <- MCText
  Archive <- MCArchive
  MinPerClass = 1
  MaxBytes = 1
  MaxTotalBytes = 4
  MaxImages = 3
  Palette <- MCPalette
  Template <- MCTemplate
  MaxEdits = 2
SPECIFICATION MCSpec
CHECK_DEADLOCK FALSE
INVARIANTS
  ReadyIsWhole
  PartIsResumable
  CapHolds
  RunsArePursued
  LedgerIsExact
  ExportMatchesRun
PROPERTIES
  EveryAskIsAnswered
  RunsFinish
