SPECIFICATION CliFairSpec
CONSTANTS
  Specs <- AllSpecs
  Commands <- AllCommands
  Shard = {1, 2}
  HistoryMax = 3
  HistoryKept = 2
INVARIANTS
  TotalsComplete
  ExitTellsOutcome
  FramesShowLoad
  ValidationExact
PROPERTY RunExits
