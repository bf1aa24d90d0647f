SPECIFICATION ReplaySpec
CONSTANTS
  Workflows <- PairAndResume
  RunProgram <- MCRunProgram
  SessionId <- ById
  Null = Null
  Unset = Unset
  NoRef = NoRef
  NoNode = NoNode
  NoLimit = NoLimit
  NoSignal = NoSignal
  DriveErr = DriveErr
  LedgerErr = LedgerErr
  GateErr = GateErr
  GoalUnmet = GoalUnmet
  UnknownNode = UnknownNode
  ReplayMiss = ReplayMiss
INVARIANTS
  ReplayIdentical
