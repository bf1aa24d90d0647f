SPECIFICATION FairSpec
CONSTANTS
  Workflows <- AllWorkflows
  RunProgram <- MCRunProgram
  SessionId <- ById
  Null = Null
  Unset = Unset
  NoRef = NoRef
  NoNode = NoNode
  NoLimit = NoLimit
  NoSignal = NoSignal
  DriveErr = DriveErr
  LedgerErr = LedgerErr
  GateErr = GateErr
  GoalUnmet = GoalUnmet
  UnknownNode = UnknownNode
  ReplayMiss = ReplayMiss
INVARIANTS
  TypeOK
  CallsAddressed
  LanesEnteredOnce
  StructuredJoin
  PermitsHeld
  EverythingSettled
  MapAccounts
  CollectedInItemOrder
  BindingsRestored
  StatusExplained
PROPERTIES
  FanIsolation
  MetGoalsStop
  Terminates
