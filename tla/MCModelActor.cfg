SPECIFICATION FairSpec
CONSTANTS
  Drive = {"full", "short"}
  Setups <- MCSetups
  Seeds = {"src", "lib"}
  Globs = {"src", "lib"}
  Scripts <- MCScripts
  MaxAttempts = 2
  TailLength = 2
  PipeLimit = 2
  ParseAttempts = 2
INVARIANTS
  AnswerIsLast
  CaptureIsOwn
  TraceTellsAnswer
  NothingLeft
PROPERTY
  DriveEnds
