SPECIFICATION Spec
CONSTANTS
  SkipDirs <- MCSkipDirs
  HiddenDirs <- MCHiddenDirs
  Dimensions <- MCDimensions
  Discount <- MCDiscount
  Scans <- ObliqScans
  Replies <- MCReplies
  MinSuccess <- MCMinSuccess
INVARIANTS
  RetrievalScoredInFull
