SPECIFICATION Spec
CONSTANTS
  SkipDirs <- MCSkipDirs
  HiddenDirs <- MCHiddenDirs
  Dimensions <- MCDimensions
  Discount <- MCDiscount
  Scans <- AllScans
  Replies <- MCReplies
  MinSuccess <- MCMinSuccess
INVARIANTS
  JobsAsPromised
  ReportTellsAudits
  RankingFairlyScored
