SPECIFICATION Spec
CONSTANTS
  Conv = {"main", "side"}
  Settings <- MCSettings
  MaxAsks = 3
INVARIANTS
  ConversationKept
  SpentWasReserved
