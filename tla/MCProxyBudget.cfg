SPECIFICATION Spec
CONSTANTS
  w1 = w1
  w2 = w2
  w3 = w3
  small = small
  large = large
  Worker = {w1, w2, w3}
  Config = {small, large}
  ConfigOf <- SmallOrLarge
  Cost <- OneOrTwo
  CapMicros <- MicrosOf
  CapTokens <- TokensOf
  MaxWord = 7
  MaxRequests = 4
  Nobody = Nobody
INVARIANTS
  GrantsAreDurable
  WithinCap
  LedgerReadable
PROPERTIES
  NeverRefunded
