SPECIFICATION Spec
CONSTANTS
  LimitOf <- MCLimitOf
  Permits <- MCPermits
INVARIANT NoLostWaker
PROPERTY ImplementsTurnstile
