------------------------- MODULE MCAdaptiveLimiter -------------------------
(* An instance of AdaptiveLimiter for TLC.  Liveness is checked, so that    *)
(* callers are not taken for interchangeable.                               *)
EXTENDS AdaptiveLimiter
=============================================================================
