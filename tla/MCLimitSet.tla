------------------------------ MODULE MCLimitSet ------------------------------
(* Two limits, one of no permits, which count as one, and their sessions mixed. *)
EXTENDS LimitSet

MCLimitOf == <<"turn", "desk", "turn", "desk", "desk">>
MCPermits == [turn |-> 0, desk |-> 2]
=============================================================================
