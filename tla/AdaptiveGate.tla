---------------------------- MODULE AdaptiveGate ----------------------------
(***************************************************************************)
(* What an adaptive concurrency gate promises its users, with no counters, *)
(* locks or wakeups: a set of permit holders, and a ceiling that moves by  *)
(* additive increase and multiplicative decrease.  A permit is granted     *)
(* only while fewer callers than the ceiling hold one.  Lowering the       *)
(* ceiling evicts nobody, so the holders may outnumber it until they leave.*)
(***************************************************************************)
EXTENDS Naturals, FiniteSets

CONSTANTS
  Caller,   \* those who may hold a permit
  floor,    \* the ceiling never falls below this
  top       \* nor rises above this

VARIABLES
  ceiling,  \* permits that may be out before a grant is refused
  holders   \* the callers holding a permit

vars == <<ceiling, holders>>

Init ==
  /\ ceiling \in floor .. top
  /\ holders = {}

Grant(c) ==
  /\ c \notin holders
  /\ Cardinality(holders) < ceiling
  /\ holders' = holders \cup {c}
  /\ UNCHANGED ceiling

GiveBack(c) ==
  /\ c \in holders
  /\ holders' = holders \ {c}
  /\ UNCHANGED ceiling

Raise ==
  /\ ceiling < top
  /\ ceiling' = ceiling + 1
  /\ UNCHANGED holders

Halve ==
  /\ ceiling' = IF ceiling \div 2 > floor THEN ceiling \div 2 ELSE floor
  /\ UNCHANGED holders

Next ==
  \/ \E c \in Caller : Grant(c) \/ GiveBack(c)
  \/ Raise
  \/ Halve

Spec == Init /\ [][Next]_vars
=============================================================================
