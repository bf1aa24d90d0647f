------------------------------ MODULE Turnstile ------------------------------
(***************************************************************************)
(* What the limits of a run promise the sessions that share them: no more  *)
(* sessions are inside than their limit has permits, and one that waits    *)
(* while there is room goes in.  Nothing is said of their order.           *)
(***************************************************************************)
EXTENDS Naturals, FiniteSets

CONSTANTS
  Session,
  Limit(_),   \* the limit of a session
  Room(_)     \* how many of a limit may be inside

VARIABLE place  \* where each session is

vars == place

Inside(l) == {s \in Session : place[s] = "inside" /\ Limit(s) = l}

Init == place = [s \in Session |-> "outside"]

Enter(s) ==
  /\ place[s] = "outside"
  /\ Cardinality(Inside(Limit(s))) < Room(Limit(s))
  /\ place' = [place EXCEPT ![s] = "inside"]

Leave(s) ==
  /\ place[s] = "inside"
  /\ place' = [place EXCEPT ![s] = "gone"]

Next == \E s \in Session : Enter(s) \/ Leave(s)

Spec ==
  /\ Init /\ [][Next]_vars
  /\ \A s \in Session : WF_vars(Enter(s)) /\ WF_vars(Leave(s))
=============================================================================
