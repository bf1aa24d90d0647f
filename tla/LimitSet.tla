------------------------------ MODULE LimitSet ------------------------------
(***************************************************************************)
(* The limits of a run (limits.rs) under join_all_ordered (runner.rs).  A  *)
(* run is one task with one waker: whoever wakes it has all sessions that  *)
(* are not done polled, from the first to the last.  A session that finds  *)
(* no permit leaves the waker with the limit and is not looked at again    *)
(* before the task is woken.  The host answers calls at any time, in the   *)
(* middle of a poll too; an answer wakes the task, and the executor        *)
(* remembers a wake that comes while it polls.                             *)
(*                                                                         *)
(* The groups may be those of the items of a map, which reach them at      *)
(* different times: a session can ask for its permit when sessions behind  *)
(* it in the row have theirs.  One call stands for what comes before its   *)
(* group, and one for its body.                                            *)
(*                                                                         *)
(* Runner takes for granted that a session enters while there is room:     *)
(* Turnstile states it, and the last property shows it of this code.       *)
(***************************************************************************)
EXTENDS Naturals, Sequences, FiniteSets

CONSTANTS
  LimitOf,  \* the limit of each session, in the order of the join
  Permits   \* what the plan gives each limit

ASSUME LimitSetAssumption ==
  /\ LimitOf \in Seq(DOMAIN Permits)
  /\ Permits \in [DOMAIN Permits -> Nat]

VARIABLES
  woken,    \* the task will be polled, or polled again
  at,       \* the session being polled; 0 between two polls
  st,       \* "ahead" of its group, "waiting" for a permit, in its "body", "done"
  ready,    \* its call has been answered
  active,   \* the permits out
  waiters   \* the limits that hold the waker of the task

vars == <<woken, at, st, ready, active, waiters>>

Session == DOMAIN LimitOf

\* Permits are floored at one.
Capacity(l) == IF Permits[l] = 0 THEN 1 ELSE Permits[l]

\* Faulty variant: one permit too many.
HasPermitOffByOne(l) == active[l] <= Capacity(l)

HasPermit(l) == active[l] < Capacity(l)

Init ==
  /\ woken = TRUE
  /\ at = 0
  /\ st \in [Session -> {"ahead", "waiting"}]
  /\ ready = [s \in Session |-> FALSE]
  /\ active = [l \in DOMAIN Permits |-> 0]
  /\ waiters = {}

-----------------------------------------------------------------------------
(* The join                                                                *)

\* The executor polls the task, which forgets that it was woken.
PollTask ==
  /\ at = 0 /\ woken
  /\ \E s \in Session : st[s] # "done"
  /\ woken' = FALSE
  /\ at' = 1
  /\ UNCHANGED <<st, ready, active, waiters>>

\* The session after s, or none.
After(s) == (s + 1) % (Len(LimitOf) + 1)

PassOver(s) ==
  /\ at = s /\ st[s] = "done"
  /\ at' = After(s)
  /\ UNCHANGED <<woken, st, ready, active, waiters>>

\* A call is outstanding.
Calling(s) == st[s] \in {"ahead", "body"}

AwaitAnswer(s) ==
  /\ at = s /\ Calling(s) /\ ~ready[s]
  /\ at' = After(s)
  /\ UNCHANGED <<woken, st, ready, active, waiters>>

\* The host answers a call, at once or after the session waits for it.
Answer(s) ==
  /\ Calling(s) /\ ~ready[s]
  /\ ready' = [ready EXCEPT ![s] = TRUE]
  /\ woken' \in IF at = s THEN {TRUE, woken} ELSE {TRUE}
  /\ UNCHANGED <<at, st, active, waiters>>

\* The group is reached.
Arrive(s) ==
  /\ at = s /\ st[s] = "ahead" /\ ready[s]
  /\ st' = [st EXCEPT ![s] = "waiting"]
  /\ ready' = [ready EXCEPT ![s] = FALSE]
  /\ UNCHANGED <<woken, at, active, waiters>>

-----------------------------------------------------------------------------
(* acquire                                                                 *)

\* The body is polled at once.
Acquire(s) ==
  /\ at = s /\ st[s] = "waiting" /\ HasPermit(LimitOf[s])
  /\ active' = [active EXCEPT ![LimitOf[s]] = @ + 1]
  /\ st' = [st EXCEPT ![s] = "body"]
  /\ UNCHANGED <<woken, at, ready, waiters>>

\* Test and registration are one critical section, and the waker is kept once.
Register(s) ==
  /\ at = s /\ st[s] = "waiting" /\ ~HasPermit(LimitOf[s])
  /\ waiters' = waiters \cup {LimitOf[s]}
  /\ at' = After(s)
  /\ UNCHANGED <<woken, st, ready, active>>

-----------------------------------------------------------------------------
(* release                                                                 *)

\* Faulty variant: the room is looked at before the permit is back.
WakesIfRoom(l) == l \in waiters /\ HasPermit(l)

\* A permit that comes back wakes those who wait.
Wakes(l) == l \in waiters

\* The guard is dropped, whatever the body returned: the permit comes back and
\* all who wait are woken, to race for it.
Release(s) ==
  /\ at = s /\ st[s] = "body" /\ ready[s]
  /\ LET l == LimitOf[s]
     IN /\ active' = [active EXCEPT ![l] = IF @ > 0 THEN @ - 1 ELSE 0]
        /\ woken' = (woken \/ Wakes(l))
        /\ waiters' = waiters \ {l}
  /\ st' = [st EXCEPT ![s] = "done"]
  /\ ready' = [ready EXCEPT ![s] = FALSE]
  /\ at' = After(s)

-----------------------------------------------------------------------------
Poll ==
  \/ PollTask
  \/ \E s \in Session :
       \/ PassOver(s) \/ AwaitAnswer(s) \/ Arrive(s)
       \/ Acquire(s) \/ Register(s) \/ Release(s)

Finished ==
  /\ at = 0 /\ \A s \in Session : st[s] = "done"
  /\ UNCHANGED vars

Next == Poll \/ (\E s \in Session : Answer(s)) \/ Finished

\* A woken task is polled, and the host answers each call.
Fairness == WF_vars(Poll) /\ \A s \in Session : WF_vars(Answer(s))

Spec == Init /\ [][Next]_vars /\ Fairness

-----------------------------------------------------------------------------
(* Properties                                                              *)

CanGoOn(s) ==
  \/ st[s] = "waiting" /\ HasPermit(LimitOf[s])
  \/ ready[s]

\* No wakeup is lost: a session that could go on, and that the present poll has
\* passed or that no poll is under way for, has the task polled again.  A permit
\* that a later session of the row gives back must reach an earlier one, which
\* was looked at before.
NoLostWaker ==
  \A s \in Session : CanGoOn(s) /\ (at = 0 \/ at > s) => woken

Place(s) ==
  CASE st[s] = "body" -> "inside" [] st[s] = "done" -> "gone" [] OTHER -> "outside"

Gate ==
  INSTANCE Turnstile WITH
    Limit <- LAMBDA s : LimitOf[s], Room <- Capacity, place <- [s \in Session |-> Place(s)]

\* A session goes in only while its limit has room, and does go in when room
\* remains, as Runner's SessionAcquire and its fairness assume.
ImplementsTurnstile == Gate!Spec
=============================================================================
