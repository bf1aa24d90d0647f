-------------------------- MODULE AdaptiveLimiter --------------------------
(***************************************************************************)
(* The AIMD concurrency limiter of jesterky-model (limiter.rs) and the     *)
(* retry loop that uses it (CodexModel::complete in codex.rs).             *)
(*                                                                         *)
(* Callers on any thread share one limiter.  A step is what a caller does  *)
(* between two acquisitions of the mutex or two awaits, so that a release, *)
(* or a growth of the ceiling, and the wakeup that follows it are distinct *)
(* steps: that gap is where a wakeup could be lost.  A subprocess run is   *)
(* its outcome, and a backoff sleep a state without a duration.            *)
(***************************************************************************)
EXTENDS Naturals, FiniteSets

CONSTANTS
  Caller,       \* the concurrent users of the limiter
  StartArg,     \* the arguments of AdaptiveLimiter::new
  MinArg,
  MaxArg,
  MaxAttempts,  \* MAX_ATTEMPTS of codex.rs
  MaxCalls      \* bound: how many calls each caller makes

ASSUME LimiterAssumption ==
  /\ IsFiniteSet(Caller)
  /\ StartArg \in Nat /\ MinArg \in Nat /\ MaxArg \in Nat
  /\ MaxAttempts \in Nat \ {0}
  /\ MaxCalls \in Nat

VARIABLES
  limit,      \* Inner.limit
  inFlight,   \* Inner.in_flight
  successes,  \* Inner.successes
  armed,      \* callers whose Notified future is enabled and not yet notified
  pc,         \* where each caller is
  attempt,    \* the attempt counter of each caller's retry loop
  after,      \* where a caller goes once its permit is given back
  calls       \* bound: calls made by each caller

vars == <<limit, inFlight, successes, armed, pc, attempt, after, calls>>
gate == <<limit, inFlight, successes>>
loop == <<attempt, after, calls>>

\* "idle"     not inside complete        "exec"     the subprocess runs
\* "arm"      top of the acquire loop    "grown"    ceiling raised, notify next
\* "check"    enabled, lock next         "settled"  outcome known, drop next
\* "await"    parked on the Notified     "released" permit freed, notify next
\* "backoff"  asleep before a retry
Location == {"idle", "arm", "check", "await", "exec", "grown", "settled",
             "released", "backoff"}

-----------------------------------------------------------------------------
Larger(a, b) == IF a > b THEN a ELSE b
Smaller(a, b) == IF a < b THEN a ELSE b

\* AdaptiveLimiter::new floors and orders its arguments.
floor == Larger(MinArg, 1)
top   == Larger(MaxArg, floor)
start == Smaller(Larger(StartArg, floor), top)

Holders == {c \in Caller : pc[c] \in {"exec", "grown", "settled"}}

Goto(c, from, to) ==
  /\ pc[c] = from
  /\ pc' = [pc EXCEPT ![c] = to]

Init ==
  /\ limit = start
  /\ inFlight = 0
  /\ successes = 0
  /\ armed = {}
  /\ pc = [c \in Caller |-> "idle"]
  /\ attempt = [c \in Caller |-> 0]
  /\ after = [c \in Caller |-> "idle"]
  /\ calls = [c \in Caller |-> 0]

-----------------------------------------------------------------------------
(* acquire                                                                 *)

Call(c) ==
  /\ calls[c] < MaxCalls
  /\ Goto(c, "idle", "arm")
  /\ attempt' = [attempt EXCEPT ![c] = 0]
  /\ calls' = [calls EXCEPT ![c] = @ + 1]
  /\ UNCHANGED <<gate, armed, after>>

\* The Notified future is enabled before the count is looked at.
Arm(c) ==
  /\ Goto(c, "arm", "check")
  /\ armed' = armed \cup {c}
  /\ UNCHANGED <<gate, loop>>

\* Faulty variant: an off-by-one in the room test.
HasRoomOffByOne == inFlight <= limit

HasRoom == inFlight < limit

\* Returning drops the Notified future.
TakePermit(c) ==
  /\ Goto(c, "check", "exec")
  /\ HasRoom
  /\ inFlight' = inFlight + 1
  /\ armed' = armed \ {c}
  /\ UNCHANGED <<limit, successes, loop>>

Park(c) ==
  /\ Goto(c, "check", "await")
  /\ ~HasRoom
  /\ UNCHANGED <<gate, armed, loop>>

Wake(c) ==
  /\ c \notin armed
  /\ Goto(c, "await", "arm")
  /\ UNCHANGED <<gate, armed, loop>>

NotifyWaiters == armed' = {}

-----------------------------------------------------------------------------
(* outcomes of one attempt                                                 *)

GrowthDue == successes + 1 >= limit /\ limit < top

\* on_success, then the reply is returned.
Succeed(c) ==
  /\ after' = [after EXCEPT ![c] = "idle"]
  /\ IF GrowthDue
       THEN /\ Goto(c, "exec", "grown")
            /\ limit' = limit + 1
            /\ successes' = 0
       ELSE /\ Goto(c, "exec", "settled")
            /\ successes' = successes + 1
            /\ UNCHANGED limit
  /\ UNCHANGED <<inFlight, armed, attempt, calls>>

NotifyGrowth(c) ==
  /\ Goto(c, "grown", "settled")
  /\ NotifyWaiters
  /\ UNCHANGED <<gate, loop>>

\* Faulty: the reset of the progress is forgotten.
OnRateLimitedNoReset ==
  limit' = Larger(limit \div 2, floor) /\ UNCHANGED successes

OnRateLimited ==
  /\ limit' = Larger(limit \div 2, floor)
  /\ successes' = 0

\* A retryable error sleeps and tries again while attempts remain.
RetryOrGiveUp(c) ==
  after' = [after EXCEPT ![c] =
              IF attempt[c] + 1 < MaxAttempts THEN "backoff" ELSE "idle"]

FailRateLimited(c) ==
  /\ Goto(c, "exec", "settled")
  /\ OnRateLimited
  /\ RetryOrGiveUp(c)
  /\ UNCHANGED <<inFlight, armed, attempt, calls>>

FailTransient(c) ==
  /\ Goto(c, "exec", "settled")
  /\ RetryOrGiveUp(c)
  /\ UNCHANGED <<gate, armed, attempt, calls>>

FailFatal(c) ==
  /\ Goto(c, "exec", "settled")
  /\ after' = [after EXCEPT ![c] = "idle"]
  /\ UNCHANGED <<gate, armed, attempt, calls>>

-----------------------------------------------------------------------------
(* release, backoff, cancellation                                          *)

DropPermit(c) ==
  /\ Goto(c, "settled", "released")
  /\ inFlight' = IF inFlight = 0 THEN 0 ELSE inFlight - 1
  /\ UNCHANGED <<limit, successes, armed, loop>>

\* Faulty variant: the freed permit is announced to nobody.
NotifyReleaseForgotten(c) ==
  Goto(c, "released", after[c]) /\ UNCHANGED <<gate, armed, loop>>

NotifyRelease(c) ==
  /\ Goto(c, "released", after[c])
  /\ NotifyWaiters
  /\ UNCHANGED <<gate, loop>>

Retry(c) ==
  /\ Goto(c, "backoff", "arm")
  /\ attempt' = [attempt EXCEPT ![c] = @ + 1]
  /\ UNCHANGED <<gate, armed, after, calls>>

\* The call's future is dropped at an await: a parked caller takes its
\* Notified with it, one holding a permit drops it.
CancelWaiting(c) ==
  /\ \/ Goto(c, "await", "idle")
     \/ Goto(c, "backoff", "idle")
  /\ armed' = armed \ {c}
  /\ UNCHANGED <<gate, loop>>

\* Faulty variant: the permit of a dropped future is leaked.
CancelRunningLeaks(c) ==
  Goto(c, "exec", "idle") /\ UNCHANGED <<gate, armed, loop>>

CancelRunning(c) ==
  /\ Goto(c, "exec", "settled")
  /\ after' = [after EXCEPT ![c] = "idle"]
  /\ UNCHANGED <<gate, armed, attempt, calls>>

-----------------------------------------------------------------------------
Acquire(c) == Arm(c) \/ TakePermit(c) \/ Park(c) \/ Wake(c)

Exit(c) == Succeed(c) \/ FailRateLimited(c) \/ FailTransient(c) \/ FailFatal(c)

Release(c) == NotifyGrowth(c) \/ DropPermit(c) \/ NotifyRelease(c)

Cancel(c) == CancelWaiting(c) \/ CancelRunning(c)

Next ==
  \E c \in Caller :
    Call(c) \/ Acquire(c) \/ Exit(c) \/ Release(c) \/ Retry(c) \/ Cancel(c)

Spec == Init /\ [][Next]_vars

\* Every caller that can move does: tokio polls a woken task again, the sleep
\* ends, and the subprocess exits (assumed: exec_once sets it no time limit).
\* Nobody has to call, or to cancel.
FairSpec ==
  /\ Spec
  /\ \A c \in Caller :
       /\ WF_vars(Acquire(c))
       /\ WF_vars(Exit(c))
       /\ WF_vars(Release(c))
       /\ WF_vars(Retry(c))

-----------------------------------------------------------------------------
(* Properties                                                              *)

\* Every variable has its type.
TypeOK ==
  /\ limit \in Nat /\ inFlight \in Nat /\ successes \in Nat
  /\ armed \subseteq Caller
  /\ pc \in [Caller -> Location]
  /\ attempt \in [Caller -> 0 .. MaxAttempts - 1]
  /\ after \in [Caller -> {"idle", "backoff"}]
  /\ calls \in [Caller -> Nat]

\* A caller on its way to a retry has one left.  With TypeOK this is inductive:
\* no call runs the subprocess more than MAX_ATTEMPTS times.
Retrying(c) ==
  \/ pc[c] = "backoff"
  \/ pc[c] \in {"grown", "settled", "released"} /\ after[c] = "backoff"
RetryLeft == \A c \in Caller : Retrying(c) => attempt[c] + 1 < MaxAttempts

\* The counter in_flight is the number of live Permit guards: no path through
\* complete (success, retry, giving up, a dropped future) keeps a permit or
\* gives one back twice, and saturating_sub never hides a double release.
PermitsCounted == inFlight = Cardinality(Holders)

\* The ceiling stays within [min, max] through every halving and growth, and
\* whatever it was when they entered, no more than max callers run at once.
CeilingInRange ==
  /\ limit \in floor .. top
  /\ inFlight <= top

\* Clean calls are not banked: below max, fewer than `limit` of them are on the
\* books, so a 429 really costs the progress made at the higher ceiling and
\* growth resumes one step per `limit` clean calls (on_success).
NoBankedGrowth == limit < top => successes < limit

\* The ceiling moves as promised: within its range, up only for as many clean
\* calls at the present ceiling as it has permits.
CeilingIsEarned == CeilingInRange /\ NoBankedGrowth

\* acquire's claim that a wakeup is never lost: while a parked caller waits to be
\* notified and a permit is free, some thread is about to notify.
Parked == {c \in Caller : pc[c] = "await" /\ c \in armed}
NoLostWakeup ==
  Parked # {} /\ HasRoom =>
    \E d \in Caller : pc[d] \in {"grown", "released"}

\* The limiter implements the abstract gate: a grant is only ever made below
\* the ceiling, and the ceiling moves by one up or by half down.
Gate == INSTANCE AdaptiveGate WITH ceiling <- limit, holders <- Holders
ImplementsGate == Gate!Spec

\* Every call to complete returns: it is not starved of a permit forever, nor
\* left parked after the last release, nor retried without end.
EveryCallReturns == \A c \in Caller : pc[c] # "idle" ~> pc[c] = "idle"
=============================================================================
