----------------------- MODULE AdaptiveLimiterProofs -----------------------
(***************************************************************************)
(* Proofs about AdaptiveLimiter, for every number of callers and every     *)
(* argument of AdaptiveLimiter::new.                                       *)
(***************************************************************************)
EXTENDS AdaptiveLimiter, FiniteSetTheorems, TLAPS

\* The clamping of AdaptiveLimiter::new: 1 <= floor <= start <= top.
LEMMA Clamped ==
  /\ floor \in Nat /\ top \in Nat /\ start \in Nat
  /\ 1 <= floor /\ floor <= start /\ start <= top
BY LimiterAssumption DEF floor, top, start, Larger, Smaller

\* What one step does to the holders of permits: only TakePermit adds to them
\* and only DropPermit takes from them.
LEMMA HoldersStep ==
  ASSUME TypeOK, NEW c \in Caller
  PROVE  /\ TakePermit(c) => c \notin Holders /\ Holders' = Holders \cup {c}
         /\ DropPermit(c) => c \in Holders /\ Holders' = Holders \ {c}
         /\ Call(c) \/ Arm(c) \/ Park(c) \/ Wake(c) \/ Exit(c) \/ NotifyGrowth(c)
              \/ NotifyRelease(c) \/ Retry(c) \/ Cancel(c) => Holders' = Holders
<1> USE DEF TypeOK, Holders, Goto
<1>1. TakePermit(c) => c \notin Holders /\ Holders' = Holders \cup {c}
  BY DEF TakePermit
<1>2. DropPermit(c) => c \in Holders /\ Holders' = Holders \ {c}
  BY DEF DropPermit
<1>3. Call(c) \/ Arm(c) \/ Park(c) \/ Wake(c) => Holders' = Holders
  BY DEF Call, Arm, Park, Wake
<1>4. Exit(c) => Holders' = Holders
  BY DEF Exit, Succeed, FailRateLimited, FailTransient, FailFatal
<1>5. NotifyGrowth(c) \/ NotifyRelease(c) \/ Retry(c) => Holders' = Holders
  BY DEF NotifyGrowth, NotifyRelease, Retry
<1>6. Cancel(c) => Holders' = Holders
  BY DEF Cancel, CancelWaiting, CancelRunning
<1> QED
  BY <1>1, <1>2, <1>3, <1>4, <1>5, <1>6

LEMMA HoldersFinite == IsFiniteSet(Holders) /\ Cardinality(Holders) \in Nat
BY LimiterAssumption, FS_Subset, FS_CardinalityType DEF Holders

-----------------------------------------------------------------------------
(* Type correctness                                                        *)

LEMMA TypeInit == Init => TypeOK /\ RetryLeft
BY Clamped, LimiterAssumption DEF Init, TypeOK, RetryLeft, Retrying, Location

LEMMA TypeStep == TypeOK /\ RetryLeft /\ [Next]_vars => TypeOK' /\ RetryLeft'
<1> SUFFICES ASSUME TypeOK, RetryLeft, [Next]_vars PROVE TypeOK' /\ RetryLeft'
  OBVIOUS
<1> USE LimiterAssumption, Clamped
    DEF TypeOK, RetryLeft, Retrying, Location, Goto, gate, loop, NotifyWaiters
<1>1. CASE UNCHANGED vars
  BY <1>1 DEF vars
<1>2. ASSUME NEW c \in Caller, Call(c) PROVE TypeOK' /\ RetryLeft'
  BY <1>2 DEF Call
<1>3. ASSUME NEW c \in Caller, Acquire(c) PROVE TypeOK' /\ RetryLeft'
  BY <1>3 DEF Acquire, Arm, TakePermit, Park, Wake
<1>4. ASSUME NEW c \in Caller, Exit(c) PROVE TypeOK' /\ RetryLeft'
  <2>1. CASE Succeed(c)
    BY <2>1 DEF Succeed
  <2>2. CASE FailRateLimited(c)
    <3>1. Larger(limit \div 2, floor) \in Nat
      BY DEF Larger
    <3>2. QED
      BY <2>2, <3>1 DEF FailRateLimited, OnRateLimited, RetryOrGiveUp
  <2>3. CASE FailTransient(c)
    BY <2>3 DEF FailTransient, RetryOrGiveUp
  <2>4. CASE FailFatal(c)
    BY <2>4 DEF FailFatal
  <2>5. QED
    BY <1>4, <2>1, <2>2, <2>3, <2>4 DEF Exit
<1>5. ASSUME NEW c \in Caller, Release(c) PROVE TypeOK' /\ RetryLeft'
  BY <1>5 DEF Release, NotifyGrowth, DropPermit, NotifyRelease
<1>6. ASSUME NEW c \in Caller, Retry(c) PROVE TypeOK' /\ RetryLeft'
  <2>1. attempt[c] + 1 \in 0 .. MaxAttempts - 1
    BY <1>6 DEF Retry
  <2>2. TypeOK'
    BY <1>6, <2>1 DEF Retry
  <2>3. RetryLeft'
    BY <1>6 DEF Retry
  <2> QED
    BY <2>2, <2>3
<1>7. ASSUME NEW c \in Caller, Cancel(c) PROVE TypeOK' /\ RetryLeft'
  BY <1>7 DEF Cancel, CancelWaiting, CancelRunning
<1>8. QED
  BY <1>1, <1>2, <1>3, <1>4, <1>5, <1>6, <1>7 DEF Next

LEMMA TypeInvariant == Spec => [](TypeOK /\ RetryLeft)
<1>1. Init => TypeOK /\ RetryLeft
  BY TypeInit
<1>2. TypeOK /\ RetryLeft /\ [Next]_vars => (TypeOK /\ RetryLeft)'
  BY TypeStep
<1> QED
  BY <1>1, <1>2, PTL DEF Spec

\* Every variable keeps its type, the attempt counter below MAX_ATTEMPTS
\* included.
THEOREM TypeCorrect == Spec => []TypeOK
BY TypeInvariant, PTL

\* A call that is going to retry has an attempt left: complete never sleeps for
\* an attempt it may not make.
THEOREM RetriesAreLeft == Spec => []RetryLeft
BY TypeInvariant, PTL

-----------------------------------------------------------------------------
(* Permits and the ceiling                                                 *)

\* The halved ceiling is neither above the old one nor below the floor.
LEMMA HalvedInRange ==
  ASSUME TypeOK, limit \in floor .. top
  PROVE  /\ Larger(limit \div 2, floor) \in floor .. top
         /\ Larger(limit \div 2, floor) <= limit
         /\ Larger(limit \div 2, floor) >= 1
<1>1. limit \div 2 \in Nat /\ limit \div 2 <= limit
  BY DEF TypeOK
<1> QED
  BY <1>1, Clamped DEF Larger, TypeOK

\* The inductive invariant: the permits are counted, the ceiling is in range,
\* progress is not banked and no wakeup is lost.
IInv ==
  /\ TypeOK
  /\ PermitsCounted
  /\ CeilingInRange
  /\ NoBankedGrowth
  /\ NoLostWakeup

LEMMA InvInit == Init => IInv
<1> SUFFICES ASSUME Init PROVE IInv
  OBVIOUS
<1>1. Holders = {} /\ Cardinality(Holders) = 0
  BY FS_EmptySet DEF Init, Holders
<1> QED
  BY <1>1, TypeInit, Clamped
  DEF Init, IInv, PermitsCounted, CeilingInRange, NoBankedGrowth, NoLostWakeup, Parked

LEMMA CountedStep == IInv /\ Next => PermitsCounted'
<1> SUFFICES ASSUME IInv, NEW c \in Caller,
                    Call(c) \/ Acquire(c) \/ Exit(c) \/ Release(c) \/ Retry(c) \/ Cancel(c)
             PROVE  PermitsCounted'
  BY DEF Next
<1> USE DEF IInv, PermitsCounted, TypeOK
<1>1. CASE TakePermit(c)
  BY <1>1, HoldersStep, HoldersFinite, FS_AddElement DEF TakePermit
<1>2. CASE DropPermit(c)
  <2>1. Cardinality(Holders \ {c}) = Cardinality(Holders) - 1
    BY <1>2, HoldersStep, HoldersFinite, FS_RemoveElement
  <2>2. inFlight # 0
    BY <1>2, HoldersStep, HoldersFinite, FS_EmptySet
  <2> QED
    BY <1>2, <2>1, <2>2, HoldersStep DEF DropPermit
<1>3. CASE ~TakePermit(c) /\ ~DropPermit(c)
  <2>1. Holders' = Holders
    BY <1>3, HoldersStep DEF Acquire, Release
  <2>2. inFlight' = inFlight
    BY <1>3 DEF gate, Call, Acquire, Arm, Park, Wake, Exit, Succeed, FailRateLimited,
      FailTransient, FailFatal, Release, NotifyGrowth, NotifyRelease, Retry, Cancel,
      CancelWaiting, CancelRunning
  <2> QED
    BY <2>1, <2>2
<1> QED
  BY <1>1, <1>2, <1>3

LEMMA CeilingStep == IInv /\ Next => CeilingInRange' /\ NoBankedGrowth'
<1> SUFFICES ASSUME IInv, NEW c \in Caller,
                    Call(c) \/ Acquire(c) \/ Exit(c) \/ Release(c) \/ Retry(c) \/ Cancel(c)
             PROVE  CeilingInRange' /\ NoBankedGrowth'
  BY DEF Next
<1> USE Clamped DEF IInv, CeilingInRange, NoBankedGrowth, TypeOK, gate
<1>1. CASE TakePermit(c)
  BY <1>1 DEF TakePermit, HasRoom
<1>2. CASE DropPermit(c)
  BY <1>2 DEF DropPermit
<1>3. CASE Succeed(c)
  BY <1>3 DEF Succeed, GrowthDue
<1>4. CASE FailRateLimited(c)
  BY <1>4, HalvedInRange DEF FailRateLimited, OnRateLimited
<1>5. CASE UNCHANGED gate
  BY <1>5
<1> QED
  BY <1>1, <1>2, <1>3, <1>4, <1>5
  DEF Call, Acquire, Arm, Park, Wake, Exit, FailTransient, FailFatal, Release,
    NotifyGrowth, NotifyRelease, Retry, Cancel, CancelWaiting, CancelRunning

LEMMA WakeupStep == IInv /\ Next => NoLostWakeup'
<1> SUFFICES ASSUME IInv, NEW c \in Caller,
                    Call(c) \/ Acquire(c) \/ Exit(c) \/ Release(c) \/ Retry(c) \/ Cancel(c),
                    Parked' # {}, HasRoom'
             PROVE  \E d \in Caller : pc'[d] \in {"grown", "released"}
  BY DEF Next, NoLostWakeup
<1> USE DEF IInv, TypeOK, Goto, Parked
<1>1. CASE DropPermit(c)
  BY <1>1 DEF DropPermit
<1>2. CASE Succeed(c) /\ GrowthDue
  BY <1>2 DEF Succeed
<1>3. CASE NotifyGrowth(c) \/ NotifyRelease(c)
  BY <1>3 DEF NotifyGrowth, NotifyRelease, NotifyWaiters
<1>4. CASE Park(c)
  BY <1>4 DEF Park, HasRoom, gate
<1>5. CASE \/ Call(c) \/ Arm(c) \/ TakePermit(c) \/ Wake(c) \/ Retry(c) \/ Cancel(c)
           \/ Exit(c) /\ ~(Succeed(c) /\ GrowthDue)
  <2>1. HasRoom
    <3>1. CASE FailRateLimited(c)
      BY <3>1, HalvedInRange
      DEF FailRateLimited, OnRateLimited, HasRoom, CeilingInRange
    <3>2. CASE ~FailRateLimited(c)
      BY <1>5, <3>2
      DEF HasRoom, gate, Call, Arm, TakePermit, Wake, Retry, Cancel, CancelWaiting,
        CancelRunning, Exit, Succeed, FailTransient, FailFatal
    <3> QED
      BY <3>1, <3>2
  <2>2. Parked' \subseteq Parked
    BY <1>5
    DEF Call, Arm, TakePermit, Wake, Retry, Cancel, CancelWaiting, CancelRunning,
      Exit, Succeed, FailRateLimited, FailTransient, FailFatal
  <2>3. PICK d \in Caller : pc[d] \in {"grown", "released"}
    BY <2>1, <2>2 DEF NoLostWakeup
  <2>4. pc'[d] = pc[d]
    BY <1>5, <2>3
    DEF Call, Arm, TakePermit, Wake, Retry, Cancel, CancelWaiting, CancelRunning,
      Exit, Succeed, FailRateLimited, FailTransient, FailFatal
  <2> QED
    BY <2>3, <2>4
<1> QED
  BY <1>1, <1>2, <1>3, <1>4, <1>5 DEF Acquire, Release

LEMMA InvStep == IInv /\ RetryLeft /\ [Next]_vars => IInv'
<1> SUFFICES ASSUME IInv, RetryLeft, [Next]_vars PROVE IInv'
  OBVIOUS
<1>1. TypeOK'
  BY TypeStep DEF IInv
<1>2. CASE Next
  BY <1>1, <1>2, CountedStep, CeilingStep, WakeupStep DEF IInv
<1>3. CASE UNCHANGED vars
  BY <1>1, <1>3
  DEF IInv, vars, PermitsCounted, Holders, CeilingInRange, NoBankedGrowth,
    NoLostWakeup, Parked, HasRoom
<1> QED
  BY <1>2, <1>3

LEMMA Invariant == Spec => []IInv
<1>1. Init => IInv /\ RetryLeft
  BY InvInit, TypeInit
<1>2. IInv /\ RetryLeft /\ [Next]_vars => (IInv /\ RetryLeft)'
  BY InvStep, TypeStep DEF IInv
<1> QED
  BY <1>1, <1>2, PTL DEF Spec

\* in_flight is the number of permits out, in every reachable state.
THEOREM PermitsAreCounted == Spec => []PermitsCounted
BY Invariant, PTL DEF IInv

\* The ceiling never leaves [min, max], at most max callers run at once, and
\* growth never starts from clean calls banked before a 429.
THEOREM CeilingIsRespected == Spec => []CeilingIsEarned
BY Invariant, PTL DEF IInv, CeilingIsEarned

\* A parked caller and a free permit never coexist without a notifier.
THEOREM NoWakeupIsLost == Spec => []NoLostWakeup
BY Invariant, PTL DEF IInv

-----------------------------------------------------------------------------
(* Refinement of the abstract gate                                         *)

LEMMA GateInit == Init => Gate!Init
<1> SUFFICES ASSUME Init PROVE Gate!Init
  OBVIOUS
<1>1. Holders = {}
  BY DEF Init, Holders
<1> QED
  BY <1>1, Clamped DEF Init, Gate!Init

LEMMA GateStep == IInv /\ [Next]_vars => [Gate!Next]_(Gate!vars)
<1> SUFFICES ASSUME IInv, [Next]_vars PROVE [Gate!Next]_(Gate!vars)
  OBVIOUS
<1> USE DEF IInv, Gate!vars, gate
<1>1. CASE UNCHANGED vars
  BY <1>1 DEF vars, Holders
<1>2. ASSUME NEW c \in Caller, TakePermit(c) PROVE Gate!Grant(c)
  <2>1. Gate!Cardinality(Holders) = Cardinality(Holders)
    BY DEF Gate!Cardinality, Cardinality, Gate!IsFiniteSet, IsFiniteSet
  <2> QED
    BY <1>2, <2>1, HoldersStep DEF TakePermit, HasRoom, PermitsCounted, Gate!Grant
<1>3. ASSUME NEW c \in Caller, DropPermit(c) PROVE Gate!GiveBack(c)
  BY <1>3, HoldersStep DEF DropPermit, Gate!GiveBack
<1>4. ASSUME NEW c \in Caller, Succeed(c) PROVE Gate!Raise \/ UNCHANGED Gate!vars
  <2>1. Holders' = Holders
    BY <1>4, HoldersStep DEF Exit
  <2> QED
    BY <1>4, <2>1 DEF Succeed, GrowthDue, Gate!Raise
<1>5. ASSUME NEW c \in Caller, FailRateLimited(c) PROVE Gate!Halve
  <2>1. Holders' = Holders
    BY <1>5, HoldersStep DEF Exit
  <2> QED
    BY <1>5, <2>1 DEF FailRateLimited, OnRateLimited, Larger, Gate!Halve
<1>6. ASSUME NEW c \in Caller,
             \/ Call(c) \/ Arm(c) \/ Park(c) \/ Wake(c) \/ NotifyGrowth(c)
             \/ NotifyRelease(c) \/ Retry(c) \/ Cancel(c)
             \/ FailTransient(c) \/ FailFatal(c)
      PROVE  UNCHANGED Gate!vars
  <2>1. Holders' = Holders
    BY <1>6, HoldersStep DEF Exit
  <2> QED
    BY <1>6, <2>1
    DEF Call, Arm, Park, Wake, NotifyGrowth, NotifyRelease, Retry, Cancel,
      CancelWaiting, CancelRunning, FailTransient, FailFatal
<1> QED
  BY <1>1, <1>2, <1>3, <1>4, <1>5, <1>6
  DEF Next, Acquire, Exit, Release, Gate!Next

\* Every behaviour of the limiter is one of the abstract gate.
THEOREM LimiterImplementsGate == Spec => ImplementsGate
<1>1. Init => Gate!Init
  BY GateInit
<1>2. IInv /\ [Next]_vars => [Gate!Next]_(Gate!vars)
  BY GateStep
<1> QED
  BY <1>1, <1>2, Invariant, PTL DEF Spec, ImplementsGate, Gate!Spec
=============================================================================
