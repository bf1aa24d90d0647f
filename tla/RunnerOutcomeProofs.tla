------------------------- MODULE RunnerOutcomeProofs ------------------------
(***************************************************************************)
(* What the events of a run tell, for every set of accepted workflows.     *)
(*                                                                         *)
(* Its end: what each step says of the node it is at, and from it that the *)
(* terminal event, the status and the stop reason agree with what the      *)
(* nodes did.                                                              *)
(*                                                                         *)
(* The lanes on which nodes run: what of its path and iteration a future   *)
(* has used up, and what is still ahead of it.  From it follows that no    *)
(* node runs twice on one lane, so that path and iteration name an         *)
(* execution, in a topology whose loops do not nest and whose siblings     *)
(* have different names.  Then the slots of the run's ledger that for_each *)
(* binds its items in: the nested loops pass them down and hand them back. *)
(*                                                                         *)
(* The maps: what each item has announced on its lane when its map joins   *)
(* it, so that MapCompleted counts what was announced; and what was        *)
(* recorded there, so that a map of calls collects the answers in order.   *)
(***************************************************************************)
EXTENDS RunnerProofs

-----------------------------------------------------------------------------
(* The kinds of what a step says                                           *)

News == {e.kind : e \in events' \ events}

LEMMA NewsOfNone == ASSUME UNCHANGED clock PROVE News = {}
BY DEF clock, News

LEMMA FreshEvent ==
  ASSUME Clock, NEW lane, NEW n \in Nat, n >= NextSeq(lane), NEW x
  PROVE  Event(lane, n, x) \notin events /\ Event(lane, n, x).kind = x.kind
<1> DEFINE ev == Event(lane, n, x)
<1>1. ev.lane = lane /\ ev.seq = n /\ ev.kind = x.kind
  BY DEF Event
<1>2. NextSeq(lane) \in Nat
  BY NextSeqNat
<1> HIDE DEF ev
<1>3. ev \notin events
  BY <1>1, <1>2 DEF Clock
<1> QED
  BY <1>1, <1>3 DEF ev

LEMMA NewsOfOne ==
  ASSUME Clock, NEW lane, NEW x, Emit(lane, <<x>>) PROVE News = {x.kind}
<1> DEFINE n == NextSeq(lane)
           ev == Event(lane, n, x)
<1>1. n \in Nat /\ events' = events \cup {ev}
  BY EmitOne, NextSeqNat
<1>2. ev \notin events /\ ev.kind = x.kind
  BY <1>1, FreshEvent
<1> HIDE DEF ev, n
<1>3. events' \ events = {ev}
  BY <1>1, <1>2
<1> QED
  BY <1>2, <1>3 DEF News

LEMMA NewsOfTwo ==
  ASSUME Clock, NEW lane, NEW x, NEW y, Emit(lane, <<x>> \o <<y>>)
  PROVE  News = {x.kind, y.kind}
<1> DEFINE n == NextSeq(lane)
           a == Event(lane, n, x)
           b == Event(lane, n + 1, y)
<1>1. n \in Nat /\ events' = events \cup {a, b}
  BY EmitTwo, NextSeqNat
<1>2. n + 1 \in Nat /\ n + 1 >= n /\ n >= n
  BY <1>1
<1>3. a \notin events /\ a.kind = x.kind
  BY <1>1, <1>2, FreshEvent
<1>4. b \notin events /\ b.kind = y.kind
  BY <1>1, <1>2, FreshEvent
<1> HIDE DEF a, b, n
<1>5. events' \ events = {a, b}
  BY <1>1, <1>3, <1>4
<1> QED
  BY <1>3, <1>4, <1>5 DEF News

-----------------------------------------------------------------------------
(* What each step says of the node it is at                                *)

\* A message is never null, whether the runner, the host or a program makes it.
ErrorsSpeak ==
  /\ Null \notin {DriveErr, LedgerErr, GateErr, UnknownNode}
  /\ \A op, v : ~RunProgram(op, v).ok => RunProgram(op, v).v # Null

\* So the failures that have been returned speak too.
FailuresSpeak == \A q \in DOMAIN fr : IsDone(q) /\ ~fr[q].ret.ok => fr[q].ret.v # Null

Noded(p) == fr[p].kind \notin {"item", "session"}

\* A node says that it started in its first step, and that it completed in the
\* step that makes it done with a value; it says no more once it is done.
Outcome(p) ==
  /\ p \in DOMAIN fr' /\ fr[p].st # "done" /\ fr'[p].st # "new"
  /\ "NodeStarted" \in News <=> fr[p].st = "new" /\ Noded(p)
  /\ "NodeCompleted" \in News <=> fr'[p].st = "done" /\ fr'[p].ret.ok /\ Noded(p)
  /\ ErrorsSpeak /\ FailuresSpeak => (fr'[p].st = "done" /\ ~fr'[p].ret.ok => fr'[p].ret.v # Null)

LEMMA DoneFrame ==
  ASSUME IInv, Tree, NEW p \in DOMAIN fr, NEW r, NEW G, G = Done(fr, p, r)
  PROVE  p \in DOMAIN G /\ G[p].st = "done" /\ G[p].ret = r
<1>1. Finished(G, {}, p, r)
  BY DoneFinished
<1> QED
  BY <1>1 DEF Finished

LEMMA ReapedFrame ==
  ASSUME IInv, Tree, NEW p \in DOMAIN fr, NEW P, p \notin P, NEW r, NEW G,
         G = Done(Without(fr, P), p, r)
  PROVE  p \in DOMAIN G /\ G[p].st = "done" /\ G[p].ret = r
<1>1. Finished(G, P, p, r)
  BY DoneFinished
<1> QED
  BY <1>1 DEF Finished

LEMMA StartFailsOutcome ==
  ASSUME IInv, Tree, Clock, NEW p \in DOMAIN fr, fr[p].st = "new", Noded(p),
         NEW e, ErrorsSpeak => e # Null, StartFails(p, e)
  PROVE  Outcome(p)
<1>1. News = {"NodeStarted"}
  <2> DEFINE x == Ev("NodeStarted")
  <2>1. Emit(Lane(p), <<x>>) /\ x.kind = "NodeStarted"
    BY DEF StartFails, Start, Ev
  <2> HIDE DEF x
  <2> QED
    BY <2>1, NewsOfOne
<1>2. p \in DOMAIN fr' /\ fr'[p].st = "done" /\ fr'[p].ret = Err(e)
  BY DoneFrame DEF StartFails
<1> QED
  BY <1>1, <1>2 DEF Outcome, Err

LEMMA CompleteOutcome ==
  ASSUME IInv, Tree, Clock, NEW p \in DOMAIN fr, fr[p].st # "done", Noded(p),
         NEW v, NEW es, Complete(p, es, v),
         \/ es = <<>> /\ fr[p].st # "new"
         \/ \E x : /\ es = <<x>> /\ x.kind # "NodeCompleted"
                   /\ x.kind = "NodeStarted" <=> fr[p].st = "new"
  PROVE  Outcome(p)
<1> DEFINE y == Ev("NodeCompleted")
<1>1. y.kind = "NodeCompleted" /\ Emit(Lane(p), es \o <<y>>)
  BY DEF Ev, Complete
<1> HIDE DEF y
<1>2. /\ "NodeStarted" \in News <=> fr[p].st = "new"
      /\ "NodeCompleted" \in News
  <2>1. CASE es = <<>> /\ fr[p].st # "new"
    <3>1. <<>> \o <<y>> = <<y>>
      OBVIOUS
    <3>2. News = {y.kind}
      BY <1>1, <2>1, <3>1, NewsOfOne
    <3> QED
      BY <1>1, <2>1, <3>2
  <2>2. ASSUME NEW x, es = <<x>>, x.kind # "NodeCompleted",
               x.kind = "NodeStarted" <=> fr[p].st = "new"
        PROVE  /\ "NodeStarted" \in News <=> fr[p].st = "new"
               /\ "NodeCompleted" \in News
    <3>1. News = {x.kind, y.kind}
      BY <1>1, <2>2, NewsOfTwo
    <3> QED
      BY <1>1, <2>2, <3>1
  <2> QED
    BY <2>1, <2>2
<1>3. p \in DOMAIN fr' /\ fr'[p].st = "done" /\ fr'[p].ret = Ok(v)
  BY DoneFrame DEF Complete
<1> QED
  BY <1>2, <1>3 DEF Outcome, Ok

\* A step that does not end the node, or ends it in failure after its start.
LEMMA AwaitOutcome ==
  ASSUME NEW p \in DOMAIN fr, fr[p].st # "done", p \in DOMAIN fr',
         fr'[p].st # "new",
         "NodeStarted" \in News <=> fr[p].st = "new" /\ Noded(p),
         "NodeCompleted" \notin News,
         fr'[p].st = "done" =>
           ~fr'[p].ret.ok /\ (ErrorsSpeak /\ FailuresSpeak => fr'[p].ret.v # Null)
  PROVE  Outcome(p)
BY DEF Outcome

LEMMA CallOutcome ==
  ASSUME IInv, Tree, Clock, NEW p \in DOMAIN fr,
         \/ Program(p) \/ ProgramFails(p) \/ ActorStart(p) \/ ActorUnresolved(p)
         \/ (\E v : ActorReplies(p, v)) \/ ActorFails(p, DriveErr)
  PROVE  Outcome(p)
<1> USE DEF store, env
<1>0. \A e : ~Err(e).ok /\ Err(e).v = e
  BY DEF Err
<1>1. DOMAIN fr[p] = FrameFields /\ Noded(p)
  BY LiveFrame DEF Noded, At, Program, ProgramFails, ActorStart, ActorUnresolved, ActorReplies,
     ActorFails
<1>2. CASE Program(p)
  BY <1>1, <1>2, CompleteOutcome DEF Program, At, Ev
<1>3. CASE ProgramFails(p)
  <2>1. ErrorsSpeak => Computed(p).v # Null
    BY <1>3 DEF ProgramFails, Computed, ErrorsSpeak, Err
  <2> QED
    BY <1>1, <1>3, <2>1, StartFailsOutcome DEF ProgramFails, At
<1>4. CASE ActorUnresolved(p)
  BY <1>1, <1>4, StartFailsOutcome DEF ActorUnresolved, At, ErrorsSpeak
<1>5. CASE ActorStart(p)
  <2>1. News = {"NodeStarted"}
    BY <1>5, NewsOfOne DEF ActorStart, Start, Ev
  <2>2. p \in DOMAIN fr' /\ fr'[p].st = "driving"
    BY <1>1, <1>5 DEF ActorStart, FrameFields
  <2> QED
    BY <1>1, <1>5, <2>1, <2>2, AwaitOutcome DEF ActorStart, At
<1>6. ASSUME NEW v, ActorReplies(p, v) PROVE Outcome(p)
  <2>1. CASE Stores(Def(p), v)
    BY <1>1, <1>6, <2>1, CompleteOutcome DEF ActorReplies, At, EvPay
  <2>2. CASE ~Stores(Def(p), v)
    <3>1. News = {}
      <4>1. UNCHANGED clock
        BY <1>6, <2>2 DEF ActorReplies
      <4> QED
        BY <4>1, NewsOfNone
    <3>2. p \in DOMAIN fr' /\ fr'[p].st = "done" /\ fr'[p].ret = Err(LedgerErr)
      BY <1>6, <2>2, DoneFrame DEF ActorReplies
    <3> QED
      BY <1>0, <1>6, <3>1, <3>2, AwaitOutcome DEF ActorReplies, At, ErrorsSpeak
  <2> QED
    BY <2>1, <2>2
<1>7. CASE ActorFails(p, DriveErr)
  <2>1. News = {}
    <3>1. UNCHANGED clock
      BY <1>7 DEF ActorFails
    <3> QED
      BY <3>1, NewsOfNone
  <2>2. p \in DOMAIN fr' /\ fr'[p].st = "done" /\ fr'[p].ret = Err(DriveErr)
    BY <1>7, DoneFrame DEF ActorFails
  <2> QED
    BY <1>0, <1>7, <2>1, <2>2, AwaitOutcome DEF ActorFails, At, ErrorsSpeak
<1> QED
  BY <1>2, <1>3, <1>4, <1>5, <1>6, <1>7

\* What a finished body hands on when it has failed.
LEMMA BodyFailure ==
  ASSUME IInv, Tree, NEW p \in DOMAIN fr, fr[p].st = "body", BodyFails(p)
  PROVE  /\ p \in DOMAIN fr' /\ fr'[p].st = "done"
         /\ ~fr'[p].ret.ok /\ (FailuresSpeak => fr'[p].ret.v # Null)
<1>1. Body(p) # p /\ Body(p) \in DOMAIN fr
  BY BodyOwnsNothing DEF BodyFails
<1>2. ~fr[Body(p)].ret.ok /\ (FailuresSpeak => fr[Body(p)].ret.v # Null)
  BY <1>1 DEF BodyFails, FailuresSpeak
<1>3. p \in DOMAIN fr' /\ fr'[p].st = "done" /\ fr'[p].ret = fr[Body(p)].ret
  BY <1>1, ReapedFrame DEF BodyFails
<1> QED
  BY <1>2, <1>3

LEMMA LoopOnFrame ==
  ASSUME IInv, Tree, NEW p \in DOMAIN fr, fr[p].st = "body", LoopOn(p)
  PROVE  p \in DOMAIN fr' /\ fr'[p].st = "loop"
<1> DEFINE W == Without(fr, {Body(p)})
           r == fr[Body(p)].ret
<1>1. Body(p) # p /\ DOMAIN fr[p] = FrameFields
  BY BodyOwnsNothing, LiveFrame DEF LoopOn
<1>2. p \in DOMAIN W /\ W[p] = fr[p]
  BY <1>1 DEF Without
<1>3. fr' = [W EXCEPT ![p].st = "loop", ![p].ret = r]
  BY DEF LoopOn
<1> HIDE DEF W, r
<1> QED
  BY <1>1, <1>2, <1>3 DEF FrameFields

LEMMA MapOutcome ==
  ASSUME IInv, Tree, Clock, NEW p \in DOMAIN fr,
         MapStart(p) \/ Dispatch(p) \/ Collect(p) \/ MapEnd(p)
  PROVE  Outcome(p)
<1> USE DEF store, env
<1>1. DOMAIN fr[p] = FrameFields /\ Noded(p)
  BY LiveFrame DEF Noded, At, MapStart, Dispatch, Collect, MapEnd
<1>2. CASE MapStart(p)
  <2>1. CASE Prepared(p)
    <3>1. News = {"NodeStarted"}
      BY <1>2, <2>1, NewsOfOne DEF MapStart, Start, Ev
    <3>2. p \in DOMAIN fr' /\ fr'[p].st = "fan"
      BY <1>1, <1>2, <2>1 DEF MapStart, FrameFields
    <3> QED
      BY <1>1, <1>2, <3>1, <3>2, AwaitOutcome DEF MapStart, At
  <2>2. CASE ~Prepared(p)
    BY <1>1, <1>2, <2>2, StartFailsOutcome DEF MapStart, At, ErrorsSpeak
  <2> QED
    BY <2>1, <2>2
<1>3. CASE Dispatch(p) \/ Collect(p)
  <2>1. News = {} /\ fr[p].st = "fan"
    BY <1>3, NewsOfNone DEF Dispatch, Collect, At
  <2>2. p \in DOMAIN fr' /\ fr'[p].st = "fan"
    <3>1. CASE Dispatch(p)
      <4> DEFINE hi == Smaller(fr[p].k + Width(Def(p)), Len(fr[p].items))
                 A == [fr EXCEPT ![p].k = hi]
      <4>1. p \in DOMAIN A /\ A[p].st = "fan"
        BY <1>1, <2>1 DEF FrameFields
      <4>2. PICK H : fr' = Plus(A, H)
        BY <3>1 DEF Dispatch
      <4> HIDE DEF A
      <4> QED
        BY <4>1, <4>2 DEF Plus
    <3>2. CASE Collect(p)
      <4> DEFINE n == Len(fr[p].res)
                 m == fr[p].k - n
                 kids == {Kid(p, n + i) : i \in 1 .. m}
      <4>1. PICK R : fr' = [Without(fr, kids) EXCEPT ![p].res = R]
        BY <3>2 DEF Collect
      <4>2. p \notin kids
        BY <2>1, <3>2 DEF Collect, Joined, IsDone
      <4> HIDE DEF kids
      <4> DEFINE W == Without(fr, kids)
      <4>3. p \in DOMAIN W /\ W[p] = fr[p]
        BY <4>2 DEF Without
      <4> HIDE DEF W
      <4>4. p \in DOMAIN fr' /\ fr'[p].st = W[p].st
        BY <1>1, <4>1, <4>3 DEF W, FrameFields
      <4> QED
        BY <2>1, <4>3, <4>4
    <3> QED
      BY <1>3, <3>1, <3>2
  <2> QED
    BY <2>1, <2>2, AwaitOutcome
<1>4. CASE MapEnd(p)
  <2>1. CASE GatePassed(p)
    BY <1>1, <1>4, <2>1, CompleteOutcome DEF MapEnd, At, EvPay
  <2>2. CASE ~GatePassed(p)
    <3>1. News = {}
      BY <1>4, <2>2, NewsOfNone DEF MapEnd
    <3>2. p \in DOMAIN fr' /\ fr'[p].st = "done" /\ fr'[p].ret = Err(GateErr)
      BY <1>4, <2>2, DoneFrame DEF MapEnd
    <3> QED
      BY <1>4, <3>1, <3>2, AwaitOutcome DEF MapEnd, At, Err, ErrorsSpeak
  <2> QED
    BY <2>1, <2>2
<1> QED
  BY <1>2, <1>3, <1>4

LEMMA LoopOutcome ==
  ASSUME IInv, Tree, Clock, NEW p \in DOMAIN fr,
         \/ ForEachStart(p) \/ ForEachNext(p) \/ ForEachItemEnd(p) \/ ForEachEnd(p)
         \/ WhileStart(p) \/ WhilePass(p) \/ WhilePassEnd(p) \/ WhileEnd(p)
         \/ WhileUnresolved(p)
  PROVE  Outcome(p)
<1> USE DEF store, env
<1>0. \A e : ~Err(e).ok /\ Err(e).v = e
  BY DEF Err
<1>1. DOMAIN fr[p] = FrameFields /\ Noded(p)
  BY LiveFrame DEF Noded, At, ForEachStart, ForEachNext, ForEachItemEnd, ForEachEnd,
     WhileStart, WhilePass, WhilePassEnd, WhileEnd, WhileUnresolved
<1>2. ASSUME fr[p].st = "new", Start(p), fr'[p].st = "loop", p \in DOMAIN fr' PROVE Outcome(p)
  <2>1. News = {"NodeStarted"}
    BY <1>2, NewsOfOne DEF Start, Ev
  <2> QED
    BY <1>1, <1>2, <2>1, AwaitOutcome
<1>3. ASSUME fr[p].st = "loop", UNCHANGED clock, fr'[p].st = "body", p \in DOMAIN fr'
      PROVE  Outcome(p)
  <2>1. News = {}
    BY <1>3, NewsOfNone
  <2> QED
    BY <1>3, <2>1, AwaitOutcome
<1>4. ASSUME fr[p].st = "body", UNCHANGED clock, LoopOn(p) \/ BodyFails(p) PROVE Outcome(p)
  <2>1. News = {}
    BY <1>4, NewsOfNone
  <2> QED
    BY <1>4, <2>1, AwaitOutcome, BodyFailure, LoopOnFrame
<1>5. CASE ForEachStart(p)
  <2>1. CASE IsArray(Led(p), Def(p).src)
    <3>1. p \in DOMAIN fr' /\ fr'[p].st = "loop"
      BY <1>1, <1>5, <2>1 DEF ForEachStart, FrameFields
    <3> QED
      BY <1>2, <1>5, <2>1, <3>1 DEF ForEachStart, At
  <2>2. CASE ~IsArray(Led(p), Def(p).src)
    BY <1>1, <1>5, <2>2, StartFailsOutcome DEF ForEachStart, At, ErrorsSpeak
  <2> QED
    BY <2>1, <2>2
<1>6. CASE WhileStart(p)
  <2>1. p \in DOMAIN fr' /\ fr'[p].st = "loop"
    BY <1>1, <1>6 DEF WhileStart, FrameFields
  <2> QED
    BY <1>2, <1>6, <2>1 DEF WhileStart, At
<1>7. ASSUME ForEachNext(p) \/ WhilePass(p)
      PROVE  fr[p].st = "loop" /\ fr'[p].st = "body" /\ p \in DOMAIN fr' /\ UNCHANGED clock
  <2>1. \A id, path, iter, led :
          /\ p \in DOMAIN Enter(p, id, path, iter, led)
          /\ Enter(p, id, path, iter, led)[p].st = "body"
          /\ DOMAIN Enter(p, id, path, iter, led)[p] = FrameFields
    BY EnterFrames
  <2>2. CASE ForEachNext(p)
    <3>1. PICK path, iter, led, k, l :
            fr' = [Enter(p, Def(p).body, path, iter, led) EXCEPT ![p].k = k, ![p].saved = l]
      BY <2>2 DEF ForEachNext
    <3> QED
      BY <2>1, <2>2, <3>1 DEF ForEachNext, At, FrameFields
  <2>3. CASE WhilePass(p)
    <3>1. PICK path, iter, led, k :
            fr' = [Enter(p, Def(p).body, path, iter, led) EXCEPT ![p].k = k]
      BY <2>3 DEF WhilePass
    <3> QED
      BY <2>1, <2>3, <3>1 DEF WhilePass, At, FrameFields
  <2> QED
    BY <1>7, <2>2, <2>3
<1>8. CASE ForEachNext(p) \/ WhilePass(p)
  BY <1>3, <1>7, <1>8
<1>9. CASE ForEachItemEnd(p) \/ WhilePassEnd(p)
  BY <1>4, <1>9 DEF ForEachItemEnd, WhilePassEnd, At
<1>10. CASE ForEachEnd(p) \/ WhileEnd(p)
  BY <1>1, <1>10, CompleteOutcome DEF ForEachEnd, WhileEnd, At
<1>11. CASE WhileUnresolved(p)
  <2>1. UNCHANGED clock /\ fr' = Done(fr, p, Err(LedgerErr)) /\ fr[p].st = "loop"
    BY <1>11 DEF WhileUnresolved, At
  <2>2. News = {}
    BY <2>1, NewsOfNone
  <2>3. p \in DOMAIN fr' /\ fr'[p].st = "done" /\ fr'[p].ret = Err(LedgerErr)
    BY <2>1, DoneFrame
  <2> QED
    BY <1>0, <2>1, <2>2, <2>3, AwaitOutcome DEF ErrorsSpeak
<1> QED
  BY <1>5, <1>6, <1>8, <1>9, <1>10, <1>11

LEMMA BranchOutcome ==
  ASSUME IInv, Tree, Clock, NEW p \in DOMAIN fr,
         \/ BranchStart(p) \/ BranchUnresolved(p) \/ PassOn(p) \/ ResumeStart(p)
         \/ (\E v : ResumeLoaded(p, v)) \/ LoadFails(p, DriveErr)
  PROVE  Outcome(p)
<1> USE DEF store, env
<1>0. \A e : ~Err(e).ok /\ Err(e).v = e
  BY DEF Err
<1>1. DOMAIN fr[p] = FrameFields /\ Noded(p)
  BY LiveFrame DEF Noded, At, BranchStart, BranchUnresolved, PassOn, ResumeStart, ResumeLoaded,
     LoadFails
<1>2. \A id, path, iter, led :
        /\ p \in DOMAIN Enter(p, id, path, iter, led)
        /\ Enter(p, id, path, iter, led)[p].st = "body"
  BY EnterFrames
<1>3. CASE BranchStart(p)
  <2>1. CASE Target(p) = NoNode
    BY <1>1, <1>3, <2>1, CompleteOutcome DEF BranchStart, At, Ev
  <2>2. CASE Target(p) # NoNode
    <3>1. News = {"NodeStarted"}
      BY <1>3, <2>2, NewsOfOne DEF BranchStart, Start, Ev
    <3>2. p \in DOMAIN fr' /\ fr'[p].st = "body" /\ fr[p].st = "new"
      BY <1>2, <1>3, <2>2 DEF BranchStart, At
    <3> QED
      BY <1>1, <3>1, <3>2, AwaitOutcome
  <2> QED
    BY <2>1, <2>2
<1>4. CASE BranchUnresolved(p)
  BY <1>1, <1>4, StartFailsOutcome DEF BranchUnresolved, At, ErrorsSpeak
<1>5. CASE ResumeStart(p)
  <2>1. CASE Resolves(Led(p), Def(p).src)
    <3>1. News = {"NodeStarted"}
      BY <1>5, <2>1, NewsOfOne DEF ResumeStart, Start, Ev
    <3>2. p \in DOMAIN fr' /\ fr'[p].st = "loading" /\ fr[p].st = "new"
      BY <1>1, <1>5, <2>1 DEF ResumeStart, At, FrameFields
    <3> QED
      BY <1>1, <3>1, <3>2, AwaitOutcome
  <2>2. CASE ~Resolves(Led(p), Def(p).src)
    BY <1>1, <1>5, <2>2, StartFailsOutcome DEF ResumeStart, At, ErrorsSpeak
  <2> QED
    BY <2>1, <2>2
<1>6. ASSUME NEW v, ResumeLoaded(p, v) PROVE Outcome(p)
  <2>1. News = {"SessionResumed"}
    BY <1>6, NewsOfOne DEF ResumeLoaded, Ev
  <2>2. p \in DOMAIN fr' /\ fr'[p].st = "body" /\ fr[p].st = "loading"
    BY <1>2, <1>6 DEF ResumeLoaded, At
  <2> QED
    BY <2>1, <2>2, AwaitOutcome
<1>7. CASE LoadFails(p, DriveErr)
  <2>1. UNCHANGED clock /\ fr' = Done(fr, p, Err(DriveErr)) /\ fr[p].st = "loading"
    BY <1>7 DEF LoadFails, At
  <2>2. News = {}
    BY <2>1, NewsOfNone
  <2>3. p \in DOMAIN fr' /\ fr'[p].st = "done" /\ fr'[p].ret = Err(DriveErr)
    BY <2>1, DoneFrame
  <2> QED
    BY <1>0, <2>1, <2>2, <2>3, AwaitOutcome DEF ErrorsSpeak
<1>8. CASE PassOn(p)
  <2>1. fr[p].st = "body"
    BY <1>8 DEF PassOn, At
  <2>2. CASE BodyFails(p) /\ UNCHANGED clock
    <3>1. News = {}
      BY <2>2, NewsOfNone
    <3> QED
      BY <2>1, <2>2, <3>1, AwaitOutcome, BodyFailure
  <2>3. CASE ~(BodyFails(p) /\ UNCHANGED clock)
    <3>1. /\ IsDone(Body(p)) /\ fr[Body(p)].ret.ok
          /\ Emit(Lane(p), <<Ev("NodeCompleted")>>)
          /\ fr' = Done(Without(fr, {Body(p)}), p, fr[Body(p)].ret)
      BY <1>8, <2>3 DEF PassOn
    <3>2. News = {"NodeCompleted"}
      BY <3>1, NewsOfOne DEF Ev
    <3>3. Body(p) # p
      BY <2>1, <3>1, BodyOwnsNothing
    <3>4. p \in DOMAIN fr' /\ fr'[p].st = "done" /\ fr'[p].ret = fr[Body(p)].ret
      BY <3>1, <3>3, ReapedFrame
    <3> QED
      BY <1>1, <2>1, <3>1, <3>2, <3>4 DEF Outcome
  <2> QED
    BY <2>2, <2>3
<1> QED
  BY <1>3, <1>4, <1>5, <1>6, <1>7, <1>8

LEMMA GroupOutcome ==
  ASSUME IInv, Tree, Clock, NEW p \in DOMAIN fr,
         GroupStart(p) \/ GroupJoin(p)
  PROVE  Outcome(p)
<1> USE DEF store, env
<1>1. DOMAIN fr[p] = FrameFields /\ Noded(p)
  BY LiveFrame DEF Noded, At, GroupStart, GroupJoin
<1>2. CASE GroupStart(p)
  <2>1. CASE IsArray(Led(p), Def(p).src)
    <3>1. News = {"NodeStarted"} /\ fr[p].st = "new"
      BY <1>2, <2>1, NewsOfOne DEF GroupStart, Start, Ev, At
    <3> DEFINE A == [fr EXCEPT ![p].st = "join", ![p].items = Led(p)[Def(p).src]]
    <3>2. PICK H : fr' = Plus(A, H)
      BY <1>2, <2>1 DEF GroupStart
    <3>3. p \in DOMAIN A /\ A[p].st = "join"
      BY <1>1 DEF FrameFields
    <3> HIDE DEF A
    <3>4. p \in DOMAIN fr' /\ fr'[p].st = "join"
      BY <3>2, <3>3 DEF Plus
    <3> QED
      BY <1>1, <3>1, <3>4, AwaitOutcome
  <2>2. CASE ~IsArray(Led(p), Def(p).src)
    BY <1>1, <1>2, <2>2, StartFailsOutcome DEF GroupStart, At, ErrorsSpeak
  <2> QED
    BY <2>1, <2>2
<1>3. CASE GroupJoin(p)
  <2> DEFINE n == Len(fr[p].items)
             P == {Kid(p, i) : i \in 1 .. n}
             ret(i) == fr[Kid(p, i)].ret
             bad == {i \in 1 .. n : ~ret(i).ok}
             first == CHOOSE i \in bad : \A j \in bad : i <= j
             r == IF bad = {} THEN Ok([i \in 1 .. n |-> ret(i).v]) ELSE ret(first)
  <2>1. /\ fr[p].st = "join" /\ Joined(P) /\ fr' = Done(Without(fr, P), p, r)
        /\ IF bad = {} THEN Emit(Lane(p), <<Ev("NodeCompleted")>>) ELSE UNCHANGED clock
    BY <1>3 DEF GroupJoin, At
  <2>2. p \notin P
    BY <2>1 DEF Joined, IsDone
  <2>3. p \in DOMAIN fr' /\ fr'[p].st = "done" /\ fr'[p].ret = r
    <3> HIDE DEF r, P
    <3> QED
      BY <2>1, <2>2, ReapedFrame
  <2>4. CASE bad = {}
    <3>1. News = {"NodeCompleted"}
      BY <2>1, <2>4, NewsOfOne DEF Ev
    <3>2. r.ok
      BY <2>4 DEF Ok
    <3> HIDE DEF r, bad
    <3> QED
      BY <1>1, <2>1, <2>3, <3>1, <3>2 DEF Outcome
  <2>5. CASE bad # {}
    <3>1. News = {}
      BY <2>1, <2>5, NewsOfNone
    <3>2. bad \in SUBSET Nat
      OBVIOUS
    <3>3. \A i \in bad : Kid(p, i) \in P /\ ~ret(i).ok
      OBVIOUS
    <3>4. r = ret(first)
      BY <2>5
    <3> HIDE DEF r, bad
    <3>5. first \in bad
      BY <2>5, <3>2, LeastNat
    <3> DEFINE q == Kid(p, first)
    <3>6. q \in P /\ ~fr[q].ret.ok /\ r = fr[q].ret
      BY <3>3, <3>4, <3>5
    <3> HIDE DEF P, q, first
    <3>7. IsDone(q) /\ q \in DOMAIN fr
      BY <2>1, <3>6 DEF Joined, IsDone
    <3>8. ~r.ok /\ (FailuresSpeak => r.v # Null)
      BY <3>6, <3>7 DEF FailuresSpeak
    <3> QED
      BY <2>1, <2>3, <3>1, <3>8, AwaitOutcome
  <2> QED
    BY <2>4, <2>5
<1> QED
  BY <1>2, <1>3

\* Items and sessions say nothing of nodes.
LEMMA FutureOutcome ==
  ASSUME IInv, Tree, Clock, NEW p \in DOMAIN fr,
         ItemStart(p) \/ ItemEnd(p) \/ SessionStart(p) \/ SessionAcquire(p) \/ SessionEnd(p)
  PROVE  Outcome(p)
<1>1. /\ ItemStart(p) => fr[p].kind = "item" /\ fr[p].st = "new" /\ fr'[p].st = "body"
      /\ ItemEnd(p) => fr[p].kind = "item" /\ fr[p].st = "body" /\ fr'[p].st = "done"
      /\ SessionStart(p) =>
           /\ fr[p].kind = "session" /\ fr[p].st = "new"
           /\ fr'[p].st = IF Def(p).limit = NoLimit THEN "body" ELSE "acquire"
      /\ SessionAcquire(p) =>
           fr[p].kind = "session" /\ fr[p].st = "acquire" /\ fr'[p].st = "body"
      /\ SessionEnd(p) => fr[p].kind = "session" /\ fr[p].st = "body" /\ fr'[p].st = "done"
  BY FutureStates
<1>2. ~Noded(p) /\ p \in DOMAIN fr' /\ fr[p].st # "done" /\ fr'[p].st # "new"
  <2>1. FrameStep(p)
    BY DEF FrameStep
  <2>2. Moves(p)
    BY <2>1, StepMoves
  <2> QED
    BY <1>1, <2>2 DEF Noded, Moves, Moved, Grown, Reaped
<1>3. "NodeStarted" \notin News /\ "NodeCompleted" \notin News
  <2>0. \A k, v : Ev(k).kind = k /\ EvPay(k, v).kind = k
    BY EvPlain
  <2>1. CASE ItemStart(p)
    <3>1. News = {"MapItemStarted"}
      BY <2>1, NewsOfOne DEF ItemStart, Ev
    <3> QED
      BY <3>1
  <2>2. CASE ItemEnd(p)
    <3> DEFINE x == IF fr[Body(p)].ret.ok THEN Ev("MapItemCompleted")
                    ELSE EvPay("MapItemFailed", fr[Body(p)].ret.v)
    <3>1. Emit(Lane(p), <<x>>) /\ x.kind \in {"MapItemCompleted", "MapItemFailed"}
      BY <2>0, <2>2 DEF ItemEnd
    <3> HIDE DEF x
    <3> QED
      BY <3>1, NewsOfOne
  <2>3. CASE SessionStart(p)
    <3>1. News = {"SessionStarted"}
      BY <2>3, NewsOfOne DEF SessionStart, Ev
    <3> QED
      BY <3>1
  <2>4. CASE SessionAcquire(p)
    <3>1. News = {"SemaphoreAcquired"}
      BY <2>4, NewsOfOne DEF SessionAcquire, EvPay
    <3> QED
      BY <3>1
  <2>5. CASE SessionEnd(p)
    <3>1. UNCHANGED clock \/ ReleaseAnnounced(p)
      BY <2>5 DEF SessionEnd, Release, clock
    <3>2. News = {} \/ News = {"SemaphoreReleased"}
      BY <3>1, NewsOfNone, NewsOfOne DEF ReleaseAnnounced, EvPay
    <3> QED
      BY <3>2
  <2> QED
    BY <2>1, <2>2, <2>3, <2>4, <2>5
<1>4. ASSUME FailuresSpeak, fr'[p].st = "done", ~fr'[p].ret.ok PROVE fr'[p].ret.v # Null
  <2>1. (ItemEnd(p) \/ SessionEnd(p)) /\ fr[p].st = "body"
    BY <1>1, <1>4
  <2>2. IsDone(Body(p)) /\ fr' = Done(Without(fr, {Body(p)}), p, fr[Body(p)].ret)
    BY <2>1 DEF ItemEnd, SessionEnd
  <2>3. Body(p) # p
    BY <2>1, <2>2, BodyOwnsNothing
  <2>4. fr'[p].ret = fr[Body(p)].ret
    BY <2>2, <2>3, ReapedFrame
  <2> QED
    BY <1>4, <2>2, <2>4 DEF IsDone, FailuresSpeak
<1> QED
  BY <1>2, <1>3, <1>4 DEF Outcome

LEMMA StepOutcome ==
  ASSUME IInv, Tree, Clock, NEW p \in DOMAIN fr,
         FrameStep(p) \/ HostStep(p)
  PROVE  Outcome(p)
<1>1. CASE FrameStep(p)
  BY <1>1, CallOutcome, MapOutcome, LoopOutcome, BranchOutcome, GroupOutcome, FutureOutcome
     DEF FrameStep
<1>2. CASE HostStep(p)
  BY <1>2, CallOutcome, BranchOutcome DEF HostStep
<1> QED
  BY <1>1, <1>2

-----------------------------------------------------------------------------
(* Parents and children                                                    *)

\* Where the i-th child g of a frame f is: on which path and in which iteration.
Related(f, i, g) ==
  \/ /\ f.kind = "map"
     /\ g.path = Index(f.path, i - 1) /\ g.iter = f.iter
  \/ /\ f.kind = "item"
     /\ g.path = f.path /\ g.iter = f.iter
  \/ /\ f.kind = "for_each"
     /\ g.path = Index(f.path, f.k - 1) /\ g.iter = f.iter
  \/ /\ f.kind = "while"
     /\ g.path = Child(f.path, "body") /\ g.iter = f.k - 1
  \/ /\ f.kind \in {"branch", "resume_session"}
     /\ g.iter = f.iter
     /\ \E x : g.path = Child(f.path, x)
     /\ f.kind = "resume_session" => g.path = Child(f.path, "body")
  \/ /\ f.kind \in {"session_group", "session"}
     /\ g.iter = 0
     /\ \E x : g.path = Child(f.path, x)
     /\ f.kind = "session" => g.path = Child(f.path, "body")

\* How the frame f counts on when it becomes g and starts its i-th child.
Counted(f, i, g) ==
  /\ f.kind = "map" => i > f.k
  /\ f.kind \in {"for_each", "while"} => g.k = f.k + 1 /\ f.st = "loop"

\* Where the children of a step come from.
Births(p) ==
  \A i \in KidsOf(fr'[p]) :
    Related(fr'[p], i, fr'[Kid(p, i)]) /\ Counted(fr[p], i, fr'[p])

\* A pass of a loop is counted in the frame of the loop alone.
CountsOn(E, p, G) ==
  \/ G = [E EXCEPT ![p].k = @ + 1]
  \/ \E l : G = [E EXCEPT ![p].k = @ + 1, ![p].saved = l]

LEMMA CountedOn ==
  ASSUME NEW E, NEW p \in DOMAIN E, DOMAIN E[p] = FrameFields, NEW G, CountsOn(E, p, G)
  PROVE  /\ DOMAIN G = DOMAIN E /\ \A q \in DOMAIN E : q # p => G[q] = E[q]
         /\ SameNode(E[p], G[p]) /\ G[p].st = E[p].st /\ G[p].k = E[p].k + 1
<1>1. CASE G = [E EXCEPT ![p].k = @ + 1]
  BY <1>1 DEF FrameFields, SameNode
<1>2. ASSUME NEW l, G = [E EXCEPT ![p].k = @ + 1, ![p].saved = l]
      PROVE  /\ DOMAIN G = DOMAIN E /\ \A q \in DOMAIN E : q # p => G[q] = E[q]
             /\ SameNode(E[p], G[p]) /\ G[p].st = E[p].st /\ G[p].k = E[p].k + 1
  <2> DEFINE H == [E EXCEPT ![p].k = @ + 1]
  <2>1. /\ DOMAIN H = DOMAIN E /\ \A q \in DOMAIN E : q # p => H[q] = E[q]
        /\ SameNode(E[p], H[p]) /\ H[p].st = E[p].st /\ H[p].k = E[p].k + 1
    BY DEF FrameFields, SameNode
  <2>2. G = [H EXCEPT ![p].saved = l]
    BY <1>2
  <2> HIDE DEF H
  <2> QED
    BY <2>1, <2>2 DEF FrameFields, SameNode
<1> QED
  BY <1>1, <1>2 DEF CountsOn

LEMMA EnterBirths ==
  ASSUME IInv, Tree, NEW p \in DOMAIN fr,
         ItemStart(p) \/ ForEachNext(p) \/ WhilePass(p) \/ (\E v : ResumeLoaded(p, v))
         \/ SessionStart(p) \/ SessionAcquire(p) \/ BranchStart(p)
  PROVE  Births(p)
<1> USE DEF store, env
<1>1. /\ DOMAIN fr[p] = FrameFields /\ Shaped(fr[p]) /\ fr[p].k \in Nat
      /\ fr[p].kind \in Kinds \cup {"item", "session"} /\ p # Body(p)
      /\ Position(p) /\ Kid(p, 1) = Body(p)
  <2>1. /\ DOMAIN fr[p] = FrameFields /\ Shaped(fr[p]) /\ Position(p)
        /\ fr[p].kind \in Kinds \cup {"item", "session"}
    BY LiveFrame
  <2>2. fr[p].k \in Nat
    BY <2>1 DEF Shaped
  <2> QED
    BY <2>1, <2>2, KidPosition DEF Body
<1>2. \A id, path, iter, led :
        /\ Body(p) \in DOMAIN Enter(p, id, path, iter, led)
        /\ Enter(p, id, path, iter, led)[Body(p)] = NodeFrame(id, path, iter, led)
        /\ SameNode(fr[p], Enter(p, id, path, iter, led)[p])
        /\ Enter(p, id, path, iter, led)[p].st = "body"
        /\ DOMAIN Enter(p, id, path, iter, led)[p] = FrameFields
        /\ Enter(p, id, path, iter, led)[p].k = fr[p].k
        /\ p \in DOMAIN Enter(p, id, path, iter, led)
  <2> TAKE id, path, iter, led
  <2> DEFINE F == Enter(p, id, path, iter, led)
  <2>1. /\ \A q : q \in DOMAIN F <=> q \in DOMAIN fr \/ q = Body(p)
        /\ F[Body(p)] = NodeFrame(id, path, iter, led)
        /\ SameNode(fr[p], F[p]) /\ F[p].st = "body" /\ DOMAIN F[p] = FrameFields
        /\ F[p].k = fr[p].k
    BY EnterFrames
  <2> HIDE DEF F
  <2>2. p \in DOMAIN F /\ Body(p) \in DOMAIN F
    BY <2>1
  <2> QED
    BY <2>1, <2>2 DEF F
<1>3. \A id, path, iter, led :
        /\ NodeFrame(id, path, iter, led).path = path
        /\ NodeFrame(id, path, iter, led).iter = iter
  BY DEF NodeFrame, Frame
<1>4. ASSUME NEW id, NEW path, NEW iter, NEW led, fr' = Enter(p, id, path, iter, led),
             fr[p].kind \notin {"map", "session_group", "for_each", "while"},
             Related(fr[p], 1, NodeFrame(id, path, iter, led))
      PROVE  Births(p)
  <2>1. fr'[p].kind = fr[p].kind /\ fr'[p].path = fr[p].path /\ fr'[p].iter = fr[p].iter
        /\ fr'[p].st = "body" /\ fr'[Kid(p, 1)] = NodeFrame(id, path, iter, led)
    BY <1>1, <1>2, <1>4 DEF SameNode
  <2>2. KidsOf(fr'[p]) = {1}
    BY <1>4, <2>1 DEF KidsOf
  <2>3. Related(fr'[p], 1, fr'[Kid(p, 1)])
    BY <1>4, <2>1 DEF Related
  <2> QED
    BY <1>4, <2>2, <2>3 DEF Births, Counted
<1>5. ASSUME NEW id, NEW path, NEW iter, NEW led, NEW E, E = Enter(p, id, path, iter, led),
             CountsOn(E, p, fr')
      PROVE  /\ fr'[p].kind = fr[p].kind /\ fr'[p].path = fr[p].path
             /\ fr'[p].iter = fr[p].iter /\ fr'[p].st = "body" /\ fr'[p].k = fr[p].k + 1
             /\ fr'[Kid(p, 1)].path = path /\ fr'[Kid(p, 1)].iter = iter
  <2>1. /\ p \in DOMAIN E /\ Body(p) \in DOMAIN E /\ E[Body(p)].path = path
        /\ E[Body(p)].iter = iter /\ DOMAIN E[p] = FrameFields /\ E[p].k = fr[p].k
        /\ E[p].st = "body" /\ SameNode(fr[p], E[p])
    BY <1>2, <1>3, <1>5
  <2>2. /\ \A q \in DOMAIN E : q # p => fr'[q] = E[q]
        /\ SameNode(E[p], fr'[p]) /\ fr'[p].st = E[p].st /\ fr'[p].k = E[p].k + 1
    BY <1>5, <2>1, CountedOn
  <2> QED
    BY <1>1, <2>1, <2>2 DEF SameNode
<1>6. CASE ItemStart(p)
  <2>1. fr[p].kind = "item"
    BY <1>6 DEF ItemStart, At
  <2>2. \A id, led : Related(fr[p], 1, NodeFrame(id, fr[p].path, fr[p].iter, led))
    BY <1>3, <2>1 DEF Related
  <2>3. PICK id, led : fr' = Enter(p, id, fr[p].path, fr[p].iter, led)
    BY <1>6 DEF ItemStart
  <2>4. Related(fr[p], 1, NodeFrame(id, fr[p].path, fr[p].iter, led))
    BY <2>2
  <2>5. fr[p].kind \notin {"map", "session_group", "for_each", "while"}
    BY <2>1
  <2> QED
    BY <1>4, <2>3, <2>4, <2>5
<1>7. CASE ForEachNext(p)
  <2>1. fr[p].kind = "for_each" /\ fr[p].st = "loop"
    BY <1>7 DEF ForEachNext, At
  <2>2. /\ fr'[p].kind = fr[p].kind /\ fr'[p].path = fr[p].path
        /\ fr'[p].iter = fr[p].iter /\ fr'[p].st = "body" /\ fr'[p].k = fr[p].k + 1
        /\ fr'[Kid(p, 1)].path = Index(fr[p].path, fr[p].k) /\ fr'[Kid(p, 1)].iter = fr[p].iter
    <3> DEFINE E == Enter(p, Def(p).body, Index(fr[p].path, fr[p].k), fr[p].iter, fr[p].led)
    <3>1. fr' = [E EXCEPT ![p].k = @ + 1, ![p].saved = Led(p)]
      BY <1>7 DEF ForEachNext
    <3>2. E = Enter(p, Def(p).body, Index(fr[p].path, fr[p].k), fr[p].iter, fr[p].led)
      OBVIOUS
    <3> HIDE DEF E
    <3>3. CountsOn(E, p, fr')
      BY <3>1 DEF CountsOn
    <3> QED
      BY <1>5, <3>2, <3>3
  <2>3. KidsOf(fr'[p]) = {1} /\ fr'[p].k - 1 = fr[p].k
    BY <1>1, <2>1, <2>2 DEF KidsOf
  <2>4. Related(fr'[p], 1, fr'[Kid(p, 1)])
    BY <2>1, <2>2, <2>3 DEF Related
  <2>5. Counted(fr[p], 1, fr'[p])
    BY <2>1, <2>2 DEF Counted
  <2> QED
    BY <2>3, <2>4, <2>5 DEF Births
<1>8. CASE WhilePass(p)
  <2>1. fr[p].kind = "while" /\ fr[p].st = "loop"
    BY <1>8 DEF WhilePass, At
  <2>2. /\ fr'[p].kind = fr[p].kind /\ fr'[p].path = fr[p].path
        /\ fr'[p].iter = fr[p].iter /\ fr'[p].st = "body" /\ fr'[p].k = fr[p].k + 1
        /\ fr'[Kid(p, 1)].path = Child(fr[p].path, "body") /\ fr'[Kid(p, 1)].iter = fr[p].k
    <3> DEFINE E == Enter(p, Def(p).body, Child(fr[p].path, "body"), fr[p].k, fr[p].led)
    <3>1. fr' = [E EXCEPT ![p].k = @ + 1]
      BY <1>8 DEF WhilePass, PassIteration
    <3>2. E = Enter(p, Def(p).body, Child(fr[p].path, "body"), fr[p].k, fr[p].led)
      OBVIOUS
    <3> HIDE DEF E
    <3>3. CountsOn(E, p, fr')
      BY <3>1 DEF CountsOn
    <3> QED
      BY <1>5, <3>2, <3>3
  <2>3. KidsOf(fr'[p]) = {1} /\ fr'[p].k - 1 = fr[p].k
    BY <1>1, <2>1, <2>2 DEF KidsOf
  <2>4. Related(fr'[p], 1, fr'[Kid(p, 1)])
    BY <2>1, <2>2, <2>3 DEF Related
  <2>5. Counted(fr[p], 1, fr'[p])
    BY <2>1, <2>2 DEF Counted
  <2> QED
    BY <2>3, <2>4, <2>5 DEF Births
<1>9. ASSUME NEW v, ResumeLoaded(p, v) PROVE Births(p)
  <2>1. fr[p].kind = "resume_session"
    BY <1>9 DEF ResumeLoaded, At
  <2>2. \A id, led : Related(fr[p], 1, NodeFrame(id, Child(fr[p].path, "body"), fr[p].iter, led))
    BY <1>3, <2>1 DEF Related
  <2> QED
    BY <1>4, <1>9, <2>1, <2>2 DEF ResumeLoaded
<1>10. CASE BranchStart(p)
  <2>1. fr[p].kind = "branch"
    BY <1>10 DEF BranchStart, At
  <2>2. CASE Target(p) = NoNode
    <3>1. fr'[p].st = "done"
      BY <1>10, <2>2, DoneFrame DEF BranchStart, Complete
    <3>2. KidsOf(fr'[p]) = {}
      BY <3>1 DEF KidsOf
    <3> QED
      BY <3>2 DEF Births
  <2>3. CASE Target(p) # NoNode
    <3>1. \A id, led, x : Related(fr[p], 1, NodeFrame(id, Child(fr[p].path, x), fr[p].iter, led))
      BY <1>3, <2>1 DEF Related
    <3> QED
      BY <1>4, <1>10, <2>1, <2>3, <3>1 DEF BranchStart
  <2> QED
    BY <2>2, <2>3
<1>11. ASSUME fr[p].kind = "session", fr' = EnterSession(p) PROVE Births(p)
  <2>1. \A id, led : Related(fr[p], 1, NodeFrame(id, Child(fr[p].path, "body"), 0, led))
    BY <1>3, <1>11 DEF Related
  <2> QED
    BY <1>4, <1>11, <2>1 DEF EnterSession
<1>12. CASE SessionStart(p)
  <2>1. fr[p].kind = "session"
    BY <1>12 DEF SessionStart, At
  <2>2. CASE Def(p).limit = NoLimit
    BY <1>11, <1>12, <2>1, <2>2 DEF SessionStart
  <2>3. CASE Def(p).limit # NoLimit
    <3>1. fr'[p].st = "acquire" /\ fr'[p].kind = fr[p].kind
      BY <1>1, <1>12, <2>3 DEF SessionStart, FrameFields
    <3>2. KidsOf(fr'[p]) = {}
      BY <2>1, <3>1 DEF KidsOf
    <3> QED
      BY <3>2 DEF Births
  <2> QED
    BY <2>2, <2>3
<1>13. CASE SessionAcquire(p)
  BY <1>11, <1>13 DEF SessionAcquire, At
<1> QED
  BY <1>6, <1>7, <1>8, <1>9, <1>10, <1>12, <1>13

\* A body is entered by these actions alone.
LEMMA EnteringSteps ==
  ASSUME IInv, Tree, NEW p \in DOMAIN fr, FrameStep(p) \/ HostStep(p),
         fr[p].st # "body", p \in DOMAIN fr', fr'[p].st = "body",
         fr[p].kind \in {"item", "for_each", "while", "branch", "resume_session", "session"}
  PROVE  \/ ItemStart(p) \/ ForEachNext(p) \/ WhilePass(p) \/ \E v : ResumeLoaded(p, v)
         \/ SessionStart(p) \/ SessionAcquire(p) \/ BranchStart(p)
<1>1. DOMAIN fr[p] = FrameFields
  BY LiveFrame
<1>2. \A r : fr' # Done(fr, p, r)
  BY DoneFrame
<1>3. \A e : ~StartFails(p, e)
  BY <1>2 DEF StartFails
<1>4. \A es, v : ~Complete(p, es, v)
  BY <1>2 DEF Complete
<1>5. CASE FrameStep(p)
  <2>1. ~ForEachStart(p)
    BY <1>1, <1>3 DEF ForEachStart, FrameFields
  <2>2. ~WhileStart(p) /\ ~ResumeStart(p)
    BY <1>1, <1>3 DEF WhileStart, ResumeStart, FrameFields
  <2>3. ~ForEachEnd(p) /\ ~WhileEnd(p) /\ ~WhileUnresolved(p) /\ ~BranchUnresolved(p)
    BY <1>2, <1>3, <1>4 DEF ForEachEnd, WhileEnd, WhileUnresolved, BranchUnresolved
  <2>4. ~ItemEnd(p) /\ ~ForEachItemEnd(p) /\ ~WhilePassEnd(p) /\ ~PassOn(p) /\ ~SessionEnd(p)
    BY DEF ItemEnd, ForEachItemEnd, WhilePassEnd, PassOn, SessionEnd, At
  <2>5. /\ ~Program(p) /\ ~ProgramFails(p) /\ ~ActorStart(p) /\ ~ActorUnresolved(p)
        /\ ~MapStart(p) /\ ~Dispatch(p) /\ ~Collect(p) /\ ~MapEnd(p)
        /\ ~GroupStart(p) /\ ~GroupJoin(p)
    BY DEF Program, ProgramFails, ActorStart, ActorUnresolved, MapStart, Dispatch, Collect,
       MapEnd, GroupStart, GroupJoin, At
  <2> QED
    BY <1>5, <2>1, <2>2, <2>3, <2>4, <2>5 DEF FrameStep
<1>6. CASE HostStep(p)
  <2>1. \A v : ~ActorReplies(p, v)
    BY DEF ActorReplies, At
  <2>2. ~ActorFails(p, DriveErr) /\ ~LoadFails(p, DriveErr)
    BY <1>2 DEF ActorFails, LoadFails, At
  <2> QED
    BY <1>6, <2>1, <2>2 DEF HostStep
<1> QED
  BY <1>5, <1>6

\* The items of a chunk are beyond those that were dispatched before.
LEMMA DispatchBirths ==
  ASSUME IInv, Tree, NEW p \in DOMAIN fr, Dispatch(p) PROVE Births(p)
<1> DEFINE hi == Smaller(fr[p].k + Width(Def(p)), Len(fr[p].items))
           A == [fr EXCEPT ![p].k = hi]
           K == {Kid(p, n) : n \in fr[p].k + 1 .. hi}
           H == [q \in K |-> Frame("item", fr[p].node, Index(fr[p].path, q[Len(q)] - 1),
                                   fr[p].iter, q)]
<1>1. fr' = Plus(A, H) /\ DOMAIN A = DOMAIN fr
  BY DEF Dispatch
<1>2. /\ \A q \in DOMAIN H : /\ H[q].path = Index(fr[p].path, q[Len(q)] - 1)
                            /\ H[q].iter = fr[p].iter
      /\ DOMAIN H = K
  BY DEF Frame
<1> HIDE DEF H, A
<1>3. Moves(p) /\ fr[p].kind = "map" /\ Position(p)
  BY DispatchMoves, LiveFrame DEF Dispatch, At
<1>4. SameNode(fr[p], fr'[p])
  BY <1>3 DEF Moves, Moved, Grown, Reaped
<1>5. ASSUME NEW i \in KidsOf(fr'[p])
      PROVE  Related(fr'[p], i, fr'[Kid(p, i)]) /\ Counted(fr[p], i, fr'[p])
  <2>1. /\ i \in Nat /\ Kid(p, i) \in DOMAIN H /\ fr'[Kid(p, i)] = H[Kid(p, i)]
        /\ Kid(p, i)[Len(Kid(p, i))] = i
    BY <1>1, <1>3, <1>5, NewKid
  <2>2. Related(fr'[p], i, fr'[Kid(p, i)])
    BY <1>2, <1>3, <1>4, <2>1 DEF Related, SameNode
  <2>3. PICK n \in fr[p].k + 1 .. hi : Kid(p, i) = Kid(p, n)
    BY <1>2, <2>1
  <2>4. n \in Nat /\ n > fr[p].k
    <3>1. fr[p].k \in Nat /\ hi \in Nat
      <4>1. fr[p].k \in Nat /\ Len(fr[p].items) \in Nat
        BY LiveFrame DEF Shaped
      <4>2. Width(Def(p)) \in Nat
        BY <1>3, MapWidth
      <4> QED
        BY <4>1, <4>2 DEF Smaller
    <3> QED
      BY <3>1
  <2>5. n = i
    BY <1>3, <2>1, <2>3, <2>4, KidIndex
  <2> QED
    BY <1>3, <2>2, <2>4, <2>5 DEF Counted
<1> QED
  BY <1>5 DEF Births

LEMMA GroupBirths ==
  ASSUME IInv, Tree, NEW p \in DOMAIN fr, GroupStart(p), fr'[p].st = "join" PROVE Births(p)
<1> DEFINE items == Led(p)[Def(p).src]
<1>1. DOMAIN fr[p] = FrameFields /\ fr[p].kind = "session_group"
  BY LiveFrame DEF GroupStart, At
<1>2. IsArray(Led(p), Def(p).src)
  <2>1. CASE StartFails(p, LedgerErr)
    BY <2>1, DoneFrame DEF StartFails
  <2> QED
    BY <2>1 DEF GroupStart
<1> DEFINE A == [fr EXCEPT ![p].st = "join", ![p].items = items]
           K == {Kid(p, n) : n \in 1 .. Len(items)}
           H == [q \in K |-> Frame("session", fr[p].node, SessionPath(p, q[Len(q)]), 0, q)]
<1>3. fr' = Plus(A, H) /\ DOMAIN A = DOMAIN fr
  BY <1>2 DEF GroupStart
<1>4. \A q \in DOMAIN H : /\ H[q].iter = 0
                          /\ \E x : H[q].path = Child(fr[p].path, x)
  BY DEF Frame, SessionPath
<1> HIDE DEF H, A
<1>5. Moves(p)
  BY GroupStartMoves
<1>6. SameNode(fr[p], fr'[p])
  BY <1>5 DEF Moves, Moved, Grown, Reaped
<1>7. ASSUME NEW i \in KidsOf(fr'[p])
      PROVE  Related(fr'[p], i, fr'[Kid(p, i)]) /\ Counted(fr[p], i, fr'[p])
  <2>1. Kid(p, i) \in DOMAIN H /\ fr'[Kid(p, i)] = H[Kid(p, i)]
    BY <1>3, <1>5, <1>7, NewKid
  <2>2. Related(fr'[p], i, fr'[Kid(p, i)])
    BY <1>1, <1>4, <1>6, <2>1 DEF Related, SameNode
  <2> QED
    BY <1>1, <2>2 DEF Counted
<1> QED
  BY <1>7 DEF Births

LEMMA StepBirths ==
  ASSUME IInv, Tree, NEW p \in DOMAIN fr, FrameStep(p) \/ HostStep(p) PROVE Births(p)
<1>1. CASE KidsOf(fr'[p]) = {}
  BY <1>1 DEF Births
<1>2. CASE KidsOf(fr'[p]) # {}
  <2>1. Grown(fr, fr', leds, leds', p)
    <3>1. Moves(p)
      BY StepMoves
    <3> QED
      BY <1>2, <3>1 DEF Moves, Moved, Reaped
  <2>2. /\ p \in DOMAIN fr' /\ fr'[p].kind = fr[p].kind /\ fr[p].st # "body"
        /\ Shaped(fr'[p])
    BY <2>1 DEF Grown, SameNode, KidsOf
  <2>3. CASE fr'[p].st = "body"
    <3>1. fr[p].kind \in Kinds \cup {"item", "session"}
      BY LiveFrame
    <3>2. fr[p].kind \in {"item", "for_each", "while", "branch", "resume_session", "session"}
      BY <2>2, <2>3, <3>1 DEF Kinds, Shaped, StatesOf
    <3> QED
      BY <2>2, <2>3, <3>2, EnteringSteps, EnterBirths
  <2>4. CASE fr'[p].kind = "map" /\ fr'[p].st = "fan"
    <3>1. Dispatch(p)
      BY <1>2, <2>2, <2>4, MapFans
    <3> QED
      BY <3>1, DispatchBirths
  <2>5. CASE fr'[p].kind = "session_group" /\ fr'[p].st = "join"
    <3>1. GroupStart(p)
      BY <1>2, <2>2, <2>5, GroupFans
    <3> QED
      BY <2>5, <3>1, GroupBirths
  <2> QED
    BY <1>2, <2>3, <2>4, <2>5 DEF KidsOf
<1> QED
  BY <1>1, <1>2

-----------------------------------------------------------------------------
(* What the events at the root of the tree tell of the run                 *)

\* No entrypoint is named twice, or as the finalize node: with two executions on
\* one lane its events would not tell them apart.
EntriesDiffer ==
  /\ \A i, j \in DOMAIN Entrypoint : i # j => Entrypoint[i] # Entrypoint[j]
  /\ FinalizeNode \notin EntryIds

Live == Body(Root) \in DOMAIN fr

\* The nodes that Runner::run itself has entered.
Ran(id) ==
  \/ \E i \in 1 .. run.k : Entrypoint[i] = id
  \/ id = FinalizeNode /\ run.terminated /\ ~(run.st = "final" /\ ~Live)

Passed(n) == \A i \in 1 .. n : Attempted(Entrypoint[i]) /\ Succeeded(Entrypoint[i])

\* The frame of the node that runs now, on its own lane, and what its events say.
RootTold ==
  Live =>
    LET f == fr[Body(Root)] IN
    /\ f.path = Child(Root, f.node) /\ f.iter = 0
    /\ IF run.st = "entry" THEN run.k >= 1 /\ f.node = Entrypoint[run.k]
       ELSE f.node = FinalizeNode
    /\ Attempted(f.node) <=> f.st # "new"
    /\ Succeeded(f.node) <=> f.st = "done" /\ f.ret.ok

\* All other frames are on lanes below.
DeepPaths == \A q \in DOMAIN fr : Len(q) > 1 => Len(fr[q].path) > 1

PastTold ==
  /\ run.st = "final" => run.terminated
  /\ run.st \in {"entry", "final"} => run.failure = Null
  /\ run.st = "entry" => Passed(IF Live THEN run.k - 1 ELSE run.k)
  /\ run.terminated => Passed(run.k)

\* How the failure that a run settles with follows from what its nodes did.
Verdict ==
  run.st \in {"settle", "done"} =>
    IF run.terminated
    THEN IF FinalizeNode \in DOMAIN Nodes
         THEN Attempted(FinalizeNode) /\ (Succeeded(FinalizeNode) <=> run.failure = Null)
         ELSE run.failure = FinalizeMissing
    ELSE IF run.failure = Null THEN run.k = Len(Entrypoint) /\ Passed(run.k)
         ELSE /\ run.k >= 1 /\ Passed(run.k - 1)
              /\ Attempted(Entrypoint[run.k]) /\ ~Succeeded(Entrypoint[run.k])

Ending ==
  /\ run.st # "done" => Terminal = {}
  /\ run.st = "done" =>
       /\ run.stop = StopReason
       /\ run.status = IF run.stop = "completed" THEN "completed" ELSE "failed"
       /\ \E e \in Terminal : Terminal = {e} /\ (e.kind = "WorkflowCompleted" <=> run.stop = "completed")

Told ==
  /\ \A id : Attempted(id) \/ Succeeded(id) => Ran(id)
  /\ RootTold
  /\ DeepPaths
  /\ PastTold
  /\ Verdict
  /\ Ending
  /\ FailuresSpeak


LEMMA RootOrDeep == ASSUME NEW p, Position(p) PROVE p = Body(Root) \/ Len(p) > 1
<1>1. Body(Root) = <<1>> /\ p \in Seq(Nat) /\ Len(p) \in Nat /\ Len(p) > 0 /\ p[1] = 1
  BY DEF Position, Body, Kid, Root
<1>2. CASE Len(p) = 1
  BY <1>1, <1>2
<1> QED
  BY <1>1, <1>2

LEMMA RootPosition == Position(Body(Root)) /\ Len(Body(Root)) = 1
BY DEF Position, Body, Kid, Root

\* The lanes of the nodes of a run are on paths of one element.
LEMMA RootPaths ==
  /\ \A id : Len(RootLane(id)[1]) = 1 /\ RootLane(id)[1] = Child(Root, id)
  /\ \A id, other : RootLane(id) = RootLane(other) => id = other
<1>1. \A id : Child(Root, id) = << <<id>> >>
  BY DEF Child, Root
<1> QED
  BY <1>1 DEF RootLane

\* A frame and those it starts, but for the node of the run, stay below.
LEMMA DeepKept ==
  ASSUME IInv, Tree, DeepPaths, NEW p \in DOMAIN fr, FrameStep(p) \/ HostStep(p)
  PROVE  DeepPaths'
<1>1. Moves(p) /\ Births(p) /\ Position(p) /\ IsPath(fr[p].path)
  BY StepMoves, StepBirths, LiveFrame DEF Sound
<1>2. p \in DOMAIN fr' /\ SameNode(fr[p], fr'[p])
  <2>1. CASE Grown(fr, fr', leds, leds', p)
    BY <2>1 DEF Grown
  <2>2. CASE Reaped(fr, fr', leds, leds', p)
    <3>1. \A i \in KidsOf(fr[p]) : Kid(p, i) # p
      BY <1>1, <2>2, KidPosition DEF Reaped
    <3> QED
      BY <2>2, <3>1 DEF Reaped
  <2> QED
    BY <1>1, <2>1, <2>2 DEF Moves, Moved
<1>3. ASSUME NEW q \in DOMAIN fr' \cap DOMAIN fr
      PROVE  Len(q) > 1 => Len(fr'[q].path) > 1
  <2>1. fr'[q].path = fr[q].path
    BY <1>1, <1>2, <1>3 DEF Moves, Moved, Grown, Reaped, SameNode
  <2> QED
    BY <1>3, <2>1 DEF DeepPaths
<1>4. ASSUME NEW q \in DOMAIN fr', q \notin DOMAIN fr PROVE Len(fr'[q].path) > 1
  <2>1. Grown(fr, fr', leds, leds', p)
    BY <1>1, <1>4 DEF Moves, Moved, Reaped
  <2>2. PICK i \in KidsOf(fr'[p]) : q = Kid(p, i)
    BY <1>4, <2>1 DEF Grown
  <2>3. /\ Related(fr'[p], i, fr'[q]) /\ fr'[p].path = fr[p].path /\ fr'[p].kind = fr[p].kind
        /\ Len(fr'[q].path) \in Nat /\ Len(fr[p].path) \in Nat /\ Len(fr[p].path) > 0
        /\ Len(fr[p].path) <= Len(fr'[q].path)
    BY <1>1, <1>2, <2>1, <2>2 DEF Births, SameNode, Grown, Born, Prefix, IsPath
  <2>4. CASE fr[p].kind = "item"
    <3>1. Len(p) > 1
      BY <2>4 DEF Tree, Ledgered
    <3>2. Len(fr[p].path) > 1
      BY <3>1 DEF DeepPaths
    <3> QED
      BY <2>3, <3>2
  <2>5. CASE fr[p].kind # "item"
    <3>1. \E x : fr'[q].path = Append(fr[p].path, x)
      BY <2>3, <2>5 DEF Related, Child, Index
    <3>2. \A x : Len(Append(fr[p].path, x)) = Len(fr[p].path) + 1
      BY <1>1 DEF IsPath
    <3> QED
      BY <2>3, <3>1, <3>2
  <2> QED
    BY <2>4, <2>5
<1> QED
  BY <1>3, <1>4 DEF DeepPaths

\* What the events of a step on one lane change of what the run can tell.
LEMMA LaneTells ==
  ASSUME events \subseteq events', NEW lane, \A e \in events' \ events : e.lane = lane
  PROVE  \A id :
           /\ Attempted(id)' <=> Attempted(id) \/ (RootLane(id) = lane /\ "NodeStarted" \in News)
           /\ Succeeded(id)' <=> Succeeded(id) \/ (RootLane(id) = lane /\ "NodeCompleted" \in News)
<1> TAKE id
<1>1. Attempted(id)' <=> \E e \in events' : e.kind = "NodeStarted" /\ e.lane = RootLane(id)
  BY DEF Attempted, OnLane, Of
<1>2. Attempted(id) <=> \E e \in events : e.kind = "NodeStarted" /\ e.lane = RootLane(id)
  BY DEF Attempted, OnLane, Of
<1>3. Succeeded(id)' <=> \E e \in events' : e.kind = "NodeCompleted" /\ e.lane = RootLane(id)
  BY DEF Succeeded, OnLane, Of
<1>4. Succeeded(id) <=> \E e \in events : e.kind = "NodeCompleted" /\ e.lane = RootLane(id)
  BY DEF Succeeded, OnLane, Of
<1>5. \A kind : kind \in News <=> \E e \in events' \ events : e.kind = kind
  BY DEF News
<1>6. Attempted(id)' <=> Attempted(id) \/ (RootLane(id) = lane /\ "NodeStarted" \in News)
  BY <1>1, <1>2, <1>5
<1>7. Succeeded(id)' <=> Succeeded(id) \/ (RootLane(id) = lane /\ "NodeCompleted" \in News)
  BY <1>3, <1>4, <1>5
<1> QED
  BY <1>6, <1>7

\* A step at a frame below tells nothing of the run.
LEMMA DeepTells ==
  ASSUME IInv, Tree, DeepPaths, NEW p \in DOMAIN fr, p # Body(Root), FrameStep(p) \/ HostStep(p)
  PROVE  /\ \A id : Attempted(id)' <=> Attempted(id)
         /\ \A id : Succeeded(id)' <=> Succeeded(id)
         /\ Live /\ Live' /\ fr'[Body(Root)] = fr[Body(Root)]
<1>1. Moves(p) /\ Position(p) /\ Len(p) > 1 /\ Rooted(fr)
  BY StepMoves, LiveFrame, RootOrDeep DEF Tree
<1>2. events \subseteq events' /\ \A e \in events' \ events : e.lane = Lane(p)
  BY FrameStepKeeps DEF Keeps, Quiet
<1>3. \A id : RootLane(id) # Lane(p)
  <2>1. Len(Lane(p)[1]) > 1
    BY <1>1 DEF DeepPaths, Lane
  <2>2. \A id : Len(RootLane(id)[1]) = 1
    BY RootPaths
  <2>3. ~(1 > 1)
    OBVIOUS
  <2> QED
    BY <2>1, <2>2, <2>3
<1>4. Live
  <2> DEFINE c == SubSeq(p, 1, 1)
  <2>1. 1 \in 1 .. Len(p)
    BY <1>1, PositionLen
  <2>2. c \in DOMAIN fr
    BY <1>1, <2>1 DEF Rooted
  <2>3. Position(c) /\ Len(c) = 1
    BY <1>1, <2>1, CutPosition
  <2> HIDE DEF c
  <2>4. c = Body(Root) \/ Len(c) > 1
    BY <2>3, RootOrDeep
  <2>5. ~(1 > 1)
    OBVIOUS
  <2> QED
    BY <2>2, <2>3, <2>4, <2>5 DEF Live
<1>5. Live' /\ fr'[Body(Root)] = fr[Body(Root)]
  <2>1. CASE Grown(fr, fr', leds, leds', p)
    BY <1>4, <2>1 DEF Grown, Live
  <2>2. CASE Reaped(fr, fr', leds, leds', p)
    <3>1. \A i \in KidsOf(fr[p]) : Len(Kid(p, i)) > 2
      BY <1>1, <2>2, KidPosition, PositionLen DEF Reaped
    <3>2. \A i \in KidsOf(fr[p]) : Kid(p, i) # Body(Root)
      BY <3>1, RootPosition
    <3> QED
      BY <1>4, <2>2, <3>2 DEF Reaped, Live
  <2> QED
    BY <1>1, <2>1, <2>2 DEF Moves, Moved
<1> QED
  BY <1>2, <1>3, <1>4, <1>5, LaneTells

\* Steps at frames end no run.
LEMMA StepEndsNothing ==
  ASSUME IInv, Tree, Clock, NEW p \in DOMAIN fr, FrameStep(p) \/ HostStep(p)
  PROVE  Terminal' = Terminal /\ run.st \in {"entry", "final"} /\ UNCHANGED run
<1>1. run.st \in {"entry", "final"}
  <2>1. fr # <<>>
    OBVIOUS
  <2> QED
    BY <2>1 DEF Tree
<1>2. UNCHANGED run /\ events \subseteq events'
  BY FrameStepKeeps DEF Keeps, Quiet
<1>3. \A e \in events' \ events : e.kind \notin {"WorkflowCompleted", "WorkflowFailed"}
  <2>1. CASE Spoke(Lane(p), Spoken)
    <3>1. \A e \in events' \ events : e.kind \in Spoken
      BY <2>1, SpokeClock
    <3> QED
      BY <3>1 DEF Spoken, Plain
  <2>2. ASSUME NEW v, ActorReplies(p, v)
        PROVE  \A e \in events' \ events : e.kind \notin {"WorkflowCompleted", "WorkflowFailed"}
    <3>1. Spoke(Lane(p), Replied)
      BY <2>2, RepliesSpeak
    <3>2. \A e \in events' \ events : e.kind \in Replied
      BY <3>1, SpokeClock
    <3> QED
      BY <3>2 DEF Replied, Plain
  <2> QED
    BY <2>1, <2>2, OthersSpeak
<1> QED
  BY <1>1, <1>2, <1>3 DEF Terminal, Of

LEMMA FailuresKept ==
  ASSUME IInv, Tree, Clock, ErrorsSpeak, FailuresSpeak,
         NEW p \in DOMAIN fr, FrameStep(p) \/ HostStep(p)
  PROVE  FailuresSpeak'
<1>1. Outcome(p) /\ Moves(p)
  BY StepOutcome, StepMoves
<1>2. ASSUME NEW q \in DOMAIN fr', q # p, fr'[q].st = "done"
      PROVE  q \in DOMAIN fr /\ fr'[q] = fr[q]
  <2>1. CASE Grown(fr, fr', leds, leds', p)
    BY <1>2, <2>1 DEF Grown, Born
  <2>2. CASE Reaped(fr, fr', leds, leds', p)
    BY <1>2, <2>2 DEF Reaped
  <2> QED
    BY <1>1, <2>1, <2>2 DEF Moves, Moved
<1> QED
  BY <1>1, <1>2 DEF FailuresSpeak, IsDone, Outcome

LEMMA StillPassed ==
  ASSUME Told, UNCHANGED <<wf, run>>, Live, Live', run.st \in {"entry", "final"},
         \A id : Attempted(id) => Attempted(id)', \A id : Succeeded(id) => Succeeded(id)'
  PROVE  PastTold' /\ Verdict' /\ \A id : Ran(id)' <=> Ran(id)
<1>1. \A n : Passed(n) => Passed(n)'
  BY DEF Passed, Entrypoint
<1>2. PastTold'
  BY <1>1 DEF Told, PastTold
<1>3. Verdict'
  BY DEF Verdict
<1>4. \A id : Ran(id)' <=> Ran(id)
  BY DEF Ran, Entrypoint, FinalizeNode
<1> QED
  BY <1>2, <1>3, <1>4

\* A step at the frame of the node that runs.
LEMMA RootStepTold ==
  ASSUME IInv, Tree, Clock, ErrorsSpeak, Told, NEW p \in DOMAIN fr, p = Body(Root),
         FrameStep(p) \/ HostStep(p), UNCHANGED <<wf, run>>
  PROVE  /\ \A id : Attempted(id)' \/ Succeeded(id)' => Ran(id)'
         /\ RootTold' /\ PastTold' /\ Verdict'
<1>0. PICK id0 : id0 = fr[p].node
  OBVIOUS
<1>1. Outcome(p) /\ Moves(p) /\ Live /\ Live'
  BY StepOutcome, StepMoves DEF Outcome, Live, Told
<1>2. events \subseteq events' /\ \A e \in events' \ events : e.lane = Lane(p)
  BY FrameStepKeeps DEF Keeps, Quiet
<1>3. run.st \in {"entry", "final"}
  BY StepEndsNothing
<1>4. /\ fr[p].path = Child(Root, id0) /\ fr[p].iter = 0
      /\ IF run.st = "entry" THEN run.k >= 1 /\ id0 = Entrypoint[run.k] ELSE id0 = FinalizeNode
      /\ Attempted(id0) <=> fr[p].st # "new"
      /\ Succeeded(id0) <=> fr[p].st = "done" /\ fr[p].ret.ok
  BY <1>0, <1>1 DEF Told, RootTold
<1>5. Lane(p) = RootLane(id0)
  BY <1>4 DEF Lane, RootLane
<1>6. Noded(p)
  <2>1. ~(Len(p) > 1)
    BY RootPosition
  <2> QED
    BY <2>1 DEF Tree, Ledgered, Noded
<1>7. /\ \A id : Attempted(id)' <=> Attempted(id) \/ (id = id0 /\ fr[p].st = "new")
      /\ \A id : Succeeded(id)' <=>
           Succeeded(id) \/ (id = id0 /\ fr'[p].st = "done" /\ fr'[p].ret.ok)
  <2>1. \A id : RootLane(id) = Lane(p) <=> id = id0
    BY <1>5, RootPaths
  <2>2. /\ "NodeStarted" \in News <=> fr[p].st = "new"
        /\ "NodeCompleted" \in News <=> fr'[p].st = "done" /\ fr'[p].ret.ok
    BY <1>1, <1>6 DEF Outcome
  <2>3. \A id :
           /\ Attempted(id)' <=> Attempted(id) \/ (RootLane(id) = Lane(p) /\ "NodeStarted" \in News)
           /\ Succeeded(id)' <=> Succeeded(id) \/ (RootLane(id) = Lane(p) /\ "NodeCompleted" \in News)
    BY <1>2, LaneTells
  <2> QED
    BY <2>1, <2>2, <2>3
<1>8. PastTold' /\ Verdict' /\ \A id : Ran(id)' <=> Ran(id)
  BY <1>1, <1>3, <1>7, StillPassed
<1>9. Ran(id0)
  <2>1. CASE run.st = "entry"
    <3>1. run.k \in 1 .. run.k
      BY <1>4, <2>1 DEF IInv
    <3> QED
      BY <1>4, <2>1, <3>1 DEF Ran
  <2>2. CASE run.st = "final"
    BY <1>1, <1>4, <2>2 DEF Ran, Told, PastTold
  <2> QED
    BY <1>3, <2>1, <2>2
<1>10. \A id : Attempted(id)' \/ Succeeded(id)' => Ran(id)'
  BY <1>7, <1>8, <1>9 DEF Told
<1>11. RootTold'
  <2>1. SameNode(fr[p], fr'[p])
    <3>1. \A i \in KidsOf(fr[p]) : KidsOf(fr[p]) \subseteq Nat => Kid(p, i) # p
      BY LiveFrame, KidPosition
    <3> QED
      BY <1>1, <3>1 DEF Moves, Moved, Grown, Reaped, Outcome
  <2>2. /\ fr'[p].path = Child(Root, id0) /\ fr'[p].iter = 0 /\ fr'[p].node = id0
    BY <1>0, <1>4, <2>1 DEF SameNode
  <2>3. Attempted(id0)' <=> fr'[p].st # "new"
    BY <1>1, <1>4, <1>7 DEF Outcome
  <2>4. Succeeded(id0)' <=> fr'[p].st = "done" /\ fr'[p].ret.ok
    BY <1>1, <1>4, <1>7 DEF Outcome
  <2>5. IF run'.st = "entry" THEN run'.k >= 1 /\ id0 = Entrypoint'[run'.k]
        ELSE id0 = FinalizeNode'
    BY <1>4 DEF Entrypoint, FinalizeNode
  <2> QED
    BY <2>2, <2>3, <2>4, <2>5 DEF RootTold, RootLane, Attempted, Succeeded
<1> QED
  BY <1>8, <1>10, <1>11

LEMMA StepTold ==
  ASSUME IInv, Tree, Clock, ErrorsSpeak, Told, NEW p \in DOMAIN fr,
         FrameStep(p) \/ HostStep(p), UNCHANGED wf
  PROVE  Told'
<1>1. Terminal' = Terminal /\ run.st \in {"entry", "final"} /\ UNCHANGED run
  BY StepEndsNothing
<1>2. FailuresSpeak' /\ DeepPaths'
  BY FailuresKept, DeepKept DEF Told
<1>3. /\ \A id : Attempted(id)' \/ Succeeded(id)' => Ran(id)'
      /\ RootTold' /\ PastTold' /\ Verdict'
  <2>1. CASE p = Body(Root)
    BY <1>1, <2>1, RootStepTold
  <2>2. CASE p # Body(Root)
    <3>1. /\ \A id : Attempted(id)' <=> Attempted(id)
          /\ \A id : Succeeded(id)' <=> Succeeded(id)
          /\ Live /\ Live' /\ fr'[Body(Root)] = fr[Body(Root)]
      BY <2>2, DeepTells DEF Told
    <3>2. PastTold' /\ Verdict' /\ \A id : Ran(id)' <=> Ran(id)
      BY <1>1, <3>1, StillPassed
    <3>3. RootTold'
      <4>1. PICK id0 : id0 = fr[Body(Root)].node
        OBVIOUS
      <4>2. id0 = fr'[Body(Root)].node
        BY <3>1, <4>1
      <4>3. /\ Attempted(id0)' <=> Attempted(id0)
            /\ Succeeded(id0)' <=> Succeeded(id0)
        BY <3>1
      <4> QED
        BY <1>1, <3>1, <4>1, <4>2, <4>3
           DEF Told, RootTold, RootLane, Attempted, Succeeded, Entrypoint, FinalizeNode
    <3> QED
      BY <3>1, <3>2, <3>3 DEF Told
  <2> QED
    BY <2>1, <2>2
<1>4. Ending'
  BY <1>1 DEF Told, Ending
<1> QED
  BY <1>2, <1>3, <1>4 DEF Told

\* Runner::run tells nothing of a node, whatever it does.
LEMMA RunStepTells ==
  ASSUME RunStep
  PROVE  /\ \A id : Attempted(id)' <=> Attempted(id)
         /\ \A id : Succeeded(id)' <=> Succeeded(id)
<1>1. events \subseteq events'
      /\ \A e \in events' \ events : e.kind \in {"WorkflowFailed", "WorkflowCompleted"}
  BY RunStepEmits
<1> QED
  BY <1>1 DEF Attempted, Succeeded, OnLane, Of

\* The frame that Runner::run starts, if any.
LEMMA RunNodeFrame ==
  ASSUME NEW id, fr' = RunNode(id)
  PROVE  LET f == fr'[Body(Root)] IN
         /\ Live' /\ DOMAIN fr' = {Body(Root)}
         /\ f.node = id /\ f.path = Child(Root, id) /\ f.iter = 0 /\ f.st = "new"
BY DEF RunNode, Put, NodeFrame, Frame, Live

LEMMA RunStepDeep ==
  ASSUME Tree, RunStep PROVE DeepPaths' /\ FailuresSpeak'
<1>1. \A q \in DOMAIN fr' : q = Body(Root) /\ fr'[q].st = "new"
  BY RunStepFrames
<1>2. ~(Len(Body(Root)) > 1)
  BY RootPosition
<1> QED
  BY <1>1, <1>2 DEF DeepPaths, FailuresSpeak, IsDone

\* Runner::run enters no node twice.
LEMMA EntersUnran ==
  ASSUME IInv, Tree, EntriesDiffer, NEW id, ~Live,
         \/ run.st = "entry" /\ run.k < Len(Entrypoint) /\ id = Entrypoint[run.k + 1]
         \/ run.st = "final" /\ id = FinalizeNode
  PROVE  ~Ran(id)
<1>1. run.k \in Nat /\ (run.terminated => run.st # "entry") /\ Len(Entrypoint) \in Nat
      /\ DOMAIN Entrypoint = 1 .. Len(Entrypoint)
  BY WorkflowAssumption DEF IInv, Accepted, Entrypoint
<1>2. CASE run.st = "entry" /\ run.k < Len(Entrypoint) /\ id = Entrypoint[run.k + 1]
  <2>1. \A i \in 1 .. run.k : Entrypoint[i] # id
    <3>1. \A i \in 1 .. run.k : i \in DOMAIN Entrypoint /\ run.k + 1 \in DOMAIN Entrypoint
                                /\ i # run.k + 1
      BY <1>1, <1>2
    <3> QED
      BY <1>2, <3>1 DEF EntriesDiffer
  <2>2. ~run.terminated
    BY <1>1, <1>2
  <2> QED
    BY <2>1, <2>2 DEF Ran
<1>3. CASE run.st = "final" /\ id = FinalizeNode
  <2>1. \A i \in 1 .. run.k : run.k <= Len(Entrypoint) => Entrypoint[i] # id
    <3>1. \A i \in 1 .. run.k : run.k <= Len(Entrypoint) => i \in DOMAIN Entrypoint
      BY <1>1
    <3> QED
      BY <1>3, <3>1 DEF EntriesDiffer, EntryIds
  <2> QED
    BY <1>3, <2>1 DEF Ran, Tree
<1> QED
  BY <1>2, <1>3

\* A node is entered on a lane where nothing has been said.
LEMMA EntersUntold ==
  ASSUME IInv, Tree, Told, EntriesDiffer, NEW id, ~Live,
         \/ run.st = "entry" /\ run.k < Len(Entrypoint) /\ id = Entrypoint[run.k + 1]
         \/ run.st = "final" /\ id = FinalizeNode
  PROVE  ~Attempted(id) /\ ~Succeeded(id)
BY EntersUnran DEF Told

\* The parts of Told that a step of Runner::run may disturb.
Chronicle ==
  /\ \A id : Attempted(id) \/ Succeeded(id) => Ran(id)
  /\ RootTold /\ PastTold /\ Verdict

LEMMA EntryStartTold ==
  ASSUME IInv, Tree, Told, EntriesDiffer, EntryStart, UNCHANGED wf PROVE Chronicle'
<1>1. /\ run.st = "entry" /\ fr = <<>> /\ run.k < Len(Entrypoint) /\ run.k \in Nat
      /\ DOMAIN run = RunFields /\ ~run.terminated
  BY DEF EntryStart, IInv
<1>2. PICK id : id = Entrypoint[run.k + 1]
  OBVIOUS
<1>3. ~Live
  BY <1>1 DEF Live
<1>4. /\ \A x : Attempted(x)' <=> Attempted(x)
      /\ \A x : Succeeded(x)' <=> Succeeded(x)
  BY RunStepTells DEF RunStep
<1>5. /\ run'.st = "entry" /\ run'.k = run.k + 1 /\ ~run'.terminated
      /\ run'.failure = run.failure
  BY <1>1 DEF EntryStart, RunFields
<1>6. /\ Live' /\ fr'[Body(Root)].node = id /\ fr'[Body(Root)].path = Child(Root, id)
      /\ fr'[Body(Root)].iter = 0 /\ fr'[Body(Root)].st = "new"
  BY <1>2, RunNodeFrame DEF EntryStart
<1>7. ~Attempted(id) /\ ~Succeeded(id)
  BY <1>1, <1>2, <1>3, EntersUntold
<1>8. \A x : Attempted(x)' \/ Succeeded(x)' => Ran(x)'
  <2>1. \A x : Ran(x) => Ran(x)'
    <3>1. \A i \in 1 .. run.k : i \in 1 .. run'.k
      BY <1>1, <1>5
    <3> QED
      BY <1>1, <3>1 DEF Ran, Entrypoint
  <2> QED
    BY <1>4, <2>1 DEF Told
<1>9. RootTold'
  <2>1. run'.k >= 1 /\ id = Entrypoint'[run'.k]
    BY <1>1, <1>2, <1>5 DEF Entrypoint
  <2>2. (Attempted(id)' <=> FALSE) /\ (Succeeded(id)' <=> FALSE)
    BY <1>4, <1>7
  <2> QED
    BY <1>5, <1>6, <2>1, <2>2 DEF RootTold, RootLane, Attempted, Succeeded
<1>10. PastTold'
  <2>1. Passed(run.k) /\ run.failure = Null
    BY <1>1, <1>3 DEF Told, PastTold
  <2>2. run'.k - 1 = run.k
    BY <1>1, <1>5
  <2>3. \A n : Passed(n) => Passed(n)'
    BY <1>4 DEF Passed, Entrypoint
  <2>4. \A n : n = run'.k - 1 => Passed(n)'
    BY <2>1, <2>2, <2>3
  <2> QED
    BY <1>5, <1>6, <2>1, <2>4 DEF PastTold, Passed
<1>11. Verdict'
  BY <1>5 DEF Verdict
<1> QED
  BY <1>8, <1>9, <1>10, <1>11 DEF Chronicle

\* What an entrypoint that is over has told.
LEMMA EntryOver ==
  ASSUME IInv, Tree, Told, run.st = "entry", Live, fr[Body(Root)].st = "done"
  PROVE  /\ run.k >= 1 /\ run.k \in Nat /\ Passed(run.k - 1) /\ Attempted(Entrypoint[run.k])
         /\ Succeeded(Entrypoint[run.k]) <=> fr[Body(Root)].ret.ok
         /\ fr[Body(Root)].ret.ok => Passed(run.k)
<1>1. /\ run.k >= 1 /\ run.k \in Nat /\ Passed(run.k - 1) /\ Attempted(Entrypoint[run.k])
      /\ Succeeded(Entrypoint[run.k]) <=> fr[Body(Root)].ret.ok
  BY DEF Told, RootTold, PastTold, IInv
<1>2. \A i \in 1 .. run.k : i = run.k \/ i \in 1 .. run.k - 1
  BY <1>1
<1> QED
  BY <1>1, <1>2 DEF Passed

LEMMA EntryEndTold ==
  ASSUME IInv, Tree, Told, EntryEnd, UNCHANGED wf PROVE Chronicle'
<1>1. /\ run.st = "entry" /\ Live /\ fr[Body(Root)].st = "done" /\ fr' = <<>> /\ ~Live'
      /\ DOMAIN run = RunFields /\ ~run.terminated /\ run.failure = Null
  BY DEF EntryEnd, IInv, IsDone, Live, Told, PastTold
<1>2. /\ run.k >= 1 /\ run.k \in Nat /\ Passed(run.k - 1) /\ Attempted(Entrypoint[run.k])
      /\ Succeeded(Entrypoint[run.k]) <=> fr[Body(Root)].ret.ok
      /\ fr[Body(Root)].ret.ok => Passed(run.k)
  BY <1>1, EntryOver
<1>3. /\ \A x : Attempted(x)' <=> Attempted(x)
      /\ \A x : Succeeded(x)' <=> Succeeded(x)
  BY RunStepTells DEF RunStep
<1>4. /\ run'.k = run.k
      /\ \/ /\ ~fr[Body(Root)].ret.ok /\ run'.st = "settle" /\ ~run'.terminated
            /\ run'.failure = fr[Body(Root)].ret.v
         \/ /\ fr[Body(Root)].ret.ok /\ run'.st = "final" /\ run'.terminated /\ run'.failure = Null
         \/ /\ fr[Body(Root)].ret.ok /\ run' = run
  BY <1>1 DEF EntryEnd, RunFields, WindUp
<1>5. ~fr[Body(Root)].ret.ok => fr[Body(Root)].ret.v # Null
  BY <1>1 DEF Told, FailuresSpeak, IsDone, Live
<1>6. PICK k : k = run.k
  OBVIOUS
<1>7. Passed(k - 1)' /\ (fr[Body(Root)].ret.ok => Passed(k)')
  <2>1. \A n : Passed(n) => Passed(n)'
    BY <1>3 DEF Passed, Entrypoint
  <2> QED
    BY <1>2, <1>6, <2>1
<1>8. \A x : Attempted(x)' \/ Succeeded(x)' => Ran(x)'
  <2>1. \A x : Ran(x) => Ran(x)'
    BY <1>1, <1>4 DEF Ran, Entrypoint
  <2> QED
    BY <1>3, <2>1 DEF Told
<1>9. RootTold'
  BY <1>1 DEF RootTold
<1>10. PastTold'
  BY <1>1, <1>4, <1>6, <1>7 DEF PastTold, Passed
<1>11. Verdict'
  <2>1. CASE run'.st = "settle"
    <3>1. ~run'.terminated /\ run'.failure # Null /\ run'.k = k /\ k >= 1
      BY <1>1, <1>2, <1>4, <1>5, <1>6, <2>1
    <3>2. /\ Attempted(Entrypoint[k])' /\ ~Succeeded(Entrypoint[k])'
      <4>1. PICK e : e = Entrypoint[k] /\ e = Entrypoint'[k]
        BY DEF Entrypoint
      <4>2. ~fr[Body(Root)].ret.ok
        BY <1>1, <1>4, <2>1
      <4>3. Attempted(e)' /\ ~Succeeded(e)'
        BY <1>2, <1>3, <1>6, <4>1, <4>2
      <4> QED
        BY <4>1, <4>3 DEF Attempted, Succeeded, RootLane
    <3> QED
      BY <1>7, <2>1, <3>1, <3>2 DEF Verdict, Passed, Attempted, Succeeded
  <2>2. CASE run'.st # "settle"
    BY <1>1, <1>4, <2>2 DEF Verdict
  <2> QED
    BY <2>1, <2>2
<1> QED
  BY <1>8, <1>9, <1>10, <1>11 DEF Chronicle

LEMMA EntriesExhaustedTold ==
  ASSUME IInv, Tree, Told, EntriesExhausted, UNCHANGED wf PROVE Chronicle'
<1>1. /\ run.st = "entry" /\ ~Live /\ ~Live' /\ DOMAIN run = RunFields /\ ~run.terminated
      /\ run.failure = Null /\ Passed(run.k) /\ run.k = Len(Entrypoint)
  BY DEF EntriesExhausted, IInv, Live, Told, PastTold
<1>2. /\ \A x : Attempted(x)' <=> Attempted(x)
      /\ \A x : Succeeded(x)' <=> Succeeded(x)
  BY RunStepTells DEF RunStep
<1>3. /\ run'.k = run.k /\ run'.st = "settle" /\ ~run'.terminated /\ run'.failure = Null
  BY <1>1 DEF EntriesExhausted, RunFields
<1>4. PICK k : k = run.k
  OBVIOUS
<1>5. Passed(k)'
  <2>1. \A n : Passed(n) => Passed(n)'
    BY <1>2 DEF Passed, Entrypoint
  <2> QED
    BY <1>1, <1>4, <2>1
<1>6. \A x : Attempted(x)' \/ Succeeded(x)' => Ran(x)'
  <2>1. \A x : Ran(x) => Ran(x)'
    BY <1>1, <1>3 DEF Ran, Entrypoint
  <2> QED
    BY <1>2, <2>1 DEF Told
<1>7. RootTold' /\ PastTold'
  BY <1>1, <1>3 DEF RootTold, PastTold
<1>8. Verdict'
  <2>1. k = Len(Entrypoint') /\ run'.k = k
    BY <1>1, <1>3, <1>4 DEF Entrypoint
  <2> QED
    BY <1>3, <1>5, <2>1 DEF Verdict, Passed
<1> QED
  BY <1>6, <1>7, <1>8 DEF Chronicle

LEMMA FinalStartTold ==
  ASSUME IInv, Tree, Told, EntriesDiffer, FinalStart, UNCHANGED wf PROVE Chronicle'
<1>1. /\ run.st = "final" /\ ~Live /\ DOMAIN run = RunFields /\ run.terminated
      /\ run.failure = Null /\ Passed(run.k)
  BY DEF FinalStart, IInv, Live, Told, PastTold
<1>2. /\ \A x : Attempted(x)' <=> Attempted(x)
      /\ \A x : Succeeded(x)' <=> Succeeded(x)
  BY RunStepTells DEF RunStep
<1>3. PICK k, id : k = run.k /\ id = FinalizeNode
  OBVIOUS
<1>4. Passed(k)'
  <2>1. \A n : Passed(n) => Passed(n)'
    BY <1>2 DEF Passed, Entrypoint
  <2> QED
    BY <1>1, <1>3, <2>1
<1>5. ~Attempted(id) /\ ~Succeeded(id)
  BY <1>1, <1>3, EntersUntold
<1>6. id = FinalizeNode'
  BY <1>3 DEF FinalizeNode
<1>7. CASE id \in DOMAIN Nodes
  <2>1. fr' = RunNode(id) /\ run' = run
    BY <1>3, <1>7 DEF FinalStart
  <2>2. /\ Live' /\ fr'[Body(Root)].node = id /\ fr'[Body(Root)].path = Child(Root, id)
        /\ fr'[Body(Root)].iter = 0 /\ fr'[Body(Root)].st = "new"
    BY <2>1, RunNodeFrame
  <2>3. \A x : Attempted(x)' \/ Succeeded(x)' => Ran(x)'
    <3>1. \A x : Ran(x) => Ran(x)'
      BY <2>1, <2>2 DEF Ran, Entrypoint, FinalizeNode
    <3> QED
      BY <1>2, <3>1 DEF Told
  <2>4. RootTold'
    <3>1. (Attempted(id)' <=> FALSE) /\ (Succeeded(id)' <=> FALSE)
      BY <1>2, <1>5
    <3> QED
      BY <1>1, <1>6, <2>1, <2>2, <3>1 DEF RootTold, RootLane, Attempted, Succeeded
  <2>5. PastTold'
    BY <1>1, <1>3, <1>4, <2>1 DEF PastTold, Passed
  <2>6. Verdict'
    BY <1>1, <2>1 DEF Verdict
  <2> QED
    BY <2>3, <2>4, <2>5, <2>6 DEF Chronicle
<1>8. CASE id \notin DOMAIN Nodes
  <2>1. /\ fr' = <<>> /\ ~Live' /\ run'.st = "settle" /\ run'.failure = FinalizeMissing
        /\ run'.terminated /\ run'.k = run.k
    BY <1>1, <1>3, <1>8 DEF FinalStart, RunFields, Live
  <2>2. \A x : Attempted(x)' \/ Succeeded(x)' => Ran(x)'
    <3>1. \A x : Ran(x) => Ran(x)'
      BY <1>1, <2>1 DEF Ran, Entrypoint, FinalizeNode
    <3> QED
      BY <1>2, <3>1 DEF Told
  <2>3. RootTold'
    BY <2>1 DEF RootTold
  <2>4. PastTold'
    BY <1>3, <1>4, <2>1 DEF PastTold, Passed
  <2>5. Verdict'
    <3>1. id \notin DOMAIN Nodes' /\ run'.failure = FinalizeMissing'
      BY <1>8, <2>1 DEF Nodes, FinalizeMissing, FinalizeNode
    <3> QED
      BY <1>6, <2>1, <3>1 DEF Verdict
  <2> QED
    BY <2>2, <2>3, <2>4, <2>5 DEF Chronicle
<1> QED
  BY <1>7, <1>8

LEMMA FinalEndTold ==
  ASSUME IInv, Tree, Told, FinalEnd, UNCHANGED wf PROVE Chronicle'
<1>1. /\ run.st = "final" /\ Live /\ fr[Body(Root)].st = "done" /\ fr' = <<>> /\ ~Live'
      /\ DOMAIN run = RunFields /\ run.terminated /\ Passed(run.k)
  BY DEF FinalEnd, IInv, IsDone, Live, Told, PastTold
<1>2. /\ \A x : Attempted(x)' <=> Attempted(x)
      /\ \A x : Succeeded(x)' <=> Succeeded(x)
  BY RunStepTells DEF RunStep
<1>3. PICK k, id : k = run.k /\ id = FinalizeNode
  OBVIOUS
<1>4. /\ id = fr[Body(Root)].node /\ Attempted(id)
      /\ Succeeded(id) <=> fr[Body(Root)].ret.ok
  BY <1>1, <1>3 DEF Told, RootTold
<1>5. id \in DOMAIN Nodes
  <2>1. Sound(fr[Body(Root)])
    BY <1>1 DEF IInv, AllSound, Live
  <2> QED
    BY <1>4, <2>1 DEF Sound
<1>6. /\ run'.st = "settle" /\ run'.terminated /\ run'.k = run.k
      /\ run'.failure = Null <=> fr[Body(Root)].ret.ok
  <2>1. ~fr[Body(Root)].ret.ok => fr[Body(Root)].ret.v # Null
    BY <1>1 DEF Told, FailuresSpeak, IsDone, Live
  <2>2. FinalizeFailure = Null <=> fr[Body(Root)].ret.ok
    BY <2>1 DEF FinalizeFailure
  <2>3. run' = [run EXCEPT !.st = "settle", !.failure = FinalizeFailure]
    BY DEF FinalEnd
  <2> QED
    BY <1>1, <2>2, <2>3 DEF RunFields
<1>7. Passed(k)'
  <2>1. \A n : Passed(n) => Passed(n)'
    BY <1>2 DEF Passed, Entrypoint
  <2> QED
    BY <1>1, <1>3, <2>1
<1>8. \A x : Attempted(x)' \/ Succeeded(x)' => Ran(x)'
  <2>1. \A x : Ran(x) => Ran(x)'
    BY <1>1, <1>6 DEF Ran, Entrypoint, FinalizeNode
  <2> QED
    BY <1>2, <2>1 DEF Told
<1>9. RootTold' /\ PastTold'
  BY <1>1, <1>3, <1>6, <1>7 DEF RootTold, PastTold, Passed
<1>10. Verdict'
  <2>1. id \in DOMAIN Nodes' /\ id = FinalizeNode'
    BY <1>3, <1>5 DEF Nodes, FinalizeNode
  <2>2. Attempted(id)' /\ (Succeeded(id)' <=> run'.failure = Null)
    BY <1>2, <1>4, <1>6
  <2> QED
    BY <1>6, <2>1, <2>2 DEF Verdict, Attempted, Succeeded, RootLane
<1> QED
  BY <1>8, <1>9, <1>10 DEF Chronicle

LEMMA SettleTold ==
  ASSUME IInv, Tree, Clock, Told, Settle, UNCHANGED wf PROVE Chronicle' /\ Ending'
<1>1. /\ run.st = "settle" /\ fr' = fr /\ leds' = leds /\ DOMAIN run = RunFields
      /\ run' = [run EXCEPT !.st = "done", !.stop = StopReason,
                   !.status = IF StopReason = "completed" THEN "completed" ELSE "failed"]
  BY DEF Settle, IInv, store
<1>2. /\ \A x : Attempted(x)' <=> Attempted(x)
      /\ \A x : Succeeded(x)' <=> Succeeded(x)
  BY RunStepTells DEF RunStep
<1>3. /\ run'.st = "done" /\ run'.k = run.k /\ run'.failure = run.failure
      /\ run'.terminated = run.terminated /\ run'.stop = StopReason
      /\ run'.status = IF StopReason = "completed" THEN "completed" ELSE "failed"
  BY <1>1 DEF RunFields
<1>4. (Live' <=> Live) /\ ~Live
  BY <1>1 DEF Live, Tree
<1>5. \A x : Attempted(x)' \/ Succeeded(x)' => Ran(x)'
  <2>1. \A x : Ran(x) => Ran(x)'
    BY <1>1, <1>3 DEF Ran, Entrypoint, FinalizeNode
  <2> QED
    BY <1>2, <2>1 DEF Told
<1>6. \A n : Passed(n) => Passed(n)'
  BY <1>2 DEF Passed, Entrypoint
<1>7. PICK k : k = run.k
  OBVIOUS
<1>8. RootTold' /\ PastTold'
  <2>1. run.terminated => Passed(k)'
    BY <1>6, <1>7 DEF Told, PastTold
  <2> QED
    BY <1>3, <1>4, <1>7, <2>1 DEF RootTold, PastTold, Passed
<1>9. Verdict'
  <2>1. PICK id : id = FinalizeNode /\ id = FinalizeNode'
    BY DEF FinalizeNode
  <2>2. PICK e : e = Entrypoint[k] /\ e = Entrypoint'[k]
    BY DEF Entrypoint
  <2>3. Verdict
    BY DEF Told
  <2>4. CASE run.terminated
    <3>1. CASE id \in DOMAIN Nodes
      <4>1. Attempted(id) /\ (Succeeded(id) <=> run.failure = Null)
        BY <1>1, <2>1, <2>3, <2>4, <3>1 DEF Verdict
      <4>2. Attempted(id)' /\ (Succeeded(id)' <=> run'.failure = Null) /\ id \in DOMAIN Nodes'
        BY <1>2, <1>3, <3>1, <4>1 DEF Nodes
      <4> QED
        BY <1>3, <2>1, <2>4, <4>2 DEF Verdict, Attempted, Succeeded, RootLane
    <3>2. CASE id \notin DOMAIN Nodes
      <4>1. run.failure = FinalizeMissing
        BY <1>1, <2>1, <2>3, <2>4, <3>2 DEF Verdict
      <4>2. run'.failure = FinalizeMissing' /\ id \notin DOMAIN Nodes'
        BY <1>3, <3>2, <4>1 DEF FinalizeMissing, FinalizeNode, Nodes
      <4> QED
        BY <1>3, <2>1, <2>4, <4>2 DEF Verdict
    <3> QED
      BY <3>1, <3>2
  <2>5. CASE ~run.terminated /\ run.failure = Null
    <3>1. k = Len(Entrypoint) /\ Passed(k)
      BY <1>1, <1>7, <2>3, <2>5 DEF Verdict
    <3>2. k = Len(Entrypoint') /\ Passed(k)'
      BY <1>6, <3>1 DEF Entrypoint
    <3> QED
      BY <1>3, <1>7, <2>5, <3>2 DEF Verdict, Passed
  <2>6. CASE ~run.terminated /\ run.failure # Null
    <3>1. k >= 1 /\ Passed(k - 1) /\ Attempted(e) /\ ~Succeeded(e)
      BY <1>1, <1>7, <2>2, <2>3, <2>6 DEF Verdict
    <3>2. Passed(k - 1)' /\ Attempted(e)' /\ ~Succeeded(e)'
      BY <1>2, <1>6, <3>1
    <3> QED
      BY <1>3, <1>7, <2>2, <2>6, <3>1, <3>2 DEF Verdict, Passed, Attempted, Succeeded, RootLane
  <2> QED
    BY <2>4, <2>5, <2>6
<1>10. Ending'
  <2>1. PICK x : /\ Emit(<<Root, 0>>, <<x>>)
                 /\ x.kind \in {"WorkflowCompleted", "WorkflowFailed"}
                 /\ x.kind = "WorkflowCompleted" <=> StopReason = "completed"
    <3>1. StopReason \in {"node_failed", "goal_unmet", "completed"}
      BY DEF StopReason
    <3> QED
      BY <3>1 DEF Settle, Ev, EvPay
  <2>2. PICK ev : events' = events \cup {ev} /\ ev.kind = x.kind
    <3>1. PICK ev : ev = Event(<<Root, 0>>, NextSeq(<<Root, 0>>), x)
      OBVIOUS
    <3>2. events' = events \cup {ev}
      BY <2>1, <3>1, EmitOne
    <3>3. ev.kind = x.kind
      BY <3>1 DEF Event
    <3> QED
      BY <3>2, <3>3
  <2>3. Terminal = {}
    BY <1>1 DEF Told, Ending
  <2>4. Terminal' = {ev}
    BY <2>1, <2>2, <2>3 DEF Terminal, Of
  <2>5. StopReason' = StopReason
    BY <1>1, <1>3 DEF StopReason, ShouldFail, Goals, FailOnUnmet, AllRequiredMet, GoalMet, RootLed
  <2> QED
    BY <1>3, <2>1, <2>2, <2>4, <2>5 DEF Ending
<1> QED
  BY <1>5, <1>8, <1>9, <1>10 DEF Chronicle

LEMMA RunStepTold ==
  ASSUME IInv, Tree, Clock, Told, EntriesDiffer, RunStep, UNCHANGED wf PROVE Told'
<1>1. Chronicle'
  BY EntryStartTold, EntryEndTold, EntriesExhaustedTold, FinalStartTold, FinalEndTold, SettleTold
     DEF RunStep
<1>2. Ending'
  <2>1. CASE Settle
    BY <2>1, SettleTold
  <2>2. CASE EntryStart \/ EntryEnd \/ EntriesExhausted \/ FinalStart \/ FinalEnd
    <3>1. events' = events
      BY <2>2 DEF EntryStart, EntryEnd, EntriesExhausted, FinalStart, FinalEnd, clock
    <3>2. run.st \in {"entry", "final"} /\ run'.st # "done"
      BY <2>2 DEF EntryStart, EntryEnd, EntriesExhausted, FinalStart, FinalEnd, IInv, RunFields,
         WindUp
    <3> QED
      BY <3>1, <3>2 DEF Told, Ending, Terminal, Of
  <2> QED
    BY <2>1, <2>2 DEF RunStep
<1>3. DeepPaths' /\ FailuresSpeak'
  BY RunStepDeep
<1> QED
  BY <1>1, <1>2, <1>3 DEF Chronicle, Told

LEMMA ToldInit == Init => Told
<1> SUFFICES ASSUME Init PROVE Told
  OBVIOUS
<1>1. /\ DOMAIN fr = {} /\ run = StartRun
      /\ \A e \in events : e.kind = "WorkflowStarted"
  BY DEF Init, StartEvents
<1>2. run.st = "entry" /\ run.k = 0 /\ run.failure = Null /\ ~run.terminated
  BY <1>1 DEF StartRun
<1>3. \A id : ~Attempted(id) /\ ~Succeeded(id)
  BY <1>1 DEF Attempted, Succeeded, OnLane, Of
<1>4. Terminal = {}
  BY <1>1 DEF Terminal, Of
<1>5. 1 .. 0 = {}
  OBVIOUS
<1> QED
  BY <1>1, <1>2, <1>3, <1>4, <1>5 DEF Told, RootTold, DeepPaths, PastTold, Verdict, Ending,
     FailuresSpeak, Live, Passed

LEMMA ToldStutter == ASSUME Told, UNCHANGED vars PROVE Told'
<1>1. UNCHANGED <<wf, events, fr, leds, run>>
  BY DEF vars
<1>2. /\ \A id : Attempted(id)' <=> Attempted(id)
      /\ \A id : Succeeded(id)' <=> Succeeded(id)
  BY <1>1 DEF Attempted, Succeeded, OnLane, Of
<1>3. (\A id : Attempted(id) \/ Succeeded(id) => Ran(id))'
  BY <1>1, <1>2 DEF Told, Ran, Live, Entrypoint, FinalizeNode
<1>4. (Live' <=> Live) /\ (\A n : Passed(n)' <=> Passed(n))
  BY <1>1, <1>2 DEF Live, Passed, Entrypoint
<1>5. RootTold'
  <2>1. PICK f : f = fr[Body(Root)] /\ f = fr'[Body(Root)]
    BY <1>1
  <2>2. /\ Attempted(f.node)' <=> Attempted(f.node)
        /\ Succeeded(f.node)' <=> Succeeded(f.node)
    BY <1>2
  <2>3. RootTold
    BY DEF Told
  <2> QED
    BY <1>1, <1>4, <2>1, <2>2, <2>3
       DEF RootTold, Entrypoint, FinalizeNode, Attempted, Succeeded, RootLane
<1>6. DeepPaths' /\ FailuresSpeak'
  BY <1>1 DEF Told, DeepPaths, FailuresSpeak, IsDone
<1>7. PastTold'
  <2>1. PICK k : k = run.k
    OBVIOUS
  <2>2. (Passed(k)' <=> Passed(k)) /\ (Passed(k - 1)' <=> Passed(k - 1))
    BY <1>4
  <2> QED
    BY <1>1, <1>4, <2>1, <2>2 DEF Told, PastTold, Passed
<1>8. Verdict'
  <2>1. PICK k, id, e : k = run.k /\ id = FinalizeNode /\ e = Entrypoint[k]
    OBVIOUS
  <2>2. /\ Passed(k)' <=> Passed(k)
        /\ Passed(k - 1)' <=> Passed(k - 1)
        /\ Attempted(id)' <=> Attempted(id)
        /\ Succeeded(id)' <=> Succeeded(id)
        /\ Attempted(e)' <=> Attempted(e)
        /\ Succeeded(e)' <=> Succeeded(e)
    BY <1>2, <1>4
  <2>3. Verdict
    BY DEF Told
  <2>4. id = FinalizeNode' /\ e = Entrypoint'[k]
    BY <1>1, <2>1 DEF FinalizeNode, Entrypoint
  <2> QED
    BY <1>1, <2>1, <2>2, <2>3, <2>4
       DEF Verdict, Passed, Attempted, Succeeded, RootLane, FinalizeMissing, FinalizeNode, Nodes,
           Entrypoint
<1>9. Ending'
  <2>1. Terminal' = Terminal /\ StopReason' = StopReason
    BY <1>1 DEF Terminal, Of, StopReason, ShouldFail, Goals, FailOnUnmet, AllRequiredMet, GoalMet,
       RootLed
  <2> QED
    BY <1>1, <2>1 DEF Told, Ending
<1> QED
  BY <1>3, <1>5, <1>6, <1>7, <1>8, <1>9 DEF Told

LEMMA ToldStep ==
  ASSUME IInv, Tree, Clock, ErrorsSpeak, EntriesDiffer, Told, [Next]_vars PROVE Told'
<1>1. CASE UNCHANGED vars
  BY <1>1, ToldStutter
<1>2. ASSUME NEW p \in DOMAIN fr, FrameStep(p) \/ HostStep(p), UNCHANGED wf PROVE Told'
  BY <1>2, StepTold
<1>3. CASE RunStep /\ UNCHANGED wf
  BY <1>3, RunStepTold
<1> QED
  BY <1>1, <1>2, <1>3 DEF Next, Progress, Returned

\* The nodes that started and did not succeed, when a run is over: none, or the
\* one whose message is the failure.
LEMMA FailuresToldApart ==
  ASSUME IInv, Tree, Told, run.st = "done"
  PROVE  LET failed == {id \in DOMAIN Nodes : Attempted(id) /\ ~Succeeded(id)}
             missing == run.terminated /\ FinalizeNode \notin DOMAIN Nodes \cup {NoNode}
         IN  ErrorsSpeak => ((run.failure # Null) <=> (failed # {} \/ missing))
<1> DEFINE failed == {id \in DOMAIN Nodes : Attempted(id) /\ ~Succeeded(id)}
           missing == run.terminated /\ FinalizeNode \notin DOMAIN Nodes \cup {NoNode}
<1> SUFFICES ASSUME ErrorsSpeak PROVE (run.failure # Null) <=> (failed # {} \/ missing)
  OBVIOUS
<1>1. /\ run.k \in Nat /\ run.k <= Len(Entrypoint) /\ Len(Entrypoint) \in Nat
      /\ \A i \in 1 .. Len(Entrypoint) : Entrypoint[i] \in DOMAIN Nodes
  BY WorkflowAssumption DEF IInv, Tree, Accepted, Entrypoint, Nodes
<1>2. \A id \in failed : \/ \E i \in 1 .. run.k : Entrypoint[i] = id
                         \/ id = FinalizeNode /\ run.terminated
  BY DEF Told, Ran
<1>3. CASE run.terminated
  <2>1. \A i \in 1 .. run.k : Succeeded(Entrypoint[i])
    BY <1>3 DEF Told, PastTold, Passed
  <2>2. \A id \in failed : id = FinalizeNode
    BY <1>2, <2>1
  <2>3. CASE FinalizeNode \in DOMAIN Nodes
    <3>1. Attempted(FinalizeNode) /\ (Succeeded(FinalizeNode) <=> run.failure = Null)
      BY <1>3, <2>3 DEF Told, Verdict
    <3> QED
      BY <2>2, <2>3, <3>1
  <2>4. CASE FinalizeNode \notin DOMAIN Nodes
    <3>1. run.failure = FinalizeMissing /\ UnknownNode # Null
      BY <1>3, <2>4 DEF Told, Verdict, ErrorsSpeak
    <3> QED
      BY <1>3, <2>2, <2>4, <3>1 DEF FinalizeMissing
  <2> QED
    BY <2>3, <2>4
<1>4. CASE ~run.terminated /\ run.failure = Null
  <2>1. \A i \in 1 .. run.k : Succeeded(Entrypoint[i])
    BY <1>4 DEF Told, Verdict, Passed
  <2> QED
    BY <1>2, <1>4, <2>1
<1>5. CASE ~run.terminated /\ run.failure # Null
  <2>1. run.k >= 1 /\ Attempted(Entrypoint[run.k]) /\ ~Succeeded(Entrypoint[run.k])
    BY <1>5 DEF Told, Verdict
  <2>2. Entrypoint[run.k] \in failed
    BY <1>1, <2>1
  <2> QED
    BY <1>5, <2>2
<1> QED
  BY <1>3, <1>4, <1>5

LEMMA DoneIsExplained ==
  ASSUME IInv, Tree, Told, ErrorsSpeak, run.st = "done" PROVE StatusExplained
<1> DEFINE started == {id \in DOMAIN Nodes : Attempted(id)}
           failed == {id \in started : ~Succeeded(id)}
           missing == run.terminated /\ FinalizeNode \notin DOMAIN Nodes \cup {NoNode}
           unmet == Goals # {} /\ FailOnUnmet /\ ~AllRequiredMet
<1>1. PICK e : Terminal = {e} /\ (e.kind = "WorkflowCompleted" <=> run.stop = "completed")
  BY DEF Told, Ending
<1>2. run.stop = StopReason /\ run.status = IF run.stop = "completed" THEN "completed" ELSE "failed"
  BY DEF Told, Ending
<1>3. (run.failure # Null) <=> (failed # {} \/ missing)
  <2>1. failed = {id \in DOMAIN Nodes : Attempted(id) /\ ~Succeeded(id)}
    OBVIOUS
  <2> QED
    BY <2>1, FailuresToldApart
<1>4. (run.status = "completed") <=> (Of("WorkflowCompleted") # {})
  <2>1. Of("WorkflowCompleted") # {} <=> e.kind = "WorkflowCompleted"
    <3>1. e \in Of("WorkflowCompleted") \/ e \in Of("WorkflowFailed")
      BY <1>1 DEF Terminal
    <3>2. Of("WorkflowCompleted") \subseteq {e}
      BY <1>1 DEF Terminal
    <3> QED
      BY <3>1, <3>2 DEF Of
  <2> QED
    BY <1>1, <1>2, <2>1
<1>5. /\ (run.stop = "node_failed") <=> (failed # {} \/ missing)
      /\ (run.stop = "goal_unmet") <=> (failed = {} /\ ~missing /\ unmet)
  BY <1>2, <1>3 DEF StopReason, ShouldFail
<1>6. run.stop = "completed" => \/ EntryIds \subseteq started
                                \/ run.terminated /\ FinalizeNode \in started \cup {NoNode}
  <2> SUFFICES ASSUME run.stop = "completed"
               PROVE  \/ EntryIds \subseteq started
                      \/ run.terminated /\ FinalizeNode \in started \cup {NoNode}
    OBVIOUS
  <2>1. run.failure = Null /\ ~missing
    BY <1>2, <1>3 DEF StopReason
  <2>2. CASE run.terminated
    <3>1. FinalizeNode \in DOMAIN Nodes => Attempted(FinalizeNode)
      BY <2>2 DEF Told, Verdict
    <3> QED
      BY <2>1, <2>2, <3>1
  <2>3. CASE ~run.terminated
    <3>1. run.k = Len(Entrypoint) /\ \A i \in 1 .. run.k : Attempted(Entrypoint[i])
      BY <2>1, <2>3 DEF Told, Verdict, Passed
    <3>2. Entrypoint \in Seq(DOMAIN Nodes)
      BY WorkflowAssumption DEF IInv, Accepted, Entrypoint, Nodes
    <3> QED
      BY <3>1, <3>2 DEF EntryIds
  <2> QED
    BY <2>2, <2>3
<1> HIDE DEF started, failed, missing, unmet
<1>7. \E x \in Terminal : Terminal = {x}
  BY <1>1
<1> QED
  BY <1>4, <1>5, <1>6, <1>7 DEF StatusExplained, started, failed, missing, unmet

\* A run ends with one terminal event, and that event, the status and the stop
\* reason agree with what the nodes did (runner.rs Runner::run), in every
\* workflow whose entrypoints are different nodes, its finalize node another
\* one, and whose failures carry a message: events name the lane of a node, so an
\* entrypoint that is listed twice, and fails only the second time, would have
\* failed the run and still count as succeeded.
THEOREM StatusIsExplained ==
  ASSUME ErrorsSpeak PROVE Spec /\ []EntriesDiffer => []StatusExplained
<1>1. Init => Told
  BY ToldInit
<1>2. IInv /\ Tree /\ Books /\ EntriesDiffer /\ Told /\ [Next]_vars => Told'
  BY ToldStep DEF Books
<1>3. IInv /\ Tree /\ Told => StatusExplained
  <2>1. CASE run.st # "done"
    BY <2>1 DEF Told, Ending, StatusExplained
  <2> QED
    BY <2>1, DoneIsExplained
<1> QED
  BY <1>1, <1>2, <1>3, BooksInvariant, PTL DEF Spec

-----------------------------------------------------------------------------
(* Lanes used and lanes ahead                                              *)

\* Below a while, whose passes are the iterations of its body's lanes, there is
\* no other while, and no group, whose sessions start at iteration 0 again.
LoopsApart ==
  \A p, q \in DOMAIN fr :
    fr[p].kind = "while" /\ Prefix(p, q) /\ p # q
      => fr[q].kind \notin {"while", "session_group", "session"}

Started == Of("NodeStarted")

Looped(p) == \E q \in DOMAIN fr : fr[q].kind = "while" /\ Prefix(q, p) /\ q # p

\* The lanes a frame and what is below it may use, in the pass it is in.
Reaches(p, l) == Prefix(fr[p].path, l[1]) /\ (Looped(p) => l[2] = fr[p].iter)

\* Those of them on which it has not let a node run yet: all of them when it is
\* new, else the items and the passes that are still to come.
ToCome(f, l) ==
  \/ f.st = "new"
  \/ f.st \in {"loading", "acquire"} /\ Len(l[1]) > Len(f.path)
  \/ /\ f.kind \in {"map", "for_each"} /\ f.st \in {"fan", "loop", "body"}
     /\ \E j \in Nat : j >= f.k /\ Prefix(Index(f.path, j), l[1])
  \/ /\ f.kind = "while" /\ f.st \in {"loop", "body"}
     /\ Prefix(Child(f.path, "body"), l[1]) /\ l[2] >= f.k

Ahead(p, l) == Reaches(p, l) /\ ToCome(fr[p], l)

IsLane(l) == Len(l[1]) \in Nat /\ l[2] \in Nat

\* What is known of a frame g below the frame f.
Within(f, g) ==
  /\ Prefix(f.path, g.path)
  /\ f.kind \in {"map", "for_each"} =>
       \E j \in Nat : j < f.k /\ Prefix(Index(f.path, j), g.path)
  /\ f.kind = "while" => g.iter < f.k

Nested == \A p, q \in DOMAIN fr : Prefix(p, q) /\ p # q => Within(fr[p], fr[q])

\* Nodes have started below those that Runner::run has entered.
Entered ==
  /\ \A e \in Started : \E id : Ran(id) /\ Prefix(Child(Root, id), e.lane[1])
  /\ Live => \E id : Ran(id) /\ fr[Body(Root)].path = Child(Root, id)
  /\ run.st = "final" => run.terminated

Lanewise ==
  /\ \A p \in DOMAIN fr : fr[p].iter \in Nat
  /\ \A e \in Started : IsLane(e.lane)
  /\ Nested
  /\ Entered
  /\ \A e \in Started : \A p \in DOMAIN fr : ~Ahead(p, e.lane)
  /\ LanesEnteredOnce

-----------------------------------------------------------------------------
(* Paths                                                                   *)

LEMMA ElementPath ==
  ASSUME NEW path, IsPath(path), NEW x
  PROVE  /\ Len(path) \in Nat /\ Len(Append(path, x)) = Len(path) + 1
         /\ Append(path, x)[Len(path) + 1] = x
         /\ Prefix(path, Append(path, x))
<1> DEFINE S == {path[i] : i \in 1 .. Len(path)} \cup {x}
<1>1. path \in Seq(S) /\ x \in S /\ Len(path) \in Nat
  <2>1. path \in Seq({path[i] : i \in 1 .. Len(path)})
    BY DEF IsPath
  <2> QED
    BY <2>1
<1> HIDE DEF S
<1> QED
  BY <1>1, AppendProperties DEF Prefix

\* A path continues one item of a map or a loop at most.
LEMMA OneItem ==
  ASSUME NEW path, IsPath(path), NEW i \in Nat, NEW j \in Nat, NEW r, Len(r) \in Nat,
         Prefix(Index(path, i), r), Prefix(Index(path, j), r)
  PROVE  i = j
<1>1. /\ Len(Index(path, i)) \in Nat /\ Len(Index(path, j)) \in Nat
  BY ElementPath DEF Index
<1>2. ~Apart(Index(path, i), Index(path, j))
  BY <1>1, PrefixesMeet
<1>3. <<"#", i>> = <<"#", j>>
  BY <1>2, ElementsApart DEF Index
<1> QED
  BY <1>3

\* The path of a child is that of its parent, if that is an item, or longer by one.
LEMMA ChildPath ==
  ASSUME NEW f, IsPath(f.path), NEW i, NEW g, Related(f, i, g)
  PROVE  /\ Prefix(f.path, g.path) /\ Len(f.path) \in Nat /\ Len(g.path) \in Nat
         /\ f.kind # "item" => Len(g.path) = Len(f.path) + 1
<1>1. Prefix(f.path, f.path) /\ Len(f.path) \in Nat
  BY DEF Prefix, IsPath
<1>2. g.path = f.path \/ \E x : g.path = Append(f.path, x)
  BY DEF Related, Index, Child
<1>3. f.kind # "item" => \E x : g.path = Append(f.path, x)
  BY DEF Related, Index, Child
<1>4. \A x : LET r == Append(f.path, x)
             IN  Prefix(f.path, r) /\ Len(r) = Len(f.path) + 1
  BY ElementPath
<1>5. Prefix(f.path, g.path) /\ Len(g.path) \in Nat
  <2>1. ASSUME NEW x, g.path = Append(f.path, x)
        PROVE  Prefix(f.path, g.path) /\ Len(g.path) \in Nat
    <3>1. Prefix(f.path, g.path) /\ Len(g.path) = Len(f.path) + 1
      BY <1>4, <2>1
    <3> QED
      BY <1>1, <3>1
  <2>2. CASE g.path = f.path
    BY <1>1, <2>2
  <2> QED
    BY <1>2, <2>1, <2>2
<1>6. f.kind # "item" => Len(g.path) = Len(f.path) + 1
  BY <1>3, <1>4
<1> QED
  BY <1>1, <1>5, <1>6

-----------------------------------------------------------------------------
(* What one step does to the frames                                        *)

LEMMA StepFrames ==
  ASSUME IInv, Tree, NEW p \in DOMAIN fr, FrameStep(p) \/ HostStep(p)
  PROVE  /\ p \in DOMAIN fr' /\ SameNode(fr[p], fr'[p])
         /\ Rooted(fr) /\ Rooted(fr') /\ Shaped(fr[p]) /\ Shaped(fr'[p])
         /\ \A q \in DOMAIN fr' : q \in DOMAIN fr /\ q # p => fr'[q] = fr[q]
<1>1. Moves(p) /\ Position(p) /\ Rooted(fr) /\ Shaped(fr[p])
  BY StepMoves, LiveFrame DEF Tree
<1>2. CASE Grown(fr, fr', leds, leds', p)
  BY <1>1, <1>2, GrownRooted DEF Grown
<1>3. CASE Reaped(fr, fr', leds, leds', p)
  <2>1. \A i \in KidsOf(fr[p]) : Kid(p, i) # p
    BY <1>1, <1>3, KidPosition DEF Reaped
  <2>2. Rooted(fr')
    BY <1>1, <1>3, ReapedRooted
  <2> QED
    BY <1>1, <1>3, <2>1, <2>2 DEF Reaped
<1> QED
  BY <1>1, <1>2, <1>3 DEF Moves, Moved

\* A frame that the step makes is a child of p, which had none.
LEMMA StepKid ==
  ASSUME IInv, Tree, NEW p \in DOMAIN fr, FrameStep(p) \/ HostStep(p),
         NEW q \in DOMAIN fr', q \notin DOMAIN fr
  PROVE  /\ KidsOf(fr[p]) = {}
         /\ \E i \in KidsOf(fr'[p]) :
              /\ i \in Nat /\ q = Kid(p, i)
              /\ Related(fr'[p], i, fr'[q]) /\ Counted(fr[p], i, fr'[p])
<1>1. Moves(p) /\ Births(p)
  BY StepMoves, StepBirths
<1>2. Grown(fr, fr', leds, leds', p)
  BY <1>1 DEF Moves, Moved, Reaped
<1>3. PICK i \in KidsOf(fr'[p]) : q = Kid(p, i)
  BY <1>2 DEF Grown
<1> QED
  BY <1>1, <1>2, <1>3 DEF Grown, Births

\* Waiting comes after the start, and the items or passes that a loop has begun
\* are never taken back.
Onward(p) ==
  /\ fr'[p].st \in {"loading", "acquire"} => fr[p].st = "new"
  /\ fr[p].kind \in {"map", "for_each", "while"} /\ fr'[p].st # "done"
       => fr'[p].k >= fr[p].k

LEMMA MapOnward ==
  ASSUME IInv, Tree, NEW p \in DOMAIN fr, FrameStep(p) \/ HostStep(p),
         fr[p].kind = "map", fr[p].st # "new"
  PROVE  fr'[p].st # "done" => fr'[p].k >= fr[p].k
<1>1. /\ DOMAIN fr[p] = FrameFields /\ fr[p].k \in Nat /\ Len(fr[p].items) \in Nat
      /\ fr[p].k <= Len(fr[p].items)
  BY LiveFrame DEF Shaped
<1>2. Dispatch(p) \/ Collect(p) \/ MapEnd(p)
  <2>1. CASE FrameStep(p)
    BY <2>1 DEF FrameStep, At, Program, ProgramFails, ActorStart, ActorUnresolved,
       MapStart, ItemStart, ItemEnd, ForEachStart, ForEachNext, ForEachItemEnd, ForEachEnd,
       WhileStart, WhilePass, WhilePassEnd, WhileEnd, WhileUnresolved, BranchStart,
       BranchUnresolved, ResumeStart, PassOn, GroupStart, SessionStart, SessionAcquire,
       SessionEnd, GroupJoin
  <2>2. CASE HostStep(p)
    BY <2>2 DEF HostStep, At, ActorReplies, ActorFails, ResumeLoaded, LoadFails
  <2> QED
    BY <2>1, <2>2
<1>3. CASE Dispatch(p)
  <2> DEFINE hi == Smaller(fr[p].k + Width(Def(p)), Len(fr[p].items))
             A == [fr EXCEPT ![p].k = hi]
  <2>1. p \in DOMAIN A /\ A[p].k = hi
    BY <1>1 DEF FrameFields
  <2>2. PICK H : fr' = Plus(A, H)
    BY <1>3 DEF Dispatch
  <2>3. hi >= fr[p].k
    <3>1. Width(Def(p)) \in Nat
      BY MapWidth
    <3> QED
      BY <1>1, <3>1 DEF Smaller
  <2> HIDE DEF A, hi
  <2> QED
    BY <2>1, <2>2, <2>3 DEF Plus
<1>4. CASE Collect(p)
  <2> DEFINE n == Len(fr[p].res)
             m == fr[p].k - n
             kids == {Kid(p, n + i) : i \in 1 .. m}
  <2>1. PICK R : fr' = [Without(fr, kids) EXCEPT ![p].res = R]
    BY <1>4 DEF Collect
  <2>2. p \notin kids
    BY <1>4 DEF Collect, Joined, IsDone, At
  <2> HIDE DEF kids
  <2> DEFINE W == Without(fr, kids)
  <2>3. p \in DOMAIN W /\ W[p] = fr[p]
    BY <2>2 DEF Without
  <2> HIDE DEF W
  <2>4. fr'[p].k = W[p].k
    BY <1>1, <2>1, <2>3 DEF W, FrameFields
  <2> QED
    BY <1>1, <2>3, <2>4
<1>5. CASE MapEnd(p)
  BY <1>5, DoneFrame DEF MapEnd, Complete
<1> QED
  BY <1>2, <1>3, <1>4, <1>5

LEMMA LoopOnward ==
  ASSUME IInv, Tree, NEW p \in DOMAIN fr, FrameStep(p) \/ HostStep(p),
         fr[p].kind \in {"for_each", "while"}, fr[p].st # "new"
  PROVE  fr'[p].st # "done" => fr'[p].k >= fr[p].k
<1>1. DOMAIN fr[p] = FrameFields /\ fr[p].k \in Nat
  BY LiveFrame DEF Shaped
<1>2. \/ ForEachNext(p) \/ ForEachItemEnd(p) \/ ForEachEnd(p)
      \/ WhilePass(p) \/ WhilePassEnd(p) \/ WhileEnd(p) \/ WhileUnresolved(p)
  <2>1. CASE FrameStep(p)
    BY <2>1 DEF FrameStep, At, Program, ProgramFails, ActorStart, ActorUnresolved,
       MapStart, Dispatch, Collect, MapEnd, ItemStart, ItemEnd, ForEachStart, WhileStart,
       BranchStart, BranchUnresolved, ResumeStart, PassOn, GroupStart, SessionStart,
       SessionAcquire, SessionEnd, GroupJoin
  <2>2. CASE HostStep(p)
    BY <2>2 DEF HostStep, At, ActorReplies, ActorFails, ResumeLoaded, LoadFails
  <2> QED
    BY <2>1, <2>2
<1>3. CASE ForEachNext(p) \/ WhilePass(p)
  <2>1. PICK E : /\ CountsOn(E, p, fr') /\ E[p].k = fr[p].k /\ p \in DOMAIN E
                 /\ DOMAIN E[p] = FrameFields
    <3>1. ASSUME NEW id, NEW path, NEW iter, NEW led,
                 CountsOn(Enter(p, id, path, iter, led), p, fr')
          PROVE  \E E : /\ CountsOn(E, p, fr') /\ E[p].k = fr[p].k /\ p \in DOMAIN E
                        /\ DOMAIN E[p] = FrameFields
      <4> DEFINE F == Enter(p, id, path, iter, led)
      <4>1. /\ \A q : q \in DOMAIN F <=> q \in DOMAIN fr \/ q = Body(p)
            /\ DOMAIN F[p] = FrameFields /\ F[p].k = fr[p].k
        BY EnterFrames
      <4> HIDE DEF F
      <4>2. CountsOn(F, p, fr')
        BY <3>1 DEF F
      <4> QED
        BY <4>1, <4>2
    <3>2. \E id, path, iter, led : CountsOn(Enter(p, id, path, iter, led), p, fr')
      BY <1>3 DEF ForEachNext, WhilePass, CountsOn
    <3> QED
      BY <3>1, <3>2
  <2>2. fr'[p].k = E[p].k + 1
    BY <2>1, CountedOn
  <2> QED
    BY <1>1, <2>1, <2>2
<1>4. CASE ForEachItemEnd(p) \/ WhilePassEnd(p)
  <2>1. fr[p].st = "body" /\ (LoopOn(p) \/ BodyFails(p))
    BY <1>4 DEF ForEachItemEnd, WhilePassEnd, At
  <2>2. CASE LoopOn(p)
    <3> DEFINE W == Without(fr, {Body(p)})
    <3>1. p # Body(p)
      BY <2>1, <2>2, BodyOwnsNothing DEF LoopOn
    <3>2. p \in DOMAIN W /\ W[p] = fr[p]
      BY <3>1 DEF Without
    <3>3. PICK r : fr' = [W EXCEPT ![p].st = "loop", ![p].ret = r]
      BY <2>2 DEF LoopOn
    <3> HIDE DEF W
    <3>4. fr'[p].k = fr[p].k
      BY <1>1, <3>2, <3>3 DEF FrameFields
    <3> QED
      BY <1>1, <3>4
  <2> QED
    BY <2>1, <2>2, BodyFailure
<1>5. CASE ForEachEnd(p) \/ WhileEnd(p) \/ WhileUnresolved(p)
  BY <1>5, DoneFrame DEF ForEachEnd, WhileEnd, WhileUnresolved, Complete
<1> QED
  BY <1>2, <1>3, <1>4, <1>5

LEMMA WaitOnward ==
  ASSUME IInv, Tree, NEW p \in DOMAIN fr, FrameStep(p) \/ HostStep(p),
         fr'[p].st \in {"loading", "acquire"}
  PROVE  fr[p].st = "new"
<1>1. /\ DOMAIN fr[p] = FrameFields /\ p \in DOMAIN fr' /\ Shaped(fr'[p])
      /\ fr'[p].kind = fr[p].kind
  BY LiveFrame, StepFrames DEF SameNode
<1>2. fr[p].kind \in Kinds \cup {"item", "session"}
  BY LiveFrame
<1>3. fr[p].kind \in {"resume_session", "session"}
  BY <1>1, <1>2 DEF Shaped, StatesOf, Kinds
<1>4. CASE fr[p].kind = "session"
  BY <1>4, FutureSteps, FutureStates
<1>5. CASE fr[p].kind = "resume_session"
  <2>1. ResumeStart(p) \/ PassOn(p) \/ (\E v : ResumeLoaded(p, v)) \/ LoadFails(p, DriveErr)
    <3>1. CASE FrameStep(p)
      BY <1>5, <3>1 DEF FrameStep, At, Program, ProgramFails, ActorStart, ActorUnresolved,
         MapStart, Dispatch, Collect, MapEnd, ItemStart, ItemEnd, ForEachStart, ForEachNext,
         ForEachItemEnd, ForEachEnd, WhileStart, WhilePass, WhilePassEnd, WhileEnd,
         WhileUnresolved, BranchStart, BranchUnresolved, GroupStart, SessionStart,
         SessionAcquire, SessionEnd, GroupJoin
    <3>2. CASE HostStep(p)
      BY <1>5, <3>2 DEF HostStep, At, ActorReplies, ActorFails
    <3> QED
      BY <3>1, <3>2
  <2>2. CASE ResumeStart(p)
    BY <2>2 DEF ResumeStart, At
  <2>3. ASSUME NEW v, ResumeLoaded(p, v) PROVE fr'[p].st = "body"
    BY <2>3, EnterFrames DEF ResumeLoaded
  <2>4. CASE LoadFails(p, DriveErr)
    BY <2>4, DoneFrame DEF LoadFails
  <2>5. CASE PassOn(p)
    <3>1. fr[p].st = "body"
      BY <2>5 DEF PassOn, At
    <3>2. CASE BodyFails(p)
      BY <3>1, <3>2, BodyFailure
    <3>3. CASE IsDone(Body(p)) /\ fr' = Done(Without(fr, {Body(p)}), p, fr[Body(p)].ret)
      BY <3>1, <3>3, BodyOwnsNothing, ReapedFrame
    <3> QED
      BY <2>5, <3>2, <3>3 DEF PassOn
  <2> QED
    BY <2>1, <2>2, <2>3, <2>4, <2>5
<1> QED
  BY <1>3, <1>4, <1>5

LEMMA StepOnward ==
  ASSUME IInv, Tree, NEW p \in DOMAIN fr, FrameStep(p) \/ HostStep(p) PROVE Onward(p)
<1>1. fr'[p].st \in {"loading", "acquire"} => fr[p].st = "new"
  BY WaitOnward
<1>2. CASE fr[p].st = "new"
  <2>1. fr[p].k = 0 /\ fr'[p].k \in Nat
    BY <1>2, StepFrames DEF Shaped
  <2> QED
    BY <1>1, <2>1 DEF Onward
<1>3. CASE fr[p].st # "new"
  BY <1>1, <1>3, MapOnward, LoopOnward DEF Onward
<1> QED
  BY <1>2, <1>3

-----------------------------------------------------------------------------
(* Nothing comes to be ahead                                               *)

LEMMA LoopedKept ==
  ASSUME IInv, Tree, NEW p \in DOMAIN fr, FrameStep(p) \/ HostStep(p),
         NEW q \in DOMAIN fr, q \in DOMAIN fr', Looped(q)
  PROVE  Looped(q)'
<1>1. PICK r \in DOMAIN fr : fr[r].kind = "while" /\ Prefix(r, q) /\ r # q
  BY DEF Looped
<1>2. Position(r) /\ Position(q)
  BY LiveFrame
<1>3. r = SubSeq(q, 1, Len(r)) /\ Len(r) \in 1 .. Len(q)
  BY <1>1, <1>2, PrefixIsCut
<1>4. r \in DOMAIN fr'
  BY <1>3, StepFrames DEF Rooted
<1>5. fr'[r].kind = "while"
  BY <1>1, <1>4, StepFrames DEF SameNode
<1> QED
  BY <1>1, <1>4, <1>5 DEF Looped

LEMMA LoopedKid ==
  ASSUME IInv, Tree, NEW p \in DOMAIN fr, FrameStep(p) \/ HostStep(p),
         NEW i \in Nat, NEW q \in DOMAIN fr', q = Kid(p, i),
         Looped(p) \/ fr[p].kind = "while"
  PROVE  Looped(q)'
<1>1. p \in DOMAIN fr' /\ fr'[p].kind = fr[p].kind /\ Position(p)
  BY StepFrames, LiveFrame DEF SameNode
<1>2. CASE fr[p].kind = "while"
  BY <1>1, <1>2, KidPosition DEF Looped
<1>3. CASE Looped(p)
  <2>1. Looped(p)'
    BY <1>1, <1>3, LoopedKept
  <2>2. PICK r \in DOMAIN fr' : fr'[r].kind = "while" /\ Prefix(r, p) /\ r # p
    BY <2>1 DEF Looped
  <2>3. Position(r)
    BY StepFrames DEF Rooted
  <2>4. Prefix(r, q) /\ r # q
    BY <1>1, <2>2, <2>3, PrefixOfKid
  <2> QED
    BY <2>2, <2>4 DEF Looped
<1> QED
  BY <1>2, <1>3

\* What is ahead of the frame of the step was ahead of it before.
LEMMA OwnAhead ==
  ASSUME IInv, Tree, Clock, NEW p \in DOMAIN fr, FrameStep(p) \/ HostStep(p),
         NEW l, IsLane(l), Ahead(p, l)'
  PROVE  Ahead(p, l)
<1>1. /\ p \in DOMAIN fr' /\ SameNode(fr[p], fr'[p]) /\ Shaped(fr[p]) /\ Shaped(fr'[p])
      /\ Onward(p)
  BY StepFrames, StepOnward
<1>2. fr'[p].st # "new" /\ fr[p].st # "done"
  BY StepOutcome DEF Outcome
<1>3. Reaches(p, l)
  BY <1>1, LoopedKept DEF Ahead, Reaches, SameNode
<1>4. ToCome(fr'[p], l) /\ fr'[p].path = fr[p].path /\ fr'[p].kind = fr[p].kind
      /\ fr[p].k \in Nat /\ fr'[p].k \in Nat
  BY <1>1 DEF Ahead, SameNode, Shaped
<1>5. CASE fr'[p].st \in {"loading", "acquire"}
  BY <1>1, <1>3, <1>5 DEF Onward, Ahead, ToCome
<1>6. CASE fr'[p].kind \in {"map", "for_each"} /\ fr'[p].st \in {"fan", "loop", "body"}
  <2>1. PICK j \in Nat : j >= fr'[p].k /\ Prefix(Index(fr[p].path, j), l[1])
    BY <1>2, <1>4, <1>6 DEF ToCome
  <2>2. j >= fr[p].k
    BY <1>1, <1>4, <1>6, <2>1 DEF Onward
  <2>3. fr[p].st \in {"new", "fan", "loop", "body"}
    BY <1>1, <1>2, <1>4, <1>6 DEF Shaped, StatesOf
  <2> QED
    BY <1>3, <1>4, <1>6, <2>1, <2>2, <2>3 DEF Ahead, ToCome
<1>7. CASE fr'[p].kind = "while" /\ fr'[p].st \in {"loop", "body"}
  <2>1. Prefix(Child(fr[p].path, "body"), l[1]) /\ l[2] >= fr'[p].k
    BY <1>2, <1>4, <1>7 DEF ToCome
  <2>2. fr[p].st \in {"new", "loop", "body"}
    BY <1>1, <1>2, <1>4, <1>7 DEF Shaped, StatesOf
  <2>3. CASE fr[p].st = "new"
    BY <1>3, <2>3 DEF Ahead, ToCome
  <2>4. CASE fr[p].st # "new" /\ l[2] >= fr[p].k
    BY <1>3, <1>4, <1>7, <2>1, <2>2, <2>4 DEF Ahead, ToCome
  <2>5. fr'[p].k >= fr[p].k
    BY <1>1, <1>4, <1>7 DEF Onward
  <2>6. l[2] >= fr[p].k
    BY <1>4, <2>1, <2>5 DEF IsLane
  <2> QED
    BY <2>3, <2>4, <2>6
<1> QED
  BY <1>2, <1>4, <1>5, <1>6, <1>7 DEF ToCome

\* What is ahead of a new frame was ahead of the one that made it.
LEMMA KidAhead ==
  ASSUME IInv, Tree, Clock, LoopsApart, NEW p \in DOMAIN fr, FrameStep(p) \/ HostStep(p),
         NEW q \in DOMAIN fr', q \notin DOMAIN fr, NEW l, IsLane(l), Ahead(q, l)'
  PROVE  Ahead(p, l)
<1>1. /\ p \in DOMAIN fr' /\ SameNode(fr[p], fr'[p]) /\ Shaped(fr[p]) /\ Shaped(fr'[p])
  BY StepFrames
<1>2. fr[p].st # "done" /\ fr'[p].st # "new"
  BY StepOutcome DEF Outcome
<1>3. KidsOf(fr[p]) = {}
  BY StepKid
<1>4. PICK i \in KidsOf(fr'[p]) : /\ i \in Nat /\ q = Kid(p, i)
                                  /\ Related(fr'[p], i, fr'[q]) /\ Counted(fr[p], i, fr'[p])
  BY StepKid
<1>5. PICK f, g : f = fr'[p] /\ g = fr'[q]
  OBVIOUS
<1>6. /\ Related(f, i, g) /\ Counted(fr[p], i, f) /\ i \in KidsOf(f)
      /\ f.kind = fr[p].kind /\ f.path = fr[p].path /\ f.iter = fr[p].iter
      /\ fr[p].k \in Nat /\ f.k \in Nat /\ IsPath(f.path)
  <2>1. IsPath(fr[p].path)
    BY LiveFrame DEF Sound
  <2>2. fr[p].k \in Nat /\ fr'[p].k \in Nat
    BY <1>1 DEF Shaped
  <2> QED
    BY <1>1, <1>4, <1>5, <2>1, <2>2 DEF SameNode
<1>7. /\ Prefix(g.path, l[1]) /\ (Looped(q)' => l[2] = g.iter)
      /\ Len(l[1]) \in Nat /\ l[2] \in Nat
  BY <1>5 DEF Ahead, Reaches, IsLane
<1>8. /\ Prefix(f.path, g.path) /\ Len(f.path) \in Nat /\ Len(g.path) \in Nat
      /\ f.kind # "item" => Len(g.path) = Len(f.path) + 1
  BY <1>6, ChildPath
<1>9. Reaches(p, l)
  <2>1. Prefix(fr[p].path, l[1])
    BY <1>6, <1>7, <1>8, PrefixTrans
  <2>2. ASSUME Looped(p) PROVE l[2] = fr[p].iter
    <3>1. Looped(q)'
      BY <1>4, <2>2, LoopedKid
    <3>2. f.kind \notin {"while", "session_group", "session"}
      BY <1>6, <2>2 DEF Looped, LoopsApart
    <3> QED
      BY <1>6, <1>7, <3>1, <3>2 DEF Related
  <2> QED
    BY <2>1, <2>2 DEF Reaches
<1>10. ToCome(fr[p], l)
  <2>1. CASE fr[p].st \in {"loading", "acquire"}
    <3>1. f.kind # "item"
      BY <1>1, <1>6, <2>1 DEF Shaped, StatesOf
    <3>2. Len(l[1]) > Len(f.path)
      BY <1>7, <1>8, <3>1 DEF Prefix
    <3> QED
      BY <1>6, <2>1, <3>2 DEF ToCome
  <2>2. CASE f.kind = "map" /\ fr[p].st # "new"
    <3>1. fr[p].st = "fan"
      BY <1>1, <1>2, <1>6, <2>2 DEF Shaped, StatesOf
    <3>2. PICK j : j = i - 1
      OBVIOUS
    <3>3. i > fr[p].k /\ g.path = Index(f.path, j)
      BY <1>6, <2>2, <3>2 DEF Related, Counted
    <3>4. j \in Nat /\ j >= fr[p].k
      BY <1>4, <1>6, <3>2, <3>3
    <3> QED
      BY <1>6, <1>7, <2>2, <3>1, <3>3, <3>4 DEF ToCome
  <2>3. CASE f.kind = "for_each" /\ fr[p].st # "new"
    <3>1. fr[p].st = "loop" /\ f.k - 1 = fr[p].k
      BY <1>6, <2>3 DEF Counted
    <3>2. g.path = Index(f.path, fr[p].k)
      BY <1>6, <2>3, <3>1 DEF Related
    <3>3. fr[p].k >= fr[p].k
      BY <1>6
    <3> QED
      BY <1>6, <1>7, <2>3, <3>1, <3>2, <3>3 DEF ToCome
  <2>4. CASE f.kind = "while" /\ fr[p].st # "new"
    <3>1. fr[p].st = "loop" /\ f.k - 1 = fr[p].k
      BY <1>6, <2>4 DEF Counted
    <3>2. g.path = Child(f.path, "body") /\ g.iter = fr[p].k
      BY <1>6, <2>4, <3>1 DEF Related
    <3>3. Looped(q)'
      BY <1>4, <1>6, <2>4, LoopedKid
    <3>4. l[2] >= fr[p].k
      BY <1>6, <1>7, <3>2, <3>3
    <3> QED
      BY <1>6, <1>7, <2>4, <3>1, <3>2, <3>4 DEF ToCome
  <2>5. CASE f.kind = "session_group"
    <3>1. f.st = "join"
      BY <1>1, <1>5, <1>6, <2>5 DEF Shaped, StatesOf, KidsOf
    <3>2. KidsOf(fr'[p]) # {}
      BY <1>4
    <3>3. GroupStart(p)
      BY <1>5, <1>6, <2>5, <3>1, <3>2, GroupFans
    <3> QED
      BY <3>3 DEF GroupStart, At, ToCome
  <2>6. CASE f.kind \notin {"map", "for_each", "while", "session_group"}
    <3>1. fr[p].st # "body"
      BY <1>3, <1>6, <2>6 DEF KidsOf
    <3>2. f.kind \in Kinds \cup {"item", "session"}
      BY <1>6, LiveFrame
    <3>3. f.kind \notin {"program", "actor"}
      BY <1>1, <1>5, <1>6, <2>6 DEF Shaped, StatesOf, KidsOf
    <3>4. fr[p].st \in {"new", "loading", "acquire"}
      BY <1>1, <1>2, <1>6, <2>6, <3>1, <3>2, <3>3 DEF Shaped, StatesOf, Kinds
    <3> QED
      BY <2>1, <3>4 DEF ToCome
  <2>7. CASE fr[p].st = "new"
    BY <2>7 DEF ToCome
  <2> QED
    BY <2>2, <2>3, <2>4, <2>5, <2>6, <2>7
<1> QED
  BY <1>9, <1>10 DEF Ahead

LEMMA NothingNewAhead ==
  ASSUME IInv, Tree, Clock, LoopsApart, NEW p \in DOMAIN fr, FrameStep(p) \/ HostStep(p),
         NEW q \in DOMAIN fr', NEW l, IsLane(l), Ahead(q, l)'
  PROVE  \E r \in DOMAIN fr : Ahead(r, l)
<1>1. CASE q = p
  BY <1>1, OwnAhead
<1>2. CASE q \notin DOMAIN fr
  BY <1>2, KidAhead
<1>3. CASE q \in DOMAIN fr /\ q # p
  <2>1. fr'[q] = fr[q]
    BY <1>3, StepFrames
  <2>2. Looped(q) => Looped(q)'
    BY <1>3, LoopedKept
  <2>3. Ahead(q, l)
    BY <2>1, <2>2 DEF Ahead, Reaches
  <2> QED
    BY <1>3, <2>3
<1> QED
  BY <1>1, <1>2, <1>3

\* The lane on which a node starts is ahead of no frame after that.
LEMMA OwnLaneUsed ==
  ASSUME IInv, Tree, Clock, NEW p \in DOMAIN fr, FrameStep(p) \/ HostStep(p),
         fr[p].st = "new", Noded(p), NEW q \in DOMAIN fr', q = p \/ q \notin DOMAIN fr
  PROVE  \A l : l = Lane(p) => ~Ahead(q, l)'
<1> SUFFICES ASSUME NEW l, l = Lane(p), Ahead(q, l)' PROVE FALSE
  OBVIOUS
<1>1. PICK f : f = fr'[p]
  OBVIOUS
<1>2. /\ f.path = fr[p].path /\ f.kind = fr[p].kind /\ IsPath(f.path) /\ Len(f.path) \in Nat
      /\ l[1] = f.path
  <2>1. SameNode(fr[p], fr'[p])
    BY StepFrames
  <2>2. IsPath(fr[p].path) /\ Len(fr[p].path) \in Nat
    BY LiveFrame DEF Sound
  <2> QED
    BY <1>1, <2>1, <2>2 DEF SameNode, Lane
<1>3. CASE q = p
  <2>1. f.st # "new" /\ ToCome(f, l)
    BY <1>1, <1>3, StepOutcome DEF Outcome, Ahead
  <2>2. /\ \A x : ~Prefix(Append(f.path, x), f.path)
        /\ ~(Len(f.path) > Len(f.path))
    <3>1. \A x : Len(Append(f.path, x)) = Len(f.path) + 1
      BY <1>2, ElementPath
    <3> QED
      BY <1>2, <3>1 DEF Prefix
  <2> QED
    BY <1>2, <2>1, <2>2 DEF ToCome, Index, Child
<1>4. CASE q \notin DOMAIN fr
  <2>1. PICK i : Related(f, i, fr'[q])
    BY <1>1, <1>4, StepKid
  <2>2. f.kind # "item"
    BY <1>2 DEF Noded
  <2>3. Len(fr'[q].path) = Len(f.path) + 1
    BY <1>2, <2>1, <2>2, ChildPath
  <2>4. Prefix(fr'[q].path, f.path)
    BY <1>2 DEF Ahead, Reaches
  <2> QED
    BY <1>2, <2>3, <2>4 DEF Prefix
<1> QED
  BY <1>3, <1>4

LEMMA LaneUsed ==
  ASSUME IInv, Tree, Lanes(fr), Nested, NEW p \in DOMAIN fr, fr[p].st = "new", fr[p].iter \in Nat,
         NEW q \in DOMAIN fr, q # p
  PROVE  ~Ahead(q, Lane(p))
<1> SUFFICES ASSUME Ahead(q, Lane(p)) PROVE FALSE
  OBVIOUS
<1>1. PICK f, g : f = fr[q] /\ g = fr[p]
  OBVIOUS
<1>2. /\ Prefix(f.path, g.path) /\ ToCome(f, Lane(p))
      /\ Lane(p)[1] = g.path /\ Lane(p)[2] = g.iter
  BY <1>1 DEF Ahead, Reaches, Lane
<1>3. IsPath(f.path) /\ Len(g.path) \in Nat /\ f.k \in Nat /\ Rooted(fr)
  BY <1>1, LiveFrame DEF Sound, Shaped, Tree
<1>4. CASE Apart(q, p)
  <2>1. Apart(f.path, g.path)
    BY <1>1, <1>4 DEF Lanes
  <2> QED
    BY <1>2, <2>1 DEF Apart
<1>5. CASE Prefix(p, q)
  <2>1. KidsOf(fr[p]) # {}
    BY <1>3, <1>5, BelowFrame
  <2> QED
    BY <2>1 DEF KidsOf
<1>6. CASE Prefix(q, p)
  <2>1. Within(f, g)
    BY <1>1, <1>6 DEF Nested
  <2>2. KidsOf(f) # {}
    BY <1>1, <1>3, <1>6, BelowFrame
  <2>3. f.st \notin {"new", "loading", "acquire"}
    BY <2>2 DEF KidsOf
  <2>4. CASE f.kind \in {"map", "for_each"}
    <3>1. PICK j \in Nat : j >= f.k /\ Prefix(Index(f.path, j), g.path)
      BY <1>2, <2>3, <2>4 DEF ToCome
    <3>2. PICK i \in Nat : i < f.k /\ Prefix(Index(f.path, i), g.path)
      BY <2>1, <2>4 DEF Within
    <3>3. i = j
      BY <1>3, <3>1, <3>2, OneItem
    <3> QED
      BY <1>3, <3>1, <3>2, <3>3
  <2>5. CASE f.kind = "while"
    <3>1. g.iter >= f.k /\ g.iter < f.k /\ g.iter \in Nat
      BY <1>1, <1>2, <2>1, <2>3, <2>5 DEF ToCome, Within
    <3> QED
      BY <1>3, <3>1
  <2> QED
    BY <1>2, <2>3, <2>4, <2>5 DEF ToCome
<1> QED
  BY <1>4, <1>5, <1>6 DEF Apart

LEMMA StartUsed ==
  ASSUME IInv, Tree, Clock, Lanes(fr), Nested, NEW p \in DOMAIN fr, FrameStep(p) \/ HostStep(p),
         fr[p].st = "new", Noded(p), fr[p].iter \in Nat, NEW q \in DOMAIN fr'
  PROVE  \A l : l = Lane(p) => ~Ahead(q, l)'
<1>1. CASE q = p \/ q \notin DOMAIN fr
  BY <1>1, OwnLaneUsed
<1>2. CASE q \in DOMAIN fr /\ q # p
  <2>1. fr'[q] = fr[q]
    BY <1>2, StepFrames
  <2>2. Looped(q) => Looped(q)'
    BY <1>2, LoopedKept
  <2>3. \A l : Ahead(q, l)' => Ahead(q, l)
    BY <2>1, <2>2 DEF Ahead, Reaches
  <2>4. ~Ahead(q, Lane(p))
    BY <1>2, LaneUsed
  <2> QED
    BY <2>3, <2>4
<1> QED
  BY <1>1, <1>2

-----------------------------------------------------------------------------
(* What is below stays within                                              *)

LEMMA KidWithin ==
  ASSUME IInv, Tree, NEW p \in DOMAIN fr, FrameStep(p) \/ HostStep(p),
         NEW q \in DOMAIN fr', q \notin DOMAIN fr
  PROVE  Within(fr'[p], fr'[q])
<1>1. SameNode(fr[p], fr'[p]) /\ Shaped(fr[p]) /\ Shaped(fr'[p]) /\ IsPath(fr[p].path)
  BY StepFrames, LiveFrame DEF Sound
<1>2. PICK i \in KidsOf(fr'[p]) : i \in Nat /\ Related(fr'[p], i, fr'[q]) /\ Counted(fr[p], i, fr'[p])
  BY StepKid
<1>3. PICK f, g : f = fr'[p] /\ g = fr'[q]
  OBVIOUS
<1>4. /\ Related(f, i, g) /\ Counted(fr[p], i, f) /\ i \in KidsOf(f) /\ f.kind = fr[p].kind
      /\ fr[p].k \in Nat /\ f.k \in Nat /\ IsPath(f.path) /\ f.st \in StatesOf(f.kind)
      /\ Len(f.res) \in Nat
  BY <1>1, <1>2, <1>3 DEF SameNode, Shaped, IsSeq
<1>5. Prefix(f.path, g.path) /\ Len(g.path) \in Nat
  BY <1>4, ChildPath
<1>6. \A j : g.path = Index(f.path, j) => Prefix(Index(f.path, j), g.path)
  BY <1>5 DEF Prefix
<1>7. CASE f.kind = "map"
  <2>1. f.st = "fan" /\ i \in Len(f.res) + 1 .. f.k
    BY <1>4, <1>7 DEF StatesOf, KidsOf
  <2>2. PICK j : j = i - 1
    OBVIOUS
  <2>3. j \in Nat /\ j < f.k
    BY <1>2, <1>4, <2>1, <2>2
  <2>4. g.path = Index(f.path, j)
    BY <1>4, <1>7, <2>2 DEF Related
  <2> QED
    BY <1>3, <1>5, <1>6, <1>7, <2>3, <2>4 DEF Within
<1>8. CASE f.kind = "for_each"
  <2>1. PICK j : j = f.k - 1
    OBVIOUS
  <2>2. j \in Nat /\ j < f.k
    BY <1>4, <1>8, <2>1 DEF Counted
  <2>3. g.path = Index(f.path, j)
    BY <1>4, <1>8, <2>1 DEF Related
  <2> QED
    BY <1>3, <1>5, <1>6, <1>8, <2>2, <2>3 DEF Within
<1>9. CASE f.kind = "while"
  <2>1. g.iter = f.k - 1
    BY <1>4, <1>9 DEF Related
  <2> QED
    BY <1>3, <1>4, <1>5, <1>9, <2>1 DEF Within
<1> QED
  BY <1>3, <1>5, <1>7, <1>8, <1>9 DEF Within

\* The frame of the step was within those above it, and what it makes is too.
LEMMA KidWithinAbove ==
  ASSUME IInv, Tree, LoopsApart, Nested, NEW p \in DOMAIN fr, FrameStep(p) \/ HostStep(p),
         NEW q \in DOMAIN fr', q \notin DOMAIN fr, NEW a \in DOMAIN fr, Prefix(a, p), a # p
  PROVE  Within(fr[a], fr'[q])
<1>1. SameNode(fr[p], fr'[p]) /\ IsPath(fr[p].path) /\ IsPath(fr[a].path) /\ Len(fr[p].path) \in Nat
  BY StepFrames, LiveFrame DEF Sound
<1>2. PICK i \in Nat : Related(fr'[p], i, fr'[q])
  BY StepKid
<1>3. PICK e, f, g : e = fr[a] /\ f = fr'[p] /\ g = fr'[q]
  OBVIOUS
<1>4. Related(f, i, g) /\ IsPath(f.path) /\ IsPath(e.path) /\ f.path = fr[p].path
      /\ f.iter = fr[p].iter /\ f.kind = fr[p].kind
  BY <1>1, <1>2, <1>3 DEF SameNode
<1>5. /\ Prefix(f.path, g.path) /\ Len(f.path) \in Nat /\ Len(g.path) \in Nat
  BY <1>4, ChildPath
<1>6. Within(e, fr[p])
  BY <1>3 DEF Nested
<1>7. Len(e.path) \in Nat /\ \A j \in Nat : Len(Index(e.path, j)) \in Nat
  <2>1. Len(e.path) \in Nat /\ \A x : Len(Append(e.path, x)) = Len(e.path) + 1
    BY <1>4, ElementPath
  <2> QED
    BY <2>1 DEF Index
<1>8. Prefix(e.path, g.path)
  BY <1>4, <1>5, <1>6, <1>7, PrefixTrans DEF Within
<1>9. ASSUME e.kind \in {"map", "for_each"}
      PROVE  \E j \in Nat : j < e.k /\ Prefix(Index(e.path, j), g.path)
  <2>1. PICK j \in Nat : j < e.k /\ Prefix(Index(e.path, j), f.path)
    BY <1>4, <1>6, <1>9 DEF Within
  <2>2. Prefix(Index(e.path, j), g.path)
    BY <1>5, <1>7, <2>1, PrefixTrans
  <2> QED
    BY <2>1, <2>2
<1>10. ASSUME e.kind = "while" PROVE g.iter < e.k
  <2>1. f.kind \notin {"while", "session_group", "session"}
    BY <1>3, <1>4, <1>10 DEF LoopsApart
  <2>2. g.iter = fr[p].iter
    BY <1>4, <2>1 DEF Related
  <2> QED
    BY <1>6, <1>10, <2>2 DEF Within
<1> QED
  BY <1>3, <1>8, <1>9, <1>10 DEF Within

LEMMA NestedKept ==
  ASSUME IInv, Tree, LoopsApart, Nested, NEW p \in DOMAIN fr, FrameStep(p) \/ HostStep(p)
  PROVE  Nested'
<1>1. SUFFICES ASSUME NEW a \in DOMAIN fr', NEW b \in DOMAIN fr', Prefix(a, b), a # b
               PROVE  Within(fr'[a], fr'[b])
  BY DEF Nested
<1>2. /\ SameNode(fr[p], fr'[p]) /\ Position(p) /\ Position(a) /\ Position(b) /\ Rooted(fr)
      /\ \A q \in DOMAIN fr' : q \in DOMAIN fr /\ q # p => fr'[q] = fr[q]
  BY StepFrames, LiveFrame DEF Rooted
<1>3. CASE b \in DOMAIN fr
  <2>1. a \in DOMAIN fr
    <3> SUFFICES ASSUME a \notin DOMAIN fr PROVE FALSE
      OBVIOUS
    <3>1. KidsOf(fr[p]) = {} /\ \E i \in KidsOf(fr'[p]) : i \in Nat /\ a = Kid(p, i)
      BY StepKid
    <3>2. Prefix(p, a) /\ p # a
      BY <1>2, <3>1, KidPosition
    <3>3. Prefix(p, b) /\ p # b
      BY <1>1, <1>2, <3>2, PrefixTrans, PrefixAntisym, PositionLen
    <3> QED
      BY <1>2, <1>3, <3>1, <3>3, BelowFrame
  <2>2. a # p
    <3> SUFFICES ASSUME a = p PROVE FALSE
      OBVIOUS
    <3>1. Moves(p)
      BY StepMoves
    <3>2. CASE Grown(fr, fr', leds, leds', p)
      <4>1. KidsOf(fr[p]) = {}
        BY <3>2 DEF Grown
      <4> QED
        BY <1>1, <1>2, <1>3, <4>1, BelowFrame
    <3>3. CASE Reaped(fr, fr', leds, leds', p)
      BY <1>1, <1>2, <3>3, ReapedRooted
    <3> QED
      BY <3>1, <3>2, <3>3 DEF Moves, Moved
  <2>3. Within(fr[a], fr[b]) /\ fr'[a] = fr[a]
    BY <1>1, <1>2, <1>3, <2>1, <2>2 DEF Nested
  <2>4. fr'[b].path = fr[b].path /\ fr'[b].iter = fr[b].iter
    BY <1>2, <1>3 DEF SameNode
  <2> QED
    BY <2>3, <2>4 DEF Within
<1>4. CASE b \notin DOMAIN fr
  <2>1. PICK i \in Nat : b = Kid(p, i)
    BY <1>4, StepKid
  <2>2. Prefix(a, p)
    BY <1>1, <1>2, <2>1, AboveKid
  <2>3. CASE a = p
    BY <1>4, <2>3, KidWithin
  <2>4. CASE a # p
    <3>1. a = SubSeq(p, 1, Len(a)) /\ Len(a) \in 1 .. Len(p)
      BY <1>2, <2>2, PrefixIsCut
    <3>2. a \in DOMAIN fr
      BY <1>2, <3>1 DEF Rooted
    <3> QED
      BY <1>2, <1>4, <2>2, <2>4, <3>2, KidWithinAbove
  <2> QED
    BY <2>3, <2>4
<1> QED
  BY <1>3, <1>4

-----------------------------------------------------------------------------
(* A step at a frame                                                       *)

LEMMA ItersKept ==
  ASSUME IInv, Tree, \A q \in DOMAIN fr : fr[q].iter \in Nat,
         NEW p \in DOMAIN fr, FrameStep(p) \/ HostStep(p), NEW q \in DOMAIN fr'
  PROVE  fr'[q].iter \in Nat
<1>1. SameNode(fr[p], fr'[p]) /\ Shaped(fr[p]) /\ fr[p].iter \in Nat
  BY StepFrames
<1>2. CASE q \in DOMAIN fr
  BY <1>1, <1>2, StepFrames DEF SameNode
<1>3. CASE q \notin DOMAIN fr
  <2>1. PICK i : Related(fr'[p], i, fr'[q]) /\ Counted(fr[p], i, fr'[p])
    BY <1>3, StepKid
  <2>2. fr'[p].iter \in Nat /\ fr[p].k \in Nat /\ fr'[p].kind = fr[p].kind
    BY <1>1 DEF SameNode, Shaped
  <2>3. CASE fr[p].kind = "while"
    <3>1. fr'[p].k = fr[p].k + 1 /\ fr'[q].iter = fr'[p].k - 1
      BY <2>1, <2>2, <2>3 DEF Related, Counted
    <3> QED
      BY <2>2, <3>1
  <2>4. CASE fr[p].kind # "while"
    <3>1. fr'[q].iter = fr'[p].iter \/ fr'[q].iter = 0
      BY <2>1, <2>2, <2>4 DEF Related
    <3> QED
      BY <2>2, <3>1
  <2> QED
    BY <2>3, <2>4
<1> QED
  BY <1>2, <1>3

\* What a step announces: on its own lane, nothing twice, and the start of a
\* node where a new frame of one stands.
LEMMA StepNews ==
  ASSUME IInv, Tree, Clock, NEW p \in DOMAIN fr, FrameStep(p) \/ HostStep(p)
  PROVE  /\ events \subseteq events'
         /\ \A e \in events' \ events :
              /\ e.lane = Lane(p)
              /\ e.kind = "NodeStarted" => fr[p].st = "new" /\ Noded(p)
         /\ \A d, e \in events' \ events : d.kind = e.kind => d = e
<1>1. events \subseteq events' /\ \A e \in events' \ events : e.lane = Lane(p)
  BY FrameStepKeeps DEF Keeps, Quiet
<1>2. \A e \in events' \ events : e.kind = "NodeStarted" => fr[p].st = "new" /\ Noded(p)
  BY StepOutcome DEF Outcome, News
<1>3. \A d, e \in events' \ events : d.kind = e.kind => d = e
  BY OthersSpeak, RepliesSpeak, SpokeOnce
<1> QED
  BY <1>1, <1>2, <1>3

\* The frames are below the node that Runner::run has entered.
LEMMA BelowRoot ==
  ASSUME IInv, Tree, NEW p \in DOMAIN fr
  PROVE  Live /\ Prefix(Body(Root), p)
<1>1. Position(p) /\ Rooted(fr) /\ 1 \in 1 .. Len(p)
  BY LiveFrame, PositionLen DEF Tree
<1> DEFINE c == SubSeq(p, 1, 1)
<1>2. c \in DOMAIN fr
  BY <1>1 DEF Rooted
<1>3. Position(c) /\ Len(c) = 1 /\ Prefix(c, p)
  BY <1>1, CutPosition
<1> HIDE DEF c
<1>4. c = Body(Root) \/ Len(c) > 1
  BY <1>3, RootOrDeep
<1>5. ~(1 > 1)
  OBVIOUS
<1> QED
  BY <1>2, <1>3, <1>4, <1>5 DEF Live

LEMMA EnteredKept ==
  ASSUME IInv, Tree, Clock, Nested, Entered, NEW p \in DOMAIN fr,
         FrameStep(p) \/ HostStep(p), wf' = wf
  PROVE  Entered'
<1>1. Live /\ Prefix(Body(Root), p)
  BY BelowRoot
<1>2. PICK id : Ran(id) /\ fr[Body(Root)].path = Child(Root, id)
  BY <1>1 DEF Entered
<1>3. Live' /\ fr'[Body(Root)].path = fr[Body(Root)].path
  <2>1. Position(p) /\ Len(p) >= 1 /\ p \in DOMAIN fr' /\ Rooted(fr')
    BY LiveFrame, StepFrames, PositionLen
  <2>2. Body(Root) = SubSeq(p, 1, 1)
    BY <1>1, <2>1, RootPosition, PrefixIsCut
  <2>3. Live'
    BY <2>1, <2>2 DEF Rooted, Live
  <2> QED
    BY <1>1, <2>3, StepFrames DEF Live, SameNode
<1>4. \A x : Ran(x) => Ran(x)'
  BY <1>1, <1>3, StepEndsNothing DEF Ran, Entrypoint, FinalizeNode
<1>5. Prefix(Child(Root, id), fr[p].path)
  <2>1. CASE p = Body(Root)
    BY <1>2, <2>1, LiveFrame
  <2>2. CASE p # Body(Root)
    BY <1>1, <1>2, <2>2 DEF Live, Nested, Within
  <2> QED
    BY <2>1, <2>2
<1>6. ASSUME NEW e \in Started'
      PROVE  \E x : Ran(x)' /\ Prefix(Child(Root, x), e.lane[1])
  <2>1. CASE e \in events
    <3>1. e \in Started
      BY <1>6, <2>1 DEF Started, Of
    <3> QED
      BY <1>4, <3>1 DEF Entered
  <2>2. CASE e \notin events
    <3>1. e.lane[1] = fr[p].path
      BY <1>6, <2>2, StepNews DEF Started, Of, Lane
    <3> QED
      BY <1>2, <1>4, <1>5, <3>1
  <2> QED
    BY <2>1, <2>2
<1>7. \E x : Ran(x)' /\ fr'[Body(Root)].path = Child(Root, x)
  BY <1>2, <1>3, <1>4
<1>8. (run.st = "final" => run.terminated)'
  BY StepEndsNothing DEF Entered
<1> QED
  BY <1>6, <1>7, <1>8 DEF Entered

LEMMA StepLanewise ==
  ASSUME IInv, Tree, Clock, Lanes(fr), LoopsApart, Lanewise,
         NEW p \in DOMAIN fr, FrameStep(p) \/ HostStep(p), wf' = wf
  PROVE  Lanewise'
<1>1. /\ fr[p].iter \in Nat /\ Len(fr[p].path) \in Nat /\ Prefix(fr[p].path, fr[p].path)
      /\ Nested /\ Entered
  BY LiveFrame DEF Lanewise
<1>2. PICK l : l = Lane(p)
  OBVIOUS
<1>3. IsLane(l)
  BY <1>1, <1>2 DEF IsLane, Lane
<1>4. /\ events \subseteq events'
      /\ \A e \in events' \ events :
           e.lane = l /\ (e.kind = "NodeStarted" => fr[p].st = "new" /\ Noded(p))
      /\ \A d, e \in events' \ events : d.kind = e.kind => d = e
  BY <1>2, StepNews
<1>5. \A e \in Started' :
        \/ e \in Started /\ e \in events
        \/ e \in events' \ events /\ e.lane = l /\ fr[p].st = "new" /\ Noded(p)
  BY <1>4 DEF Started, Of
<1>6. fr[p].st = "new" => \A e \in Started : e.lane # l
  <2>1. fr[p].st = "new" => Ahead(p, l)
    BY <1>1, <1>2 DEF Ahead, Reaches, ToCome, Lane
  <2> QED
    BY <2>1 DEF Lanewise
<1>7. (\A q \in DOMAIN fr : fr[q].iter \in Nat)'
  BY ItersKept DEF Lanewise
<1>8. (\A e \in Started : IsLane(e.lane))'
  BY <1>3, <1>5 DEF Lanewise, IsLane
<1>9. Nested' /\ Entered'
  BY <1>1, NestedKept, EnteredKept
<1>10. ASSUME NEW e \in Started', NEW q \in DOMAIN fr' PROVE ~Ahead(q, e.lane)'
  <2>1. CASE e \in Started
    <3>1. PICK m : m = e.lane /\ IsLane(m) /\ \A r \in DOMAIN fr : ~Ahead(r, m)
      BY <2>1 DEF Lanewise
    <3>2. ~Ahead(q, m)'
      BY <3>1, NothingNewAhead
    <3> QED
      BY <3>1, <3>2
  <2>2. CASE e.lane = l /\ fr[p].st = "new" /\ Noded(p)
    <3>1. ~Ahead(q, l)'
      BY <1>1, <1>2, <2>2, StartUsed
    <3> QED
      BY <2>2, <3>1
  <2> QED
    BY <1>5, <2>1, <2>2
<1>11. LanesEnteredOnce'
  <2> SUFFICES ASSUME NEW d \in Started', NEW e \in Started', d.lane = e.lane PROVE d = e
    BY DEF LanesEnteredOnce, Started
  <2>1. CASE d \in Started /\ e \in Started
    BY <2>1 DEF Lanewise, LanesEnteredOnce, Started
  <2>2. CASE d \in events' \ events /\ e \in events' \ events
    <3>1. d.kind = e.kind
      BY DEF Started, Of
    <3> QED
      BY <1>4, <2>2, <3>1
  <2> QED
    BY <1>5, <1>6, <2>1, <2>2
<1> QED
  BY <1>7, <1>8, <1>9, <1>10, <1>11 DEF Lanewise

-----------------------------------------------------------------------------
(* A step of Runner::run                                                   *)

\* It enters no node twice, and forgets none that it has entered.
LEMMA RunStepRuns ==
  ASSUME IInv, Tree, EntriesDiffer, RunStep, wf' = wf, run.st = "final" => run.terminated
  PROVE  /\ run'.st = "final" => run'.terminated
         /\ \A id : Ran(id) => Ran(id)'
         /\ \/ fr' = <<>>
            \/ \E id : fr' = RunNode(id) /\ ~Ran(id) /\ Ran(id)'
<1>1. /\ run.k \in Nat /\ DOMAIN run = RunFields
      /\ (run.terminated => run.st # "entry")
      /\ run.st \in {"entry", "final", "settle", "done"}
      /\ FinalizeNode' = FinalizeNode /\ Entrypoint' = Entrypoint
  BY DEF IInv, Tree, FinalizeNode, Entrypoint
<1>2. ASSUME run'.k = run.k, run.terminated => run'.terminated,
             run.terminated => run'.st # "final"
      PROVE  \A id : Ran(id) => Ran(id)'
  BY <1>1, <1>2 DEF Ran
<1>3. run'.st = "final" => run'.terminated
  BY <1>1 DEF RunStep, EntryStart, EntryEnd, EntriesExhausted, FinalStart, FinalEnd, Settle,
     WindUp, RunFields
<1>4. CASE EntryStart
  <2>1. PICK id : id = Entrypoint[run.k + 1] /\ fr' = RunNode(id)
    BY <1>4 DEF EntryStart
  <2>2. run.st = "entry" /\ run.k < Len(Entrypoint) /\ ~Live /\ ~run.terminated
    BY <1>1, <1>4 DEF EntryStart, Live
  <2>3. run'.k = run.k + 1
    BY <1>1, <1>4 DEF EntryStart, RunFields
  <2>4. ~Ran(id)
    BY <2>1, <2>2, EntersUnran
  <2>5. Ran(id)'
    <3>1. run'.k \in 1 .. run'.k
      BY <1>1, <2>3
    <3> QED
      BY <1>1, <2>1, <2>3, <3>1 DEF Ran
  <2>6. \A x : Ran(x) => Ran(x)'
    <3>1. \A i \in 1 .. run.k : i \in 1 .. run'.k
      BY <1>1, <2>3
    <3> QED
      BY <1>1, <2>2, <3>1 DEF Ran
  <2> QED
    BY <1>3, <2>1, <2>4, <2>5, <2>6
<1>5. CASE EntryEnd
  <2>1. run.st = "entry" /\ ~run.terminated /\ run'.k = run.k /\ fr' = <<>>
    BY <1>1, <1>5 DEF EntryEnd, WindUp, RunFields
  <2> QED
    BY <1>2, <1>3, <2>1
<1>6. CASE EntriesExhausted
  <2>1. run.st = "entry" /\ ~run.terminated /\ run'.k = run.k /\ fr' = <<>>
    BY <1>1, <1>6 DEF EntriesExhausted, RunFields
  <2> QED
    BY <1>2, <1>3, <2>1
<1>7. CASE FinalStart
  <2>1. CASE FinalizeNode \in DOMAIN Nodes
    <3>1. PICK id : id = FinalizeNode /\ fr' = RunNode(id)
      BY <1>7, <2>1 DEF FinalStart
    <3>2. run.st = "final" /\ ~Live /\ run' = run
      BY <1>7, <2>1 DEF FinalStart, Live
    <3>3. ~Ran(id) /\ Live'
      BY <3>1, <3>2, EntersUnran, RunNodeFrame
    <3>4. \A x : Ran(x) => Ran(x)'
      BY <1>1, <3>2, <3>3 DEF Ran
    <3>5. Ran(id)'
      BY <1>1, <3>1, <3>2, <3>3 DEF Ran
    <3> QED
      BY <1>3, <3>1, <3>2, <3>3, <3>4, <3>5
  <2>2. CASE FinalizeNode \notin DOMAIN Nodes
    <3>1. fr' = <<>> /\ run'.k = run.k /\ run'.st = "settle" /\ run'.terminated = run.terminated
      BY <1>1, <1>7, <2>2 DEF FinalStart, RunFields
    <3> QED
      BY <1>2, <1>3, <3>1
  <2> QED
    BY <2>1, <2>2
<1>8. CASE FinalEnd
  <2>1. fr' = <<>> /\ run'.k = run.k /\ run'.st = "settle" /\ run'.terminated = run.terminated
    BY <1>1, <1>8 DEF FinalEnd, RunFields
  <2> QED
    BY <1>2, <1>3, <2>1
<1>9. CASE Settle
  <2>1. /\ fr' = <<>> /\ run'.k = run.k /\ run'.st = "done"
        /\ run'.terminated = run.terminated
    BY <1>1, <1>9 DEF Settle, RunFields, Tree
  <2> QED
    BY <1>2, <1>3, <2>1
<1> QED
  BY <1>3, <1>4, <1>5, <1>6, <1>7, <1>8, <1>9 DEF RunStep

LEMMA RunStepLanewise ==
  ASSUME IInv, Tree, EntriesDiffer, Lanewise, RunStep, wf' = wf PROVE Lanewise'
<1>1. Started' = Started
  <2>1. /\ events \subseteq events'
        /\ \A e \in events' \ events : e.kind \in {"WorkflowFailed", "WorkflowCompleted"}
    BY RunStepEmits
  <2> QED
    BY <2>1 DEF Started, Of
<1>2. /\ run'.st = "final" => run'.terminated
      /\ \A id : Ran(id) => Ran(id)'
      /\ fr' = <<>> \/ \E id : fr' = RunNode(id) /\ ~Ran(id) /\ Ran(id)'
  BY RunStepRuns DEF Lanewise, Entered
<1>3. \A e \in Started : \E id : Ran(id) /\ Ran(id)' /\ Prefix(Child(Root, id), e.lane[1])
  BY <1>2 DEF Lanewise, Entered
<1>4. /\ \A e \in Started' : IsLane(e.lane)
      /\ LanesEnteredOnce'
  BY <1>1 DEF Lanewise, LanesEnteredOnce, Started
<1>5. CASE fr' = <<>>
  <2>1. ~Live' /\ \A q \in DOMAIN fr' : FALSE
    BY <1>5 DEF Live
  <2>2. Entered'
    BY <1>1, <1>2, <1>3, <2>1 DEF Entered
  <2> QED
    BY <1>4, <2>1, <2>2 DEF Lanewise, Nested, IsLane
<1>6. ASSUME NEW id, fr' = RunNode(id), ~Ran(id), Ran(id)' PROVE Lanewise'
  <2>1. /\ Live' /\ DOMAIN fr' = {Body(Root)}
        /\ fr'[Body(Root)].path = Child(Root, id) /\ fr'[Body(Root)].iter = 0
    BY <1>6, RunNodeFrame
  <2>2. Entered'
    BY <1>1, <1>2, <1>3, <1>6, <2>1 DEF Entered
  <2>3. Nested'
    BY <2>1 DEF Nested
  <2>4. ASSUME NEW e \in Started PROVE \A q \in DOMAIN fr' : ~Ahead(q, e.lane)'
    <3> SUFFICES ASSUME Prefix(Child(Root, id), e.lane[1]) PROVE FALSE
      BY <2>1 DEF Ahead, Reaches
    <3>1. PICK x : Ran(x) /\ Prefix(Child(Root, x), e.lane[1])
      BY <1>3
    <3>2. /\ \A y : Len(Child(Root, y)) = 1 /\ Child(Root, y)[1] = <<y>>
      BY DEF Child, Root
    <3>3. Child(Root, id)[1] = Child(Root, x)[1]
      <4>1. 1 \in 1 .. 1
        OBVIOUS
      <4> QED
        BY <3>1, <3>2, <4>1 DEF Prefix
    <3>4. <<id>> = <<x>>
      BY <3>2, <3>3
    <3> QED
      BY <1>6, <3>1, <3>4
  <2> QED
    BY <1>1, <1>4, <2>1, <2>2, <2>3, <2>4 DEF Lanewise, IsLane
<1> QED
  BY <1>2, <1>5, <1>6

-----------------------------------------------------------------------------
(* Every run                                                               *)

LEMMA LanewiseInit == Init => Lanewise
<1> SUFFICES ASSUME Init PROVE Lanewise
  OBVIOUS
<1>1. DOMAIN fr = {} /\ Started = {} /\ run.st = "entry"
  BY DEF Init, StartEvents, StartRun, Started, Of
<1> QED
  BY <1>1 DEF Lanewise, Nested, Entered, LanesEnteredOnce, Started, Live

LEMMA LanewiseStutter == ASSUME Lanewise, UNCHANGED vars PROVE Lanewise'
<1>1. UNCHANGED <<wf, events, fr, run>>
  BY DEF vars
<1>2. Started' = Started /\ \A p, l : Ahead(p, l)' <=> Ahead(p, l)
  BY <1>1 DEF Started, Of, Ahead, Reaches, Looped
<1>3. \A id : Ran(id)' <=> Ran(id)
  BY <1>1 DEF Ran, Live, Entrypoint, FinalizeNode
<1>4. Nested' /\ Entered'
  BY <1>1, <1>2, <1>3 DEF Lanewise, Nested, Entered, Live
<1>5. ASSUME NEW e \in Started, NEW p \in DOMAIN fr PROVE ~Ahead(p, e.lane)'
  <2>1. PICK l : l = e.lane /\ ~Ahead(p, l)
    BY DEF Lanewise
  <2>2. ~Ahead(p, l)'
    BY <1>2, <2>1
  <2> QED
    BY <2>1, <2>2
<1> QED
  BY <1>1, <1>2, <1>4, <1>5 DEF Lanewise, IsLane, LanesEnteredOnce, Started

LEMMA LanewiseInvariant ==
  Spec /\ []SessionsDiffer /\ []EntriesDiffer /\ []LoopsApart => []Lanewise
<1>1. ASSUME IInv, Tree, Books, Calls, EntriesDiffer, LoopsApart, Lanewise, [Next]_vars
      PROVE  Lanewise'
  <2>1. CASE UNCHANGED vars
    BY <1>1, <2>1, LanewiseStutter
  <2>2. ASSUME NEW p \in DOMAIN fr, FrameStep(p) \/ HostStep(p), wf' = wf PROVE Lanewise'
    BY <1>1, <2>2, StepLanewise DEF Books, Calls
  <2>3. CASE RunStep /\ wf' = wf
    BY <1>1, <2>3, RunStepLanewise
  <2> QED
    BY <1>1, <2>1, <2>2, <2>3 DEF Next, Progress, Returned
<1> QED
  BY <1>1, LanewiseInit, CallsInvariant, PTL DEF Spec

\* If no entrypoint is entered twice, no while has another or a session group
\* below it, and the sessions of a group have ids of their own, then no node
\* runs twice on one lane: path and iteration name an execution, in every
\* workflow, as the trace and the replay of a run take for granted.
THEOREM NodesRunOnce ==
  Spec /\ []SessionsDiffer /\ []EntriesDiffer /\ []LoopsApart => []LanesEnteredOnce
<1>1. Lanewise => LanesEnteredOnce
  BY DEF Lanewise
<1> QED
  BY <1>1, LanewiseInvariant, PTL

-----------------------------------------------------------------------------
(* The bindings of for_each in the ledger of the run                       *)

\* The names that items are bound to are nobody else's: no argument has one and
\* no node stores into one.
NamesFree ==
  /\ "item" \in Slot
  /\ \A s \in ItemNames : s \notin DOMAIN Args /\ \A id \in DOMAIN Nodes : Nodes[id].out # s

\* The loop at p has an item bound to s in the ledger of the run.
Binds(p, s) ==
  /\ At(p, "for_each", "body")
  /\ fr[p].led = Root /\ s \in {Def(p).as, "item"}

\* A name is unset when no loop binds it, and the outermost of the loops that
\* bind it will find it unset in what it has saved.
Bindings ==
  \A s \in ItemNames :
    /\ (\A p \in DOMAIN fr : ~Binds(p, s)) => RootLed[s] = Unset
    /\ \A p \in DOMAIN fr :
         Binds(p, s) /\ (\A q \in DOMAIN fr : Prefix(q, p) /\ q # p => ~Binds(q, s))
           => fr[p].saved[s] = Unset

LEMMA RootLedger ==
  ASSUME Tree PROVE Root \in DOMAIN leds /\ DOMAIN RootLed = Slot
BY DEF Tree, LiveLedgers, RootLed

LEMMA StoredElsewhere ==
  ASSUME NEW l, DOMAIN l = Slot, NEW nd, NEW v, NEW s, nd.out # s
  PROVE  Stored(l, nd, v)[s] = l[s]
BY DEF Stored

\* What a step at another node than a for_each writes into the ledger of the run.
LEMMA RootWritten ==
  ASSUME IInv, Tree, Tree', NEW p \in DOMAIN fr, FrameStep(p) \/ HostStep(p),
         fr[p].kind # "for_each"
  PROVE  \/ leds'[Root] = leds[Root]
         \/ \E v : leds'[Root] = Stored(leds[Root], Def(p), v)
<1> USE DEF store, env
<1>1. Root \in DOMAIN leds /\ Root \in DOMAIN leds' /\ p # Root
  BY LiveFrame DEF Tree, LiveLedgers
<1>2. ASSUME NEW v, leds' = [leds EXCEPT ![fr[p].led] = Stored(@, Def(p), v)]
      PROVE  \/ leds'[Root] = leds[Root]
             \/ leds'[Root] = Stored(leds[Root], Def(p), v)
  BY <1>1, <1>2
<1>3. CASE Program(p) \/ \E v \in Replies : ActorReplies(p, v)
  BY <1>2, <1>3 DEF Program, ActorReplies
<1>4. CASE Dispatch(p) \/ GroupStart(p)
  <2>1. leds' = leds \/ \E H : leds' = Plus(leds, H)
    BY <1>4 DEF Dispatch, GroupStart, StartFails
  <2> QED
    BY <1>1, <2>1 DEF Plus
<1>5. CASE Collect(p) \/ GroupJoin(p) \/ PassOn(p)
  <2>1. \E P : leds' = Without(leds, P)
    BY <1>5 DEF Collect, GroupJoin, PassOn, Reclaimed
  <2> QED
    BY <1>1, <2>1 DEF Without
<1>6. CASE MapStart(p) \/ \E v \in Replies \cup {Null} : ResumeLoaded(p, v)
  <2>1. leds' = leds \/ \E l : leds' = Put(leds, p, l)
    BY <1>6 DEF MapStart, ResumeLoaded, StartFails
  <2> QED
    BY <1>1, <2>1 DEF Put
<1>7. CASE MapEnd(p)
  <2>1. CASE GatePassed(p)
    <3> DEFINE M == [leds EXCEPT ![fr[p].led] = Stored(@, Def(p), MapValue(p))]
    <3>1. leds' = Without(M, {p})
      BY <1>7, <2>1 DEF MapEnd
    <3>2. M[Root] = leds[Root] \/ M[Root] = Stored(leds[Root], Def(p), MapValue(p))
      BY <1>1
    <3> HIDE DEF M
    <3>3. leds'[Root] = M[Root]
      BY <1>1, <3>1 DEF Without
    <3> QED
      BY <3>2, <3>3
  <2>2. CASE ~GatePassed(p)
    BY <1>1, <1>7, <2>2 DEF MapEnd, Without
  <2> QED
    BY <2>1, <2>2
<1>8. CASE UNCHANGED leds
  BY <1>8
<1>9. CASE FrameStep(p)
  <2>1. ~ForEachStart(p) /\ ~ForEachNext(p) /\ ~ForEachItemEnd(p) /\ ~ForEachEnd(p)
    BY DEF ForEachStart, ForEachNext, ForEachItemEnd, ForEachEnd, At
  <2>2. \/ ProgramFails(p) \/ ActorStart(p) \/ ActorUnresolved(p)
        \/ ItemStart(p) \/ ItemEnd(p) \/ WhileStart(p) \/ WhilePass(p) \/ WhilePassEnd(p)
        \/ WhileEnd(p) \/ WhileUnresolved(p) \/ BranchStart(p) \/ BranchUnresolved(p)
        \/ ResumeStart(p) \/ SessionStart(p) \/ SessionAcquire(p) \/ SessionEnd(p)
        => UNCHANGED leds
    BY DEF ProgramFails, ActorStart, ActorUnresolved, StartFails, ItemStart, ItemEnd,
       WhileStart, WhilePass, WhilePassEnd, WhileEnd, WhileUnresolved, BranchStart,
       BranchUnresolved, ResumeStart, SessionStart, SessionAcquire, SessionEnd
  <2> QED
    BY <1>3, <1>4, <1>5, <1>6, <1>7, <1>8, <1>9, <2>1, <2>2 DEF FrameStep
<1>10. CASE HostStep(p)
  <2>1. ActorFails(p, DriveErr) \/ LoadFails(p, DriveErr) => UNCHANGED leds
    BY DEF ActorFails, LoadFails
  <2> QED
    BY <1>3, <1>6, <1>8, <1>10, <2>1 DEF HostStep
<1> QED
  BY <1>9, <1>10

LEMMA NamesKept ==
  ASSUME IInv, Tree, Tree', NamesFree, NEW p \in DOMAIN fr, FrameStep(p) \/ HostStep(p),
         fr[p].kind # "for_each", NEW s \in ItemNames
  PROVE  RootLed'[s] = RootLed[s]
<1>1. fr[p].node \in DOMAIN Nodes
  BY LiveFrame DEF Sound
<1>2. Def(p).out # s
  BY <1>1 DEF NamesFree, Def
<1>3. DOMAIN leds[Root] = Slot
  BY RootLedger DEF RootLed
<1> QED
  BY <1>2, <1>3, RootWritten, StoredElsewhere DEF RootLed

\* The other loops bind what they bound, and have saved what they had.
LEMMA OthersBind ==
  ASSUME IInv, Tree, NEW p \in DOMAIN fr, FrameStep(p) \/ HostStep(p), wf' = wf,
         NEW q, q # p, NEW s
  PROVE  /\ Binds(q, s)' <=> Binds(q, s)
         /\ Binds(q, s) => fr'[q] = fr[q] /\ q \in DOMAIN fr /\ q \in DOMAIN fr'
<1>1. Moves(p)
  BY StepMoves
<1>2. /\ q \in DOMAIN fr /\ fr[q].st = "body" <=> q \in DOMAIN fr' /\ fr'[q].st = "body"
      /\ q \in DOMAIN fr /\ fr[q].st = "body" => fr'[q] = fr[q]
  BY <1>1, OthersInBody
<1> QED
  BY <1>2 DEF Binds, At, Def, Nodes

LEMMA BindingsKept ==
  ASSUME IInv, Tree, Bindings, NEW p \in DOMAIN fr, FrameStep(p) \/ HostStep(p), wf' = wf,
         \A s \in ItemNames : RootLed'[s] = RootLed[s],
         \A s : ~Binds(p, s) /\ ~Binds(p, s)'
  PROVE  Bindings'
<1>1. \A q, s : /\ Binds(q, s)' <=> Binds(q, s)
                /\ Binds(q, s) => fr'[q] = fr[q] /\ q \in DOMAIN fr /\ q \in DOMAIN fr'
  BY OthersBind
<1>2. SUFFICES ASSUME NEW s \in ItemNames
               PROVE  /\ (\A q \in DOMAIN fr' : ~Binds(q, s)') => RootLed'[s] = Unset
                      /\ \A q \in DOMAIN fr' :
                           Binds(q, s)'
                           /\ (\A a \in DOMAIN fr' : Prefix(a, q) /\ a # q => ~Binds(a, s)')
                             => fr'[q].saved[s] = Unset
  <2>1. ItemNames' = ItemNames
    BY DEF ItemNames, Nodes, Slot
  <2> QED
    BY <2>1 DEF Bindings
<1> QED
  BY <1>1 DEF Bindings

LEMMA NextBinds ==
  ASSUME IInv, Tree, Bindings, NamesFree, NEW p \in DOMAIN fr, ForEachNext(p), wf' = wf
  PROVE  Bindings'
<1>1. PICK as, led, l : as = Def(p).as /\ led = fr[p].led /\ l = Led(p)
  OBVIOUS
<1>2. /\ DOMAIN fr[p] = FrameFields /\ At(p, "for_each", "loop") /\ FrameStep(p)
  BY LiveFrame DEF ForEachNext, FrameStep
<1>3. /\ p \in DOMAIN fr' /\ fr'[p].kind = "for_each" /\ fr'[p].node = fr[p].node
      /\ fr'[p].led = led
  BY <1>1, <1>2, StepFrames DEF SameNode, At
<1>4. fr'[p].st = "body" /\ fr'[p].saved = l
  <2>1. PICK path, iter, k :
          fr' = [Enter(p, Def(p).body, path, iter, led) EXCEPT ![p].k = k, ![p].saved = l]
    BY <1>1 DEF ForEachNext
  <2>2. PICK id : id = Def(p).body
    OBVIOUS
  <2> DEFINE F == Enter(p, id, path, iter, led)
  <2>3. /\ \A q : q \in DOMAIN F <=> q \in DOMAIN fr \/ q = Body(p)
        /\ F[p].st = "body" /\ DOMAIN F[p] = FrameFields
    BY EnterFrames
  <2>4. fr' = [F EXCEPT ![p].k = k, ![p].saved = l]
    BY <2>1, <2>2
  <2> HIDE DEF F
  <2> QED
    BY <2>3, <2>4 DEF FrameFields
<1>5. \A s : ~Binds(p, s) /\ (Binds(p, s)' <=> led = Root /\ s \in {as, "item"})
  BY <1>1, <1>2, <1>3, <1>4 DEF Binds, At, Def, Nodes
<1>6. /\ Root \in DOMAIN leds /\ led \in DOMAIN leds /\ ItemNames \subseteq Slot
      /\ leds' = [leds EXCEPT ![led] = BindItem(@, as, fr[p].items[fr[p].k + 1])]
  <2>1. ItemNames \subseteq Slot
    BY DEF NamesFree, ItemNames
  <2> QED
    BY <1>1, <2>1, RootLedger, LiveFrame DEF ForEachNext
<1>7. CASE led # Root
  <2>1. leds'[Root] = leds[Root]
    BY <1>6, <1>7
  <2> QED
    BY <1>2, <1>5, <1>7, <2>1, BindingsKept DEF RootLed
<1>8. CASE led = Root
  <2>1. \A s \in ItemNames : s \notin {as, "item"} => RootLed'[s] = RootLed[s]
    BY <1>6, <1>8 DEF BindItem, RootLed
  <2>2. \A q, s : q # p =>
          /\ Binds(q, s)' <=> Binds(q, s)
          /\ Binds(q, s) => fr'[q] = fr[q] /\ q \in DOMAIN fr /\ q \in DOMAIN fr'
    BY <1>2, OthersBind
  <2>3. SUFFICES ASSUME NEW s \in ItemNames
                 PROVE  /\ (\A q \in DOMAIN fr' : ~Binds(q, s)') => RootLed'[s] = Unset
                        /\ \A q \in DOMAIN fr' :
                             Binds(q, s)'
                             /\ (\A a \in DOMAIN fr' : Prefix(a, q) /\ a # q => ~Binds(a, s)')
                               => fr'[q].saved[s] = Unset
    <3>1. ItemNames' = ItemNames
      BY DEF ItemNames, Nodes, Slot
    <3> QED
      BY <3>1 DEF Bindings
  <2>4. ASSUME \A q \in DOMAIN fr' : ~Binds(q, s)' PROVE RootLed'[s] = Unset
    <3>1. \A q \in DOMAIN fr : ~Binds(q, s)
      BY <1>5, <2>2, <2>4
    <3>2. s \notin {as, "item"}
      BY <1>3, <1>5, <1>8, <2>4
    <3> QED
      BY <2>1, <3>1, <3>2 DEF Bindings
  <2>5. ASSUME NEW q \in DOMAIN fr', q # p, Binds(q, s)',
               \A a \in DOMAIN fr' : Prefix(a, q) /\ a # q => ~Binds(a, s)'
        PROVE  fr'[q].saved[s] = Unset
    <3>1. \A a \in DOMAIN fr : Prefix(a, q) /\ a # q => ~Binds(a, s)
      BY <1>5, <2>2, <2>5
    <3> QED
      BY <2>2, <2>5, <3>1 DEF Bindings
  <2>6. ASSUME Binds(p, s)', \A a \in DOMAIN fr' : Prefix(a, p) /\ a # p => ~Binds(a, s)'
        PROVE  fr'[p].saved[s] = Unset
    <3>1. ASSUME NEW a \in DOMAIN fr, Binds(a, s) PROVE FALSE
      <4>1. a # p /\ fr[a].led = Root
        BY <1>5, <3>1 DEF Binds
      <4>2. ~Prefix(a, p)
        BY <2>2, <2>6, <3>1, <4>1
      <4>3. ~Prefix(p, a)
        <5>1. KidsOf(fr[p]) = {}
          BY <1>2 DEF At, KidsOf
        <5> QED
          BY <4>1, <5>1, BelowFrame DEF Tree
      <4> QED
        BY <1>1, <1>8, <4>1, <4>2, <4>3 DEF Tree, Ledgered, Apart
    <3>2. RootLed[s] = Unset
      BY <3>1 DEF Bindings
    <3> QED
      BY <1>1, <1>4, <1>8, <3>2 DEF Led, RootLed
  <2> QED
    BY <2>4, <2>5, <2>6
<1> QED
  BY <1>7, <1>8

LEMMA EndRestores ==
  ASSUME IInv, Tree, Bindings, NamesFree, NEW p \in DOMAIN fr, ForEachItemEnd(p), wf' = wf
  PROVE  Bindings'
<1>1. PICK as, led, l : as = Def(p).as /\ led = fr[p].led /\ l = fr[p].saved
  OBVIOUS
<1>2. At(p, "for_each", "body") /\ FrameStep(p) /\ fr[p].st = "body"
  BY DEF ForEachItemEnd, FrameStep, At
<1>3. fr'[p].st \in {"loop", "done"} /\ p \in DOMAIN fr'
  BY <1>2, BodyFailure, LoopOnFrame DEF ForEachItemEnd
<1>4. \A s : ~Binds(p, s)' /\ (Binds(p, s) <=> led = Root /\ s \in {as, "item"})
  BY <1>1, <1>2, <1>3 DEF Binds, At
<1>5. /\ Root \in DOMAIN leds /\ led \in DOMAIN leds /\ ItemNames \subseteq Slot
      /\ leds' = [leds EXCEPT ![led] = RestoreItem(leds[led], as, l)]
  <2>1. ItemNames \subseteq Slot
    BY DEF NamesFree, ItemNames
  <2> QED
    BY <1>1, <2>1, RootLedger, LiveFrame DEF ForEachItemEnd, Restored, Led
<1>6. CASE led # Root
  <2>1. leds'[Root] = leds[Root]
    BY <1>5, <1>6
  <2> QED
    BY <1>2, <1>4, <1>6, <2>1, BindingsKept DEF RootLed
<1>7. CASE led = Root
  <2>1. \A s \in ItemNames : RootLed'[s] = IF s \in {as, "item"} THEN l[s] ELSE RootLed[s]
    BY <1>5, <1>7 DEF RestoreItem, RootLed
  <2>2. \A q, s : q # p =>
          /\ Binds(q, s)' <=> Binds(q, s)
          /\ Binds(q, s) => fr'[q] = fr[q] /\ q \in DOMAIN fr /\ q \in DOMAIN fr'
    BY <1>2, OthersBind
  <2>3. SUFFICES ASSUME NEW s \in ItemNames
                 PROVE  /\ (\A q \in DOMAIN fr' : ~Binds(q, s)') => RootLed'[s] = Unset
                        /\ \A q \in DOMAIN fr' :
                             Binds(q, s)'
                             /\ (\A a \in DOMAIN fr' : Prefix(a, q) /\ a # q => ~Binds(a, s)')
                               => fr'[q].saved[s] = Unset
    <3>1. ItemNames' = ItemNames
      BY DEF ItemNames, Nodes, Slot
    <3> QED
      BY <3>1 DEF Bindings
  <2>4. ASSUME \A q \in DOMAIN fr' : ~Binds(q, s)' PROVE RootLed'[s] = Unset
    <3>1. \A q \in DOMAIN fr : q # p => ~Binds(q, s)
      BY <2>2, <2>4
    <3>2. CASE s \in {as, "item"}
      <4>1. Binds(p, s)
        BY <1>4, <1>7, <3>2
      <4>2. l[s] = Unset
        BY <1>1, <3>1, <4>1 DEF Bindings
      <4> QED
        BY <2>1, <3>2, <4>2
    <3>3. CASE s \notin {as, "item"}
      <4>1. \A q \in DOMAIN fr : ~Binds(q, s)
        BY <1>4, <3>1, <3>3
      <4> QED
        BY <2>1, <3>3, <4>1 DEF Bindings
    <3> QED
      BY <3>2, <3>3
  <2>5. ASSUME NEW q \in DOMAIN fr', Binds(q, s)',
               \A a \in DOMAIN fr' : Prefix(a, q) /\ a # q => ~Binds(a, s)'
        PROVE  fr'[q].saved[s] = Unset
    <3>1. q # p
      BY <1>4, <2>5
    <3>2. ~Prefix(p, q)
      <4>1. KidsOf(fr'[p]) = {} /\ Rooted(fr')
        <5>1. fr'[p].kind = "for_each" /\ Rooted(fr')
          BY <1>2, StepFrames DEF SameNode, At
        <5> QED
          BY <1>3, <5>1 DEF KidsOf
      <4> QED
        BY <1>3, <3>1, <4>1, BelowFrame
    <3>3. \A a \in DOMAIN fr : Prefix(a, q) /\ a # q => ~Binds(a, s)
      BY <2>2, <2>5, <3>2
    <3> QED
      BY <2>2, <2>5, <3>1, <3>3 DEF Bindings
  <2> QED
    BY <2>4, <2>5
<1> QED
  BY <1>6, <1>7

LEMMA LoopSteps ==
  ASSUME NEW p \in DOMAIN fr, FrameStep(p) \/ HostStep(p), fr[p].kind = "for_each"
  PROVE  ForEachStart(p) \/ ForEachNext(p) \/ ForEachItemEnd(p) \/ ForEachEnd(p)
<1>1. CASE FrameStep(p)
  BY <1>1 DEF FrameStep, At, Program, ProgramFails, ActorStart, ActorUnresolved,
     MapStart, Dispatch, Collect, MapEnd, ItemStart, ItemEnd, WhileStart, WhilePass,
     WhilePassEnd, WhileEnd, WhileUnresolved, BranchStart, BranchUnresolved, ResumeStart,
     PassOn, GroupStart, SessionStart, SessionAcquire, SessionEnd, GroupJoin
<1>2. CASE HostStep(p)
  BY <1>2 DEF HostStep, At, ActorReplies, ActorFails, ResumeLoaded, LoadFails
<1> QED
  BY <1>1, <1>2

LEMMA StepBindings ==
  ASSUME IInv, Tree, Tree', Bindings, NamesFree, NEW p \in DOMAIN fr,
         FrameStep(p) \/ HostStep(p), wf' = wf
  PROVE  Bindings'
<1>1. CASE fr[p].kind # "for_each"
  <2>1. \A s : ~Binds(p, s) /\ ~Binds(p, s)'
    BY <1>1, StepFrames DEF Binds, At, SameNode
  <2> QED
    BY <1>1, <2>1, NamesKept, BindingsKept
<1>2. CASE fr[p].kind = "for_each"
  <2>1. ForEachStart(p) \/ ForEachNext(p) \/ ForEachItemEnd(p) \/ ForEachEnd(p)
    BY <1>2, LoopSteps
  <2>2. CASE ForEachStart(p) \/ ForEachEnd(p)
    <3>1. leds' = leds /\ fr[p].st # "body"
      BY <2>2 DEF ForEachStart, ForEachEnd, StartFails, At, store
    <3>2. fr'[p].st # "body"
      <4>1. DOMAIN fr[p] = FrameFields
        BY LiveFrame
      <4>2. \/ \E r : fr' = Done(fr, p, r)
            \/ \E x : fr' = [fr EXCEPT ![p].st = "loop", ![p].items = x]
        BY <2>2 DEF ForEachStart, ForEachEnd, StartFails, Complete
      <4>3. ASSUME NEW r, fr' = Done(fr, p, r) PROVE fr'[p].st = "done"
        BY <4>3, DoneFrame
      <4>4. ASSUME NEW x, fr' = [fr EXCEPT ![p].st = "loop", ![p].items = x]
            PROVE  fr'[p].st = "loop"
        BY <4>1, <4>4 DEF FrameFields
      <4> QED
        BY <4>2, <4>3, <4>4
    <3>3. \A s : ~Binds(p, s) /\ ~Binds(p, s)'
      BY <3>1, <3>2 DEF Binds, At
    <3> QED
      BY <3>1, <3>3, BindingsKept DEF RootLed
  <2> QED
    BY <2>1, <2>2, NextBinds, EndRestores
<1> QED
  BY <1>1, <1>2

LEMMA RunStepBindings ==
  ASSUME IInv, Tree, Tree', Bindings, cancel \in BOOLEAN, RunStep, wf' = wf PROVE Bindings'
<1>1. \A q, s : ~Binds(q, s)'
  BY RunStepFrames DEF Binds, At
<1>2. ASSUME NEW q, NEW s, Binds(q, s) PROVE FALSE
  <2>1. q \in DOMAIN fr /\ fr[q].st = "body" /\ Live /\ Prefix(Body(Root), q) /\ Rooted(fr)
    BY <1>2, BelowRoot DEF Binds, At, Tree
  <2>2. fr[Body(Root)].st = "done"
    <3>1. fr # <<>>
      BY <2>1
    <3> QED
      BY <3>1 DEF RunStep, EntryStart, EntryEnd, EntriesExhausted, FinalStart, FinalEnd, Settle,
         Tree, IsDone
  <2>3. KidsOf(fr[Body(Root)]) = {}
    BY <2>2 DEF KidsOf
  <2> QED
    BY <2>1, <2>2, <2>3, BelowFrame DEF Live
<1>3. leds' = leds /\ ItemNames' = ItemNames
  BY RunStepRest DEF ItemNames, Nodes, Slot
<1> QED
  BY <1>1, <1>2, <1>3 DEF Bindings, RootLed

LEMMA BindingsInit == ASSUME Init, NamesFree PROVE Bindings
<1>1. DOMAIN fr = {} /\ leds = StartLedgers /\ ItemNames \subseteq Slot
  BY DEF Init, NamesFree, ItemNames
<1>2. RootLed = [s \in Slot |-> IF s \in DOMAIN Args THEN Args[s] ELSE Unset]
  BY <1>1 DEF RootLed, StartLedgers, Put
<1> QED
  BY <1>1, <1>2 DEF Bindings, NamesFree

LEMMA BindingsStutter == ASSUME Bindings, UNCHANGED vars PROVE Bindings'
<1>1. UNCHANGED <<wf, fr, leds>>
  BY DEF vars
<1>2. ItemNames' = ItemNames /\ RootLed' = RootLed /\ \A p, s : Binds(p, s)' <=> Binds(p, s)
  BY <1>1 DEF ItemNames, Nodes, Slot, RootLed, Binds, At, Def
<1> QED
  BY <1>1, <1>2 DEF Bindings

\* If the names of items are not also those of arguments or outputs, a run's own
\* ledger binds no item outside of a for_each, however its loops nest and fail:
\* every loop finds what the loops around it had bound, and puts it back.
THEOREM ItemsAreUnbound == Spec /\ []NamesFree => []BindingsRestored
<1>1. ASSUME IInv, Tree, Tree', Books, NamesFree, Bindings, [Next]_vars PROVE Bindings'
  <2>1. CASE UNCHANGED vars
    BY <1>1, <2>1, BindingsStutter
  <2>2. ASSUME NEW p \in DOMAIN fr, FrameStep(p) \/ HostStep(p), wf' = wf PROVE Bindings'
    BY <1>1, <2>2, StepBindings
  <2>3. CASE RunStep /\ wf' = wf
    BY <1>1, <2>3, RunStepBindings DEF Books
  <2> QED
    BY <1>1, <2>1, <2>2, <2>3 DEF Next, Progress, Returned
<1>2. Init /\ NamesFree => Bindings
  BY BindingsInit
<1>3. Bindings => BindingsRestored
  BY DEF Bindings, BindingsRestored, Binds, At
<1> QED
  BY <1>1, <1>2, <1>3, BooksInvariant, PTL DEF Spec

-----------------------------------------------------------------------------
(* What a map and its items announce                                       *)

ItemLane(lane, i) == <<Index(lane[1], i - 1), lane[2]>>

ItemEnds == {"MapItemCompleted", "MapItemFailed"}
Closings == ItemEnds \cup {"MapCompleted"}

\* What items have announced on a lane: nothing, or one result.
Ends(lane) == {e \in events : e.kind \in ItemEnds /\ e.lane = lane}
Announced(lane, ok) ==
  \E e \in events :
    /\ Ends(lane) = {e}
    /\ e.kind = IF ok THEN "MapItemCompleted" ELSE "MapItemFailed"

\* Items and maps close on lanes on which a node has started, which is what a
\* node that is no longer new has done.
ClosingsStarted ==
  \A e \in events : e.kind \in Closings => \E d \in Started : d.lane = e.lane
NodesStarted ==
  \A p \in DOMAIN fr : Noded(p) /\ fr[p].st # "new" => \E d \in Started : d.lane = Lane(p)

\* Items are the children of maps, each on the lane of its index, on which it
\* runs its body.
Kin ==
  \A p, q \in DOMAIN fr : \A i \in Nat :
    q = Kid(p, i) =>
      /\ fr[p].kind = "item" => Noded(q) /\ Lane(q) = Lane(p)
      /\ fr[p].kind = "map" <=> fr[q].kind = "item"
      /\ fr[p].kind = "map" => Lane(q) = ItemLane(Lane(p), i)

\* Below a node paths are longer than its own.
Longer ==
  \A p, q \in DOMAIN fr :
    Prefix(p, q) /\ p # q /\ Noded(p) => Len(fr[q].path) > Len(fr[p].path)

\* An item announces its result when it has it, and a map joins what was announced.
ItemsTold ==
  \A q \in DOMAIN fr :
    fr[q].kind = "item" =>
      IF fr[q].st = "done" THEN Announced(Lane(q), fr[q].ret.ok) ELSE Ends(Lane(q)) = {}
ResultsTold ==
  \A p \in DOMAIN fr :
    At(p, "map", "fan") =>
      \A i \in 1 .. Len(fr[p].res) : Announced(ItemLane(Lane(p), i), fr[p].res[i].ok)

\* No map has completed on the lane of a node that still runs, and what a map
\* signalled stays on its lane.
NotOver ==
  \A p \in DOMAIN fr :
    Noded(p) /\ fr[p].st # "done" => \A e \in Of("MapCompleted") : e.lane # Lane(p)
Signalled ==
  \A e \in Of("MapCompleted") :
    /\ e.lane \in DOMAIN nodeIo
    /\ IsPath(e.lane[1]) /\ e.lane = <<e.lane[1], e.lane[2]>>

Maps ==
  /\ ClosingsStarted /\ NodesStarted
  /\ Kin /\ Longer
  /\ ItemsTold /\ ResultsTold
  /\ NotOver /\ Signalled
  /\ MapAccounts

-----------------------------------------------------------------------------
(* Who closes                                                              *)

LEMMA ClosingSteps ==
  ASSUME IInv, Tree, Clock, NEW p \in DOMAIN fr, FrameStep(p) \/ HostStep(p)
  PROVE  \A e \in events' \ events :
           /\ e.kind \in ItemEnds => ItemEnd(p)
           /\ e.kind = "MapCompleted" => MapEnd(p) /\ GatePassed(p)
<1>1. ASSUME NEW S, Spoke(Lane(p), S), S \cap Closings = {}
      PROVE  \A e \in events' \ events : e.kind \notin Closings
  BY <1>1, SpokeClock
<1>2. ASSUME NEW x, Emit(Lane(p), <<x>>), x.kind \notin Closings
      PROVE  \A e \in events' \ events : e.kind \notin Closings
  <2>1. \A e \in events' \ events : e.kind = x.kind
    BY <1>2, SpeakOne
  <2> QED
    BY <1>2, <2>1
<1>3. Plain \cap Closings = {} /\ Replied \cap Closings = {}
  BY DEF Plain, Replied, Closings, ItemEnds
<1>4. CASE Steady(p)
  <2>1. \A e \in events' \ events : e.kind \notin Closings
    BY <1>1, <1>3, <1>4 DEF Steady
  <2> QED
    BY <2>1 DEF Closings
<1>5. CASE MapEnd(p)
  <2>1. CASE GatePassed(p)
    <3>1. \A e \in events' \ events : e.kind \in Plain \cup {"MapCompleted"}
      BY <1>5, MapEndSpeaks, SpokeClock
    <3>2. \A e \in events' \ events : e.kind \notin ItemEnds
      BY <3>1 DEF Plain, ItemEnds
    <3> QED
      BY <1>5, <2>1, <3>2
  <2>2. CASE ~GatePassed(p)
    BY <1>5, <2>2 DEF MapEnd, clock
  <2> QED
    BY <2>1, <2>2
<1>6. CASE ItemStart(p)
  <2> DEFINE x == Ev("MapItemStarted")
  <2>1. Emit(Lane(p), <<x>>) /\ x.kind \notin Closings
    BY <1>6 DEF ItemStart, Ev, Closings, ItemEnds
  <2> HIDE DEF x
  <2>2. \A e \in events' \ events : e.kind \notin Closings
    BY <1>2, <2>1
  <2> QED
    BY <2>2 DEF Closings
<1>7. CASE ItemEnd(p)
  <2> DEFINE r == fr[Body(p)].ret
             x == IF r.ok THEN Ev("MapItemCompleted") ELSE EvPay("MapItemFailed", r.v)
  <2>1. Emit(Lane(p), <<x>>) /\ x.kind \in ItemEnds
    BY <1>7 DEF ItemEnd, Ev, EvPay, ItemEnds
  <2> HIDE DEF x
  <2>2. \A e \in events' \ events : e.kind = x.kind
    BY <2>1, SpeakOne
  <2>3. "MapCompleted" \notin ItemEnds
    BY DEF ItemEnds
  <2> QED
    BY <1>7, <2>1, <2>2, <2>3
<1>8. CASE SessionAcquire(p)
  <2> DEFINE x == EvPay("SemaphoreAcquired", [limit |-> Def(p).limit])
  <2>1. Emit(Lane(p), <<x>>) /\ x.kind \notin Closings
    BY <1>8 DEF SessionAcquire, EvPay, Closings, ItemEnds
  <2> HIDE DEF x
  <2>2. \A e \in events' \ events : e.kind \notin Closings
    BY <1>2, <2>1
  <2> QED
    BY <2>2 DEF Closings
<1>9. CASE SessionEnd(p)
  <2> DEFINE x == EvPay("SemaphoreReleased", [limit |-> Def(p).limit])
  <2>1. x.kind \notin Closings /\ (UNCHANGED clock \/ Emit(Lane(p), <<x>>))
    BY <1>9 DEF SessionEnd, Release, ReleaseAnnounced, EvPay, Closings, ItemEnds
  <2> HIDE DEF x
  <2>2. \A e \in events' \ events : e.kind \notin Closings
    BY <1>2, <2>1 DEF clock
  <2> QED
    BY <2>2 DEF Closings
<1>10. ASSUME NEW v \in Replies, ActorReplies(p, v)
       PROVE  \A e \in events' \ events : e.kind \notin Closings
  BY <1>1, <1>3, <1>10, RepliesSpeak
<1>11. CASE \E v \in Replies : ActorReplies(p, v)
  BY <1>10, <1>11 DEF Closings
<1> QED
  BY <1>4, <1>5, <1>6, <1>7, <1>8, <1>9, <1>11, StepSteady

\* An item announces the result of its body, and keeps it.
LEMMA ItemEndTells ==
  ASSUME IInv, Tree, Clock, NEW p \in DOMAIN fr, ItemEnd(p)
  PROVE  LET r == fr[Body(p)].ret IN
         /\ \E e : /\ events' = events \cup {e} /\ e \notin events /\ e.lane = Lane(p)
                   /\ e.kind = IF r.ok THEN "MapItemCompleted" ELSE "MapItemFailed"
         /\ p \in DOMAIN fr' /\ fr'[p].st = "done" /\ fr'[p].ret = r
         /\ fr[p].kind = "item" /\ fr[p].st = "body"
         /\ Body(p) \in DOMAIN fr /\ fr[Body(p)].st = "done"
<1> DEFINE r == fr[Body(p)].ret
           x == IF r.ok THEN Ev("MapItemCompleted") ELSE EvPay("MapItemFailed", r.v)
           n == NextSeq(Lane(p))
<1>1. /\ Emit(Lane(p), <<x>>) /\ fr' = Done(Without(fr, {Body(p)}), p, r)
      /\ fr[p].kind = "item" /\ fr[p].st = "body"
      /\ Body(p) \in DOMAIN fr /\ fr[Body(p)].st = "done"
  BY DEF ItemEnd, At, IsDone
<1>2. x.kind = IF r.ok THEN "MapItemCompleted" ELSE "MapItemFailed"
  BY DEF Ev, EvPay
<1>3. p \notin {Body(p)}
  BY LiveFrame, KidPosition DEF Body
<1> HIDE DEF x, n, r
<1>4. p \in DOMAIN fr' /\ fr'[p].st = "done" /\ fr'[p].ret = r
  BY <1>1, <1>3, ReapedFrame
<1>5. n \in Nat /\ n >= NextSeq(Lane(p)) /\ events' = events \cup {Event(Lane(p), n, x)}
  <2>1. n \in Nat
    BY NextSeqNat DEF n
  <2> QED
    BY <1>1, <2>1, EmitOne DEF n
<1> DEFINE e == Event(Lane(p), n, x)
<1>6. e \notin events /\ e.kind = x.kind
  BY <1>5, FreshEvent
<1>7. e.lane = Lane(p)
  BY DEF Event
<1> HIDE DEF e
<1>8. events' = events \cup {e}
  BY <1>5 DEF e
<1> QED
  BY <1>1, <1>2, <1>4, <1>6, <1>7, <1>8 DEF r

-----------------------------------------------------------------------------
(* Parents, children and their lanes                                       *)

LEMMA SameKid ==
  ASSUME NEW p, Position(p), NEW q, Position(q), NEW i \in Nat, NEW j \in Nat,
         Kid(p, i) = Kid(q, j)
  PROVE  p = q /\ i = j
<1>1. /\ Len(Kid(p, i)) = Len(p) + 1 /\ Kid(p, i)[Len(p) + 1] = i
      /\ Len(Kid(q, j)) = Len(q) + 1 /\ Kid(q, j)[Len(q) + 1] = j
      /\ Prefix(p, Kid(p, i)) /\ Prefix(q, Kid(q, j))
      /\ Position(Kid(p, i)) /\ Len(p) \in Nat /\ Len(q) \in Nat
  BY KidPosition, PositionLen
<1>2. Len(p) = Len(q)
  BY <1>1
<1>3. p = SubSeq(Kid(p, i), 1, Len(p)) /\ q = SubSeq(Kid(p, i), 1, Len(q))
  BY <1>1, PrefixIsCut
<1> QED
  BY <1>1, <1>2, <1>3

\* The children of an item are nodes, those of a map are items, and they only.
LEMMA KidKinds ==
  ASSUME IInv, Tree, NEW p \in DOMAIN fr, FrameStep(p) \/ HostStep(p),
         NEW q \in DOMAIN fr', q \notin DOMAIN fr
  PROVE  /\ fr[p].kind = "item" => fr'[q].kind \notin {"item", "session"}
         /\ fr[p].kind = "map" <=> fr'[q].kind = "item"
         /\ fr'[q].st = "new"
<1>1. PICK i \in KidsOf(fr'[p]) : i \in Nat /\ q = Kid(p, i)
  BY StepKid
<1>2. Grown(fr, fr', leds, leds', p)
  BY StepMoves DEF Moves, Moved, Reaped
<1>3. /\ fr'[q].st = "new"
      /\ fr[p].kind \in {"map", "session_group"} <=> fr'[q].kind \in {"item", "session"}
  BY <1>1, <1>2 DEF Grown, Born
<1>4. Moves(p) /\ KidsOf(fr'[p]) # {} /\ fr'[p].kind = fr[p].kind /\ Shaped(fr'[p])
  BY <1>1, StepMoves, StepFrames DEF SameNode
<1>5. ASSUME fr[p].kind = "map" PROVE fr'[q].kind = "item"
  <2>1. fr'[p].st = "fan"
    BY <1>4, <1>5 DEF KidsOf, Shaped, StatesOf
  <2>2. Dispatch(p)
    BY <1>4, <1>5, <2>1, MapFans
  <2> DEFINE hi == Smaller(fr[p].k + Width(Def(p)), Len(fr[p].items))
             A == [fr EXCEPT ![p].k = hi]
             K == {Kid(p, n) : n \in fr[p].k + 1 .. hi}
             H == [x \in K |-> Frame("item", fr[p].node, Index(fr[p].path, x[Len(x)] - 1),
                                     fr[p].iter, x)]
  <2>3. fr' = Plus(A, H) /\ DOMAIN A = DOMAIN fr
    BY <2>2 DEF Dispatch
  <2>4. \A x \in DOMAIN H : H[x].kind = "item"
    BY DEF Frame
  <2> HIDE DEF H, A
  <2> QED
    BY <1>1, <1>4, <2>3, <2>4, NewKid
<1>6. ASSUME fr[p].kind = "session_group" PROVE fr'[q].kind = "session"
  <2>1. fr'[p].st = "join"
    BY <1>4, <1>6 DEF KidsOf, Shaped, StatesOf
  <2>2. GroupStart(p)
    BY <1>4, <1>6, <2>1, GroupFans
  <2> DEFINE items == Led(p)[Def(p).src]
             A == [fr EXCEPT ![p].st = "join", ![p].items = items]
             K == {Kid(p, n) : n \in 1 .. Len(items)}
             H == [x \in K |-> Frame("session", fr[p].node, SessionPath(p, x[Len(x)]), 0, x)]
  <2>3. IsArray(Led(p), Def(p).src)
    <3>1. ASSUME StartFails(p, LedgerErr) PROVE FALSE
      <4>1. DOMAIN fr' = DOMAIN fr
        BY <3>1 DEF StartFails, Done
      <4> QED
        BY <4>1
    <3> QED
      BY <2>2, <3>1 DEF GroupStart
  <2>4. fr' = Plus(A, H) /\ DOMAIN A = DOMAIN fr
    BY <2>2, <2>3 DEF GroupStart
  <2>5. \A x \in DOMAIN H : H[x].kind = "session"
    BY DEF Frame
  <2> HIDE DEF H, A
  <2> QED
    BY <1>1, <1>4, <2>4, <2>5, NewKid
<1> QED
  BY <1>3, <1>5, <1>6

\* Of two frames of which one is above the other, both were there before the
\* step, or the lower one is new and the other was at or above its parent.
LEMMA FramePairs ==
  ASSUME IInv, Tree, NEW p \in DOMAIN fr, FrameStep(p) \/ HostStep(p),
         NEW a \in DOMAIN fr', NEW b \in DOMAIN fr', Prefix(a, b), a # b
  PROVE  /\ a \in DOMAIN fr
         /\ b \notin DOMAIN fr => Prefix(a, p) /\ \E i \in Nat : b = Kid(p, i)
<1>1. /\ Position(p) /\ Position(a) /\ Position(b) /\ Rooted(fr)
  BY StepFrames, LiveFrame DEF Rooted
<1>2. CASE b \in DOMAIN fr
  <2>1. b \in DOMAIN fr /\ a = SubSeq(b, 1, Len(a)) /\ Len(a) \in 1 .. Len(b)
    BY <1>1, <1>2, PrefixIsCut
  <2> QED
    BY <1>1, <2>1 DEF Rooted
<1>3. CASE b \notin DOMAIN fr
  <2>1. PICK i \in Nat : b = Kid(p, i)
    BY <1>3, StepKid
  <2>2. Prefix(a, p)
    BY <1>1, <2>1, AboveKid
  <2>3. a = SubSeq(p, 1, Len(a)) /\ Len(a) \in 1 .. Len(p)
    BY <1>1, <2>2, PrefixIsCut
  <2>4. a \in DOMAIN fr
    BY <1>1, <2>3 DEF Rooted
  <2> QED
    BY <2>1, <2>2, <2>4
<1> QED
  BY <1>2, <1>3

LEMMA KinKept ==
  ASSUME IInv, Tree, Kin, NEW p \in DOMAIN fr, FrameStep(p) \/ HostStep(p) PROVE Kin'
<1> SUFFICES ASSUME NEW a \in DOMAIN fr', NEW b \in DOMAIN fr', NEW i \in Nat, b = Kid(a, i)
             PROVE  /\ fr'[a].kind = "item" => Noded(b)' /\ Lane(b)' = Lane(a)'
                    /\ fr'[a].kind = "map" <=> fr'[b].kind = "item"
                    /\ fr'[a].kind = "map" => Lane(b)' = ItemLane(Lane(a)', i)
  BY DEF Kin, ItemLane
<1>1. /\ SameNode(fr[p], fr'[p]) /\ Position(p) /\ Position(a)
      /\ \A q \in DOMAIN fr' : q \in DOMAIN fr /\ q # p => fr'[q] = fr[q]
  BY StepFrames, LiveFrame DEF Rooted
<1>2. Prefix(a, b) /\ a # b
  BY <1>1, KidPosition
<1>3. a \in DOMAIN fr /\ (b \notin DOMAIN fr => \E j \in Nat : b = Kid(p, j))
  BY <1>2, FramePairs
<1>4. \A q \in DOMAIN fr' : q \in DOMAIN fr => fr'[q].kind = fr[q].kind /\ Lane(q)' = Lane(q)
  BY <1>1 DEF SameNode, Lane
<1>5. CASE b \in DOMAIN fr
  BY <1>3, <1>4, <1>5 DEF Kin, Noded
<1>6. CASE b \notin DOMAIN fr
  <2>1. a = p
    BY <1>1, <1>3, <1>6, SameKid
  <2>2. /\ fr[p].kind = "item" => fr'[b].kind \notin {"item", "session"}
        /\ fr[p].kind = "map" <=> fr'[b].kind = "item"
    BY <1>6, KidKinds
  <2>3. PICK j \in Nat : b = Kid(p, j) /\ Related(fr'[p], j, fr'[b])
    BY <1>6, StepKid
  <2>4. j = i
    <3>1. Kid(p, j) = Kid(p, i)
      BY <2>1, <2>3
    <3> QED
      BY <1>1, <3>1, SameKid
  <2>5. fr'[p].kind = fr[p].kind
    BY <1>1 DEF SameNode
  <2>6. fr[p].kind = "item" => Lane(b)' = Lane(p)'
    BY <2>3, <2>5 DEF Related, Lane
  <2>7. fr[p].kind = "map" => Lane(b)' = ItemLane(Lane(p)', i)
    BY <2>3, <2>4, <2>5 DEF Related, Lane, ItemLane
  <2> QED
    BY <2>1, <2>2, <2>5, <2>6, <2>7 DEF Noded
<1> QED
  BY <1>5, <1>6

LEMMA LongerKept ==
  ASSUME IInv, Tree, Longer, NEW p \in DOMAIN fr, FrameStep(p) \/ HostStep(p) PROVE Longer'
<1> SUFFICES ASSUME NEW a \in DOMAIN fr', NEW b \in DOMAIN fr', Prefix(a, b), a # b,
                    fr'[a].kind \notin {"item", "session"}
             PROVE  Len(fr'[b].path) > Len(fr'[a].path)
  BY DEF Longer, Noded
<1>1. /\ SameNode(fr[p], fr'[p]) /\ IsPath(fr[p].path)
      /\ \A q \in DOMAIN fr' : q \in DOMAIN fr /\ q # p => fr'[q] = fr[q]
  BY StepFrames, LiveFrame DEF Sound
<1>2. a \in DOMAIN fr /\ (b \notin DOMAIN fr => Prefix(a, p) /\ \E j \in Nat : b = Kid(p, j))
  BY FramePairs
<1>3. \A q \in DOMAIN fr' :
        q \in DOMAIN fr => fr'[q].kind = fr[q].kind /\ fr'[q].path = fr[q].path
  BY <1>1 DEF SameNode
<1>4. CASE b \in DOMAIN fr
  BY <1>2, <1>3, <1>4 DEF Longer, Noded
<1>5. CASE b \notin DOMAIN fr
  <2>1. PICK j : Related(fr'[p], j, fr'[b])
    BY <1>5, StepKid
  <2>2. PICK f, g : f = fr'[p] /\ g = fr'[b]
    OBVIOUS
  <2>3. /\ Prefix(f.path, g.path) /\ Len(f.path) \in Nat /\ Len(g.path) \in Nat
        /\ f.kind # "item" => Len(g.path) = Len(f.path) + 1
    <3>1. IsPath(f.path)
      BY <1>1, <2>2 DEF SameNode
    <3> QED
      BY <2>1, <2>2, <3>1, ChildPath
  <2>4. CASE a = p
    <3>1. f.kind # "item"
      BY <2>2, <2>4
    <3> QED
      BY <2>2, <2>3, <2>4, <3>1
  <2>5. CASE a # p
    <3>1. Len(fr[p].path) > Len(fr[a].path) /\ Len(fr[a].path) \in Nat
      BY <1>2, <1>3, <1>5, <2>5, LiveFrame DEF Longer, Noded
    <3>2. Len(f.path) <= Len(g.path) /\ f.path = fr[p].path
      BY <1>1, <2>2, <2>3 DEF Prefix, SameNode
    <3>3. fr'[a].path = fr[a].path
      BY <1>2, <1>3
    <3> QED
      BY <2>2, <2>3, <3>1, <3>2, <3>3
  <2> QED
    BY <2>4, <2>5
<1> QED
  BY <1>4, <1>5

\* A lane belongs to one of the nodes that are alive.
LEMMA OneNode ==
  ASSUME IInv, Tree, Lanes(fr), Longer, NEW p \in DOMAIN fr, NEW q \in DOMAIN fr,
         Noded(p), Noded(q), Lane(p) = Lane(q)
  PROVE  p = q
<1>1. fr[p].path = fr[q].path
  BY DEF Lane
<1>2. /\ Len(fr[p].path) \in Nat /\ Prefix(fr[p].path, fr[p].path)
  BY LiveFrame
<1>3. ~Apart(p, q)
  BY <1>1, <1>2 DEF Lanes, Apart
<1>4. ASSUME NEW a \in DOMAIN fr, NEW b \in DOMAIN fr, Prefix(a, b), a # b, Noded(a),
             fr[a].path = fr[b].path, Len(fr[a].path) \in Nat
      PROVE  FALSE
  <2>1. Len(fr[b].path) > Len(fr[a].path)
    BY <1>4 DEF Longer
  <2> QED
    BY <1>4, <2>1
<1> QED
  BY <1>1, <1>2, <1>3, <1>4 DEF Apart

\* An item is one of those that its map waits for.
LEMMA ItemOf ==
  ASSUME IInv, Tree, Kin, NEW q \in DOMAIN fr, fr[q].kind = "item"
  PROVE  \E p \in DOMAIN fr : \E i \in Nat :
           /\ q = Kid(p, i) /\ i \in Len(fr[p].res) + 1 .. fr[p].k
           /\ At(p, "map", "fan") /\ Noded(p)
           /\ Lane(q) = ItemLane(Lane(p), i)
<1>1. Position(q) /\ Rooted(fr) /\ Len(q) > 1
  BY LiveFrame DEF Tree, Ledgered
<1> DEFINE n == Len(q) - 1
           p == SubSeq(q, 1, n)
<1>2. n \in 1 .. Len(q) /\ Len(q) \in Nat /\ n + 1 = Len(q)
  BY <1>1, PositionLen
<1>3. p \in DOMAIN fr /\ Position(p) /\ Len(p) = n /\ Prefix(p, q)
  BY <1>1, <1>2, CutPosition DEF Rooted
<1> HIDE DEF p, n
<1>4. p # q
  BY <1>2, <1>3
<1> DEFINE i == q[Len(p) + 1]
<1>5. /\ i \in KidsOf(fr[p]) /\ SubSeq(q, 1, Len(p) + 1) = Kid(p, i)
  BY <1>1, <1>3, <1>4, BelowFrame
<1>6. i \in Nat
  <2>1. q \in Seq(Nat) /\ Len(p) + 1 \in 1 .. Len(q)
    BY <1>1, <1>2, <1>3 DEF Position
  <2> QED
    BY <2>1, ElementOfSeq
<1>7. q = Kid(p, i)
  <2>1. Prefix(q, q) /\ Len(q) = Len(p) + 1
    BY <1>1, <1>2, <1>3 DEF Prefix, Position
  <2>2. q = SubSeq(q, 1, Len(q))
    BY <1>1, <2>1, PrefixIsCut
  <2> QED
    BY <1>5, <2>1, <2>2
<1> HIDE DEF i
<1>8. fr[p].kind = "map" /\ Lane(q) = ItemLane(Lane(p), i)
  BY <1>3, <1>6, <1>7 DEF Kin
<1>9. fr[p].st = "fan"
  BY <1>3, <1>5, <1>8, LiveFrame DEF Shaped, StatesOf, KidsOf
<1> QED
  BY <1>3, <1>5, <1>6, <1>7, <1>8, <1>9 DEF KidsOf, At, Noded

\* An item lane is that of one item of one lane.
LEMMA OneItemLane ==
  ASSUME NEW l, NEW m, IsPath(l[1]), IsPath(m[1]), NEW i \in Nat, NEW j \in Nat,
         ItemLane(l, i) = ItemLane(m, j)
  PROVE  l[1] = m[1] /\ l[2] = m[2] /\ i = j
<1>1. l[2] = m[2] /\ Index(l[1], i - 1) = Index(m[1], j - 1)
  BY DEF ItemLane
<1> DEFINE a == l[1]
           b == m[1]
           S == {a[n] : n \in 1 .. Len(a)} \cup {b[n] : n \in 1 .. Len(b)}
                \cup {<<"#", i - 1>>, <<"#", j - 1>>}
<1>2. a \in Seq(S) /\ b \in Seq(S) /\ <<"#", i - 1>> \in S /\ <<"#", j - 1>> \in S
  <2>1. a \in Seq({a[n] : n \in 1 .. Len(a)}) /\ b \in Seq({b[n] : n \in 1 .. Len(b)})
    BY DEF IsPath
  <2> QED
    BY <2>1
<1> HIDE DEF a, b, S
<1>3. a = b /\ <<"#", i - 1>> = <<"#", j - 1>>
  <2>1. Append(a, <<"#", i - 1>>) = Append(b, <<"#", j - 1>>)
    BY <1>1 DEF Index, a, b
  <2> QED
    BY <1>2, <2>1, AppendInjective
<1>4. i - 1 = j - 1
  BY <1>3
<1> QED
  BY <1>1, <1>3, <1>4 DEF a, b

-----------------------------------------------------------------------------
(* What is announced stays                                                 *)

LEMMA EndsKept ==
  ASSUME IInv, Tree, Clock, NEW p \in DOMAIN fr, FrameStep(p) \/ HostStep(p),
         NEW lane, ItemEnd(p) => lane # Lane(p)
  PROVE  /\ Ends(lane)' = Ends(lane)
         /\ \A ok : Announced(lane, ok) => Announced(lane, ok)'
<1>1. events \subseteq events' /\ \A e \in events' \ events : e.lane = Lane(p)
  BY StepNews
<1>2. \A e \in events' \ events : e.kind \in ItemEnds => e.lane # lane
  BY <1>1, ClosingSteps
<1>3. Ends(lane)' = Ends(lane)
  BY <1>1, <1>2 DEF Ends
<1> QED
  BY <1>1, <1>3 DEF Announced

LEMMA ItemAnnounces ==
  ASSUME IInv, Tree, Clock, NEW p \in DOMAIN fr, ItemEnd(p), Ends(Lane(p)) = {},
         NEW l, l = Lane(p), NEW o, o = fr[Body(p)].ret.ok
  PROVE  Announced(l, o)'
<1>1. PICK e : /\ events' = events \cup {e} /\ e.lane = l
               /\ e.kind = IF o THEN "MapItemCompleted" ELSE "MapItemFailed"
  BY ItemEndTells
<1>2. Ends(l)' = {e}
  BY <1>1 DEF Ends, ItemEnds
<1> QED
  BY <1>1, <1>2 DEF Announced

\* On the lane of a new frame nothing has closed.
LEMMA NothingClosedAhead ==
  ASSUME Lanewise, ClosingsStarted, NEW p \in DOMAIN fr, NEW l, Ahead(p, l)
  PROVE  \A e \in events : e.kind \in Closings => e.lane # l
<1>1. ASSUME NEW e \in events, e.kind \in Closings, e.lane = l PROVE FALSE
  <2>1. PICK d \in Started : d.lane = e.lane
    BY <1>1 DEF ClosingsStarted
  <2>2. ~Ahead(p, d.lane)
    BY DEF Lanewise
  <2> QED
    BY <1>1, <2>1, <2>2
<1> QED
  BY <1>1

LEMMA FreshStart ==
  ASSUME IInv', Lanewise', NEW q \in DOMAIN fr', fr'[q].st = "new", NEW l, l = Lane(q)'
  PROVE  \A d \in Started' : d.lane # l
<1>1. Len(fr'[q].path) \in Nat
  <2>1. IsPath(fr'[q].path)
    BY DEF IInv, AllSound, Sound
  <2> QED
    BY <2>1 DEF IsPath
<1>2. Ahead(q, l)'
  <2>1. l[1] = fr'[q].path /\ l[2] = fr'[q].iter
    BY DEF Lane
  <2>2. Prefix(fr'[q].path, fr'[q].path)
    BY <1>1 DEF Prefix
  <2> QED
    BY <2>1, <2>2 DEF Ahead, Reaches, ToCome
<1>3. ASSUME NEW d \in Started', d.lane = l PROVE FALSE
  <2>1. PICK m : m = d.lane
    OBVIOUS
  <2>2. ~Ahead(q, m)'
    BY <2>1 DEF Lanewise
  <2> QED
    BY <1>2, <1>3, <2>1, <2>2
<1> QED
  BY <1>3

LEMMA FreshLane ==
  ASSUME IInv', Lanewise', ClosingsStarted', NEW q \in DOMAIN fr', fr'[q].st = "new",
         NEW l, l = Lane(q)'
  PROVE  \A e \in events' : e.kind \in Closings => e.lane # l
<1>1. \A d \in Started' : d.lane # l
  BY FreshStart
<1> QED
  BY <1>1 DEF ClosingsStarted

\* A node signals on its own lane while it runs, or leaves the signals alone.
LEMMA SignalSteps ==
  ASSUME NEW p \in DOMAIN fr, FrameStep(p) \/ HostStep(p)
  PROVE  \/ nodeIo' = nodeIo
         \/ /\ \E s : nodeIo' = Put(nodeIo, Lane(p), s)
            /\ Noded(p) /\ fr[p].st # "done"
<1> USE DEF store, At, Noded
<1>1. CASE Program(p)
  BY <1>1 DEF Program
<1>2. CASE MapEnd(p)
  BY <1>2 DEF MapEnd
<1>3. CASE ForEachEnd(p)
  BY <1>3 DEF ForEachEnd
<1>4. CASE ProgramFails(p) \/ ActorStart(p) \/ ActorUnresolved(p) \/ MapStart(p) \/ Dispatch(p)
           \/ Collect(p) \/ ItemStart(p) \/ ItemEnd(p)
  BY <1>4 DEF ProgramFails, ActorStart, ActorUnresolved, MapStart, Dispatch, Collect, ItemStart,
     ItemEnd, StartFails
<1>5. CASE ForEachStart(p) \/ ForEachNext(p) \/ ForEachItemEnd(p) \/ WhileStart(p) \/ WhilePass(p)
           \/ WhilePassEnd(p) \/ WhileEnd(p) \/ WhileUnresolved(p)
  BY <1>5 DEF ForEachStart, ForEachNext, ForEachItemEnd, WhileStart, WhilePass, WhilePassEnd,
     WhileEnd, WhileUnresolved, StartFails
<1>6. CASE BranchStart(p) \/ BranchUnresolved(p) \/ ResumeStart(p) \/ PassOn(p) \/ GroupStart(p)
           \/ SessionStart(p) \/ SessionAcquire(p) \/ SessionEnd(p) \/ GroupJoin(p)
  BY <1>6 DEF BranchStart, BranchUnresolved, ResumeStart, PassOn, GroupStart, SessionStart,
     SessionAcquire, SessionEnd, GroupJoin, StartFails
<1>7. ASSUME NEW v, ActorReplies(p, v)
      PROVE  \/ nodeIo' = nodeIo
             \/ /\ \E s : nodeIo' = Put(nodeIo, Lane(p), s)
                /\ Noded(p) /\ fr[p].st # "done"
  BY <1>7 DEF ActorReplies
<1>8. CASE HostStep(p)
  BY <1>7, <1>8 DEF HostStep, ActorFails, ResumeLoaded, LoadFails
<1> QED
  BY <1>1, <1>2, <1>3, <1>4, <1>5, <1>6, <1>8 DEF FrameStep

LEMMA MapSteps ==
  ASSUME NEW p \in DOMAIN fr, FrameStep(p) \/ HostStep(p), fr[p].kind = "map"
  PROVE  MapStart(p) \/ Dispatch(p) \/ Collect(p) \/ MapEnd(p)
<1>1. CASE FrameStep(p)
  BY <1>1 DEF FrameStep, At, Program, ProgramFails, ActorStart, ActorUnresolved,
     ItemStart, ItemEnd, ForEachStart, ForEachNext, ForEachItemEnd, ForEachEnd,
     WhileStart, WhilePass, WhilePassEnd, WhileEnd, WhileUnresolved, BranchStart,
     BranchUnresolved, ResumeStart, PassOn, GroupStart, SessionStart, SessionAcquire,
     SessionEnd, GroupJoin
<1>2. CASE HostStep(p)
  BY <1>2 DEF HostStep, At, ActorReplies, ActorFails, ResumeLoaded, LoadFails
<1> QED
  BY <1>1, <1>2

-----------------------------------------------------------------------------
(* What a step keeps of it                                                 *)

LEMMA StartedKept ==
  ASSUME IInv, Tree, Clock, NEW p \in DOMAIN fr, FrameStep(p) \/ HostStep(p)
  PROVE  Started \subseteq Started'
BY StepNews DEF Started, Of

LEMMA NodesStartedKept ==
  ASSUME IInv, Tree, Clock, NodesStarted, NEW p \in DOMAIN fr, FrameStep(p) \/ HostStep(p)
  PROVE  NodesStarted'
<1> SUFFICES ASSUME NEW q \in DOMAIN fr', fr'[q].kind \notin {"item", "session"},
                    fr'[q].st # "new"
             PROVE  \E d \in Started' : d.lane = Lane(q)'
  BY DEF NodesStarted, Noded
<1>1. /\ SameNode(fr[p], fr'[p]) /\ Started \subseteq Started'
      /\ \A r \in DOMAIN fr' : r \in DOMAIN fr /\ r # p => fr'[r] = fr[r]
  BY StepFrames, StartedKept
<1>2. q \in DOMAIN fr
  BY KidKinds
<1>3. Lane(q)' = Lane(q) /\ fr'[q].kind = fr[q].kind
  BY <1>1, <1>2 DEF SameNode, Lane
<1>4. CASE fr[q].st # "new"
  BY <1>1, <1>2, <1>3, <1>4 DEF NodesStarted, Noded
<1>5. CASE fr[q].st = "new"
  <2>1. q = p /\ Noded(p)
    BY <1>1, <1>2, <1>3, <1>5 DEF Noded
  <2>2. "NodeStarted" \in News
    BY <1>5, <2>1, StepOutcome DEF Outcome
  <2>3. PICK e \in events' \ events : e.kind = "NodeStarted"
    BY <2>2 DEF News
  <2>4. e.lane = Lane(p) /\ e \in Started'
    BY <2>3, StepNews DEF Started, Of
  <2> QED
    BY <1>3, <2>1, <2>4
<1> QED
  BY <1>4, <1>5

LEMMA ClosingsStartedKept ==
  ASSUME IInv, Tree, Clock, ClosingsStarted, NodesStarted, Kin,
         NEW p \in DOMAIN fr, FrameStep(p) \/ HostStep(p)
  PROVE  ClosingsStarted'
<1> SUFFICES ASSUME NEW e \in events', e.kind \in Closings
             PROVE  \E d \in Started' : d.lane = e.lane
  BY DEF ClosingsStarted
<1>1. Started \subseteq Started'
  BY StartedKept
<1>2. CASE e \in events
  BY <1>1, <1>2 DEF ClosingsStarted
<1>3. CASE e \notin events
  <2>1. e.lane = Lane(p)
    BY <1>3, StepNews
  <2>2. ItemEnd(p) \/ MapEnd(p)
    BY <1>3, ClosingSteps DEF Closings
  <2>3. CASE ItemEnd(p)
    <3>1. fr[p].kind = "item" /\ Body(p) \in DOMAIN fr /\ fr[Body(p)].st = "done"
      BY <2>3, ItemEndTells
    <3>2. Noded(Body(p)) /\ Lane(Body(p)) = Lane(p)
      BY <3>1 DEF Kin, Body
    <3>3. PICK d \in Started : d.lane = Lane(Body(p))
      BY <3>1, <3>2 DEF NodesStarted
    <3> QED
      BY <1>1, <2>1, <3>2, <3>3
  <2>4. CASE MapEnd(p)
    <3>1. Noded(p) /\ fr[p].st # "new"
      BY <2>4 DEF MapEnd, At, Noded
    <3> QED
      BY <1>1, <2>1, <3>1 DEF NodesStarted
  <2> QED
    BY <2>2, <2>3, <2>4
<1> QED
  BY <1>2, <1>3

LEMMA LanePair ==
  ASSUME IInv, Tree, NEW p \in DOMAIN fr
  PROVE  IsPath(Lane(p)[1]) /\ Lane(p) = <<Lane(p)[1], Lane(p)[2]>>
BY LiveFrame DEF Sound, Lane

LEMMA SameItemLane ==
  ASSUME IInv, Tree, NEW p \in DOMAIN fr, NEW l, IsPath(l[1]), l = <<l[1], l[2]>>,
         NEW i \in Nat, NEW j \in Nat, ItemLane(Lane(p), i) = ItemLane(l, j)
  PROVE  Lane(p) = l /\ i = j
<1>1. IsPath(Lane(p)[1]) /\ Lane(p) = <<Lane(p)[1], Lane(p)[2]>>
  BY LanePair
<1>2. PICK m : m = Lane(p)
  OBVIOUS
<1>3. IsPath(m[1]) /\ ItemLane(m, i) = ItemLane(l, j)
  BY <1>1, <1>2
<1>4. m[1] = l[1] /\ m[2] = l[2] /\ i = j
  BY <1>3, OneItemLane
<1>5. m = l
  BY <1>1, <1>2, <1>4
<1> QED
  BY <1>2, <1>4, <1>5

\* Two items are on two lanes.
LEMMA OneItemFrame ==
  ASSUME IInv, Tree, Lanes(fr), Kin, Longer, NEW a \in DOMAIN fr, NEW b \in DOMAIN fr,
         fr[a].kind = "item", fr[b].kind = "item", Lane(a) = Lane(b)
  PROVE  a = b
<1>1. PICK p \in DOMAIN fr, i \in Nat :
        a = Kid(p, i) /\ Noded(p) /\ Lane(a) = ItemLane(Lane(p), i)
  BY ItemOf
<1>2. PICK q \in DOMAIN fr, j \in Nat :
        b = Kid(q, j) /\ Noded(q) /\ Lane(b) = ItemLane(Lane(q), j)
  BY ItemOf
<1>3. PICK l : l = Lane(q) /\ IsPath(l[1]) /\ l = <<l[1], l[2]>>
  BY LanePair
<1>4. ItemLane(Lane(p), i) = ItemLane(l, j)
  BY <1>1, <1>2, <1>3
<1>5. Lane(p) = l /\ i = j
  BY <1>3, <1>4, SameItemLane
<1>6. p = q
  BY <1>1, <1>2, <1>3, <1>5, OneNode
<1> QED
  BY <1>1, <1>2, <1>5, <1>6

\* While an item ends, its map has joined nothing on its lane, and no map has
\* completed that could have had it.
LEMMA ItemEndsInTime ==
  ASSUME IInv, Tree, Lanes(fr), Kin, Longer, NEW a \in DOMAIN fr, fr[a].kind = "item",
         NEW p \in DOMAIN fr, At(p, "map", "fan"), NEW i \in Nat,
         Lane(a) = ItemLane(Lane(p), i)
  PROVE  i \in Len(fr[p].res) + 1 .. fr[p].k
<1>1. PICK q \in DOMAIN fr, j \in Nat :
        /\ j \in Len(fr[q].res) + 1 .. fr[q].k
        /\ Noded(q) /\ Lane(a) = ItemLane(Lane(q), j)
  BY ItemOf
<1>2. PICK l : l = Lane(p) /\ IsPath(l[1]) /\ l = <<l[1], l[2]>>
  BY LanePair
<1>3. ItemLane(Lane(q), j) = ItemLane(l, i)
  BY <1>1, <1>2
<1>4. Lane(q) = l /\ j = i
  BY <1>1, <1>2, <1>3, SameItemLane
<1>5. p = q
  <2>1. Noded(p) /\ Lane(p) = Lane(q)
    BY <1>2, <1>4 DEF At, Noded
  <2> QED
    BY <1>1, <2>1, OneNode
<1> QED
  BY <1>1, <1>4, <1>5

LEMMA ItemsToldKept ==
  ASSUME IInv, Tree, Clock, Lanes(fr), Kin, Longer, ItemsTold,
         IInv', Lanewise', ClosingsStarted',
         NEW p \in DOMAIN fr, FrameStep(p) \/ HostStep(p)
  PROVE  ItemsTold'
<1> SUFFICES ASSUME NEW q \in DOMAIN fr', fr'[q].kind = "item"
             PROVE  IF fr'[q].st = "done" THEN Announced(Lane(q), fr[q].ret.ok)'
                                          ELSE Ends(Lane(q))' = {}
  BY DEF ItemsTold
<1>1. PICK l : l = Lane(q)'
  OBVIOUS
<1>2. PICK o : o = fr'[q].ret.ok
  OBVIOUS
<1>3. SUFFICES IF fr'[q].st = "done" THEN Announced(l, o)' ELSE Ends(l)' = {}
  BY <1>1, <1>2 DEF Announced, Ends
<1>4. /\ SameNode(fr[p], fr'[p])
      /\ \A r \in DOMAIN fr' : r \in DOMAIN fr /\ r # p => fr'[r] = fr[r]
  BY StepFrames
<1>5. CASE q \notin DOMAIN fr
  <2>1. fr'[q].st = "new"
    BY <1>5, KidKinds
  <2>2. \A e \in events' : e.kind \in Closings => e.lane # l
    BY <1>1, <2>1, FreshLane
  <2>3. Ends(l)' = {}
    BY <2>2 DEF Ends, Closings
  <2> QED
    BY <2>1, <2>3
<1>6. CASE q \in DOMAIN fr /\ q # p
  <2>1. fr'[q] = fr[q] /\ l = Lane(q)
    BY <1>1, <1>4, <1>6 DEF Lane
  <2>2. ItemEnd(p) => l # Lane(p)
    <3>1. ItemEnd(p) => fr[p].kind = "item"
      BY DEF ItemEnd, At
    <3> QED
      BY <1>6, <2>1, <3>1, OneItemFrame
  <2>3. Ends(l)' = Ends(l) /\ (Announced(l, o) => Announced(l, o)')
    BY <2>2, EndsKept
  <2>4. IF fr[q].st = "done" THEN Announced(l, o) ELSE Ends(l) = {}
    BY <1>2, <1>6, <2>1 DEF ItemsTold
  <2> QED
    BY <2>1, <2>3, <2>4
<1>7. CASE q = p
  <2>1. fr[p].kind = "item" /\ l = Lane(p) /\ fr[p].st # "done"
    BY <1>1, <1>4, <1>7, StepOutcome DEF SameNode, Lane, Outcome
  <2>2. Ends(l) = {}
    BY <2>1 DEF ItemsTold
  <2>3. ItemStart(p) \/ ItemEnd(p)
    BY <2>1, FutureSteps, FutureStates
  <2>4. CASE ItemStart(p)
    <3>1. fr'[p].st # "done" /\ ~ItemEnd(p)
      BY <2>4, FutureStates
    <3>2. Ends(l)' = Ends(l)
      BY <3>1, EndsKept
    <3> QED
      BY <1>7, <2>2, <3>1, <3>2
  <2>5. CASE ItemEnd(p)
    <3>1. fr'[p].st = "done" /\ o = fr[Body(p)].ret.ok
      BY <1>2, <1>7, <2>5, ItemEndTells
    <3>2. Announced(l, o)'
      BY <2>1, <2>2, <2>5, <3>1, ItemAnnounces
    <3> QED
      BY <1>7, <3>1, <3>2
  <2> QED
    BY <2>3, <2>4, <2>5
<1> QED
  BY <1>5, <1>6, <1>7

LEMMA MapEndDone ==
  ASSUME IInv, Tree, NEW p \in DOMAIN fr, MapEnd(p)
  PROVE  fr'[p].st = "done" /\ At(p, "map", "fan") /\ Noded(p)
<1>1. PICK r : fr' = Done(fr, p, r)
  BY DEF MapEnd, Complete
<1>2. fr'[p].st = "done"
  BY <1>1, DoneFrame
<1> QED
  BY <1>2 DEF MapEnd, At, Noded

\* A map joins the results of its items, in their order, to those it has.
LEMMA CollectsKids ==
  ASSUME IInv, Tree, Kin, NEW p \in DOMAIN fr, Collect(p), NEW i \in 1 .. Len(fr'[p].res)
  PROVE  \/ i \in 1 .. Len(fr[p].res) /\ fr'[p].res[i] = fr[p].res[i]
         \/ /\ i \in Nat /\ Kid(p, i) \in DOMAIN fr
            /\ fr[Kid(p, i)].kind = "item" /\ fr[Kid(p, i)].st = "done"
            /\ Lane(Kid(p, i)) = ItemLane(Lane(p), i)
            /\ fr'[p].res[i] = fr[Kid(p, i)].ret
<1> DEFINE n == Len(fr[p].res)
           m == fr[p].k - n
           kids == {Kid(p, n + j) : j \in 1 .. m}
           T == [j \in 1 .. m |-> fr[Kid(p, n + j)].ret]
<1>1. /\ At(p, "map", "fan") /\ m > 0 /\ Joined(kids)
      /\ fr' = [Without(fr, kids) EXCEPT ![p].res = @ \o T]
  BY DEF Collect
<1>2. /\ n \in Nat /\ fr[p].k \in Nat /\ m \in Nat /\ DOMAIN fr[p] = FrameFields /\ Position(p)
      /\ IsSeq(fr[p].res)
  <2>1. Shaped(fr[p]) /\ DOMAIN fr[p] = FrameFields /\ Position(p)
    BY LiveFrame
  <2>2. n \in Nat /\ fr[p].k \in Nat /\ IsSeq(fr[p].res)
    BY <2>1 DEF Shaped, IsSeq
  <2> QED
    BY <1>1, <2>1, <2>2
<1>3. \A j \in 1 .. m :
        /\ Kid(p, n + j) \in DOMAIN fr /\ fr[Kid(p, n + j)].st = "done"
        /\ Lane(Kid(p, n + j)) = ItemLane(Lane(p), n + j)
        /\ fr[Kid(p, n + j)].kind = "item"
  <2> TAKE j \in 1 .. m
  <2>1. Kid(p, n + j) \in DOMAIN fr /\ fr[Kid(p, n + j)].st = "done"
    BY <1>1 DEF Joined, IsDone
  <2>2. n + j \in Nat
    BY <1>2
  <2>3. fr[p].kind = "map"
    BY <1>1 DEF At
  <2> QED
    BY <2>1, <2>2, <2>3 DEF Kin
<1>4. fr'[p].res = fr[p].res \o T
  <2>1. p \notin kids
    <3>1. \A j \in 1 .. m : n + j \in Nat
      BY <1>2
    <3>2. \A j \in 1 .. m : Kid(p, n + j) # p
      BY <1>2, <3>1, KidPosition
    <3> QED
      BY <3>2
  <2>2. p \in DOMAIN Without(fr, kids) /\ Without(fr, kids)[p] = fr[p]
    BY <2>1 DEF Without
  <2> HIDE DEF T, kids
  <2> QED
    BY <1>1, <1>2, <2>2 DEF FrameFields
<1>5. /\ Len(fr'[p].res) = n + m
      /\ \A j \in 1 .. n : fr'[p].res[j] = fr[p].res[j]
      /\ \A j \in 1 .. m : fr'[p].res[n + j] = T[j]
  <2> DEFINE S == {fr[p].res[j] : j \in 1 .. n} \cup {T[j] : j \in 1 .. m}
  <2>1. fr[p].res \in Seq(S) /\ T \in Seq(S) /\ Len(T) = m
    <3> DEFINE R == {fr[p].res[j] : j \in 1 .. n}
    <3>1. fr[p].res \in Seq(R) /\ R \subseteq S
      BY <1>2 DEF IsSeq
    <3>2. T \in [1 .. m -> S]
      OBVIOUS
    <3> HIDE DEF R, S, T, m
    <3>3. T \in Seq(S) /\ Len(T) = m
      BY <1>2, <3>2
    <3>4. fr[p].res \in Seq(S)
      BY <3>1
    <3> QED
      BY <3>3, <3>4
  <2> HIDE DEF T, S, m
  <2>2. /\ Len(fr[p].res \o T) = n + m
        /\ \A j \in 1 .. Len(fr[p].res) : (fr[p].res \o T)[j] = fr[p].res[j]
        /\ \A j \in 1 .. Len(T) : (fr[p].res \o T)[n + j] = T[j]
    <3>1. fr[p].res \o T \in Seq(S) /\ Len(fr[p].res \o T) = n + m
      BY <2>1, ConcatProperties
    <3>2. \A j \in 1 .. n + m :
            (fr[p].res \o T)[j] = IF j <= n THEN fr[p].res[j] ELSE T[j - n]
      BY <2>1, ConcatProperties
    <3>3. \A j \in 1 .. n : (fr[p].res \o T)[j] = fr[p].res[j]
      BY <1>2, <3>2
    <3>4. \A j \in 1 .. m : (fr[p].res \o T)[n + j] = T[j]
      <4> TAKE j \in 1 .. m
      <4>1. n + j \in 1 .. n + m /\ ~(n + j <= n) /\ (n + j) - n = j
        BY <1>2
      <4> QED
        BY <3>2, <4>1
    <3> QED
      BY <2>1, <3>1, <3>3, <3>4
  <2> QED
    BY <1>4, <2>1, <2>2
<1>6. CASE i \in 1 .. n
  BY <1>5, <1>6
<1>7. CASE i \notin 1 .. n
  <2>1. PICK j \in 1 .. m : i = n + j
    <3>1. /\ i \in 1 .. n + m /\ i \notin 1 .. n
          /\ n \in Nat /\ m \in Nat
      BY <1>2, <1>5, <1>7
    <3> HIDE DEF n, m
    <3>2. i - n \in 1 .. m /\ i = n + (i - n)
      BY <3>1
    <3> QED
      BY <3>2
  <2>2. i \in Nat
    BY <1>2, <2>1
  <2>3. fr'[p].res[i] = fr[Kid(p, i)].ret
    BY <1>5, <2>1
  <2> QED
    BY <1>3, <2>1, <2>2, <2>3
<1> QED
  BY <1>6, <1>7

LEMMA ResultsGrow ==
  ASSUME IInv, Tree, Kin, NEW p \in DOMAIN fr, FrameStep(p) \/ HostStep(p),
         NEW q \in DOMAIN fr', fr'[q].kind = "map", fr'[q].st = "fan",
         NEW i \in 1 .. Len(fr'[q].res)
  PROVE  /\ q \in DOMAIN fr /\ At(q, "map", "fan")
         /\ fr'[q].node = fr[q].node /\ Lane(q)' = Lane(q)
         /\ \/ i \in 1 .. Len(fr[q].res) /\ fr'[q].res[i] = fr[q].res[i]
            \/ /\ ~ItemEnd(p) /\ i \in Nat /\ Kid(q, i) \in DOMAIN fr
               /\ fr[Kid(q, i)].kind = "item" /\ fr[Kid(q, i)].st = "done"
               /\ Lane(Kid(q, i)) = ItemLane(Lane(q), i)
               /\ fr'[q].res[i] = fr[Kid(q, i)].ret
<1>1. /\ SameNode(fr[p], fr'[p])
      /\ \A r \in DOMAIN fr' : r \in DOMAIN fr /\ r # p => fr'[r] = fr[r]
  BY StepFrames
<1>2. q \in DOMAIN fr
  BY KidKinds
<1>3. fr[q].kind = "map" /\ fr'[q].node = fr[q].node /\ Lane(q)' = Lane(q)
  BY <1>1, <1>2 DEF SameNode, Lane
<1>4. CASE q # p
  <2>1. fr'[q] = fr[q] /\ At(q, "map", "fan") /\ i \in 1 .. Len(fr[q].res)
    BY <1>1, <1>2, <1>3, <1>4 DEF At
  <2> QED
    BY <1>2, <1>3, <2>1
<1>5. CASE q = p
  <2>1. MapStart(p) \/ Dispatch(p) \/ Collect(p) \/ MapEnd(p)
    BY <1>3, <1>5, MapSteps
  <2>2. ~MapStart(p)
    <3> SUFFICES ASSUME MapStart(p) PROVE FALSE
      OBVIOUS
    <3>1. fr[p].st = "new" /\ fr'[p].res = fr[p].res /\ Shaped(fr[p])
      BY LiveFrame DEF MapStart, At, StartFails, Done, FrameFields
    <3>2. Len(fr[p].res) \in Nat /\ Len(fr[p].res) <= 0
      BY <1>3, <1>5, <3>1 DEF Shaped, IsSeq
    <3>3. i \in 1 .. Len(fr[p].res)
      BY <1>5, <3>1
    <3> QED
      BY <3>2, <3>3
  <2>3. ~MapEnd(p)
    BY <1>5, MapEndDone
  <2>4. At(p, "map", "fan") /\ ~ItemEnd(p)
    BY <2>1, <2>2, <2>3 DEF Dispatch, Collect, ItemEnd, At
  <2>5. CASE Dispatch(p)
    <3> DEFINE hi == Smaller(fr[p].k + Width(Def(p)), Len(fr[p].items))
               A == [fr EXCEPT ![p].k = hi]
               K == {Kid(p, j) : j \in fr[p].k + 1 .. hi}
               H == [x \in K |-> Frame("item", fr[p].node,
                                       Index(fr[p].path, x[Len(x)] - 1), fr[p].iter, x)]
    <3>1. fr' = Plus(A, H)
      BY <2>5 DEF Dispatch
    <3>2. p \in DOMAIN A /\ A[p].res = fr[p].res
      BY LiveFrame DEF FrameFields
    <3> HIDE DEF A, H
    <3>3. fr'[p].res = fr[p].res
      BY <3>1, <3>2 DEF Plus
    <3> QED
      BY <1>2, <1>3, <1>5, <2>4, <3>3
  <2>6. CASE Collect(p)
    BY <1>2, <1>3, <1>5, <2>4, <2>6, CollectsKids
  <2> QED
    BY <2>1, <2>2, <2>3, <2>5, <2>6
<1> QED
  BY <1>4, <1>5

\* A map joins what its items have announced.
LEMMA ResultsToldKept ==
  ASSUME IInv, Tree, Clock, Lanes(fr), Kin, Longer, ItemsTold, ResultsTold,
         NEW p \in DOMAIN fr, FrameStep(p) \/ HostStep(p)
  PROVE  ResultsTold'
<1> SUFFICES ASSUME NEW q \in DOMAIN fr', fr'[q].kind = "map", fr'[q].st = "fan",
                    NEW i \in 1 .. Len(fr'[q].res)
             PROVE  Announced(ItemLane(Lane(q), i), fr[q].res[i].ok)'
  BY DEF ResultsTold, At
<1>1. PICK l : l = ItemLane(Lane(q), i)'
  OBVIOUS
<1>2. PICK o : o = fr'[q].res[i].ok
  OBVIOUS
<1>3. SUFFICES Announced(l, o)'
  BY <1>1, <1>2 DEF Announced, Ends
<1>4. q \in DOMAIN fr /\ At(q, "map", "fan") /\ l = ItemLane(Lane(q), i)
  BY <1>1, ResultsGrow DEF ItemLane
<1>5. CASE i \in 1 .. Len(fr[q].res) /\ fr'[q].res[i] = fr[q].res[i]
  <2>1. Announced(l, o)
    BY <1>2, <1>4, <1>5 DEF ResultsTold
  <2>2. ItemEnd(p) => l # Lane(p)
    <3> SUFFICES ASSUME ItemEnd(p), Lane(p) = ItemLane(Lane(q), i) PROVE FALSE
      BY <1>4
    <3>1. fr[p].kind = "item" /\ Len(fr[q].res) \in Nat /\ i \in Nat
      BY <1>4, <1>5, LiveFrame DEF ItemEnd, At, Shaped, IsSeq
    <3>2. i \in Len(fr[q].res) + 1 .. fr[q].k
      BY <1>4, <3>1, ItemEndsInTime
    <3> QED
      BY <1>5, <3>1, <3>2
  <2> QED
    BY <2>1, <2>2, EndsKept
<1>6. CASE /\ ~ItemEnd(p) /\ i \in Nat /\ Kid(q, i) \in DOMAIN fr
           /\ fr[Kid(q, i)].kind = "item" /\ fr[Kid(q, i)].st = "done"
           /\ Lane(Kid(q, i)) = ItemLane(Lane(q), i)
           /\ fr'[q].res[i] = fr[Kid(q, i)].ret
  <2>1. Announced(Lane(Kid(q, i)), fr[Kid(q, i)].ret.ok)
    BY <1>6 DEF ItemsTold
  <2>2. Announced(l, o)
    BY <1>2, <1>4, <1>6, <2>1
  <2> QED
    BY <1>6, <2>2, EndsKept
<1> QED
  BY <1>5, <1>6, ResultsGrow

LEMMA NotOverKept ==
  ASSUME IInv, Tree, Clock, Lanes(fr), Longer, NotOver, IInv', Lanewise', ClosingsStarted',
         NEW p \in DOMAIN fr, FrameStep(p) \/ HostStep(p)
  PROVE  NotOver'
<1> SUFFICES ASSUME NEW q \in DOMAIN fr', fr'[q].kind \notin {"item", "session"},
                    fr'[q].st # "done", NEW e \in events', e.kind = "MapCompleted",
                    e.lane = Lane(q)'
             PROVE  FALSE
  BY DEF NotOver, Noded, Of
<1>1. /\ SameNode(fr[p], fr'[p])
      /\ \A r \in DOMAIN fr' : r \in DOMAIN fr /\ r # p => fr'[r] = fr[r]
  BY StepFrames
<1>2. q \in DOMAIN fr
  <2>1. fr'[q].st # "new"
    <3>1. PICK l : l = Lane(q)'
      OBVIOUS
    <3>2. e.kind \in Closings /\ e.lane = l
      BY <3>1 DEF Closings
    <3> QED
      BY <3>1, <3>2, FreshLane
  <2> QED
    BY <2>1, KidKinds
<1>3. Lane(q)' = Lane(q) /\ Noded(q) /\ fr[q].st # "done"
  <2>1. Lane(q)' = Lane(q) /\ Noded(q)
    BY <1>1, <1>2 DEF SameNode, Lane, Noded
  <2>2. fr[p].st # "done"
    BY StepOutcome DEF Outcome
  <2> QED
    BY <1>1, <1>2, <2>1, <2>2
<1>4. CASE e \in events
  BY <1>2, <1>3, <1>4 DEF NotOver, Of
<1>5. CASE e \notin events
  <2>1. MapEnd(p) /\ e.lane = Lane(p)
    BY <1>5, ClosingSteps, StepNews
  <2>2. fr'[p].st = "done" /\ Noded(p)
    BY <2>1, MapEndDone
  <2>3. p = q
    BY <1>2, <1>3, <2>1, <2>2, OneNode
  <2> QED
    BY <2>2, <2>3
<1> QED
  BY <1>4, <1>5

LEMMA SignalledKept ==
  ASSUME IInv, Tree, Clock, Signalled, NEW p \in DOMAIN fr, FrameStep(p) \/ HostStep(p)
  PROVE  Signalled'
<1> SUFFICES ASSUME NEW e \in events', e.kind = "MapCompleted"
             PROVE  /\ e.lane \in DOMAIN nodeIo'
                    /\ IsPath(e.lane[1]) /\ e.lane = <<e.lane[1], e.lane[2]>>
  BY DEF Signalled, Of
<1>1. CASE e \in events
  <2>1. DOMAIN nodeIo \subseteq DOMAIN nodeIo'
    BY SignalSteps DEF Put
  <2> QED
    BY <1>1, <2>1 DEF Signalled, Of
<1>2. CASE e \notin events
  <2>1. MapEnd(p) /\ GatePassed(p) /\ e.lane = Lane(p)
    BY <1>2, ClosingSteps, StepNews
  <2>2. Lane(p) \in DOMAIN nodeIo'
    BY <2>1 DEF MapEnd, Put
  <2> QED
    BY <2>1, <2>2, LanePair
<1> QED
  BY <1>1, <1>2

-----------------------------------------------------------------------------
(* Counting                                                                *)

\* The results of one kind that the first n items on a lane have announced.
Results(kind, l, n) == {x \in Of(kind) : \E i \in 1 .. n : x.lane = ItemLane(l, i)}

\* If an item announces that kind when its index is in S, and nothing of it
\* otherwise, these results are as many as S has elements.
LEMMA OneResultEach ==
  ASSUME NEW l, IsPath(l[1]), NEW kind \in ItemEnds, NEW n \in Nat, NEW S \in SUBSET (1 .. n),
         \A i \in S : \E e \in events : e.kind = kind /\ Ends(ItemLane(l, i)) = {e},
         \A i \in (1 .. n) \ S : \A e \in Ends(ItemLane(l, i)) : e.kind # kind
  PROVE  Cardinality(Results(kind, l, n)) = Cardinality(S)
<1> DEFINE R == Results(kind, l, n)
           f == [i \in S |-> CHOOSE x \in R : x.lane = ItemLane(l, i)]
<1>1. IsFiniteSet(S)
  <2>1. IsFiniteSet(1 .. n)
    BY FS_Interval
  <2> QED
    BY <2>1, FS_Subset
<1>2. \A x \in R : x \in events /\ x.kind = kind /\ \E i \in 1 .. n : x.lane = ItemLane(l, i)
  BY DEF Results, Of
<1>3. \A x \in events : x.kind = kind =>
         \A i \in 1 .. n : x.lane = ItemLane(l, i) => x \in R /\ x \in Ends(ItemLane(l, i))
  BY DEF Results, Of, Ends
<1> HIDE DEF R
<1>4. \A i \in S : \E x \in R : x.lane = ItemLane(l, i)
  <2> TAKE i \in S
  <2>1. PICK e \in events : e.kind = kind /\ Ends(ItemLane(l, i)) = {e}
    OBVIOUS
  <2>2. e.lane = ItemLane(l, i)
    BY <2>1 DEF Ends
  <2> QED
    BY <1>3, <2>1, <2>2
<1>5. f \in [S -> R] /\ \A i \in S : f[i].lane = ItemLane(l, i)
  BY <1>4
<1> HIDE DEF f
<1>6. \A i, j \in S : f[i] = f[j] => i = j
  <2> TAKE i, j \in S
  <2>1. i \in Nat /\ j \in Nat
    OBVIOUS
  <2>2. f[i] = f[j] => ItemLane(l, i) = ItemLane(l, j)
    BY <1>5
  <2> QED
    BY <2>1, <2>2, OneItemLane
<1>7. \A x \in R : \E i \in S : f[i] = x
  <2> TAKE x \in R
  <2>1. PICK i \in 1 .. n : x.lane = ItemLane(l, i)
    BY <1>2
  <2>2. x \in Ends(ItemLane(l, i)) /\ x.kind = kind
    BY <1>2, <1>3, <2>1
  <2>3. i \in S
    BY <2>2
  <2>4. PICK e : Ends(ItemLane(l, i)) = {e}
    BY <2>3
  <2>5. f[i] \in Ends(ItemLane(l, i))
    BY <1>2, <1>3, <1>5, <2>3
  <2> QED
    BY <2>2, <2>3, <2>4, <2>5
<1>8. f \in Bijection(S, R)
  BY <1>5, <1>6, <1>7 DEF Bijection, Injection, Surjection, IsInjective
<1>9. ExistsBijection(S, R)
  BY <1>8 DEF ExistsBijection
<1>10. Cardinality(R) = Cardinality(S)
  BY <1>1, <1>9, FS_Bijection
<1> QED
  BY <1>10 DEF R

LEMMA TheOthers ==
  ASSUME NEW n \in Nat, NEW P, P \subseteq 1 .. n
  PROVE  Cardinality((1 .. n) \ P) = n - Cardinality(P)
<1> DEFINE S == 1 .. n
<1>1. IsFiniteSet(S) /\ Cardinality(S) = n
  BY FS_Interval
<1>2. S \cap P = P
  OBVIOUS
<1> HIDE DEF S
<1>3. Cardinality(S \ P) = Cardinality(S) - Cardinality(S \cap P)
  BY <1>1, FS_Difference
<1> QED
  BY <1>1, <1>2, <1>3 DEF S

-----------------------------------------------------------------------------
(* What a map has joined is what was announced                             *)

\* The items that a map has not dispatched have announced nothing.
LEMMA UndispatchedSilent ==
  ASSUME IInv, Tree, Lanewise, ClosingsStarted, NEW p \in DOMAIN fr, At(p, "map", "fan"),
         NEW l, l = Lane(p), NEW i \in Nat, i > fr[p].k
  PROVE  Ends(ItemLane(l, i)) = {}
<1>1. IsPath(fr[p].path) /\ fr[p].k \in Nat /\ l[1] = fr[p].path /\ l[2] = fr[p].iter
  BY LiveFrame DEF Sound, Shaped, Lane
<1> DEFINE x == Index(fr[p].path, i - 1)
           m == ItemLane(l, i)
<1>2. m[1] = x /\ m[2] = fr[p].iter
  BY <1>1 DEF ItemLane
<1>3. Prefix(fr[p].path, x) /\ Prefix(x, x)
  <2>1. Prefix(fr[p].path, x) /\ Len(x) \in Nat
    BY <1>1, ElementPath DEF Index
  <2> HIDE DEF x
  <2> QED
    BY <2>1 DEF Prefix
<1>4. i - 1 \in Nat /\ i - 1 >= fr[p].k
  BY <1>1
<1>5. ToCome(fr[p], m)
  <2>1. fr[p].kind \in {"map", "for_each"} /\ fr[p].st \in {"fan", "loop", "body"}
    BY DEF At
  <2>2. \E j \in Nat : j >= fr[p].k /\ Prefix(Index(fr[p].path, j), m[1])
    BY <1>2, <1>3, <1>4
  <2> HIDE DEF m, x
  <2> QED
    BY <2>1, <2>2 DEF ToCome
<1>6. Ahead(p, m)
  BY <1>2, <1>3, <1>5 DEF Ahead, Reaches
<1> HIDE DEF m, x
<1>7. \A e \in events : e.kind \in Closings => e.lane # m
  BY <1>6, NothingClosedAhead
<1>8. Ends(m) = {}
  BY <1>7 DEF Ends, Closings
<1> QED
  BY <1>8 DEF m

\* When a map has joined all that it dispatched, its items have announced as many
\* successes as it counts, and as many failures as the rest of what it attempted.
LEMMA MapCounts ==
  ASSUME IInv, Tree, Lanewise, ClosingsStarted, ResultsTold, NEW p \in DOMAIN fr,
         At(p, "map", "fan"), Len(fr[p].res) = fr[p].k,
         NEW l, l = Lane(p), NEW n, n = Len(fr[p].items)
  PROVE  /\ Cardinality(Results("MapItemCompleted", l, n)) = Successes(p)
         /\ Cardinality(Results("MapItemFailed", l, n)) = Len(fr[p].res) - Successes(p)
<1>1. PICK k : k = fr[p].k
  OBVIOUS
<1>2. PICK res : res = fr[p].res
  OBVIOUS
<1>3. /\ IsPath(l[1]) /\ k \in Nat /\ n \in Nat /\ k <= n
      /\ Len(res) = k /\ DOMAIN res = 1 .. k
  <2>1. /\ k \in Nat /\ n \in Nat /\ k <= n /\ IsSeq(res)
    BY <1>1, <1>2, LiveFrame DEF Shaped, At
  <2>2. Len(res) = k /\ DOMAIN res = 1 .. k
    BY <1>1, <1>2, <2>1 DEF IsSeq
  <2> QED
    BY <2>1, <2>2, LanePair
<1> DEFINE S == {i \in 1 .. k : res[i].ok}
           F == (1 .. k) \ S
<1>4. \A i \in 1 .. k : Announced(ItemLane(l, i), res[i].ok)
  BY <1>1, <1>2, <1>3 DEF ResultsTold
<1>5. \A i \in (1 .. n) \ (1 .. k) : Ends(ItemLane(l, i)) = {}
  <2> TAKE i \in (1 .. n) \ (1 .. k)
  <2>1. i \in Nat /\ i > fr[p].k
    BY <1>1, <1>3
  <2> QED
    BY <2>1, UndispatchedSilent
<1>6. S \in SUBSET (1 .. n) /\ F \in SUBSET (1 .. n) /\ S \subseteq 1 .. k
  <2>1. 1 .. k \subseteq 1 .. n
    BY <1>3
  <2> QED
    BY <2>1
<1>7. /\ \A i \in S : \E e \in events : e.kind = "MapItemCompleted" /\ Ends(ItemLane(l, i)) = {e}
      /\ \A i \in F : \E e \in events : e.kind = "MapItemFailed" /\ Ends(ItemLane(l, i)) = {e}
  BY <1>4 DEF Announced
<1>8. \A i \in 1 .. n : i \notin S /\ i \notin F => Ends(ItemLane(l, i)) = {}
  BY <1>5
<1>9. Cardinality(S) = Successes(p)
  BY <1>2, <1>3 DEF Successes
<1>10. Cardinality(F) = k - Cardinality(S)
  BY <1>3, TheOthers
<1>11. S \cap F = {}
  OBVIOUS
<1> HIDE DEF S, F
<1>12. /\ \A i \in (1 .. n) \ S : \A e \in Ends(ItemLane(l, i)) : e.kind # "MapItemCompleted"
       /\ \A i \in (1 .. n) \ F : \A e \in Ends(ItemLane(l, i)) : e.kind # "MapItemFailed"
  BY <1>7, <1>8, <1>11
<1>13. Cardinality(Results("MapItemCompleted", l, n)) = Cardinality(S)
  <2>1. "MapItemCompleted" \in ItemEnds
    BY DEF ItemEnds
  <2>2. \A i \in S : \E e \in events : e.kind = "MapItemCompleted" /\ Ends(ItemLane(l, i)) = {e}
    BY <1>7
  <2>3. \A i \in (1 .. n) \ S : \A e \in Ends(ItemLane(l, i)) : e.kind # "MapItemCompleted"
    BY <1>12
  <2>4. S \in SUBSET (1 .. n) /\ IsPath(l[1]) /\ n \in Nat
    BY <1>3, <1>6
  <2> QED
    BY <2>1, <2>2, <2>3, <2>4, OneResultEach
<1>14. Cardinality(Results("MapItemFailed", l, n)) = Cardinality(F)
  <2>1. "MapItemFailed" \in ItemEnds
    BY DEF ItemEnds
  <2>2. \A i \in F : \E e \in events : e.kind = "MapItemFailed" /\ Ends(ItemLane(l, i)) = {e}
    BY <1>7
  <2>3. \A i \in (1 .. n) \ F : \A e \in Ends(ItemLane(l, i)) : e.kind # "MapItemFailed"
    BY <1>12
  <2>4. F \in SUBSET (1 .. n) /\ IsPath(l[1]) /\ n \in Nat
    BY <1>3, <1>6
  <2> QED
    BY <2>1, <2>2, <2>3, <2>4, OneResultEach
<1> QED
  BY <1>2, <1>3, <1>9, <1>10, <1>13, <1>14

\* What MapAccounts says of a map that completed with the event e and signalled sig.
Accounts(e, sig) ==
  /\ e.pay.successes = sig.successes
  /\ Cardinality(Results("MapItemCompleted", e.lane, sig.total)) = sig.successes
  /\ Cardinality(Results("MapItemFailed", e.lane, sig.total)) = sig.attempted - sig.successes
  /\ sig.cancelled \/ /\ sig.attempted = sig.total
                      /\ sig.successes * 100 >= sig.min * sig.total

LEMMA EachAccounts == MapAccounts <=> \A e \in Of("MapCompleted") : Accounts(e, nodeIo[e.lane])
BY DEF MapAccounts, Accounts, Results, ItemLane

\* Unless an item of the lane ends, what its items have announced stays as it is.
LEMMA ResultsKept ==
  ASSUME IInv, Tree, Clock, NEW p \in DOMAIN fr, FrameStep(p) \/ HostStep(p), NEW l, NEW n,
         ItemEnd(p) => \A i \in 1 .. n : ItemLane(l, i) # Lane(p)
  PROVE  \A kind \in ItemEnds : Results(kind, l, n)' = Results(kind, l, n)
<1>1. events \subseteq events' /\ \A e \in events' \ events : e.lane = Lane(p)
  BY StepNews
<1>2. \A e \in events' \ events : e.kind \in ItemEnds => \A i \in 1 .. n : e.lane # ItemLane(l, i)
  BY <1>1, ClosingSteps
<1> TAKE kind \in ItemEnds
<1>3. Results(kind, l, n)' = {x \in events' : /\ x.kind = kind
                                             /\ \E i \in 1 .. n : x.lane = ItemLane(l, i)}
  BY DEF Results, Of, ItemLane
<1>4. Results(kind, l, n) = {x \in events : /\ x.kind = kind
                                            /\ \E i \in 1 .. n : x.lane = ItemLane(l, i)}
  BY DEF Results, Of
<1> QED
  BY <1>1, <1>2, <1>3, <1>4

LEMMA MapEndAccounts ==
  ASSUME IInv, Tree, Clock, Lanewise, ClosingsStarted, ResultsTold, NEW p \in DOMAIN fr,
         FrameStep(p) \/ HostStep(p), MapEnd(p), GatePassed(p),
         NEW e \in events' \ events, e.kind = "MapCompleted",
         NEW sig, sig = nodeIo'[e.lane]
  PROVE  Accounts(e, sig)'
<1>1. PICK l : l = Lane(p)
  OBVIOUS
<1>2. PICK n, k, c, min : /\ n = Len(fr[p].items) /\ k = Len(fr[p].res)
                          /\ c = Successes(p) /\ min = Def(p).min
  OBVIOUS
<1>3. /\ At(p, "map", "fan") /\ k = fr[p].k /\ (k = n \/ cancel)
      /\ cancel \/ c * 100 >= min * n
      /\ nodeIo' = Put(nodeIo, l, [min |-> min, total |-> n, attempted |-> k, successes |-> c,
                                   cancelled |-> cancel])
      /\ Complete(p, <<EvPay("MapCompleted", [successes |-> c])>>, MapValue(p))
  BY <1>1, <1>2 DEF MapEnd, GatePassed
<1>4. /\ Cardinality(Results("MapItemCompleted", l, n)) = c
      /\ Cardinality(Results("MapItemFailed", l, n)) = k - c
  BY <1>1, <1>2, <1>3, MapCounts
<1>5. \A kind \in ItemEnds : Results(kind, l, n)' = Results(kind, l, n)
  <2>1. ~ItemEnd(p)
    BY <1>3 DEF ItemEnd, At
  <2> QED
    BY <2>1, ResultsKept
<1>6. e.lane = l /\ e.pay = [successes |-> c]
  <2> DEFINE x == EvPay("MapCompleted", [successes |-> c])
             y == Ev("NodeCompleted")
  <2>1. x.kind = "MapCompleted" /\ x.pay = [successes |-> c] /\ y.kind = "NodeCompleted"
    BY DEF Ev, EvPay
  <2>2. Emit(l, <<x>> \o <<y>>)
    BY <1>1, <1>3 DEF Complete
  <2> HIDE DEF x, y
  <2>3. PICK a, b : events' = events \cup {Event(l, a, x), Event(l, b, y)}
    BY <2>2, EmitTwo
  <2>4. e = Event(l, a, x)
    BY <2>1, <2>3 DEF Event
  <2> QED
    BY <2>1, <2>4 DEF Event
<1>7. sig = [min |-> min, total |-> n, attempted |-> k, successes |-> c, cancelled |-> cancel]
  BY <1>3, <1>6 DEF Put
<1>8. /\ sig.min = min /\ sig.total = n /\ sig.attempted = k /\ sig.successes = c
      /\ sig.cancelled = cancel
  BY <1>7
<1>9. /\ Cardinality(Results("MapItemCompleted", l, n)') = c
      /\ Cardinality(Results("MapItemFailed", l, n)') = k - c
  BY <1>4, <1>5 DEF ItemEnds
<1> QED
  BY <1>3, <1>6, <1>8, <1>9 DEF Accounts

\* What a completed map has signalled stays, and its items are silent.
LEMMA SignalKept ==
  ASSUME Maps, NEW p \in DOMAIN fr, FrameStep(p) \/ HostStep(p),
         NEW e \in events, e.kind = "MapCompleted", NEW l, l = e.lane
  PROVE  l \in DOMAIN nodeIo /\ nodeIo'[l] = nodeIo[l]
<1>1. l \in DOMAIN nodeIo
  BY DEF Maps, Signalled, Of
<1>2. CASE nodeIo' = nodeIo
  BY <1>1, <1>2
<1>3. ASSUME NEW s, nodeIo' = Put(nodeIo, Lane(p), s), Noded(p), fr[p].st # "done"
      PROVE  nodeIo'[l] = nodeIo[l]
  <2>1. l # Lane(p)
    BY <1>3 DEF Maps, NotOver, Of
  <2> QED
    BY <1>1, <1>3, <2>1 DEF Put
<1> QED
  BY <1>1, <1>2, <1>3, SignalSteps

LEMMA ItemsSilent ==
  ASSUME IInv, Tree, Maps, NEW p \in DOMAIN fr, ItemEnd(p),
         NEW e \in events, e.kind = "MapCompleted", NEW l, l = e.lane, NEW i \in Nat
  PROVE  ItemLane(l, i) # Lane(p)
<1> SUFFICES ASSUME ItemLane(l, i) = Lane(p) PROVE FALSE
  OBVIOUS
<1>1. fr[p].kind = "item" /\ Kin /\ IsPath(l[1]) /\ l = <<l[1], l[2]>>
  BY DEF ItemEnd, At, Maps, Signalled, Of
<1>2. PICK r \in DOMAIN fr, j \in Nat :
        /\ At(r, "map", "fan") /\ Noded(r) /\ Lane(p) = ItemLane(Lane(r), j)
  BY <1>1, ItemOf
<1>3. ItemLane(Lane(r), j) = ItemLane(l, i)
  BY <1>2
<1>4. Lane(r) = l
  BY <1>1, <1>3, SameItemLane
<1> QED
  BY <1>2, <1>4 DEF Maps, NotOver, Of, At

LEMMA MapAccountsKept ==
  ASSUME IInv, Tree, Clock, Lanewise, Maps, NEW p \in DOMAIN fr, FrameStep(p) \/ HostStep(p)
  PROVE  MapAccounts'
<1> USE DEF Maps
<1> SUFFICES ASSUME NEW e \in events', e.kind = "MapCompleted"
             PROVE  Accounts(e, nodeIo[e.lane])'
  BY DEF MapAccounts, Accounts, Results, ItemLane, Of
<1>1. PICK sig : sig = nodeIo'[e.lane]
  OBVIOUS
<1>2. SUFFICES Accounts(e, sig)'
  BY <1>1 DEF Accounts
<1>3. CASE e \notin events
  <2>1. MapEnd(p) /\ GatePassed(p)
    BY <1>3, ClosingSteps
  <2> QED
    BY <1>1, <1>3, <2>1, MapEndAccounts
<1>4. CASE e \in events
  <2>1. PICK l : l = e.lane /\ l \in DOMAIN nodeIo /\ IsPath(l[1]) /\ l = <<l[1], l[2]>>
    BY <1>4 DEF Signalled, Of
  <2>2. sig = nodeIo[l]
    BY <1>1, <1>4, <2>1, SignalKept
  <2>3. Accounts(e, sig)
    BY <1>4, <2>1, <2>2, EachAccounts DEF Of
  <2>4. PICK n : n = sig.total
    OBVIOUS
  <2>5. ItemEnd(p) => \A i \in 1 .. n : ItemLane(l, i) # Lane(p)
    <3>1. \A i \in 1 .. n : i \in Nat
      OBVIOUS
    <3> QED
      BY <1>4, <2>1, <3>1, ItemsSilent
  <2>6. \A kind \in ItemEnds : Results(kind, l, n)' = Results(kind, l, n)
    BY <2>5, ResultsKept
  <2>7. /\ Results("MapItemCompleted", l, n)' = Results("MapItemCompleted", l, n)
        /\ Results("MapItemFailed", l, n)' = Results("MapItemFailed", l, n)
    BY <2>6 DEF ItemEnds
  <2> QED
    BY <2>1, <2>3, <2>4, <2>7 DEF Accounts
<1> QED
  BY <1>3, <1>4

-----------------------------------------------------------------------------
(* Every run                                                               *)

LEMMA StepMaps ==
  ASSUME IInv, Tree, Clock, Lanes(fr), Lanewise, Maps, IInv', Lanewise',
         NEW p \in DOMAIN fr, FrameStep(p) \/ HostStep(p)
  PROVE  Maps'
<1>1. /\ ClosingsStarted /\ NodesStarted /\ Kin /\ Longer /\ ItemsTold /\ ResultsTold
      /\ NotOver /\ Signalled
  BY DEF Maps
<1>2. ClosingsStarted' /\ NodesStarted'
  BY <1>1, ClosingsStartedKept, NodesStartedKept
<1>3. Kin' /\ Longer'
  BY <1>1, KinKept, LongerKept
<1>4. ItemsTold'
  BY <1>1, <1>2, ItemsToldKept
<1>5. ResultsTold'
  BY <1>1, ResultsToldKept
<1>6. NotOver'
  BY <1>1, <1>2, NotOverKept
<1>7. Signalled' /\ MapAccounts'
  BY <1>1, SignalledKept, MapAccountsKept
<1> QED
  BY <1>2, <1>3, <1>4, <1>5, <1>6, <1>7 DEF Maps

LEMMA RunStepMaps ==
  ASSUME IInv, Tree, Tree', IInv', Lanewise', Maps, RunStep PROVE Maps'
<1>1. /\ events \subseteq events'
      /\ \A e \in events' \ events : e.kind \in {"WorkflowFailed", "WorkflowCompleted"}
      /\ nodeIo' = nodeIo
  BY RunStepEmits DEF RunStep, EntryStart, EntryEnd, EntriesExhausted, FinalStart, FinalEnd, Settle,
     store
<1>2. \A kind \in Closings \cup {"NodeStarted"} : Of(kind)' = Of(kind)
  BY <1>1 DEF Closings, ItemEnds, Of
<1>3. /\ Started' = Started /\ Of("MapCompleted")' = Of("MapCompleted")
      /\ Of("MapItemCompleted")' = Of("MapItemCompleted")
      /\ Of("MapItemFailed")' = Of("MapItemFailed")
  BY <1>2 DEF Closings, ItemEnds, Started
<1>4. \A q \in DOMAIN fr' : q = Body(Root) /\ fr'[q].st = "new" /\ fr'[q].kind # "item"
  <2>1. \A q \in DOMAIN fr' : q = Body(Root) /\ fr'[q].st = "new"
    BY RunStepFrames
  <2>2. \A q \in DOMAIN fr' : fr'[q].kind \in {"item", "session"} => Len(q) > 1
    BY DEF Tree, Ledgered
  <2> QED
    BY <2>1, <2>2, RootPosition
<1>5. ClosingsStarted'
  <2>1. \A e \in events' : e.kind \in Closings => e \in events
    BY <1>1 DEF Closings, ItemEnds
  <2> QED
    BY <1>3, <2>1 DEF Maps, ClosingsStarted
<1>6. NodesStarted' /\ Longer' /\ ItemsTold'
  <2>1. NodesStarted' /\ Longer'
    BY <1>4 DEF NodesStarted, Longer
  <2>2. ItemsTold'
    BY <1>4 DEF ItemsTold
  <2> QED
    BY <2>1, <2>2
<1>7. Kin' /\ ResultsTold'
  <2>1. \A i \in Nat : Body(Root) # Kid(Body(Root), i)
    BY RootPosition, KidPosition
  <2>2. Kin'
    BY <1>4, <2>1 DEF Kin
  <2> QED
    BY <1>4, <2>2 DEF ResultsTold, At
<1>8. NotOver'
  <2> SUFFICES ASSUME NEW q \in DOMAIN fr', NEW e \in events', e.kind = "MapCompleted",
                      e.lane = Lane(q)'
               PROVE  FALSE
    BY DEF NotOver, Of
  <2>1. PICK l : l = Lane(q)'
    OBVIOUS
  <2>2. e.kind \in Closings /\ e.lane = l /\ fr'[q].st = "new"
    BY <1>4, <2>1 DEF Closings
  <2> QED
    BY <1>5, <2>1, <2>2, FreshLane
<1>9. Signalled'
  BY <1>1, <1>3 DEF Maps, Signalled
<1>10. MapAccounts'
  BY <1>1, <1>3 DEF Maps, MapAccounts
<1> QED
  BY <1>5, <1>6, <1>7, <1>8, <1>9, <1>10 DEF Maps

LEMMA MapsInit == Init => Maps
<1> SUFFICES ASSUME Init PROVE Maps
  OBVIOUS
<1>1. DOMAIN fr = {} /\ \A e \in events : e.kind = "WorkflowStarted"
  BY DEF Init, StartEvents
<1>2. NodesStarted /\ Kin /\ Longer /\ ItemsTold /\ ResultsTold /\ NotOver
  BY <1>1 DEF NodesStarted, Kin, Longer, ItemsTold, ResultsTold, NotOver
<1>3. ClosingsStarted /\ Signalled /\ MapAccounts
  BY <1>1 DEF ClosingsStarted, Closings, ItemEnds, Signalled, MapAccounts, Of
<1> QED
  BY <1>2, <1>3 DEF Maps

LEMMA MapsStutter == ASSUME Maps, UNCHANGED vars PROVE Maps'
<1>1. UNCHANGED <<events, fr, nodeIo>>
  BY DEF vars
<1>2. ClosingsStarted' /\ NodesStarted' /\ Kin' /\ Longer'
  BY <1>1 DEF Maps, ClosingsStarted, Started, Of, NodesStarted, Kin, Longer, Noded, Lane, ItemLane
<1>3. ItemsTold' /\ ResultsTold'
  <2>1. \A l : Ends(l)' = Ends(l)
    BY <1>1 DEF Ends
  <2>2. \A l, o : Announced(l, o)' <=> Announced(l, o)
    BY <1>1, <2>1 DEF Announced
  <2> HIDE DEF Announced, Ends
  <2>3. ItemsTold'
    <3>1. \A q \in DOMAIN fr : Lane(q)' = Lane(q) /\ fr'[q] = fr[q]
      BY <1>1 DEF Lane
    <3> SUFFICES ASSUME NEW q \in DOMAIN fr, fr[q].kind = "item"
                 PROVE  IF fr[q].st = "done" THEN Announced(Lane(q), fr[q].ret.ok)'
                                             ELSE Ends(Lane(q))' = {}
      BY <1>1 DEF ItemsTold
    <3>2. PICK l, o : l = Lane(q) /\ o = fr[q].ret.ok
      OBVIOUS
    <3>3. IF fr[q].st = "done" THEN Announced(l, o) ELSE Ends(l) = {}
      BY <3>2 DEF Maps, ItemsTold
    <3>4. IF fr[q].st = "done" THEN Announced(l, o)' ELSE Ends(l)' = {}
      BY <2>1, <2>2, <3>3
    <3> QED
      BY <1>1, <3>1, <3>2, <3>4 DEF Announced, Ends
  <2>4. ResultsTold'
    <3> SUFFICES ASSUME NEW p \in DOMAIN fr, At(p, "map", "fan"), NEW i \in 1 .. Len(fr[p].res)
                 PROVE  Announced(ItemLane(Lane(p), i), fr[p].res[i].ok)'
      BY <1>1 DEF ResultsTold, At
    <3>1. PICK l, o : l = ItemLane(Lane(p), i) /\ o = fr[p].res[i].ok
      OBVIOUS
    <3>2. Announced(l, o)'
      BY <2>2, <3>1 DEF Maps, ResultsTold
    <3>3. l = ItemLane(Lane(p), i)' /\ o = fr'[p].res[i].ok
      BY <1>1, <3>1 DEF ItemLane, Lane
    <3> QED
      BY <3>2, <3>3 DEF Announced, Ends
  <2> QED
    BY <2>3, <2>4
<1>4. NotOver' /\ Signalled'
  BY <1>1 DEF Maps, NotOver, Signalled, Noded, Of, Lane
<1>5. MapAccounts'
  BY <1>1 DEF Maps, MapAccounts, Of
<1> QED
  BY <1>2, <1>3, <1>4, <1>5 DEF Maps

LEMMA MapsInvariant ==
  Spec /\ []SessionsDiffer /\ []EntriesDiffer /\ []LoopsApart => []Maps
<1>1. ASSUME IInv, Tree, Books, Calls, Lanewise, Maps, IInv', Tree', Lanewise', [Next]_vars
      PROVE  Maps'
  <2>1. CASE UNCHANGED vars
    BY <1>1, <2>1, MapsStutter
  <2>2. ASSUME NEW p \in DOMAIN fr, FrameStep(p) \/ HostStep(p) PROVE Maps'
    BY <1>1, <2>2, StepMaps DEF Books, Calls
  <2>3. CASE RunStep
    BY <1>1, <2>3, RunStepMaps
  <2> QED
    BY <1>1, <2>1, <2>2, <2>3 DEF Next, Progress, Returned
<1> QED
  BY <1>1, MapsInit, LanewiseInvariant, CallsInvariant, PTL DEF Spec

\* Under the same three conditions, which give the items of a map lanes that no
\* other node comes to, a MapCompleted tells what its items have announced, in
\* every workflow: as many successes as it says and as many failures as it
\* attempted besides; all of its items, and enough successes, unless it was
\* cancelled.  That stays so until the run ends: no item of the map announces
\* anything later, and no other map signals over its place.
THEOREM MapsAccount ==
  Spec /\ []SessionsDiffer /\ []EntriesDiffer /\ []LoopsApart => []MapAccounts
<1>1. Maps => MapAccounts
  BY DEF Maps
<1> QED
  BY <1>1, MapsInvariant, PTL

-----------------------------------------------------------------------------
(* What a map of single calls has collected                                *)

\* The nodes that a node runs.
Inner(x) == {Nodes[x].body, Nodes[x].then, Nodes[x].else}

\* A map of the entrypoint is run by Runner::run alone, and nobody else stores
\* into its slot, which is one that a ledger may have.
CollectorsApart ==
  \A id \in CallMaps :
    /\ Nodes[id].out \in Slot
    /\ \A x \in DOMAIN Nodes : id \notin Inner(x) /\ (x # id => Nodes[x].out # Nodes[id].out)

\* Which node a frame runs: the one of the run is on its own lane, the others
\* are run by nodes, an item runs the body of the map it belongs to.
Homes ==
  /\ \A q \in DOMAIN fr :
       Noded(q) /\ q # Body(Root) => \E x \in DOMAIN Nodes : fr[q].node \in Inner(x)
  /\ Live => Lane(Body(Root)) = RootLane(fr[Body(Root)].node)
  /\ \A p, q \in DOMAIN fr : \A i \in Nat :
       q = Kid(p, i) =>
         /\ fr[p].kind = "item" => fr[q].node = Def(p).body
         /\ fr[p].kind = "map" => fr[q].node = fr[p].node

Answered(l, v) == \E r \in records : r.lane = l /\ r.v = v
Asks(id) == Nodes[Nodes[id].body].kind = "actor"

\* One answer is recorded on a lane, by the node that has started there.
OneAnswer ==
  /\ \A r, s \in records : r.lane = s.lane => r = s
  /\ \A r \in records : \E d \in Started : d.lane = r.lane
  /\ \A p \in DOMAIN fr :
       Noded(p) /\ fr[p].st # "done" => \A r \in records : r.lane # Lane(p)

\* What a call, an item that is one call, and their map have is what was recorded.
CallsAnswer ==
  \A p \in DOMAIN fr :
    fr[p].kind = "actor" /\ fr[p].st = "done" /\ fr[p].ret.ok => Answered(Lane(p), fr[p].ret.v)
ItemsAnswer ==
  \A p \in DOMAIN fr :
    fr[p].kind = "item" /\ fr[p].st = "done" /\ fr[p].ret.ok /\ Asks(fr[p].node)
      => Answered(Lane(p), fr[p].ret.v)
ResultsAnswer ==
  \A p \in DOMAIN fr :
    At(p, "map", "fan") /\ Asks(fr[p].node) =>
      \A i \in 1 .. Len(fr[p].res) :
        fr[p].res[i].ok => Answered(ItemLane(Lane(p), i), fr[p].res[i].v)

\* Of a map that has completed the slot holds the answers, and each is recorded.
Gathered(id, n) ==
  /\ RootLed[Nodes[id].out] = [i \in 1 .. n |-> AnswerAt(ItemLane(RootLane(id), i))]
  /\ \A i \in 1 .. n :
       OnLane(Of("MapItemCompleted"), ItemLane(RootLane(id), i)) # {}
         => \E r \in records : r.lane = ItemLane(RootLane(id), i)
Gathers ==
  \A id \in CallMaps :
    OnLane(Of("MapCompleted"), RootLane(id)) # {} => Gathered(id, nodeIo[RootLane(id)].attempted)

Collects ==
  /\ Homes /\ OneAnswer
  /\ CallsAnswer /\ ItemsAnswer /\ ResultsAnswer
  /\ Gathers

-----------------------------------------------------------------------------
(* Who runs what                                                           *)

\* The body that is entered is one of the nodes that the node runs.
LEMMA EntersInner ==
  ASSUME IInv, Tree, NEW p \in DOMAIN fr,
         ItemStart(p) \/ ForEachNext(p) \/ WhilePass(p) \/ (\E v : ResumeLoaded(p, v))
         \/ SessionStart(p) \/ SessionAcquire(p) \/ BranchStart(p),
         fr'[p].st = "body"
  PROVE  /\ fr'[Body(p)].node \in Inner(fr[p].node)
         /\ fr[p].kind = "item" => fr'[Body(p)].node = Def(p).body
<1>1. \A id, path, iter, led :
        /\ p \in DOMAIN Enter(p, id, path, iter, led)
        /\ Body(p) \in DOMAIN Enter(p, id, path, iter, led)
        /\ Enter(p, id, path, iter, led)[Body(p)].node = id
        /\ DOMAIN Enter(p, id, path, iter, led)[p] = FrameFields
  <2> TAKE id, path, iter, led
  <2> DEFINE F == Enter(p, id, path, iter, led)
  <2>1. /\ \A q : q \in DOMAIN F <=> q \in DOMAIN fr \/ q = Body(p)
        /\ F[Body(p)] = NodeFrame(id, path, iter, led)
        /\ DOMAIN F[p] = FrameFields
    BY EnterFrames
  <2> HIDE DEF F
  <2>2. F[Body(p)].node = id
    BY <2>1 DEF NodeFrame, Frame
  <2> QED
    BY <2>1, <2>2 DEF F
<1>2. p # Body(p)
  BY LiveFrame, KidPosition DEF Body
<1>3. ASSUME NEW id, NEW path, NEW iter, NEW led, NEW E, E = Enter(p, id, path, iter, led),
             fr' = E \/ CountsOn(E, p, fr')
      PROVE  fr'[Body(p)].node = id
  <2>1. p \in DOMAIN E /\ Body(p) \in DOMAIN E /\ E[Body(p)].node = id /\ DOMAIN E[p] = FrameFields
    BY <1>1, <1>3
  <2>2. CountsOn(E, p, fr') => fr'[Body(p)] = E[Body(p)]
    BY <1>2, <2>1, CountedOn
  <2> QED
    BY <1>3, <2>1, <2>2
<1>4. Inner(fr[p].node) = {Def(p).body, Def(p).then, Def(p).else}
  BY DEF Inner, Def
<1>5. CASE ItemStart(p)
  BY <1>1, <1>4, <1>5 DEF ItemStart
<1>6. CASE ForEachNext(p)
  <2> DEFINE E == Enter(p, Def(p).body, Index(fr[p].path, fr[p].k), fr[p].iter, fr[p].led)
  <2>1. fr' = [E EXCEPT ![p].k = @ + 1, ![p].saved = Led(p)] /\ fr[p].kind # "item"
    BY <1>6 DEF ForEachNext, At
  <2>2. E = Enter(p, Def(p).body, Index(fr[p].path, fr[p].k), fr[p].iter, fr[p].led)
    OBVIOUS
  <2> HIDE DEF E
  <2>3. CountsOn(E, p, fr')
    BY <2>1 DEF CountsOn
  <2> QED
    BY <1>3, <1>4, <2>1, <2>2, <2>3
<1>7. CASE WhilePass(p)
  <2> DEFINE E == Enter(p, Def(p).body, Child(fr[p].path, "body"), fr[p].k, fr[p].led)
  <2>1. fr' = [E EXCEPT ![p].k = @ + 1] /\ fr[p].kind # "item"
    BY <1>7 DEF WhilePass, PassIteration, At
  <2>2. E = Enter(p, Def(p).body, Child(fr[p].path, "body"), fr[p].k, fr[p].led)
    OBVIOUS
  <2> HIDE DEF E
  <2>3. CountsOn(E, p, fr')
    BY <2>1 DEF CountsOn
  <2> QED
    BY <1>3, <1>4, <2>1, <2>2, <2>3
<1>8. ASSUME NEW v, ResumeLoaded(p, v)
      PROVE  /\ fr'[Body(p)].node \in Inner(fr[p].node)
             /\ fr[p].kind = "item" => fr'[Body(p)].node = Def(p).body
  BY <1>1, <1>4, <1>8 DEF ResumeLoaded
<1>9. CASE BranchStart(p)
  <2>1. CASE Target(p) = NoNode
    <3>1. fr'[p].st = "done"
      BY <1>9, <2>1, DoneFrame DEF BranchStart, Complete
    <3> QED
      BY <3>1
  <2>2. CASE Target(p) # NoNode
    <3>1. fr'[Body(p)].node = Target(p) /\ fr[p].kind # "item"
      BY <1>1, <1>9, <2>2 DEF BranchStart, At
    <3> QED
      BY <1>4, <3>1 DEF Target
  <2> QED
    BY <2>1, <2>2
<1>10. ASSUME fr' = EnterSession(p)
       PROVE  fr'[Body(p)].node = Def(p).body
  BY <1>1, <1>10 DEF EnterSession
<1>11. CASE SessionStart(p)
  <2>1. CASE Def(p).limit = NoLimit
    BY <1>4, <1>10, <1>11, <2>1 DEF SessionStart
  <2>2. CASE Def(p).limit # NoLimit
    <3>1. fr'[p].st = "acquire"
      BY <1>11, <2>2, LiveFrame DEF SessionStart, FrameFields
    <3> QED
      BY <3>1
  <2> QED
    BY <2>1, <2>2
<1>12. CASE SessionAcquire(p)
  BY <1>4, <1>10, <1>12 DEF SessionAcquire
<1> QED
  BY <1>5, <1>6, <1>7, <1>8, <1>9, <1>11, <1>12

LEMMA KidNode ==
  ASSUME IInv, Tree, NEW p \in DOMAIN fr, FrameStep(p) \/ HostStep(p),
         NEW q \in DOMAIN fr', q \notin DOMAIN fr
  PROVE  /\ fr[p].kind = "item" => fr'[q].node = Def(p).body
         /\ fr[p].kind = "map" => fr'[q].node = fr[p].node
         /\ fr'[q].kind \notin {"item", "session"} => fr'[q].node \in Inner(fr[p].node)
<1>1. PICK i \in KidsOf(fr'[p]) : i \in Nat /\ q = Kid(p, i)
  BY StepKid
<1>2. Moves(p) /\ Grown(fr, fr', leds, leds', p)
  BY StepMoves, StepKid DEF Moves, Moved, Reaped
<1>3. /\ p \in DOMAIN fr' /\ fr'[p].kind = fr[p].kind /\ fr[p].st # "body"
      /\ Shaped(fr'[p])
      /\ fr[p].kind \in {"map", "session_group"} <=> fr'[q].kind \in {"item", "session"}
  BY <1>1, <1>2 DEF Grown, Born, SameNode, KidsOf
<1>4. CASE fr'[p].st = "body"
  <2>1. fr[p].kind \in Kinds \cup {"item", "session"}
    BY LiveFrame
  <2>2. fr[p].kind \in {"item", "for_each", "while", "branch", "resume_session", "session"}
    BY <1>3, <1>4, <2>1 DEF Kinds, Shaped, StatesOf
  <2>3. q = Body(p)
    BY <1>1, <1>4 DEF KidsOf, Body
  <2> QED
    BY <1>3, <1>4, <2>2, <2>3, EnteringSteps, EntersInner
<1>5. CASE fr'[p].kind = "map" /\ fr'[p].st = "fan"
  <2>1. Dispatch(p)
    BY <1>1, <1>2, <1>3, <1>5, MapFans
  <2> DEFINE hi == Smaller(fr[p].k + Width(Def(p)), Len(fr[p].items))
             A == [fr EXCEPT ![p].k = hi]
             K == {Kid(p, n) : n \in fr[p].k + 1 .. hi}
             H == [x \in K |-> Frame("item", fr[p].node, Index(fr[p].path, x[Len(x)] - 1),
                                     fr[p].iter, x)]
  <2>2. fr' = Plus(A, H) /\ DOMAIN A = DOMAIN fr
    BY <2>1 DEF Dispatch
  <2>3. \A x \in DOMAIN H : H[x].node = fr[p].node
    BY DEF Frame
  <2> HIDE DEF H, A
  <2>4. fr'[q].node = fr[p].node
    BY <1>1, <1>2, <2>2, <2>3, NewKid
  <2> QED
    BY <1>3, <1>5, <2>4
<1>6. CASE fr'[p].kind = "session_group" /\ fr'[p].st = "join"
  BY <1>3, <1>6
<1> QED
  BY <1>1, <1>4, <1>5, <1>6 DEF KidsOf

LEMMA HomesKept ==
  ASSUME IInv, Tree, Homes, NEW p \in DOMAIN fr, FrameStep(p) \/ HostStep(p), wf' = wf
  PROVE  Homes'
<1>1. /\ SameNode(fr[p], fr'[p]) /\ Position(p) /\ p \in DOMAIN fr'
      /\ \A q \in DOMAIN fr' : q \in DOMAIN fr /\ q # p => fr'[q] = fr[q]
      /\ \A q \in DOMAIN fr' : Position(q)
      /\ fr[p].node \in DOMAIN Nodes
  BY StepFrames, LiveFrame DEF Rooted, Sound
<1>2. Nodes' = Nodes /\ \A x : Inner(x)' = Inner(x)
  BY DEF Nodes, Inner
<1>3. \A q \in DOMAIN fr' : q \in DOMAIN fr =>
         fr'[q].kind = fr[q].kind /\ fr'[q].node = fr[q].node /\ Lane(q)' = Lane(q)
  BY <1>1 DEF SameNode, Lane
<1>4. ASSUME NEW q \in DOMAIN fr', fr'[q].kind \notin {"item", "session"}, q # Body(Root)
      PROVE  \E x \in DOMAIN Nodes : fr'[q].node \in Inner(x)
  <2>1. CASE q \in DOMAIN fr
    BY <1>3, <1>4, <2>1 DEF Homes, Noded
  <2>2. CASE q \notin DOMAIN fr
    BY <1>1, <1>4, <2>2, KidNode
  <2> QED
    BY <2>1, <2>2
<1>5. ASSUME Live' PROVE (Lane(Body(Root)) = RootLane(fr[Body(Root)].node))'
  <2>1. Live
    BY BelowRoot
  <2>2. fr'[Body(Root)].node = fr[Body(Root)].node /\ Lane(Body(Root))' = Lane(Body(Root))
    BY <1>3, <1>5, <2>1 DEF Live
  <2> QED
    BY <2>1, <2>2 DEF Homes, RootLane
<1>6. ASSUME NEW a \in DOMAIN fr', NEW b \in DOMAIN fr', NEW i \in Nat, b = Kid(a, i)
      PROVE  /\ fr'[a].kind = "item" => fr'[b].node = Nodes[fr'[a].node].body
             /\ fr'[a].kind = "map" => fr'[b].node = fr'[a].node
  <2>1. Prefix(a, b) /\ a # b
    BY <1>1, <1>6, KidPosition
  <2>2. a \in DOMAIN fr /\ (b \notin DOMAIN fr => \E j \in Nat : b = Kid(p, j))
    BY <2>1, FramePairs
  <2>3. CASE b \in DOMAIN fr
    BY <1>3, <1>6, <2>2, <2>3 DEF Homes, Def
  <2>4. CASE b \notin DOMAIN fr
    <3>1. a = p
      BY <1>1, <1>6, <2>2, <2>4, SameKid
    <3> QED
      BY <1>3, <2>4, <3>1, KidNode DEF Def
  <2> QED
    BY <2>3, <2>4
<1> QED
  BY <1>2, <1>4, <1>5, <1>6 DEF Homes, Noded, Def

-----------------------------------------------------------------------------
(* What is recorded                                                        *)

\* A call is recorded as the reply comes, which is when the node is done.
LEMMA StepRecords ==
  ASSUME IInv, Tree, NEW p \in DOMAIN fr, FrameStep(p) \/ HostStep(p)
  PROVE  \/ records' = records
         \/ \E v : /\ At(p, "actor", "driving")
                   /\ \E n : records' = records \cup {[lane |-> Lane(p), seq |-> n, v |-> v, by |-> p]}
                   /\ p \in DOMAIN fr' /\ fr'[p].st = "done"
                   /\ fr'[p].ret.ok => fr'[p].ret.v = v
<1> USE DEF store, env
<1>1. ASSUME NEW v, ActorReplies(p, v)
      PROVE  /\ At(p, "actor", "driving")
             /\ \E n : records' = records \cup {[lane |-> Lane(p), seq |-> n, v |-> v, by |-> p]}
             /\ p \in DOMAIN fr' /\ fr'[p].st = "done"
             /\ fr'[p].ret.ok => fr'[p].ret.v = v
  <2>1. /\ At(p, "actor", "driving")
        /\ records' = records \cup {[lane |-> Lane(p), seq |-> fr[p].seq, v |-> v, by |-> p]}
    BY <1>1 DEF ActorReplies, Record
  <2>2. fr' = Done(fr, p, Ok(v)) \/ fr' = Done(fr, p, Err(LedgerErr))
    BY <1>1 DEF ActorReplies, Complete
  <2>3. Ok(v).v = v /\ ~Err(LedgerErr).ok
    BY DEF Ok, Err
  <2>4. /\ p \in DOMAIN fr' /\ fr'[p].st = "done"
        /\ fr'[p].ret = Ok(v) \/ fr'[p].ret = Err(LedgerErr)
    BY <2>2, DoneFrame
  <2> QED
    BY <2>1, <2>3, <2>4
<1>2. CASE FrameStep(p)
  <2>1. Program(p) \/ ProgramFails(p) \/ ActorStart(p) \/ ActorUnresolved(p)
        \/ MapStart(p) \/ Dispatch(p) \/ Collect(p) \/ MapEnd(p)
        \/ ItemStart(p) \/ ItemEnd(p) => UNCHANGED records
    BY DEF Program, ProgramFails, ActorStart, ActorUnresolved, StartFails, MapStart, Dispatch,
       Collect, MapEnd, ItemStart, ItemEnd
  <2>2. ForEachStart(p) \/ ForEachNext(p) \/ ForEachItemEnd(p) \/ ForEachEnd(p)
        \/ WhileStart(p) \/ WhilePass(p) \/ WhilePassEnd(p) \/ WhileEnd(p)
        \/ WhileUnresolved(p) => UNCHANGED records
    BY DEF StartFails, ForEachStart, ForEachNext, ForEachItemEnd, ForEachEnd, WhileStart,
       WhilePass, WhilePassEnd, WhileEnd, WhileUnresolved
  <2>3. BranchStart(p) \/ BranchUnresolved(p) \/ ResumeStart(p) \/ PassOn(p)
        \/ GroupStart(p) \/ SessionStart(p) \/ SessionAcquire(p) \/ SessionEnd(p)
        \/ GroupJoin(p) => UNCHANGED records
    BY DEF StartFails, BranchStart, BranchUnresolved, ResumeStart, PassOn, GroupStart,
       SessionStart, SessionAcquire, SessionEnd, GroupJoin
  <2> QED
    BY <1>2, <2>1, <2>2, <2>3 DEF FrameStep
<1>3. CASE HostStep(p)
  <2>1. \A v : ResumeLoaded(p, v) => UNCHANGED records
    BY DEF ResumeLoaded
  <2>2. ActorFails(p, DriveErr) \/ LoadFails(p, DriveErr) => UNCHANGED records
    BY DEF ActorFails, LoadFails
  <2> QED
    BY <1>1, <1>3, <2>1, <2>2 DEF HostStep
<1> QED
  BY <1>2, <1>3

\* The same, with the record and its node named.
LEMMA RecordsGrow ==
  ASSUME IInv, Tree, NEW p \in DOMAIN fr, FrameStep(p) \/ HostStep(p)
  PROVE  /\ records \subseteq records'
         /\ \A l, v : Answered(l, v) => Answered(l, v)'
         /\ \A r \in records' \ records :
              /\ r.lane = Lane(p) /\ Noded(p) /\ fr[p].st = "driving"
              /\ p \in DOMAIN fr' /\ fr'[p].st = "done"
         /\ \A r, s \in records' \ records : r = s
<1>1. /\ records \subseteq records'
      /\ \A r \in records' \ records :
           /\ r.lane = Lane(p) /\ Noded(p) /\ fr[p].st = "driving"
           /\ p \in DOMAIN fr' /\ fr'[p].st = "done"
      /\ \A r, s \in records' \ records : r = s
  BY StepRecords DEF At, Noded
<1> QED
  BY <1>1 DEF Answered

LEMMA OneAnswerKept ==
  ASSUME IInv, Tree, Clock, Lanes(fr), Longer, NodesStarted, OneAnswer, IInv', Lanewise',
         NEW p \in DOMAIN fr, FrameStep(p) \/ HostStep(p)
  PROVE  OneAnswer'
<1>1. /\ SameNode(fr[p], fr'[p])
      /\ \A r \in DOMAIN fr' : r \in DOMAIN fr /\ r # p => fr'[r] = fr[r]
  BY StepFrames
<1>2. /\ records \subseteq records'
      /\ \A r \in records' \ records :
           /\ r.lane = Lane(p) /\ Noded(p) /\ fr[p].st = "driving"
           /\ p \in DOMAIN fr' /\ fr'[p].st = "done"
      /\ \A r, s \in records' \ records : r = s
  BY RecordsGrow
<1>3. Started \subseteq Started'
  BY StartedKept
<1>4. \A r \in records' : \E d \in Started : d.lane = r.lane
  BY <1>2 DEF OneAnswer, NodesStarted
<1>5. \A r, s \in records' : r.lane = s.lane => r = s
  <2>1. \A r \in records' \ records : \A s \in records : r.lane # s.lane
    BY <1>2 DEF OneAnswer
  <2> QED
    BY <1>2, <2>1 DEF OneAnswer
<1>6. ASSUME NEW q \in DOMAIN fr', fr'[q].kind \notin {"item", "session"}, fr'[q].st # "done",
             NEW r \in records', NEW l, l = Lane(q)', r.lane = l
      PROVE  FALSE
  <2>1. PICK d \in Started : d.lane = r.lane
    BY <1>4
  <2>2. d \in Started'
    BY <1>3, <2>1
  <2>3. q \in DOMAIN fr
    <3>1. fr'[q].st # "new"
      BY <1>6, <2>1, <2>2, FreshStart
    <3> QED
      BY <3>1, KidKinds
  <2>4. l = Lane(q) /\ Noded(q) /\ fr[q].st # "done"
    <3>1. l = Lane(q) /\ Noded(q)
      BY <1>1, <1>6, <2>3 DEF SameNode, Lane, Noded
    <3>2. fr[p].st # "done"
      BY StepOutcome DEF Outcome
    <3> QED
      BY <1>1, <1>6, <2>3, <3>1, <3>2
  <2>5. CASE r \in records
    BY <1>6, <2>3, <2>4, <2>5 DEF OneAnswer
  <2>6. CASE r \notin records
    <3>1. p = q
      BY <1>2, <1>6, <2>3, <2>4, <2>6, OneNode
    <3> QED
      BY <1>2, <1>6, <2>6, <3>1
  <2> QED
    BY <2>5, <2>6
<1> QED
  BY <1>3, <1>4, <1>5, <1>6 DEF OneAnswer, Noded

LEMMA ActorSteps ==
  ASSUME NEW p \in DOMAIN fr, FrameStep(p) \/ HostStep(p), fr[p].kind = "actor"
  PROVE  \/ ActorStart(p) \/ ActorUnresolved(p) \/ ActorFails(p, DriveErr)
         \/ \E v \in Replies : ActorReplies(p, v)
<1>1. CASE HostStep(p)
  BY <1>1 DEF HostStep, At, ResumeLoaded, LoadFails
<1>2. CASE FrameStep(p)
  BY <1>2 DEF FrameStep, At, Program, ProgramFails, MapStart, Dispatch, Collect, MapEnd,
     ItemStart, ItemEnd, ForEachStart, ForEachNext, ForEachItemEnd, ForEachEnd, WhileStart,
     WhilePass, WhilePassEnd, WhileEnd, WhileUnresolved, BranchStart, BranchUnresolved,
     ResumeStart, PassOn, GroupStart, SessionStart, SessionAcquire, SessionEnd, GroupJoin
<1> QED
  BY <1>1, <1>2

LEMMA CallsAnswerKept ==
  ASSUME IInv, Tree, Clock, CallsAnswer, NEW p \in DOMAIN fr, FrameStep(p) \/ HostStep(p)
  PROVE  CallsAnswer'
<1> SUFFICES ASSUME NEW q \in DOMAIN fr', fr'[q].kind = "actor", fr'[q].st = "done", fr'[q].ret.ok,
                    NEW l, l = Lane(q)', NEW v, v = fr'[q].ret.v
             PROVE  Answered(l, v)'
  BY DEF CallsAnswer, Answered
<1>1. /\ SameNode(fr[p], fr'[p])
      /\ \A r \in DOMAIN fr' : r \in DOMAIN fr /\ r # p => fr'[r] = fr[r]
  BY StepFrames
<1>2. q \in DOMAIN fr
  BY KidKinds
<1>3. fr[q].kind = "actor" /\ l = Lane(q)
  BY <1>1, <1>2 DEF SameNode, Lane
<1>4. CASE q # p
  <2>1. Answered(l, v)
    BY <1>1, <1>2, <1>3, <1>4 DEF CallsAnswer
  <2> QED
    BY <2>1, RecordsGrow
<1>5. CASE q = p
  <2>1. fr[p].st # "done"
    BY StepOutcome DEF Outcome
  <2>2. \/ ActorStart(p) \/ ActorUnresolved(p) \/ ActorFails(p, DriveErr)
        \/ \E w \in Replies : ActorReplies(p, w)
    BY <1>3, <1>5, ActorSteps
  <2>3. ~ActorStart(p) /\ ~ActorUnresolved(p) /\ ~ActorFails(p, DriveErr)
    <3>1. CASE ActorStart(p)
      <4>1. fr'[p].st = "driving"
        BY <3>1, LiveFrame DEF ActorStart, FrameFields
      <4> QED
        BY <1>5, <4>1
    <3>2. ASSUME NEW e, fr' = Done(fr, p, Err(e)) PROVE FALSE
      <4>1. fr'[p].ret = Err(e)
        BY <3>2, DoneFrame
      <4> QED
        BY <1>5, <4>1 DEF Err
    <3> QED
      BY <3>1, <3>2 DEF ActorUnresolved, StartFails, ActorFails
  <2>4. PICK w : ActorReplies(p, w)
    BY <2>2, <2>3
  <2>5. /\ records' = records \cup {[lane |-> Lane(p), seq |-> fr[p].seq, v |-> w, by |-> p]}
        /\ fr' = Done(fr, p, Ok(w)) \/ fr' = Done(fr, p, Err(LedgerErr))
    BY <2>4 DEF ActorReplies, Record, Complete
  <2>6. fr'[p].ret = Ok(w) \/ fr'[p].ret = Err(LedgerErr)
    BY <2>5, DoneFrame
  <2>7. v = w
    BY <1>5, <2>6 DEF Ok, Err
  <2>8. \E r \in records' : r.lane = l /\ r.v = v
    <3> DEFINE x == [lane |-> Lane(p), seq |-> fr[p].seq, v |-> w, by |-> p]
    <3>1. x \in records' /\ x.lane = Lane(p) /\ x.v = w
      BY <2>5
    <3> HIDE DEF x
    <3>2. x.lane = l /\ x.v = v
      BY <1>3, <1>5, <2>7, <3>1
    <3> QED
      BY <3>1, <3>2
  <2> QED
    BY <2>8 DEF Answered
<1> QED
  BY <1>4, <1>5

\* What an item runs is its body, an actor if the map asks.
LEMMA ItemAsks ==
  ASSUME IInv, Tree, Kin, Homes, NEW p \in DOMAIN fr, fr[p].kind = "item", Asks(fr[p].node),
         Body(p) \in DOMAIN fr
  PROVE  fr[Body(p)].kind = "actor" /\ Lane(Body(p)) = Lane(p)
<1>1. /\ fr[Body(p)].node = Nodes[fr[p].node].body
      /\ Noded(Body(p)) /\ Lane(Body(p)) = Lane(p)
  BY DEF Homes, Kin, Body, Def
<1>2. Sound(fr[Body(p)])
  BY LiveFrame
<1> QED
  BY <1>1, <1>2 DEF Sound, Noded, Asks

LEMMA ItemsAnswerKept ==
  ASSUME IInv, Tree, Clock, Kin, Homes, CallsAnswer, ItemsAnswer, wf' = wf,
         NEW p \in DOMAIN fr, FrameStep(p) \/ HostStep(p)
  PROVE  ItemsAnswer'
<1>0. \A id : Asks(id)' <=> Asks(id)
  BY DEF Asks, Nodes
<1> SUFFICES ASSUME NEW q \in DOMAIN fr', fr'[q].kind = "item", fr'[q].st = "done", fr'[q].ret.ok,
                    Asks(fr'[q].node), NEW l, l = Lane(q)', NEW v, v = fr'[q].ret.v
             PROVE  Answered(l, v)'
  <2>1. \A q \in DOMAIN fr' : Asks(fr[q].node)' <=> Asks(fr'[q].node)
    BY <1>0 DEF Asks, Nodes
  <2> QED
    BY <2>1 DEF ItemsAnswer, Answered
<1>1. /\ SameNode(fr[p], fr'[p])
      /\ \A r \in DOMAIN fr' : r \in DOMAIN fr /\ r # p => fr'[r] = fr[r]
  BY StepFrames
<1>2. q \in DOMAIN fr
  BY KidKinds
<1>3. fr[q].kind = "item" /\ l = Lane(q) /\ Asks(fr[q].node)
  BY <1>1, <1>2 DEF SameNode, Lane
<1>4. SUFFICES Answered(l, v)
  BY RecordsGrow
<1>5. CASE q # p
  BY <1>1, <1>2, <1>3, <1>5 DEF ItemsAnswer
<1>6. CASE q = p
  <2>1. ItemEnd(p)
    <3>1. ItemStart(p) \/ ItemEnd(p)
      BY <1>3, <1>6, FutureSteps, FutureStates
    <3>2. ItemStart(p) => fr'[p].st # "done"
      BY FutureStates
    <3> QED
      BY <1>6, <3>1, <3>2
  <2>2. /\ fr'[p].ret = fr[Body(p)].ret
        /\ Body(p) \in DOMAIN fr /\ fr[Body(p)].st = "done"
    BY <2>1, ItemEndTells
  <2>3. fr[Body(p)].kind = "actor" /\ Lane(Body(p)) = Lane(p)
    BY <1>3, <1>6, <2>2, ItemAsks
  <2> QED
    BY <1>3, <1>6, <2>2, <2>3 DEF CallsAnswer
<1> QED
  BY <1>5, <1>6

LEMMA ResultsAnswerKept ==
  ASSUME IInv, Tree, Clock, Kin, Homes, ItemsAnswer, ResultsAnswer, wf' = wf,
         NEW p \in DOMAIN fr, FrameStep(p) \/ HostStep(p)
  PROVE  ResultsAnswer'
<1>0. \A id : Asks(id)' <=> Asks(id)
  BY DEF Asks, Nodes
<1> SUFFICES ASSUME NEW q \in DOMAIN fr', fr'[q].kind = "map", fr'[q].st = "fan", Asks(fr'[q].node),
                    NEW i \in 1 .. Len(fr'[q].res), fr'[q].res[i].ok,
                    NEW l, l = ItemLane(Lane(q), i)', NEW v, v = fr'[q].res[i].v
             PROVE  Answered(l, v)'
  <2>1. \A q \in DOMAIN fr' : Asks(fr[q].node)' <=> Asks(fr'[q].node)
    BY <1>0 DEF Asks, Nodes
  <2> QED
    BY <2>1 DEF ResultsAnswer, Answered, At
<1>1. /\ q \in DOMAIN fr /\ At(q, "map", "fan") /\ Asks(fr[q].node)
      /\ l = ItemLane(Lane(q), i)
  BY ResultsGrow DEF ItemLane
<1>2. SUFFICES Answered(l, v)
  BY RecordsGrow
<1>3. CASE i \in 1 .. Len(fr[q].res) /\ fr'[q].res[i] = fr[q].res[i]
  BY <1>1, <1>3 DEF ResultsAnswer
<1>4. CASE /\ ~ItemEnd(p) /\ i \in Nat /\ Kid(q, i) \in DOMAIN fr
           /\ fr[Kid(q, i)].kind = "item" /\ fr[Kid(q, i)].st = "done"
           /\ Lane(Kid(q, i)) = ItemLane(Lane(q), i)
           /\ fr'[q].res[i] = fr[Kid(q, i)].ret
  <2>1. fr[Kid(q, i)].node = fr[q].node
    BY <1>1, <1>4 DEF Homes, At
  <2> QED
    BY <1>1, <1>4, <2>1 DEF ItemsAnswer
<1> QED
  BY <1>3, <1>4, ResultsGrow

-----------------------------------------------------------------------------
(* The slot of a map of the entrypoint                                     *)

\* A map of the entrypoint is the node of the run, and nothing else is that node.
LEMMA RootMap ==
  ASSUME IInv, Tree, Longer, Homes, NEW p \in DOMAIN fr, Noded(p),
         NEW id, Lane(p) = RootLane(id)
  PROVE  p = Body(Root) /\ fr[p].node = id /\ fr[p].led = Root
<1>1. Live /\ Prefix(Body(Root), p)
  BY BelowRoot
<1>2. fr[Body(Root)].kind \notin {"item", "session"}
  <2>1. \A q \in DOMAIN fr : fr[q].kind \in {"item", "session"} => Len(q) > 1
    BY DEF Tree, Ledgered
  <2>2. Len(Body(Root)) = 1 /\ ~(1 > 1)
    BY RootPosition
  <2> QED
    BY <1>1, <2>1, <2>2 DEF Live
<1>3. Len(fr[p].path) = 1 /\ Len(fr[Body(Root)].path) = 1
  BY <1>1, RootPaths DEF Homes, Lane
<1>4. p = Body(Root)
  BY <1>1, <1>2, <1>3 DEF Longer, Noded, Live
<1>5. fr[p].node = id
  BY <1>1, <1>4, RootPaths DEF Homes
<1>6. fr[p].led = Root
  <2> SUFFICES ASSUME fr[p].led # Root PROVE FALSE
    OBVIOUS
  <2>1. fr[p].led \in DOMAIN fr /\ Prefix(fr[p].led, p)
    BY DEF Tree, LiveLedgers, Ledgered
  <2>2. Prefix(p, fr[p].led)
    BY <1>4, <2>1, BelowRoot
  <2>3. fr[p].led = p
    <3>1. Position(fr[p].led) /\ Position(p)
      BY <2>1, LiveFrame
    <3> QED
      BY <2>1, <2>2, <3>1, PrefixAntisym
  <2> QED
    BY <2>3 DEF Tree, Ledgered, Noded
<1> QED
  BY <1>4, <1>5, <1>6

LEMMA MapHome ==
  ASSUME IInv, Tree, Homes, CollectorsApart, NEW id \in CallMaps,
         NEW p \in DOMAIN fr, Noded(p), fr[p].node = id
  PROVE  Lane(p) = RootLane(id)
<1>1. p = Body(Root)
  BY DEF Homes, CollectorsApart
<1> QED
  BY <1>1 DEF Homes, Live

\* The items of a loop are bound under other names.
LEMMA LoopsBindElsewhere ==
  ASSUME IInv, Tree, NamesFree, NEW p \in DOMAIN fr, FrameStep(p) \/ HostStep(p),
         fr[p].kind = "for_each", NEW s \in Slot, \E id \in DOMAIN Nodes : Nodes[id].out = s
  PROVE  RootLed'[s] = RootLed[s]
<1> USE DEF store, env
<1>1. /\ Root \in DOMAIN leds /\ fr[p].led \in DOMAIN leds
      /\ \A o \in DOMAIN leds : DOMAIN leds[o] = Slot
      /\ fr[p].node \in DOMAIN Nodes
  BY LiveFrame DEF Tree, LiveLedgers, Sound
<1>2. s \notin {Def(p).as, "item"}
  BY <1>1 DEF NamesFree, ItemNames, Def
<1>3. \A l, v : /\ BindItem(l, Def(p).as, v)[s] = l[s]
               /\ RestoreItem(l, Def(p).as, v)[s] = l[s]
  BY <1>2 DEF BindItem, RestoreItem
<1>4. ASSUME NEW l, leds' = [leds EXCEPT ![fr[p].led] = l], l[s] = leds[fr[p].led][s]
      PROVE  RootLed'[s] = RootLed[s]
  BY <1>1, <1>4 DEF RootLed
<1>5. CASE ForEachNext(p)
  <2>1. leds' = [leds EXCEPT ![fr[p].led] = BindItem(leds[fr[p].led], Def(p).as, fr[p].items[fr[p].k + 1])]
    BY <1>5 DEF ForEachNext
  <2> QED
    BY <1>3, <1>4, <2>1
<1>6. CASE ForEachItemEnd(p)
  <2>1. leds' = [leds EXCEPT ![fr[p].led] = RestoreItem(leds[fr[p].led], Def(p).as, fr[p].saved)]
    BY <1>6 DEF ForEachItemEnd, Restored, Led
  <2> QED
    BY <1>3, <1>4, <2>1
<1>7. UNCHANGED leds => RootLed'[s] = RootLed[s]
  BY DEF RootLed
<1>8. ForEachStart(p) \/ ForEachNext(p) \/ ForEachItemEnd(p) \/ ForEachEnd(p)
  BY LoopSteps
<1> QED
  BY <1>5, <1>6, <1>7, <1>8 DEF ForEachStart, ForEachEnd, StartFails

LEMMA EntriesAreNodes == ASSUME IInv, NEW id \in EntryIds PROVE id \in DOMAIN Nodes
<1>1. Entrypoint \in Seq(DOMAIN Nodes)
  BY WorkflowAssumption DEF IInv, Accepted, Entrypoint, Nodes
<1> QED
  BY <1>1 DEF EntryIds

LEMMA SlotKept ==
  ASSUME IInv, Tree, Tree', Clock, Homes, NotOver, NamesFree, CollectorsApart,
         NEW id \in CallMaps, OnLane(Of("MapCompleted"), RootLane(id)) # {},
         NEW p \in DOMAIN fr, FrameStep(p) \/ HostStep(p)
  PROVE  RootLed'[Nodes[id].out] = RootLed[Nodes[id].out]
<1>1. id \in DOMAIN Nodes /\ Nodes[id].out \in Slot /\ fr[p].node \in DOMAIN Nodes
  <2>1. id \in DOMAIN Nodes
    BY EntriesAreNodes DEF CallMaps
  <2> QED
    BY <2>1, LiveFrame DEF CollectorsApart, Sound
<1>2. CASE fr[p].kind = "for_each"
  BY <1>1, <1>2, LoopsBindElsewhere
<1>3. CASE fr[p].kind # "for_each" /\ fr[p].node # id
  <2>1. Def(p).out # Nodes[id].out
    BY <1>1, <1>3 DEF CollectorsApart, Def
  <2>2. DOMAIN leds[Root] = Slot
    BY RootLedger DEF RootLed
  <2> QED
    BY <1>3, <2>1, <2>2, RootWritten, StoredElsewhere DEF RootLed
<1>4. CASE fr[p].node = id
  <2>1. ~Noded(p)
    <3> SUFFICES ASSUME Noded(p) PROVE FALSE
      OBVIOUS
    <3>1. Lane(p) = RootLane(id)
      BY <1>4, MapHome
    <3>2. fr[p].st # "done"
      BY StepOutcome DEF Outcome
    <3> QED
      BY <3>1, <3>2 DEF NotOver, OnLane
  <2>2. ItemStart(p) \/ ItemEnd(p) \/ SessionStart(p) \/ SessionAcquire(p) \/ SessionEnd(p)
    BY <2>1, FutureSteps DEF Noded
  <2>3. UNCHANGED leds
    BY <2>2 DEF ItemStart, ItemEnd, SessionStart, SessionAcquire, SessionEnd, store
  <2> QED
    BY <2>3 DEF RootLed
<1> QED
  BY <1>2, <1>3, <1>4

-----------------------------------------------------------------------------
(* What was gathered                                                       *)

LEMMA AnswerOf ==
  ASSUME NEW R, \A r, s \in R : r.lane = s.lane => r = s, NEW l, NEW r \in R, r.lane = l
  PROVE  (CHOOSE x \in R : x.lane = l) = r
OBVIOUS

LEMMA AnnouncedLane ==
  ASSUME NEW m, NEW ok, Announced(m, ok)'
  PROVE  /\ ok => OnLane(Of("MapItemCompleted"), m)' # {}
         /\ ~ok => OnLane(Of("MapItemCompleted"), m)' = {}
<1>1. PICK e \in events' : /\ Ends(m)' = {e}
                         /\ e.kind = IF ok THEN "MapItemCompleted" ELSE "MapItemFailed"
  BY DEF Announced
<1>2. OnLane(Of("MapItemCompleted"), m)' \subseteq Ends(m)'
  BY DEF OnLane, Of, Ends, ItemEnds
<1>3. e.lane = m
  BY <1>1 DEF Ends
<1>4. ok => e \in OnLane(Of("MapItemCompleted"), m)'
  BY <1>1, <1>3 DEF OnLane, Of
<1>5. ~ok => e \notin OnLane(Of("MapItemCompleted"), m)'
  BY <1>1 DEF OnLane, Of
<1> QED
  BY <1>1, <1>2, <1>4, <1>5

LEMMA MapEndGathers ==
  ASSUME IInv, Tree, Clock, Longer, Homes, CollectorsApart, ResultsTold, ResultsAnswer, OneAnswer',
         NEW p \in DOMAIN fr, FrameStep(p) \/ HostStep(p), MapEnd(p), GatePassed(p),
         NEW id \in CallMaps, Nodes' = Nodes, Lane(p) = RootLane(id),
         NEW n, n = nodeIo'[RootLane(id)].attempted
  PROVE  Gathered(id, n)'
<1>1. p = Body(Root) /\ fr[p].node = id /\ fr[p].led = Root
  BY MapEndDone, RootMap
<1>2. PICK l, o, k : l = RootLane(id) /\ o = Nodes[id].out /\ k = Len(fr[p].res)
  OBVIOUS
<1>3. o \in Slot /\ o # NoRef /\ Asks(id) /\ Def(p).out = o
  BY <1>1, <1>2 DEF CollectorsApart, CallMaps, Asks, Def
<1>4. At(p, "map", "fan") /\ k \in Nat /\ DOMAIN fr[p].res = 1 .. k /\ p # Root
  <2>1. At(p, "map", "fan") /\ IsSeq(fr[p].res) /\ p # Root
    BY LiveFrame, MapEndDone DEF Shaped
  <2> QED
    BY <1>2, <2>1 DEF IsSeq
<1>5. n = k
  <2>1. nodeIo' = Put(nodeIo, l, [min |-> Def(p).min, total |-> Len(fr[p].items), attempted |-> k,
                                  successes |-> Successes(p), cancelled |-> cancel])
    BY <1>2 DEF MapEnd
  <2>2. nodeIo'[l].attempted = k
    BY <2>1 DEF Put
  <2> QED
    BY <1>2, <2>2
<1>6. RootLed'[o] = [i \in 1 .. k |-> IF fr[p].res[i].ok THEN fr[p].res[i].v ELSE Null]
  <2> DEFINE w == MapValue(p)
             M == [leds EXCEPT ![fr[p].led] = Stored(@, Def(p), w)]
  <2>1. leds' = Without(M, {p})
    BY DEF MapEnd
  <2>2. w = [i \in 1 .. k |-> IF fr[p].res[i].ok THEN fr[p].res[i].v ELSE Null]
    BY <1>3, <1>4 DEF MapValue
  <2> HIDE DEF w
  <2>3. Root \in DOMAIN leds /\ DOMAIN leds[Root] = Slot
    BY RootLedger DEF RootLed
  <2>4. Stored(leds[Root], Def(p), w)[o] = w
    BY <1>3, <2>3 DEF Stored
  <2>5. Root \in DOMAIN M /\ M[Root][o] = w
    BY <1>1, <2>3, <2>4
  <2> HIDE DEF M
  <2>6. leds'[Root][o] = w
    BY <1>4, <2>1, <2>5 DEF Without
  <2> QED
    BY <2>2, <2>6 DEF RootLed
<1>7. records' = records /\ ~ItemEnd(p)
  BY <1>4 DEF MapEnd, env, ItemEnd, At
<1>8. ASSUME NEW i \in 1 .. k, NEW m, m = ItemLane(l, i)
      PROVE  /\ AnswerAt(m)' = IF fr[p].res[i].ok THEN fr[p].res[i].v ELSE Null
             /\ OnLane(Of("MapItemCompleted"), m)' # {} => \E r \in records' : r.lane = m
  <2>1. PICK ok, v : ok = fr[p].res[i].ok /\ v = fr[p].res[i].v
    OBVIOUS
  <2>2. Announced(m, ok)'
    <3>1. Announced(m, ok)
      BY <1>2, <1>4, <1>8, <2>1 DEF ResultsTold
    <3> QED
      BY <1>7, <3>1, EndsKept
  <2>3. CASE ok
    <3>1. Answered(m, v)
      BY <1>1, <1>2, <1>3, <1>4, <1>8, <2>1, <2>3 DEF ResultsAnswer
    <3>2. PICK r \in records' : r.lane = m /\ r.v = v
      BY <1>7, <3>1 DEF Answered
    <3>3. (CHOOSE x \in records' : x.lane = m) = r
      BY <3>2, AnswerOf DEF OneAnswer
    <3>4. OnLane(Of("MapItemCompleted"), m)' # {}
      BY <2>2, <2>3, AnnouncedLane
    <3> QED
      BY <2>1, <2>3, <3>2, <3>3, <3>4 DEF AnswerAt
  <2>4. CASE ~ok
    <3>1. OnLane(Of("MapItemCompleted"), m)' = {}
      BY <2>2, <2>4, AnnouncedLane
    <3> QED
      BY <2>1, <2>4, <3>1 DEF AnswerAt
  <2> QED
    BY <2>3, <2>4
<1>9. RootLed'[o] = [i \in 1 .. n |-> AnswerAt(ItemLane(l, i))']
  BY <1>5, <1>6, <1>8
<1>10. \A i \in 1 .. n : OnLane(Of("MapItemCompleted"), ItemLane(l, i))' # {}
                           => \E r \in records' : r.lane = ItemLane(l, i)
  BY <1>5, <1>8
<1> QED
  BY <1>2, <1>9, <1>10 DEF Gathered

LEMMA GatheredKept ==
  ASSUME IInv, Tree, Tree', Clock, Maps, Homes, OneAnswer, OneAnswer', NamesFree, CollectorsApart,
         NEW id \in CallMaps, Nodes' = Nodes, NEW e \in events, e.kind = "MapCompleted",
         e.lane = RootLane(id), NEW n, Gathered(id, n),
         NEW p \in DOMAIN fr, FrameStep(p) \/ HostStep(p)
  PROVE  Gathered(id, n)'
<1>1. PICK l, o : l = RootLane(id) /\ o = Nodes[id].out
  OBVIOUS
<1>2. RootLed'[o] = RootLed[o]
  <2>1. OnLane(Of("MapCompleted"), RootLane(id)) # {} /\ NotOver
    BY DEF OnLane, Of, Maps
  <2> QED
    BY <1>1, <2>1, SlotKept
<1>3. records \subseteq records'
  BY RecordsGrow
<1>4. ASSUME NEW i \in 1 .. n, NEW m, m = ItemLane(l, i)
      PROVE  /\ AnswerAt(m)' = AnswerAt(m)
             /\ OnLane(Of("MapItemCompleted"), m)' # {} => \E r \in records' : r.lane = m
  <2>1. OnLane(Of("MapItemCompleted"), m)' = OnLane(Of("MapItemCompleted"), m)
    <3>1. ItemEnd(p) => m # Lane(p)
      <4>1. i \in Nat
        OBVIOUS
      <4> QED
        BY <1>1, <1>4, <4>1, ItemsSilent
    <3>2. Ends(m)' = Ends(m)
      BY <3>1, EndsKept
    <3>3. OnLane(Of("MapItemCompleted"), m) = {x \in Ends(m) : x.kind = "MapItemCompleted"}
      BY DEF OnLane, Of, Ends, ItemEnds
    <3>4. OnLane(Of("MapItemCompleted"), m)' = {x \in Ends(m)' : x.kind = "MapItemCompleted"}
      BY DEF OnLane, Of, Ends, ItemEnds
    <3> QED
      BY <3>2, <3>3, <3>4
  <2>2. CASE OnLane(Of("MapItemCompleted"), m) = {}
    BY <2>1, <2>2 DEF AnswerAt
  <2>3. CASE OnLane(Of("MapItemCompleted"), m) # {}
    <3>1. PICK r \in records : r.lane = m
      BY <1>1, <1>4, <2>3 DEF Gathered
    <3>2. r \in records'
      BY <1>3
    <3>3. (CHOOSE x \in records : x.lane = m) = r
      BY <3>1, AnswerOf DEF OneAnswer
    <3>4. (CHOOSE x \in records' : x.lane = m) = r
      BY <3>1, <3>2, AnswerOf DEF OneAnswer
    <3>5. AnswerAt(m) = r.v
      BY <2>3, <3>3 DEF AnswerAt
    <3>6. AnswerAt(m)' = r.v
      BY <2>1, <2>3, <3>4 DEF AnswerAt
    <3> QED
      BY <3>1, <3>2, <3>5, <3>6
  <2> QED
    BY <2>2, <2>3
<1>5. RootLed[o] = [i \in 1 .. n |-> AnswerAt(ItemLane(l, i))]
  BY <1>1 DEF Gathered
<1>6. RootLed'[o] = [i \in 1 .. n |-> AnswerAt(ItemLane(l, i))']
  BY <1>2, <1>4, <1>5
<1>7. \A i \in 1 .. n : OnLane(Of("MapItemCompleted"), ItemLane(l, i))' # {}
                           => \E r \in records' : r.lane = ItemLane(l, i)
  BY <1>4
<1> QED
  BY <1>1, <1>6, <1>7 DEF Gathered

LEMMA GathersKept ==
  ASSUME IInv, Tree, Tree', Clock, Maps, Homes, ResultsAnswer, OneAnswer, OneAnswer', Gathers,
         NamesFree, CollectorsApart, NEW p \in DOMAIN fr, FrameStep(p) \/ HostStep(p), wf' = wf
  PROVE  Gathers'
<1>1. Nodes' = Nodes /\ CallMaps' = CallMaps
  BY DEF Nodes, CallMaps, EntryIds, Entrypoint
<1> SUFFICES ASSUME NEW id \in CallMaps, NEW e \in events', e.kind = "MapCompleted",
                    e.lane = RootLane(id), NEW n, n = nodeIo'[RootLane(id)].attempted
             PROVE  Gathered(id, n)'
  BY <1>1 DEF Gathers, OnLane, Of, Gathered
<1>2. CASE e \notin events
  <2>1. MapEnd(p) /\ GatePassed(p) /\ Lane(p) = RootLane(id)
    BY <1>2, ClosingSteps, StepNews
  <2>2. Longer /\ ResultsTold
    BY DEF Maps
  <2> QED
    BY <1>1, <2>1, <2>2, MapEndGathers
<1>3. CASE e \in events
  <2>1. nodeIo'[RootLane(id)] = nodeIo[RootLane(id)]
    BY <1>3, SignalKept
  <2>2. Gathered(id, n)
    BY <1>3, <2>1 DEF Gathers, OnLane, Of
  <2> QED
    BY <1>1, <1>3, <2>2, GatheredKept
<1> QED
  BY <1>2, <1>3

-----------------------------------------------------------------------------
(* Every run that collects                                                 *)

LEMMA StepCollects ==
  ASSUME IInv, Tree, Clock, Lanes(fr), Maps, Collects, NamesFree, CollectorsApart,
         IInv', Tree', Lanewise', NEW p \in DOMAIN fr, FrameStep(p) \/ HostStep(p), wf' = wf
  PROVE  Collects'
<1>1. /\ Homes /\ OneAnswer /\ CallsAnswer /\ ItemsAnswer /\ ResultsAnswer /\ Gathers
      /\ Kin /\ Longer /\ NodesStarted
  BY DEF Collects, Maps
<1>2. Homes'
  BY <1>1, HomesKept
<1>3. OneAnswer'
  BY <1>1, OneAnswerKept
<1>4. CallsAnswer'
  BY <1>1, CallsAnswerKept
<1>5. ItemsAnswer'
  BY <1>1, ItemsAnswerKept
<1>6. ResultsAnswer'
  BY <1>1, ResultsAnswerKept
<1>7. Gathers'
  BY <1>1, <1>3, GathersKept
<1> QED
  BY <1>2, <1>3, <1>4, <1>5, <1>6, <1>7 DEF Collects

LEMMA RunStepCollects ==
  ASSUME IInv, Tree, IInv', Tree', Lanewise', Collects, RunStep, wf' = wf PROVE Collects'
<1>1. /\ events \subseteq events'
      /\ \A e \in events' \ events : e.kind \in {"WorkflowFailed", "WorkflowCompleted"}
      /\ nodeIo' = nodeIo /\ leds' = leds /\ records' = records
  BY RunStepEmits DEF RunStep, EntryStart, EntryEnd, EntriesExhausted, FinalStart, FinalEnd, Settle,
     store
<1>2. /\ Started' = Started /\ Of("MapCompleted")' = Of("MapCompleted")
      /\ Of("MapItemCompleted")' = Of("MapItemCompleted")
  BY <1>1 DEF Of, Started
<1>3. \A q \in DOMAIN fr' : q = Body(Root) /\ fr'[q].st = "new"
  BY RunStepFrames
<1>4. Homes'
  <2>1. fr' = <<>> \/ \E id : fr' = RunNode(id)
    BY DEF RunStep, EntryStart, EntryEnd, EntriesExhausted, FinalStart, FinalEnd, Settle, Tree
  <2>2. ASSUME Live' PROVE (Lane(Body(Root)) = RootLane(fr[Body(Root)].node))'
    <3>1. PICK id : fr' = RunNode(id)
      BY <2>1, <2>2 DEF Live
    <3>2. fr'[Body(Root)].node = id /\ fr'[Body(Root)].path = Child(Root, id) /\ fr'[Body(Root)].iter = 0
      BY <3>1, RunNodeFrame
    <3> QED
      BY <3>2 DEF Lane, RootLane
  <2>3. \A i \in Nat : Body(Root) # Kid(Body(Root), i)
    BY RootPosition, KidPosition
  <2> QED
    BY <1>3, <2>2, <2>3 DEF Homes
<1>5. OneAnswer'
  <2> SUFFICES ASSUME NEW q \in DOMAIN fr', NEW r \in records', NEW l, l = Lane(q)', r.lane = l
               PROVE  FALSE
    BY <1>1, <1>2, <1>3 DEF Collects, OneAnswer
  <2>1. PICK d \in Started' : d.lane = r.lane
    BY <1>1, <1>2 DEF Collects, OneAnswer
  <2> QED
    BY <1>3, <2>1, FreshStart
<1>6. CallsAnswer' /\ ItemsAnswer' /\ ResultsAnswer'
  BY <1>3 DEF CallsAnswer, ItemsAnswer, ResultsAnswer, At
<1>7. Gathers'
  BY <1>1, <1>2 DEF Collects, Gathers, Gathered, AnswerAt, OnLane, CallMaps, EntryIds, Entrypoint,
     Nodes, RootLed
<1> QED
  BY <1>4, <1>5, <1>6, <1>7 DEF Collects

LEMMA CollectsInit == Init => Collects
<1> SUFFICES ASSUME Init PROVE Collects
  OBVIOUS
<1>1. DOMAIN fr = {} /\ records = {} /\ \A e \in events : e.kind = "WorkflowStarted"
  BY DEF Init, StartEvents
<1>2. Homes /\ OneAnswer /\ CallsAnswer /\ ItemsAnswer /\ ResultsAnswer
  BY <1>1 DEF Homes, OneAnswer, CallsAnswer, ItemsAnswer, ResultsAnswer, Live, At
<1>3. Gathers
  BY <1>1 DEF Gathers, OnLane, Of
<1> QED
  BY <1>2, <1>3 DEF Collects

LEMMA CollectsStutter == ASSUME Collects, UNCHANGED vars PROVE Collects'
<1>1. UNCHANGED <<wf, events, records, fr, leds, nodeIo>>
  BY DEF vars
<1>2. Homes'
  BY <1>1 DEF Collects, Homes, Noded, Inner, Nodes, Live, Lane, RootLane, Def
<1>3. OneAnswer'
  BY <1>1 DEF Collects, OneAnswer, Started, Of, Noded, Lane
<1>4. CallsAnswer' /\ ItemsAnswer'
  BY <1>1 DEF Collects, CallsAnswer, ItemsAnswer, Answered, Asks, Nodes, Lane
<1>5. ResultsAnswer'
  BY <1>1 DEF Collects, ResultsAnswer, Answered, Asks, Nodes, Lane, ItemLane, At
<1>6. Gathers'
  BY <1>1 DEF Collects, Gathers, Gathered, AnswerAt, OnLane, Of, CallMaps, EntryIds, Entrypoint,
     Nodes, RootLed
<1> QED
  BY <1>2, <1>3, <1>4, <1>5, <1>6 DEF Collects

\* Under the same conditions, and when a map of the entrypoint is run by
\* Runner::run alone, stores into a slot of its own and no loop binds its items
\* under that name: once such a map of single calls has completed, position i
\* of what it collected is the answer recorded for item i, null if that item
\* failed, in every workflow, whatever the order in which the answers came.
THEOREM CollectsInOrder ==
  Spec /\ []SessionsDiffer /\ []EntriesDiffer /\ []LoopsApart /\ []NamesFree /\ []CollectorsApart
    => []CollectedInItemOrder
<1>1. ASSUME IInv, Tree, Books, Calls, Maps, Collects, NamesFree, CollectorsApart,
             IInv', Tree', Lanewise', [Next]_vars
      PROVE  Collects'
  <2>1. CASE UNCHANGED vars
    BY <1>1, <2>1, CollectsStutter
  <2>2. ASSUME NEW p \in DOMAIN fr, FrameStep(p) \/ HostStep(p), wf' = wf PROVE Collects'
    BY <1>1, <2>2, StepCollects DEF Books, Calls
  <2>3. CASE RunStep /\ wf' = wf
    BY <1>1, <2>3, RunStepCollects
  <2> QED
    BY <1>1, <2>1, <2>2, <2>3 DEF Next, Progress, Returned
<1>2. Collects => CollectedInItemOrder
  BY DEF Collects, Gathers, Gathered, CollectedInItemOrder, RootLane, ItemLane
<1> QED
  BY <1>1, <1>2, CollectsInit, MapsInvariant, LanewiseInvariant, CallsInvariant, PTL DEF Spec

=============================================================================
