---------------------------- MODULE RunnerProofs ----------------------------
(***************************************************************************)
(* Proofs about the workflow runner, for every set of accepted workflows.  *)
(* First what the frames are and what steps emit, from which follows what  *)
(* a cancelled or terminated run no longer does.  Then the tree of its     *)
(* futures: what a position, its ledger and its path have to do with those *)
(* of the other futures that are alive.  From it follow structured         *)
(* concurrency and the isolation of the items of a map.                    *)
(*                                                                         *)
(* Last the books a run keeps: the logical clock, the permits of the       *)
(* limits, the events that must come in pairs, and the calls that are      *)
(* recorded.  From them follow that no limit is exceeded, that everything  *)
(* started is settled, the type invariant, and that a call is recorded at  *)
(* the very address at which it is announced.                              *)
(***************************************************************************)
EXTENDS RunnerProps, SequenceTheorems, FiniteSetTheorems, WellFoundedInduction, TLAPS

-----------------------------------------------------------------------------
(* Sound frames                                                            *)

FrameFields == {"kind", "node", "path", "iter", "led", "st", "k", "items", "res",
                "ret", "seq", "saved"}
RunFields == {"st", "k", "failure", "terminated", "status", "stop"}

\* A path below the root.
IsPath(path) == path \in Seq({path[i] : i \in 1 .. Len(path)}) /\ Len(path) > 0

\* A frame executes a node of the workflow, or is one of the futures that a map
\* or a session group makes for an item; it is on no path a met goal has closed.
Sound(f) ==
  /\ DOMAIN f = FrameFields
  /\ f.node \in DOMAIN Nodes
  /\ \/ f.kind = Nodes[f.node].kind
     \/ f.kind = "item" /\ Nodes[f.node].kind = "map"
     \/ f.kind = "session" /\ Nodes[f.node].kind = "session_group"
  /\ IsPath(f.path)
  /\ cancel => f.kind # "item"
  /\ run.terminated => f.path[1] = <<FinalizeNode>>

AllSound(F) == \A p \in DOMAIN F : Sound(F[p])

IInv ==
  /\ wf \in Workflows
  /\ DOMAIN run = RunFields /\ run.k \in Nat
  /\ run.terminated => run.st # "entry"
  /\ AllSound(fr)

-----------------------------------------------------------------------------
(* Paths                                                                   *)

LEMMA AppendPath ==
  ASSUME NEW path, IsPath(path), NEW x
  PROVE  IsPath(Append(path, x)) /\ Append(path, x)[1] = path[1]
<1> DEFINE S == {path[i] : i \in 1 .. Len(path)}
           q == Append(path, x)
           T == {q[i] : i \in 1 .. Len(q)}
<1>1. path \in Seq(S \cup {x}) /\ Len(path) \in Nat /\ Len(path) > 0
  BY DEF IsPath
<1>2. /\ Len(q) = Len(path) + 1 
      /\ \A i \in 1 .. Len(path) : q[i] = path[i]
      /\ q \in Seq(S \cup {x})
  BY <1>1
<1>3. q \in Seq(T)
  <2>1. SubSeq(q, 1, Len(q)) \in Seq(T)
    BY <1>1, <1>2, SubSeqProperties
  <2>2. SubSeq(q, 1, Len(q)) = q
    BY <1>2, SubSeqFull
  <2> QED
    BY <2>1, <2>2
<1>4. q[1] = path[1] /\ Len(q) > 0
  BY <1>1, <1>2
<1> QED
  BY <1>3, <1>4 DEF IsPath

LEMMA FirstPath == ASSUME NEW x PROVE IsPath(Append(Root, x)) /\ Append(Root, x)[1] = x
<1>1. Append(Root, x) = <<x>>
  BY DEF Root
<1>2. Len(<<x>>) = 1 /\ <<x>>[1] = x /\ <<x>> \in Seq({<<x>>[i] : i \in 1 .. 1})
  OBVIOUS
<1> QED
  BY <1>1, <1>2 DEF IsPath

-----------------------------------------------------------------------------
(* Functions of frames                                                     *)

\* Frames of G that are frames of F up to what Sound does not look at.
SameNodes(F, G) ==
  /\ DOMAIN G \subseteq DOMAIN F
  /\ \A p \in DOMAIN G :
       /\ DOMAIN G[p] = DOMAIN F[p]
       /\ G[p].kind = F[p].kind /\ G[p].node = F[p].node /\ G[p].path = F[p].path

LEMMA SameSound == ASSUME NEW F, NEW G, AllSound(F), SameNodes(F, G) PROVE AllSound(G)
BY DEF AllSound, Sound, SameNodes

LEMMA DoneSound == ASSUME NEW F, AllSound(F), NEW p, NEW r PROVE AllSound(Done(F, p, r))
<1>1. SameNodes(F, Done(F, p, r))
  BY DEF SameNodes, Done, AllSound, Sound, FrameFields
<1> QED
  BY <1>1, SameSound

LEMMA WithoutSound == ASSUME NEW F, AllSound(F), NEW P PROVE AllSound(Without(F, P))
BY DEF AllSound, Without

LEMMA PlusSound == ASSUME NEW F, NEW G, AllSound(F), AllSound(G) PROVE AllSound(Plus(F, G))
BY DEF AllSound, Plus

LEMMA PutSound == ASSUME NEW F, AllSound(F), NEW p, NEW f, Sound(f) PROVE AllSound(Put(F, p, f))
BY DEF AllSound, Put

LEMMA NodeFrameSound ==
  ASSUME wf \in Workflows, NEW id \in DOMAIN Nodes, NEW path, NEW iter, NEW led, IsPath(path),
         run.terminated => path[1] = <<FinalizeNode>>
  PROVE  Sound(NodeFrame(id, path, iter, led))
BY WorkflowAssumption DEF Sound, NodeFrame, Frame, FrameFields, Accepted, Kinds, Nodes

\* The body of a sound frame is sound, on a path below that of the frame or on
\* the path itself.
LEMMA EnterSound ==
  ASSUME wf \in Workflows, AllSound(fr), NEW p \in DOMAIN fr, NEW id \in DOMAIN Nodes,
         NEW path, NEW iter, NEW led, IsPath(path), path[1] = fr[p].path[1]
  PROVE  AllSound(Enter(p, id, path, iter, led))
<1> DEFINE G == [fr EXCEPT ![p].st = "body"]
<1>1. AllSound(G)
  <2>1. SameNodes(fr, G)
    BY DEF SameNodes, AllSound, Sound, FrameFields
  <2> QED
    BY <2>1, SameSound
<1>2. Sound(NodeFrame(id, path, iter, led))
  BY NodeFrameSound DEF AllSound, Sound
<1> QED
  BY <1>1, <1>2, PutSound DEF Enter

-----------------------------------------------------------------------------
(* What a step emits                                                       *)

\* What is emitted is on the lane of p, and starts no item once cancelled.
Quiet(p) ==
  /\ events \subseteq events'
  /\ \A e \in events' \ events : e.lane = Lane(p) /\ (cancel => e.kind # "MapItemStarted")

LEMMA EmitQuiet ==
  ASSUME NEW p, NEW es, Emit(Lane(p), es),
         cancel => \A i \in 1 .. Len(es) : es[i].kind # "MapItemStarted"
  PROVE  Quiet(p)
BY DEF Emit, Quiet

LEMMA StartQuiet == ASSUME NEW p, Start(p) PROVE Quiet(p)
BY EmitQuiet DEF Start, Ev

\* A node that completes says at most one thing more.
LEMMA CompleteQuiet ==
  ASSUME NEW p, NEW v, NEW es, Complete(p, es, v),
         es = <<>> \/ \E x : es = <<x>> /\ x.kind # "MapItemStarted"
  PROVE  Quiet(p)
<1> DEFINE all == es \o <<Ev("NodeCompleted")>>
<1>1. \A i \in 1 .. Len(all) : all[i].kind # "MapItemStarted"
  <2>1. CASE es = <<>>
    BY <2>1 DEF Ev
  <2>2. ASSUME NEW x, es = <<x>>, x.kind # "MapItemStarted"
        PROVE  \A i \in 1 .. Len(all) : all[i].kind # "MapItemStarted"
    <3> DEFINE y == Ev("NodeCompleted")
               S == {x, y}
    <3>1. <<x>> \in Seq(S) /\ Len(<<x>>) = 1 /\ <<y>> \in Seq(S) /\ Len(<<y>>) = 1
      OBVIOUS
    <3>2. Len(<<x>> \o <<y>>) = 2
          /\ \A i \in 1 .. 2 : (<<x>> \o <<y>>)[i] = IF i <= 1 THEN <<x>>[i] ELSE <<y>>[i - 1]
      <4> HIDE DEF y
      <4> QED
        BY <3>1, ConcatProperties
    <3>3. \A i \in 1 .. 2 : (<<x>> \o <<y>>)[i] \in {x, y}
      BY <3>2
    <3>4. y.kind # "MapItemStarted"
      BY DEF Ev
    <3> QED
      BY <2>2, <3>2, <3>3, <3>4
  <2> QED
    BY <2>1, <2>2
<1> QED
  BY <1>1, EmitQuiet DEF Complete

\* What a step at the frame p keeps: the frames sound, the run as it is.
Keeps(p) == AllSound(fr') /\ Quiet(p) /\ UNCHANGED <<cancel, run>>

LEMMA FailKeeps ==
  ASSUME AllSound(fr), NEW p, NEW e, StartFails(p, e) PROVE Keeps(p)
BY DoneSound, StartQuiet DEF StartFails, Keeps

LEMMA CompleteKeeps ==
  ASSUME AllSound(fr), NEW p, NEW v, NEW es, Complete(p, es, v), UNCHANGED <<cancel, run>>,
         es = <<>> \/ \E x : es = <<x>> /\ x.kind # "MapItemStarted"
  PROVE  Keeps(p)
BY DoneSound, CompleteQuiet DEF Complete, Keeps

LEMMA AlterKeeps ==
  ASSUME AllSound(fr), NEW p, SameNodes(fr, fr'), Quiet(p), UNCHANGED <<cancel, run>>
  PROVE  Keeps(p)
BY SameSound DEF Keeps

\* The body of a node that has one is a node, and so is the target of a branch.
LEMMA BodyNode ==
  ASSUME wf \in Workflows, NEW p, Sound(fr[p]),
         fr[p].kind \notin {"program", "actor", "branch"}
  PROVE  Def(p).body \in DOMAIN Nodes
BY WorkflowAssumption DEF Accepted, Sound, Def, Nodes, Kinds

LEMMA TargetNode ==
  ASSUME wf \in Workflows, NEW p, Sound(fr[p]), fr[p].kind = "branch", Target(p) # NoNode
  PROVE  Target(p) \in DOMAIN Nodes
BY WorkflowAssumption DEF Accepted, Sound, Def, Nodes, Kinds, Target

-----------------------------------------------------------------------------
(* Every step at a frame keeps frames sound and says what it may           *)

LEMMA CallStep ==
  ASSUME IInv, NEW p, Program(p) \/ ProgramFails(p) \/ ActorStart(p) \/ ActorUnresolved(p)
         \/ (\E v : ActorReplies(p, v)) \/ (\E e : ActorFails(p, e))
  PROVE  Keeps(p)
<1> USE DEF store, env, clock
<1>1. CASE Program(p)
  BY <1>1, CompleteKeeps DEF IInv, Program, Ev
<1>2. CASE ProgramFails(p) \/ ActorUnresolved(p)
  BY <1>2, FailKeeps DEF IInv, ProgramFails, ActorUnresolved
<1>3. CASE ActorStart(p)
  <2>1. SameNodes(fr, fr')
    BY <1>3 DEF ActorStart, SameNodes, IInv, AllSound, Sound, FrameFields
  <2> QED
    BY <1>3, <2>1, AlterKeeps, StartQuiet DEF ActorStart, IInv
<1>4. ASSUME NEW v, ActorReplies(p, v) PROVE Keeps(p)
  <2>1. CASE Stores(Def(p), v)
    BY <1>4, <2>1, CompleteKeeps DEF ActorReplies, IInv, EvPay
  <2>2. CASE ~Stores(Def(p), v)
    BY <1>4, <2>2, DoneSound DEF ActorReplies, IInv, Keeps, Quiet
  <2> QED
    BY <2>1, <2>2
<1>5. ASSUME NEW e, ActorFails(p, e) PROVE Keeps(p)
  BY <1>5, DoneSound DEF ActorFails, IInv, Keeps, Quiet
<1> QED
  BY <1>1, <1>2, <1>3, <1>4, <1>5

LEMMA FanStep ==
  ASSUME IInv, NEW p, MapStart(p) \/ Collect(p) \/ MapEnd(p) \/ ItemStart(p) \/ ItemEnd(p)
  PROVE  Keeps(p)
<1> USE DEF store, env, clock
<1>1. CASE MapStart(p)
  <2>1. CASE Prepared(p)
    <3>1. SameNodes(fr, fr')
      BY <1>1, <2>1 DEF MapStart, SameNodes, IInv, AllSound, Sound, FrameFields
    <3> QED
      BY <1>1, <2>1, <3>1, AlterKeeps, StartQuiet DEF MapStart, IInv
  <2>2. CASE ~Prepared(p)
    BY <1>1, <2>2, FailKeeps DEF MapStart, IInv
  <2> QED
    BY <2>1, <2>2
<1>2. CASE Collect(p)
  <2>1. PICK P, R : fr' = [Without(fr, P) EXCEPT ![p].res = R]
    BY <1>2 DEF Collect
  <2>2. AllSound(Without(fr, P))
    BY WithoutSound DEF IInv
  <2>3. SameNodes(Without(fr, P), fr')
    BY <2>1, <2>2 DEF SameNodes, AllSound, Sound, FrameFields
  <2>4. AllSound(fr')
    BY <2>2, <2>3, SameSound
  <2> QED
    BY <1>2, <2>4 DEF Collect, Keeps, Quiet
<1>3. CASE MapEnd(p)
  <2>1. CASE GatePassed(p)
    BY <1>3, <2>1, CompleteKeeps DEF MapEnd, IInv, EvPay
  <2>2. CASE ~GatePassed(p)
    BY <1>3, <2>2, DoneSound DEF MapEnd, IInv, Keeps, Quiet
  <2> QED
    BY <2>1, <2>2
<1>4. CASE ItemStart(p)
  <2>1. p \in DOMAIN fr /\ Sound(fr[p]) /\ fr[p].kind = "item"
    BY <1>4 DEF ItemStart, At, IInv, AllSound
  <2>2. ~cancel
    BY <2>1 DEF Sound
  <2>3. Quiet(p)
    BY <1>4, <2>2, EmitQuiet DEF ItemStart
  <2>4. AllSound(fr')
    BY <1>4, <2>1, BodyNode, EnterSound DEF ItemStart, IInv, Sound
  <2> QED
    BY <1>4, <2>3, <2>4 DEF ItemStart, Keeps
<1>5. CASE ItemEnd(p)
  <2>1. Quiet(p)
    BY <1>5, EmitQuiet DEF ItemEnd, Ev, EvPay
  <2>2. AllSound(fr')
    BY <1>5, DoneSound, WithoutSound DEF ItemEnd, IInv
  <2> QED
    BY <1>5, <2>1, <2>2 DEF ItemEnd, Keeps
<1> QED
  BY <1>1, <1>2, <1>3, <1>4, <1>5

\* Futures are made for the items of a map, and not once it is cancelled.
LEMMA DispatchStep == ASSUME IInv, NEW p, Dispatch(p) PROVE Keeps(p)
<1> USE DEF clock, env
<1>1. p \in DOMAIN fr /\ Sound(fr[p]) /\ fr[p].kind = "map" /\ ~cancel
  BY DEF Dispatch, At, Stopping, IInv, AllSound
<1> DEFINE hi == Smaller(fr[p].k + Width(Def(p)), Len(fr[p].items))
           K == {Kid(p, i) : i \in fr[p].k + 1 .. hi}
           kids == [q \in K |-> Frame("item", fr[p].node, Index(fr[p].path, q[Len(q)] - 1),
                                      fr[p].iter, q)]
<1>2. fr' = Plus([fr EXCEPT ![p].k = hi], kids)
  BY DEF Dispatch
<1> HIDE DEF hi, K
<1>3. AllSound([fr EXCEPT ![p].k = hi])
  <2>1. SameNodes(fr, [fr EXCEPT ![p].k = hi])
    BY DEF SameNodes, IInv, AllSound, Sound, FrameFields
  <2> QED
    BY <2>1, SameSound DEF IInv
<1>4. \A i, q : Sound(Frame("item", fr[p].node, Index(fr[p].path, i), fr[p].iter, q))
  BY <1>1, AppendPath DEF Sound, Frame, FrameFields, Index
<1>5. AllSound(kids)
  BY <1>4 DEF AllSound
<1>6. AllSound(fr')
  BY <1>2, <1>3, <1>5, PlusSound
<1> QED
  BY <1>6 DEF Dispatch, Keeps, Quiet

LEMMA PassEndKeeps ==
  ASSUME IInv, NEW p, LoopOn(p) \/ BodyFails(p) PROVE AllSound(fr')
<1>1. CASE LoopOn(p)
  <2> DEFINE F == Without(fr, {Body(p)})
             r == fr[Body(p)].ret
  <2>1. AllSound(F)
    BY WithoutSound DEF IInv
  <2>2. fr' = [F EXCEPT ![p].st = "loop", ![p].ret = r]
    BY <1>1 DEF LoopOn
  <2> HIDE DEF F, r
  <2>3. SameNodes(F, fr')
    BY <2>1, <2>2 DEF SameNodes, AllSound, Sound, FrameFields
  <2> QED
    BY <2>1, <2>3, SameSound
<1>2. CASE BodyFails(p)
  BY <1>2, DoneSound, WithoutSound DEF BodyFails, IInv
<1> QED
  BY <1>1, <1>2

\* Counting the pass, and saving the bindings it shadows, changes no node.
LEMMA CountedSound ==
  ASSUME NEW F, AllSound(F), NEW p
  PROVE  /\ AllSound([F EXCEPT ![p].k = @ + 1])
         /\ \A l : AllSound([F EXCEPT ![p].k = @ + 1, ![p].saved = l])
<1>1. SameNodes(F, [F EXCEPT ![p].k = @ + 1])
  BY DEF SameNodes, AllSound, Sound, FrameFields
<1>2. ASSUME NEW l PROVE SameNodes(F, [F EXCEPT ![p].k = @ + 1, ![p].saved = l])
  BY DEF SameNodes, AllSound, Sound, FrameFields
<1> QED
  BY <1>1, <1>2, SameSound

LEMMA LoopStep ==
  ASSUME IInv, NEW p,
         ForEachStart(p) \/ ForEachNext(p) \/ ForEachItemEnd(p) \/ ForEachEnd(p)
         \/ WhileStart(p) \/ WhilePass(p) \/ WhilePassEnd(p) \/ WhileEnd(p)
         \/ WhileUnresolved(p)
  PROVE  Keeps(p)
<1> USE DEF store, env, clock
<1>1. CASE ForEachStart(p)
  <2>1. CASE IsArray(Led(p), Def(p).src)
    <3>1. SameNodes(fr, fr')
      BY <1>1, <2>1 DEF ForEachStart, SameNodes, IInv, AllSound, Sound, FrameFields
    <3> QED
      BY <1>1, <2>1, <3>1, AlterKeeps, StartQuiet DEF ForEachStart, IInv
  <2>2. CASE ~IsArray(Led(p), Def(p).src)
    BY <1>1, <2>2, FailKeeps DEF ForEachStart, IInv
  <2> QED
    BY <2>1, <2>2
<1>3. CASE ForEachNext(p)
  <2>1. p \in DOMAIN fr /\ Sound(fr[p]) /\ fr[p].kind = "for_each"
    BY <1>3 DEF ForEachNext, At, IInv, AllSound
  <2>2. Def(p).body \in DOMAIN Nodes
    BY <2>1, BodyNode DEF IInv
  <2>3. IsPath(Index(fr[p].path, fr[p].k)) /\ Index(fr[p].path, fr[p].k)[1] = fr[p].path[1]
    BY <2>1, AppendPath DEF Index, Sound
  <2> DEFINE F == Enter(p, Def(p).body, Index(fr[p].path, fr[p].k), fr[p].iter, fr[p].led)
  <2>4. AllSound(F)
    BY <2>1, <2>2, <2>3, EnterSound DEF IInv
  <2>5. AllSound(fr')
    BY <1>3, <2>4, CountedSound DEF ForEachNext
  <2> QED
    BY <1>3, <2>5 DEF ForEachNext, Keeps, Quiet
<1>4. CASE ForEachItemEnd(p)
  BY <1>4, PassEndKeeps DEF ForEachItemEnd, Keeps, Quiet
<1>5. CASE ForEachEnd(p)
  BY <1>5, CompleteKeeps DEF ForEachEnd, IInv
<1>6. CASE WhileStart(p)
  <2>1. SameNodes(fr, fr')
    BY <1>6 DEF WhileStart, SameNodes, IInv, AllSound, Sound, FrameFields
  <2> QED
    BY <1>6, <2>1, AlterKeeps, StartQuiet DEF WhileStart, IInv
<1>7. CASE WhilePass(p)
  <2>1. p \in DOMAIN fr /\ Sound(fr[p]) /\ fr[p].kind = "while"
    BY <1>7 DEF WhilePass, At, IInv, AllSound
  <2>2. Def(p).body \in DOMAIN Nodes
    BY <2>1, BodyNode DEF IInv
  <2>3. /\ IsPath(Child(fr[p].path, "body"))
        /\ Child(fr[p].path, "body")[1] = fr[p].path[1]
    BY <2>1, AppendPath DEF Child, Sound
  <2> DEFINE F == Enter(p, Def(p).body, Child(fr[p].path, "body"), PassIteration(p),
                        fr[p].led)
  <2>4. AllSound(F)
    BY <2>1, <2>2, <2>3, EnterSound DEF IInv
  <2>5. AllSound(fr')
    BY <1>7, <2>4, CountedSound DEF WhilePass
  <2> QED
    BY <1>7, <2>5 DEF WhilePass, Keeps, Quiet
<1>8. CASE WhilePassEnd(p)
  BY <1>8, PassEndKeeps DEF WhilePassEnd, Keeps, Quiet
<1>9. CASE WhileEnd(p)
  BY <1>9, CompleteKeeps DEF WhileEnd, IInv
<1>10. CASE WhileUnresolved(p)
  BY <1>10, DoneSound DEF WhileUnresolved, IInv, Keeps, Quiet
<1> QED
  BY <1>1, <1>3, <1>4, <1>5, <1>6, <1>7, <1>8, <1>9, <1>10

LEMMA BranchStep ==
  ASSUME IInv, NEW p, BranchStart(p) \/ BranchUnresolved(p) \/ PassOn(p)
  PROVE  Keeps(p)
<1> USE DEF store, env, clock
<1>1. CASE BranchStart(p) /\ Target(p) = NoNode
  BY <1>1, CompleteKeeps DEF BranchStart, IInv, Ev
<1>2. CASE BranchStart(p) /\ Target(p) # NoNode
  <2>1. p \in DOMAIN fr /\ Sound(fr[p]) /\ fr[p].kind = "branch"
    BY <1>2 DEF BranchStart, At, IInv, AllSound
  <2>2. Target(p) \in DOMAIN Nodes
    BY <1>2, <2>1, TargetNode DEF IInv
  <2>3. /\ IsPath(Child(fr[p].path, Target(p)))
        /\ Child(fr[p].path, Target(p))[1] = fr[p].path[1]
    BY <2>1, AppendPath DEF Child, Sound
  <2>4. AllSound(fr')
    BY <1>2, <2>1, <2>2, <2>3, EnterSound DEF BranchStart, IInv
  <2> QED
    BY <1>2, <2>4, StartQuiet DEF BranchStart, Keeps
<1>3. CASE BranchUnresolved(p)
  BY <1>3, FailKeeps DEF BranchUnresolved, IInv
<1>4. CASE PassOn(p)
  <2>1. CASE BodyFails(p) /\ UNCHANGED clock
    BY <1>4, <2>1, PassEndKeeps DEF PassOn, Keeps, Quiet
  <2>2. CASE /\ Emit(Lane(p), <<Ev("NodeCompleted")>>)
             /\ fr' = Done(Without(fr, {Body(p)}), p, fr[Body(p)].ret)
    <3>1. Quiet(p)
      BY <2>2, EmitQuiet DEF Ev
    <3>2. AllSound(fr')
      BY <2>2, DoneSound, WithoutSound DEF IInv
    <3> QED
      BY <1>4, <3>1, <3>2 DEF PassOn, Keeps
  <2> QED
    BY <1>4, <2>1, <2>2 DEF PassOn
<1> QED
  BY <1>1, <1>2, <1>3, <1>4

LEMMA ResumeStep ==
  ASSUME IInv, NEW p, ResumeStart(p) \/ (\E v : ResumeLoaded(p, v)) \/ (\E e : LoadFails(p, e))
  PROVE  Keeps(p)
<1> USE DEF store, env, clock
<1>1. CASE ResumeStart(p)
  <2>1. CASE Resolves(Led(p), Def(p).src)
    <3>1. SameNodes(fr, fr')
      BY <1>1, <2>1 DEF ResumeStart, SameNodes, IInv, AllSound, Sound, FrameFields
    <3> QED
      BY <1>1, <2>1, <3>1, AlterKeeps, StartQuiet DEF ResumeStart, IInv
  <2>2. CASE ~Resolves(Led(p), Def(p).src)
    BY <1>1, <2>2, FailKeeps DEF ResumeStart, IInv
  <2> QED
    BY <2>1, <2>2
<1>2. ASSUME NEW v, ResumeLoaded(p, v) PROVE Keeps(p)
  <2>1. p \in DOMAIN fr /\ Sound(fr[p]) /\ fr[p].kind = "resume_session"
    BY <1>2 DEF ResumeLoaded, At, IInv, AllSound
  <2>2. Def(p).body \in DOMAIN Nodes
    BY <2>1, BodyNode DEF IInv
  <2>3. /\ IsPath(Child(fr[p].path, "body"))
        /\ Child(fr[p].path, "body")[1] = fr[p].path[1]
    BY <2>1, AppendPath DEF Child, Sound
  <2>4. AllSound(fr')
    BY <1>2, <2>1, <2>2, <2>3, EnterSound DEF ResumeLoaded, IInv
  <2>5. Quiet(p)
    BY <1>2, EmitQuiet DEF ResumeLoaded, Ev
  <2> QED
    BY <1>2, <2>4, <2>5 DEF ResumeLoaded, Keeps
<1>3. ASSUME NEW e, LoadFails(p, e) PROVE Keeps(p)
  BY <1>3, DoneSound DEF LoadFails, IInv, Keeps, Quiet
<1> QED
  BY <1>1, <1>2, <1>3

\* A session enters its body below its own path.
LEMMA EnterSessionSound ==
  ASSUME IInv, NEW p \in DOMAIN fr, fr[p].kind = "session" PROVE AllSound(EnterSession(p))
<1>1. Sound(fr[p])
  BY DEF IInv, AllSound
<1>2. Def(p).body \in DOMAIN Nodes
  BY <1>1, BodyNode DEF IInv
<1>3. /\ IsPath(Child(fr[p].path, "body"))
      /\ Child(fr[p].path, "body")[1] = fr[p].path[1]
  BY <1>1, AppendPath DEF Child, Sound
<1> QED
  BY <1>2, <1>3, EnterSound DEF IInv, EnterSession

LEMMA SessionStep ==
  ASSUME IInv, NEW p, SessionStart(p) \/ SessionAcquire(p) \/ SessionEnd(p) \/ GroupJoin(p)
  PROVE  Keeps(p)
<1> USE DEF store, env, clock
<1>1. CASE SessionStart(p)
  <2>1. p \in DOMAIN fr /\ fr[p].kind = "session"
    BY <1>1 DEF SessionStart, At
  <2>2. AllSound([fr EXCEPT ![p].st = "acquire"])
    <3>1. SameNodes(fr, [fr EXCEPT ![p].st = "acquire"])
      BY DEF SameNodes, IInv, AllSound, Sound, FrameFields
    <3> QED
      BY <3>1, SameSound DEF IInv
  <2>3. AllSound(fr')
    BY <1>1, <2>1, <2>2, EnterSessionSound DEF SessionStart
  <2>4. Quiet(p)
    BY <1>1, EmitQuiet DEF SessionStart, Ev
  <2> QED
    BY <1>1, <2>3, <2>4 DEF SessionStart, Keeps
<1>2. CASE SessionAcquire(p)
  <2>1. AllSound(fr')
    BY <1>2, EnterSessionSound DEF SessionAcquire, At
  <2>2. Quiet(p)
    BY <1>2, EmitQuiet DEF SessionAcquire, EvPay
  <2> QED
    BY <1>2, <2>1, <2>2 DEF SessionAcquire, Keeps
<1>3. CASE SessionEnd(p)
  <2>1. AllSound(fr')
    BY <1>3, DoneSound, WithoutSound DEF SessionEnd, IInv
  <2>2. Quiet(p)
    <3>1. CASE Def(p).limit = NoLimit
      BY <1>3, <3>1 DEF SessionEnd, Quiet
    <3>2. CASE Def(p).limit # NoLimit
      BY <1>3, <3>2, EmitQuiet DEF SessionEnd, Release, ReleaseAnnounced, EvPay
    <3> QED
      BY <3>1, <3>2
  <2> QED
    BY <1>3, <2>1, <2>2 DEF SessionEnd, Keeps
<1>4. CASE GroupJoin(p)
  <2>1. PICK P, r : fr' = Done(Without(fr, P), p, r)
    BY <1>4 DEF GroupJoin
  <2>2. AllSound(fr')
    BY <2>1, DoneSound, WithoutSound DEF IInv
  <2>3. Quiet(p)
    <3>1. CASE Emit(Lane(p), <<Ev("NodeCompleted")>>)
      BY <3>1, EmitQuiet DEF Ev
    <3>2. CASE UNCHANGED clock
      BY <3>2 DEF Quiet
    <3> QED
      BY <1>4, <3>1, <3>2 DEF GroupJoin
  <2> QED
    BY <1>4, <2>2, <2>3 DEF GroupJoin, Keeps
<1> QED
  BY <1>1, <1>2, <1>3, <1>4

LEMMA GroupStep == ASSUME IInv, NEW p, GroupStart(p) PROVE Keeps(p)
<1> USE DEF store, env, clock
<1>1. p \in DOMAIN fr /\ Sound(fr[p]) /\ fr[p].kind = "session_group"
  BY DEF GroupStart, At, IInv, AllSound
<1>2. CASE IsArray(Led(p), Def(p).src)
  <2> DEFINE items == Led(p)[Def(p).src]
             K == {Kid(p, i) : i \in 1 .. Len(items)}
             kids == [q \in K |-> Frame("session", fr[p].node, SessionPath(p, q[Len(q)]), 0, q)]
  <2>1. fr' = Plus([fr EXCEPT ![p].st = "join", ![p].items = items], kids) /\ Start(p)
    BY <1>2 DEF GroupStart
  <2> HIDE DEF items, K
  <2>2. AllSound([fr EXCEPT ![p].st = "join", ![p].items = items])
    <3>1. SameNodes(fr, [fr EXCEPT ![p].st = "join", ![p].items = items])
      BY DEF SameNodes, IInv, AllSound, Sound, FrameFields
    <3> QED
      BY <3>1, SameSound DEF IInv
  <2>3. \A i, q : Sound(Frame("session", fr[p].node, SessionPath(p, i), 0, q))
    BY <1>1, AppendPath DEF Sound, Frame, FrameFields, SessionPath, Child
  <2>4. AllSound(kids)
    BY <2>3 DEF AllSound
  <2>5. AllSound(fr')
    BY <2>1, <2>2, <2>4, PlusSound
  <2> QED
    BY <1>2, <2>1, <2>5, StartQuiet DEF GroupStart, Keeps
<1>3. CASE ~IsArray(Led(p), Def(p).src)
  BY <1>3, FailKeeps DEF GroupStart, IInv
<1> QED
  BY <1>2, <1>3

LEMMA FrameStepKeeps ==
  ASSUME IInv, NEW p, FrameStep(p) \/ HostStep(p) PROVE Keeps(p)
<1>1. ASSUME FrameStep(p) PROVE Keeps(p)
  BY <1>1, CallStep, FanStep, DispatchStep, LoopStep, BranchStep, ResumeStep, SessionStep,
     GroupStep DEF FrameStep
<1>2. ASSUME HostStep(p) PROVE Keeps(p)
  BY <1>2, CallStep, ResumeStep DEF HostStep
<1> QED
  BY <1>1, <1>2

-----------------------------------------------------------------------------
(* The invariant                                                           *)

LEMMA InvInit == Init => IInv
BY DEF Init, IInv, StartRun, RunFields, AllSound

\* Frames sound for the run before a step are sound after it, if the step
\* leaves alone what soundness depends on.
LEMMA SoundAfter ==
  ASSUME AllSound(fr'), UNCHANGED <<wf, cancel>>, run'.terminated = run.terminated
  PROVE  AllSound(fr)'
BY DEF AllSound, Sound, Nodes, FinalizeNode

LEMMA RunStepInv == ASSUME IInv, RunStep, UNCHANGED wf PROVE IInv'
<1> USE DEF IInv, RunFields
<1>1. CASE EntryStart
  <2>1. Entrypoint \in Seq(DOMAIN Nodes)
    BY WorkflowAssumption DEF Accepted, Entrypoint, Nodes
  <2>2. Entrypoint[run.k + 1] \in DOMAIN Nodes
    BY <1>1, <2>1 DEF EntryStart
  <2>3. ~run.terminated
    BY <1>1 DEF EntryStart
  <2> DEFINE f == NodeFrame(Entrypoint[run.k + 1],
                            Child(Root, Entrypoint[run.k + 1]), 0, Root)
  <2>4. Sound(f)
    BY <2>2, <2>3, FirstPath, NodeFrameSound DEF Child
  <2>5. AllSound(fr')
    BY <1>1, <2>4 DEF EntryStart, RunNode, Put, AllSound
  <2>6. run'.terminated = run.terminated /\ run'.k \in Nat /\ DOMAIN run' = RunFields
    BY <1>1 DEF EntryStart
  <2> QED
    BY <1>1, <2>3, <2>5, <2>6, SoundAfter DEF EntryStart
<1>2. CASE EntryEnd
  <2>1. AllSound(fr)'
    BY <1>2 DEF EntryEnd, AllSound
  <2>2. DOMAIN run' = RunFields /\ run'.k \in Nat /\ (run'.terminated => run'.st # "entry")
    BY <1>2 DEF EntryEnd, WindUp
  <2> QED
    BY <2>1, <2>2
<1>3. CASE EntriesExhausted
  BY <1>3, SoundAfter DEF EntriesExhausted
<1>4. CASE FinalStart
  <2>1. CASE FinalizeNode \in DOMAIN Nodes
    <3> DEFINE f == NodeFrame(FinalizeNode, Child(Root, FinalizeNode), 0, Root)
    <3>1. Sound(f)
      BY <2>1, FirstPath, NodeFrameSound DEF Child
    <3>2. AllSound(fr')
      BY <1>4, <2>1, <3>1 DEF FinalStart, RunNode, Put, AllSound
    <3> QED
      BY <1>4, <2>1, <3>2, SoundAfter DEF FinalStart
  <2>2. CASE FinalizeNode \notin DOMAIN Nodes
    BY <1>4, <2>2, SoundAfter DEF FinalStart
  <2> QED
    BY <2>1, <2>2
<1>5. CASE FinalEnd
  BY <1>5 DEF FinalEnd, AllSound
<1>6. CASE Settle
  BY <1>6, SoundAfter DEF Settle
<1> QED
  BY <1>1, <1>2, <1>3, <1>4, <1>5, <1>6 DEF RunStep

LEMMA InvStep == IInv /\ [Next]_vars => IInv'
<1> SUFFICES ASSUME IInv, [Next]_vars PROVE IInv'
  OBVIOUS
<1>1. CASE UNCHANGED vars
  <2>1. AllSound(fr')
    BY <1>1 DEF IInv, vars
  <2> QED
    BY <1>1, <2>1, SoundAfter DEF IInv, vars
<1>2. ASSUME NEW p \in DOMAIN fr, FrameStep(p) \/ HostStep(p), UNCHANGED wf PROVE IInv'
  BY <1>2, FrameStepKeeps, SoundAfter DEF IInv, Keeps
<1>3. CASE RunStep /\ UNCHANGED wf
  BY <1>3, RunStepInv
<1> QED
  BY <1>1, <1>2, <1>3 DEF Next, Progress, Returned

\* Frames stay sound, in every run of every accepted workflow.
LEMMA Invariant == Spec => []IInv
<1>1. Init => IInv
  BY InvInit
<1>2. IInv /\ [Next]_vars => IInv'
  BY InvStep
<1> QED
  BY <1>1, <1>2, PTL DEF Spec

-----------------------------------------------------------------------------
(* What a run may not start                                                *)

\* The steps of Runner::run itself emit nothing but the terminal event.
LEMMA RunStepEmits ==
  ASSUME RunStep
  PROVE  /\ events \subseteq events'
         /\ \A e \in events' \ events : e.kind \in {"WorkflowFailed", "WorkflowCompleted"}
<1> USE DEF clock
<1>1. CASE Settle
  <2>1. PICK e : /\ Emit(<<Root, 0>>, <<e>>)
                 /\ e.kind \in {"WorkflowFailed", "WorkflowCompleted"}
    <3>1. StopReason \in {"node_failed", "goal_unmet", "completed"}
      BY DEF StopReason
    <3> QED
      BY <1>1, <3>1 DEF Settle, Ev, EvPay
  <2> QED
    BY <2>1 DEF Emit
<1>2. CASE EntryStart \/ EntryEnd \/ EntriesExhausted \/ FinalStart \/ FinalEnd
  BY <1>2 DEF EntryStart, EntryEnd, EntriesExhausted, FinalStart, FinalEnd
<1> QED
  BY <1>1, <1>2 DEF RunStep

\* What any step adds to the stream, given sound frames.
LEMMA StepEmits ==
  ASSUME IInv, [Next]_vars
  PROVE  /\ events \subseteq events'
         /\ \A e \in events' \ events :
              \/ e.kind \in {"WorkflowFailed", "WorkflowCompleted"}
              \/ \E p \in DOMAIN fr :
                   e.lane = Lane(p) /\ (cancel => e.kind # "MapItemStarted")
<1>1. CASE UNCHANGED vars
  BY <1>1 DEF vars
<1>2. ASSUME NEW p \in DOMAIN fr, FrameStep(p) \/ HostStep(p)
      PROVE  /\ events \subseteq events'
             /\ \A e \in events' \ events :
                  e.lane = Lane(p) /\ (cancel => e.kind # "MapItemStarted")
  BY <1>2, FrameStepKeeps DEF Keeps, Quiet
<1>3. CASE RunStep
  BY <1>3, RunStepEmits
<1> QED
  BY <1>1, <1>2, <1>3 DEF Next, Progress, Returned

\* What a met goal stops: with the cancel flag set no item of any map is started,
\* those of chunks that were planned before included; a run that has terminated
\* on its goals enters nothing but the finalize node and what lies below it.
THEOREM GoalsStopTheRun == Spec => MetGoalsStop
<1>1. ASSUME IInv, [Next]_vars, cancel
      PROVE  Of("MapItemStarted")' = Of("MapItemStarted")
  BY <1>1, StepEmits DEF Of
<1>2. ASSUME IInv, [Next]_vars, run.terminated, NEW e \in Of("NodeStarted")' \ Of("NodeStarted")
      PROVE  e.lane[1][1] = <<FinalizeNode>>
  <2>1. e \in events' \ events /\ e.kind = "NodeStarted"
    BY <1>2 DEF Of
  <2>2. PICK p \in DOMAIN fr : e.lane = Lane(p)
    BY <1>2, <2>1, StepEmits
  <2>3. fr[p].path[1] = <<FinalizeNode>>
    BY <1>2 DEF IInv, AllSound, Sound
  <2> QED
    BY <2>2, <2>3 DEF Lane
<1>3. IInv /\ [Next]_vars =>
        [/\ cancel => Of("MapItemStarted")' = Of("MapItemStarted")
         /\ run.terminated => \A e \in Of("NodeStarted")' \ Of("NodeStarted") :
                                e.lane[1][1] = <<FinalizeNode>>]_vars
  BY <1>1, <1>2
<1> QED
  BY <1>3, Invariant, PTL DEF Spec, MetGoalsStop

-----------------------------------------------------------------------------
(* The tree                                                                *)

Prefix(p, q) == Len(p) <= Len(q) /\ \A i \in 1 .. Len(p) : p[i] = q[i]
Apart(p, q) == ~Prefix(p, q) /\ ~Prefix(q, p)

\* The first step from Root is always 1: entrypoints run one after the other.
Position(q) == q \in Seq(Nat) /\ Len(q) > 0 /\ q[1] = 1

IsSeq(s) == s \in Seq({s[i] : i \in 1 .. Len(s)})

\* The children a frame has while it is in its state.
KidsOf(f) ==
  IF f.kind = "map" /\ f.st = "fan" THEN Len(f.res) + 1 .. f.k
  ELSE IF f.kind = "session_group" /\ f.st = "join" THEN 1 .. Len(f.items)
  ELSE IF f.st = "body" THEN {1}
  ELSE {}

OwnsLedger(f) ==
  \/ f.kind \in {"item", "session"}
  \/ f.kind = "map" /\ f.st = "fan"
  \/ f.kind = "resume_session" /\ f.st = "body"

Shaped(f) ==
  /\ f.st \in StatesOf(f.kind)
  /\ IsSeq(f.res) /\ f.k \in Nat /\ Len(f.items) \in Nat
  /\ f.st = "new" => f.k = 0
  /\ f.kind = "map" => Len(f.res) <= f.k /\ f.k <= Len(f.items)
  /\ DOMAIN f.ret = {"ok", "v"}

\* Below every frame are its children of the moment and what is below them;
\* nothing is alive whose ancestors are not.
Rooted(F) ==
  /\ \A q \in DOMAIN F : Position(q)
  /\ \A q \in DOMAIN F : \A n \in 1 .. Len(q) : SubSeq(q, 1, n) \in DOMAIN F
  /\ \A p, q \in DOMAIN F : Prefix(p, q) /\ p # q => q[Len(p) + 1] \in KidsOf(F[p])

\* A frame works on the ledger of a frame above it, its own if it is an item or
\* a session, which are children of maps and groups; below a map or a group that
\* is a ledger below it too, and frames of which none is above the other never
\* share one.
Ledgered(F) ==
  /\ \A p \in DOMAIN F : F[p].led \in Seq(Nat) /\ Prefix(F[p].led, p)
  /\ \A p \in DOMAIN F : F[p].led = p <=> F[p].kind \in {"item", "session"}
  /\ \A p, q \in DOMAIN F :
       Prefix(p, q) /\ Len(q) = Len(p) + 1 /\ F[q].kind \in {"item", "session"}
         => F[p].kind \in {"map", "session_group"}
  /\ \A p \in DOMAIN F : F[p].kind \in {"item", "session"} => Len(p) > 1
  /\ \A p, q \in DOMAIN F :
       Prefix(p, q) /\ p # q /\ F[p].kind \in {"map", "session_group"}
         => Len(p) < Len(F[q].led)
  /\ \A p, q \in DOMAIN F : Apart(p, q) => F[p].led # F[q].led

\* Frames of which none is above the other are on paths of which none is a
\* prefix of the other.
Lanes(F) == \A p, q \in DOMAIN F : Apart(p, q) => Apart(F[p].path, F[q].path)

\* There is a ledger for the run and one for every frame that owns one, and no
\* frame works on one that is gone.
LiveLedgers(F, L) ==
  /\ \A o : o \in DOMAIN L <=> o = Root \/ (o \in DOMAIN F /\ OwnsLedger(F[o]))
  /\ \A p \in DOMAIN F : F[p].led \in DOMAIN L
  /\ \A o \in DOMAIN L : DOMAIN L[o] = Slot

Tree ==
  /\ \A p \in DOMAIN fr : Shaped(fr[p])
  /\ Rooted(fr)
  /\ Ledgered(fr)
  /\ LiveLedgers(fr, leds)
  /\ run.st \in {"entry", "final", "settle", "done"}
  /\ run.st \in {"settle", "done"} => fr = <<>>
  /\ run.k <= Len(Entrypoint)

-----------------------------------------------------------------------------
(* Positions                                                               *)

LEMMA PositionLen == ASSUME NEW p, Position(p) PROVE Len(p) \in Nat /\ Len(p) >= 1
BY DEF Position

LEMMA KidPosition ==
  ASSUME NEW p, Position(p), NEW i \in Nat
  PROVE  /\ Position(Kid(p, i)) /\ Len(Kid(p, i)) = Len(p) + 1
         /\ Kid(p, i)[Len(p) + 1] = i
         /\ \A j \in 1 .. Len(p) : Kid(p, i)[j] = p[j]
         /\ Prefix(p, Kid(p, i)) /\ Kid(p, i) # p
BY AppendProperties DEF Position, Kid, Prefix

\* What is above a child is the child or above its parent.
LEMMA AboveKid ==
  ASSUME NEW p, Position(p), NEW i \in Nat, NEW q, Position(q), Prefix(q, Kid(p, i))
  PROVE  q = Kid(p, i) \/ Prefix(q, p)
<1>1. CASE Len(q) <= Len(p)
  BY <1>1, KidPosition DEF Prefix, Position
<1>2. CASE Len(q) = Len(p) + 1
  BY <1>2, KidPosition, SeqEqual DEF Prefix, Position
<1> QED
  BY <1>1, <1>2, KidPosition DEF Prefix, Position

LEMMA PrefixOfKid ==
  ASSUME NEW p, Position(p), NEW i \in Nat, NEW q, Position(q), Prefix(q, p)
  PROVE  Prefix(q, Kid(p, i)) /\ q # Kid(p, i)
BY KidPosition DEF Prefix, Position

LEMMA KidsApart ==
  ASSUME NEW p, Position(p), NEW i \in Nat, NEW j \in Nat, i # j
  PROVE  Apart(Kid(p, i), Kid(p, j)) /\ Kid(p, i) # Kid(p, j)
BY KidPosition DEF Prefix, Apart, Position

\* The prefix of a position of a given length.
LEMMA CutPosition ==
  ASSUME NEW q, Position(q), NEW n \in 1 .. Len(q)
  PROVE  /\ Position(SubSeq(q, 1, n)) /\ Len(SubSeq(q, 1, n)) = n
         /\ \A i \in 1 .. n : SubSeq(q, 1, n)[i] = q[i]
         /\ Prefix(SubSeq(q, 1, n), q)
<1>1. q \in Seq(Nat) /\ Len(q) \in Nat /\ n \in Nat /\ n >= 1
  BY DEF Position
<1>2. \A i \in 1 .. n : q[i] \in Nat
  BY <1>1, ElementOfSeq
<1> QED
  BY <1>1, <1>2, SubSeqProperties DEF Position, Prefix

LEMMA PrefixIsCut ==
  ASSUME NEW p, Position(p), NEW q, Position(q), Prefix(p, q)
  PROVE  p = SubSeq(q, 1, Len(p)) /\ Len(p) \in 1 .. Len(q)
<1>1. Len(p) \in 1 .. Len(q)
  BY DEF Position, Prefix
<1> DEFINE c == SubSeq(q, 1, Len(p))
<1>2. Position(c) /\ Len(c) = Len(p) /\ \A i \in 1 .. Len(p) : c[i] = q[i]
  BY <1>1, CutPosition
<1> HIDE DEF c
<1>3. p = c
  BY <1>2, SeqEqual DEF Position, Prefix
<1> QED
  BY <1>1, <1>3 DEF c

LEMMA CutOfKid ==
  ASSUME NEW p, Position(p), NEW i \in Nat, NEW n \in 1 .. Len(p)
  PROVE  SubSeq(Kid(p, i), 1, n) = SubSeq(p, 1, n)
<1> DEFINE c == SubSeq(p, 1, n)
<1>1. Position(c) /\ Len(c) = n /\ Prefix(c, p)
  BY CutPosition
<1> HIDE DEF c
<1>2. Prefix(c, Kid(p, i)) /\ Position(Kid(p, i))
  BY <1>1, PrefixOfKid, KidPosition
<1> QED
  BY <1>1, <1>2, PrefixIsCut DEF c

LEMMA PrefixTrans ==
  ASSUME NEW p, NEW q, NEW r, Len(p) \in Nat, Len(q) \in Nat, Len(r) \in Nat,
         Prefix(p, q), Prefix(q, r)
  PROVE  Prefix(p, r)
BY DEF Prefix

\* Two prefixes of one sequence are not apart.
LEMMA PrefixesMeet ==
  ASSUME NEW p, NEW q, NEW r, Len(p) \in Nat, Len(q) \in Nat, Len(r) \in Nat,
         Prefix(p, r), Prefix(q, r)
  PROVE  ~Apart(p, q)
BY DEF Prefix, Apart

LEMMA PrefixAntisym ==
  ASSUME NEW p, Position(p), NEW q, Position(q), Prefix(p, q), Prefix(q, p)
  PROVE  p = q
BY SeqEqual DEF Prefix, Position

-----------------------------------------------------------------------------
(* How a step at p changes the tree                                        *)

SameNode(f, g) ==
  /\ DOMAIN g = DOMAIN f
  /\ g.kind = f.kind /\ g.node = f.node /\ g.path = f.path /\ g.iter = f.iter /\ g.led = f.led

\* The frame g is born as the i-th child of the frame f at p.
Born(p, i, f, g) ==
  /\ g.st = "new" /\ Shaped(g)
  /\ Prefix(f.path, g.path) /\ Len(g.path) \in Nat
  /\ f.kind \in {"map", "session_group"} <=> g.kind \in {"item", "session"}
  /\ g.led = Kid(p, i) <=> g.kind \in {"item", "session"}
  /\ g.led \in {f.led, p, Kid(p, i)}

\* The frame at p, which has no children, changes and may start some; L and M
\* are the ledgers before and after.
Grown(F, G, L, M, p) ==
  /\ p \in DOMAIN F /\ KidsOf(F[p]) = {}
  /\ KidsOf(G[p]) \subseteq Nat
  /\ \A q : q \in DOMAIN G <=> q \in DOMAIN F \/ \E i \in KidsOf(G[p]) : q = Kid(p, i)
  /\ \A q \in DOMAIN F : q # p => G[q] = F[q]
  /\ SameNode(F[p], G[p]) /\ Shaped(G[p])
  /\ \A i \in KidsOf(G[p]) :
       Born(p, i, F[p], G[Kid(p, i)]) /\ (G[Kid(p, i)].led = p => OwnsLedger(G[p]))
  /\ OwnsLedger(F[p]) => OwnsLedger(G[p])
  /\ \A o : o \in DOMAIN M <=> \/ o \in DOMAIN L
                               \/ o = p /\ OwnsLedger(G[p])
                               \/ o \in DOMAIN G \ DOMAIN F /\ OwnsLedger(G[o])
  /\ \A o \in DOMAIN L : o # F[p].led => M[o] = L[o]
  /\ \A o \in DOMAIN M : DOMAIN M[o] = Slot

\* The frame at p, whose children are all done, changes and they disappear.
Reaped(F, G, L, M, p) ==
  /\ p \in DOMAIN F /\ KidsOf(G[p]) = {}
  /\ KidsOf(F[p]) \subseteq Nat
  /\ \A i \in KidsOf(F[p]) : Kid(p, i) \in DOMAIN F /\ F[Kid(p, i)].st = "done"
  /\ \A q : q \in DOMAIN G <=> q \in DOMAIN F /\ ~\E i \in KidsOf(F[p]) : q = Kid(p, i)
  /\ \A q \in DOMAIN G : q # p => G[q] = F[q]
  /\ SameNode(F[p], G[p]) /\ Shaped(G[p])
  /\ OwnsLedger(G[p]) => OwnsLedger(F[p])
  /\ \A o : o \in DOMAIN M <=> /\ o \in DOMAIN L
                               /\ ~(o = p /\ ~OwnsLedger(G[p]))
                               /\ o \notin DOMAIN F \ DOMAIN G
  /\ \A o \in DOMAIN M : o # F[p].led => M[o] = L[o]
  /\ \A o \in DOMAIN M : DOMAIN M[o] = Slot

Moved(F, G, L, M, p) == Grown(F, G, L, M, p) \/ Reaped(F, G, L, M, p)

\* The children of p in a tree are those of its state.
LEMMA BelowFrame ==
  ASSUME NEW F, Rooted(F), NEW p \in DOMAIN F, NEW q \in DOMAIN F, Prefix(p, q), p # q
  PROVE  /\ KidsOf(F[p]) # {}
         /\ q[Len(p) + 1] \in KidsOf(F[p])
         /\ SubSeq(q, 1, Len(p) + 1) = Kid(p, q[Len(p) + 1])
         /\ Kid(p, q[Len(p) + 1]) \in DOMAIN F
         /\ Prefix(Kid(p, q[Len(p) + 1]), q)
<1>1. Position(p) /\ Position(q) /\ q[Len(p) + 1] \in KidsOf(F[p])
  BY DEF Rooted
<1>2. Len(p) + 1 \in 1 .. Len(q)
  <2>1. Len(p) # Len(q)
    <3>1. Len(p) = Len(q) => Prefix(q, p)
      BY <1>1 DEF Prefix, Position
    <3> QED
      BY <1>1, <3>1, PrefixAntisym
  <2> QED
    BY <1>1, <2>1 DEF Prefix, Position
<1> DEFINE c == SubSeq(q, 1, Len(p) + 1)
           i == q[Len(p) + 1]
<1>3. i \in Nat
  BY <1>1, <1>2, ElementOfSeq DEF Position
<1>4. /\ Position(c) /\ Len(c) = Len(p) + 1 /\ Prefix(c, q) /\ c \in DOMAIN F
      /\ \A j \in 1 .. Len(p) + 1 : c[j] = q[j]
  BY <1>1, <1>2, CutPosition DEF Rooted
<1>7. c[Len(p) + 1] = i
  BY <1>1, <1>4, PositionLen
<1> HIDE DEF c, i
<1>5. /\ Position(Kid(p, i)) /\ Len(Kid(p, i)) = Len(p) + 1 /\ Kid(p, i)[Len(p) + 1] = i
      /\ \A j \in 1 .. Len(p) : Kid(p, i)[j] = p[j]
  BY <1>1, <1>3, KidPosition
<1>6. c = Kid(p, i)
  <2>1. ASSUME NEW j \in 1 .. Len(p) PROVE c[j] = Kid(p, i)[j]
    <3>1. c[j] = q[j]
      BY <1>1, <1>4, PositionLen
    <3>2. p[j] = q[j]
      BY DEF Prefix
    <3> QED
      BY <1>5, <3>1, <3>2
  <2>2. c[Len(p) + 1] = Kid(p, i)[Len(p) + 1]
    BY <1>5, <1>7
  <2>3. \A j \in 1 .. Len(p) + 1 : c[j] = Kid(p, i)[j]
    <3>1. \A j \in 1 .. Len(p) + 1 : j \in 1 .. Len(p) \/ j = Len(p) + 1
      BY <1>1, PositionLen
    <3> QED
      BY <2>1, <2>2, <3>1
  <2> QED
    BY <1>4, <1>5, <2>3, SeqEqual DEF Position
<1> QED
  BY <1>1, <1>4, <1>6 DEF c, i

\* Above a frame that is not done there is none whose children are all done.
LEMMA NoneBelow ==
  ASSUME NEW F, Rooted(F), NEW p \in DOMAIN F,
         \A i \in KidsOf(F[p]) : Kid(p, i) \in DOMAIN F /\ F[Kid(p, i)].st = "done",
         NEW q \in DOMAIN F, Prefix(p, q), p # q
  PROVE  \E i \in KidsOf(F[p]) : q = Kid(p, i)
<1> DEFINE i == q[Len(p) + 1]
<1>1. i \in KidsOf(F[p]) /\ Kid(p, i) \in DOMAIN F /\ Prefix(Kid(p, i), q)
  BY BelowFrame
<1>2. KidsOf(F[Kid(p, i)]) = {}
  BY <1>1 DEF KidsOf
<1>3. q = Kid(p, i)
  BY <1>1, <1>2, BelowFrame
<1> QED
  BY <1>1, <1>3

LEMMA GrownRooted ==
  ASSUME NEW F, NEW G, NEW L, NEW M, NEW p, Rooted(F), Grown(F, G, L, M, p)
  PROVE  /\ Rooted(G)
         /\ \A i \in KidsOf(G[p]) : Kid(p, i) \notin DOMAIN F
<1>1. p \in DOMAIN F /\ Position(p) /\ KidsOf(F[p]) = {} /\ KidsOf(G[p]) \subseteq Nat
  BY DEF Rooted, Grown
<1>2. \A i \in Nat : Kid(p, i) \notin DOMAIN F
  BY <1>1, KidPosition, BelowFrame
<1>3. ASSUME NEW q \in DOMAIN G
      PROVE  Position(q) /\ \A n \in 1 .. Len(q) : SubSeq(q, 1, n) \in DOMAIN G
  <2>1. CASE q \in DOMAIN F
    BY <2>1 DEF Rooted, Grown
  <2>2. ASSUME NEW i \in KidsOf(G[p]), q = Kid(p, i)
        PROVE  Position(q) /\ \A n \in 1 .. Len(q) : SubSeq(q, 1, n) \in DOMAIN G
    <3>1. Position(q) /\ Len(q) = Len(p) + 1 /\ Prefix(q, q)
      BY <1>1, <2>2, KidPosition DEF Position, Prefix
    <3>2. \A n \in 1 .. Len(p) : SubSeq(q, 1, n) = SubSeq(p, 1, n)
      BY <1>1, <2>2, CutOfKid
    <3>3. \A n \in 1 .. Len(p) : SubSeq(q, 1, n) \in DOMAIN G
      BY <1>1, <3>2 DEF Rooted, Grown
    <3>4. SubSeq(q, 1, Len(q)) = q
      BY <3>1, PrefixIsCut
    <3> QED
      <4>1. \A n \in 1 .. Len(q) : n \in 1 .. Len(p) \/ n = Len(q)
        BY <1>1, <3>1, PositionLen
      <4>2. q \in DOMAIN G
        BY <1>3
      <4> QED
        BY <3>1, <3>3, <3>4, <4>1, <4>2
  <2> QED
    BY <2>1, <2>2 DEF Grown
<1>4. ASSUME NEW a \in DOMAIN G, NEW q \in DOMAIN G, Prefix(a, q), a # q
      PROVE  q[Len(a) + 1] \in KidsOf(G[a])
  <2>1. CASE a \in DOMAIN F /\ q \in DOMAIN F
    <3>1. q[Len(a) + 1] \in KidsOf(F[a])
      BY <1>4, <2>1 DEF Rooted
    <3> QED
      BY <1>1, <2>1, <3>1 DEF Grown
  <2>2. ASSUME NEW i \in KidsOf(G[p]), q = Kid(p, i) PROVE q[Len(a) + 1] \in KidsOf(G[a])
    <3>1. Position(a) /\ (a = q \/ Prefix(a, p))
      BY <1>1, <1>3, <1>4, <2>2, AboveKid
    <3>2. CASE a = p
      <4>1. i \in Nat
        BY <1>1, <2>2
      <4>2. q[Len(p) + 1] = i
        BY <1>1, <2>2, <4>1, KidPosition
      <4> QED
        BY <2>2, <3>2, <4>2
    <3>3. CASE a # p
      <4>1. Prefix(a, p) /\ Len(a) \in Nat /\ Len(p) \in Nat
        BY <1>1, <1>4, <3>1 DEF Position
      <4>2. Len(a) # Len(p)
        BY <1>1, <3>1, <3>3, <4>1, PrefixIsCut, SubSeqFull DEF Position
      <4>3. Len(a) + 1 \in 1 .. Len(p)
        BY <4>1, <4>2 DEF Prefix
      <4>4. q[Len(a) + 1] = p[Len(a) + 1]
        BY <1>1, <2>2, <4>3, KidPosition
      <4>5. a \in DOMAIN F
        BY <1>1, <4>1, <3>1, PrefixIsCut DEF Rooted
      <4>6. p[Len(a) + 1] \in KidsOf(F[a])
        BY <1>1, <3>3, <4>1, <4>5 DEF Rooted
      <4> QED
        BY <1>1, <3>3, <4>4, <4>5, <4>6 DEF Grown
    <3> QED
      BY <3>2, <3>3
  <2>3. ASSUME NEW i \in KidsOf(G[p]), a = Kid(p, i), q \in DOMAIN F PROVE FALSE
    <3>1. Position(q) /\ Position(a) /\ Len(a) = Len(p) + 1 /\ Prefix(p, a) /\ p # a
      BY <1>1, <1>3, <2>3, KidPosition
    <3>2. Prefix(p, q)
      BY <1>1, <1>4, <3>1, PrefixTrans, PositionLen
    <3>3. p # q
      BY <1>1, <1>4, <3>1 DEF Prefix, Position
    <3> QED
      BY <1>1, <2>3, <3>2, <3>3, BelowFrame
  <2> QED
    BY <2>1, <2>2, <2>3 DEF Grown
<1> QED
  BY <1>1, <1>2, <1>3, <1>4 DEF Rooted

LEMMA ReapedRooted ==
  ASSUME NEW F, NEW G, NEW L, NEW M, NEW p, Rooted(F), Reaped(F, G, L, M, p)
  PROVE  /\ Rooted(G)
         /\ \A q \in DOMAIN G : Prefix(p, q) => p = q
<1>1. /\ p \in DOMAIN F /\ Position(p)
      /\ \A i \in KidsOf(F[p]) : i \in Nat /\ Kid(p, i) \in DOMAIN F
                                 /\ F[Kid(p, i)].st = "done"
      /\ \A q \in DOMAIN G : q \in DOMAIN F
  BY DEF Rooted, Reaped
<1>2. \A q \in DOMAIN G : Prefix(p, q) => p = q
  BY <1>1, NoneBelow DEF Reaped
<1>3. ASSUME NEW q \in DOMAIN G, NEW n \in 1 .. Len(q) PROVE SubSeq(q, 1, n) \in DOMAIN G
  <2>1. Position(q) /\ SubSeq(q, 1, n) \in DOMAIN F
    BY <1>1 DEF Rooted
  <2>2. Position(SubSeq(q, 1, n)) /\ Prefix(SubSeq(q, 1, n), q)
    BY <2>1, CutPosition
  <2>3. ASSUME NEW i \in KidsOf(F[p]), SubSeq(q, 1, n) = Kid(p, i) PROVE FALSE
    <3>1. Prefix(p, Kid(p, i)) /\ Len(Kid(p, i)) = Len(p) + 1
      BY <1>1, KidPosition
    <3>2. Prefix(p, q)
      BY <1>1, <2>1, <2>2, <2>3, <3>1, PrefixTrans, PositionLen
    <3>3. p # q
      BY <1>1, <2>1, <2>2, <2>3, <3>1 DEF Position, Prefix
    <3> QED
      BY <1>2, <3>2, <3>3
  <2> QED
    BY <1>1, <2>1, <2>3 DEF Reaped
<1>4. ASSUME NEW a \in DOMAIN G, NEW q \in DOMAIN G, Prefix(a, q), a # q
      PROVE  q[Len(a) + 1] \in KidsOf(G[a])
  <2>1. a # p
    BY <1>2, <1>4
  <2> QED
    BY <1>1, <1>4, <2>1 DEF Rooted, Reaped
<1> QED
  BY <1>1, <1>2, <1>3, <1>4 DEF Rooted

\* What is apart from a new child is a sibling or apart from the parent.
LEMMA ApartFromKid ==
  ASSUME NEW F, Rooted(F), NEW p \in DOMAIN F, KidsOf(F[p]) = {}, NEW i \in Nat,
         NEW q \in DOMAIN F, Apart(Kid(p, i), q) \/ Apart(q, Kid(p, i))
  PROVE  Apart(p, q) /\ Apart(q, p)
<1>1. Position(p) /\ Position(q)
  BY DEF Rooted
<1>2. ~Prefix(q, p)
  BY <1>1, PrefixOfKid DEF Apart
<1>3. ASSUME Prefix(p, q) PROVE FALSE
  <2>1. p # q
    BY <1>1, KidPosition DEF Apart
  <2> QED
    BY <1>3, <2>1, BelowFrame
<1> QED
  BY <1>2, <1>3 DEF Apart

LEMMA GrownLedgered ==
  ASSUME NEW F, NEW G, NEW L, NEW M, NEW p, Rooted(F), Ledgered(F), Grown(F, G, L, M, p)
  PROVE  Ledgered(G)
<1>1. /\ p \in DOMAIN F /\ Position(p) /\ KidsOf(F[p]) = {} /\ KidsOf(G[p]) \subseteq Nat
      /\ F[p].led \in Seq(Nat) /\ Prefix(F[p].led, p) /\ Len(F[p].led) \in Nat
      /\ Len(p) \in Nat /\ Prefix(p, p)
  BY PositionLen, LenProperties DEF Rooted, Grown, Ledgered, Prefix
<1>2. \A q \in DOMAIN F : q \in DOMAIN G /\ G[q].led = F[q].led /\ G[q].kind = F[q].kind
  BY <1>1 DEF Grown, SameNode
<1>3. \A q \in DOMAIN G : q \in DOMAIN F \/ \E i \in KidsOf(G[p]) : q = Kid(p, i)
  BY DEF Grown
<1>4. \A i \in KidsOf(G[p]) : Born(p, i, F[p], G[Kid(p, i)])
  BY DEF Grown
<1>5. \A i \in KidsOf(G[p]) :
        /\ Position(Kid(p, i)) /\ Len(Kid(p, i)) = Len(p) + 1 /\ Kid(p, i) # p
        /\ Prefix(p, Kid(p, i)) /\ Prefix(Kid(p, i), Kid(p, i))
  BY <1>1, KidPosition, PositionLen DEF Prefix
<1>6. ASSUME NEW q \in DOMAIN G PROVE G[q].led \in Seq(Nat) /\ Prefix(G[q].led, q)
  <2>1. CASE q \in DOMAIN F
    BY <1>2, <2>1 DEF Ledgered
  <2>2. ASSUME NEW i \in KidsOf(G[p]), q = Kid(p, i)
        PROVE  G[q].led \in Seq(Nat) /\ Prefix(G[q].led, q)
    <3>1. G[q].led \in {F[p].led, p, q}
      BY <1>4, <2>2 DEF Born
    <3>2. Prefix(F[p].led, q)
      BY <1>1, <1>5, <2>2, PrefixTrans, PositionLen
    <3> QED
      BY <1>1, <1>5, <2>2, <3>1, <3>2 DEF Position
  <2> QED
    BY <1>3, <2>1, <2>2
<1>7. ASSUME NEW q \in DOMAIN G PROVE G[q].led = q <=> G[q].kind \in {"item", "session"}
  <2>1. CASE q \in DOMAIN F
    BY <1>2, <2>1 DEF Ledgered
  <2>2. CASE \E i \in KidsOf(G[p]) : q = Kid(p, i)
    BY <1>4, <2>2 DEF Born
  <2> QED
    BY <1>3, <2>1, <2>2
<1>8. ASSUME NEW a \in DOMAIN G, NEW q \in DOMAIN G, Prefix(a, q), a # q,
             G[a].kind \in {"map", "session_group"}
      PROVE  Len(a) < Len(G[q].led)
  <2>1. CASE a \in DOMAIN F /\ q \in DOMAIN F
    BY <1>2, <1>8, <2>1 DEF Ledgered
  <2>2. ASSUME NEW i \in KidsOf(G[p]), q = Kid(p, i) PROVE Len(a) < Len(G[q].led)
    <3>1. Position(a)
      BY GrownRooted DEF Rooted
    <3>2. Prefix(a, p)
      BY <1>1, <1>8, <2>2, <3>1, AboveKid
    <3>3. CASE a = p
      <4>1. G[q].kind \in {"item", "session"}
        <5>1. F[p].kind \in {"map", "session_group"}
          BY <1>1, <1>2, <1>8, <3>3
        <5>2. Born(p, i, F[p], G[q])
          BY <1>4, <2>2
        <5> QED
          BY <5>1, <5>2 DEF Born
      <4> QED
        BY <1>1, <1>5, <1>7, <2>2, <3>3, <4>1
    <3>4. CASE a # p
      <4>1. a \in DOMAIN F /\ Len(a) < Len(p)
        <5>1. a = SubSeq(p, 1, Len(a)) /\ Len(a) \in 1 .. Len(p)
          BY <1>1, <3>1, <3>2, PrefixIsCut
        <5>2. Len(a) # Len(p)
          BY <1>1, <3>4, <5>1, SubSeqFull DEF Position
        <5>3. SubSeq(p, 1, Len(a)) \in DOMAIN F
          BY <1>1, <5>1 DEF Rooted
        <5>4. Len(a) < Len(p)
          BY <1>1, <5>1, <5>2
        <5>5. a \in DOMAIN F
          BY <5>1, <5>3
        <5> QED
          BY <5>4, <5>5
      <4>2. Len(a) < Len(F[p].led)
        BY <1>1, <1>2, <1>8, <3>2, <3>4, <4>1 DEF Ledgered
      <4>3. G[q].led \in {F[p].led, p, q}
        BY <1>4, <2>2 DEF Born
      <4> QED
        BY <1>1, <1>5, <2>2, <3>1, <4>1, <4>2, <4>3, PositionLen
    <3> QED
      BY <3>3, <3>4
  <2>3. ASSUME NEW i \in KidsOf(G[p]), a = Kid(p, i) PROVE FALSE
    <3>1. G[a].st = "new"
      BY <1>4, <2>3 DEF Born
    <3>2. KidsOf(G[a]) = {}
      BY <3>1 DEF KidsOf
    <3> QED
      BY <1>8, <3>2, GrownRooted DEF Rooted
  <2> QED
    BY <1>3, <2>1, <2>2, <2>3
<1>12. ASSUME NEW a \in DOMAIN G, NEW q \in DOMAIN G, Prefix(a, q), Len(q) = Len(a) + 1,
              G[q].kind \in {"item", "session"}
       PROVE  G[a].kind \in {"map", "session_group"}
  <2>1. Position(a) /\ Position(q) /\ Len(a) \in Nat /\ a # q
    BY <1>12, GrownRooted, PositionLen DEF Rooted
  <2>2. CASE a \in DOMAIN F /\ q \in DOMAIN F
    BY <1>2, <1>12, <2>2 DEF Ledgered
  <2>3. ASSUME NEW i \in KidsOf(G[p]), q = Kid(p, i) PROVE G[a].kind \in {"map", "session_group"}
    <3>1. Prefix(a, p) /\ Len(a) = Len(p)
      BY <1>1, <1>5, <1>12, <2>1, <2>3, AboveKid
    <3>2. Prefix(p, a)
      BY <1>1, <3>1 DEF Prefix
    <3>3. a = p
      BY <1>1, <2>1, <3>1, <3>2, PrefixAntisym
    <3>4. Born(p, i, F[p], G[q])
      BY <1>4, <2>3
    <3>5. F[p].kind \in {"map", "session_group"}
      BY <1>12, <3>4 DEF Born
    <3> QED
      BY <1>1, <1>2, <3>3, <3>5
  <2>4. ASSUME NEW i \in KidsOf(G[p]), a = Kid(p, i) PROVE FALSE
    <3>1. KidsOf(G[a]) = {}
      BY <1>4, <2>4 DEF Born, KidsOf
    <3> QED
      BY <1>12, <2>1, <3>1, GrownRooted DEF Rooted
  <2> QED
    BY <1>3, <2>2, <2>3, <2>4
<1>13. ASSUME NEW q \in DOMAIN G, G[q].kind \in {"item", "session"} PROVE Len(q) > 1
  <2>1. CASE q \in DOMAIN F
    BY <1>2, <1>13, <2>1 DEF Ledgered
  <2>2. ASSUME NEW i \in KidsOf(G[p]), q = Kid(p, i) PROVE Len(q) > 1
    BY <1>1, <1>5, <2>2, PositionLen
  <2> QED
    BY <1>3, <2>1, <2>2
<1>9. ASSUME NEW q \in DOMAIN F, NEW i \in KidsOf(G[p]), Apart(q, Kid(p, i)) \/ Apart(Kid(p, i), q)
      PROVE  F[q].led # G[Kid(p, i)].led
  <2>1. Apart(p, q) /\ Apart(q, p) /\ F[p].led # F[q].led
    BY <1>1, <1>9, ApartFromKid DEF Ledgered
  <2>2. Prefix(F[q].led, q)
    BY DEF Ledgered
  <2>3. F[q].led # p
    BY <2>1, <2>2 DEF Apart
  <2>4. F[q].led # Kid(p, i)
    BY <1>9, <2>2 DEF Apart
  <2> QED
    BY <1>4, <2>1, <2>3, <2>4 DEF Born
<1>10. ASSUME NEW i \in KidsOf(G[p]), NEW j \in KidsOf(G[p]), i # j
       PROVE  G[Kid(p, i)].led # G[Kid(p, j)].led
  <2>1. Kid(p, i) # Kid(p, j) /\ Kid(p, i) \in DOMAIN G /\ Kid(p, j) \in DOMAIN G
    BY <1>1, <1>10, KidsApart DEF Grown
  <2>2. CASE F[p].kind \in {"map", "session_group"}
    BY <1>4, <1>7, <2>1, <2>2 DEF Born
  <2>3. CASE F[p].kind \notin {"map", "session_group"}
    BY <1>2, <1>1, <1>10, <2>3 DEF KidsOf
  <2> QED
    BY <2>2, <2>3
<1>11. ASSUME NEW a \in DOMAIN G, NEW q \in DOMAIN G, Apart(a, q) PROVE G[a].led # G[q].led
  <2>1. CASE a \in DOMAIN F /\ q \in DOMAIN F
    BY <1>2, <1>11, <2>1 DEF Ledgered
  <2>2. CASE a \in DOMAIN F /\ \E i \in KidsOf(G[p]) : q = Kid(p, i)
    BY <1>2, <1>9, <1>11, <2>2
  <2>3. CASE q \in DOMAIN F /\ \E i \in KidsOf(G[p]) : a = Kid(p, i)
    BY <1>2, <1>9, <1>11, <2>3
  <2>4. ASSUME NEW i \in KidsOf(G[p]), NEW j \in KidsOf(G[p]), a = Kid(p, i), q = Kid(p, j)
        PROVE  G[a].led # G[q].led
    BY <1>5, <1>10, <1>11, <2>4 DEF Apart
  <2> QED
    BY <1>3, <2>1, <2>2, <2>3, <2>4
<1> QED
  BY <1>6, <1>7, <1>8, <1>11, <1>12, <1>13 DEF Ledgered

LEMMA ReapedLedgered ==
  ASSUME NEW F, NEW G, NEW L, NEW M, NEW p, Ledgered(F), Reaped(F, G, L, M, p)
  PROVE  Ledgered(G)
<1>1. \A q \in DOMAIN G : q \in DOMAIN F /\ G[q].led = F[q].led /\ G[q].kind = F[q].kind
  BY DEF Reaped, SameNode
<1>2. \A q \in DOMAIN G : /\ G[q].led \in Seq(Nat) /\ Prefix(G[q].led, q)
                          /\ G[q].led = q <=> G[q].kind \in {"item", "session"}
                          /\ G[q].kind \in {"item", "session"} => Len(q) > 1
  BY <1>1 DEF Ledgered
<1>3. ASSUME NEW a \in DOMAIN G, NEW q \in DOMAIN G
      PROVE  /\ Prefix(a, q) /\ Len(q) = Len(a) + 1 /\ G[q].kind \in {"item", "session"}
                 => G[a].kind \in {"map", "session_group"}
             /\ Prefix(a, q) /\ a # q /\ G[a].kind \in {"map", "session_group"}
                 => Len(a) < Len(G[q].led)
             /\ Apart(a, q) => G[a].led # G[q].led
  BY <1>1 DEF Ledgered
<1> QED
  BY <1>2, <1>3 DEF Ledgered

LEMMA GrownLanes ==
  ASSUME NEW F, NEW G, NEW L, NEW M, NEW p, Rooted(F), Lanes(F), Grown(F, G, L, M, p),
         \A q \in DOMAIN F : Len(F[q].path) \in Nat,
         \A i, j \in KidsOf(G[p]) : i # j => Apart(G[Kid(p, i)].path, G[Kid(p, j)].path)
  PROVE  Lanes(G)
<1>1. p \in DOMAIN F /\ KidsOf(F[p]) = {} /\ KidsOf(G[p]) \subseteq Nat /\ Len(F[p].path) \in Nat
  BY DEF Grown
<1>2. \A q \in DOMAIN F : q \in DOMAIN G /\ G[q].path = F[q].path
  BY <1>1 DEF Grown, SameNode
<1>3. \A q \in DOMAIN G : q \in DOMAIN F \/ \E i \in KidsOf(G[p]) : q = Kid(p, i)
  BY DEF Grown
<1>4. \A i \in KidsOf(G[p]) : /\ Prefix(F[p].path, G[Kid(p, i)].path)
                              /\ Len(G[Kid(p, i)].path) \in Nat
  BY DEF Grown, Born
<1>5. ASSUME NEW q \in DOMAIN F, NEW i \in KidsOf(G[p]), Apart(q, Kid(p, i)) \/ Apart(Kid(p, i), q)
      PROVE  Apart(F[q].path, G[Kid(p, i)].path) /\ Apart(G[Kid(p, i)].path, F[q].path)
  <2>1. Apart(p, q)
    BY <1>1, <1>5, ApartFromKid
  <2>2. Apart(F[p].path, F[q].path)
    BY <1>1, <2>1 DEF Lanes
  <2>3. ~Prefix(F[q].path, G[Kid(p, i)].path)
    BY <1>1, <1>4, <2>2, PrefixesMeet
  <2>4. ~Prefix(G[Kid(p, i)].path, F[q].path)
    BY <1>1, <1>4, <2>2, PrefixTrans DEF Apart
  <2> QED
    BY <2>3, <2>4 DEF Apart
<1>6. ASSUME NEW a \in DOMAIN G, NEW q \in DOMAIN G, Apart(a, q) PROVE Apart(G[a].path, G[q].path)
  <2>1. CASE a \in DOMAIN F /\ q \in DOMAIN F
    BY <1>2, <1>6, <2>1 DEF Lanes
  <2>2. CASE a \in DOMAIN F /\ \E i \in KidsOf(G[p]) : q = Kid(p, i)
    BY <1>2, <1>5, <1>6, <2>2
  <2>3. CASE q \in DOMAIN F /\ \E i \in KidsOf(G[p]) : a = Kid(p, i)
    BY <1>2, <1>5, <1>6, <2>3
  <2>4. ASSUME NEW i \in KidsOf(G[p]), NEW j \in KidsOf(G[p]), a = Kid(p, i), q = Kid(p, j)
        PROVE  Apart(G[a].path, G[q].path)
    <3>1. Prefix(a, a)
      BY <1>1, <2>4, KidPosition, PositionLen DEF Prefix
    <3> QED
      BY <1>6, <2>4, <3>1 DEF Apart
  <2> QED
    BY <1>3, <2>1, <2>2, <2>3, <2>4
<1> QED
  BY <1>6 DEF Lanes

LEMMA ReapedLanes ==
  ASSUME NEW F, NEW G, NEW L, NEW M, NEW p, Lanes(F), Reaped(F, G, L, M, p)
  PROVE  Lanes(G)
<1>1. \A q \in DOMAIN G : q \in DOMAIN F /\ G[q].path = F[q].path
  BY DEF Reaped, SameNode
<1> QED
  BY <1>1 DEF Lanes

LEMMA GrownLedgers ==
  ASSUME NEW F, NEW G, NEW L, NEW M, NEW p, Rooted(F), Ledgered(F), LiveLedgers(F, L),
         Grown(F, G, L, M, p)
  PROVE  LiveLedgers(G, M)
<1>1. /\ p \in DOMAIN F /\ SameNode(F[p], G[p])
      /\ \A q \in DOMAIN F : q \in DOMAIN G /\ (q # p => G[q] = F[q])
      /\ \A q \in DOMAIN G : q \in DOMAIN F \/ \E i \in KidsOf(G[p]) : q = Kid(p, i)
      /\ OwnsLedger(F[p]) => OwnsLedger(G[p])
      /\ \A o : o \in DOMAIN M <=> \/ o \in DOMAIN L
                                   \/ o = p /\ OwnsLedger(G[p])
                                   \/ o \in DOMAIN G \ DOMAIN F /\ OwnsLedger(G[o])
  BY DEF Grown
<1>2. \A o : o \in DOMAIN M <=> o = Root \/ (o \in DOMAIN G /\ OwnsLedger(G[o]))
  BY <1>1 DEF LiveLedgers
<1>3. ASSUME NEW q \in DOMAIN G PROVE G[q].led \in DOMAIN M
  <2>1. CASE q \in DOMAIN F
    BY <1>1, <2>1 DEF LiveLedgers, SameNode
  <2>2. ASSUME NEW i \in KidsOf(G[p]), q = Kid(p, i) PROVE G[q].led \in DOMAIN M
    <3>1. /\ G[q].led \in {F[p].led, p, q}
          /\ G[q].led = q => G[q].kind \in {"item", "session"}
          /\ G[q].led = p => OwnsLedger(G[p])
      BY <2>2 DEF Grown, Born
    <3>2. F[p].led \in DOMAIN M
      BY <1>1 DEF LiveLedgers
    <3>3. G[q].led = q => q \in DOMAIN M
      BY <1>2, <3>1 DEF OwnsLedger
    <3>4. G[q].led = p => p \in DOMAIN M
      BY <1>1, <3>1
    <3> QED
      BY <3>1, <3>2, <3>3, <3>4
  <2> QED
    BY <1>1, <2>1, <2>2
<1>4. \A o \in DOMAIN M : DOMAIN M[o] = Slot
  BY DEF Grown
<1> QED
  BY <1>2, <1>3, <1>4 DEF LiveLedgers

LEMMA ReapedLedgers ==
  ASSUME NEW F, NEW G, NEW L, NEW M, NEW p, Rooted(F), Ledgered(F), LiveLedgers(F, L),
         Reaped(F, G, L, M, p)
  PROVE  LiveLedgers(G, M)
<1>1. /\ p \in DOMAIN F /\ p \in DOMAIN G /\ SameNode(F[p], G[p]) /\ Position(p)
      /\ \A q \in DOMAIN G : q \in DOMAIN F /\ (q # p => G[q] = F[q])
      /\ \A q \in DOMAIN F \ DOMAIN G : \E i \in KidsOf(F[p]) : i \in Nat /\ q = Kid(p, i)
      /\ OwnsLedger(G[p]) => OwnsLedger(F[p])
      /\ \A o : o \in DOMAIN M <=> /\ o \in DOMAIN L
                                   /\ ~(o = p /\ ~OwnsLedger(G[p]))
                                   /\ o \notin DOMAIN F \ DOMAIN G
  <2>1. p \in DOMAIN F /\ Position(p) /\ KidsOf(F[p]) \subseteq Nat
    BY DEF Reaped, Rooted
  <2>2. \A i \in KidsOf(F[p]) : p # Kid(p, i)
    BY <2>1, KidPosition
  <2> QED
    BY <2>1, <2>2 DEF Reaped
<1>2. \A o : o \in DOMAIN M <=> o = Root \/ (o \in DOMAIN G /\ OwnsLedger(G[o]))
  <2>1. Root \notin DOMAIN F
    BY EmptySeq DEF Rooted, Position, Root
  <2> QED
    BY <1>1, <2>1 DEF LiveLedgers
<1>3. ASSUME NEW q \in DOMAIN G PROVE G[q].led \in DOMAIN M
  <2>1. /\ q \in DOMAIN F /\ G[q].led = F[q].led /\ G[q].kind = F[q].kind
        /\ F[q].led \in DOMAIN L /\ Prefix(F[q].led, q) /\ Position(q)
    BY <1>1 DEF LiveLedgers, SameNode, Ledgered, Rooted
  <2>2. ASSUME F[q].led = p PROVE OwnsLedger(G[p])
    <3>1. q = p
      BY <2>1, <2>2, ReapedRooted
    <3> QED
      BY <2>1, <2>2, <3>1 DEF Ledgered, OwnsLedger
  <2>3. ASSUME NEW i \in Nat, F[q].led = Kid(p, i) PROVE FALSE
    <3>1. Position(Kid(p, i)) /\ Len(Kid(p, i)) = Len(p) + 1 /\ Prefix(p, Kid(p, i))
      BY <1>1, KidPosition
    <3>2. Prefix(p, q)
      BY <1>1, <2>1, <2>3, <3>1, PrefixTrans, PositionLen
    <3>3. q = p
      BY <3>2, ReapedRooted
    <3> QED
      BY <1>1, <2>1, <2>3, <3>1, <3>3, PositionLen DEF Prefix
  <2> QED
    BY <1>1, <2>1, <2>2, <2>3
<1>4. \A o \in DOMAIN M : DOMAIN M[o] = Slot
  BY DEF Reaped
<1> QED
  BY <1>2, <1>3, <1>4 DEF LiveLedgers

\* A step at x leaves alone the ledger that a fanned-out map at p was given.
LEMMA OthersLedger ==
  ASSUME NEW F, NEW G, NEW L, NEW M, NEW x, Rooted(F), Ledgered(F), LiveLedgers(F, L),
         Moved(F, G, L, M, x),
         NEW p \in DOMAIN F, p \in DOMAIN G, p # x, F[p].kind = "map", F[p].st = "fan"
  PROVE  M[F[p].led] = L[F[p].led]
<1>1. /\ x \in DOMAIN F /\ Position(p) /\ Position(x)
      /\ Prefix(F[p].led, p) /\ F[p].led \in Seq(Nat) /\ F[p].led \in DOMAIN L
  BY DEF Rooted, Ledgered, LiveLedgers, Moved, Grown, Reaped
<1>2. F[x].led # F[p].led
  <2>1. CASE Apart(x, p)
    BY <1>1, <2>1 DEF Ledgered
  <2>2. CASE Prefix(x, p)
    <3>1. KidsOf(F[x]) # {}
      BY <1>1, <2>2, BelowFrame
    <3>2. Reaped(F, G, L, M, x)
      BY <3>1 DEF Moved, Grown
    <3>3. PICK i \in KidsOf(F[x]) : p = Kid(x, i)
      BY <1>1, <2>2, <3>2, NoneBelow DEF Reaped
    <3> QED
      BY <3>2, <3>3 DEF Reaped
  <2>3. CASE Prefix(p, x)
    <3>1. Len(p) < Len(F[x].led)
      BY <1>1, <2>3 DEF Ledgered
    <3> QED
      BY <1>1, <3>1, PositionLen DEF Prefix
  <2> QED
    BY <2>1, <2>2, <2>3 DEF Apart
<1>3. CASE Grown(F, G, L, M, x)
  BY <1>1, <1>2, <1>3 DEF Grown
<1>4. CASE Reaped(F, G, L, M, x)
  <2>1. LiveLedgers(G, M) /\ G[p].led = F[p].led
    BY <1>4, ReapedLedgers DEF Reaped
  <2> QED
    BY <1>2, <1>4, <2>1 DEF Reaped, LiveLedgers
<1> QED
  BY <1>3, <1>4 DEF Moved

-----------------------------------------------------------------------------
(* The shapes that steps have                                              *)

LEMMA FrameShaped ==
  ASSUME NEW kind, NEW node, NEW path, NEW iter, NEW led
  PROVE  Shaped(Frame(kind, node, path, iter, led))
<1>1. IsSeq(<<>>) /\ Len(<<>>) = 0
  BY EmptySeq DEF IsSeq
<1> QED
  BY <1>1 DEF Shaped, Frame, StatesOf, Ok

\* What is known of a live frame.
LEMMA LiveFrame ==
  ASSUME IInv, Tree, NEW p \in DOMAIN fr
  PROVE  /\ Position(p) /\ p # Root /\ Sound(fr[p]) /\ Shaped(fr[p])
         /\ DOMAIN fr[p] = FrameFields
         /\ fr[p].kind \in Kinds \cup {"item", "session"}
         /\ Len(fr[p].path) \in Nat /\ Prefix(fr[p].path, fr[p].path)
         /\ fr[p].led \in DOMAIN leds
         /\ p \in DOMAIN leds <=> OwnsLedger(fr[p])
<1>1. Position(p) /\ Sound(fr[p]) /\ Shaped(fr[p]) /\ fr[p].led \in DOMAIN leds
  BY DEF Tree, Rooted, LiveLedgers, IInv, AllSound
<1>2. fr[p].kind \in Kinds \cup {"item", "session"}
  BY <1>1, WorkflowAssumption DEF IInv, Sound, Accepted, Nodes
<1>3. p # Root
  BY <1>1, EmptySeq DEF Position, Root
<1>4. Len(fr[p].path) \in Nat /\ Prefix(fr[p].path, fr[p].path)
  BY <1>1 DEF Sound, IsPath, Prefix
<1> QED
  BY <1>1, <1>2, <1>3, <1>4 DEF Sound, Tree, LiveLedgers

\* The step at p writes no ledger but the one that p works on.
Writes(M, p) ==
  /\ \A o \in DOMAIN M \cap DOMAIN leds : o # fr[p].led => M[o] = leds[o]
  /\ \A o \in DOMAIN M : DOMAIN M[o] = Slot

LEMMA WritesNothing == ASSUME Tree, NEW p PROVE Writes(leds, p)
BY DEF Writes, Tree, LiveLedgers

LEMMA WritesOne ==
  ASSUME IInv, Tree, NEW p \in DOMAIN fr, NEW l, DOMAIN l = Slot
  PROVE  /\ Writes([leds EXCEPT ![fr[p].led] = l], p)
         /\ DOMAIN [leds EXCEPT ![fr[p].led] = l] = DOMAIN leds
BY LiveFrame DEF Writes, Tree, LiveLedgers

LEMMA StoredSlots ==
  ASSUME IInv, Tree, NEW p \in DOMAIN fr, NEW nd, NEW v
  PROVE  DOMAIN Led(p) = Slot /\ DOMAIN Stored(Led(p), nd, v) = Slot
BY LiveFrame DEF Stored, Led, Tree, LiveLedgers

\* The frame at p changes its state and nothing comes or goes with that.
LEMMA Altered ==
  ASSUME IInv, Tree, NEW p \in DOMAIN fr, NEW G, NEW M,
         DOMAIN G = DOMAIN fr, \A q \in DOMAIN fr : q # p => G[q] = fr[q],
         SameNode(fr[p], G[p]), Shaped(G[p]), KidsOf(fr[p]) = {}, KidsOf(G[p]) = {},
         OwnsLedger(fr[p]) <=> OwnsLedger(G[p]),
         DOMAIN M = DOMAIN leds, Writes(M, p)
  PROVE  Moved(fr, G, leds, M, p)
<1>1. OwnsLedger(G[p]) => p \in DOMAIN leds
  BY LiveFrame
<1> QED
  BY <1>1 DEF Moved, Grown, Writes

\* The frame at p is done, and P, its children, disappear.
Finished(G, P, p, r) ==
  /\ \A q : q \in DOMAIN G <=> q \in DOMAIN fr /\ q \notin P
  /\ \A q \in DOMAIN G : q # p => G[q] = fr[q]
  /\ SameNode(fr[p], G[p])
  /\ G[p].st = "done" /\ G[p].ret = r
  /\ G[p].k = fr[p].k /\ G[p].items = fr[p].items /\ G[p].res = fr[p].res

LEMMA DoneFinished ==
  ASSUME IInv, Tree, NEW p \in DOMAIN fr, NEW r
  PROVE  /\ Finished(Done(fr, p, r), {}, p, r)
         /\ \A P : p \notin P => Finished(Done(Without(fr, P), p, r), P, p, r)
<1>1. DOMAIN fr[p] = FrameFields
  BY LiveFrame
<1>2. Finished(Done(fr, p, r), {}, p, r)
  BY <1>1 DEF Finished, Done, SameNode, FrameFields
<1>3. ASSUME NEW P, p \notin P PROVE Finished(Done(Without(fr, P), p, r), P, p, r)
  <2> DEFINE W == Without(fr, P)
  <2>1. /\ \A q : q \in DOMAIN W <=> q \in DOMAIN fr /\ q \notin P
        /\ \A q \in DOMAIN W : W[q] = fr[q]
    BY DEF Without
  <2>2. p \in DOMAIN W /\ W[p] = fr[p]
    BY <1>3, <2>1
  <2> HIDE DEF W
  <2>3. Finished(Done(W, p, r), P, p, r)
    BY <1>1, <2>1, <2>2 DEF Finished, Done, SameNode, FrameFields
  <2> QED
    BY <2>3 DEF W
<1> QED
  BY <1>2, <1>3

LEMMA FinishedMoves ==
  ASSUME IInv, Tree, NEW p \in DOMAIN fr, NEW P, NEW r, NEW G, NEW M,
         Finished(G, P, p, r), DOMAIN r = {"ok", "v"},
         P = {Kid(p, i) : i \in KidsOf(fr[p])}, KidsOf(fr[p]) \subseteq Nat, Joined(P),
         \A o : o \in DOMAIN M <=> /\ o \in DOMAIN leds /\ o \notin P
                                   /\ o = p => fr[p].kind \in {"item", "session"},
         Writes(M, p)
  PROVE  Moved(fr, G, leds, M, p)
<1>1. Shaped(fr[p])
  BY LiveFrame
<1>2. Shaped(G[p])
  BY <1>1 DEF Shaped, Finished, SameNode, StatesOf
<1>3. KidsOf(G[p]) = {}
  BY DEF KidsOf, Finished
<1>4. OwnsLedger(G[p]) <=> fr[p].kind \in {"item", "session"}
  BY DEF OwnsLedger, Finished, SameNode
<1>5. \A i \in KidsOf(fr[p]) : Kid(p, i) \in DOMAIN fr /\ fr[Kid(p, i)].st = "done"
  BY DEF Joined, IsDone
<1>6. \A q : q \in DOMAIN G <=> q \in DOMAIN fr /\ ~\E i \in KidsOf(fr[p]) : q = Kid(p, i)
  BY DEF Finished
<1>7. DOMAIN fr \ DOMAIN G = P
  BY <1>5, <1>6
<1>8. \A o : o \in DOMAIN M <=> /\ o \in DOMAIN leds
                                /\ ~(o = p /\ ~OwnsLedger(G[p]))
                                /\ o \notin DOMAIN fr \ DOMAIN G
  BY <1>4, <1>7
<1>9. Reaped(fr, G, leds, M, p)
  BY <1>2, <1>3, <1>4, <1>5, <1>6, <1>8 DEF Reaped, Finished, Writes, OwnsLedger
<1> QED
  BY <1>9 DEF Moved

\* A frame without children, and without a ledger of its own, is done.
LEMMA LeafDone ==
  ASSUME IInv, Tree, NEW p \in DOMAIN fr, NEW r, DOMAIN r = {"ok", "v"},
         KidsOf(fr[p]) = {}, ~OwnsLedger(fr[p]),
         NEW M, DOMAIN M = DOMAIN leds, Writes(M, p)
  PROVE  Moved(fr, Done(fr, p, r), leds, M, p)
<1> DEFINE G == Done(fr, p, r)
           P == {Kid(p, i) : i \in KidsOf(fr[p])}
<1>1. P = {} /\ Joined(P) /\ Finished(G, P, p, r)
  BY DoneFinished DEF Joined
<1>2. p \notin DOMAIN leds
  BY LiveFrame
<1> HIDE DEF G, P
<1>3. \A o : o \in DOMAIN M <=> /\ o \in DOMAIN leds /\ o \notin P
                                /\ o = p => fr[p].kind \in {"item", "session"}
  BY <1>1, <1>2
<1>4. Moved(fr, G, leds, M, p)
  BY <1>1, <1>3, FinishedMoves DEF P
<1> QED
  BY <1>4 DEF G

\* What runs as a body has no ledger of its own once it is done.
LEMMA BodyOwnsNothing ==
  ASSUME IInv, Tree, NEW p \in DOMAIN fr, fr[p].st = "body", IsDone(Body(p))
  PROVE  /\ KidsOf(fr[p]) = {1} /\ Body(p) \in DOMAIN fr /\ Body(p) # p
         /\ Body(p) \notin DOMAIN leds /\ DOMAIN fr[Body(p)].ret = {"ok", "v"}
<1>1. Position(p) /\ Shaped(fr[p]) /\ fr[p].kind \in Kinds \cup {"item", "session"}
  BY LiveFrame
<1>2. fr[p].kind \notin {"map", "session_group"}
  BY <1>1 DEF Shaped, StatesOf
<1>3. Prefix(p, Body(p)) /\ Len(Body(p)) = Len(p) + 1 /\ Body(p) # p
  BY <1>1, KidPosition DEF Body
<1>4. Body(p) \in DOMAIN fr /\ fr[Body(p)].st = "done"
  BY DEF IsDone
<1>5. fr[Body(p)].kind \notin {"item", "session"}
  BY <1>2, <1>3, <1>4 DEF Tree, Ledgered
<1>6. ~OwnsLedger(fr[Body(p)])
  BY <1>4, <1>5 DEF OwnsLedger
<1>7. Shaped(fr[Body(p)]) /\ Body(p) \notin DOMAIN leds
  BY <1>4, <1>6, LiveFrame
<1> QED
  BY <1>2, <1>3, <1>4, <1>7 DEF KidsOf, Shaped

\* A frame is done when its body is.
LEMMA BodyDone ==
  ASSUME IInv, Tree, NEW p \in DOMAIN fr, fr[p].st = "body", IsDone(Body(p)),
         NEW r, DOMAIN r = {"ok", "v"},
         NEW M, Writes(M, p),
         \A o : o \in DOMAIN M <=> /\ o \in DOMAIN leds
                                   /\ o = p => fr[p].kind \in {"item", "session"}
  PROVE  Moved(fr, Done(Without(fr, {Body(p)}), p, r), leds, M, p)
<1> DEFINE G == Done(Without(fr, {Body(p)}), p, r)
           P == {Kid(p, i) : i \in KidsOf(fr[p])}
<1>1. /\ KidsOf(fr[p]) = {1} /\ Body(p) # p /\ Body(p) \notin DOMAIN leds
  BY BodyOwnsNothing
<1>2. P = {Body(p)}
  BY <1>1 DEF Body
<1>3. Finished(G, {Body(p)}, p, r)
  BY <1>1, DoneFinished
<1>4. Joined({Body(p)})
  BY DEF Joined
<1> HIDE DEF G, P
<1>5. \A o : o \in DOMAIN M <=> /\ o \in DOMAIN leds /\ o \notin P
                                /\ o = p => fr[p].kind \in {"item", "session"}
  BY <1>1, <1>2
<1>6. Moved(fr, G, leds, M, p)
  BY <1>1, <1>2, <1>3, <1>4, <1>5, FinishedMoves DEF P
<1> QED
  BY <1>6 DEF G

\* A loop goes round once more.
LEMMA LoopOnMoves ==
  ASSUME IInv, Tree, NEW p \in DOMAIN fr, fr[p].st = "body",
         fr[p].kind \in {"for_each", "while"}, LoopOn(p),
         NEW M, Writes(M, p), DOMAIN M = DOMAIN leds
  PROVE  Moved(fr, fr', leds, M, p)
<1> DEFINE W == Without(fr, {Body(p)})
           r == fr[Body(p)].ret
<1>1. /\ KidsOf(fr[p]) = {1} /\ Body(p) # p /\ Body(p) \notin DOMAIN leds
      /\ Body(p) \in DOMAIN fr /\ fr[Body(p)].st = "done" /\ DOMAIN r = {"ok", "v"}
  BY BodyOwnsNothing DEF LoopOn, IsDone
<1>2. /\ \A q : q \in DOMAIN W <=> q \in DOMAIN fr /\ q # Body(p)
      /\ \A q \in DOMAIN W : W[q] = fr[q]
      /\ fr' = [W EXCEPT ![p].st = "loop", ![p].ret = r]
  BY DEF Without, LoopOn
<1>3. DOMAIN fr[p] = FrameFields /\ Shaped(fr[p]) /\ (p \in DOMAIN leds <=> OwnsLedger(fr[p]))
  BY LiveFrame
<1> HIDE DEF W, r
<1>4. p \in DOMAIN W /\ W[p] = fr[p]
  BY <1>1, <1>2
<1>5. /\ DOMAIN fr' = DOMAIN W /\ \A q \in DOMAIN W : q # p => fr'[q] = fr[q]
      /\ SameNode(fr[p], fr'[p]) /\ fr'[p].st = "loop" /\ fr'[p].ret = r
      /\ fr'[p].k = fr[p].k /\ fr'[p].items = fr[p].items /\ fr'[p].res = fr[p].res
  BY <1>2, <1>3, <1>4 DEF SameNode, FrameFields
<1>6. Shaped(fr'[p]) /\ KidsOf(fr'[p]) = {}
  BY <1>1, <1>3, <1>5 DEF Shaped, SameNode, StatesOf, KidsOf
<1>7. ~OwnsLedger(fr[p]) /\ ~OwnsLedger(fr'[p])
  BY <1>5 DEF OwnsLedger, SameNode
<1>8. \A q : q \in DOMAIN fr' <=> q \in DOMAIN fr /\ ~\E i \in KidsOf(fr[p]) : q = Kid(p, i)
  BY <1>1, <1>2, <1>5 DEF Body
<1>9. \A o : o \in DOMAIN M <=> /\ o \in DOMAIN leds
                                /\ ~(o = p /\ ~OwnsLedger(fr'[p]))
                                /\ o \notin DOMAIN fr \ DOMAIN fr'
  BY <1>1, <1>2, <1>3, <1>5, <1>7
<1>10. \A i \in KidsOf(fr[p]) : Kid(p, i) \in DOMAIN fr /\ fr[Kid(p, i)].st = "done"
  BY <1>1 DEF Body
<1>11. /\ \A o \in DOMAIN M : o # fr[p].led => M[o] = leds[o]
       /\ \A o \in DOMAIN M : DOMAIN M[o] = Slot
  BY DEF Writes
<1>12. KidsOf(fr[p]) \subseteq Nat /\ \A q \in DOMAIN fr' : q # p => fr'[q] = fr[q]
  BY <1>1, <1>2, <1>5
<1>13. Reaped(fr, fr', leds, M, p)
  BY <1>5, <1>6, <1>7, <1>8, <1>9, <1>10, <1>11, <1>12 DEF Reaped
<1> QED
  BY <1>13 DEF Moved

\* A frame starts its body, counting the pass or saving bindings on the way.
LEMMA EnterMoves ==
  ASSUME IInv, Tree, NEW p \in DOMAIN fr, KidsOf(fr[p]) = {},
         fr[p].kind \notin {"program", "actor", "map", "session_group"},
         NEW id \in DOMAIN Nodes, NEW path, Len(path) \in Nat, Prefix(fr[p].path, path),
         NEW iter, NEW led, led = fr[p].led \/ led = p,
         NEW G, \A q : q \in DOMAIN G <=> q \in DOMAIN fr \/ q = Body(p),
         \A q \in DOMAIN fr : q # p /\ q # Body(p) => G[q] = fr[q],
         G[Body(p)] = NodeFrame(id, path, iter, led),
         SameNode(fr[p], G[p]), G[p].st = "body", G[p].k \in Nat,
         G[p].items = fr[p].items, G[p].res = fr[p].res, G[p].ret = fr[p].ret,
         led = p => OwnsLedger(G[p]),
         NEW M, Writes(M, p),
         \A o : o \in DOMAIN M <=> o \in DOMAIN leds \/ (o = p /\ OwnsLedger(G[p]))
  PROVE  Moved(fr, G, leds, M, p)
<1>1. /\ Position(p) /\ Sound(fr[p]) /\ Shaped(fr[p])
      /\ fr[p].kind \in Kinds \cup {"item", "session"}
      /\ (p \in DOMAIN leds <=> OwnsLedger(fr[p]))
  BY LiveFrame
<1>2. Position(Body(p)) /\ Body(p) # p /\ Prefix(p, Body(p))
  BY <1>1, KidPosition DEF Body
<1>3. Body(p) \notin DOMAIN fr
  BY <1>2, BelowFrame DEF Tree
<1>4. Shaped(G[p]) /\ KidsOf(G[p]) = {1}
  <2>1. G[p].kind = fr[p].kind /\ G[p].st = "body"
    BY DEF SameNode
  <2>2. G[p].st \in StatesOf(G[p].kind)
    BY <1>1, <2>1 DEF StatesOf, Kinds
  <2>3. Shaped(G[p])
    BY <1>1, <2>1, <2>2 DEF Shaped
  <2>4. KidsOf(G[p]) = {1}
    BY <2>1 DEF KidsOf
  <2> QED
    BY <2>3, <2>4
<1> DEFINE g == NodeFrame(id, path, iter, led)
<1>5. /\ g.st = "new" /\ Shaped(g) /\ g.path = path /\ g.led = led
      /\ g.kind \notin {"item", "session"}
  <2>1. Nodes[id].kind \in Kinds
    BY WorkflowAssumption DEF Accepted, Nodes, IInv
  <2> QED
    BY <2>1, FrameShaped DEF NodeFrame, Frame, Kinds
<1> HIDE DEF g
<1>6. Born(p, 1, fr[p], g)
  <2>1. led # Body(p)
    <3>1. Len(Body(p)) = Len(p) + 1 /\ Len(p) \in Nat
      BY <1>1, KidPosition, PositionLen DEF Body
    <3>2. Len(fr[p].led) <= Len(p)
      BY DEF Tree, Ledgered, Prefix
    <3> QED
      BY <3>1, <3>2
  <2> QED
    BY <1>5, <2>1 DEF Born, Body
<1>7. \A i \in KidsOf(G[p]) :
        Born(p, i, fr[p], G[Kid(p, i)]) /\ (G[Kid(p, i)].led = p => OwnsLedger(G[p]))
  BY <1>4, <1>5, <1>6 DEF Body, g
<1>8. ~OwnsLedger(g)
  BY <1>5 DEF OwnsLedger
<1>9. OwnsLedger(fr[p]) => OwnsLedger(G[p])
  BY <1>1 DEF OwnsLedger, SameNode
<1>10. \A o : o \in DOMAIN M <=> \/ o \in DOMAIN leds
                                 \/ o = p /\ OwnsLedger(G[p])
                                 \/ o \in DOMAIN G \ DOMAIN fr /\ OwnsLedger(G[o])
  BY <1>8 DEF g
<1>11. \A q : q \in DOMAIN G <=> q \in DOMAIN fr \/ \E i \in KidsOf(G[p]) : q = Kid(p, i)
  BY <1>4 DEF Body
<1>12. \A q \in DOMAIN fr : q # p => G[q] = fr[q]
  BY <1>3
<1>13. /\ \A o \in DOMAIN leds : o # fr[p].led => M[o] = leds[o]
       /\ \A o \in DOMAIN M : DOMAIN M[o] = Slot
  BY <1>10 DEF Writes
<1>14. KidsOf(G[p]) \subseteq Nat
  BY <1>4
<1>15. Grown(fr, G, leds, M, p)
  BY <1>4, <1>7, <1>9, <1>10, <1>11, <1>12, <1>13, <1>14 DEF Grown
<1> QED
  BY <1>15 DEF Moved

\* What Enter makes of the frames, with what the loops count and save.
LEMMA EnterFrames ==
  ASSUME IInv, Tree, NEW p \in DOMAIN fr, NEW id, NEW path, NEW iter, NEW led
  PROVE  LET F == Enter(p, id, path, iter, led)
         IN  /\ \A q : q \in DOMAIN F <=> q \in DOMAIN fr \/ q = Body(p)
             /\ \A q \in DOMAIN fr : q # p /\ q # Body(p) => F[q] = fr[q]
             /\ F[Body(p)] = NodeFrame(id, path, iter, led)
             /\ SameNode(fr[p], F[p]) /\ F[p].st = "body" /\ DOMAIN F[p] = FrameFields
             /\ F[p].k = fr[p].k /\ F[p].items = fr[p].items
             /\ F[p].res = fr[p].res /\ F[p].ret = fr[p].ret
             /\ p # Body(p)
<1>1. DOMAIN fr[p] = FrameFields /\ p # Body(p)
  BY LiveFrame, KidPosition DEF Body
<1> DEFINE E == [fr EXCEPT ![p].st = "body"]
<1>2. /\ DOMAIN E = DOMAIN fr /\ \A q \in DOMAIN fr : q # p => E[q] = fr[q]
      /\ SameNode(fr[p], E[p]) /\ E[p].st = "body" /\ DOMAIN E[p] = FrameFields
      /\ E[p].k = fr[p].k /\ E[p].items = fr[p].items
      /\ E[p].res = fr[p].res /\ E[p].ret = fr[p].ret
  BY <1>1 DEF SameNode, FrameFields
<1> HIDE DEF E
<1>3. Enter(p, id, path, iter, led) = Put(E, Body(p), NodeFrame(id, path, iter, led))
  BY DEF Enter, E
<1> QED
  BY <1>1, <1>2, <1>3 DEF Put

-----------------------------------------------------------------------------
(* Every step at a frame moves the tree in one of these ways               *)

\* What a step at p does to the tree.
Moves(p) == Moved(fr, fr', leds, leds', p)

LEMMA StartFailsMoves ==
  ASSUME IInv, Tree, NEW p \in DOMAIN fr, fr[p].st = "new",
         fr[p].kind \notin {"item", "session"}, NEW e, StartFails(p, e)
  PROVE  Moves(p)
<1>1. KidsOf(fr[p]) = {} /\ ~OwnsLedger(fr[p])
  BY DEF KidsOf, OwnsLedger
<1>2. Moved(fr, Done(fr, p, Err(e)), leds, leds, p)
  BY <1>1, LeafDone, WritesNothing DEF Err
<1> QED
  BY <1>2 DEF Moves, StartFails

LEMMA CallMoves ==
  ASSUME IInv, Tree, NEW p \in DOMAIN fr,
         Program(p) \/ ProgramFails(p) \/ ActorStart(p) \/ ActorUnresolved(p)
         \/ (\E v : ActorReplies(p, v)) \/ (\E e : ActorFails(p, e))
  PROVE  Moves(p)
<1> USE DEF store, env, clock
<1>1. fr[p].kind \in {"program", "actor"} /\ KidsOf(fr[p]) = {} /\ ~OwnsLedger(fr[p])
  <2>1. fr[p].kind \in {"program", "actor"} /\ fr[p].st \in {"new", "driving"}
    BY DEF At, Program, ProgramFails, ActorStart, ActorUnresolved, ActorReplies, ActorFails
  <2> QED
    BY <2>1 DEF KidsOf, OwnsLedger
<1>2. \A v : DOMAIN Ok(v) = {"ok", "v"} /\ DOMAIN Err(v) = {"ok", "v"}
  BY DEF Ok, Err
<1>3. \A v : LET M == [leds EXCEPT ![fr[p].led] = Stored(@, Def(p), v)]
             IN  DOMAIN M = DOMAIN leds /\ Writes(M, p)
  BY StoredSlots, WritesOne DEF Led
<1>4. CASE Program(p)
  BY <1>1, <1>2, <1>3, <1>4, LeafDone DEF Program, Complete, Moves
<1>5. CASE ProgramFails(p) \/ ActorUnresolved(p)
  BY <1>1, <1>5, StartFailsMoves DEF ProgramFails, ActorUnresolved, At
<1>6. CASE ActorStart(p)
  <2>1. DOMAIN fr[p] = FrameFields /\ Shaped(fr[p]) /\ fr[p].kind = "actor"
    BY <1>6, LiveFrame DEF ActorStart, At
  <2>2. /\ DOMAIN fr' = DOMAIN fr /\ \A q \in DOMAIN fr : q # p => fr'[q] = fr[q]
        /\ SameNode(fr[p], fr'[p]) /\ fr'[p].st = "driving" /\ fr'[p].ret = fr[p].ret
        /\ fr'[p].k = fr[p].k /\ fr'[p].items = fr[p].items /\ fr'[p].res = fr[p].res
    BY <1>6, <2>1 DEF ActorStart, SameNode, FrameFields
  <2>3. Shaped(fr'[p]) /\ KidsOf(fr'[p]) = {} /\ ~OwnsLedger(fr'[p])
    BY <2>1, <2>2 DEF Shaped, SameNode, StatesOf, KidsOf, OwnsLedger
  <2> QED
    BY <1>1, <1>6, <2>2, <2>3, Altered, WritesNothing DEF ActorStart, Moves
<1>7. ASSUME NEW v, ActorReplies(p, v) PROVE Moves(p)
  <2>1. CASE Stores(Def(p), v)
    BY <1>1, <1>2, <1>3, <1>7, <2>1, LeafDone DEF ActorReplies, Complete, Moves
  <2>2. CASE ~Stores(Def(p), v)
    BY <1>1, <1>2, <1>7, <2>2, LeafDone, WritesNothing DEF ActorReplies, Moves
  <2> QED
    BY <2>1, <2>2
<1>8. ASSUME NEW e, ActorFails(p, e) PROVE Moves(p)
  BY <1>1, <1>2, <1>8, LeafDone, WritesNothing DEF ActorFails, Moves
<1> QED
  BY <1>4, <1>5, <1>6, <1>7, <1>8

LEMMA LoopMoves ==
  ASSUME IInv, Tree, NEW p \in DOMAIN fr,
         ForEachStart(p) \/ ForEachNext(p) \/ ForEachItemEnd(p) \/ ForEachEnd(p)
         \/ WhileStart(p) \/ WhilePass(p) \/ WhilePassEnd(p) \/ WhileEnd(p)
         \/ WhileUnresolved(p)
  PROVE  Moves(p)
<1> USE DEF store, env, clock
<1>1. fr[p].kind \in {"for_each", "while"} /\ fr[p].st \in {"new", "loop", "body"}
  BY DEF At, ForEachStart, ForEachNext, ForEachItemEnd, ForEachEnd, WhileStart, WhilePass,
     WhilePassEnd, WhileEnd, WhileUnresolved
<1>2. /\ DOMAIN fr[p] = FrameFields /\ Shaped(fr[p]) /\ Position(p) /\ p \notin DOMAIN leds
      /\ ~OwnsLedger(fr[p]) /\ Sound(fr[p]) /\ (fr[p].st # "body" => KidsOf(fr[p]) = {})
  BY <1>1, LiveFrame DEF OwnsLedger, KidsOf
<1>3. Def(p).body \in DOMAIN Nodes
  BY <1>1, <1>2, BodyNode DEF IInv
<1>4. DOMAIN Led(p) = Slot /\ Led(p) = leds[fr[p].led] /\ fr[p].led \in DOMAIN leds
  BY StoredSlots, LiveFrame DEF Led
<1>5. \A v : DOMAIN Ok(v) = {"ok", "v"} /\ DOMAIN Err(v) = {"ok", "v"}
  BY DEF Ok, Err
<1>6. ASSUME ForEachStart(p) PROVE Moves(p)
  <2>1. CASE IsArray(Led(p), Def(p).src)
    <3> DEFINE items == Led(p)[Def(p).src]
    <3>1. Len(items) \in Nat /\ fr[p].st = "new" /\ fr[p].kind = "for_each"
      BY <1>6, <2>1 DEF IsArray, ForEachStart, At
    <3>2. fr' = [fr EXCEPT ![p].st = "loop", ![p].items = items] /\ leds' = leds
      BY <1>6, <2>1 DEF ForEachStart
    <3> HIDE DEF items
    <3>3. /\ DOMAIN fr' = DOMAIN fr /\ \A q \in DOMAIN fr : q # p => fr'[q] = fr[q]
          /\ SameNode(fr[p], fr'[p]) /\ fr'[p].st = "loop" /\ fr'[p].ret = fr[p].ret
          /\ fr'[p].k = fr[p].k /\ fr'[p].items = items /\ fr'[p].res = fr[p].res
      BY <1>2, <3>2 DEF SameNode, FrameFields
    <3>4. Shaped(fr'[p]) /\ KidsOf(fr'[p]) = {} /\ ~OwnsLedger(fr'[p])
      BY <1>2, <3>1, <3>3 DEF Shaped, SameNode, StatesOf, KidsOf, OwnsLedger
    <3> QED
      BY <1>2, <3>1, <3>2, <3>3, <3>4, Altered, WritesNothing DEF Moves
  <2>2. CASE ~IsArray(Led(p), Def(p).src)
    BY <1>6, <2>2, StartFailsMoves DEF ForEachStart, At
  <2> QED
    BY <2>1, <2>2
<1>7. ASSUME ForEachNext(p) PROVE Moves(p)
  <2> DEFINE path == Index(fr[p].path, fr[p].k)
             F == Enter(p, Def(p).body, path, fr[p].iter, fr[p].led)
             l == BindItem(Led(p), Def(p).as, fr[p].items[fr[p].k + 1])
  <2>1. Len(path) \in Nat /\ Prefix(fr[p].path, path)
    BY <1>2 DEF Sound, IsPath, Index, Prefix
  <2>2. /\ fr' = [F EXCEPT ![p].k = @ + 1, ![p].saved = Led(p)]
        /\ leds' = [leds EXCEPT ![fr[p].led] = l] /\ DOMAIN l = Slot
        /\ fr[p].st = "loop" /\ fr[p].kind = "for_each"
    BY <1>4, <1>7 DEF ForEachNext, At, BindItem
  <2>3. /\ \A q : q \in DOMAIN F <=> q \in DOMAIN fr \/ q = Body(p)
        /\ \A q \in DOMAIN fr : q # p /\ q # Body(p) => F[q] = fr[q]
        /\ F[Body(p)] = NodeFrame(Def(p).body, path, fr[p].iter, fr[p].led)
        /\ SameNode(fr[p], F[p]) /\ F[p].st = "body" /\ DOMAIN F[p] = FrameFields
        /\ F[p].k = fr[p].k /\ F[p].items = fr[p].items
        /\ F[p].res = fr[p].res /\ F[p].ret = fr[p].ret
        /\ p # Body(p)
    BY EnterFrames
  <2> HIDE DEF F, path, l
  <2>4. /\ DOMAIN fr' = DOMAIN F /\ \A q \in DOMAIN F : q # p => fr'[q] = F[q]
        /\ SameNode(F[p], fr'[p]) /\ fr'[p].st = "body"
        /\ fr'[p].k = fr[p].k + 1 /\ fr'[p].items = fr[p].items
        /\ fr'[p].res = fr[p].res /\ fr'[p].ret = fr[p].ret
    BY <2>2, <2>3 DEF SameNode, FrameFields
  <2>5. /\ SameNode(fr[p], fr'[p]) /\ fr'[p].k \in Nat /\ ~OwnsLedger(fr'[p])
        /\ fr[p].led # p /\ fr[p].led \in {fr[p].led, p}
    BY <1>2, <1>4, <2>2, <2>3, <2>4 DEF SameNode, Shaped, OwnsLedger
  <2>6. /\ \A q : q \in DOMAIN fr' <=> q \in DOMAIN fr \/ q = Body(p)
        /\ \A q \in DOMAIN fr : q # p /\ q # Body(p) => fr'[q] = fr[q]
        /\ fr'[Body(p)] = NodeFrame(Def(p).body, path, fr[p].iter, fr[p].led)
    BY <2>3, <2>4
  <2>7. Writes(leds', p) /\ DOMAIN leds' = DOMAIN leds
    BY <2>2, WritesOne
  <2>8. KidsOf(fr[p]) = {}
        /\ fr[p].kind \notin {"program", "actor", "map", "session_group"}
        /\ \A o : o \in DOMAIN leds' <=> o \in DOMAIN leds \/ (o = p /\ OwnsLedger(fr'[p]))
    BY <1>2, <2>2, <2>5, <2>7
  <2>9. Moved(fr, fr', leds, leds', p)
    BY <1>3, <2>1, <2>4, <2>5, <2>6, <2>7, <2>8, EnterMoves
  <2> QED
    BY <2>9 DEF Moves
<1>8. ASSUME ForEachItemEnd(p) PROVE Moves(p)
  <2>1. Writes(leds', p) /\ DOMAIN leds' = DOMAIN leds /\ fr[p].st = "body"
    <3>1. DOMAIN Restored(p) = Slot
      BY DEF Restored, RestoreItem
    <3> QED
      BY <1>8, <3>1, WritesOne DEF ForEachItemEnd, At
  <2>2. CASE LoopOn(p)
    BY <1>1, <2>1, <2>2, LoopOnMoves DEF Moves
  <2>3. CASE BodyFails(p)
    BY <1>1, <1>2, <2>1, <2>3, BodyDone, BodyOwnsNothing DEF Moves, BodyFails
  <2> QED
    BY <1>8, <2>2, <2>3 DEF ForEachItemEnd
<1>9. ASSUME ForEachEnd(p) \/ WhileEnd(p) \/ WhileUnresolved(p) PROVE Moves(p)
  <2>1. leds' = leds /\ fr[p].st = "loop"
    BY <1>9 DEF ForEachEnd, WhileEnd, WhileUnresolved, At
  <2>2. PICK r : fr' = Done(fr, p, r) /\ DOMAIN r = {"ok", "v"}
    BY <1>5, <1>9 DEF ForEachEnd, WhileEnd, WhileUnresolved, Complete
  <2> QED
    BY <1>2, <2>1, <2>2, LeafDone, WritesNothing DEF Moves
<1>10. ASSUME WhileStart(p) PROVE Moves(p)
  <2>1. fr' = [fr EXCEPT ![p].st = "loop"] /\ leds' = leds /\ fr[p].st = "new"
    BY <1>10 DEF WhileStart, At
  <2>2. /\ DOMAIN fr' = DOMAIN fr /\ \A q \in DOMAIN fr : q # p => fr'[q] = fr[q]
        /\ SameNode(fr[p], fr'[p]) /\ fr'[p].st = "loop" /\ fr'[p].ret = fr[p].ret
        /\ fr'[p].k = fr[p].k /\ fr'[p].items = fr[p].items /\ fr'[p].res = fr[p].res
    BY <1>2, <2>1 DEF SameNode, FrameFields
  <2>3. Shaped(fr'[p]) /\ KidsOf(fr'[p]) = {} /\ ~OwnsLedger(fr'[p])
    BY <1>1, <1>2, <2>2 DEF Shaped, SameNode, StatesOf, KidsOf, OwnsLedger
  <2> QED
    BY <1>2, <2>1, <2>2, <2>3, Altered, WritesNothing DEF Moves
<1>11. ASSUME WhilePass(p) PROVE Moves(p)
  <2> DEFINE path == Child(fr[p].path, "body")
             F == Enter(p, Def(p).body, path, PassIteration(p), fr[p].led)
  <2>1. Len(path) \in Nat /\ Prefix(fr[p].path, path)
    BY <1>2 DEF Sound, IsPath, Child, Prefix
  <2>2. /\ fr' = [F EXCEPT ![p].k = @ + 1] /\ leds' = leds
        /\ fr[p].st = "loop" /\ fr[p].kind = "while"
    BY <1>11 DEF WhilePass, At
  <2>3. /\ \A q : q \in DOMAIN F <=> q \in DOMAIN fr \/ q = Body(p)
        /\ \A q \in DOMAIN fr : q # p /\ q # Body(p) => F[q] = fr[q]
        /\ F[Body(p)] = NodeFrame(Def(p).body, path, PassIteration(p), fr[p].led)
        /\ SameNode(fr[p], F[p]) /\ F[p].st = "body" /\ DOMAIN F[p] = FrameFields
        /\ F[p].k = fr[p].k /\ F[p].items = fr[p].items
        /\ F[p].res = fr[p].res /\ F[p].ret = fr[p].ret
        /\ p # Body(p)
    BY EnterFrames
  <2> HIDE DEF F, path
  <2>4. /\ DOMAIN fr' = DOMAIN F /\ \A q \in DOMAIN F : q # p => fr'[q] = F[q]
        /\ SameNode(F[p], fr'[p]) /\ fr'[p].st = "body"
        /\ fr'[p].k = fr[p].k + 1 /\ fr'[p].items = fr[p].items
        /\ fr'[p].res = fr[p].res /\ fr'[p].ret = fr[p].ret
    BY <2>2, <2>3 DEF SameNode, FrameFields
  <2>5. /\ SameNode(fr[p], fr'[p]) /\ fr'[p].k \in Nat /\ ~OwnsLedger(fr'[p])
        /\ fr[p].led # p /\ fr[p].led \in {fr[p].led, p}
    BY <1>2, <1>4, <2>2, <2>3, <2>4 DEF SameNode, Shaped, OwnsLedger
  <2>6. /\ \A q : q \in DOMAIN fr' <=> q \in DOMAIN fr \/ q = Body(p)
        /\ \A q \in DOMAIN fr : q # p /\ q # Body(p) => fr'[q] = fr[q]
        /\ fr'[Body(p)] = NodeFrame(Def(p).body, path, PassIteration(p), fr[p].led)
    BY <2>3, <2>4
  <2>7. Writes(leds', p)
    BY <2>2, WritesNothing
  <2>8. KidsOf(fr[p]) = {}
        /\ fr[p].kind \notin {"program", "actor", "map", "session_group"}
        /\ \A o : o \in DOMAIN leds' <=> o \in DOMAIN leds \/ (o = p /\ OwnsLedger(fr'[p]))
    BY <1>2, <2>2, <2>5
  <2>9. Moved(fr, fr', leds, leds', p)
    BY <1>3, <2>1, <2>4, <2>5, <2>6, <2>7, <2>8, EnterMoves
  <2> QED
    BY <2>9 DEF Moves
<1>12. ASSUME WhilePassEnd(p) PROVE Moves(p)
  <2>1. leds' = leds /\ fr[p].st = "body"
    BY <1>12 DEF WhilePassEnd, At
  <2>2. CASE LoopOn(p)
    BY <1>1, <2>1, <2>2, LoopOnMoves, WritesNothing DEF Moves
  <2>3. CASE BodyFails(p)
    BY <1>1, <1>2, <2>1, <2>3, BodyDone, BodyOwnsNothing, WritesNothing DEF Moves, BodyFails
  <2> QED
    BY <1>12, <2>2, <2>3 DEF WhilePassEnd
<1> QED
  BY <1>6, <1>7, <1>8, <1>9, <1>10, <1>11, <1>12

\* A step at p that does no more than start its body.
LEMMA EntersMoves ==
  ASSUME IInv, Tree, NEW p \in DOMAIN fr, KidsOf(fr[p]) = {},
         fr[p].kind \notin {"program", "actor", "map", "session_group"},
         NEW id \in DOMAIN Nodes, NEW path, Len(path) \in Nat, Prefix(fr[p].path, path),
         NEW iter, NEW led, led = fr[p].led \/ led = p,
         fr' = Enter(p, id, path, iter, led),
         led = p => fr[p].kind \in {"item", "session", "resume_session"},
         Writes(leds', p),
         \A o : o \in DOMAIN leds' <=> \/ o \in DOMAIN leds
                                       \/ o = p /\ fr[p].kind = "resume_session"
  PROVE  Moves(p)
<1>1. /\ \A q : q \in DOMAIN fr' <=> q \in DOMAIN fr \/ q = Body(p)
      /\ \A q \in DOMAIN fr : q # p /\ q # Body(p) => fr'[q] = fr[q]
      /\ fr'[Body(p)] = NodeFrame(id, path, iter, led)
      /\ SameNode(fr[p], fr'[p]) /\ fr'[p].st = "body"
      /\ fr'[p].k = fr[p].k /\ fr'[p].items = fr[p].items
      /\ fr'[p].res = fr[p].res /\ fr'[p].ret = fr[p].ret
  BY EnterFrames
<1>2. fr[p].k \in Nat /\ (p \in DOMAIN leds <=> OwnsLedger(fr[p]))
  BY LiveFrame DEF Shaped
<1>3. /\ OwnsLedger(fr'[p]) <=> fr[p].kind \in {"item", "session", "resume_session"}
      /\ fr[p].kind \in {"item", "session"} => p \in DOMAIN leds
  BY <1>1, <1>2 DEF OwnsLedger, SameNode
<1>4. \A o : o \in DOMAIN leds' <=> o \in DOMAIN leds \/ (o = p /\ OwnsLedger(fr'[p]))
  BY <1>3
<1>5. (led = p => OwnsLedger(fr'[p])) /\ fr'[p].k \in Nat
  BY <1>1, <1>2, <1>3
<1>6. Moved(fr, fr', leds, leds', p)
  BY <1>1, <1>4, <1>5, EnterMoves
<1> QED
  BY <1>6 DEF Moves

\* A step at p that waits for something before its body starts.
LEMMA WaitsMoves ==
  ASSUME IInv, Tree, NEW p \in DOMAIN fr, fr[p].st = "new",
         NEW st \in {"loading", "acquire"},
         st = "loading" => fr[p].kind = "resume_session",
         st = "acquire" => fr[p].kind = "session",
         fr' = [fr EXCEPT ![p].st = st], leds' = leds
  PROVE  Moves(p)
<1>1. DOMAIN fr[p] = FrameFields /\ Shaped(fr[p])
  BY LiveFrame
<1>2. /\ DOMAIN fr' = DOMAIN fr /\ \A q \in DOMAIN fr : q # p => fr'[q] = fr[q]
      /\ SameNode(fr[p], fr'[p]) /\ fr'[p].st = st /\ fr'[p].ret = fr[p].ret
      /\ fr'[p].k = fr[p].k /\ fr'[p].items = fr[p].items /\ fr'[p].res = fr[p].res
  BY <1>1 DEF SameNode, FrameFields
<1>3. fr'[p].st \in StatesOf(fr'[p].kind)
  BY <1>2 DEF StatesOf, SameNode
<1>4. Shaped(fr'[p])
  BY <1>1, <1>2, <1>3 DEF Shaped, SameNode
<1>5. KidsOf(fr[p]) = {} /\ KidsOf(fr'[p]) = {} /\ (OwnsLedger(fr[p]) <=> OwnsLedger(fr'[p]))
  BY <1>2 DEF SameNode, KidsOf, OwnsLedger
<1> QED
  BY <1>2, <1>4, <1>5, Altered, WritesNothing DEF Moves

LEMMA BranchMoves ==
  ASSUME IInv, Tree, NEW p \in DOMAIN fr,
         BranchStart(p) \/ BranchUnresolved(p) \/ PassOn(p)
         \/ ResumeStart(p) \/ (\E v : ResumeLoaded(p, v)) \/ (\E e : LoadFails(p, e))
  PROVE  Moves(p)
<1> USE DEF store, env, clock
<1>1. /\ fr[p].kind \in {"branch", "resume_session"}
      /\ fr[p].st \in {"new", "loading", "body"}
  BY DEF At, BranchStart, BranchUnresolved, PassOn, ResumeStart, ResumeLoaded, LoadFails
<1>2. /\ Shaped(fr[p]) /\ Position(p) /\ Sound(fr[p])
      /\ fr[p].st # "body" => p \notin DOMAIN leds /\ KidsOf(fr[p]) = {} /\ ~OwnsLedger(fr[p])
  BY <1>1, LiveFrame DEF OwnsLedger, KidsOf
<1>3. \A v : DOMAIN Ok(v) = {"ok", "v"} /\ DOMAIN Err(v) = {"ok", "v"}
  BY DEF Ok, Err
<1>4. \A x : Len(Child(fr[p].path, x)) \in Nat /\ Prefix(fr[p].path, Child(fr[p].path, x))
  BY <1>2 DEF Sound, IsPath, Child, Prefix
<1>5. ASSUME BranchStart(p) PROVE Moves(p)
  <2>1. leds' = leds /\ fr[p].st = "new" /\ fr[p].kind = "branch"
    BY <1>5 DEF BranchStart, At
  <2>2. CASE Target(p) = NoNode
    BY <1>2, <1>3, <1>5, <2>1, <2>2, LeafDone, WritesNothing DEF BranchStart, Complete, Moves
  <2>3. CASE Target(p) # NoNode
    <3>1. Target(p) \in DOMAIN Nodes
      BY <1>2, <2>1, <2>3, TargetNode DEF IInv
    <3>2. fr' = Enter(p, Target(p), Child(fr[p].path, Target(p)), fr[p].iter, fr[p].led)
      BY <1>5, <2>3 DEF BranchStart
    <3>3. fr[p].led # p
      BY <1>2, <2>1, LiveFrame
    <3>4. Writes(leds', p)
      BY <2>1, WritesNothing
    <3> QED
      BY <1>2, <1>4, <2>1, <3>1, <3>2, <3>3, <3>4, EntersMoves
  <2> QED
    BY <2>2, <2>3
<1>6. ASSUME BranchUnresolved(p) PROVE Moves(p)
  BY <1>1, <1>6, StartFailsMoves DEF BranchUnresolved, At
<1>7. ASSUME ResumeStart(p) PROVE Moves(p)
  BY <1>1, <1>7, StartFailsMoves, WaitsMoves DEF ResumeStart, At
<1>8. ASSUME NEW v, ResumeLoaded(p, v) PROVE Moves(p)
  <2> DEFINE l == BindItem(Led(p), "session", v)
  <2>1. /\ leds' = Put(leds, p, l) /\ fr[p].kind = "resume_session" /\ fr[p].st = "loading"
        /\ fr' = Enter(p, Def(p).body, Child(fr[p].path, "body"), fr[p].iter, p)
    BY <1>8 DEF ResumeLoaded, At
  <2>2. DOMAIN l = Slot
    BY DEF BindItem
  <2> HIDE DEF l
  <2>3. Def(p).body \in DOMAIN Nodes
    BY <1>2, <2>1, BodyNode DEF IInv
  <2>4. Writes(leds', p) /\ \A o : o \in DOMAIN leds' <=> o \in DOMAIN leds \/ o = p
    <3>1. /\ \A o : o \in DOMAIN leds' <=> o \in DOMAIN leds \/ o = p
          /\ leds'[p] = l /\ \A o \in DOMAIN leds : o # p => leds'[o] = leds[o]
      BY <2>1 DEF Put
    <3>2. p \notin DOMAIN leds
      BY <1>2, <2>1
    <3> QED
      BY <2>2, <3>1, <3>2 DEF Writes, Tree, LiveLedgers
  <2> QED
    BY <1>2, <1>4, <2>1, <2>3, <2>4, EntersMoves
<1>9. ASSUME NEW e, LoadFails(p, e) PROVE Moves(p)
  <2>1. leds' = leds /\ fr[p].st = "loading" /\ fr' = Done(fr, p, Err(e))
    BY <1>9 DEF LoadFails, At
  <2> QED
    BY <1>2, <1>3, <2>1, LeafDone, WritesNothing DEF Moves
<1>10. ASSUME PassOn(p) PROVE Moves(p)
  <2>1. /\ leds' = Without(leds, {p}) /\ fr[p].st = "body"
        /\ fr' = Done(Without(fr, {Body(p)}), p, fr[Body(p)].ret) /\ IsDone(Body(p))
    BY <1>10 DEF PassOn, BodyFails, At
  <2>2. DOMAIN fr[Body(p)].ret = {"ok", "v"}
    BY <2>1, BodyOwnsNothing
  <2>3. /\ \A o : o \in DOMAIN leds' <=> o \in DOMAIN leds /\ o # p
        /\ \A o \in DOMAIN leds' : leds'[o] = leds[o]
    BY <2>1 DEF Without
  <2>4. Writes(leds', p)
    BY <2>3 DEF Writes, Tree, LiveLedgers
  <2> QED
    BY <1>1, <2>1, <2>2, <2>3, <2>4, BodyDone DEF Moves
<1> QED
  BY <1>5, <1>6, <1>7, <1>8, <1>9, <1>10

LEMMA FutureMoves ==
  ASSUME IInv, Tree, NEW p \in DOMAIN fr,
         ItemStart(p) \/ ItemEnd(p) \/ SessionStart(p) \/ SessionAcquire(p) \/ SessionEnd(p)
  PROVE  Moves(p)
<1> USE DEF store, env, clock
<1>1. /\ fr[p].kind \in {"item", "session"} /\ fr[p].st \in {"new", "acquire", "body"}
      /\ leds' = leds
  BY DEF At, ItemStart, ItemEnd, SessionStart, SessionAcquire, SessionEnd
<1>2. Sound(fr[p]) /\ Def(p).body \in DOMAIN Nodes /\ Writes(leds', p)
  BY <1>1, LiveFrame, BodyNode, WritesNothing DEF IInv
<1>3. ItemStart(p) => Enter(p, Def(p).body, fr[p].path, fr[p].iter, p) = fr'
  BY DEF ItemStart, ItemLedger
<1>4. Len(fr[p].path) \in Nat /\ Prefix(fr[p].path, fr[p].path)
  BY LiveFrame
<1>5. \A x : Len(Child(fr[p].path, x)) \in Nat /\ Prefix(fr[p].path, Child(fr[p].path, x))
  BY <1>2 DEF Sound, IsPath, Child, Prefix
<1>6. CASE ItemStart(p)
  <2>1. KidsOf(fr[p]) = {}
    BY <1>1, <1>6 DEF KidsOf, ItemStart, At
  <2> QED
    BY <1>1, <1>2, <1>3, <1>4, <1>6, <2>1, EntersMoves
<1>7. CASE fr' = EnterSession(p) /\ fr[p].st # "body"
  <2>1. KidsOf(fr[p]) = {}
    BY <1>1, <1>7 DEF KidsOf
  <2> QED
    BY <1>1, <1>2, <1>5, <1>7, <2>1, EntersMoves DEF EnterSession
<1>8. CASE SessionStart(p) /\ Def(p).limit # NoLimit
  BY <1>1, <1>8, WaitsMoves DEF SessionStart, At
<1>9. CASE ItemEnd(p) \/ SessionEnd(p)
  <2>1. /\ fr[p].st = "body" /\ IsDone(Body(p))
        /\ fr' = Done(Without(fr, {Body(p)}), p, fr[Body(p)].ret)
    BY <1>9 DEF ItemEnd, SessionEnd, At
  <2>2. DOMAIN fr[Body(p)].ret = {"ok", "v"}
    BY <2>1, BodyOwnsNothing
  <2> QED
    BY <1>1, <1>2, <2>1, <2>2, BodyDone DEF Moves
<1> QED
  BY <1>6, <1>7, <1>8, <1>9 DEF SessionStart, SessionAcquire, At

\* A map or a group starts the futures K.
LEMMA FanMoves ==
  ASSUME IInv, Tree, NEW p \in DOMAIN fr, KidsOf(fr[p]) = {},
         fr[p].kind \in {"map", "session_group"}, NEW K \in SUBSET Nat,
         NEW G, \A q : q \in DOMAIN G <=> q \in DOMAIN fr \/ \E i \in K : q = Kid(p, i),
         \A q \in DOMAIN fr : q # p => G[q] = fr[q],
         SameNode(fr[p], G[p]), Shaped(G[p]), KidsOf(G[p]) = K,
         OwnsLedger(fr[p]) => OwnsLedger(G[p]),
         OwnsLedger(G[p]) => p \in DOMAIN leds,
         \A i \in K : LET g == G[Kid(p, i)]
                      IN  /\ g.st = "new" /\ Shaped(g) /\ g.kind \in {"item", "session"}
                          /\ Prefix(fr[p].path, g.path) /\ Len(g.path) \in Nat
                          /\ g.led = Kid(p, i),
         NEW M, \A o : o \in DOMAIN M <=> o \in DOMAIN leds \/ \E i \in K : o = Kid(p, i),
         \A o \in DOMAIN leds : M[o] = leds[o],
         \A i \in K : DOMAIN M[Kid(p, i)] = Slot
  PROVE  Moved(fr, G, leds, M, p)
<1>1. Position(p)
  BY LiveFrame
<1>2. \A i \in K : Kid(p, i) # p /\ Kid(p, i) \notin DOMAIN fr
  <2>1. ASSUME NEW i \in K PROVE Kid(p, i) # p /\ Kid(p, i) \notin DOMAIN fr
    <3>1. Kid(p, i) # p /\ Prefix(p, Kid(p, i))
      BY <1>1, KidPosition
    <3> QED
      BY <3>1, BelowFrame DEF Tree
  <2> QED
    BY <2>1
<1>3. \A i \in K : Born(p, i, fr[p], G[Kid(p, i)]) /\ G[Kid(p, i)].led # p
  BY <1>2 DEF Born
<1>4. \A o : o \in DOMAIN M <=> \/ o \in DOMAIN leds
                                \/ o = p /\ OwnsLedger(G[p])
                                \/ o \in DOMAIN G \ DOMAIN fr /\ OwnsLedger(G[o])
  <2>1. \A q : q \in DOMAIN G \ DOMAIN fr <=> \E i \in K : q = Kid(p, i)
    BY <1>2
  <2>2. \A i \in K : OwnsLedger(G[Kid(p, i)])
    BY DEF OwnsLedger
  <2> QED
    BY <2>1, <2>2
<1>5. \A o \in DOMAIN M : DOMAIN M[o] = Slot
  BY DEF Tree, LiveLedgers
<1>6. Grown(fr, G, leds, M, p)
  BY <1>3, <1>4, <1>5 DEF Grown
<1> QED
  BY <1>6 DEF Moved

LEMMA MapWidth ==
  ASSUME IInv, Tree, NEW p \in DOMAIN fr, fr[p].kind = "map" PROVE Width(Def(p)) \in Nat
<1>1. Sound(fr[p]) /\ Nodes[fr[p].node].kind = "map"
  BY LiveFrame DEF Sound
<1>2. Def(p).width \in Nat /\ MapConcurrency \in Nat
  BY <1>1, WorkflowAssumption DEF Accepted, IInv, Sound, Def, Nodes, MapConcurrency
<1> QED
  BY <1>2 DEF Width, Larger

LEMMA DispatchMoves == ASSUME IInv, Tree, NEW p \in DOMAIN fr, Dispatch(p) PROVE Moves(p)
<1>1. /\ fr[p].kind = "map" /\ fr[p].st = "fan" /\ Position(p) /\ Shaped(fr[p])
      /\ DOMAIN fr[p] = FrameFields /\ OwnsLedger(fr[p]) /\ p \in DOMAIN leds
      /\ Len(fr[p].path) \in Nat /\ Sound(fr[p])
  BY LiveFrame DEF Dispatch, At, OwnsLedger
<1>2. Len(fr[p].res) = fr[p].k /\ fr[p].k \in Nat /\ Len(fr[p].items) \in Nat
      /\ fr[p].k < Len(fr[p].items)
  BY <1>1 DEF Dispatch, Shaped
<1> DEFINE hi == Smaller(fr[p].k + Width(Def(p)), Len(fr[p].items))
           I == fr[p].k + 1 .. hi
           K == {Kid(p, i) : i \in I}
           A == [fr EXCEPT ![p].k = hi]
           B == [q \in K |-> Frame("item", fr[p].node, Index(fr[p].path, q[Len(q)] - 1),
                                   fr[p].iter, q)]
           N == [q \in K |-> BindItem(leds[p], Def(p).as, fr[p].items[q[Len(q)]])]
<1>3. fr' = Plus(A, B) /\ leds' = Plus(leds, N)
  BY DEF Dispatch
<1>4. hi \in Nat /\ hi <= Len(fr[p].items) /\ fr[p].k <= hi
  <2>1. Width(Def(p)) \in Nat
    BY <1>1, MapWidth
  <2> QED
    BY <1>2, <2>1 DEF Smaller
<1> HIDE DEF hi
<1>5. I \subseteq Nat
  BY <1>2, <1>4
<1> HIDE DEF I
<1>6. /\ DOMAIN A = DOMAIN fr /\ \A q \in DOMAIN fr : q # p => A[q] = fr[q]
      /\ SameNode(fr[p], A[p]) /\ A[p].st = "fan" /\ A[p].ret = fr[p].ret
      /\ A[p].k = hi /\ A[p].items = fr[p].items /\ A[p].res = fr[p].res
  BY <1>1 DEF SameNode, FrameFields
<1>7. /\ DOMAIN B = K /\ DOMAIN N = K
      /\ \A q \in K : B[q] = Frame("item", fr[p].node, Index(fr[p].path, q[Len(q)] - 1),
                                   fr[p].iter, q)
      /\ \A q \in K : DOMAIN N[q] = Slot
  BY DEF BindItem
<1> HIDE DEF A, B, N
<1>8. \A i \in I : Kid(p, i) \notin DOMAIN fr /\ Kid(p, i) \notin DOMAIN leds
  <2>1. ASSUME NEW i \in I PROVE Kid(p, i) \notin DOMAIN fr /\ Kid(p, i) \notin DOMAIN leds
    <3>1. Kid(p, i) # p /\ Prefix(p, Kid(p, i)) /\ Len(Kid(p, i)) = Len(p) + 1
      BY <1>1, <1>5, KidPosition
    <3>2. KidsOf(fr[p]) = {}
      BY <1>1, <1>2 DEF KidsOf
    <3>3. Kid(p, i) \notin DOMAIN fr
      BY <3>1, <3>2, BelowFrame DEF Tree
    <3>4. Kid(p, i) # Root
      BY <1>1, <3>1, PositionLen, EmptySeq DEF Root
    <3> QED
      BY <3>3, <3>4 DEF Tree, LiveLedgers
  <2> QED
    BY <2>1
<1>9. /\ \A q : q \in DOMAIN fr' <=> q \in DOMAIN fr \/ \E i \in I : q = Kid(p, i)
      /\ \A q \in DOMAIN fr : fr'[q] = A[q]
      /\ \A i \in I : fr'[Kid(p, i)] = B[Kid(p, i)]
  BY <1>3, <1>6, <1>7, <1>8 DEF Plus
<1>10. /\ \A o : o \in DOMAIN leds' <=> o \in DOMAIN leds \/ \E i \in I : o = Kid(p, i)
       /\ \A o \in DOMAIN leds : leds'[o] = leds[o]
       /\ \A i \in I : leds'[Kid(p, i)] = N[Kid(p, i)]
  BY <1>3, <1>7, <1>8 DEF Plus
<1>11. /\ \A q \in DOMAIN fr : q # p => fr'[q] = fr[q]
       /\ SameNode(fr[p], fr'[p]) /\ KidsOf(fr'[p]) = I /\ OwnsLedger(fr'[p])
       /\ Shaped(fr'[p])
  <2>1. fr'[p] = A[p] /\ A[p].kind = "map"
    BY <1>1, <1>6, <1>9 DEF SameNode
  <2>2. KidsOf(A[p]) = I /\ OwnsLedger(A[p])
    BY <1>2, <1>6, <2>1 DEF KidsOf, OwnsLedger, I
  <2>3. Shaped(A[p])
    BY <1>1, <1>2, <1>4, <1>6, <2>1 DEF Shaped
  <2> QED
    BY <1>6, <1>9, <2>1, <2>2, <2>3
<1>12. \A i \in I : LET g == fr'[Kid(p, i)]
                    IN  /\ g.st = "new" /\ Shaped(g) /\ g.kind \in {"item", "session"}
                        /\ Prefix(fr[p].path, g.path) /\ Len(g.path) \in Nat
                        /\ g.led = Kid(p, i)
  <2>1. \A x : /\ Prefix(fr[p].path, Index(fr[p].path, x))
               /\ Len(Index(fr[p].path, x)) \in Nat
    BY <1>1 DEF Index, Sound, IsPath, Prefix
  <2>2. ASSUME NEW q \in K
        PROVE  /\ B[q].st = "new" /\ Shaped(B[q]) /\ B[q].kind = "item" /\ B[q].led = q
               /\ \E x : B[q].path = Index(fr[p].path, x)
    <3>1. B[q] = Frame("item", fr[p].node, Index(fr[p].path, q[Len(q)] - 1), fr[p].iter, q)
      BY <1>7
    <3>2. Shaped(B[q])
      BY <3>1, FrameShaped
    <3> QED
      BY <3>1, <3>2 DEF Frame
  <2>3. ASSUME NEW i \in I
        PROVE  LET g == fr'[Kid(p, i)]
               IN  /\ g.st = "new" /\ Shaped(g) /\ g.kind \in {"item", "session"}
                   /\ Prefix(fr[p].path, g.path) /\ Len(g.path) \in Nat
                   /\ g.led = Kid(p, i)
    <3>1. Kid(p, i) \in K /\ fr'[Kid(p, i)] = B[Kid(p, i)]
      BY <1>9
    <3> HIDE DEF K
    <3> QED
      BY <2>1, <2>2, <3>1
  <2> QED
    BY <2>3
<1>13. KidsOf(fr[p]) = {}
  BY <1>1, <1>2 DEF KidsOf
<1>14. \A i \in I : DOMAIN leds'[Kid(p, i)] = Slot
  BY <1>7, <1>10
<1>15. OwnsLedger(fr'[p]) => p \in DOMAIN leds
  BY <1>1
<1>16. fr[p].kind \in {"map", "session_group"} /\ I \in SUBSET Nat
  BY <1>1, <1>5
<1>17. Moved(fr, fr', leds, leds', p)
  BY <1>9, <1>10, <1>11, <1>12, <1>13, <1>14, <1>15, <1>16, FanMoves
<1> QED
  BY <1>17 DEF Moves

LEMMA MapStartMoves == ASSUME IInv, Tree, NEW p \in DOMAIN fr, MapStart(p) PROVE Moves(p)
<1>1. /\ fr[p].kind = "map" /\ fr[p].st = "new" /\ Shaped(fr[p])
      /\ DOMAIN fr[p] = FrameFields /\ p \notin DOMAIN leds
  BY LiveFrame DEF MapStart, At, OwnsLedger
<1>2. CASE Prepared(p)
  <2> DEFINE items == Led(p)[Def(p).src]
  <2>1. Len(items) \in Nat
    BY <1>2 DEF Prepared, IsArray
  <2>2. fr' = [fr EXCEPT ![p].st = "fan", ![p].items = items] /\ leds' = Put(leds, p, Led(p))
    BY <1>2 DEF MapStart
  <2> HIDE DEF items
  <2>3. /\ DOMAIN fr' = DOMAIN fr /\ \A q \in DOMAIN fr : q # p => fr'[q] = fr[q]
        /\ SameNode(fr[p], fr'[p]) /\ fr'[p].st = "fan" /\ fr'[p].ret = fr[p].ret
        /\ fr'[p].k = fr[p].k /\ fr'[p].items = items /\ fr'[p].res = fr[p].res
    BY <1>1, <2>2 DEF SameNode, FrameFields
  <2>4. fr[p].k = 0 /\ Len(fr[p].res) = 0
    <3>1. Len(fr[p].res) \in Nat
      BY <1>1 DEF Shaped, IsSeq
    <3> QED
      BY <1>1, <3>1 DEF Shaped
  <2>5. /\ Shaped(fr'[p]) /\ KidsOf(fr'[p]) = {} /\ OwnsLedger(fr'[p])
        /\ KidsOf(fr[p]) = {} /\ ~OwnsLedger(fr[p])
    <3>1. fr'[p].kind = "map"
      BY <1>1, <2>3 DEF SameNode
    <3>2. Shaped(fr'[p])
      BY <1>1, <2>1, <2>3, <2>4, <3>1 DEF Shaped, StatesOf
    <3> QED
      BY <1>1, <2>3, <2>4, <3>1, <3>2 DEF KidsOf, OwnsLedger
  <2>6. /\ \A o : o \in DOMAIN leds' <=> o \in DOMAIN leds \/ o = p
        /\ \A o \in DOMAIN leds : leds'[o] = leds[o]
        /\ \A o \in DOMAIN leds' : DOMAIN leds'[o] = Slot
    <3>1. /\ \A o : o \in DOMAIN leds' <=> o \in DOMAIN leds \/ o = p
          /\ leds'[p] = Led(p) /\ \A o \in DOMAIN leds : o # p => leds'[o] = leds[o]
      BY <2>2 DEF Put
    <3>2. DOMAIN Led(p) = Slot
      BY StoredSlots
    <3> QED
      BY <1>1, <3>1, <3>2 DEF Tree, LiveLedgers
  <2>7. Grown(fr, fr', leds, leds', p)
    BY <2>3, <2>5, <2>6 DEF Grown
  <2> QED
    BY <2>7 DEF Moves, Moved
<1>3. CASE ~Prepared(p)
  BY <1>1, <1>3, StartFailsMoves DEF MapStart
<1> QED
  BY <1>2, <1>3

LEMMA MapEndMoves == ASSUME IInv, Tree, NEW p \in DOMAIN fr, MapEnd(p) PROVE Moves(p)
<1>1. fr[p].kind = "map" /\ fr[p].st = "fan" /\ Shaped(fr[p]) /\ Len(fr[p].res) = fr[p].k
  BY LiveFrame DEF MapEnd, At
<1>2. KidsOf(fr[p]) = {}
  BY <1>1 DEF KidsOf, Shaped
<1>3. \A v : DOMAIN Ok(v) = {"ok", "v"} /\ DOMAIN Err(v) = {"ok", "v"}
  BY DEF Ok, Err
<1>4. PICK r : fr' = Done(fr, p, r) /\ DOMAIN r = {"ok", "v"}
  BY <1>3 DEF MapEnd, Complete
<1>5. PICK N : leds' = Without(N, {p}) /\ DOMAIN N = DOMAIN leds /\ Writes(N, p)
  <2> DEFINE N == [leds EXCEPT ![fr[p].led] = Stored(@, Def(p), MapValue(p))]
  <2>1. CASE GatePassed(p)
    <3>1. leds' = Without(N, {p})
      BY <2>1 DEF MapEnd
    <3>2. DOMAIN N = DOMAIN leds /\ Writes(N, p)
      BY StoredSlots, WritesOne DEF Led
    <3> QED
      BY <3>1, <3>2
  <2>2. CASE ~GatePassed(p)
    BY <2>2, WritesNothing DEF MapEnd
  <2> QED
    BY <2>1, <2>2
<1>6. /\ \A o : o \in DOMAIN leds' <=> o \in DOMAIN leds /\ o # p
      /\ \A o \in DOMAIN leds' : leds'[o] = N[o]
  BY <1>5 DEF Without
<1>7. Writes(leds', p)
  BY <1>5, <1>6 DEF Writes
<1> DEFINE P == {Kid(p, i) : i \in KidsOf(fr[p])}
<1>8. P = {} /\ Joined(P) /\ Finished(fr', P, p, r)
  BY <1>2, <1>4, DoneFinished DEF Joined
<1>9. \A o : o \in DOMAIN leds' <=> /\ o \in DOMAIN leds /\ o \notin P
                                    /\ o = p => fr[p].kind \in {"item", "session"}
  BY <1>1, <1>6, <1>8
<1>10. KidsOf(fr[p]) \subseteq Nat
  BY <1>2
<1>11. P = {Kid(p, i) : i \in KidsOf(fr[p])}
  OBVIOUS
<1> HIDE DEF P
<1>12. Moved(fr, fr', leds, leds', p)
  BY <1>4, <1>7, <1>8, <1>9, <1>10, <1>11, FinishedMoves
<1> QED
  BY <1>12 DEF Moves

LEMMA CollectMoves == ASSUME IInv, Tree, NEW p \in DOMAIN fr, Collect(p) PROVE Moves(p)
<1>1. /\ fr[p].kind = "map" /\ fr[p].st = "fan" /\ Shaped(fr[p]) /\ Position(p)
      /\ DOMAIN fr[p] = FrameFields /\ p \in DOMAIN leds
  BY LiveFrame DEF Collect, At, OwnsLedger
<1> DEFINE n == Len(fr[p].res)
           m == fr[p].k - n
           P == {Kid(p, n + i) : i \in 1 .. m}
           S == [i \in 1 .. m |-> fr[Kid(p, n + i)].ret]
           W == Without(fr, P)
<1>2. Joined(P) /\ fr' = [W EXCEPT ![p].res = @ \o S] /\ leds' = Without(leds, P) /\ m > 0
  BY DEF Collect, Reclaimed
<1>3. n \in Nat /\ m \in Nat /\ fr[p].k = n + m /\ fr[p].k \in Nat
  BY <1>1 DEF Shaped, IsSeq
<1>4. KidsOf(fr[p]) = n + 1 .. n + m /\ KidsOf(fr[p]) \subseteq Nat
  BY <1>1, <1>3 DEF KidsOf
<1> HIDE DEF m
<1>5. \A q : q \in P <=> \E i \in KidsOf(fr[p]) : q = Kid(p, i)
  <2>1. ASSUME NEW j \in n + 1 .. n + m PROVE j - n \in 1 .. m /\ n + (j - n) = j
    BY <1>3
  <2>2. \A i \in 1 .. m : n + i \in n + 1 .. n + m
    BY <1>3
  <2>3. \A j \in n + 1 .. n + m : \E i \in 1 .. m : Kid(p, j) = Kid(p, n + i)
    BY <2>1
  <2> QED
    BY <1>4, <2>2, <2>3
<1> HIDE DEF P
<1>6. p \notin P
  BY <1>1, <1>4, <1>5, KidPosition
<1>7. /\ \A q : q \in DOMAIN W <=> q \in DOMAIN fr /\ q \notin P
      /\ \A q \in DOMAIN W : W[q] = fr[q]
      /\ p \in DOMAIN W
  BY <1>6 DEF Without
<1>8. Len(S) = m /\ S \in Seq({S[i] : i \in 1 .. m})
  <2> DEFINE g(i) == fr[Kid(p, n + i)].ret
             T == {S[i] : i \in 1 .. m}
  <2>1. S = [i \in 1 .. m |-> g(i)] /\ \A i \in 1 .. m : g(i) = S[i]
    OBVIOUS
  <2>2. \A i \in 1 .. m : g(i) \in T
    BY <2>1
  <2> HIDE DEF g, S, T
  <2>3. S \in [1 .. m -> T]
    BY <2>1, <2>2
  <2>4. S \in Seq(T) /\ Len(S) = m
    BY <1>3, <2>3, LenProperties
  <2> QED
    BY <2>4 DEF T
<1> HIDE DEF W, S
<1>9. /\ DOMAIN fr' = DOMAIN W /\ \A q \in DOMAIN W : q # p => fr'[q] = fr[q]
      /\ SameNode(fr[p], fr'[p]) /\ fr'[p].st = "fan" /\ fr'[p].ret = fr[p].ret
      /\ fr'[p].k = fr[p].k /\ fr'[p].items = fr[p].items /\ fr'[p].res = fr[p].res \o S
  BY <1>1, <1>2, <1>7 DEF SameNode, FrameFields
<1>10. IsSeq(fr'[p].res) /\ Len(fr'[p].res) = n + m
  <2> DEFINE a == fr[p].res
             T == {a[i] : i \in 1 .. n} \cup {S[i] : i \in 1 .. m}
             c == a \o S
  <2>1. a \in Seq(T) /\ S \in Seq(T)
    <3>1. a \in Seq({a[i] : i \in 1 .. n})
      BY <1>1 DEF Shaped, IsSeq
    <3> HIDE DEF a
    <3>2. a \in Seq(T)
      BY <3>1
    <3> QED
      BY <1>8, <3>2
  <2>2. c \in Seq(T) /\ Len(c) = n + m
    BY <1>8, <2>1, ConcatProperties
  <2> HIDE DEF c, T
  <2>3. SubSeq(c, 1, Len(c)) = c
    BY <2>2, SubSeqFull
  <2>4. SubSeq(c, 1, Len(c)) \in Seq({c[i] : i \in 1 .. Len(c)})
    BY <1>3, <2>2, SubSeqProperties
  <2> QED
    BY <1>9, <2>2, <2>3, <2>4 DEF IsSeq, c
<1>11. Shaped(fr'[p]) /\ KidsOf(fr'[p]) = {} /\ OwnsLedger(fr[p]) /\ OwnsLedger(fr'[p])
  <2>1. fr'[p].kind = "map"
    BY <1>1, <1>9 DEF SameNode
  <2>2. Shaped(fr'[p])
    BY <1>1, <1>3, <1>9, <1>10, <2>1 DEF Shaped, StatesOf
  <2>3. KidsOf(fr'[p]) = {}
    BY <1>3, <1>9, <1>10, <2>1 DEF KidsOf
  <2> QED
    BY <1>1, <1>9, <2>1, <2>2, <2>3 DEF OwnsLedger
<1>12. /\ \A o : o \in DOMAIN leds' <=> o \in DOMAIN leds /\ o \notin P
       /\ \A o \in DOMAIN leds' : leds'[o] = leds[o]
  BY <1>2 DEF Without
<1>13. \A i \in KidsOf(fr[p]) : Kid(p, i) \in DOMAIN fr /\ fr[Kid(p, i)].st = "done"
  BY <1>2, <1>5 DEF Joined, IsDone
<1>14. \A q : q \in DOMAIN fr \ DOMAIN fr' <=> q \in P
  BY <1>5, <1>7, <1>9, <1>13
<1>15. \A o : o \in DOMAIN leds' <=> /\ o \in DOMAIN leds
                                     /\ ~(o = p /\ ~OwnsLedger(fr'[p]))
                                     /\ o \notin DOMAIN fr \ DOMAIN fr'
  BY <1>11, <1>12, <1>14
<1>16. \A q : q \in DOMAIN fr' <=> q \in DOMAIN fr /\ ~\E i \in KidsOf(fr[p]) : q = Kid(p, i)
  BY <1>5, <1>7, <1>9
<1>17. \A o \in DOMAIN leds' : DOMAIN leds'[o] = Slot
  BY <1>12 DEF Tree, LiveLedgers
<1>18. Reaped(fr, fr', leds, leds', p)
  BY <1>4, <1>9, <1>11, <1>12, <1>13, <1>15, <1>16, <1>17 DEF Reaped
<1> QED
  BY <1>18 DEF Moves, Moved

LEMMA LeastNat ==
  ASSUME NEW S \in SUBSET Nat, S # {} PROVE \E x \in S : \A y \in S : x <= y
<1> DEFINE R == {ss \in Nat \X Nat : ss[1] < ss[2]}
<1>1. IsWellFoundedOn(R, Nat)
  BY NatLessThanWellFounded DEF OpToRel
<1>2. \A x, y \in Nat : <<y, x>> \in R <=> y < x
  OBVIOUS
<1> HIDE DEF R
<1>3. PICK x \in S : \A y \in S : ~(<<y, x>> \in R)
  BY <1>1, WFMin
<1>4. ASSUME NEW y \in S PROVE x <= y
  <2>1. x \in Nat /\ y \in Nat
    OBVIOUS
  <2>2. ~(y < x)
    BY <1>2, <1>3, <2>1
  <2> QED
    BY <2>1, <2>2
<1> QED
  BY <1>4

LEMMA GroupJoinMoves == ASSUME IInv, Tree, NEW p \in DOMAIN fr, GroupJoin(p) PROVE Moves(p)
<1>1. /\ fr[p].kind = "session_group" /\ fr[p].st = "join" /\ Shaped(fr[p]) /\ Position(p)
      /\ p \notin DOMAIN leds
  BY LiveFrame DEF GroupJoin, At, OwnsLedger
<1> DEFINE n == Len(fr[p].items)
           P == {Kid(p, i) : i \in 1 .. n}
           ret(i) == fr[Kid(p, i)].ret
           bad == {i \in 1 .. n : ~ret(i).ok}
           first == CHOOSE i \in bad : \A j \in bad : i <= j
           r == IF bad = {} THEN Ok([i \in 1 .. n |-> ret(i).v]) ELSE ret(first)
<1>2. Joined(P) /\ fr' = Done(Without(fr, P), p, r) /\ leds' = Without(leds, P)
  BY DEF GroupJoin, Reclaimed
<1>3. n \in Nat /\ KidsOf(fr[p]) = 1 .. n
  BY <1>1 DEF Shaped, KidsOf
<1>4. \A i \in 1 .. n : /\ Kid(p, i) \in DOMAIN fr /\ DOMAIN ret(i) = {"ok", "v"}
                        /\ Kid(p, i) # p
  <2>1. ASSUME NEW i \in 1 .. n
        PROVE  Kid(p, i) \in DOMAIN fr /\ DOMAIN ret(i) = {"ok", "v"} /\ Kid(p, i) # p
    <3>1. Kid(p, i) \in DOMAIN fr
      BY <1>2 DEF Joined, IsDone
    <3>2. DOMAIN fr[Kid(p, i)].ret = {"ok", "v"}
      BY <3>1, LiveFrame DEF Shaped
    <3>3. i \in Nat
      BY <1>3
    <3> QED
      BY <1>1, <3>1, <3>2, <3>3, KidPosition
  <2> QED
    BY <2>1
<1>5. DOMAIN r = {"ok", "v"}
  <2>1. CASE bad = {}
    BY <2>1 DEF Ok
  <2>2. CASE bad # {}
    <3>1. bad \in SUBSET Nat
      BY <1>3
    <3> HIDE DEF bad
    <3>2. first \in bad
      BY <2>2, <3>1, LeastNat
    <3> QED
      BY <1>4, <2>2, <3>2 DEF bad
  <2> QED
    BY <2>1, <2>2
<1> HIDE DEF r
<1>6. p \notin P
  BY <1>4
<1>7. Finished(fr', P, p, r)
  BY <1>2, <1>6, DoneFinished
<1>8. /\ \A o : o \in DOMAIN leds' <=> o \in DOMAIN leds /\ o \notin P
      /\ \A o \in DOMAIN leds' : leds'[o] = leds[o]
  BY <1>2 DEF Without
<1>9. Writes(leds', p)
  BY <1>8 DEF Writes, Tree, LiveLedgers
<1>10. P = {Kid(p, i) : i \in KidsOf(fr[p])} /\ KidsOf(fr[p]) \subseteq Nat
  BY <1>3
<1>11. \A o : o \in DOMAIN leds' <=> /\ o \in DOMAIN leds /\ o \notin P
                                     /\ o = p => fr[p].kind \in {"item", "session"}
  BY <1>1, <1>8
<1> HIDE DEF P
<1>12. Moved(fr, fr', leds, leds', p)
  BY <1>2, <1>5, <1>7, <1>9, <1>10, <1>11, FinishedMoves
<1> QED
  BY <1>12 DEF Moves

LEMMA GroupStartMoves == ASSUME IInv, Tree, NEW p \in DOMAIN fr, GroupStart(p) PROVE Moves(p)
<1>1. /\ fr[p].kind = "session_group" /\ fr[p].st = "new" /\ Position(p) /\ Shaped(fr[p])
      /\ DOMAIN fr[p] = FrameFields /\ p \notin DOMAIN leds /\ Sound(fr[p])
      /\ KidsOf(fr[p]) = {} /\ ~OwnsLedger(fr[p])
  BY LiveFrame DEF GroupStart, At, OwnsLedger, KidsOf
<1>2. CASE IsArray(Led(p), Def(p).src)
  <2> DEFINE items == Led(p)[Def(p).src]
             I == 1 .. Len(items)
             K == {Kid(p, i) : i \in I}
             A == [fr EXCEPT ![p].st = "join", ![p].items = items]
             B == [q \in K |-> Frame("session", fr[p].node, SessionPath(p, q[Len(q)]), 0, q)]
             N == [q \in K |-> BindItem(Led(p), "item", items[q[Len(q)]])]
  <2>1. fr' = Plus(A, B) /\ leds' = Plus(leds, N)
    BY <1>2 DEF GroupStart
  <2>2. Len(items) \in Nat
    BY <1>2 DEF IsArray
  <2> HIDE DEF items
  <2>3. I \subseteq Nat
    BY <2>2
  <2> HIDE DEF I
  <2>4. /\ DOMAIN A = DOMAIN fr /\ \A q \in DOMAIN fr : q # p => A[q] = fr[q]
        /\ SameNode(fr[p], A[p]) /\ A[p].st = "join" /\ A[p].ret = fr[p].ret
        /\ A[p].k = fr[p].k /\ A[p].items = items /\ A[p].res = fr[p].res
    BY <1>1 DEF SameNode, FrameFields
  <2>5. /\ DOMAIN B = K /\ DOMAIN N = K
        /\ \A q \in K : B[q] = Frame("session", fr[p].node, SessionPath(p, q[Len(q)]), 0, q)
        /\ \A q \in K : DOMAIN N[q] = Slot
    BY DEF BindItem
  <2> HIDE DEF A, B, N
  <2>6. \A i \in I : Kid(p, i) \notin DOMAIN fr /\ Kid(p, i) \notin DOMAIN leds
    <3>1. ASSUME NEW i \in I PROVE Kid(p, i) \notin DOMAIN fr /\ Kid(p, i) \notin DOMAIN leds
      <4>1. Kid(p, i) # p /\ Prefix(p, Kid(p, i)) /\ Len(Kid(p, i)) = Len(p) + 1
        BY <1>1, <2>3, KidPosition
      <4>2. Kid(p, i) \notin DOMAIN fr
        BY <1>1, <4>1, BelowFrame DEF Tree
      <4>3. Kid(p, i) # Root
        BY <1>1, <4>1, PositionLen, EmptySeq DEF Root
      <4> QED
        BY <4>2, <4>3 DEF Tree, LiveLedgers
    <3> QED
      BY <3>1
  <2>7. /\ \A q : q \in DOMAIN fr' <=> q \in DOMAIN fr \/ \E i \in I : q = Kid(p, i)
        /\ \A q \in DOMAIN fr : fr'[q] = A[q]
        /\ \A i \in I : fr'[Kid(p, i)] = B[Kid(p, i)]
    BY <2>1, <2>4, <2>5, <2>6 DEF Plus
  <2>8. /\ \A o : o \in DOMAIN leds' <=> o \in DOMAIN leds \/ \E i \in I : o = Kid(p, i)
        /\ \A o \in DOMAIN leds : leds'[o] = leds[o]
        /\ \A i \in I : leds'[Kid(p, i)] = N[Kid(p, i)]
    BY <2>1, <2>5, <2>6 DEF Plus
  <2>9. /\ \A q \in DOMAIN fr : q # p => fr'[q] = fr[q]
        /\ SameNode(fr[p], fr'[p]) /\ KidsOf(fr'[p]) = I /\ ~OwnsLedger(fr'[p])
        /\ Shaped(fr'[p])
    <3>1. fr'[p] = A[p] /\ A[p].kind = "session_group"
      BY <1>1, <2>4, <2>7 DEF SameNode
    <3>2. KidsOf(A[p]) = I /\ ~OwnsLedger(A[p])
      BY <2>4, <3>1 DEF KidsOf, OwnsLedger, I
    <3>3. Shaped(A[p])
      BY <1>1, <2>2, <2>4, <3>1 DEF Shaped, StatesOf
    <3> QED
      BY <2>4, <2>7, <3>1, <3>2, <3>3
  <2>10. \A i \in I : LET g == fr'[Kid(p, i)]
                      IN  /\ g.st = "new" /\ Shaped(g) /\ g.kind \in {"item", "session"}
                          /\ Prefix(fr[p].path, g.path) /\ Len(g.path) \in Nat
                          /\ g.led = Kid(p, i)
    <3>1. \A x : /\ Prefix(fr[p].path, SessionPath(p, x))
                 /\ Len(SessionPath(p, x)) \in Nat
      BY <1>1 DEF SessionPath, Child, Sound, IsPath, Prefix
    <3>2. ASSUME NEW q \in K
          PROVE  /\ B[q].st = "new" /\ Shaped(B[q]) /\ B[q].kind = "session" /\ B[q].led = q
                 /\ \E x : B[q].path = SessionPath(p, x)
      <4>1. B[q] = Frame("session", fr[p].node, SessionPath(p, q[Len(q)]), 0, q)
        BY <2>5
      <4>2. Shaped(B[q])
        BY <4>1, FrameShaped
      <4> QED
        BY <4>1, <4>2 DEF Frame
    <3>3. ASSUME NEW i \in I
          PROVE  LET g == fr'[Kid(p, i)]
                 IN  /\ g.st = "new" /\ Shaped(g) /\ g.kind \in {"item", "session"}
                     /\ Prefix(fr[p].path, g.path) /\ Len(g.path) \in Nat
                     /\ g.led = Kid(p, i)
      <4>1. Kid(p, i) \in K /\ fr'[Kid(p, i)] = B[Kid(p, i)]
        BY <2>7
      <4> HIDE DEF K
      <4> QED
        BY <3>1, <3>2, <4>1
    <3> QED
      BY <3>3
  <2>11. \A i \in I : DOMAIN leds'[Kid(p, i)] = Slot
    BY <2>5, <2>8
  <2>12. fr[p].kind \in {"map", "session_group"} /\ I \in SUBSET Nat
    BY <1>1, <2>3
  <2>13. Moved(fr, fr', leds, leds', p)
    BY <1>1, <2>7, <2>8, <2>9, <2>10, <2>11, <2>12, FanMoves
  <2> QED
    BY <2>13 DEF Moves
<1>3. CASE ~IsArray(Led(p), Def(p).src)
  BY <1>1, <1>3, StartFailsMoves DEF GroupStart
<1> QED
  BY <1>2, <1>3

\* Whatever the runner or the host does at a frame, the tree grows or is reaped
\* there.
LEMMA StepMoves ==
  ASSUME IInv, Tree, NEW p \in DOMAIN fr, FrameStep(p) \/ HostStep(p) PROVE Moves(p)
<1>1. CASE FrameStep(p)
  BY <1>1, CallMoves, LoopMoves, BranchMoves, FutureMoves, MapStartMoves, MapEndMoves,
     CollectMoves, DispatchMoves, GroupStartMoves, GroupJoinMoves DEF FrameStep
<1>2. CASE HostStep(p)
  BY <1>2, CallMoves, BranchMoves DEF HostStep
<1> QED
  BY <1>1, <1>2

-----------------------------------------------------------------------------
(* The invariant                                                           *)

LEMMA TreeInit == Init => Tree
<1> SUFFICES ASSUME Init PROVE Tree
  OBVIOUS
<1>1. DOMAIN fr = {}
  BY DEF Init
<1>2. Rooted(fr) /\ Ledgered(fr) /\ \A p \in DOMAIN fr : Shaped(fr[p])
  BY <1>1 DEF Rooted, Ledgered
<1>3. LiveLedgers(fr, leds)
  <2>1. DOMAIN leds = {Root} /\ DOMAIN leds[Root] = Slot
    BY DEF Init, StartLedgers, Put
  <2> QED
    BY <1>1, <2>1 DEF LiveLedgers
<1>4. run.st = "entry" /\ run.k = 0
  BY DEF Init, StartRun
<1>5. Len(Entrypoint) \in Nat
  BY WorkflowAssumption DEF Init, Accepted, Entrypoint
<1> QED
  BY <1>2, <1>3, <1>4, <1>5 DEF Tree

\* A tree of one node.
LEMMA RunNodeTree ==
  ASSUME NEW id, NEW L, DOMAIN L = {Root}, DOMAIN L[Root] = Slot,
         Nodes[id].kind \notin {"item", "session"}
  PROVE  LET F == RunNode(id)
         IN  /\ \A p \in DOMAIN F : Shaped(F[p])
             /\ Rooted(F) /\ Ledgered(F) /\ LiveLedgers(F, L)
<1> DEFINE F == RunNode(id)
           b == Body(Root)
           f == NodeFrame(id, Child(Root, id), 0, Root)
<1>1. DOMAIN F = {b} /\ F[b] = f
  BY DEF RunNode, Put
<1>2. b \in Seq(Nat) /\ Len(b) = 1 /\ b[1] = 1 /\ Root \in Seq(Nat) /\ Len(Root) = 0
  BY DEF Body, Kid, Root
<1>3. Shaped(f) /\ f.st = "new" /\ f.led = Root /\ f.kind \notin {"item", "session"}
  BY FrameShaped DEF NodeFrame, Frame
<1> HIDE DEF F, f, b
<1>4. Rooted(F)
  <2>1. SubSeq(b, 1, Len(b)) = b
    BY <1>2, SubSeqFull
  <2>2. \A n \in 1 .. Len(b) : SubSeq(b, 1, n) = b
    BY <1>2, <2>1
  <2>3. Position(b)
    BY <1>2 DEF Position
  <2> QED
    BY <1>1, <2>2, <2>3 DEF Rooted
<1>5. Ledgered(F)
  <2>1. Prefix(Root, b) /\ Root # b /\ Prefix(b, b)
    BY <1>2 DEF Prefix
  <2> QED
    BY <1>1, <1>2, <1>3, <2>1 DEF Ledgered, Apart
<1>6. LiveLedgers(F, L)
  BY <1>1, <1>3 DEF LiveLedgers, OwnsLedger
<1> QED
  BY <1>1, <1>3, <1>4, <1>5, <1>6 DEF F

\* Once the entry it ran is done, or before there is one, the run has no ledger
\* but its own.
LEMMA OnlyRunLedger ==
  ASSUME IInv, Tree, fr = <<>> \/ IsDone(Body(Root)) PROVE DOMAIN leds = {Root}
<1>1. ASSUME NEW o \in DOMAIN leds, o # Root PROVE FALSE
  <2>1. o \in DOMAIN fr /\ OwnsLedger(fr[o]) /\ Position(o)
    BY <1>1 DEF Tree, LiveLedgers, Rooted
  <2>2. IsDone(Body(Root))
    BY <2>1
  <2> DEFINE b == Body(Root)
  <2>3. b \in Seq(Nat) /\ Len(b) = 1 /\ b[1] = 1
    BY DEF Body, Kid, Root
  <2>4. b \in DOMAIN fr /\ fr[b].st = "done"
    BY <2>2 DEF IsDone
  <2> HIDE DEF b
  <2>5. Prefix(b, o)
    BY <2>1, <2>3 DEF Prefix, Position
  <2>6. o = b
    <3>1. KidsOf(fr[b]) = {}
      BY <2>4 DEF KidsOf
    <3> QED
      BY <2>1, <2>4, <2>5, <3>1, BelowFrame DEF Tree
  <2>7. fr[b].kind \in {"item", "session"}
    BY <2>1, <2>4, <2>6 DEF OwnsLedger
  <2>8. Len(b) > 1
    BY <2>4, <2>7 DEF Tree, Ledgered
  <2> QED
    BY <2>3, <2>8
<1> QED
  BY <1>1 DEF Tree, LiveLedgers

LEMMA MovedTree ==
  ASSUME Tree, NEW p \in DOMAIN fr, Moves(p), UNCHANGED <<wf, run>> PROVE Tree'
<1>1. Rooted(fr') /\ Ledgered(fr') /\ LiveLedgers(fr', leds')
  <2>1. Rooted(fr) /\ Ledgered(fr) /\ LiveLedgers(fr, leds)
    BY DEF Tree
  <2>2. CASE Grown(fr, fr', leds, leds', p)
    BY <2>1, <2>2, GrownRooted, GrownLedgered, GrownLedgers
  <2>3. CASE Reaped(fr, fr', leds, leds', p)
    BY <2>1, <2>3, ReapedRooted, ReapedLedgered, ReapedLedgers
  <2> QED
    BY <2>2, <2>3 DEF Moves, Moved
<1>2. \A q \in DOMAIN fr' : Shaped(fr'[q])
  <2>1. CASE Grown(fr, fr', leds, leds', p)
    BY <2>1 DEF Grown, Born, Tree
  <2>2. CASE Reaped(fr, fr', leds, leds', p)
    BY <2>2 DEF Reaped, Tree
  <2> QED
    BY <2>1, <2>2 DEF Moves, Moved
<1>3. run.st \notin {"settle", "done"}
  BY DEF Tree
<1>4. LiveLedgers(fr, leds)'
  BY <1>1 DEF LiveLedgers, Slot
<1> QED
  BY <1>1, <1>2, <1>3, <1>4 DEF Tree, Entrypoint

\* Starting the entry, or the finalize node, id.
LEMMA RunNodeStepTree ==
  ASSUME IInv, Tree, fr = <<>>, NEW id \in DOMAIN Nodes, fr' = RunNode(id),
         UNCHANGED <<wf, leds>>, run'.st \in {"entry", "final"}, run'.k <= Len(Entrypoint)
  PROVE  Tree'
<1>1. DOMAIN leds = {Root} /\ DOMAIN leds[Root] = Slot
  BY OnlyRunLedger DEF Tree, LiveLedgers
<1>2. Nodes[id].kind \notin {"item", "session"}
  BY WorkflowAssumption DEF IInv, Accepted, Nodes, Kinds
<1>3. /\ \A p \in DOMAIN fr' : Shaped(fr'[p])
      /\ Rooted(fr') /\ Ledgered(fr') /\ LiveLedgers(fr', leds)
  BY <1>1, <1>2, RunNodeTree
<1>4. LiveLedgers(fr, leds)'
  BY <1>3 DEF LiveLedgers, Slot
<1> QED
  BY <1>3, <1>4 DEF Tree, Entrypoint

\* The tree is gone and nothing but the run is left.
LEMMA NoFramesTree ==
  ASSUME DOMAIN leds = {Root}, Tree, fr' = <<>>, UNCHANGED <<wf, leds>>,
         run'.st \in {"entry", "final", "settle", "done"}, run'.k <= Len(Entrypoint)
  PROVE  Tree'
<1>1. DOMAIN fr' = {}
  OBVIOUS
<1>2. DOMAIN leds[Root] = Slot
  BY DEF Tree, LiveLedgers
<1>3. Rooted(fr') /\ Ledgered(fr') /\ LiveLedgers(fr, leds)'
  BY <1>1, <1>2 DEF Rooted, Ledgered, LiveLedgers, Slot
<1> QED
  BY <1>1, <1>3 DEF Tree, Entrypoint

LEMMA RunStepTree == ASSUME IInv, Tree, RunStep, UNCHANGED wf PROVE Tree'
<1> USE DEF store, clock
<1>1. DOMAIN run = RunFields /\ run.k \in Nat /\ run.k <= Len(Entrypoint)
  BY DEF IInv, Tree
<1>2. Entrypoint \in Seq(DOMAIN Nodes) /\ Len(Entrypoint) \in Nat
  BY WorkflowAssumption DEF IInv, Accepted, Entrypoint, Nodes
<1>3. CASE EntryStart
  <2>1. Entrypoint[run.k + 1] \in DOMAIN Nodes
    BY <1>1, <1>2, <1>3 DEF EntryStart
  <2>2. run'.st = "entry" /\ run'.k <= Len(Entrypoint)
    BY <1>1, <1>2, <1>3 DEF EntryStart, RunFields
  <2> QED
    BY <1>3, <2>1, <2>2, RunNodeStepTree DEF EntryStart
<1>4. CASE EntryEnd
  <2>1. run'.st \in {"entry", "final", "settle", "done"} /\ run'.k = run.k
    BY <1>1, <1>4 DEF EntryEnd, WindUp, RunFields
  <2> QED
    BY <1>1, <1>4, <2>1, OnlyRunLedger, NoFramesTree DEF EntryEnd
<1>5. CASE EntriesExhausted
  <2>1. run'.st = "settle" /\ run'.k = run.k
    BY <1>1, <1>5 DEF EntriesExhausted, RunFields
  <2> QED
    BY <1>1, <1>5, <2>1, OnlyRunLedger, NoFramesTree DEF EntriesExhausted
<1>6. CASE FinalStart
  <2>1. CASE FinalizeNode \in DOMAIN Nodes
    BY <1>1, <1>6, <2>1, RunNodeStepTree DEF FinalStart
  <2>2. CASE FinalizeNode \notin DOMAIN Nodes
    <3>1. run'.st = "settle" /\ run'.k = run.k
      BY <1>1, <1>6, <2>2 DEF FinalStart, RunFields
    <3> QED
      BY <1>1, <1>6, <2>2, <3>1, OnlyRunLedger, NoFramesTree DEF FinalStart
  <2> QED
    BY <2>1, <2>2
<1>7. CASE FinalEnd
  <2>1. run'.st = "settle" /\ run'.k = run.k
    BY <1>1, <1>7 DEF FinalEnd, RunFields
  <2> QED
    BY <1>1, <1>7, <2>1, OnlyRunLedger, NoFramesTree DEF FinalEnd
<1>8. CASE Settle
  <2>1. run'.st = "done" /\ run'.k = run.k /\ fr = <<>>
    BY <1>1, <1>8 DEF Settle, RunFields, Tree
  <2> QED
    BY <1>1, <1>8, <2>1, OnlyRunLedger, NoFramesTree DEF Settle
<1> QED
  BY <1>3, <1>4, <1>5, <1>6, <1>7, <1>8 DEF RunStep

LEMMA TreeStep == IInv /\ Tree /\ [Next]_vars => Tree'
<1> SUFFICES ASSUME IInv, Tree, [Next]_vars PROVE Tree'
  OBVIOUS
<1>1. CASE UNCHANGED vars
  <2>1. /\ fr' = fr /\ leds' = leds /\ run' = run /\ wf' = wf
    BY <1>1 DEF vars
  <2>2. LiveLedgers(fr, leds)'
    BY <2>1 DEF Tree, LiveLedgers, Slot
  <2> QED
    BY <2>1, <2>2 DEF Tree, Entrypoint
<1>2. ASSUME NEW p \in DOMAIN fr, FrameStep(p) \/ HostStep(p), UNCHANGED wf PROVE Tree'
  <2>1. Moves(p) /\ run' = run
    BY <1>2, StepMoves, FrameStepKeeps DEF Keeps
  <2> QED
    BY <1>2, <2>1, MovedTree
<1>3. CASE RunStep /\ UNCHANGED wf
  BY <1>3, RunStepTree
<1> QED
  BY <1>1, <1>2, <1>3 DEF Next, Progress, Returned

\* The frames are a tree, in every run of every accepted workflow.
LEMMA TreeInvariant == Spec => [](IInv /\ Tree)
<1>1. Init => Tree
  BY TreeInit
<1>2. IInv /\ Tree /\ [Next]_vars => Tree'
  BY TreeStep
<1> QED
  BY <1>1, <1>2, Invariant, PTL DEF Spec

-----------------------------------------------------------------------------
(* Structured concurrency and isolation                                    *)

\* No future outlives the one that joins it, every future but an entry has its
\* parent, and a run that is over has left no future and no ledger behind: in
\* every workflow, however its nodes nest and its futures interleave.
THEOREM FuturesAreJoined == Spec => []StructuredJoin
<1>1. ASSUME IInv, Tree PROVE StructuredJoin
  <2>1. ASSUME NEW p \in DOMAIN fr, NEW q \in DOMAIN fr, Proper(p, q)
        PROVE  fr[p].st \notin {"new", "done"}
    <3>1. Position(p) /\ Position(q) /\ Len(p) \in Nat /\ Len(q) \in Nat
      BY <1>1, LiveFrame, PositionLen
    <3>2. Len(p) \in 1 .. Len(q) /\ SubSeq(q, 1, Len(p)) = p /\ p # q
      BY <2>1, <3>1, PositionLen DEF Proper
    <3>3. Prefix(p, q)
      BY <3>1, <3>2, CutPosition
    <3>4. KidsOf(fr[p]) # {}
      BY <1>1, <3>2, <3>3, BelowFrame DEF Tree
    <3> QED
      BY <3>4 DEF KidsOf
  <2>2. ASSUME NEW q \in DOMAIN fr, Len(q) > 1 PROVE SubSeq(q, 1, Len(q) - 1) \in DOMAIN fr
    <3>1. Len(q) - 1 \in 1 .. Len(q)
      BY <1>1, <2>2, LiveFrame, PositionLen
    <3> QED
      BY <1>1, <3>1 DEF Tree, Rooted
  <2>3. run.st \in {"settle", "done"} => fr = <<>> /\ DOMAIN leds = {Root}
    BY <1>1, OnlyRunLedger DEF Tree
  <2> QED
    BY <2>1, <2>2, <2>3 DEF StructuredJoin
<1> QED
  BY <1>1, TreeInvariant, PTL

LEMMA OwnStepKeepsLedger ==
  ASSUME IInv, Tree, Tree', NEW p \in DOMAIN fr, FrameStep(p) \/ HostStep(p),
         At(p, "map", "fan"), At(p, "map", "fan")'
  PROVE  leds'[fr[p].led] = leds[fr[p].led]
<1>1. fr[p].kind = "map" /\ fr[p].st = "fan" /\ p \in DOMAIN fr' /\ fr'[p].st = "fan"
  BY DEF At
<1>2. Dispatch(p) \/ Collect(p) \/ MapEnd(p)
  <2>1. CASE FrameStep(p)
    BY <1>1, <2>1 DEF FrameStep, At, Program, ProgramFails, ActorStart, ActorUnresolved,
       MapStart, ItemStart, ItemEnd, ForEachStart, ForEachNext, ForEachItemEnd, ForEachEnd,
       WhileStart, WhilePass, WhilePassEnd, WhileEnd, WhileUnresolved, BranchStart,
       BranchUnresolved, ResumeStart, PassOn, GroupStart, SessionStart, SessionAcquire,
       SessionEnd, GroupJoin
  <2>2. CASE HostStep(p)
    BY <1>1, <2>2 DEF HostStep, At, ActorReplies, ActorFails, ResumeLoaded, LoadFails
  <2> QED
    BY <2>1, <2>2
<1>3. fr[p].led \in DOMAIN leds
  BY LiveFrame
<1>4. CASE Dispatch(p)
  BY <1>3, <1>4 DEF Dispatch, Plus
<1>5. CASE Collect(p)
  <2>1. PICK P : leds' = Without(leds, P)
    BY <1>5 DEF Collect, Reclaimed
  <2>2. fr'[p].led = fr[p].led
    BY StepMoves DEF Moves, Moved, Grown, Reaped, SameNode
  <2>3. fr[p].led \in DOMAIN leds'
    BY <1>1, <2>2 DEF Tree, LiveLedgers
  <2> QED
    BY <2>1, <2>3 DEF Without
<1>6. CASE MapEnd(p)
  <2>1. PICK r : fr' = Done(fr, p, r)
    BY <1>6 DEF MapEnd, Complete
  <2>2. DOMAIN fr[p] = FrameFields
    BY LiveFrame
  <2> QED
    BY <1>1, <2>1, <2>2 DEF Done, FrameFields
<1> QED
  BY <1>2, <1>4, <1>5, <1>6

\* While a map is fanned out nothing writes the ledger it was given: no item,
\* nothing below an item, at whatever depth, and no other future of the run.
THEOREM ItemsAreIsolated == Spec => FanIsolation
<1>1. ASSUME IInv, Tree, Tree', [Next]_vars, NEW p \in DOMAIN fr,
             At(p, "map", "fan"), At(p, "map", "fan")'
      PROVE  leds'[fr[p].led] = leds[fr[p].led]
  <2>1. CASE UNCHANGED vars
    BY <2>1 DEF vars
  <2>2. ASSUME NEW x \in DOMAIN fr, FrameStep(x) \/ HostStep(x)
        PROVE  leds'[fr[p].led] = leds[fr[p].led]
    <3>1. CASE x = p
      BY <1>1, <2>2, <3>1, OwnStepKeepsLedger
    <3>2. CASE x # p
      <4>1. Moved(fr, fr', leds, leds', x)
        BY <1>1, <2>2, StepMoves DEF Moves
      <4> QED
        BY <1>1, <3>2, <4>1, OthersLedger DEF Tree, At
    <3> QED
      BY <3>1, <3>2
  <2>3. CASE RunStep
    BY <2>3 DEF RunStep, EntryStart, EntryEnd, EntriesExhausted, FinalStart, FinalEnd, Settle,
       store
  <2> QED
    BY <1>1, <2>1, <2>2, <2>3 DEF Next, Progress, Returned
<1>2. IInv /\ Tree /\ Tree' /\ [Next]_vars =>
        [\A p \in DOMAIN fr : At(p, "map", "fan") /\ At(p, "map", "fan")'
                                => leds'[fr[p].led] = leds[fr[p].led]]_vars
  BY <1>1
<1> QED
  BY <1>2, TreeInvariant, PTL DEF Spec, FanIsolation

-----------------------------------------------------------------------------
(* The logical clock                                                       *)

\* Every event was emitted before what its lane counts next, at an address of
\* its own.
Clock ==
  /\ \A lane \in DOMAIN seqs : seqs[lane] \in Nat
  /\ \A e \in events : e.seq \in Nat /\ e.seq < NextSeq(e.lane)
  /\ \A d, e \in events : d.lane = e.lane /\ d.seq = e.seq => d = e

Event(lane, n, x) == [lane |-> lane, seq |-> n, kind |-> x.kind, pay |-> x.pay]

LEMMA NextSeqNat == ASSUME Clock, NEW lane PROVE NextSeq(lane) \in Nat
BY DEF Clock, NextSeq

LEMMA EmitOne ==
  ASSUME Clock, NEW lane, NEW x, Emit(lane, <<x>>)
  PROVE  /\ seqs' = Put(seqs, lane, NextSeq(lane) + 1)
         /\ events' = events \cup {Event(lane, NextSeq(lane), x)}
<1>1. Len(<<x>>) = 1 /\ <<x>>[1] = x /\ NextSeq(lane) \in Nat
  BY NextSeqNat
<1>2. {[lane |-> lane, seq |-> NextSeq(lane) + i - 1, kind |-> <<x>>[i].kind,
        pay |-> <<x>>[i].pay] : i \in 1 .. Len(<<x>>)} = {Event(lane, NextSeq(lane), x)}
  BY <1>1 DEF Event
<1> QED
  BY <1>1, <1>2 DEF Emit

LEMMA TwoElements ==
  ASSUME NEW x, NEW y
  PROVE  /\ Len(<<x>> \o <<y>>) = 2
         /\ (<<x>> \o <<y>>)[1] = x /\ (<<x>> \o <<y>>)[2] = y
<1>1. <<x>> \in Seq({x, y}) /\ Len(<<x>>) = 1 /\ <<y>> \in Seq({x, y}) /\ Len(<<y>>) = 1
  OBVIOUS
<1>2. /\ Len(<<x>> \o <<y>>) = 2
      /\ \A i \in 1 .. 2 : (<<x>> \o <<y>>)[i] = IF i <= 1 THEN <<x>>[i] ELSE <<y>>[i - 1]
  BY <1>1, ConcatProperties
<1> QED
  BY <1>2

LEMMA EmitTwo ==
  ASSUME Clock, NEW lane, NEW x, NEW y, Emit(lane, <<x>> \o <<y>>)
  PROVE  /\ seqs' = Put(seqs, lane, NextSeq(lane) + 2)
         /\ events' = events \cup {Event(lane, NextSeq(lane), x),
                                   Event(lane, NextSeq(lane) + 1, y)}
<1> DEFINE es == <<x>> \o <<y>>
           n == NextSeq(lane)
<1>1. Len(es) = 2 /\ es[1] = x /\ es[2] = y /\ n \in Nat
  BY NextSeqNat, TwoElements
<1>2. /\ seqs' = Put(seqs, lane, n + Len(es))
      /\ events' = events \cup {[lane |-> lane, seq |-> n + i - 1, kind |-> es[i].kind,
                                 pay |-> es[i].pay] : i \in 1 .. Len(es)}
  BY DEF Emit
<1> HIDE DEF es, n
<1>3. {[lane |-> lane, seq |-> n + i - 1, kind |-> es[i].kind, pay |-> es[i].pay] :
         i \in 1 .. Len(es)} = {Event(lane, n, x), Event(lane, n + 1, y)}
  BY <1>1 DEF Event
<1> QED
  BY <1>1, <1>2, <1>3 DEF n

\* What a step at p emits is nothing, one event or two of different kinds in S.
Spoke(lane, S) ==
  \/ UNCHANGED clock
  \/ \E x : x.kind \in S /\ Emit(lane, <<x>>)
  \/ \E x, y : x.kind \in S /\ y.kind \in S /\ x.kind # y.kind /\ Emit(lane, <<x>> \o <<y>>)

LEMMA SpokeClock ==
  ASSUME Clock, NEW lane, NEW S, Spoke(lane, S)
  PROVE  /\ Clock'
         /\ events \subseteq events'
         /\ \A e \in events' \ events : e.lane = lane /\ e.kind \in S
         /\ \A other : other # lane => NextSeq(other)' = NextSeq(other)
         /\ NextSeq(lane)' >= NextSeq(lane)
<1> DEFINE n == NextSeq(lane)
<1>1. n \in Nat
  BY NextSeqNat
<1>2. CASE UNCHANGED clock
  BY <1>1, <1>2 DEF clock, Clock, NextSeq
<1>3. ASSUME NEW m \in Nat, m > 0, seqs' = Put(seqs, lane, n + m), NEW E,
             events' = events \cup E,
             \A e \in E : e.lane = lane /\ e.kind \in S /\ e.seq \in Nat /\ n <= e.seq
                          /\ e.seq < n + m,
             \A d, e \in E : d.seq = e.seq => d = e
      PROVE  /\ Clock'
             /\ events \subseteq events'
             /\ \A e \in events' \ events : e.lane = lane /\ e.kind \in S
             /\ \A other : other # lane => NextSeq(other)' = NextSeq(other)
             /\ NextSeq(lane)' >= NextSeq(lane)
  <2>1. /\ NextSeq(lane)' = n + m
        /\ \A other : other # lane => NextSeq(other)' = NextSeq(other)
    BY <1>3 DEF Put, NextSeq
  <2>2. \A l \in DOMAIN seqs' : seqs'[l] \in Nat
    BY <1>1, <1>3 DEF Clock, Put
  <2>3. \A e \in events' : e.seq \in Nat /\ e.seq < NextSeq(e.lane)'
    BY <1>1, <1>3, <2>1 DEF Clock
  <2>4. ASSUME NEW d \in events', NEW e \in events', d.lane = e.lane, d.seq = e.seq
        PROVE  d = e
    <3>1. \A c \in events : c.lane = lane => c.seq < n
      BY DEF Clock
    <3> HIDE DEF n
    <3>2. CASE d \in events /\ e \in events
      BY <2>4, <3>2 DEF Clock
    <3>3. CASE d \in E /\ e \in E
      BY <1>3, <2>4, <3>3
    <3>4. CASE d \in events /\ e \in E
      <4>1. d.seq < n /\ n <= e.seq /\ d.seq \in Nat
        BY <1>3, <2>4, <3>1, <3>4 DEF Clock
      <4> QED
        BY <1>1, <2>4, <4>1
    <3>5. CASE d \in E /\ e \in events
      <4>1. e.seq < n /\ n <= d.seq /\ e.seq \in Nat
        BY <1>3, <2>4, <3>1, <3>5 DEF Clock
      <4> QED
        BY <1>1, <2>4, <4>1
    <3> QED
      BY <1>3, <3>2, <3>3, <3>4, <3>5
  <2>5. Clock'
    BY <2>2, <2>3, <2>4 DEF Clock
  <2> QED
    BY <1>1, <1>3, <2>1, <2>5
<1>4. ASSUME NEW x, x.kind \in S, Emit(lane, <<x>>)
      PROVE  /\ Clock'
             /\ events \subseteq events'
             /\ \A e \in events' \ events : e.lane = lane /\ e.kind \in S
             /\ \A other : other # lane => NextSeq(other)' = NextSeq(other)
             /\ NextSeq(lane)' >= NextSeq(lane)
  <2> DEFINE E == {Event(lane, n, x)}
  <2>1. seqs' = Put(seqs, lane, n + 1) /\ events' = events \cup E
    BY <1>4, EmitOne
  <2>2. \A e \in E : /\ e.lane = lane /\ e.kind \in S /\ e.seq \in Nat
                     /\ n <= e.seq /\ e.seq < n + 1
    BY <1>1, <1>4 DEF Event
  <2>3. \A d, e \in E : d.seq = e.seq => d = e
    OBVIOUS
  <2> HIDE DEF n, E
  <2> QED
    BY <1>3, <2>1, <2>2, <2>3
<1>5. ASSUME NEW x, NEW y, x.kind \in S, y.kind \in S, Emit(lane, <<x>> \o <<y>>)
      PROVE  /\ Clock'
             /\ events \subseteq events'
             /\ \A e \in events' \ events : e.lane = lane /\ e.kind \in S
             /\ \A other : other # lane => NextSeq(other)' = NextSeq(other)
             /\ NextSeq(lane)' >= NextSeq(lane)
  <2> DEFINE E == {Event(lane, n, x), Event(lane, n + 1, y)}
  <2>1. seqs' = Put(seqs, lane, n + 2) /\ events' = events \cup E
    BY <1>5, EmitTwo
  <2>2. \A e \in E : /\ e.lane = lane /\ e.kind \in S /\ e.seq \in Nat
                     /\ n <= e.seq /\ e.seq < n + 2
    BY <1>1, <1>5 DEF Event
  <2>3. \A d, e \in E : d.seq = e.seq => d = e
    BY <1>1 DEF Event
  <2> HIDE DEF n, E
  <2> QED
    BY <1>3, <2>1, <2>2, <2>3
<1> QED
  BY <1>2, <1>4, <1>5 DEF Spoke

\* It says nothing twice.
LEMMA SpokeOnce ==
  ASSUME Clock, NEW lane, NEW S, Spoke(lane, S)
  PROVE  \A d, e \in events' \ events : d.kind = e.kind => d = e
<1>1. CASE UNCHANGED clock
  BY <1>1 DEF clock
<1>2. ASSUME NEW x, Emit(lane, <<x>>)
      PROVE  \A d, e \in events' \ events : d.kind = e.kind => d = e
  BY <1>2, EmitOne
<1>3. ASSUME NEW x, NEW y, x.kind # y.kind, Emit(lane, <<x>> \o <<y>>)
      PROVE  \A d, e \in events' \ events : d.kind = e.kind => d = e
  <2> DEFINE a == Event(lane, NextSeq(lane), x)
             b == Event(lane, NextSeq(lane) + 1, y)
  <2>1. events' = events \cup {a, b}
    BY <1>3, EmitTwo
  <2>2. a.kind # b.kind
    BY <1>3 DEF Event
  <2> HIDE DEF a, b
  <2> QED
    BY <2>1, <2>2
<1> QED
  BY <1>1, <1>2, <1>3 DEF Spoke

-----------------------------------------------------------------------------
(* What each step says                                                     *)

\* The kinds of events that nothing has to be counted against.
Plain == {"NodeStarted", "NodeCompleted", "SessionStarted", "SessionResumed"}

\* A step at p that says nothing that counts, takes no permit and records no call.
Steady(p) == Spoke(Lane(p), Plain) /\ UNCHANGED <<active, records>>

LEMMA CompleteSpeaks ==
  ASSUME NEW p, NEW v, NEW es, Complete(p, es, v),
         es = <<>> \/ \E x : es = <<x>> /\ x.kind \in Plain /\ x.kind # "NodeCompleted"
  PROVE  Spoke(Lane(p), Plain)
<1> DEFINE y == Ev("NodeCompleted")
<1>1. y.kind \in Plain /\ y.kind = "NodeCompleted"
  BY DEF Ev, Plain
<1>2. Emit(Lane(p), es \o <<y>>)
  BY DEF Complete
<1> HIDE DEF y
<1>3. CASE es = <<>>
  <2>1. <<>> \o <<y>> = <<y>>
    OBVIOUS
  <2> QED
    BY <1>1, <1>2, <1>3, <2>1 DEF Spoke
<1>4. ASSUME NEW x, es = <<x>>, x.kind \in Plain, x.kind # "NodeCompleted"
      PROVE  Spoke(Lane(p), Plain)
  BY <1>1, <1>2, <1>4 DEF Spoke
<1> QED
  BY <1>3, <1>4

LEMMA EvPlain ==
  /\ \A k, v : Ev(k).kind = k /\ EvPay(k, v).kind = k
  /\ {"NodeStarted", "NodeCompleted", "SessionStarted", "SessionResumed"} \subseteq Plain
BY DEF Ev, EvPay, Plain

LEMMA StartSpeaks == ASSUME NEW p, Start(p) PROVE Spoke(Lane(p), Plain)
BY EvPlain DEF Start, Spoke

LEMMA StartFailsSteady == ASSUME NEW p, NEW e, StartFails(p, e) PROVE Steady(p)
BY StartSpeaks DEF StartFails, Steady

LEMMA CallSteady ==
  ASSUME NEW p, Program(p) \/ ProgramFails(p) \/ ActorStart(p) \/ ActorUnresolved(p)
         \/ (\E e : ActorFails(p, e))
  PROVE  Steady(p)
<1> USE DEF store, env
<1>1. CASE Program(p)
  BY <1>1, CompleteSpeaks, EvPlain DEF Program, Steady
<1>2. CASE ProgramFails(p) \/ ActorUnresolved(p)
  BY <1>2, StartFailsSteady DEF ProgramFails, ActorUnresolved
<1>3. CASE ActorStart(p)
  BY <1>3, StartSpeaks DEF ActorStart, Steady
<1>4. ASSUME NEW e, ActorFails(p, e) PROVE Steady(p)
  BY <1>4 DEF ActorFails, Steady, Spoke
<1> QED
  BY <1>1, <1>2, <1>3, <1>4

LEMMA MapSteady ==
  ASSUME NEW p, MapStart(p) \/ Dispatch(p) \/ Collect(p) PROVE Steady(p)
<1> USE DEF store, env
<1>1. CASE MapStart(p)
  BY <1>1, StartSpeaks, StartFailsSteady DEF MapStart, Steady
<1>2. CASE Dispatch(p) \/ Collect(p)
  BY <1>2 DEF Dispatch, Collect, Steady, Spoke
<1> QED
  BY <1>1, <1>2

LEMMA MapEndSpeaks ==
  ASSUME NEW p, MapEnd(p)
  PROVE  /\ Spoke(Lane(p), Plain \cup {"MapCompleted"})
         /\ UNCHANGED <<active, records>>
<1>1. UNCHANGED <<active, records>>
  BY DEF MapEnd, env
<1>2. CASE GatePassed(p)
  <2> DEFINE x == EvPay("MapCompleted", [successes |-> Successes(p)])
             y == Ev("NodeCompleted")
             S == Plain \cup {"MapCompleted"}
  <2>1. x.kind \in S /\ y.kind \in S /\ x.kind # y.kind
    BY DEF Plain, Ev, EvPay
  <2>2. Emit(Lane(p), <<x>> \o <<y>>)
    BY <1>2 DEF MapEnd, Complete
  <2> HIDE DEF x, y, S
  <2>3. Spoke(Lane(p), S)
    BY <2>1, <2>2 DEF Spoke
  <2> QED
    BY <1>1, <2>3 DEF S
<1>3. CASE ~GatePassed(p)
  BY <1>1, <1>3 DEF MapEnd, clock, Spoke
<1> QED
  BY <1>2, <1>3

LEMMA LoopSteady ==
  ASSUME NEW p,
         ForEachStart(p) \/ ForEachNext(p) \/ ForEachItemEnd(p) \/ ForEachEnd(p)
         \/ WhileStart(p) \/ WhilePass(p) \/ WhilePassEnd(p) \/ WhileEnd(p)
         \/ WhileUnresolved(p)
  PROVE  Steady(p)
<1> USE DEF store, env
<1>1. CASE ForEachStart(p)
  BY <1>1, StartSpeaks, StartFailsSteady DEF ForEachStart, Steady
<1>2. CASE ForEachNext(p) \/ ForEachItemEnd(p) \/ WhilePass(p) \/ WhilePassEnd(p)
           \/ WhileUnresolved(p)
  BY <1>2 DEF ForEachNext, ForEachItemEnd, WhilePass, WhilePassEnd, WhileUnresolved, Steady,
     Spoke
<1>3. CASE ForEachEnd(p) \/ WhileEnd(p)
  BY <1>3, CompleteSpeaks DEF ForEachEnd, WhileEnd, Steady
<1>4. CASE WhileStart(p)
  BY <1>4, StartSpeaks DEF WhileStart, Steady
<1> QED
  BY <1>1, <1>2, <1>3, <1>4

LEMMA BranchSteady ==
  ASSUME NEW p, BranchStart(p) \/ BranchUnresolved(p) \/ PassOn(p)
         \/ ResumeStart(p) \/ (\E v : ResumeLoaded(p, v)) \/ (\E e : LoadFails(p, e))
  PROVE  Steady(p)
<1> USE DEF store, env
<1>1. CASE BranchStart(p)
  BY <1>1, StartSpeaks, CompleteSpeaks, EvPlain DEF BranchStart, Steady
<1>2. CASE BranchUnresolved(p) \/ ResumeStart(p)
  BY <1>2, StartSpeaks, StartFailsSteady DEF BranchUnresolved, ResumeStart, Steady
<1>3. CASE PassOn(p)
  BY <1>3, EvPlain DEF PassOn, Steady, Spoke
<1>4. ASSUME NEW v, ResumeLoaded(p, v) PROVE Steady(p)
  BY <1>4, EvPlain DEF ResumeLoaded, Steady, Spoke
<1>5. ASSUME NEW e, LoadFails(p, e) PROVE Steady(p)
  BY <1>5 DEF LoadFails, Steady, Spoke
<1> QED
  BY <1>1, <1>2, <1>3, <1>4, <1>5

LEMMA GroupSteady ==
  ASSUME NEW p, GroupStart(p) \/ SessionStart(p) \/ GroupJoin(p) PROVE Steady(p)
<1> USE DEF store, env
<1>1. CASE GroupStart(p)
  BY <1>1, StartSpeaks, StartFailsSteady DEF GroupStart, Steady
<1>2. CASE SessionStart(p)
  BY <1>2, EvPlain DEF SessionStart, Steady, Spoke
<1>3. CASE GroupJoin(p)
  <2>1. Emit(Lane(p), <<Ev("NodeCompleted")>>) \/ UNCHANGED clock
    BY <1>3 DEF GroupJoin
  <2> QED
    BY <1>3, <2>1, EvPlain DEF GroupJoin, Steady, Spoke
<1> QED
  BY <1>1, <1>2, <1>3

LEMMA StepSteady ==
  ASSUME NEW p, FrameStep(p) \/ HostStep(p)
  PROVE  \/ Steady(p)
         \/ MapEnd(p)
         \/ ItemStart(p) \/ ItemEnd(p) \/ SessionAcquire(p) \/ SessionEnd(p)
         \/ \E v \in Replies : ActorReplies(p, v)
<1>1. CASE FrameStep(p)
  BY <1>1, CallSteady, MapSteady, LoopSteady, BranchSteady, GroupSteady DEF FrameStep
<1>2. CASE HostStep(p)
  BY <1>2, CallSteady, BranchSteady DEF HostStep
<1> QED
  BY <1>1, <1>2

-----------------------------------------------------------------------------
(* What is begun, what is settled, and what is between the two             *)

Balanced(A, B, H) ==
  /\ IsFiniteSet(A) /\ IsFiniteSet(B) /\ IsFiniteSet(H)
  /\ Cardinality(A) = Cardinality(B) + Cardinality(H)

LEMMA Opened ==
  ASSUME NEW A, NEW B, NEW H, Balanced(A, B, H), NEW a, a \notin A, NEW q, q \notin H
  PROVE  Balanced(A \cup {a}, B, H \cup {q})
<1>1. /\ Cardinality(A \cup {a}) = Cardinality(A) + 1 /\ IsFiniteSet(A \cup {a})
      /\ Cardinality(H \cup {q}) = Cardinality(H) + 1 /\ IsFiniteSet(H \cup {q})
  BY FS_AddElement DEF Balanced
<1>2. Cardinality(B) \in Nat /\ Cardinality(H) \in Nat
  BY FS_CardinalityType DEF Balanced
<1> QED
  BY <1>1, <1>2 DEF Balanced

LEMMA Closed ==
  ASSUME NEW A, NEW B, NEW H, Balanced(A, B, H), NEW b, b \notin B, NEW q, q \in H
  PROVE  Balanced(A, B \cup {b}, H \ {q})
<1>1. /\ Cardinality(B \cup {b}) = Cardinality(B) + 1 /\ IsFiniteSet(B \cup {b})
      /\ Cardinality(H \ {q}) = Cardinality(H) - 1 /\ IsFiniteSet(H \ {q})
  BY FS_AddElement, FS_RemoveElement DEF Balanced
<1>2. Cardinality(B) \in Nat /\ Cardinality(H) \in Nat
  BY FS_CardinalityType DEF Balanced
<1> QED
  BY <1>1, <1>2 DEF Balanced

\* The future q has announced an event of that kind which is not yet settled.
Counts(kind, q) ==
  /\ fr[q].st = "body"
  /\ \/ kind = "MapItemStarted" /\ fr[q].kind = "item"
     \/ kind = "SemaphoreAcquired" /\ fr[q].kind = "session" /\ Def(q).limit # NoLimit

Begun(kind, lane) == OnLane(Of(kind), lane)
Settled(kind, lane) == {e \in events : e.kind \in Settles[kind] /\ e.lane = lane}
Between(kind, lane) == {q \in DOMAIN fr : Counts(kind, q) /\ Lane(q) = lane}

LaneBooks(kind) == \A lane : Balanced(Begun(kind, lane), Settled(kind, lane), Between(kind, lane))

Acquired(l) == {e \in Of("SemaphoreAcquired") : e.pay.limit = l}
GivenBack(l) == {e \in Of("SemaphoreReleased") : e.pay.limit = l}
Holders(l) == {q \in DOMAIN fr : HoldsPermit(q, l)}

LimitBooks ==
  /\ active \in [DOMAIN Permits -> Nat]
  /\ \A l \in DOMAIN Permits :
       /\ active[l] <= Larger(1, Permits[l])
       /\ active[l] = Cardinality(Holders(l))
       /\ Balanced(Acquired(l), GivenBack(l), Holders(l))

\* Only a session of a limited group waits for a permit.
Waiting == \A q \in DOMAIN fr : At(q, "session", "acquire") => Def(q).limit # NoLimit

Books ==
  /\ Clock
  /\ LimitBooks
  /\ \A kind \in DOMAIN Settles : LaneBooks(kind)
  /\ Waiting
  /\ cancel \in BOOLEAN

LEMMA SettlesKinds ==
  /\ DOMAIN Settles = {"MapItemStarted", "SemaphoreAcquired"}
  /\ Settles["MapItemStarted"] = {"MapItemCompleted", "MapItemFailed"}
  /\ Settles["SemaphoreAcquired"] = {"SemaphoreReleased"}
BY DEF Settles

\* A step at p starts and ends no body but that of p.
LEMMA OthersInBody ==
  ASSUME Tree, NEW p \in DOMAIN fr, Moves(p)
  PROVE  /\ p \in DOMAIN fr' /\ SameNode(fr[p], fr'[p])
         /\ \A q : q # p =>
              /\ q \in DOMAIN fr /\ fr[q].st = "body" <=> q \in DOMAIN fr' /\ fr'[q].st = "body"
              /\ q \in DOMAIN fr /\ fr[q].st = "body" => fr'[q] = fr[q]
<1>1. CASE Grown(fr, fr', leds, leds', p)
  BY <1>1 DEF Grown, Born
<1>2. CASE Reaped(fr, fr', leds, leds', p)
  <2>1. \A i \in KidsOf(fr[p]) : Kid(p, i) # p
    BY <1>2, KidPosition DEF Reaped, Tree, Rooted
  <2>2. p \in DOMAIN fr'
    BY <1>2, <2>1 DEF Reaped
  <2> QED
    BY <1>2, <2>2 DEF Reaped
<1> QED
  BY <1>1, <1>2 DEF Moves, Moved

LEMMA OthersCount ==
  ASSUME Tree, NEW p \in DOMAIN fr, Moves(p), wf' = wf
  PROVE  /\ Lane(p)' = Lane(p) /\ Def(p)' = Def(p) /\ p \in DOMAIN fr'
         /\ \A q : q # p => \A kind :
              q \in DOMAIN fr /\ Counts(kind, q) <=> q \in DOMAIN fr' /\ Counts(kind, q)'
         /\ \A q \in DOMAIN fr : \A kind :
              q # p /\ Counts(kind, q) => Lane(q)' = Lane(q) /\ Def(q)' = Def(q)
<1>1. Lane(p)' = Lane(p) /\ Def(p)' = Def(p) /\ p \in DOMAIN fr'
  BY OthersInBody DEF Lane, Def, SameNode, Nodes
<1>2. ASSUME NEW q, q # p, NEW kind
      PROVE  q \in DOMAIN fr /\ Counts(kind, q) <=> q \in DOMAIN fr' /\ Counts(kind, q)'
  BY <1>2, OthersInBody DEF Counts, Def, Nodes
<1>3. ASSUME NEW q \in DOMAIN fr, NEW kind, q # p, Counts(kind, q)
      PROVE  Lane(q)' = Lane(q) /\ Def(q)' = Def(q)
  BY <1>3, OthersInBody DEF Counts, Lane, Def, Nodes
<1> QED
  BY <1>1, <1>2, <1>3

\* Nothing of that kind is begun or settled.
LEMMA LaneKept ==
  ASSUME Tree, NEW p \in DOMAIN fr, Moves(p), wf' = wf,
         NEW kind, LaneBooks(kind), Counts(kind, p)' <=> Counts(kind, p),
         events \subseteq events',
         \A e \in events' \ events : e.kind \notin Settles[kind] \cup {kind}
  PROVE  LaneBooks(kind)'
<1>1. ASSUME NEW lane PROVE Begun(kind, lane)' = Begun(kind, lane)
                            /\ Settled(kind, lane)' = Settled(kind, lane)
  BY DEF Begun, Settled, OnLane, Of
<1>2. ASSUME NEW lane PROVE Between(kind, lane)' = Between(kind, lane)
  BY OthersCount DEF Between
<1> QED
  BY <1>1, <1>2 DEF LaneBooks

\* The future at p begins what is counted on its lane.
LEMMA LaneOpened ==
  ASSUME Tree, Clock, NEW p \in DOMAIN fr, Moves(p), wf' = wf,
         NEW kind, kind \notin Settles[kind], LaneBooks(kind), Counts(kind, p)', ~Counts(kind, p),
         NEW x, x.kind = kind, Emit(Lane(p), <<x>>)
  PROVE  LaneBooks(kind)'
<1> DEFINE ev == Event(Lane(p), NextSeq(Lane(p)), x)
<1>1. events' = events \cup {ev} /\ ev.kind = kind /\ ev.lane = Lane(p) /\ ev \notin events
  <2>1. events' = events \cup {ev}
    BY EmitOne
  <2>2. ev.kind = kind /\ ev.lane = Lane(p) /\ ev.seq = NextSeq(Lane(p))
    BY DEF Event
  <2>3. NextSeq(Lane(p)) \in Nat
    BY NextSeqNat
  <2> HIDE DEF ev
  <2>4. ev \notin events
    BY <2>2, <2>3 DEF Clock
  <2> QED
    BY <2>1, <2>2, <2>4
<1> HIDE DEF ev
<1>2. ASSUME NEW lane, lane # Lane(p)
      PROVE  Balanced(Begun(kind, lane), Settled(kind, lane), Between(kind, lane))'
  <2>1. Begun(kind, lane)' = Begun(kind, lane) /\ Settled(kind, lane)' = Settled(kind, lane)
    BY <1>1, <1>2 DEF Begun, Settled, OnLane, Of
  <2>2. Between(kind, lane)' = Between(kind, lane)
    BY <1>2, OthersCount DEF Between
  <2> QED
    BY <2>1, <2>2 DEF LaneBooks
<1>3. Balanced(Begun(kind, Lane(p)), Settled(kind, Lane(p)), Between(kind, Lane(p)))'
  <2> DEFINE lane == Lane(p)
  <2>1. /\ Begun(kind, lane)' = Begun(kind, lane) \cup {ev} /\ ev \notin Begun(kind, lane)
        /\ Settled(kind, lane)' = Settled(kind, lane)
    BY <1>1, OthersCount DEF Begun, Settled, OnLane, Of
  <2>2. Between(kind, lane)' = Between(kind, lane) \cup {p} /\ p \notin Between(kind, lane)
    BY OthersCount DEF Between
  <2> QED
    BY <2>1, <2>2, Opened DEF LaneBooks
<1> QED
  BY <1>2, <1>3, OthersCount DEF LaneBooks

\* The future at p settles it.
LEMMA LaneClosed ==
  ASSUME Tree, Clock, NEW p \in DOMAIN fr, Moves(p), wf' = wf,
         NEW kind, kind \notin Settles[kind], LaneBooks(kind), ~Counts(kind, p)', Counts(kind, p),
         NEW x, x.kind \in Settles[kind], Emit(Lane(p), <<x>>)
  PROVE  LaneBooks(kind)'
<1> DEFINE ev == Event(Lane(p), NextSeq(Lane(p)), x)
<1>1. /\ events' = events \cup {ev} /\ ev.kind \in Settles[kind] /\ ev.lane = Lane(p)
      /\ ev \notin events
  <2>1. events' = events \cup {ev}
    BY EmitOne
  <2>2. ev.kind \in Settles[kind] /\ ev.lane = Lane(p) /\ ev.seq = NextSeq(Lane(p))
    BY DEF Event
  <2>3. NextSeq(Lane(p)) \in Nat
    BY NextSeqNat
  <2> HIDE DEF ev
  <2>4. ev \notin events
    BY <2>2, <2>3 DEF Clock
  <2> QED
    BY <2>1, <2>2, <2>4
<1> HIDE DEF ev
<1>2. ASSUME NEW lane, lane # Lane(p)
      PROVE  Balanced(Begun(kind, lane), Settled(kind, lane), Between(kind, lane))'
  <2>1. Begun(kind, lane)' = Begun(kind, lane) /\ Settled(kind, lane)' = Settled(kind, lane)
    BY <1>1, <1>2 DEF Begun, Settled, OnLane, Of
  <2>2. Between(kind, lane)' = Between(kind, lane)
    BY <1>2, OthersCount DEF Between
  <2> QED
    BY <2>1, <2>2 DEF LaneBooks
<1>3. Balanced(Begun(kind, Lane(p)), Settled(kind, Lane(p)), Between(kind, Lane(p)))'
  <2> DEFINE lane == Lane(p)
  <2>1. /\ Begun(kind, lane)' = Begun(kind, lane)
        /\ Settled(kind, lane)' = Settled(kind, lane) \cup {ev} /\ ev \notin Settled(kind, lane)
    BY <1>1, OthersCount DEF Begun, Settled, OnLane, Of
  <2>2. Between(kind, lane)' = Between(kind, lane) \ {p} /\ p \in Between(kind, lane)
    BY OthersCount DEF Between
  <2> QED
    BY <2>1, <2>2, Closed DEF LaneBooks
<1> QED
  BY <1>2, <1>3, OthersCount DEF LaneBooks

-----------------------------------------------------------------------------
(* The permits                                                             *)

LEMMA OthersHold ==
  ASSUME Tree, NEW p \in DOMAIN fr, Moves(p), wf' = wf, NEW q, q # p, NEW l
  PROVE  q \in DOMAIN fr /\ HoldsPermit(q, l) <=> q \in DOMAIN fr' /\ HoldsPermit(q, l)'
BY OthersInBody DEF HoldsPermit, Def, Nodes

\* No permit changes hands.
LEMMA PermitsKept ==
  ASSUME Tree, NEW p \in DOMAIN fr, Moves(p), wf' = wf, LimitBooks,
         \A l \in DOMAIN Permits : HoldsPermit(p, l)' <=> HoldsPermit(p, l),
         active' = active, events \subseteq events',
         \A e \in events' \ events : e.kind \notin {"SemaphoreAcquired", "SemaphoreReleased"}
  PROVE  LimitBooks'
<1>1. ASSUME NEW l PROVE Acquired(l)' = Acquired(l) /\ GivenBack(l)' = GivenBack(l)
  BY DEF Acquired, GivenBack, Of
<1>2. ASSUME NEW l \in DOMAIN Permits PROVE Holders(l)' = Holders(l)
  <2>1. p \in DOMAIN fr'
    BY OthersInBody
  <2> QED
    BY <2>1, OthersHold DEF Holders
<1>3. Permits' = Permits
  BY DEF Permits
<1> QED
  BY <1>1, <1>2, <1>3 DEF LimitBooks

\* The session at p takes a permit of its limit.
LEMMA PermitTaken ==
  ASSUME Tree, Clock, NEW p \in DOMAIN fr, Moves(p), wf' = wf, LimitBooks,
         NEW L \in DOMAIN Permits, Permits[L] \in Nat,
         \A l : ~HoldsPermit(p, l), \A l : HoldsPermit(p, l)' <=> l = L,
         Room(L), active' = [active EXCEPT ![L] = @ + 1],
         Emit(Lane(p), <<EvPay("SemaphoreAcquired", [limit |-> L])>>)
  PROVE  LimitBooks'
<1> DEFINE ev == Event(Lane(p), NextSeq(Lane(p)), EvPay("SemaphoreAcquired", [limit |-> L]))
<1>1. /\ events' = events \cup {ev} /\ ev.kind = "SemaphoreAcquired" /\ ev.pay.limit = L
      /\ ev \notin events
  <2>1. events' = events \cup {ev}
    BY EmitOne
  <2>2. ev.kind = "SemaphoreAcquired" /\ ev.pay.limit = L /\ ev.lane = Lane(p)
        /\ ev.seq = NextSeq(Lane(p))
    BY DEF Event, EvPay
  <2>3. NextSeq(Lane(p)) \in Nat
    BY NextSeqNat
  <2> HIDE DEF ev
  <2>4. ev \notin events
    BY <2>2, <2>3 DEF Clock
  <2> QED
    BY <2>1, <2>2, <2>4
<1> HIDE DEF ev
<1>2. /\ active \in [DOMAIN Permits -> Nat] /\ active[L] \in Nat
      /\ active[L] < Larger(1, Permits[L]) /\ Larger(1, Permits[L]) \in Nat
  BY DEF LimitBooks, Room, Larger
<1>3. p \in DOMAIN fr' /\ Permits' = Permits
  BY OthersInBody DEF Permits
<1>4. /\ GivenBack(L)' = GivenBack(L)
      /\ Acquired(L)' = Acquired(L) \cup {ev} /\ ev \notin Acquired(L)
      /\ Holders(L)' = Holders(L) \cup {p} /\ p \notin Holders(L)
  BY <1>1, <1>3, OthersHold DEF Acquired, GivenBack, Of, Holders
<1>5. Balanced(Acquired(L), GivenBack(L), Holders(L))'
  BY <1>4, Opened DEF LimitBooks
<1>6. Cardinality(Holders(L))' = Cardinality(Holders(L)) + 1
  BY <1>4, FS_AddElement DEF LimitBooks, Balanced
<1>7. ASSUME NEW l \in DOMAIN Permits, l # L
      PROVE  /\ Acquired(l)' = Acquired(l) /\ GivenBack(l)' = GivenBack(l)
             /\ Holders(l)' = Holders(l)
  BY <1>1, <1>3, <1>7, OthersHold DEF Acquired, GivenBack, Of, Holders
<1>8. active' \in [DOMAIN Permits -> Nat]
  BY <1>2
<1>9. ASSUME NEW l \in DOMAIN Permits
      PROVE  /\ active'[l] <= Larger(1, Permits[l])
             /\ active'[l] = Cardinality(Holders(l))'
             /\ Balanced(Acquired(l), GivenBack(l), Holders(l))'
  <2>1. CASE l = L
    <3>1. active'[L] = active[L] + 1
      BY <1>2
    <3> QED
      BY <1>2, <1>5, <1>6, <2>1, <3>1 DEF LimitBooks
  <2>2. CASE l # L
    <3>1. active'[l] = active[l]
      BY <1>2, <2>2
    <3> QED
      BY <1>7, <2>2, <3>1 DEF LimitBooks
  <2> QED
    BY <2>1, <2>2
<1> QED
  BY <1>3, <1>8, <1>9 DEF LimitBooks

\* The session at p gives it back.
LEMMA PermitReturned ==
  ASSUME Tree, Clock, NEW p \in DOMAIN fr, Moves(p), wf' = wf, LimitBooks,
         NEW L \in DOMAIN Permits, Permits[L] \in Nat,
         \A l : HoldsPermit(p, l) <=> l = L, \A l : ~HoldsPermit(p, l)',
         active' = [active EXCEPT ![L] = @ - 1],
         Emit(Lane(p), <<EvPay("SemaphoreReleased", [limit |-> L])>>)
  PROVE  LimitBooks'
<1> DEFINE ev == Event(Lane(p), NextSeq(Lane(p)), EvPay("SemaphoreReleased", [limit |-> L]))
<1>1. /\ events' = events \cup {ev} /\ ev.kind = "SemaphoreReleased" /\ ev.pay.limit = L
      /\ ev \notin events
  <2>1. events' = events \cup {ev}
    BY EmitOne
  <2>2. ev.kind = "SemaphoreReleased" /\ ev.pay.limit = L /\ ev.lane = Lane(p)
        /\ ev.seq = NextSeq(Lane(p))
    BY DEF Event, EvPay
  <2>3. NextSeq(Lane(p)) \in Nat
    BY NextSeqNat
  <2> HIDE DEF ev
  <2>4. ev \notin events
    BY <2>2, <2>3 DEF Clock
  <2> QED
    BY <2>1, <2>2, <2>4
<1> HIDE DEF ev
<1>2. /\ active \in [DOMAIN Permits -> Nat] /\ active[L] \in Nat
      /\ active[L] <= Larger(1, Permits[L]) /\ Larger(1, Permits[L]) \in Nat
      /\ active[L] = Cardinality(Holders(L))
  BY DEF LimitBooks, Larger
<1>3. p \in DOMAIN fr' /\ Permits' = Permits
  BY OthersInBody DEF Permits
<1>4. /\ Acquired(L)' = Acquired(L)
      /\ GivenBack(L)' = GivenBack(L) \cup {ev} /\ ev \notin GivenBack(L)
      /\ Holders(L)' = Holders(L) \ {p} /\ p \in Holders(L)
  BY <1>1, <1>3, OthersHold DEF Acquired, GivenBack, Of, Holders
<1>5. Balanced(Acquired(L), GivenBack(L), Holders(L))'
  BY <1>4, Closed DEF LimitBooks
<1>6. Cardinality(Holders(L))' = Cardinality(Holders(L)) - 1
  BY <1>4, FS_RemoveElement DEF LimitBooks, Balanced
<1>7. ASSUME NEW l \in DOMAIN Permits, l # L
      PROVE  /\ Acquired(l)' = Acquired(l) /\ GivenBack(l)' = GivenBack(l)
             /\ Holders(l)' = Holders(l)
  BY <1>1, <1>3, <1>7, OthersHold DEF Acquired, GivenBack, Of, Holders
<1>8. active'[L] = active[L] - 1 /\ active'[L] \in Nat
  <2>1. Cardinality(Holders(L))' \in Nat
    BY <1>5, FS_CardinalityType DEF Balanced
  <2> QED
    BY <1>2, <1>6, <2>1
<1>9. active' \in [DOMAIN Permits -> Nat]
  BY <1>2, <1>8
<1>10. ASSUME NEW l \in DOMAIN Permits
       PROVE  /\ active'[l] <= Larger(1, Permits[l])
              /\ active'[l] = Cardinality(Holders(l))'
              /\ Balanced(Acquired(l), GivenBack(l), Holders(l))'
  <2>1. CASE l = L
    BY <1>2, <1>5, <1>6, <1>8, <2>1
  <2>2. CASE l # L
    <3>1. active'[l] = active[l]
      BY <1>2, <2>2
    <3> QED
      BY <1>7, <2>2, <3>1 DEF LimitBooks
  <2> QED
    BY <2>1, <2>2
<1> QED
  BY <1>3, <1>9, <1>10 DEF LimitBooks

-----------------------------------------------------------------------------
(* The books after each step                                               *)

LEMMA AcceptedLimits ==
  ASSUME IInv
  PROVE  /\ \A l \in DOMAIN Permits : l # NoLimit /\ Permits[l] \in Nat
         /\ \A q \in DOMAIN fr :
              fr[q].kind = "session" => Def(q).limit \in DOMAIN Permits \cup {NoLimit}
<1>1. Accepted(wf)
  BY WorkflowAssumption DEF IInv
<1>2. ASSUME NEW q \in DOMAIN fr, fr[q].kind = "session"
      PROVE  Def(q).limit \in DOMAIN Permits \cup {NoLimit}
  <2>1. fr[q].node \in DOMAIN Nodes /\ Nodes[fr[q].node].kind = "session_group"
    <3>1. Sound(fr[q])
      BY DEF IInv, AllSound
    <3>2. fr[q].node \in DOMAIN Nodes /\ Nodes[fr[q].node].kind \in Kinds
      BY <1>1, <3>1 DEF Sound, Accepted, Nodes
    <3> QED
      BY <1>2, <3>1, <3>2 DEF Sound, Kinds
  <2> QED
    BY <1>1, <2>1 DEF Accepted, Nodes, Permits, Def
<1>3. \A l \in DOMAIN Permits : l # NoLimit /\ Permits[l] \in Nat
  BY <1>1 DEF Accepted, Permits
<1> QED
  BY <1>2, <1>3

LEMMA WaitingKept ==
  ASSUME Tree, NEW p \in DOMAIN fr, Moves(p), wf' = wf, Waiting,
         fr'[p].kind = "session" /\ fr'[p].st = "acquire" => Def(p).limit # NoLimit
  PROVE  Waiting'
<1>1. ASSUME NEW q \in DOMAIN fr', fr'[q].kind = "session", fr'[q].st = "acquire"
      PROVE  Def(q)'.limit # NoLimit
  <2>1. CASE q = p
    BY <1>1, <2>1, OthersCount
  <2>2. CASE q # p
    <3>1. q \in DOMAIN fr /\ fr'[q] = fr[q]
      BY <1>1, <2>2 DEF Moves, Moved, Grown, Reaped, Born
    <3> QED
      BY <1>1, <3>1 DEF Waiting, At, Def, Nodes
  <2> QED
    BY <2>1, <2>2
<1> QED
  BY <1>1 DEF Waiting, At

\* Where the futures of maps and groups are before and after their steps.
LEMMA FutureStates ==
  ASSUME IInv, Tree, NEW p \in DOMAIN fr
  PROVE  /\ ItemStart(p) => fr[p].kind = "item" /\ fr[p].st = "new" /\ fr'[p].st = "body"
         /\ ItemEnd(p) => fr[p].kind = "item" /\ fr[p].st = "body" /\ fr'[p].st = "done"
         /\ SessionStart(p) =>
              /\ fr[p].kind = "session" /\ fr[p].st = "new"
              /\ fr'[p].st = IF Def(p).limit = NoLimit THEN "body" ELSE "acquire"
         /\ SessionAcquire(p) =>
              fr[p].kind = "session" /\ fr[p].st = "acquire" /\ fr'[p].st = "body"
         /\ SessionEnd(p) => fr[p].kind = "session" /\ fr[p].st = "body" /\ fr'[p].st = "done"
<1>1. DOMAIN fr[p] = FrameFields /\ Body(p) # p
  BY LiveFrame, KidPosition DEF Body
<1>2. \A id, path, iter, led : Enter(p, id, path, iter, led)[p].st = "body"
  BY EnterFrames
<1>3. \A r : Done(Without(fr, {Body(p)}), p, r)[p].st = "done"
  <2>1. p \in DOMAIN Without(fr, {Body(p)}) /\ Without(fr, {Body(p)})[p] = fr[p]
    BY <1>1 DEF Without
  <2> HIDE DEF FrameFields
  <2> QED
    BY <1>1, <2>1 DEF Done, FrameFields
<1>4. [fr EXCEPT ![p].st = "acquire"][p].st = "acquire"
  BY <1>1 DEF FrameFields
<1>5. ItemStart(p) => fr[p].kind = "item" /\ fr[p].st = "new" /\ fr'[p].st = "body"
  BY <1>2 DEF ItemStart, At
<1>6. ItemEnd(p) => fr[p].kind = "item" /\ fr[p].st = "body" /\ fr'[p].st = "done"
  BY <1>3 DEF ItemEnd, At
<1>7. SessionStart(p) => /\ fr[p].kind = "session" /\ fr[p].st = "new"
                         /\ fr'[p].st = IF Def(p).limit = NoLimit THEN "body" ELSE "acquire"
  BY <1>2, <1>4 DEF SessionStart, At, EnterSession
<1>8. SessionAcquire(p) => /\ fr[p].kind = "session" /\ fr[p].st = "acquire"
                           /\ fr'[p].st = "body"
  BY <1>2 DEF SessionAcquire, At, EnterSession
<1>9. SessionEnd(p) => fr[p].kind = "session" /\ fr[p].st = "body" /\ fr'[p].st = "done"
  BY <1>3 DEF SessionEnd, At
<1> QED
  BY <1>5, <1>6, <1>7, <1>8, <1>9

LEMMA FutureSteps ==
  ASSUME NEW p \in DOMAIN fr, FrameStep(p) \/ HostStep(p), fr[p].kind \in {"item", "session"}
  PROVE  ItemStart(p) \/ ItemEnd(p) \/ SessionStart(p) \/ SessionAcquire(p) \/ SessionEnd(p)
<1>1. CASE FrameStep(p)
  BY <1>1 DEF FrameStep, At, Program, ProgramFails, ActorStart, ActorUnresolved, MapStart,
     Dispatch, Collect, MapEnd, ForEachStart, ForEachNext, ForEachItemEnd, ForEachEnd,
     WhileStart, WhilePass, WhilePassEnd, WhileEnd, WhileUnresolved, BranchStart,
     BranchUnresolved, ResumeStart, PassOn, GroupStart, GroupJoin
<1>2. CASE HostStep(p)
  BY <1>2 DEF HostStep, At, ActorReplies, ActorFails, ResumeLoaded, LoadFails
<1> QED
  BY <1>1, <1>2

\* What the reply of an actor says, and what a call, a loop, a map or a group does.
Replied == Plain \cup {"ActorInvoked"}
Said == Replied \cup {"MapCompleted"}

LEMMA RepliesSpeak ==
  ASSUME NEW p, NEW v, ActorReplies(p, v) PROVE Spoke(Lane(p), Replied) /\ active' = active
<1> USE DEF store, env
<1>1. CASE Stores(Def(p), v)
  <2> DEFINE x == EvPay("ActorInvoked", [inputs |-> fr[p].saved, outputs |-> v])
             y == Ev("NodeCompleted")
  <2>1. x.kind \in Replied /\ y.kind \in Replied /\ x.kind # y.kind
    BY DEF Replied, Plain, Ev, EvPay
  <2>2. Emit(Lane(p), <<x>> \o <<y>>)
    BY <1>1 DEF ActorReplies, Complete
  <2> HIDE DEF x, y
  <2>3. Spoke(Lane(p), Replied)
    BY <2>1, <2>2 DEF Spoke
  <2> QED
    BY <2>3 DEF ActorReplies
<1>2. CASE ~Stores(Def(p), v)
  BY <1>2 DEF ActorReplies, Spoke
<1> QED
  BY <1>1, <1>2

LEMMA SteadySpeaks ==
  ASSUME NEW p, Steady(p) \/ MapEnd(p) PROVE Spoke(Lane(p), Said) /\ active' = active
<1>1. CASE Steady(p)
  BY <1>1 DEF Steady, Spoke, Said, Replied
<1>2. CASE MapEnd(p)
  BY <1>2, MapEndSpeaks DEF Spoke, Said, Replied
<1> QED
  BY <1>1, <1>2

\* A step at any frame but an item or a session.
LEMMA PlainBooks ==
  ASSUME IInv, Tree, Books, NEW p \in DOMAIN fr, Moves(p), UNCHANGED <<wf, cancel>>,
         fr[p].kind \notin {"item", "session"}, Spoke(Lane(p), Said), active' = active
  PROVE  Books'
<1>1. /\ Clock' /\ events \subseteq events'
      /\ \A e \in events' \ events : e.kind \in Said
  BY SpokeClock DEF Books
<1>2. fr'[p].kind = fr[p].kind /\ p \in DOMAIN fr'
  BY OthersInBody DEF SameNode
<1>3. LimitBooks'
  <2>1. \A l \in DOMAIN Permits : HoldsPermit(p, l)' <=> HoldsPermit(p, l)
    BY <1>2 DEF HoldsPermit
  <2>2. \A e \in events' \ events : e.kind \notin {"SemaphoreAcquired", "SemaphoreReleased"}
    BY <1>1 DEF Said, Replied, Plain
  <2> QED
    BY <1>1, <2>1, <2>2, PermitsKept DEF Books
<1>4. ASSUME NEW kind \in DOMAIN Settles PROVE LaneBooks(kind)'
  <2>1. Counts(kind, p)' <=> Counts(kind, p)
    BY <1>2 DEF Counts
  <2>2. \A e \in events' \ events : e.kind \notin Settles[kind] \cup {kind}
    BY <1>1, SettlesKinds DEF Said, Replied, Plain
  <2> QED
    BY <1>1, <2>1, <2>2, LaneKept DEF Books
<1>5. Waiting'
  BY <1>2, WaitingKept DEF Books
<1> QED
  BY <1>1, <1>3, <1>4, <1>5 DEF Books

LEMMA SpeakOne ==
  ASSUME Clock, NEW lane, NEW x, Emit(lane, <<x>>)
  PROVE  /\ Clock' /\ events \subseteq events'
         /\ \A e \in events' \ events : e.kind = x.kind
<1> DEFINE S == {x.kind}
<1>1. x.kind \in S /\ \A k \in S : k = x.kind
  OBVIOUS
<1> HIDE DEF S
<1>2. Spoke(lane, S)
  BY <1>1 DEF Spoke
<1> QED
  BY <1>1, <1>2, SpokeClock

\* An item begins, or settles, what is counted of items and nothing else.
LEMMA ItemBooks ==
  ASSUME IInv, Tree, Books, NEW p \in DOMAIN fr, Moves(p), UNCHANGED wf,
         ItemStart(p) \/ ItemEnd(p)
  PROVE  Books'
<1> USE DEF env
<1>1. fr'[p].kind = fr[p].kind /\ p \in DOMAIN fr' /\ fr[p].kind = "item"
  BY OthersInBody, FutureStates DEF SameNode
<1>2. PICK x : /\ Emit(Lane(p), <<x>>)
               /\ ItemStart(p) => x.kind = "MapItemStarted"
               /\ ItemEnd(p) => x.kind \in {"MapItemCompleted", "MapItemFailed"}
  <2>1. CASE ItemStart(p)
    <3> DEFINE x == Ev("MapItemStarted")
    <3>1. Emit(Lane(p), <<x>>) /\ x.kind = "MapItemStarted" /\ ~ItemEnd(p)
      BY <2>1, FutureStates DEF ItemStart, Ev
    <3> HIDE DEF x
    <3> QED
      BY <3>1
  <2>2. CASE ItemEnd(p)
    <3> DEFINE r == fr[Body(p)].ret
               x == IF r.ok THEN Ev("MapItemCompleted") ELSE EvPay("MapItemFailed", r.v)
    <3>1. Emit(Lane(p), <<x>>) /\ x.kind \in {"MapItemCompleted", "MapItemFailed"}
          /\ ~ItemStart(p)
      BY <2>2, FutureStates DEF ItemEnd, Ev, EvPay
    <3> HIDE DEF x
    <3> QED
      BY <3>1
  <2> QED
    BY <2>1, <2>2
<1>3. x.kind \in {"MapItemStarted", "MapItemCompleted", "MapItemFailed"}
  BY <1>2
<1>4. /\ Clock' /\ events \subseteq events'
      /\ \A e \in events' \ events : e.kind = x.kind
  BY <1>2, SpeakOne DEF Books
<1>5. UNCHANGED <<active, cancel>>
  BY DEF ItemStart, ItemEnd
<1>6. LimitBooks'
  <2>1. \A l \in DOMAIN Permits : HoldsPermit(p, l)' <=> HoldsPermit(p, l)
    BY <1>1 DEF HoldsPermit
  <2>2. \A e \in events' \ events : e.kind \notin {"SemaphoreAcquired", "SemaphoreReleased"}
    BY <1>3, <1>4
  <2> QED
    BY <1>4, <1>5, <2>1, <2>2, PermitsKept DEF Books
<1>7. LaneBooks("SemaphoreAcquired")'
  <2>1. Counts("SemaphoreAcquired", p)' <=> Counts("SemaphoreAcquired", p)
    BY <1>1 DEF Counts
  <2>2. \A e \in events' \ events :
          e.kind \notin Settles["SemaphoreAcquired"] \cup {"SemaphoreAcquired"}
    BY <1>3, <1>4, SettlesKinds
  <2> QED
    BY <1>4, <2>1, <2>2, LaneKept, SettlesKinds DEF Books
<1>8. LaneBooks("MapItemStarted")'
  <2>1. "MapItemStarted" \notin Settles["MapItemStarted"] /\ LaneBooks("MapItemStarted")
    BY SettlesKinds DEF Books
  <2>2. CASE ItemStart(p)
    <3>1. Counts("MapItemStarted", p)' /\ ~Counts("MapItemStarted", p)
      BY <1>1, <2>2, FutureStates DEF Counts
    <3>2. x.kind = "MapItemStarted"
      BY <1>2, <2>2
    <3> QED
      BY <1>2, <2>1, <3>1, <3>2, LaneOpened DEF Books
  <2>3. CASE ItemEnd(p)
    <3>1. ~Counts("MapItemStarted", p)' /\ Counts("MapItemStarted", p)
      BY <1>1, <2>3, FutureStates DEF Counts
    <3>2. x.kind \in Settles["MapItemStarted"]
      BY <1>2, <2>3, SettlesKinds
    <3> QED
      BY <1>2, <2>1, <3>1, <3>2, LaneClosed DEF Books
  <2> QED
    BY <2>2, <2>3
<1>9. Waiting'
  BY <1>1, WaitingKept DEF Books
<1> QED
  BY <1>4, <1>5, <1>6, <1>7, <1>8, <1>9, SettlesKinds DEF Books

\* A step of a session by which it neither takes a permit nor gives one back.
LEMMA FreeSessionBooks ==
  ASSUME IInv, Tree, Books, NEW p \in DOMAIN fr, Moves(p), UNCHANGED <<wf, active, cancel>>,
         fr[p].kind = "session", Spoke(Lane(p), Plain),
         fr'[p].st = "acquire" => Def(p).limit # NoLimit,
         Def(p).limit # NoLimit => fr[p].st # "body" /\ fr'[p].st # "body"
  PROVE  Books'
<1>1. fr'[p].kind = "session" /\ p \in DOMAIN fr' /\ Def(p)' = Def(p)
  BY OthersInBody, OthersCount DEF SameNode
<1>2. /\ Clock' /\ events \subseteq events'
      /\ \A e \in events' \ events : e.kind \in Plain
  BY SpokeClock DEF Books
<1>3. LimitBooks'
  <2>1. \A l \in DOMAIN Permits : HoldsPermit(p, l)' <=> HoldsPermit(p, l)
    <3>1. ASSUME NEW l \in DOMAIN Permits PROVE ~HoldsPermit(p, l) /\ ~HoldsPermit(p, l)'
      <4>1. l # NoLimit
        BY AcceptedLimits
      <4> QED
        BY <1>1, <4>1 DEF HoldsPermit
    <3> QED
      BY <3>1
  <2>2. \A e \in events' \ events : e.kind \notin {"SemaphoreAcquired", "SemaphoreReleased"}
    BY <1>2 DEF Plain
  <2> QED
    BY <1>2, <2>1, <2>2, PermitsKept DEF Books
<1>4. ASSUME NEW kind \in DOMAIN Settles PROVE LaneBooks(kind)'
  <2>1. ~Counts(kind, p)' /\ ~Counts(kind, p)
    BY <1>1, SettlesKinds DEF Counts
  <2>2. \A e \in events' \ events : e.kind \notin Settles[kind] \cup {kind}
    BY <1>2, SettlesKinds DEF Plain
  <2> QED
    BY <1>2, <2>1, <2>2, LaneKept DEF Books
<1>5. Waiting'
  BY WaitingKept DEF Books
<1> QED
  BY <1>2, <1>3, <1>4, <1>5 DEF Books

LEMMA SessionStartBooks ==
  ASSUME IInv, Tree, Books, NEW p \in DOMAIN fr, Moves(p), UNCHANGED wf, SessionStart(p)
  PROVE  Books'
<1>1. /\ fr[p].kind = "session" /\ fr[p].st = "new"
      /\ fr'[p].st = IF Def(p).limit = NoLimit THEN "body" ELSE "acquire"
  BY FutureStates
<1>2. Spoke(Lane(p), Plain) /\ UNCHANGED <<active, cancel>>
  BY GroupSteady DEF Steady, SessionStart, env
<1> QED
  BY <1>1, <1>2, FreeSessionBooks

\* A session that enters or leaves its body as the holder of a permit.
LEMMA HeldSessionBooks ==
  ASSUME IInv, Tree, Books, NEW p \in DOMAIN fr, Moves(p), UNCHANGED <<wf, cancel>>,
         fr[p].kind = "session", Def(p).limit # NoLimit, fr'[p].st # "acquire",
         LimitBooks', LaneBooks("SemaphoreAcquired")', NEW x, Emit(Lane(p), <<x>>),
         x.kind \in {"SemaphoreAcquired", "SemaphoreReleased"}
  PROVE  Books'
<1>1. fr'[p].kind = "session" /\ p \in DOMAIN fr'
  BY OthersInBody DEF SameNode
<1>2. /\ Clock' /\ events \subseteq events'
      /\ \A e \in events' \ events : e.kind = x.kind
  BY SpeakOne DEF Books
<1>3. LaneBooks("MapItemStarted")'
  <2>1. ~Counts("MapItemStarted", p)' /\ ~Counts("MapItemStarted", p)
    BY <1>1 DEF Counts
  <2>2. \A e \in events' \ events : e.kind \notin Settles["MapItemStarted"] \cup {"MapItemStarted"}
    BY <1>2, SettlesKinds
  <2> QED
    BY <1>2, <2>1, <2>2, LaneKept, SettlesKinds DEF Books
<1>4. Waiting'
  BY WaitingKept DEF Books
<1> QED
  BY <1>2, <1>3, <1>4, SettlesKinds DEF Books

LEMMA SessionAcquireBooks ==
  ASSUME IInv, Tree, Books, NEW p \in DOMAIN fr, Moves(p), UNCHANGED wf, SessionAcquire(p)
  PROVE  Books'
<1> DEFINE L == Def(p).limit
           x == EvPay("SemaphoreAcquired", [limit |-> L])
<1>1. /\ fr[p].kind = "session" /\ fr[p].st = "acquire" /\ fr'[p].st = "body"
      /\ fr'[p].kind = "session" /\ Def(p)' = Def(p)
  BY FutureStates, OthersInBody, OthersCount DEF SameNode
<1>2. L # NoLimit /\ L \in DOMAIN Permits /\ Permits[L] \in Nat
  BY <1>1, AcceptedLimits DEF Books, Waiting, At
<1>3. /\ Room(L) /\ active' = [active EXCEPT ![L] = @ + 1] /\ cancel' = cancel
      /\ Emit(Lane(p), <<x>>)
  BY DEF SessionAcquire
<1>4. /\ \A l : ~HoldsPermit(p, l)
      /\ \A l : HoldsPermit(p, l)' <=> l = L
  BY <1>1 DEF HoldsPermit
<1>5. x.kind = "SemaphoreAcquired"
  BY DEF EvPay
<1>6. LimitBooks'
  <2>1. LimitBooks /\ Clock
    BY DEF Books
  <2> HIDE DEF L
  <2> QED
    BY <1>2, <1>3, <1>4, <2>1, PermitTaken
<1> HIDE DEF x
<1>7. LaneBooks("SemaphoreAcquired")'
  <2>1. /\ Counts("SemaphoreAcquired", p)' /\ ~Counts("SemaphoreAcquired", p)
        /\ "SemaphoreAcquired" \notin Settles["SemaphoreAcquired"]
        /\ LaneBooks("SemaphoreAcquired")
    BY <1>1, <1>2, SettlesKinds DEF Counts, Books
  <2> QED
    BY <1>3, <1>5, <2>1, LaneOpened DEF Books
<1> QED
  BY <1>1, <1>2, <1>3, <1>5, <1>6, <1>7, HeldSessionBooks

LEMMA SessionEndBooks ==
  ASSUME IInv, Tree, Books, NEW p \in DOMAIN fr, Moves(p), UNCHANGED wf, SessionEnd(p)
  PROVE  Books'
<1> DEFINE L == Def(p).limit
           x == EvPay("SemaphoreReleased", [limit |-> L])
<1>1. /\ fr[p].kind = "session" /\ fr[p].st = "body" /\ fr'[p].st = "done"
      /\ fr'[p].kind = "session" /\ Def(p)' = Def(p) /\ cancel' = cancel
  <2>1. fr[p].kind = "session" /\ fr[p].st = "body" /\ fr'[p].st = "done"
    BY FutureStates
  <2>2. fr'[p].kind = "session" /\ Def(p)' = Def(p)
    BY <2>1, OthersInBody, OthersCount DEF SameNode
  <2>3. cancel' = cancel
    BY DEF SessionEnd
  <2> QED
    BY <2>1, <2>2, <2>3
<1>2. CASE L = NoLimit
  <2>1. Spoke(Lane(p), Plain) /\ UNCHANGED active
    BY <1>2 DEF SessionEnd, Spoke, clock
  <2> QED
    BY <1>1, <1>2, <2>1, FreeSessionBooks
<1>3. CASE L # NoLimit
  <2>1. active' = [active EXCEPT ![L] = @ - 1] /\ Emit(Lane(p), <<x>>)
    BY <1>3 DEF SessionEnd, Release, Released, ReleaseAnnounced
  <2>2. L \in DOMAIN Permits /\ Permits[L] \in Nat
    BY <1>1, <1>3, AcceptedLimits
  <2>3. /\ \A l : HoldsPermit(p, l) <=> l = L
        /\ \A l : ~HoldsPermit(p, l)'
    BY <1>1 DEF HoldsPermit
  <2>4. x.kind = "SemaphoreReleased"
    BY DEF EvPay
  <2>5. LimitBooks'
    <3>1. LimitBooks /\ Clock
      BY DEF Books
    <3> HIDE DEF L
    <3> QED
      BY <2>1, <2>2, <2>3, <3>1, PermitReturned
  <2> HIDE DEF x
  <2>6. LaneBooks("SemaphoreAcquired")'
    <3>1. /\ ~Counts("SemaphoreAcquired", p)' /\ Counts("SemaphoreAcquired", p)
          /\ "SemaphoreAcquired" \notin Settles["SemaphoreAcquired"]
          /\ LaneBooks("SemaphoreAcquired")
      BY <1>1, <1>3, SettlesKinds DEF Counts, Books
    <3>2. x.kind \in Settles["SemaphoreAcquired"]
      BY <2>4, SettlesKinds
    <3> QED
      BY <2>1, <3>1, <3>2, LaneClosed DEF Books
  <2> QED
    BY <1>1, <1>3, <2>1, <2>4, <2>5, <2>6, HeldSessionBooks
<1> QED
  BY <1>2, <1>3

LEMMA StepBooks ==
  ASSUME IInv, Tree, Books, NEW p \in DOMAIN fr, FrameStep(p) \/ HostStep(p), UNCHANGED wf
  PROVE  Books'
<1>1. Moves(p) /\ cancel' = cancel
  BY StepMoves, FrameStepKeeps DEF Keeps
<1>2. CASE fr[p].kind \in {"item", "session"}
  <2>1. ItemStart(p) \/ ItemEnd(p) \/ SessionStart(p) \/ SessionAcquire(p) \/ SessionEnd(p)
    BY <1>2, FutureSteps
  <2> QED
    BY <1>1, <2>1, ItemBooks, SessionStartBooks, SessionAcquireBooks, SessionEndBooks
<1>3. CASE fr[p].kind \notin {"item", "session"}
  <2>1. Steady(p) \/ MapEnd(p) \/ \E v \in Replies : ActorReplies(p, v)
    BY <1>3, StepSteady, FutureStates
  <2>2. Spoke(Lane(p), Said) /\ active' = active
    BY <2>1, SteadySpeaks, RepliesSpeak DEF Spoke, Said
  <2> QED
    BY <1>1, <1>3, <2>2, PlainBooks
<1> QED
  BY <1>2, <1>3

-----------------------------------------------------------------------------
(* The invariant                                                           *)

\* Between two entries no future of a map or of a group is left.
LEMMA NoFutures ==
  ASSUME Tree, DOMAIN leds = {Root}
  PROVE  \A q \in DOMAIN fr : fr[q].kind \notin {"item", "session"}
<1>1. ASSUME NEW q \in DOMAIN fr, fr[q].kind \in {"item", "session"} PROVE FALSE
  <2>1. q \in DOMAIN leds
    BY <1>1 DEF Tree, LiveLedgers, OwnsLedger
  <2>2. Len(q) >= 1
    BY PositionLen DEF Tree, Rooted
  <2> QED
    BY <2>1, <2>2 DEF Root
<1> QED
  BY <1>1

LEMMA NothingBetween ==
  ASSUME IInv, \A q \in DOMAIN fr : fr[q].kind \notin {"item", "session"}
  PROVE  /\ \A kind, lane : Between(kind, lane) = {}
         /\ \A l : Holders(l) = {}
         /\ Waiting
BY DEF Between, Counts, Holders, HoldsPermit, Waiting, At

LEMMA RunStepClock ==
  ASSUME Clock, RunStep
  PROVE  /\ Clock' /\ events \subseteq events'
         /\ \A e \in events' \ events : e.kind \in {"WorkflowFailed", "WorkflowCompleted"}
<1>1. CASE Settle
  <2>1. PICK x : Emit(<<Root, 0>>, <<x>>)
    BY <1>1 DEF Settle
  <2>2. Clock'
    BY <2>1, SpeakOne
  <2> QED
    BY <2>2, RunStepEmits
<1>2. CASE UNCHANGED clock
  BY <1>2, RunStepEmits DEF clock, Clock, NextSeq
<1> QED
  BY <1>1, <1>2 DEF RunStep, EntryStart, EntryEnd, EntriesExhausted, FinalStart, FinalEnd

LEMMA RunStepRest ==
  ASSUME IInv, Tree, cancel \in BOOLEAN, RunStep
  PROVE  /\ UNCHANGED <<leds, active, records>> /\ cancel' \in BOOLEAN
         /\ DOMAIN leds = {Root}
<1>1. UNCHANGED <<leds, active, records>>
  BY DEF RunStep, EntryStart, EntryEnd, EntriesExhausted, FinalStart, FinalEnd, Settle, store
<1>2. cancel' \in BOOLEAN
  <2>1. CASE EntryEnd
    BY <2>1 DEF EntryEnd
  <2>2. CASE UNCHANGED cancel
    BY <2>2
  <2> QED
    BY <2>1, <2>2 DEF RunStep, EntryStart, EntriesExhausted, FinalStart, FinalEnd, Settle
<1>3. fr = <<>> \/ IsDone(Body(Root))
  BY DEF RunStep, EntryStart, EntryEnd, EntriesExhausted, FinalStart, FinalEnd, Settle, Tree
<1> QED
  BY <1>1, <1>2, <1>3, OnlyRunLedger

LEMMA RunStepBooks ==
  ASSUME IInv, Tree, Tree', IInv', Books, RunStep, UNCHANGED wf PROVE Books'
<1>1. /\ UNCHANGED <<leds, active>> /\ cancel' \in BOOLEAN
      /\ DOMAIN leds = {Root}
  BY RunStepRest DEF Books
<1>2. \A q \in DOMAIN fr : fr[q].kind \notin {"item", "session"}
  BY <1>1, NoFutures
<1>3. \A q \in DOMAIN fr' : fr'[q].kind \notin {"item", "session"}
  <2>1. ASSUME NEW q \in DOMAIN fr', fr'[q].kind \in {"item", "session"} PROVE FALSE
    <3>1. q \in DOMAIN leds'
      BY <2>1 DEF Tree, LiveLedgers, OwnsLedger
    <3>2. Position(q)
      BY DEF Tree, Rooted
    <3> QED
      BY <1>1, <3>1, <3>2, PositionLen DEF Root
  <2> QED
    BY <2>1
<1>4. /\ \A kind, lane : Between(kind, lane) = {}
      /\ \A l : Holders(l) = {}
  BY <1>2, NothingBetween
<1>5. /\ \A kind, lane : Between(kind, lane)' = {}
      /\ \A l : Holders(l)' = {}
      /\ Waiting'
  BY <1>3 DEF Between, Counts, Holders, HoldsPermit, Waiting, At
<1>6. /\ Clock' /\ events \subseteq events'
      /\ \A e \in events' \ events : e.kind \in {"WorkflowFailed", "WorkflowCompleted"}
  BY RunStepClock DEF Books
<1>7. LimitBooks'
  <2>1. \A l : Acquired(l)' = Acquired(l) /\ GivenBack(l)' = GivenBack(l)
    BY <1>6 DEF Acquired, GivenBack, Of
  <2>2. Permits' = Permits
    BY DEF Permits
  <2> QED
    BY <1>1, <1>4, <1>5, <2>1, <2>2 DEF Books, LimitBooks
<1>8. ASSUME NEW kind \in DOMAIN Settles PROVE LaneBooks(kind)'
  <2>1. \A lane : /\ Begun(kind, lane)' = Begun(kind, lane)
                  /\ Settled(kind, lane)' = Settled(kind, lane)
    BY <1>6, SettlesKinds DEF Begun, Settled, OnLane, Of
  <2> QED
    BY <1>4, <1>5, <2>1 DEF Books, LaneBooks
<1> QED
  BY <1>1, <1>5, <1>6, <1>7, <1>8 DEF Books

LEMMA NothingBalanced == Balanced({}, {}, {})
BY FS_EmptySet DEF Balanced

LEMMA BooksInit == Init => Books
<1> SUFFICES ASSUME Init PROVE Books
  OBVIOUS
<1>1. events = StartEvents /\ \A e \in events : e.kind = "WorkflowStarted"
  BY DEF Init, StartEvents
<1>2. Clock
  BY DEF Init, StartEvents, StartSeqs, Put, Clock, NextSeq
<1>3. DOMAIN fr = {}
  BY DEF Init
<1>4. /\ \A l : Acquired(l) = {} /\ GivenBack(l) = {} /\ Holders(l) = {}
      /\ \A kind \in DOMAIN Settles : \A lane :
           Begun(kind, lane) = {} /\ Settled(kind, lane) = {} /\ Between(kind, lane) = {}
      /\ Waiting
  BY <1>1, <1>3, SettlesKinds DEF Acquired, GivenBack, Holders, Begun, Settled, Between, OnLane,
     Of, Waiting
<1>5. LimitBooks
  <2>1. \A l \in DOMAIN Permits : Permits[l] \in Nat
    BY AcceptedLimits, InvInit
  <2>2. \A l \in DOMAIN Permits : Larger(1, Permits[l]) >= 0
    BY <2>1 DEF Larger
  <2>3. active = [l \in DOMAIN Permits |-> 0]
    BY DEF Init
  <2>4. Cardinality({}) = 0
    BY FS_EmptySet
  <2> QED
    BY <1>4, <2>2, <2>3, <2>4, NothingBalanced DEF LimitBooks
<1>6. \A kind \in DOMAIN Settles : LaneBooks(kind)
  BY <1>4, NothingBalanced DEF LaneBooks
<1>7. cancel \in BOOLEAN
  BY DEF Init
<1> QED
  BY <1>2, <1>4, <1>5, <1>6, <1>7 DEF Books

LEMMA BooksStutter == ASSUME Books, UNCHANGED vars PROVE Books'
<1>1. UNCHANGED <<wf, seqs, events, fr, active, cancel>>
  BY DEF vars
<1>2. /\ \A l : Acquired(l)' = Acquired(l) /\ GivenBack(l)' = GivenBack(l)
                /\ Holders(l)' = Holders(l)
      /\ \A kind, lane : /\ Begun(kind, lane)' = Begun(kind, lane)
                         /\ Settled(kind, lane)' = Settled(kind, lane)
                         /\ Between(kind, lane)' = Between(kind, lane)
  BY <1>1 DEF Acquired, GivenBack, Holders, HoldsPermit, Begun, Settled, Between, Counts, OnLane,
     Of, Lane, Def, Nodes
<1>3. Clock' /\ Waiting' /\ Permits' = Permits
  BY <1>1 DEF Books, Clock, NextSeq, Waiting, At, Def, Nodes, Permits
<1> QED
  BY <1>1, <1>2, <1>3 DEF Books, LimitBooks, LaneBooks

LEMMA BooksInvariant == Spec => [](IInv /\ Tree /\ Books)
<1>1. Init => Books
  BY BooksInit
<1>2. ASSUME IInv, Tree, IInv', Tree', Books, [Next]_vars PROVE Books'
  <2>1. CASE UNCHANGED vars
    BY <1>2, <2>1, BooksStutter
  <2>2. ASSUME NEW p \in DOMAIN fr, FrameStep(p) \/ HostStep(p), UNCHANGED wf PROVE Books'
    BY <1>2, <2>2, StepBooks
  <2>3. CASE RunStep /\ UNCHANGED wf
    BY <1>2, <2>3, RunStepBooks
  <2> QED
    BY <1>2, <2>1, <2>2, <2>3 DEF Next, Progress, Returned
<1> QED
  BY <1>1, <1>2, TreeInvariant, PTL DEF Spec

-----------------------------------------------------------------------------
(* What the books show                                                     *)

\* The semaphore of a limit counts the sessions that are inside their bodies,
\* never more than its permits, and the acquired and released events of the
\* limit differ by exactly those: in every workflow, whatever fails, and however
\* groups nest or share a limit.
THEOREM LimitsHold == Spec => []PermitsHeld
<1>1. ASSUME IInv, Tree, Books PROVE PermitsHeld
  <2>1. ASSUME NEW l \in DOMAIN Permits
        PROVE  /\ active[l] = Cardinality(Holders(l))
               /\ active[l] <= Larger(1, Permits[l])
               /\ active[l] = Cardinality(Acquired(l)) - Cardinality(GivenBack(l))
    <3>1. /\ active[l] = Cardinality(Holders(l)) /\ active[l] <= Larger(1, Permits[l])
          /\ Balanced(Acquired(l), GivenBack(l), Holders(l))
      BY <1>1 DEF Books, LimitBooks
    <3>2. Cardinality(GivenBack(l)) \in Nat /\ Cardinality(Holders(l)) \in Nat
      BY <3>1, FS_CardinalityType DEF Balanced
    <3> QED
      BY <3>1, <3>2 DEF Balanced
  <2> QED
    BY <2>1 DEF PermitsHeld, Holders, Acquired, GivenBack
<1> QED
  BY <1>1, BooksInvariant, PTL

\* When a run has ended, every item that was announced as started has been
\* announced as completed or failed, once, and every permit as given back, each
\* on the lane it was announced on: also in a run that failed or was cancelled.
THEOREM AllIsSettled == Spec => []EverythingSettled
<1>1. ASSUME IInv, Tree, Books, run.st = "done", NEW kind \in DOMAIN Settles, NEW lane
      PROVE  Cardinality(Begun(kind, lane)) = Cardinality(Settled(kind, lane))
  <2>1. Between(kind, lane) = {}
    BY <1>1 DEF Tree, Between
  <2>2. Balanced(Begun(kind, lane), Settled(kind, lane), {})
    BY <1>1, <2>1 DEF Books, LaneBooks
  <2>3. Cardinality(Settled(kind, lane)) \in Nat /\ Cardinality({}) = 0
    BY <2>2, FS_CardinalityType, FS_EmptySet DEF Balanced
  <2> QED
    BY <2>2, <2>3 DEF Balanced
<1>2. IInv /\ Tree /\ Books => EverythingSettled
  BY <1>1 DEF EverythingSettled, Begun, Settled
<1> QED
  BY <1>2, BooksInvariant, PTL

\* Frames, ledgers and counters have their shapes; there is a ledger for the
\* run and for every live future that owns one and no other, and whatever is
\* alive works on a ledger that is.
THEOREM RunnerTyped == Spec => []TypeOK
<1>1. ASSUME IInv, Tree, Books PROVE TypeOK
  <2>1. ASSUME NEW p \in DOMAIN fr
        PROVE  /\ fr[p].st \in StatesOf(fr[p].kind)
               /\ fr[p].node \in DOMAIN Nodes
               /\ fr[p].led \in DOMAIN leds
               /\ Len(fr[p].res) <= fr[p].k \/ fr[p].kind # "map"
               /\ DOMAIN fr[p].ret = {"ok", "v"}
    <3>1. Sound(fr[p]) /\ Shaped(fr[p]) /\ fr[p].led \in DOMAIN leds
      BY <1>1, LiveFrame
    <3> QED
      BY <3>1 DEF Sound, Shaped
  <2>2. DOMAIN leds = {Root} \cup {p \in DOMAIN fr : Owns(p)}
    <3>1. \A p \in DOMAIN fr : Owns(p) <=> OwnsLedger(fr[p])
      BY DEF Owns, OwnsLedger, At
    <3> QED
      BY <1>1, <3>1 DEF Tree, LiveLedgers
  <2>3. \A p \in DOMAIN leds : DOMAIN leds[p] = Slot
    BY <1>1 DEF Tree, LiveLedgers
  <2>4. active \in [DOMAIN Permits -> Nat] /\ cancel \in BOOLEAN
    BY <1>1 DEF Books, LimitBooks
  <2>5. run.st \in {"entry", "final", "settle", "done"} /\ run.k \in 0 .. Len(Entrypoint)
    <3>1. Len(Entrypoint) \in Nat
      BY <1>1, WorkflowAssumption DEF IInv, Accepted, Entrypoint
    <3> QED
      BY <1>1, <3>1 DEF IInv, Tree
  <2> QED
    BY <2>1, <2>2, <2>3, <2>4, <2>5 DEF TypeOK
<1> QED
  BY <1>1, BooksInvariant, PTL

-----------------------------------------------------------------------------
(* The calls that are recorded: what is assumed and what is kept           *)

\* The sessions of a group have different ids: the id of an item is its own
\* field, which nothing checks, or its index (runner.rs session_group).
SessionsDiffer ==
  \A p \in DOMAIN fr :
    At(p, "session_group", "join") =>
      \A i, j \in 1 .. Len(fr[p].items) :
        i # j => SessionId(fr[p].items[i], i) # SessionId(fr[p].items[j], j)

\* The call p makes is the last thing said on its lane, and no call is recorded
\* at the address it was given.
CallOpen(p) ==
  /\ fr[p].seq = NextSeq(Lane(p))
  /\ \A r \in records : r.lane = Lane(p) => r.seq < fr[p].seq

OpenCalls == \A p \in DOMAIN fr : At(p, "actor", "driving") => CallOpen(p)

RecordsAddressed ==
  /\ \A r \in records : r.seq \in Nat /\ r.seq <= NextSeq(r.lane)
  /\ \A r, s \in records : Addr(r) = Addr(s) => r = s
  /\ \A r \in records :
       r.v # Null => \E e \in events : /\ e.kind = "ActorInvoked" /\ Addr(e) = Addr(r)
                                      /\ e.pay.outputs = r.v
  /\ \A e \in Of("ActorInvoked") :
       \E r \in records : Addr(r) = Addr(e) /\ r.v = e.pay.outputs

Calls ==
  /\ Lanes(fr)
  /\ RecordsAddressed
  /\ OpenCalls

-----------------------------------------------------------------------------
(* Paths apart                                                             *)

LEMMA ElementsApart ==
  ASSUME NEW path, IsPath(path), NEW x, NEW y, x # y
  PROVE  Apart(Append(path, x), Append(path, y))
<1> DEFINE S == {path[i] : i \in 1 .. Len(path)} \cup {x, y}
<1>1. path \in Seq(S) /\ x \in S /\ y \in S /\ Len(path) \in Nat
  <2>1. path \in Seq({path[i] : i \in 1 .. Len(path)})
    BY DEF IsPath
  <2> QED
    BY <2>1
<1> HIDE DEF S
<1>2. /\ Len(Append(path, x)) = Len(path) + 1 /\ Append(path, x)[Len(path) + 1] = x
      /\ Len(Append(path, y)) = Len(path) + 1 /\ Append(path, y)[Len(path) + 1] = y
  BY <1>1, AppendProperties
<1> QED
  BY <1>1, <1>2 DEF Apart, Prefix

\* The last element of the position of a child.
LEMMA KidIndex ==
  ASSUME NEW p, Position(p), NEW i \in Nat PROVE Kid(p, i)[Len(Kid(p, i))] = i
<1>1. Len(Kid(p, i)) = Len(p) + 1 /\ Kid(p, i)[Len(p) + 1] = i
  BY KidPosition
<1> QED
  BY <1>1

\* Where the step at p makes a child of the futures that H describes.
LEMMA NewKid ==
  ASSUME IInv, Tree, NEW p \in DOMAIN fr, Moves(p), NEW A, NEW H, fr' = Plus(A, H),
         DOMAIN A = DOMAIN fr, NEW i \in KidsOf(fr'[p])
  PROVE  /\ i \in Nat /\ Kid(p, i) \in DOMAIN H /\ fr'[Kid(p, i)] = H[Kid(p, i)]
         /\ Kid(p, i)[Len(Kid(p, i))] = i
<1>1. Grown(fr, fr', leds, leds', p)
  <2>1. CASE Reaped(fr, fr', leds, leds', p)
    BY <2>1 DEF Reaped
  <2> QED
    BY <2>1 DEF Moves, Moved
<1>2. i \in Nat /\ Kid(p, i) \in DOMAIN fr' /\ Kid(p, i) \notin DOMAIN fr
  <2>1. Kid(p, i) \notin DOMAIN fr
    BY <1>1, GrownRooted DEF Tree
  <2>2. i \in Nat /\ Kid(p, i) \in DOMAIN fr'
    BY <1>1 DEF Grown
  <2> QED
    BY <2>1, <2>2
<1>3. Kid(p, i) \in DOMAIN H /\ fr'[Kid(p, i)] = H[Kid(p, i)]
  BY <1>2 DEF Plus
<1> QED
  BY <1>2, <1>3, LiveFrame, KidIndex

\* The items of a map differ by their index.
LEMMA ItemPaths ==
  ASSUME IInv, Tree, NEW p \in DOMAIN fr, Dispatch(p),
         NEW i \in KidsOf(fr'[p]), NEW j \in KidsOf(fr'[p]), i # j
  PROVE  Apart(fr'[Kid(p, i)].path, fr'[Kid(p, j)].path)
<1> DEFINE hi == Smaller(fr[p].k + Width(Def(p)), Len(fr[p].items))
           A == [fr EXCEPT ![p].k = hi]
           K == {Kid(p, n) : n \in fr[p].k + 1 .. hi}
           H == [q \in K |-> Frame("item", fr[p].node, Index(fr[p].path, q[Len(q)] - 1),
                                   fr[p].iter, q)]
<1>1. fr' = Plus(A, H) /\ DOMAIN A = DOMAIN fr
  BY DEF Dispatch
<1>2. \A q \in DOMAIN H : H[q].path = Index(fr[p].path, q[Len(q)] - 1)
  BY DEF Frame
<1> HIDE DEF H, A
<1>3. Moves(p)
  BY DispatchMoves
<1>4. /\ fr'[Kid(p, i)].path = Index(fr[p].path, i - 1) /\ i \in Nat
      /\ fr'[Kid(p, j)].path = Index(fr[p].path, j - 1) /\ j \in Nat
  BY <1>1, <1>2, <1>3, NewKid
<1>5. <<"#", i - 1>> # <<"#", j - 1>>
  BY <1>4
<1>6. IsPath(fr[p].path)
  BY LiveFrame DEF Sound
<1> QED
  BY <1>4, <1>5, <1>6, ElementsApart DEF Index

\* The sessions of a group differ by their ids.
LEMMA SessionPaths ==
  ASSUME IInv, Tree, SessionsDiffer', NEW p \in DOMAIN fr, GroupStart(p), p \in DOMAIN fr',
         At(p, "session_group", "join")',
         NEW i \in KidsOf(fr'[p]), NEW j \in KidsOf(fr'[p]), i # j
  PROVE  Apart(fr'[Kid(p, i)].path, fr'[Kid(p, j)].path)
<1> DEFINE items == Led(p)[Def(p).src]
<1>1. DOMAIN fr[p] = FrameFields /\ IsPath(fr[p].path)
  BY LiveFrame DEF Sound
<1>2. IsArray(Led(p), Def(p).src)
  <2>1. CASE StartFails(p, LedgerErr)
    BY <1>1, <2>1 DEF StartFails, Done, At, FrameFields
  <2> QED
    BY <2>1 DEF GroupStart
<1> DEFINE A == [fr EXCEPT ![p].st = "join", ![p].items = items]
           K == {Kid(p, n) : n \in 1 .. Len(items)}
           H == [q \in K |-> Frame("session", fr[p].node, SessionPath(p, q[Len(q)]), 0, q)]
<1>3. fr' = Plus(A, H) /\ DOMAIN A = DOMAIN fr
  BY <1>2 DEF GroupStart
<1>4. fr'[p].items = items
  <2>1. p \in DOMAIN A /\ A[p].items = items
    BY <1>1 DEF FrameFields
  <2> HIDE DEF A, H, items
  <2> QED
    BY <1>3, <2>1 DEF Plus
<1>5. \A q \in DOMAIN H : H[q].path = SessionPath(p, q[Len(q)])
  BY DEF Frame
<1> HIDE DEF H, A
<1>6. Moves(p)
  BY GroupStartMoves
<1>7. /\ fr'[Kid(p, i)].path = SessionPath(p, i) /\ i \in Nat
      /\ fr'[Kid(p, j)].path = SessionPath(p, j) /\ j \in Nat
  BY <1>3, <1>5, <1>6, NewKid
<1>8. i \in 1 .. Len(items) /\ j \in 1 .. Len(items)
  BY <1>4 DEF At, KidsOf
<1>9. SessionId(items[i], i) # SessionId(items[j], j)
  BY <1>4, <1>8 DEF SessionsDiffer
<1>10. <<SessionId(items[i], i)>> # <<SessionId(items[j], j)>>
  BY <1>9
<1> QED
  BY <1>1, <1>7, <1>10, ElementsApart DEF SessionPath, Child

\* What is known of a frame that has started futures.
LEMMA FannedFrame ==
  ASSUME IInv, Tree, NEW p \in DOMAIN fr, FrameStep(p) \/ HostStep(p), KidsOf(fr'[p]) # {}
  PROVE  /\ fr'[p].kind = fr[p].kind /\ p \in DOMAIN fr' /\ KidsOf(fr[p]) = {}
         /\ DOMAIN fr[p] = FrameFields /\ Shaped(fr[p]) /\ Shaped(fr'[p])
<1>1. Grown(fr, fr', leds, leds', p)
  <2>1. CASE Reaped(fr, fr', leds, leds', p)
    BY <2>1 DEF Reaped
  <2> QED
    BY <2>1, StepMoves DEF Moves, Moved
<1> QED
  BY <1>1, LiveFrame DEF Grown, SameNode

\* A map fans out, and a group starts its sessions, by one action each.
LEMMA MapFans ==
  ASSUME IInv, Tree, NEW p \in DOMAIN fr, FrameStep(p) \/ HostStep(p), KidsOf(fr'[p]) # {},
         fr[p].kind = "map", fr'[p].st = "fan"
  PROVE  Dispatch(p)
<1>1. /\ fr'[p].kind = "map" /\ p \in DOMAIN fr' /\ KidsOf(fr[p]) = {}
      /\ DOMAIN fr[p] = FrameFields /\ Shaped(fr[p])
  BY FannedFrame
<1>2. KidsOf(fr'[p]) = Len(fr'[p].res) + 1 .. fr'[p].k
  BY <1>1 DEF KidsOf
<1>3. MapStart(p) \/ Dispatch(p) \/ Collect(p) \/ MapEnd(p)
  <2>1. CASE FrameStep(p)
    BY <2>1 DEF FrameStep, At, Program, ProgramFails, ActorStart, ActorUnresolved,
       ItemStart, ItemEnd, ForEachStart, ForEachNext, ForEachItemEnd, ForEachEnd,
       WhileStart, WhilePass, WhilePassEnd, WhileEnd, WhileUnresolved, BranchStart,
       BranchUnresolved, ResumeStart, PassOn, GroupStart, SessionStart, SessionAcquire,
       SessionEnd, GroupJoin
  <2>2. CASE HostStep(p)
    BY <2>2 DEF HostStep, At, ActorReplies, ActorFails, ResumeLoaded, LoadFails
  <2> QED
    BY <2>1, <2>2
<1>4. CASE MapStart(p)
  <2>1. fr[p].k = 0 /\ Len(fr[p].res) \in Nat
    BY <1>1, <1>4 DEF MapStart, At, Shaped, IsSeq
  <2>2. fr'[p].k = fr[p].k /\ fr'[p].res = fr[p].res
    BY <1>1, <1>4 DEF MapStart, StartFails, Done, FrameFields
  <2> QED
    BY <1>2, <2>1, <2>2
<1>5. CASE Collect(p)
  <2>1. /\ fr[p].kind = "map" /\ fr[p].st = "fan" /\ fr[p].k - Len(fr[p].res) > 0
        /\ fr[p].k \in Nat /\ Len(fr[p].res) \in Nat
    BY <1>1, <1>5 DEF Collect, At, Shaped, IsSeq
  <2>2. fr[p].k \in Len(fr[p].res) + 1 .. fr[p].k
    BY <2>1
  <2> QED
    BY <1>1, <2>1, <2>2 DEF KidsOf
<1>6. CASE MapEnd(p)
  <2>1. PICK r : fr' = Done(fr, p, r)
    BY <1>6 DEF MapEnd, Complete
  <2> QED
    BY <1>1, <2>1 DEF Done, FrameFields
<1> QED
  BY <1>3, <1>4, <1>5, <1>6

LEMMA GroupFans ==
  ASSUME IInv, Tree, NEW p \in DOMAIN fr, FrameStep(p) \/ HostStep(p), KidsOf(fr'[p]) # {},
         fr[p].kind = "session_group", fr'[p].st = "join"
  PROVE  GroupStart(p)
<1>1. /\ fr'[p].kind = "session_group" /\ p \in DOMAIN fr' /\ KidsOf(fr[p]) = {}
      /\ DOMAIN fr[p] = FrameFields /\ Shaped(fr[p])
  BY FannedFrame
<1>2. GroupStart(p) \/ GroupJoin(p)
  <2>1. CASE FrameStep(p)
    BY <2>1 DEF FrameStep, At, Program, ProgramFails, ActorStart, ActorUnresolved,
       MapStart, Dispatch, Collect, MapEnd,
       ItemStart, ItemEnd, ForEachStart, ForEachNext, ForEachItemEnd, ForEachEnd,
       WhileStart, WhilePass, WhilePassEnd, WhileEnd, WhileUnresolved, BranchStart,
       BranchUnresolved, ResumeStart, PassOn, SessionStart, SessionAcquire, SessionEnd
  <2>2. CASE HostStep(p)
    BY <2>2 DEF HostStep, At, ActorReplies, ActorFails, ResumeLoaded, LoadFails
  <2> QED
    BY <2>1, <2>2
<1>3. CASE GroupJoin(p)
  <2>1. PICK P, r : fr' = Done(Without(fr, P), p, r)
    BY <1>3 DEF GroupJoin
  <2>2. p \in DOMAIN Without(fr, P) /\ Without(fr, P)[p] = fr[p]
    BY <1>1, <2>1 DEF Done, Without
  <2>3. fr'[p].st = "done"
    BY <1>1, <2>1, <2>2 DEF Done, FrameFields
  <2> QED
    BY <2>3
<1> QED
  BY <1>2, <1>3

\* No other step starts more than one future.
LEMMA FanningSteps ==
  ASSUME IInv, Tree, NEW p \in DOMAIN fr, FrameStep(p) \/ HostStep(p),
         NEW i \in KidsOf(fr'[p]), NEW j \in KidsOf(fr'[p]), i # j
  PROVE  \/ Dispatch(p)
         \/ GroupStart(p) /\ At(p, "session_group", "join")'
<1>1. KidsOf(fr'[p]) # {}
  OBVIOUS
<1>2. fr'[p].kind = fr[p].kind /\ p \in DOMAIN fr'
  BY <1>1, FannedFrame
<1>3. \/ fr[p].kind = "map" /\ fr'[p].st = "fan"
      \/ fr[p].kind = "session_group" /\ fr'[p].st = "join"
  BY <1>2 DEF KidsOf
<1>4. CASE fr[p].kind = "map" /\ fr'[p].st = "fan"
  BY <1>1, <1>4, MapFans
<1>5. CASE fr[p].kind = "session_group" /\ fr'[p].st = "join"
  BY <1>1, <1>2, <1>5, GroupFans DEF At
<1> QED
  BY <1>3, <1>4, <1>5

LEMMA LanesKept ==
  ASSUME IInv, Tree, Lanes(fr), SessionsDiffer', NEW p \in DOMAIN fr,
         FrameStep(p) \/ HostStep(p)
  PROVE  Lanes(fr')
<1>1. ASSUME NEW i \in KidsOf(fr'[p]), NEW j \in KidsOf(fr'[p]), i # j
      PROVE  Apart(fr'[Kid(p, i)].path, fr'[Kid(p, j)].path)
  <2>1. Dispatch(p) \/ (GroupStart(p) /\ At(p, "session_group", "join")')
    BY <1>1, FanningSteps
  <2>2. CASE Dispatch(p)
    BY <1>1, <2>2, ItemPaths
  <2>3. CASE GroupStart(p) /\ At(p, "session_group", "join")'
    BY <1>1, <2>3, SessionPaths DEF At
  <2> QED
    BY <2>1, <2>2, <2>3
<1>2. \A q \in DOMAIN fr : Len(fr[q].path) \in Nat
  BY LiveFrame
<1>3. Rooted(fr) /\ Moves(p)
  BY StepMoves DEF Tree
<1>4. CASE Grown(fr, fr', leds, leds', p)
  BY <1>1, <1>2, <1>3, <1>4, GrownLanes
<1>5. CASE Reaped(fr, fr', leds, leds', p)
  BY <1>5, ReapedLanes
<1> QED
  BY <1>3, <1>4, <1>5 DEF Moves, Moved

\* A future other than the one that steps, if it waits for a call, is on another
\* lane.
LEMMA OthersLane ==
  ASSUME IInv, Tree, Lanes(fr), NEW p \in DOMAIN fr, Moves(p),
         NEW q \in DOMAIN fr, q # p, At(q, "actor", "driving")
  PROVE  Lane(q) # Lane(p)
<1>1. ~Prefix(q, p)
  <2>1. KidsOf(fr[q]) = {}
    BY DEF At, KidsOf
  <2> QED
    BY <2>1, BelowFrame DEF Tree
<1>2. ~Prefix(p, q)
  <2>1. CASE Grown(fr, fr', leds, leds', p)
    BY <2>1, BelowFrame DEF Grown, Tree
  <2>2. CASE Reaped(fr, fr', leds, leds', p)
    <3>1. \A i \in KidsOf(fr[p]) : Kid(p, i) \in DOMAIN fr /\ fr[Kid(p, i)].st = "done"
      BY <2>2 DEF Reaped
    <3> QED
      BY <3>1, NoneBelow DEF Tree, At
  <2> QED
    BY <2>1, <2>2 DEF Moves, Moved
<1>3. Apart(fr[q].path, fr[p].path)
  BY <1>1, <1>2 DEF Apart, Lanes
<1>4. Prefix(fr[p].path, fr[p].path)
  BY LiveFrame
<1> QED
  BY <1>3, <1>4 DEF Apart, Lane

-----------------------------------------------------------------------------
(* What the steps say and record                                           *)

\* All that is said, but for the announcement of a call.
Spoken == Plain \cup {"MapItemStarted", "MapItemCompleted", "MapItemFailed", "MapCompleted",
                      "SemaphoreAcquired", "SemaphoreReleased"}

LEMMA SpokeFew ==
  ASSUME NEW lane, NEW S, NEW T, S \subseteq T, Spoke(lane, S) PROVE Spoke(lane, T)
BY DEF Spoke

LEMMA FutureSpeaks ==
  ASSUME NEW p, ItemStart(p) \/ ItemEnd(p) \/ SessionAcquire(p) \/ SessionEnd(p)
  PROVE  Spoke(Lane(p), Spoken) /\ records' = records
<1> USE DEF store, env, clock
<1>1. records' = records
  BY DEF ItemStart, ItemEnd, SessionAcquire, SessionEnd
<1>2. ASSUME NEW x, x.kind \in Spoken, Emit(Lane(p), <<x>>) PROVE Spoke(Lane(p), Spoken)
  BY <1>2 DEF Spoke
<1>3. \A k, v : Ev(k).kind = k /\ EvPay(k, v).kind = k
  BY EvPlain
<1>4. {"MapItemStarted", "MapItemCompleted", "MapItemFailed", "SemaphoreAcquired",
       "SemaphoreReleased"} \subseteq Spoken
  BY DEF Spoken
<1>5. CASE ItemStart(p)
  <2> DEFINE x == Ev("MapItemStarted")
  <2>1. x.kind \in Spoken /\ Emit(Lane(p), <<x>>)
    BY <1>3, <1>4, <1>5 DEF ItemStart
  <2> HIDE DEF x
  <2> QED
    BY <1>1, <1>2, <2>1
<1>6. CASE ItemEnd(p)
  <2> DEFINE r == fr[Body(p)].ret
             x == IF r.ok THEN Ev("MapItemCompleted") ELSE EvPay("MapItemFailed", r.v)
  <2>1. x.kind \in Spoken /\ Emit(Lane(p), <<x>>)
    BY <1>3, <1>4, <1>6 DEF ItemEnd
  <2> HIDE DEF x
  <2> QED
    BY <1>1, <1>2, <2>1
<1>7. CASE SessionAcquire(p)
  <2> DEFINE x == EvPay("SemaphoreAcquired", [limit |-> Def(p).limit])
  <2>1. x.kind \in Spoken /\ Emit(Lane(p), <<x>>)
    BY <1>3, <1>4, <1>7 DEF SessionAcquire
  <2> HIDE DEF x
  <2> QED
    BY <1>1, <1>2, <2>1
<1>8. CASE SessionEnd(p)
  <2> DEFINE x == EvPay("SemaphoreReleased", [limit |-> Def(p).limit])
  <2>1. UNCHANGED clock \/ (x.kind \in Spoken /\ Emit(Lane(p), <<x>>))
    BY <1>3, <1>4, <1>8 DEF SessionEnd, Release, ReleaseAnnounced
  <2> HIDE DEF x
  <2>2. UNCHANGED clock => Spoke(Lane(p), Spoken)
    BY DEF Spoke
  <2> QED
    BY <1>1, <1>2, <2>1, <2>2
<1> QED
  BY <1>5, <1>6, <1>7, <1>8

\* Every step but the reply of an actor.
LEMMA OthersSpeak ==
  ASSUME NEW p, FrameStep(p) \/ HostStep(p)
  PROVE  \/ Spoke(Lane(p), Spoken) /\ records' = records
         \/ \E v \in Replies : ActorReplies(p, v)
<1>1. CASE Steady(p)
  <2>1. Plain \subseteq Spoken
    BY DEF Spoken
  <2> QED
    BY <1>1, <2>1, SpokeFew DEF Steady
<1>2. CASE MapEnd(p)
  BY <1>2, MapEndSpeaks DEF Spoke, Spoken
<1> QED
  BY <1>1, <1>2, StepSteady, FutureSpeaks

\* Nothing is recorded and nothing announced as a call.
LEMMA RecordsKept ==
  ASSUME Clock, RecordsAddressed, records' = records, events \subseteq events',
         \A e \in events' \ events : e.kind # "ActorInvoked",
         \A lane : NextSeq(lane) \in Nat /\ NextSeq(lane)' \in Nat
                   /\ NextSeq(lane) <= NextSeq(lane)'
  PROVE  RecordsAddressed'
<1>1. \A r \in records : r.seq \in Nat /\ r.seq <= NextSeq(r.lane)'
  BY DEF RecordsAddressed
<1>2. Of("ActorInvoked")' = Of("ActorInvoked")
  BY DEF Of
<1> QED
  BY <1>1, <1>2 DEF RecordsAddressed, Addr

\* The lanes of a step, its own apart, count what they counted.
LEMMA SpokeCounts ==
  ASSUME Clock, NEW lane, NEW S, Spoke(lane, S)
  PROVE  /\ Clock' /\ events \subseteq events' /\ \A e \in events' \ events : e.kind \in S
         /\ \A other : NextSeq(other) \in Nat /\ NextSeq(other)' \in Nat
                       /\ NextSeq(other) <= NextSeq(other)'
         /\ \A other : other # lane => NextSeq(other)' = NextSeq(other)
<1>1. /\ Clock' /\ events \subseteq events' /\ \A e \in events' \ events : e.kind \in S
      /\ \A other : other # lane => NextSeq(other)' = NextSeq(other)
      /\ NextSeq(lane)' >= NextSeq(lane)
  BY SpokeClock
<1>2. \A other : NextSeq(other) \in Nat
  BY NextSeqNat
<1>3. \A other : NextSeq(other)' \in Nat
  BY <1>1 DEF Clock, NextSeq
<1> QED
  BY <1>1, <1>2, <1>3

-----------------------------------------------------------------------------
(* The calls that are out                                                  *)

\* The calls of the other futures stay open, whatever the step at p says and
\* records.
LEMMA OthersOpen ==
  ASSUME IInv, Tree, Lanes(fr), OpenCalls, NEW p \in DOMAIN fr, Moves(p),
         \A other : other # Lane(p) => NextSeq(other)' = NextSeq(other),
         \A r \in records' : r \in records \/ r.lane = Lane(p),
         NEW q \in DOMAIN fr', q # p, fr'[q].kind = "actor", fr'[q].st = "driving"
  PROVE  CallOpen(q)'
<1>1. q \in DOMAIN fr /\ fr'[q] = fr[q]
  BY DEF Moves, Moved, Grown, Reaped, Born
<1>2. At(q, "actor", "driving") /\ CallOpen(q)
  BY <1>1 DEF OpenCalls, At
<1>3. Lane(q) # Lane(p)
  BY <1>1, <1>2, OthersLane
<1>4. Lane(q)' = Lane(q)
  BY <1>1 DEF Lane
<1>5. fr'[q].seq = NextSeq(Lane(q))'
  <2>1. NextSeq(Lane(q))' = NextSeq(Lane(q))
    BY <1>3, <1>4 DEF NextSeq
  <2> QED
    BY <1>1, <1>2, <2>1 DEF CallOpen
<1>6. \A r \in records' : r.lane = Lane(q) => r.seq < fr'[q].seq
  BY <1>1, <1>2, <1>3 DEF CallOpen
<1> QED
  BY <1>4, <1>5, <1>6 DEF CallOpen

\* A call is opened by one action alone.
LEMMA OpensCall ==
  ASSUME IInv, Tree, NEW p \in DOMAIN fr, FrameStep(p) \/ HostStep(p),
         fr'[p].kind = "actor", fr'[p].st = "driving"
  PROVE  ActorStart(p)
<1>1. DOMAIN fr[p] = FrameFields /\ fr[p].kind = "actor"
  BY LiveFrame, StepMoves, OthersInBody DEF SameNode
<1>2. ASSUME NEW r PROVE fr' # Done(fr, p, r)
  BY <1>1 DEF Done, FrameFields
<1>3. CASE FrameStep(p)
  <2>1. ActorStart(p) \/ ActorUnresolved(p)
    BY <1>1, <1>3 DEF FrameStep, At, Program, ProgramFails, MapStart, Dispatch, Collect, MapEnd,
       ItemStart, ItemEnd, ForEachStart, ForEachNext, ForEachItemEnd, ForEachEnd,
       WhileStart, WhilePass, WhilePassEnd, WhileEnd, WhileUnresolved, BranchStart,
       BranchUnresolved, ResumeStart, PassOn, GroupStart, SessionStart, SessionAcquire,
       SessionEnd, GroupJoin
  <2> QED
    BY <1>2, <2>1 DEF ActorUnresolved, StartFails
<1>4. CASE HostStep(p)
  <2>1. ActorFails(p, DriveErr) \/ \E v \in Replies : ActorReplies(p, v)
    BY <1>1, <1>4 DEF HostStep, At, ResumeLoaded, LoadFails
  <2> QED
    BY <1>2, <2>1 DEF ActorFails, ActorReplies, Complete
<1> QED
  BY <1>3, <1>4

\* Opening a call: its address is the next on its lane, and above those of all
\* the calls recorded there.
LEMMA CallOpened ==
  ASSUME Clock, RecordsAddressed, NEW p \in DOMAIN fr, DOMAIN fr[p] = FrameFields, ActorStart(p)
  PROVE  CallOpen(p)'
<1> DEFINE n == NextSeq(Lane(p))
<1>1. seqs' = Put(seqs, Lane(p), n + 1) /\ n \in Nat
  BY EmitOne, NextSeqNat DEF ActorStart, Start
<1>2. /\ fr'[p].seq = seqs'[Lane(p)] /\ fr'[p].path = fr[p].path /\ fr'[p].iter = fr[p].iter
      /\ records' = records
  BY DEF ActorStart, PeekNextAddr, FrameFields
<1>3. Lane(p)' = Lane(p) /\ seqs'[Lane(p)] = n + 1 /\ NextSeq(Lane(p))' = n + 1
  BY <1>1, <1>2 DEF Lane, Put, NextSeq
<1>4. \A r \in records : r.lane = Lane(p) => r.seq < n + 1
  BY <1>1 DEF RecordsAddressed
<1> QED
  BY <1>2, <1>3, <1>4 DEF CallOpen

\* The reply to an open call is recorded at an address no other call has, which
\* is also the one at which it is announced.
LEMMA CallClosed ==
  ASSUME Clock, RecordsAddressed, NEW p \in DOMAIN fr, CallOpen(p),
         NEW v, ActorReplies(p, v)
  PROVE  /\ RecordsAddressed'
         /\ \A other : other # Lane(p) => NextSeq(other)' = NextSeq(other)
<1> DEFINE n == NextSeq(Lane(p))
<1>1. PICK r0 : /\ records' = records \cup {r0} /\ r0.seq = n /\ r0.lane = Lane(p) /\ r0.v = v
                /\ Addr(r0) = <<Lane(p), n>> /\ n \in Nat
  <2> DEFINE r0 == [lane |-> Lane(p), seq |-> n, v |-> v, by |-> p]
  <2>1. records' = records \cup {r0}
    BY DEF ActorReplies, Record, CallOpen
  <2>2. /\ r0.seq = n /\ r0.lane = Lane(p) /\ r0.v = v /\ Addr(r0) = <<Lane(p), n>>
        /\ n \in Nat
    BY NextSeqNat DEF Addr
  <2> HIDE DEF r0
  <2> QED
    BY <2>1, <2>2
<1>2. \A r \in records : Addr(r) # Addr(r0)
  <2>1. \A r \in records : r.lane = Lane(p) => r.seq < n /\ r.seq \in Nat
    BY DEF CallOpen, RecordsAddressed
  <2> QED
    BY <1>1, <2>1 DEF Addr
<1>3. ASSUME NEW r \in records', NEW s \in records', Addr(r) = Addr(s) PROVE r = s
  BY <1>1, <1>2, <1>3 DEF RecordsAddressed
<1>4. Spoke(Lane(p), Replied)
  BY RepliesSpeak
<1>5. /\ events \subseteq events'
      /\ \A other : NextSeq(other) \in Nat /\ NextSeq(other)' \in Nat
                    /\ NextSeq(other) <= NextSeq(other)'
      /\ \A other : other # Lane(p) => NextSeq(other)' = NextSeq(other)
  BY <1>4, SpokeCounts
<1>6. \A r \in records' : r.seq \in Nat /\ r.seq <= NextSeq(r.lane)'
  <2>1. ASSUME NEW r \in records PROVE r.seq \in Nat /\ r.seq <= NextSeq(r.lane)'
    <3>1. r.seq \in Nat /\ r.seq <= NextSeq(r.lane)
      BY DEF RecordsAddressed
    <3>2. /\ NextSeq(r.lane) \in Nat /\ NextSeq(r.lane)' \in Nat
          /\ NextSeq(r.lane) <= NextSeq(r.lane)'
      BY <1>5
    <3> QED
      BY <3>1, <3>2
  <2>2. r0.seq \in Nat /\ r0.seq <= NextSeq(r0.lane)'
    <3>1. NextSeq(r0.lane) <= NextSeq(r0.lane)'
      BY <1>5
    <3> QED
      BY <1>1, <3>1
  <2> QED
    BY <1>1, <2>1, <2>2
<1>7. CASE Stores(Def(p), v)
  <2> DEFINE x == EvPay("ActorInvoked", [inputs |-> fr[p].saved, outputs |-> v])
             y == Ev("NodeCompleted")
             ex == Event(Lane(p), n, x)
             ey == Event(Lane(p), n + 1, y)
  <2>1. Emit(Lane(p), <<x>> \o <<y>>)
    BY <1>7 DEF ActorReplies, Complete
  <2>2. events' = events \cup {ex, ey}
    BY <2>1, EmitTwo
  <2>3. /\ ex.kind = "ActorInvoked" /\ Addr(ex) = Addr(r0) /\ ex.pay.outputs = v
        /\ ey.kind = "NodeCompleted"
    BY <1>1 DEF Event, Ev, EvPay, Addr
  <2> HIDE DEF ex, ey
  <2>4. ASSUME NEW r \in records', r.v # Null
        PROVE  \E e \in events' : /\ e.kind = "ActorInvoked" /\ Addr(e) = Addr(r)
                                  /\ e.pay.outputs = r.v
    BY <1>1, <1>5, <2>2, <2>3, <2>4 DEF RecordsAddressed
  <2>5. ASSUME NEW e \in events', e.kind = "ActorInvoked"
        PROVE  \E r \in records' : Addr(r) = Addr(e) /\ r.v = e.pay.outputs
    <3>1. CASE e \in events
      BY <1>1, <2>5, <3>1 DEF RecordsAddressed, Of
    <3>2. CASE e = ex
      BY <1>1, <2>3, <3>2
    <3> QED
      BY <2>2, <2>3, <2>5, <3>1, <3>2
  <2> QED
    BY <1>3, <1>5, <1>6, <2>4, <2>5 DEF RecordsAddressed, Of
<1>8. CASE ~Stores(Def(p), v)
  <2>1. r0.v = Null /\ events' = events
    BY <1>1, <1>8 DEF Stores, ActorReplies, clock
  <2>2. ASSUME NEW r \in records', r.v # Null
        PROVE  \E e \in events' : /\ e.kind = "ActorInvoked" /\ Addr(e) = Addr(r)
                                  /\ e.pay.outputs = r.v
    BY <1>1, <2>1, <2>2 DEF RecordsAddressed
  <2>3. ASSUME NEW e \in events', e.kind = "ActorInvoked"
        PROVE  \E r \in records' : Addr(r) = Addr(e) /\ r.v = e.pay.outputs
    BY <1>1, <2>1, <2>3 DEF RecordsAddressed, Of
  <2> QED
    BY <1>3, <1>5, <1>6, <2>2, <2>3 DEF RecordsAddressed, Of
<1> QED
  BY <1>7, <1>8

-----------------------------------------------------------------------------
(* The invariant                                                           *)

LEMMA StepCalls ==
  ASSUME IInv, Tree, Clock, Calls, SessionsDiffer', NEW p \in DOMAIN fr,
         FrameStep(p) \/ HostStep(p)
  PROVE  Calls'
<1>1. Lanes(fr') /\ Moves(p) /\ DOMAIN fr[p] = FrameFields
  BY LanesKept, StepMoves, LiveFrame DEF Calls
<1>2. /\ RecordsAddressed'
      /\ \A other : other # Lane(p) => NextSeq(other)' = NextSeq(other)
      /\ \A r \in records' : r \in records \/ r.lane = Lane(p)
  <2>1. CASE Spoke(Lane(p), Spoken) /\ records' = records
    <3>1. /\ events \subseteq events' /\ \A e \in events' \ events : e.kind \in Spoken
          /\ \A other : NextSeq(other) \in Nat /\ NextSeq(other)' \in Nat
                        /\ NextSeq(other) <= NextSeq(other)'
          /\ \A other : other # Lane(p) => NextSeq(other)' = NextSeq(other)
      BY <2>1, SpokeCounts
    <3>2. \A e \in events' \ events : e.kind # "ActorInvoked"
      BY <3>1 DEF Spoken, Plain
    <3>3. RecordsAddressed'
      BY <2>1, <3>1, <3>2, RecordsKept DEF Calls
    <3> QED
      BY <2>1, <3>1, <3>3
  <2>2. ASSUME NEW v \in Replies, ActorReplies(p, v)
        PROVE  /\ RecordsAddressed'
               /\ \A other : other # Lane(p) => NextSeq(other)' = NextSeq(other)
               /\ \A r \in records' : r \in records \/ r.lane = Lane(p)
    <3>1. CallOpen(p)
      BY <2>2 DEF ActorReplies, Calls, OpenCalls
    <3>2. \A r \in records' : r \in records \/ r.lane = Lane(p)
      BY <2>2 DEF ActorReplies, Record
    <3> QED
      BY <2>2, <3>1, <3>2, CallClosed DEF Calls
  <2> QED
    BY <2>1, <2>2, OthersSpeak
<1>3. ASSUME NEW q \in DOMAIN fr', fr'[q].kind = "actor", fr'[q].st = "driving"
      PROVE  CallOpen(q)'
  <2>1. CASE q = p
    <3>1. ActorStart(p)
      BY <1>3, <2>1, OpensCall
    <3>2. CallOpen(p)'
      BY <1>1, <3>1, CallOpened DEF Calls
    <3> QED
      BY <2>1, <3>2
  <2>2. CASE q # p
    BY <1>1, <1>2, <1>3, <2>2, OthersOpen DEF Calls
  <2> QED
    BY <2>1, <2>2
<1> QED
  BY <1>1, <1>2, <1>3 DEF Calls, OpenCalls, At, Lanes

\* What Runner::run leaves of the frames is nothing, or the start of one.
LEMMA RunStepFrames ==
  ASSUME Tree, RunStep
  PROVE  \A q \in DOMAIN fr' : q = Body(Root) /\ fr'[q].st = "new"
<1>1. CASE fr' = <<>>
  BY <1>1
<1>2. ASSUME NEW id, fr' = RunNode(id)
      PROVE  \A q \in DOMAIN fr' : q = Body(Root) /\ fr'[q].st = "new"
  BY <1>2 DEF RunNode, Put, NodeFrame, Frame
<1> QED
  BY <1>1, <1>2 DEF RunStep, EntryStart, EntryEnd, EntriesExhausted, FinalStart, FinalEnd, Settle,
     Tree

LEMMA RunStepCalls ==
  ASSUME IInv, Tree, Clock, cancel \in BOOLEAN, Calls, RunStep PROVE Calls'
<1>1. \A q \in DOMAIN fr' : q = Body(Root) /\ fr'[q].st = "new"
  BY RunStepFrames
<1>2. Lanes(fr)'
  <2>1. ~Apart(Body(Root), Body(Root))
    BY DEF Apart, Prefix, Body, Kid, Root
  <2> QED
    BY <1>1, <2>1 DEF Lanes
<1>3. OpenCalls'
  BY <1>1 DEF OpenCalls, At
<1>4. /\ events \subseteq events' /\ records' = records
      /\ \A e \in events' \ events : e.kind # "ActorInvoked"
  BY RunStepEmits, RunStepRest
<1>5. \A lane : NextSeq(lane) \in Nat /\ NextSeq(lane)' \in Nat
                /\ NextSeq(lane) <= NextSeq(lane)'
  <2>1. CASE Settle
    <3>1. PICK x : Emit(<<Root, 0>>, <<x>>)
      BY <2>1 DEF Settle
    <3>2. Spoke(<<Root, 0>>, {x.kind})
      <4> DEFINE S == {x.kind}
      <4>1. x.kind \in S
        OBVIOUS
      <4> HIDE DEF S
      <4>2. Spoke(<<Root, 0>>, S)
        BY <3>1, <4>1 DEF Spoke
      <4> QED
        BY <4>2 DEF S
    <3> QED
      BY <3>2, SpokeCounts
  <2>2. CASE UNCHANGED clock
    <3>1. \A lane : NextSeq(lane) \in Nat
      BY NextSeqNat
    <3> QED
      BY <2>2, <3>1 DEF clock, NextSeq
  <2> QED
    BY <2>1, <2>2 DEF RunStep, EntryStart, EntryEnd, EntriesExhausted, FinalStart, FinalEnd
<1>6. RecordsAddressed'
  BY <1>4, <1>5, RecordsKept DEF Calls
<1> QED
  BY <1>2, <1>3, <1>6 DEF Calls

LEMMA CallsInit == Init => Calls
<1> SUFFICES ASSUME Init PROVE Calls
  OBVIOUS
<1>1. DOMAIN fr = {} /\ records = {} /\ \A e \in events : e.kind # "ActorInvoked"
  BY DEF Init, StartEvents
<1> QED
  BY <1>1 DEF Calls, Lanes, OpenCalls, RecordsAddressed, Of

LEMMA CallsStutter == ASSUME Calls, UNCHANGED vars PROVE Calls'
<1>1. UNCHANGED <<seqs, events, records, fr>>
  BY DEF vars
<1>2. \A p : CallOpen(p)' <=> CallOpen(p)
  BY <1>1 DEF CallOpen, Lane, NextSeq
<1>3. RecordsAddressed'
  BY <1>1 DEF Calls, RecordsAddressed, NextSeq, Of
<1> QED
  BY <1>1, <1>2, <1>3 DEF Calls, OpenCalls, At, Lanes

LEMMA CallsInvariant == Spec /\ []SessionsDiffer => [](IInv /\ Tree /\ Books /\ Calls)
<1>1. Init => Calls
  BY CallsInit
<1>2. ASSUME IInv, Tree, Books, Calls, SessionsDiffer', [Next]_vars PROVE Calls'
  <2>1. CASE UNCHANGED vars
    BY <1>2, <2>1, CallsStutter
  <2>2. ASSUME NEW p \in DOMAIN fr, FrameStep(p) \/ HostStep(p) PROVE Calls'
    BY <1>2, <2>2, StepCalls DEF Books
  <2>3. CASE RunStep
    BY <1>2, <2>3, RunStepCalls DEF Books
  <2> QED
    BY <1>2, <2>1, <2>2, <2>3 DEF Next, Progress, Returned
<1> QED
  BY <1>1, <1>2, BooksInvariant, PTL DEF Spec

\* If the sessions of every group that is started have ids of their own, events
\* and recorded calls have addresses of their own, and every call is recorded at
\* the very address at which it is announced, in every workflow: no other future
\* speaks on the lane of a call between the peek and the emit of runner.rs.
THEOREM CallsKeepTheirAddress == Spec /\ []SessionsDiffer => []CallsAddressed
<1>1. Books /\ Calls => CallsAddressed
  <2> SUFFICES ASSUME Books, Calls PROVE CallsAddressed
    OBVIOUS
  <2>1. \A d, e \in events : Addr(d) = Addr(e) => d = e
    BY DEF Books, Clock, Addr
  <2> QED
    BY <2>1 DEF Calls, RecordsAddressed, CallsAddressed
<1> QED
  BY <1>1, CallsInvariant, PTL
=============================================================================
