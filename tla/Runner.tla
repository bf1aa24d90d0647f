------------------------------- MODULE Runner -------------------------------
(***************************************************************************)
(* The workflow runner of jesterky-core: Runner::run, the dispatch on node *)
(* kinds, map, for_each, session_group, the LimitSet semaphores and the    *)
(* goal-driven end of a run (runner.rs, limits.rs, ledger.rs).             *)
(*                                                                         *)
(* The recursion of execute_node is a tree of frames, named by positions:  *)
(* the frame at p runs its sequential body at p \o <<1>> and its           *)
(* concurrent futures at p \o <<1>>, p \o <<2>>, ...  Futures interleave   *)
(* at the granularity of these steps; join_all_ordered first polls them in *)
(* order, and that much of its order is kept.                              *)
(*                                                                         *)
(* JSON is abstracted to null and arrays: null is what has no fields and   *)
(* is not an array, an array is truthy unless empty, and a reference names *)
(* a ledger slot or an item binding.                                       *)
(***************************************************************************)
EXTENDS LogicalClock, FiniteSets

CONSTANTS
  Workflows,          \* the workflows run, as described at wf
  RunProgram(_, _),   \* a registered program, from op and input to a result
  SessionId(_, _),    \* the session id of an item and its index
  Null, Unset, NoRef, NoNode, NoLimit, NoSignal,
  DriveErr, LedgerErr, GateErr, GoalUnmet, UnknownNode, ReplayMiss

\* What validate leaves to the runner: every node is of a kind there is, the
\* body of one, being inline, exists, entrypoints and branches name nodes, and
\* a session_group names a limit that is declared; widths and permits are u32.
Kinds == {"program", "actor", "map", "for_each", "while", "branch",
          "session_group", "resume_session"}
Accepted(w) ==
  /\ \A id \in DOMAIN w.nodes :
       LET nd == w.nodes[id] IN
       /\ nd.kind \in Kinds
       /\ nd.kind \notin {"program", "actor", "branch"} => nd.body \in DOMAIN w.nodes
       /\ nd.kind = "branch" => {nd.then, nd.else} \subseteq DOMAIN w.nodes \cup {NoNode}
       /\ nd.kind = "map" => nd.width \in Nat
       /\ nd.kind = "session_group" => nd.limit \in DOMAIN w.limits \cup {NoLimit}
  /\ w.entrypoint \in Seq(DOMAIN w.nodes)
  /\ w.map_concurrency \in Nat
  /\ \A l \in DOMAIN w.limits : l # NoLimit /\ w.limits[l] \in Nat

ASSUME WorkflowAssumption == \A w \in Workflows : Accepted(w)

VARIABLES
  wf,       \* the workflow and run plan handed to Runner::run
  fr,       \* the live frames: position -> frame
  leds,     \* the ledgers: position of the owner -> slot -> value
  nodeIo,   \* node_io: lane -> the fan signal of the node, or NoSignal
  active,   \* LimitState.active of every limit
  cancel,   \* RunCtx.cancel
  run       \* Runner::run: [st, k, failure, terminated, status, stop]

vars == <<wf, seqs, events, records, fr, leds, nodeIo, active, cancel, run>>

\* A workflow: its topology (node id -> node, inline bodies included), its
\* entrypoint, its ledger slots (item names included) and the arguments seeding
\* them, the limits of its run plan and its goals, and what its hosts may do.
Nodes == wf.nodes
Entrypoint == wf.entrypoint
Slot == wf.slots
Args == wf.args
MapConcurrency == wf.map_concurrency   \* 0 when absent
Permits == wf.limits                   \* limit name -> permits
Goals == wf.goals                      \* [slot, want, required]; {} is an empty plan
TerminateOnMet == wf.terminate
CancelInFlight == wf.cancel_in_flight
FailOnUnmet == wf.fail_on_unmet
FinalizeNode == wf.finalize            \* or NoNode
Replies == wf.replies                  \* the values an actor may answer with
ActorsFail == wf.hosts_fail            \* whether a drive, or a checkpoint load, may fail

-----------------------------------------------------------------------------
(* Values, results, paths                                                  *)

Ok(v) == [ok |-> TRUE, v |-> v]
Err(e) == [ok |-> FALSE, v |-> e]

Truthy(v) == v \notin {Null, <<>>}

\* item_as and, always, "item" are bound to an item, and restored after it.
BindItem(l, as, v) == [s \in Slot |-> IF s \in {as, "item"} THEN v ELSE l[s]]
RestoreItem(l, as, old) ==
  [s \in Slot |-> IF s \in {as, "item"} THEN old[s] ELSE l[s]]

Resolves(l, s) == l[s] # Unset
Given(l, s) == l[s] \notin {Unset, Null}
IsArray(l, s) == Given(l, s) /\ Len(l[s]) \in Nat

\* An input binding is a path into a slot, so that null has nothing there.
InputResolves(l, nd) == nd.in # NoRef => Given(l, nd.in)
InputOf(l, nd) == IF nd.in = NoRef THEN Null ELSE l[nd.in]

\* store_outputs: the declared field has to be in the result.
Stores(nd, v) == nd.out # NoRef => v # Null
Stored(l, nd, v) == IF nd.out = NoRef THEN l ELSE [l EXCEPT ![nd.out] = v]

Child(path, name) == Append(path, <<name>>)
\* (Faulty: all items share the path of their map.)
IndexForgotten(path, i) == path
Index(path, i) == Append(path, <<"#", i>>)

Ev(kind) == [kind |-> kind, pay |-> Null]
EvPay(kind, v) == [kind |-> kind, pay |-> v]

-----------------------------------------------------------------------------
(* Frames                                                                  *)

Frame(kind, node, path, iter, led) ==
  [kind |-> kind, node |-> node, path |-> path, iter |-> iter, led |-> led,
   st |-> "new", k |-> 0, items |-> <<>>, res |-> <<>>, ret |-> Ok(Null),
   seq |-> 0, saved |-> <<>>]

NodeFrame(id, path, iter, led) == Frame(Nodes[id].kind, id, path, iter, led)

At(p, kind, st) == p \in DOMAIN fr /\ fr[p].kind = kind /\ fr[p].st = st
Def(p) == Nodes[fr[p].node]
Lane(p) == <<fr[p].path, fr[p].iter>>
Led(p) == leds[fr[p].led]

Kid(p, i) == Append(p, i)
Body(p) == Kid(p, 1)
IsDone(p) == p \in DOMAIN fr /\ fr[p].st = "done"

Done(f, p, r) == [f EXCEPT ![p].st = "done", ![p].ret = r]
Without(f, P) == [x \in DOMAIN f \ P |-> f[x]]
\* The functions f and g, defined at different places, as one.
Plus(f, g) ==
  [x \in DOMAIN f \cup DOMAIN g |-> IF x \in DOMAIN f THEN f[x] ELSE g[x]]

\* execute_node_with_ledger emits this on entry, and NodeCompleted on success.
Start(p) == Emit(Lane(p), <<Ev("NodeStarted")>>)

\* The node fails right after NodeStarted: nothing else is emitted or stored.
StartFails(p, e) ==
  /\ Start(p)
  /\ fr' = Done(fr, p, Err(e))
  /\ UNCHANGED <<records, leds, nodeIo, active, cancel, run>>

\* The node completes with value v after emitting es.
Complete(p, es, v) ==
  /\ Emit(Lane(p), es \o <<Ev("NodeCompleted")>>)
  /\ fr' = Done(fr, p, Ok(v))

\* A frame passes on the result of its finished body, which disappears.
BodyFails(p) ==
  /\ IsDone(Body(p)) /\ ~fr[Body(p)].ret.ok
  /\ fr' = Done(Without(fr, {Body(p)}), p, fr[Body(p)].ret)

\* A loop goes round once more, keeping the result of the pass.
LoopOn(p) ==
  /\ IsDone(Body(p)) /\ fr[Body(p)].ret.ok
  /\ fr' = [Without(fr, {Body(p)}) EXCEPT ![p].st = "loop", ![p].ret = fr[Body(p)].ret]

\* The frame at p waits for the node id to run as its body.
Enter(p, id, path, iter, led) ==
  Put([fr EXCEPT ![p].st = "body"], Body(p), NodeFrame(id, path, iter, led))

store == <<leds, nodeIo>>
env == <<active, cancel, run>>
clock == <<seqs, events>>

-----------------------------------------------------------------------------
(* program, reduce                                                         *)

Computed(p) ==
  LET nd == Def(p)
      r == RunProgram(nd.op, InputOf(Led(p), nd))
  IN  IF ~InputResolves(Led(p), nd) \/ (r.ok /\ ~Stores(nd, r.v))
        THEN Err(LedgerErr) ELSE r

Program(p) ==
  /\ At(p, "program", "new")
  /\ Computed(p).ok
  /\ leds' = [leds EXCEPT ![fr[p].led] = Stored(@, Def(p), Computed(p).v)]
  /\ nodeIo' = Put(nodeIo, Lane(p), NoSignal)
  /\ Complete(p, <<Ev("NodeStarted")>>, Computed(p).v)
  /\ UNCHANGED <<records, env>>

ProgramFails(p) ==
  /\ At(p, "program", "new")
  /\ ~Computed(p).ok
  /\ StartFails(p, Computed(p).v)

-----------------------------------------------------------------------------
(* actor                                                                   *)

\* peek_next_addr, once NodeStarted is out.  (Faulty: peeked before that.)
PeekBeforeStart(p) == NextSeq(Lane(p))
PeekNextAddr(p) == seqs'[Lane(p)]

\* The inputs and the address of the call are fixed before the drive is awaited.
ActorStart(p) ==
  /\ At(p, "actor", "new")
  /\ InputResolves(Led(p), Def(p))
  /\ Start(p)
  /\ fr' = [fr EXCEPT ![p].st = "driving", ![p].seq = PeekNextAddr(p),
                   ![p].saved = InputOf(Led(p), Def(p))]
  /\ UNCHANGED <<records, store, env>>

ActorUnresolved(p) ==
  /\ At(p, "actor", "new")
  /\ ~InputResolves(Led(p), Def(p))
  /\ StartFails(p, LedgerErr)

\* The drive returns: a reply is recorded at the peeked address, stored, and
\* only then announced at the address emit allocates.
ActorReplies(p, v) ==
  /\ At(p, "actor", "driving")
  /\ Record(Lane(p), fr[p].seq, v, p)
  /\ IF Stores(Def(p), v)
       THEN /\ leds' = [leds EXCEPT ![fr[p].led] = Stored(@, Def(p), v)]
            /\ nodeIo' = Put(nodeIo, Lane(p), NoSignal)
            /\ Complete(p, <<EvPay("ActorInvoked",
                                [inputs |-> fr[p].saved, outputs |-> v])>>, v)
       ELSE /\ fr' = Done(fr, p, Err(LedgerErr))
            /\ UNCHANGED <<clock, store>>
  /\ UNCHANGED env

ActorFails(p, e) ==
  /\ At(p, "actor", "driving")
  /\ fr' = Done(fr, p, Err(e))
  /\ UNCHANGED <<clock, records, store, env>>

-----------------------------------------------------------------------------
(* join_all_ordered                                                        *)

\* Futures are polled in order: none starts before its elders have.
EldersStarted(q) ==
  LET p == SubSeq(q, 1, Len(q) - 1) IN
  \A i \in 1 .. q[Len(q)] - 1 :
    Kid(p, i) \in DOMAIN fr => fr[Kid(p, i)].st # "new"

\* It returns when all have.  (Faulty: as soon as one has.)
JoinedByAny(kids) == \E q \in kids : IsDone(q)
Joined(kids) == \A q \in kids : IsDone(q)

\* The ledgers of joined futures go with them.  (Faulty: they stay.)
Retained(kids) == leds
Reclaimed(kids) == Without(leds, kids)

-----------------------------------------------------------------------------
(* map                                                                     *)

Larger(a, b) == IF a > b THEN a ELSE b
Smaller(a, b) == IF a < b THEN a ELSE b

Width(nd) == Larger(1, IF nd.width # 0 THEN nd.width ELSE MapConcurrency)

\* A parallel map resolves the inputs of every item before it starts any.
Prepared(p) ==
  LET nd == Def(p) IN
  /\ IsArray(Led(p), nd.src)
  /\ Width(nd) > 1 =>
       \A i \in DOMAIN Led(p)[nd.src] :
         InputResolves(BindItem(Led(p), nd.as, Led(p)[nd.src][i]), Nodes[nd.body])

\* Every item gets a copy of base_ledger, the ledger as it was at the start.
MapStart(p) ==
  /\ At(p, "map", "new")
  /\ IF Prepared(p)
       THEN /\ Start(p)
            /\ fr' = [fr EXCEPT ![p].st = "fan", ![p].items = Led(p)[Def(p).src]]
            /\ leds' = Put(leds, p, Led(p))
            /\ UNCHANGED <<records, nodeIo, env>>
       ELSE StartFails(p, LedgerErr)

\* The cancel flag is read before each item (serial) or chunk (parallel).
\* (Faulty: it is not.)
Unstoppable == FALSE
Stopping == cancel

Dispatch(p) ==
  /\ At(p, "map", "fan")
  /\ ~Stopping
  /\ Len(fr[p].res) = fr[p].k /\ fr[p].k < Len(fr[p].items)
  /\ LET hi == Smaller(fr[p].k + Width(Def(p)), Len(fr[p].items))
         kids == {Kid(p, i) : i \in fr[p].k + 1 .. hi}
         nth(q) == q[Len(q)]
     IN  /\ fr' = Plus([fr EXCEPT ![p].k = hi],
              [q \in kids |-> Frame("item", fr[p].node,
                                    Index(fr[p].path, nth(q) - 1), fr[p].iter, q)])
         /\ leds' = Plus(leds,
              [q \in kids |-> BindItem(leds[p], Def(p).as, fr[p].items[nth(q)])])
  /\ UNCHANGED <<clock, records, nodeIo, env>>

\* The body works on the ledger of the item.  (Faulty: on that of the map.)
SharedLedger(q) == fr[SubSeq(q, 1, Len(q) - 1)].led
ItemLedger(q) == q

ItemStart(q) ==
  /\ At(q, "item", "new") /\ EldersStarted(q)
  /\ Emit(Lane(q), <<Ev("MapItemStarted")>>)
  /\ fr' = Enter(q, Def(q).body, fr[q].path, fr[q].iter, ItemLedger(q))
  /\ UNCHANGED <<records, store, env>>

ItemEnd(q) ==
  /\ At(q, "item", "body") /\ IsDone(Body(q))
  /\ LET r == fr[Body(q)].ret IN
     /\ Emit(Lane(q), <<IF r.ok THEN Ev("MapItemCompleted")
                               ELSE EvPay("MapItemFailed", r.v)>>)
     /\ fr' = Done(Without(fr, {Body(q)}), q, r)
  /\ UNCHANGED <<records, store, env>>

\* The chunk is over when all its futures are: results are kept in item order.
Collect(p) ==
  /\ At(p, "map", "fan")
  /\ LET n == Len(fr[p].res)
         m == fr[p].k - n
         kids == {Kid(p, n + i) : i \in 1 .. m}
     IN  /\ m > 0
         /\ Joined(kids)
         /\ fr' = [Without(fr, kids) EXCEPT
                     ![p].res = @ \o [i \in 1 .. m |-> fr[Kid(p, n + i)].ret]]
         /\ leds' = Reclaimed(kids)
  /\ UNCHANGED <<clock, records, nodeIo, env>>

Successes(p) == Cardinality({i \in DOMAIN fr[p].res : fr[p].res[i].ok})
\* A cancelled map is exempt from min_success.  (Faulty: attempts are counted.)
GateOfAttempts(p) ==
  cancel \/ Len(fr[p].res) * 100 >= Def(p).min * Len(fr[p].items)
GatePassed(p) ==
  cancel \/ Successes(p) * 100 >= Def(p).min * Len(fr[p].items)

\* A failed item leaves null in the collected array.  (Faulty: it leaves none.)
MapValueOfSuccesses(p) ==
  LET IsOk(r) == r.ok
      good == SelectSeq(fr[p].res, IsOk)
  IN  IF Def(p).out = NoRef THEN Null ELSE [i \in DOMAIN good |-> good[i].v]
MapValue(p) ==
  IF Def(p).out = NoRef THEN Null
  ELSE [i \in DOMAIN fr[p].res |-> IF fr[p].res[i].ok THEN fr[p].res[i].v ELSE Null]

MapEnd(p) ==
  /\ At(p, "map", "fan")
  /\ Len(fr[p].res) = fr[p].k
  /\ fr[p].k = Len(fr[p].items) \/ cancel
  /\ IF GatePassed(p)
       THEN /\ leds' = Without([leds EXCEPT ![fr[p].led] = Stored(@, Def(p), MapValue(p))],
                               {p})
            /\ nodeIo' = Put(nodeIo, Lane(p),
                 [min |-> Def(p).min, total |-> Len(fr[p].items), 
                  attempted |-> Len(fr[p].res), successes |-> Successes(p), cancelled |-> cancel])
            /\ Complete(p, <<EvPay("MapCompleted", [successes |-> Successes(p)])>>, MapValue(p))
       ELSE /\ fr' = Done(fr, p, Err(GateErr))
            /\ leds' = Without(leds, {p})
            /\ UNCHANGED <<clock, nodeIo>>
  /\ UNCHANGED <<records, env>>

-----------------------------------------------------------------------------
(* for_each: sequential, on the ledger it was given, whatever the flag says *)

ForEachStart(p) ==
  /\ At(p, "for_each", "new")
  /\ IF IsArray(Led(p), Def(p).src)
       THEN /\ Start(p)
            /\ fr' = [fr EXCEPT ![p].st = "loop", ![p].items = Led(p)[Def(p).src]]
            /\ UNCHANGED <<records, store, env>>
       ELSE StartFails(p, LedgerErr)

ForEachNext(p) ==
  /\ At(p, "for_each", "loop")
  /\ fr[p].k < Len(fr[p].items)
  /\ leds' = [leds EXCEPT ![fr[p].led] =
                BindItem(@, Def(p).as, fr[p].items[fr[p].k + 1])]
  /\ fr' = [Enter(p, Def(p).body, Index(fr[p].path, fr[p].k), fr[p].iter, fr[p].led)
              EXCEPT ![p].k = @ + 1, ![p].saved = Led(p)]
  /\ UNCHANGED <<clock, records, nodeIo, env>>

\* The bindings are restored before a failure of the body is passed on.
\* (Faulty: a failure is returned first.)
RestoredIfOk(p) ==
  IF IsDone(Body(p)) /\ ~fr[Body(p)].ret.ok THEN Led(p)
  ELSE RestoreItem(Led(p), Def(p).as, fr[p].saved)
Restored(p) == RestoreItem(Led(p), Def(p).as, fr[p].saved)

ForEachItemEnd(p) ==
  /\ At(p, "for_each", "body")
  /\ leds' = [leds EXCEPT ![fr[p].led] = Restored(p)]
  /\ LoopOn(p) \/ BodyFails(p)
  /\ UNCHANGED <<clock, records, nodeIo, env>>

ForEachEnd(p) ==
  /\ At(p, "for_each", "loop")
  /\ fr[p].k = Len(fr[p].items)
  /\ nodeIo' = Put(nodeIo, Lane(p), NoSignal)
  /\ Complete(p, <<>>, fr[p].ret.v)
  /\ UNCHANGED <<records, leds, env>>

-----------------------------------------------------------------------------
(* while, branch, resume_session                                           *)

WhileStart(p) ==
  /\ At(p, "while", "new")
  /\ Start(p)
  /\ fr' = [fr EXCEPT ![p].st = "loop"]
  /\ UNCHANGED <<records, store, env>>

\* The pass is the iteration of the body's lane.  (Faulty: the loop's is.)
LoopIteration(p) == fr[p].iter
PassIteration(p) == fr[p].k

WhilePass(p) ==
  /\ At(p, "while", "loop")
  /\ fr[p].k < Def(p).iters
  /\ Resolves(Led(p), Def(p).src) /\ Truthy(Led(p)[Def(p).src])
  /\ fr' = [Enter(p, Def(p).body, Child(fr[p].path, "body"), PassIteration(p), fr[p].led)
              EXCEPT ![p].k = @ + 1]
  /\ UNCHANGED <<clock, records, store, env>>

WhilePassEnd(p) ==
  /\ At(p, "while", "body")
  /\ LoopOn(p) \/ BodyFails(p)
  /\ UNCHANGED <<clock, records, store, env>>

WhileEnd(p) ==
  /\ At(p, "while", "loop")
  /\ \/ fr[p].k = Def(p).iters
     \/ Resolves(Led(p), Def(p).src) /\ ~Truthy(Led(p)[Def(p).src])
  /\ Complete(p, <<>>, fr[p].ret.v)
  /\ UNCHANGED <<records, store, env>>

WhileUnresolved(p) ==
  /\ At(p, "while", "loop")
  /\ fr[p].k < Def(p).iters
  /\ ~Resolves(Led(p), Def(p).src)
  /\ fr' = Done(fr, p, Err(LedgerErr))
  /\ UNCHANGED <<clock, records, store, env>>

Target(p) == IF Truthy(Led(p)[Def(p).src]) THEN Def(p).then ELSE Def(p).else

BranchStart(p) ==
  /\ At(p, "branch", "new")
  /\ Resolves(Led(p), Def(p).src)
  /\ IF Target(p) = NoNode
       THEN Complete(p, <<Ev("NodeStarted")>>, Null)
       ELSE /\ Start(p)
            /\ fr' = Enter(p, Target(p), Child(fr[p].path, Target(p)),
                           fr[p].iter, fr[p].led)
  /\ UNCHANGED <<records, store, env>>

BranchUnresolved(p) ==
  /\ At(p, "branch", "new")
  /\ ~Resolves(Led(p), Def(p).src)
  /\ StartFails(p, LedgerErr)

ResumeStart(p) ==
  /\ At(p, "resume_session", "new")
  /\ IF Resolves(Led(p), Def(p).src)
       THEN /\ Start(p)
            /\ fr' = [fr EXCEPT ![p].st = "loading"]
            /\ UNCHANGED <<records, store, env>>
       ELSE StartFails(p, LedgerErr)

\* The checkpoint v of the session, null when there is none, is bound for the
\* body on a ledger of its own.
ResumeLoaded(p, v) ==
  /\ At(p, "resume_session", "loading")
  /\ Emit(Lane(p), <<Ev("SessionResumed")>>)
  /\ leds' = Put(leds, p, BindItem(Led(p), "session", v))
  /\ fr' = Enter(p, Def(p).body, Child(fr[p].path, "body"), fr[p].iter, p)
  /\ UNCHANGED <<records, nodeIo, env>>

LoadFails(p, e) ==
  /\ At(p, "resume_session", "loading")
  /\ fr' = Done(fr, p, Err(e))
  /\ UNCHANGED <<clock, records, store, env>>

\* Branch and resume_session pass on what their body returned.
PassOn(p) ==
  /\ At(p, "branch", "body") \/ At(p, "resume_session", "body")
  /\ \/ BodyFails(p) /\ UNCHANGED clock
     \/ /\ IsDone(Body(p)) /\ fr[Body(p)].ret.ok
        /\ Emit(Lane(p), <<Ev("NodeCompleted")>>)
        /\ fr' = Done(Without(fr, {Body(p)}), p, fr[Body(p)].ret)
  /\ leds' = Without(leds, {p})
  /\ UNCHANGED <<records, nodeIo, env>>

-----------------------------------------------------------------------------
(* session_group and the semaphores of LimitSet                            *)

\* (Faulty: one session too many.)
RoomForOneMore(l) == active[l] <= Larger(1, Permits[l])
Room(l) == active[l] < Larger(1, Permits[l])

SessionPath(p, i) == Child(fr[p].path, SessionId(Led(p)[Def(p).src][i], i))

GroupStart(p) ==
  /\ At(p, "session_group", "new")
  /\ IF IsArray(Led(p), Def(p).src)
       THEN LET items == Led(p)[Def(p).src]
                kids == {Kid(p, i) : i \in 1 .. Len(items)}
                item(q) == items[q[Len(q)]]
                path(q) == SessionPath(p, q[Len(q)])
            IN  /\ Start(p)
                /\ fr' = Plus([fr EXCEPT ![p].st = "join", ![p].items = items],
                     [q \in kids |-> Frame("session", fr[p].node, path(q), 0, q)])
                /\ leds' = Plus(leds,
                     [q \in kids |-> BindItem(Led(p), "item", item(q))])
                /\ UNCHANGED <<records, nodeIo, env>>
       ELSE StartFails(p, LedgerErr)

EnterSession(q) == Enter(q, Def(q).body, Child(fr[q].path, "body"), 0, q)

SessionStart(q) ==
  /\ At(q, "session", "new") /\ EldersStarted(q)
  /\ Emit(Lane(q), <<Ev("SessionStarted")>>)
  /\ fr' = IF Def(q).limit = NoLimit THEN EnterSession(q)
           ELSE [fr EXCEPT ![q].st = "acquire"]
  /\ UNCHANGED <<records, store, env>>

\* A woken waiter tries again: whoever polls first takes the permit.
SessionAcquire(q) ==
  /\ At(q, "session", "acquire")
  /\ Room(Def(q).limit)
  /\ active' = [active EXCEPT ![Def(q).limit] = @ + 1]
  /\ Emit(Lane(q), <<EvPay("SemaphoreAcquired", [limit |-> Def(q).limit])>>)
  /\ fr' = EnterSession(q)
  /\ UNCHANGED <<records, store, cancel, run>>

Released(q) == active' = [active EXCEPT ![Def(q).limit] = @ - 1]
ReleaseAnnounced(q) ==
  Emit(Lane(q), <<EvPay("SemaphoreReleased", [limit |-> Def(q).limit])>>)

\* The guard is dropped, and the release announced, whatever the body returned.
\* (Faulty: not announced, or not even dropped, when the body has failed.)
ReleaseOkAnnounced(q) ==
  /\ Released(q)
  /\ IF fr[Body(q)].ret.ok THEN ReleaseAnnounced(q) ELSE UNCHANGED clock
ReleaseOk(q) ==
  IF fr[Body(q)].ret.ok THEN Released(q) /\ ReleaseAnnounced(q)
                        ELSE UNCHANGED <<active, clock>>
Release(q) == Released(q) /\ ReleaseAnnounced(q)

SessionEnd(q) ==
  /\ At(q, "session", "body") /\ IsDone(Body(q))
  /\ IF Def(q).limit = NoLimit THEN UNCHANGED <<active, clock>> ELSE Release(q)
  /\ fr' = Done(Without(fr, {Body(q)}), q, fr[Body(q)].ret)
  /\ UNCHANGED <<records, store, cancel, run>>

\* The group waits for all its sessions, then fails with the first failure.
GroupJoin(p) ==
  /\ At(p, "session_group", "join")
  /\ LET n == Len(fr[p].items)
         kids == {Kid(p, i) : i \in 1 .. n}
         ret(i) == fr[Kid(p, i)].ret
         bad == {i \in 1 .. n : ~ret(i).ok}
         first == CHOOSE i \in bad : \A j \in bad : i <= j
     IN  /\ Joined(kids)
         /\ IF bad = {} THEN Emit(Lane(p), <<Ev("NodeCompleted")>>)
                        ELSE UNCHANGED clock
         /\ fr' = Done(Without(fr, kids), p,
                       IF bad = {} THEN Ok([i \in 1 .. n |-> ret(i).v])
                                   ELSE ret(first))
         /\ leds' = Reclaimed(kids)
  /\ UNCHANGED <<records, nodeIo, env>>

-----------------------------------------------------------------------------
(* Runner::run                                                             *)

Root == <<>>
RootLed == leds[Root]

\* A goal is a wanted set of values of a slot: GoalEngine sees slots, not items.
GoalMet(g) == RootLed[g.slot] \in g.want
AllRequiredMet == \A g \in Goals : g.required => GoalMet(g)

RunNode(id) == Put(<<>>, Body(Root), NodeFrame(id, Child(Root, id), 0, Root))

EntryStart ==
  /\ run.st = "entry" /\ fr = <<>>
  /\ run.k < Len(Entrypoint)
  /\ fr' = RunNode(Entrypoint[run.k + 1])
  /\ run' = [run EXCEPT !.k = @ + 1]
  /\ UNCHANGED <<clock, records, store, active, cancel>>

\* The rest of the entrypoints is skipped.
WindUp == [run EXCEPT !.st = "final", !.terminated = TRUE]

\* Goals are looked at after every entrypoint that succeeds.
EntryEnd ==
  /\ run.st = "entry" /\ IsDone(Body(Root))
  /\ LET r == fr[Body(Root)].ret
         met == Goals # {} /\ AllRequiredMet
     IN  /\ run' = IF ~r.ok THEN [run EXCEPT !.st = "settle", !.failure = r.v]
                   ELSE IF met /\ TerminateOnMet
                     THEN WindUp
                   ELSE run
         /\ cancel' = (cancel \/ (r.ok /\ met /\ ~TerminateOnMet /\ CancelInFlight))
  /\ fr' = <<>>
  /\ UNCHANGED <<clock, records, store, active>>

EntriesExhausted ==
  /\ run.st = "entry" /\ fr = <<>>
  /\ run.k = Len(Entrypoint)
  /\ run' = [run EXCEPT !.st = "settle"]
  /\ UNCHANGED <<clock, records, store, fr, active, cancel>>

\* The finalize node is looked up here: validate does not check its name.
\* (Faulty: a missing one is passed over.)
NoFailure == Null
FinalizeMissing == IF FinalizeNode = NoNode THEN Null ELSE UnknownNode
FinalizeFailure == IF fr[Body(Root)].ret.ok THEN Null ELSE fr[Body(Root)].ret.v

FinalStart ==
  /\ run.st = "final" /\ fr = <<>>
  /\ IF FinalizeNode \in DOMAIN Nodes
       THEN fr' = RunNode(FinalizeNode) /\ UNCHANGED run
       ELSE /\ run' = [run EXCEPT !.st = "settle", !.failure = FinalizeMissing]
            /\ UNCHANGED fr
  /\ UNCHANGED <<clock, records, store, active, cancel>>

FinalEnd ==
  /\ run.st = "final" /\ IsDone(Body(Root))
  /\ run' = [run EXCEPT !.st = "settle", !.failure = FinalizeFailure]
  /\ fr' = <<>>
  /\ UNCHANGED <<clock, records, store, active, cancel>>

\* An unmet goal fails the run, unless a node has failed it already.
ShouldFail == Goals # {} /\ FailOnUnmet /\ ~AllRequiredMet
StopReason ==
  IF run.failure # Null THEN "node_failed"
  ELSE IF ShouldFail THEN "goal_unmet" ELSE "completed"

Settle ==
  /\ run.st = "settle"
  /\ LET stop == StopReason
     IN  /\ run' = [run EXCEPT !.st = "done", !.stop = stop,
                      !.status = IF stop = "completed" THEN "completed" ELSE "failed"]
         /\ Emit(<<Root, 0>>,
              <<CASE stop = "node_failed" -> EvPay("WorkflowFailed", run.failure)
                  [] stop = "goal_unmet"  -> EvPay("WorkflowFailed", GoalUnmet)
                  [] stop = "completed"   -> Ev("WorkflowCompleted")>>)
  /\ UNCHANGED <<records, fr, store, active, cancel>>

\* The manifest is returned.  The run is over; the specification stutters on.
Returned == run.st = "done" /\ UNCHANGED vars

-----------------------------------------------------------------------------

\* WorkflowStarted is already out: validation comes before it and may refuse.
StartSeqs == Put(<<>>, <<Root, 0>>, 1)
StartEvents ==
  {[lane |-> <<Root, 0>>, seq |-> 0, kind |-> "WorkflowStarted", pay |-> Null]}
StartLedgers ==
  Put(<<>>, Root, [s \in Slot |-> IF s \in DOMAIN Args THEN Args[s] ELSE Unset])
StartRun ==
  [st |-> "entry", k |-> 0, failure |-> Null, terminated |-> FALSE,
   status |-> Null, stop |-> Null]

Init ==
  /\ wf \in Workflows
  /\ seqs = StartSeqs
  /\ events = StartEvents
  /\ records = {}
  /\ fr = <<>>
  /\ leds = StartLedgers
  /\ nodeIo = <<>>
  /\ active = [l \in DOMAIN Permits |-> 0]
  /\ cancel = FALSE
  /\ run = StartRun

\* What the runner does at a frame by itself.
FrameStep(p) ==
  \/ Program(p) \/ ProgramFails(p)
  \/ ActorStart(p) \/ ActorUnresolved(p)
  \/ MapStart(p) \/ Dispatch(p) \/ Collect(p) \/ MapEnd(p)
  \/ ItemStart(p) \/ ItemEnd(p)
  \/ ForEachStart(p) \/ ForEachNext(p) \/ ForEachItemEnd(p) \/ ForEachEnd(p)
  \/ WhileStart(p) \/ WhilePass(p) \/ WhilePassEnd(p) \/ WhileEnd(p) \/ WhileUnresolved(p)
  \/ BranchStart(p) \/ BranchUnresolved(p) \/ ResumeStart(p) \/ PassOn(p)
  \/ GroupStart(p) \/ SessionStart(p) \/ SessionAcquire(p) \/ SessionEnd(p) \/ GroupJoin(p)

RunStep == EntryStart \/ EntryEnd \/ EntriesExhausted \/ FinalStart \/ FinalEnd \/ Settle

\* What the host answers to a frame that awaits it.
HostStep(p) ==
  \/ \E v \in Replies : ActorReplies(p, v)
  \/ ActorsFail /\ ActorFails(p, DriveErr)
  \/ \E v \in Replies \cup {Null} : ResumeLoaded(p, v)
  \/ ActorsFail /\ LoadFails(p, DriveErr)

Progress ==
  /\ RunStep \/ \E p \in DOMAIN fr : FrameStep(p) \/ HostStep(p)
  /\ UNCHANGED wf

Next == Progress \/ Returned

Spec == Init /\ [][Next]_vars

\* The executor polls what was woken, and every host call returns: an assumption
\* about the hosts, as nothing in this repository puts a timeout on a call.
FairSpec == Spec /\ WF_vars(Progress)
=============================================================================
