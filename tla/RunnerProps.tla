---------------------------- MODULE RunnerProps ----------------------------
(***************************************************************************)
(* What a run of the workflow runner promises: its type invariant, its     *)
(* safety invariants, what its steps may never do, and that it ends.       *)
(***************************************************************************)
EXTENDS Runner

\* The states a frame of each kind goes through between "new" and "done".
StatesOf(kind) ==
  {"new", "done"} \cup
  CASE kind = "program" -> {}
    [] kind = "actor" -> {"driving"}
    [] kind = "map" -> {"fan"}
    [] kind = "item" -> {"body"}
    [] kind \in {"for_each", "while"} -> {"loop", "body"}
    [] kind = "branch" -> {"body"}
    [] kind = "resume_session" -> {"loading", "body"}
    [] kind = "session_group" -> {"join"}
    [] kind = "session" -> {"acquire", "body"}

Proper(p, q) == Len(p) < Len(q) /\ SubSeq(q, 1, Len(p)) = p

\* The frames that own a ledger, by what execute_map, session_group and
\* resume_session clone.
Owns(p) ==
  \/ fr[p].kind \in {"item", "session"}
  \/ At(p, "map", "fan")
  \/ At(p, "resume_session", "body")

\* Frames, ledgers and counters have their shapes; a ledger lives exactly as
\* long as the future that owns it, and every frame works on a live ledger.
TypeOK ==
  /\ \A p \in DOMAIN fr :
       /\ fr[p].st \in StatesOf(fr[p].kind)
       /\ fr[p].node \in DOMAIN Nodes
       /\ fr[p].led \in DOMAIN leds
       /\ Len(fr[p].res) <= fr[p].k \/ fr[p].kind # "map"
       /\ DOMAIN fr[p].ret = {"ok", "v"}
  /\ DOMAIN leds = {Root} \cup {p \in DOMAIN fr : Owns(p)}
  /\ \A p \in DOMAIN leds : DOMAIN leds[p] = Slot
  /\ active \in [DOMAIN Permits -> Nat]
  /\ cancel \in BOOLEAN
  /\ run.st \in {"entry", "final", "settle", "done"}
  /\ run.k \in 0 .. Len(Entrypoint)

-----------------------------------------------------------------------------
(* Addresses                                                               *)

Of(kind) == {e \in events : e.kind = kind}
OnLane(S, lane) == {e \in S : e.lane = lane}

\* Events, and recorded calls, have addresses of their own, and a call is
\* recorded at the very address at which it is announced: nothing else is
\* emitted on the lane of a call between the peek and the emit of runner.rs,
\* whatever runs meanwhile.  (A null reply may be one that cannot be stored: it
\* is recorded and never announced, and its address goes to what comes next.)
CallsAddressed ==
  /\ \A d, e \in events : Addr(d) = Addr(e) => d = e
  /\ \A r, s \in records : Addr(r) = Addr(s) => r = s
  /\ \A r \in records :
       r.v # Null => \E e \in events : /\ e.kind = "ActorInvoked" /\ Addr(e) = Addr(r)
                                      /\ e.pay.outputs = r.v
  /\ \A e \in Of("ActorInvoked") :
       \E r \in records : Addr(r) = Addr(e) /\ r.v = e.pay.outputs

\* No node runs twice on one lane: path and iteration identify an execution
\* in a topology whose loops do not nest.
LanesEnteredOnce ==
  \A a, b \in Of("NodeStarted") : a.lane = b.lane => a = b

-----------------------------------------------------------------------------
(* Futures and permits                                                     *)

\* Structured concurrency: no future outlives the one that joins it, and a
\* run that is over has left nothing behind.
StructuredJoin ==
  /\ \A p, q \in DOMAIN fr : Proper(p, q) => fr[p].st \notin {"new", "done"}
  /\ \A q \in DOMAIN fr : Len(q) > 1 => SubSeq(q, 1, Len(q) - 1) \in DOMAIN fr
  /\ run.st \in {"settle", "done"} => fr = <<>> /\ DOMAIN leds = {Root}

HoldsPermit(q, l) ==
  fr[q].kind = "session" /\ fr[q].st = "body" /\ Def(q).limit = l

\* A limit counts the sessions inside their bodies, never more than its
\* permits, and the two semaphore events tell the same story.
PermitsHeld ==
  \A l \in DOMAIN Permits :
    /\ active[l] = Cardinality({q \in DOMAIN fr : HoldsPermit(q, l)})
    /\ active[l] <= Larger(1, Permits[l])
    /\ active[l] = Cardinality({e \in Of("SemaphoreAcquired") : e.pay.limit = l})
                   - Cardinality({e \in Of("SemaphoreReleased") : e.pay.limit = l})

Settles == [MapItemStarted |-> {"MapItemCompleted", "MapItemFailed"},
            SemaphoreAcquired |-> {"SemaphoreReleased"}]

\* However the run ended, every item it started is reported finished, once,
\* and every permit taken is reported given back, on the same lane.
EverythingSettled ==
  run.st = "done" =>
    \A kind \in DOMAIN Settles :
      \A a \in Of(kind) :
        Cardinality(OnLane(Of(kind), a.lane)) =
          Cardinality({e \in events : e.kind \in Settles[kind] /\ e.lane = a.lane})

-----------------------------------------------------------------------------
(* Maps                                                                    *)

\* MapCompleted counts what its items announced, all of them unless the map
\* was cancelled, and enough of them.
MapAccounts ==
  \A e \in Of("MapCompleted") :
    LET sig == nodeIo[e.lane]
        finished(kind) == {x \in Of(kind) : \E i \in 1 .. sig.total :
                             x.lane = <<Index(e.lane[1], i - 1), e.lane[2]>>}
    IN  /\ e.pay.successes = sig.successes
        /\ Cardinality(finished("MapItemCompleted")) = sig.successes
        /\ Cardinality(finished("MapItemFailed")) = sig.attempted - sig.successes
        /\ sig.cancelled \/ /\ sig.attempted = sig.total
                            /\ sig.successes * 100 >= sig.min * sig.total

RootLane(id) == <<Child(Root, id), 0>>
EntryIds == {Entrypoint[i] : i \in DOMAIN Entrypoint}

\* The maps of the entrypoint whose items are single calls.
CallMaps ==
  {id \in EntryIds : /\ Nodes[id].kind = "map" /\ Nodes[id].out # NoRef
                     /\ Nodes[Nodes[id].body].kind = "actor"}

AnswerAt(lane) ==
  IF OnLane(Of("MapItemCompleted"), lane) = {} THEN Null
  ELSE (CHOOSE r \in records : r.lane = lane).v

\* Position i of a collected array is the answer recorded for item i, null if
\* that item failed, in whatever order the answers came.
CollectedInItemOrder ==
  \A id \in CallMaps :
    OnLane(Of("MapCompleted"), RootLane(id)) # {} =>
      RootLed[Nodes[id].out] =
        [i \in 1 .. nodeIo[RootLane(id)].attempted |->
           AnswerAt(<<Index(Child(Root, id), i - 1), 0>>)]

\* While a map is fanned out, no item writes the ledger the map was given:
\* items work on copies and only the collected result is stored.
FanIsolation ==
  [][\A p \in DOMAIN fr :
       At(p, "map", "fan") /\ At(p, "map", "fan")'
         => leds'[fr[p].led] = leds[fr[p].led]]_vars

-----------------------------------------------------------------------------
(* Loops                                                                   *)

ItemNames == {"item"} \cup ({Nodes[id].as : id \in DOMAIN Nodes} \cap Slot)

\* for_each binds items in the ledger of the whole run: outside of one, the
\* run's ledger binds no item, also after a body has failed.
BindingsRestored ==
  (\A p \in DOMAIN fr : ~At(p, "for_each", "body"))
    => \A s \in ItemNames : RootLed[s] = Unset

-----------------------------------------------------------------------------
(* The end of a run                                                        *)

Succeeded(id) == OnLane(Of("NodeCompleted"), RootLane(id)) # {}
Attempted(id) == OnLane(Of("NodeStarted"), RootLane(id)) # {}
Terminal == Of("WorkflowCompleted") \cup Of("WorkflowFailed")

\* The terminal event, the status and the stop reason agree with what the
\* nodes did: a completed run has run everything it had to and met its goals,
\* an unmet goal is blamed only when no node failed.
StatusExplained ==
  /\ run.st # "done" => Terminal = {}
  /\ run.st = "done" =>
       LET started == {id \in DOMAIN Nodes : Attempted(id)}
           failed == {id \in started : ~Succeeded(id)}
           missing == run.terminated /\ FinalizeNode \notin DOMAIN Nodes \cup {NoNode}
           unmet == Goals # {} /\ FailOnUnmet /\ ~AllRequiredMet
       IN  /\ \E e \in Terminal : Terminal = {e}
           /\ (run.status = "completed") <=> (Of("WorkflowCompleted") # {})
           /\ (run.stop = "node_failed") <=> (failed # {} \/ missing)
           /\ (run.stop = "goal_unmet") <=> (failed = {} /\ ~missing /\ unmet)
           /\ run.stop = "completed" =>
                \/ EntryIds \subseteq started
                \/ run.terminated /\ FinalizeNode \in started \cup {NoNode}

\* What a met goal stops.  Once it has tripped the cancel flag no map item is
\* started, those of chunks that were planned before included; once it has
\* terminated the run only the finalize node, and what it calls, is entered.
MetGoalsStop ==
  [][/\ cancel => Of("MapItemStarted")' = Of("MapItemStarted")
     /\ run.terminated =>
          \A e \in Of("NodeStarted")' \ Of("NodeStarted") :
            e.lane[1][1] = <<FinalizeNode>>]_vars

\* Every run ends, if every host call returns: no waiter starves, no join
\* waits for a future that is gone, no loop outruns its bound.
Terminates == <>(run.st = "done")

-----------------------------------------------------------------------------
(* The trace and InvariantReport::compute of artifact.rs                   *)

Under(path, prefix) ==
  Len(prefix) <= Len(path) /\ SubSeq(path, 1, Len(prefix)) = prefix

\* The paths with a node in the trace tree, their prefixes apart: iterations of
\* a path share a node, and the last of them leaves its inputs and signal there.
TracePaths == {r.lane[1] : r \in records} \cup {lane[1] : lane \in DOMAIN nodeIo}

ItemChildren(path) ==
  {q[Len(path) + 1] :
     q \in {r \in TracePaths : Len(r) > Len(path) /\ Under(r, path)
                               /\ Len(r[Len(path) + 1]) = 2}}

LastIo(path) ==
  nodeIo[CHOOSE a \in DOMAIN nodeIo :
           a[1] = path /\ \A b \in DOMAIN nodeIo : b[1] = path => b[2] <= a[2]]

\* "N item children <= total attempted", for every trace node with a fan signal.
ChildrenWithinTotal ==
  run.st = "done" =>
    \A path \in {lane[1] : lane \in DOMAIN nodeIo} :
      LastIo(path) # NoSignal =>
        Cardinality(ItemChildren(path)) <= LastIo(path).total
=============================================================================
