------------------------------ MODULE Topology ------------------------------
(***************************************************************************)
(* WorkflowSpec::validate and validate_and_hash (topology.rs): what is     *)
(* refused before a run: dangling ids, malformed references, parameters    *)
(* out of range, cycles of branches.  Unreachable nodes are warned of.     *)
(*                                                                         *)
(* A node is the sequence of its parts: itself, then the inline body of a  *)
(* map or loop, then the body of that.  The content hash is left out.  Ids *)
(* are not ordered, so that roots and branch targets are visited in any    *)
(* order, the code's among them.                                           *)
(***************************************************************************)
EXTENDS Naturals, Sequences

CONSTANT Specs  \* the workflows that may be given

VARIABLES
  topo,       \* the workflow
  stage,      \* what is being validated
  flaws,      \* the ids with an error of their own
  marks,      \* detect_cycles: the mark of each node
  path,       \* the calls of visit under way, outermost first
  left,       \* the edges that the visit of a node has yet to follow
  cyclic,     \* the nodes reported as lying on a cycle
  reachable,  \* reachable_nodes
  todo        \* its stack: what is pushed twice is skipped once

search == <<marks, path, left, cyclic>>
topoVars == <<topo, stage, flaws, search, reachable, todo>>

Nodes == DOMAIN topo.nodes

-----------------------------------------------------------------------------
(* One node                                                                *)

\* A reference is a JSON literal or a source and a path.
SyntaxOK(r) ==
  \/ r.literal
  \/ r.segs # <<"ledger">> /\ \A i \in DOMAIN r.segs : r.segs[i] # ""

DestinationOK(r) == SyntaxOK(r) /\ ~r.literal /\ r.segs[1] = "ledger"

\* min_success, max_iters, the declared limits; the targets of a branch.
PartFlawed(part) ==
  \/ \E r \in part.reads : ~SyntaxOK(r)
  \/ \E r \in part.writes : ~DestinationOK(r)
  \/ part.kind \in {"map", "while", "session_group"} /\ ~part.inRange
  \/ part.kind = "branch" /\ ~(part.targets \subseteq Nodes)

NodeFlaws == {n \in Nodes : \E i \in DOMAIN topo.nodes[n] : PartFlawed(topo.nodes[n][i])}

Dangling == topo.entrypoint \ Nodes

\* node_edges: the targets of a named branch; a branch in a body has none.
Edges(n) == IF topo.nodes[n][1].kind = "branch" THEN topo.nodes[n][1].targets \cap Nodes ELSE {}

-----------------------------------------------------------------------------
TopoStart ==
  /\ stage = "nodes"
  /\ flaws = {}
  /\ marks = [n \in Nodes |-> "new"]
  /\ path = <<>>
  /\ left = [n \in Nodes |-> {}]
  /\ cyclic = {} /\ reachable = {} /\ todo = {}

TopoInit == topo \in Specs /\ TopoStart

ValidateNodes ==
  /\ stage = "nodes"
  /\ flaws' = Dangling \cup NodeFlaws
  /\ stage' = "cycles"
  /\ UNCHANGED <<topo, search, reachable, todo>>

-----------------------------------------------------------------------------
(* detect_cycles                                                           *)

Enter(n) ==
  /\ marks' = [marks EXCEPT ![n] = "visiting"]
  /\ path' = Append(path, n)

\* The next id of the outer loop that is not done.
VisitRoot(n) ==
  /\ stage = "cycles" /\ path = <<>> /\ marks[n] = "new"
  /\ Enter(n)
  /\ left' = [left EXCEPT ![n] = Edges(n)]
  /\ UNCHANGED <<topo, stage, flaws, cyclic, reachable, todo>>

\* Faulty variant: a node counts as done as soon as it has been seen.
SeenIsDone(m) == IF marks[m] = "visiting" THEN "done" ELSE marks[m]

MarkOf(m) == marks[m]

\* The innermost visit follows an edge.
FollowEdge(m) ==
  /\ stage = "cycles" /\ path # <<>>
  /\ LET n == path[Len(path)]
     IN /\ m \in left[n]
        /\ left' = IF MarkOf(m) = "new"
                   THEN [left EXCEPT ![n] = left[n] \ {m}, ![m] = Edges(m)]
                   ELSE [left EXCEPT ![n] = left[n] \ {m}]
  /\ IF MarkOf(m) = "new" THEN Enter(m) ELSE UNCHANGED <<marks, path>>
  /\ cyclic' = IF MarkOf(m) = "visiting" THEN cyclic \cup {m} ELSE cyclic
  /\ UNCHANGED <<topo, stage, flaws, reachable, todo>>

Leave ==
  /\ stage = "cycles" /\ path # <<>>
  /\ LET n == path[Len(path)]
     IN /\ left[n] = {}
        /\ marks' = [marks EXCEPT ![n] = "done"]
  /\ path' = SubSeq(path, 1, Len(path) - 1)
  /\ UNCHANGED <<topo, stage, flaws, left, cyclic, reachable, todo>>

CyclesDetected ==
  /\ stage = "cycles" /\ path = <<>>
  /\ \A n \in Nodes : marks[n] = "done"
  /\ stage' = "reach"
  /\ todo' = topo.entrypoint \cap Nodes
  /\ UNCHANGED <<topo, flaws, search, reachable>>

-----------------------------------------------------------------------------
(* reachable_nodes                                                         *)

Reach(n) ==
  /\ stage = "reach" /\ n \in todo
  /\ reachable' = reachable \cup {n}
  /\ todo' = IF n \in reachable THEN todo \ {n} ELSE (todo \ {n}) \cup Edges(n)
  /\ UNCHANGED <<topo, stage, flaws, search>>

Reached ==
  /\ stage = "reach" /\ todo = {}
  /\ stage' = "validated"
  /\ UNCHANGED <<topo, flaws, search, reachable, todo>>

Validate ==
  \/ ValidateNodes \/ CyclesDetected \/ Leave \/ Reached
  \/ \E n \in Nodes : VisitRoot(n) \/ FollowEdge(n) \/ Reach(n)

\* validate_and_hash: warnings do not count.
Accepted == stage = "validated" /\ flaws = {} /\ cyclic = {}

TopoSpec == TopoInit /\ [][Validate]_topoVars

-----------------------------------------------------------------------------
(* Properties                                                              *)

\* No set of nodes is such that each of them branches to one of the set.
Acyclic(S) == \A C \in SUBSET S : C # {} => \E n \in C : Edges(n) \cap C = {}

Closed(S) == \A n \in S : Edges(n) \subseteq S

\* detect_cycles reports something exactly when the named branches have a
\* cycle, in whatever order it visits them, and the nodes that are not warned
\* of are exactly those that the branches lead to from an entrypoint.
ValidationExact ==
  stage = "validated" =>
    /\ cyclic = {} <=> Acyclic(Nodes)
    /\ Closed(reachable)
    /\ \A S \in SUBSET Nodes :
         topo.entrypoint \cap Nodes \subseteq S /\ Closed(S) => reachable \subseteq S
    /\ topo.entrypoint \cap Nodes \subseteq reachable
=============================================================================
