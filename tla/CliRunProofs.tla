---------------------------- MODULE CliRunProofs ----------------------------
(***************************************************************************)
(* Proofs about a run of the command line, for any shards, any number of   *)
(* reports and retries, and any command line.  First of the validation     *)
(* that the run starts with, for every workflow of any size: its verdict   *)
(* about cycles is exact, and so is the set of nodes that are not warned   *)
(* of.  Then of the totals of the live stream: what the follow thread has  *)
(* folded and what is still on the channel are together what was sent, and *)
(* after the last drain nothing is sent any more.  Then of the counts of   *)
(* events, which follow the places of the items, and with them of the      *)
(* exit: the code returned, the manifest on disk and the run agree.  Last  *)
(* of a frame, which is never behind the load at the time it looks, and    *)
(* whose nearest cap is one that no other is expected to run out before.   *)
(***************************************************************************)
EXTENDS CliRun, SequenceTheorems, FiniteSetTheorems, WellFoundedInduction, TLAPS

-----------------------------------------------------------------------------
(* Validation of a workflow: the inductive invariant                       *)

TypeInv ==
  /\ stage \in {"nodes", "cycles", "reach", "validated"}
  /\ marks \in [Nodes -> {"new", "visiting", "done"}]
  /\ path \in Seq(Nodes)
  /\ left \in [Nodes -> SUBSET Nodes]
  /\ cyclic \subseteq Nodes /\ reachable \subseteq Nodes /\ todo \subseteq Nodes

\* The calls of visit under way are those of the nodes marked so, each by an
\* edge of the one before.
PathInv ==
  /\ \A i \in 1 .. Len(path) : marks[path[i]] = "visiting"
  /\ \A i, j \in 1 .. Len(path) : path[i] = path[j] => i = j
  /\ \A n \in Nodes : marks[n] = "visiting" => \E i \in 1 .. Len(path) : path[i] = n
  /\ \A i \in 1 .. Len(path) - 1 : path[i + 1] \in Edges(path[i])

DoneNodes == {n \in Nodes : marks[n] = "done"}

\* As long as no cycle is reported, the edges already followed lead to nodes
\* that are done, or to the next call.
FollowedInv ==
  /\ \A n \in Nodes : left[n] \subseteq Edges(n)
  /\ cyclic = {} =>
       /\ \A n \in DoneNodes : Edges(n) \subseteq DoneNodes
       /\ \A i \in 1 .. Len(path) : \A m \in Edges(path[i]) \ left[path[i]] :
            m \in DoneNodes \/ (i < Len(path) /\ m = path[i + 1])

VerdictInv ==
  /\ cyclic = {} => Acyclic(DoneNodes)
  /\ cyclic # {} => ~Acyclic(Nodes)

Entries == topo.entrypoint \cap Nodes

ReachInv ==
  /\ stage \in {"reach", "validated"} =>
       /\ DoneNodes = Nodes
       /\ Entries \subseteq reachable \cup todo
       /\ \A n \in reachable : Edges(n) \subseteq reachable \cup todo
       /\ \A S \in SUBSET Nodes : Entries \subseteq S /\ Closed(S) => reachable \cup todo \subseteq S
  /\ stage = "validated" => todo = {}
  /\ stage \in {"nodes", "cycles"} => reachable = {}

Inv == TypeInv /\ PathInv /\ FollowedInv /\ VerdictInv /\ ReachInv

-----------------------------------------------------------------------------
(* Lemmas about graphs and sequences                                       *)

LEMMA EdgesAreNodes == \A n : Edges(n) \subseteq Nodes
  BY DEF Edges

\* A node whose edges lead into an acyclic set that has no edge out of itself
\* can join it.
LEMMA AcyclicExtends ==
  ASSUME NEW S \in SUBSET Nodes, NEW n \in Nodes, n \notin S,
         Acyclic(S), \A m \in S : Edges(m) \subseteq S, Edges(n) \subseteq S
  PROVE  Acyclic(S \cup {n})
<1> SUFFICES ASSUME NEW C \in SUBSET (S \cup {n}), C # {}
             PROVE  \E m \in C : Edges(m) \cap C = {}
  BY DEF Acyclic
<1>1. CASE C \cap S = {}
  <2>1. n \in C
    BY <1>1
  <2>2. Edges(n) \cap C = {}
    BY <1>1
  <2> QED
    BY <2>1, <2>2
<1>2. CASE C \cap S # {}
  <2>1. PICK m \in C \cap S : Edges(m) \cap (C \cap S) = {}
    BY <1>2 DEF Acyclic
  <2>2. Edges(m) \cap C = {}
    BY <2>1
  <2> QED
    BY <2>1, <2>2
<1> QED
  BY <1>1, <1>2

\* An edge from the last call back to a call under way closes a cycle.
LEMMA BackEdge ==
  ASSUME TypeInv, PathInv, path # <<>>,
         NEW m \in Edges(path[Len(path)]), marks[m] = "visiting"
  PROVE  ~Acyclic(Nodes)
<1> DEFINE L == Len(path)
<1>1. m \in Nodes /\ path \in [1 .. L -> Nodes] /\ L \in Nat /\ L > 0
  BY EdgesAreNodes DEF TypeInv
<1>2. PICK k \in 1 .. L : path[k] = m
  BY <1>1 DEF PathInv
<1> DEFINE C == {path[i] : i \in k .. L}
<1> HIDE DEF L, C
<1>3. C \in SUBSET Nodes /\ m \in C
  BY <1>1, <1>2 DEF C
<1>4. ASSUME NEW n \in C
      PROVE  Edges(n) \cap C # {}
  <2>1. PICK i \in k .. L : n = path[i]
    BY DEF C
  <2>2. CASE i = L
    BY <2>1, <2>2, <1>3 DEF L
  <2>3. CASE i # L
    <3>1. i \in 1 .. L - 1 /\ i + 1 \in k .. L
      BY <2>3, <1>1, <1>2
    <3>2. path[i + 1] \in Edges(path[i])
      BY <3>1 DEF PathInv, L
    <3>3. path[i + 1] \in C
      BY <3>1 DEF C
    <3> QED
      BY <2>1, <3>2, <3>3
  <2> QED
    BY <2>2, <2>3
<1> QED
  BY <1>3, <1>4 DEF Acyclic

-----------------------------------------------------------------------------
(* Every step preserves the invariant                                      *)

\* The workflow does not change, nor what depends on it alone.
LEMMA SameGraph ==
  ASSUME UNCHANGED topo
  PROVE  /\ Nodes' = Nodes /\ Entries' = Entries
         /\ \A n : Edges(n)' = Edges(n)
         /\ \A S : Closed(S)' = Closed(S)
         /\ Acyclic(Nodes)' = Acyclic(Nodes)
<1>1. Nodes' = Nodes
  BY DEF Nodes
<1>2. \A n : Edges(n)' = Edges(n)
  BY <1>1 DEF Edges
<1> QED
  BY <1>1, <1>2 DEF Entries, Closed, Acyclic

LEMMA AcyclicDone ==
  ASSUME UNCHANGED topo, Acyclic(DoneNodes'), DoneNodes' \subseteq Nodes
  PROVE  Acyclic(DoneNodes)'
<1>1. \A n : Edges(n)' = Edges(n)
  BY SameGraph
<1> QED
  BY <1>1 DEF Acyclic

LEMMA InitInv == TopoInit => Inv
<1> SUFFICES ASSUME TopoInit PROVE Inv
  OBVIOUS
<1> USE DEF TopoInit, TopoStart
<1>1. TypeInv
  BY DEF TypeInv
<1>2. PathInv
  BY DEF PathInv
<1>3. FollowedInv /\ VerdictInv
  BY DEF FollowedInv, VerdictInv, DoneNodes, Acyclic
<1>4. ReachInv
  BY DEF ReachInv
<1> QED
  BY <1>1, <1>2, <1>3, <1>4 DEF Inv

\* Steps that leave the search alone.
LEMMA SearchKept ==
  ASSUME Inv, UNCHANGED <<topo, search>>
  PROVE  PathInv' /\ FollowedInv' /\ VerdictInv' /\ DoneNodes' = DoneNodes
<1>1. DoneNodes' = DoneNodes
  BY SameGraph DEF DoneNodes, search
<1>2. PathInv'
  BY SameGraph DEF Inv, PathInv, search
<1>3. FollowedInv'
  BY <1>1, SameGraph DEF Inv, FollowedInv, search
<1>4. VerdictInv'
  <2>1. cyclic = {} => Acyclic(DoneNodes')
    BY <1>1 DEF Inv, VerdictInv
  <2>2. DoneNodes' \subseteq Nodes
    BY <1>1 DEF DoneNodes
  <2> QED
    BY <2>1, <2>2, AcyclicDone, SameGraph DEF Inv, VerdictInv, search
<1> QED
  BY <1>1, <1>2, <1>3, <1>4

LEMMA ValidateNodesInv == Inv /\ ValidateNodes => Inv'
<1> SUFFICES ASSUME Inv, ValidateNodes PROVE Inv'
  OBVIOUS
<1>1. UNCHANGED <<topo, search>>
  BY DEF ValidateNodes
<1>2. TypeInv' /\ ReachInv'
  BY SameGraph DEF Inv, ValidateNodes, TypeInv, ReachInv, search
<1> QED
  BY <1>1, <1>2, SearchKept DEF Inv

LEMMA CyclesDetectedInv == Inv /\ CyclesDetected => Inv'
<1> SUFFICES ASSUME Inv, CyclesDetected PROVE Inv'
  OBVIOUS
<1>1. UNCHANGED <<topo, search>>
  BY DEF CyclesDetected
<1>2. TypeInv'
  BY SameGraph DEF Inv, CyclesDetected, TypeInv, search
<1>3. reachable' = {} /\ DoneNodes' = Nodes /\ todo' = Entries /\ stage' = "reach"
  BY SameGraph DEF Inv, ReachInv, CyclesDetected, DoneNodes, Entries, search
<1>4. ReachInv'
  BY <1>1, <1>3, SameGraph DEF ReachInv
<1> QED
  BY <1>1, <1>2, <1>4, SearchKept DEF Inv

\* A visit begins: from the outer loop, or by an edge of the innermost visit.
LEMMA EnterInv ==
  ASSUME Inv, stage = "cycles", UNCHANGED <<topo, stage, cyclic, reachable, todo>>,
         NEW n \in Nodes, marks[n] = "new", Enter(n),
         path # <<>> => n \in Edges(path[Len(path)]),
         left' \in [Nodes -> SUBSET Nodes], left'[n] = Edges(n),
         \A k \in Nodes \ {n} :
           left'[k] = left[k] \/ (path # <<>> /\ k = path[Len(path)] /\ left'[k] = left[k] \ {n})
  PROVE  Inv'
<1> DEFINE L == Len(path)
<1>1. /\ path \in Seq(Nodes) /\ L \in Nat
      /\ path' \in Seq(Nodes) /\ Len(path') = L + 1 /\ path'[L + 1] = n
      /\ \A i \in 1 .. L : path'[i] = path[i] /\ path[i] \in Nodes
  BY DEF Inv, TypeInv, Enter
<1>2. marks \in [Nodes -> {"new", "visiting", "done"}] /\ marks' = [marks EXCEPT ![n] = "visiting"]
  BY DEF Inv, TypeInv, Enter
<1>3. DoneNodes' = DoneNodes
  BY <1>2, SameGraph DEF DoneNodes
<1>4. TypeInv'
  BY <1>1, <1>2, SameGraph DEF Inv, TypeInv
<1>5. PathInv'
  <2>1. \A i \in 1 .. L : path[i] # n
    BY DEF Inv, PathInv
  <2>2. ASSUME NEW i \in 1 .. L + 1 PROVE marks'[path'[i]] = "visiting"
    <3>1. \A j \in 1 .. L : marks[path[j]] = "visiting"
      BY DEF Inv, PathInv
    <3> HIDE DEF L
    <3>2. CASE i = L + 1
      BY <1>1, <1>2, <3>2
    <3>3. CASE i # L + 1
      <4>1. i \in 1 .. L
        BY <1>1, <3>3
      <4> QED
        BY <1>1, <1>2, <2>1, <3>1, <4>1
    <3> QED
      BY <3>2, <3>3
  <2>3. \A i, j \in 1 .. L + 1 : path'[i] = path'[j] => i = j
    BY <1>1, <2>1 DEF Inv, PathInv
  <2>4. \A k \in Nodes : marks'[k] = "visiting" => \E i \in 1 .. L + 1 : path'[i] = k
    <3> SUFFICES ASSUME NEW k \in Nodes, marks'[k] = "visiting"
                 PROVE  \E i \in 1 .. L + 1 : path'[i] = k
      OBVIOUS
    <3>1. CASE k = n
      BY <3>1, <1>1
    <3>2. CASE k # n
      <4>1. PICK i \in 1 .. L : path[i] = k
        BY <3>2, <1>2 DEF Inv, PathInv
      <4> QED
        BY <4>1, <1>1
    <3> QED
      BY <3>1, <3>2
  <2>5. \A i \in 1 .. L : path'[i + 1] \in Edges(path'[i])
    <3> SUFFICES ASSUME NEW i \in 1 .. L PROVE path'[i + 1] \in Edges(path'[i])
      OBVIOUS
    <3>1. CASE i = L
      BY <3>1, <1>1
    <3>2. CASE i # L
      <4>1. i \in 1 .. L - 1 /\ i + 1 \in 1 .. L
        BY <3>2, <1>1
      <4> QED
        BY <4>1, <1>1 DEF Inv, PathInv
    <3> QED
      BY <3>1, <3>2
  <2> QED
    BY <1>1, <2>2, <2>3, <2>4, <2>5, SameGraph DEF PathInv
<1>6. FollowedInv'
  <2>1. \A k \in Nodes : left'[k] \subseteq Edges(k)
    BY DEF Inv, FollowedInv
  <2>2. ASSUME cyclic = {}, NEW i \in 1 .. L + 1, NEW m \in Edges(path'[i]) \ left'[path'[i]]
        PROVE  m \in DoneNodes \/ (i < L + 1 /\ m = path'[i + 1])
    <3>1. CASE i = L + 1
      BY <3>1, <1>1
    <3>2. CASE i = L
      <4>1. path'[i] = path[i] /\ path[i] # n /\ path[i] \in Nodes
        BY <3>2, <1>1 DEF Inv, PathInv
      <4>2. m = n \/ m \in Edges(path[i]) \ left[path[i]]
        BY <4>1, <2>2
      <4>3. CASE m = n
        BY <4>3, <3>2, <1>1
      <4>4. CASE m \in Edges(path[i]) \ left[path[i]]
        BY <4>4, <3>2, <2>2, <1>1 DEF Inv, FollowedInv
      <4> QED
        BY <4>2, <4>3, <4>4
    <3>3. CASE i < L
      <4>1. path'[i] = path[i] /\ path[i] # n /\ path[i] # path[L] /\ path[i] \in Nodes /\ i \in 1 .. L
        BY <3>3, <1>1 DEF Inv, PathInv
      <4>2. m \in Edges(path[i]) \ left[path[i]]
        BY <4>1, <2>2
      <4>3. m \in DoneNodes \/ m = path[i + 1]
        BY <4>1, <4>2, <2>2, <3>3 DEF Inv, FollowedInv
      <4> QED
        BY <4>3, <3>3, <1>1
    <3> QED
      BY <3>1, <3>2, <3>3, <1>1
  <2>3. cyclic = {} => \A k \in DoneNodes : Edges(k) \subseteq DoneNodes
    BY DEF Inv, FollowedInv
  <2> QED
    BY <1>1, <1>3, <2>1, <2>2, <2>3, SameGraph DEF FollowedInv
<1>7. VerdictInv'
  BY <1>3, AcyclicDone, SameGraph DEF Inv, VerdictInv, DoneNodes
<1>8. ReachInv'
  BY SameGraph DEF Inv, ReachInv
<1> QED
  BY <1>4, <1>5, <1>6, <1>7, <1>8 DEF Inv

LEMMA VisitRootInv == ASSUME Inv, NEW n \in Nodes, VisitRoot(n) PROVE Inv'
<1>1. left \in [Nodes -> SUBSET Nodes] /\ Edges(n) \subseteq Nodes
  BY EdgesAreNodes DEF Inv, TypeInv
<1>2. left' = [left EXCEPT ![n] = Edges(n)]
  BY DEF VisitRoot
<1> QED
  BY <1>1, <1>2, EnterInv DEF VisitRoot

\* The edge to a node that is done, or under way: then it closes a cycle.
LEMMA SkipEdgeInv ==
  ASSUME Inv, NEW m \in Nodes, FollowEdge(m), MarkOf(m) # "new"
  PROVE  Inv'
<1> DEFINE L == Len(path)
           n == path[L]
<1>1. path \in Seq(Nodes) /\ L \in Nat /\ L > 0 /\ n \in Nodes
  BY DEF Inv, TypeInv, FollowEdge
<1> HIDE DEF L, n
<1>2. /\ m \in left[n] /\ left' = [left EXCEPT ![n] = left[n] \ {m}]
      /\ UNCHANGED <<topo, stage, marks, path, reachable, todo>>
      /\ cyclic' = IF marks[m] = "visiting" THEN cyclic \cup {m} ELSE cyclic
  BY DEF FollowEdge, MarkOf, L, n
<1>3. DoneNodes' = DoneNodes
  BY <1>2, SameGraph DEF DoneNodes
<1>4. TypeInv' /\ ReachInv'
  <2>1. TypeInv'
    BY <1>1, <1>2, SameGraph DEF Inv, TypeInv
  <2>2. stage = "cycles"
    BY DEF FollowEdge
  <2>3. ReachInv'
    BY <1>2, <2>2, SameGraph DEF Inv, ReachInv
  <2> QED
    BY <2>1, <2>3
<1>5. PathInv'
  BY <1>2, SameGraph DEF Inv, PathInv
<1>6. FollowedInv'
  <2>1. \A k \in Nodes : left'[k] \subseteq Edges(k)
    BY <1>2, <1>1 DEF Inv, TypeInv, FollowedInv
  <2>2. ASSUME cyclic' = {}, NEW i \in 1 .. L, NEW e \in Edges(path[i]) \ left'[path[i]]
        PROVE  e \in DoneNodes \/ (i < L /\ e = path[i + 1])
    <3>1. cyclic = {} /\ marks[m] = "done" /\ path[i] \in Nodes
      BY <2>2, <1>1, <1>2 DEF Inv, TypeInv, MarkOf, L
    <3>2. CASE e = m
      BY <3>1, <3>2 DEF DoneNodes
    <3>3. CASE e # m
      <4>1. e \in Edges(path[i]) \ left[path[i]]
        BY <3>1, <3>3, <1>2, <2>2 DEF Inv, TypeInv
      <4> QED
        BY <4>1, <3>1, <2>2 DEF Inv, FollowedInv, L
    <3> QED
      BY <3>2, <3>3
  <2>3. cyclic' = {} => \A k \in DoneNodes : Edges(k) \subseteq DoneNodes
    BY <1>2 DEF Inv, FollowedInv
  <2> QED
    BY <1>2, <1>3, <2>1, <2>2, <2>3, SameGraph DEF FollowedInv, L
<1>7. VerdictInv'
  <2>1. ASSUME marks[m] = "visiting" PROVE ~Acyclic(Nodes)
    BY <2>1, <1>1, <1>2, BackEdge DEF Inv, FollowedInv, FollowEdge, L, n
  <2>2. cyclic' = {} => Acyclic(DoneNodes')
    BY <1>2, <1>3 DEF Inv, VerdictInv
  <2>3. cyclic' # {} => ~Acyclic(Nodes)
    BY <2>1, <1>2 DEF Inv, VerdictInv
  <2> QED
    BY <1>2, <1>3, <2>2, <2>3, AcyclicDone, SameGraph DEF VerdictInv, DoneNodes
<1> QED
  BY <1>4, <1>5, <1>6, <1>7 DEF Inv

LEMMA FollowEdgeInv == ASSUME Inv, NEW m \in Nodes, FollowEdge(m) PROVE Inv'
<1>1. CASE MarkOf(m) # "new"
  BY <1>1, SkipEdgeInv
<1>2. CASE MarkOf(m) = "new"
  <2> DEFINE n == path[Len(path)]
  <2>1. n \in Nodes /\ path # <<>> /\ marks[n] = "visiting"
    BY DEF Inv, TypeInv, PathInv, FollowEdge
  <2>2. m \in Edges(n) /\ marks[m] = "new"
    BY <1>2, <2>1 DEF Inv, FollowedInv, FollowEdge, MarkOf
  <2>3. left' = [left EXCEPT ![n] = left[n] \ {m}, ![m] = Edges(m)]
    BY <1>2 DEF FollowEdge
  <2>4. Enter(m) /\ stage = "cycles" /\ UNCHANGED <<topo, stage, cyclic, reachable, todo>>
    BY <1>2 DEF FollowEdge
  <2>5. left \in [Nodes -> SUBSET Nodes] /\ Edges(m) \subseteq Nodes
    BY EdgesAreNodes DEF Inv, TypeInv
  <2>6. /\ left' \in [Nodes -> SUBSET Nodes] /\ left'[m] = Edges(m)
        /\ \A k \in Nodes \ {m} : left'[k] = left[k] \/ (k = n /\ left'[k] = left[k] \ {m})
    BY <2>1, <2>3, <2>5
  <2> QED
    BY <2>1, <2>2, <2>4, <2>6, EnterInv
<1> QED
  BY <1>1, <1>2

LEMMA LeaveInv == Inv /\ Leave => Inv'
<1> SUFFICES ASSUME Inv, Leave PROVE Inv'
  OBVIOUS
<1> DEFINE L == Len(path)
           n == path[L]
<1>1. path \in Seq(Nodes) /\ L \in Nat /\ L > 0 /\ n \in Nodes /\ marks[n] = "visiting"
  BY DEF Inv, TypeInv, PathInv, Leave
<1>2. /\ path' \in Seq(Nodes) /\ Len(path') = L - 1
      /\ \A i \in 1 .. L - 1 : path'[i] = path[i] /\ path[i] \in Nodes
  <2>1. path' = SubSeq(path, 1, L - 1)
    BY DEF Leave
  <2>2. \A i \in 1 .. L : path[i] \in Nodes
    BY <1>1
  <2> HIDE DEF L
  <2>3. L - 1 \in Int /\ L - 1 \in Nat /\ \A i \in 1 .. L - 1 : path[i] \in Nodes
    BY <1>1, <2>2
  <2>4. /\ SubSeq(path, 1, L - 1) \in Seq(Nodes)
        /\ Len(SubSeq(path, 1, L - 1)) = IF 1 <= L - 1 THEN (L - 1) - 1 + 1 ELSE 0
        /\ \A i \in 1 .. (L - 1) - 1 + 1 : SubSeq(path, 1, L - 1)[i] = path[1 + i - 1]
    BY <2>3, SubSeqProperties
  <2> QED
    BY <2>1, <2>3, <2>4
<1> HIDE DEF L, n
<1>3. /\ left[n] = {} /\ marks' = [marks EXCEPT ![n] = "done"]
      /\ UNCHANGED <<topo, stage, left, cyclic, reachable, todo>> /\ stage = "cycles"
      /\ marks \in [Nodes -> {"new", "visiting", "done"}]
  BY DEF Leave, L, n, Inv, TypeInv
<1>4. DoneNodes' = DoneNodes \cup {n} /\ n \notin DoneNodes
  BY <1>1, <1>3, SameGraph DEF DoneNodes
<1>5. TypeInv'
  BY <1>1, <1>2, <1>3, SameGraph DEF Inv, TypeInv
<1>6. \A i \in 1 .. L - 1 : path[i] # n
  BY <1>1 DEF Inv, PathInv, L, n
<1>7. PathInv'
  <2>1. \A i \in 1 .. L - 1 : marks'[path'[i]] = "visiting"
    BY <1>1, <1>2, <1>3, <1>6 DEF Inv, PathInv, L
  <2>2. ASSUME NEW i \in 1 .. L - 1, NEW j \in 1 .. L - 1, path'[i] = path'[j] PROVE i = j
    <3>1. \A a, b \in 1 .. L : path[a] = path[b] => a = b
      BY DEF Inv, PathInv, L
    <3>2. i \in 1 .. L /\ j \in 1 .. L /\ path[i] = path[j]
      BY <1>1, <1>2, <2>2
    <3> QED
      BY <3>1, <3>2
  <2>3. \A k \in Nodes : marks'[k] = "visiting" => \E i \in 1 .. L - 1 : path'[i] = k
    <3> SUFFICES ASSUME NEW k \in Nodes, marks'[k] = "visiting"
                 PROVE  \E i \in 1 .. L - 1 : path'[i] = k
      OBVIOUS
    <3>1. k # n /\ marks[k] = "visiting"
      BY <1>1, <1>3
    <3>2. PICK i \in 1 .. L : path[i] = k
      BY <3>1 DEF Inv, PathInv, L
    <3>3. i # L
      BY <3>1, <3>2 DEF n
    <3> QED
      BY <3>2, <3>3, <1>1, <1>2
  <2>4. \A i \in 1 .. (L - 1) - 1 : path'[i + 1] \in Edges(path'[i])
    <3> SUFFICES ASSUME NEW i \in 1 .. (L - 1) - 1 PROVE path'[i + 1] \in Edges(path'[i])
      OBVIOUS
    <3>1. i \in 1 .. L - 1 /\ i + 1 \in 1 .. L - 1
      BY <1>1
    <3>2. path[i + 1] \in Edges(path[i])
      BY <3>1 DEF Inv, PathInv, L
    <3> QED
      BY <3>1, <3>2, <1>2
  <2> QED
    <3>1. Nodes' = Nodes /\ \A k : Edges(k)' = Edges(k)
      BY <1>3, SameGraph
    <3> QED
      BY <1>2, <2>1, <2>2, <2>3, <2>4, <3>1 DEF PathInv
<1>8. cyclic = {} => Edges(n) \subseteq DoneNodes
  BY <1>1, <1>3 DEF Inv, FollowedInv, L, n
<1>9. FollowedInv'
  <2>1. ASSUME cyclic = {}, NEW i \in 1 .. L - 1, NEW m \in Edges(path[i]) \ left[path[i]]
        PROVE  m \in DoneNodes \cup {n} \/ (i < L - 1 /\ m = path[i + 1])
    <3>1. m \in DoneNodes \/ m = path[i + 1]
      BY <2>1, <1>1 DEF Inv, FollowedInv, L
    <3>2. i < L - 1 \/ path[i + 1] = n
      BY <1>1 DEF n
    <3> QED
      BY <3>1, <3>2
  <2>2. cyclic = {} => \A k \in DoneNodes \cup {n} : Edges(k) \subseteq DoneNodes \cup {n}
    BY <1>8 DEF Inv, FollowedInv
  <2>4. \A i \in 1 .. L - 1 : i < L - 1 => path'[i + 1] = path[i + 1]
    BY <1>1, <1>2
  <2>5. \A k \in Nodes : left'[k] \subseteq Edges(k)
    BY <1>3 DEF Inv, FollowedInv
  <2>6. cyclic = {} => \A i \in 1 .. L - 1 : \A m \in Edges(path'[i]) \ left[path'[i]] :
          m \in DoneNodes \cup {n} \/ (i < L - 1 /\ m = path'[i + 1])
    <3> SUFFICES ASSUME cyclic = {}, NEW i \in 1 .. L - 1, NEW m \in Edges(path'[i]) \ left[path'[i]]
                 PROVE  m \in DoneNodes \cup {n} \/ (i < L - 1 /\ m = path'[i + 1])
      OBVIOUS
    <3>1. m \in Edges(path[i]) \ left[path[i]]
      BY <1>2
    <3> QED
      BY <3>1, <2>1, <2>4
  <2>7. Nodes' = Nodes /\ (\A k : Edges(k)' = Edges(k)) /\ left' = left /\ cyclic' = cyclic
    BY <1>3, SameGraph
  <2> QED
    BY <1>2, <1>4, <2>2, <2>5, <2>6, <2>7 DEF FollowedInv
<1>10. VerdictInv'
  <2>1. cyclic = {} => Acyclic(DoneNodes \cup {n})
    BY <1>1, <1>4, <1>8, AcyclicExtends DEF Inv, VerdictInv, FollowedInv, DoneNodes
  <2>2. DoneNodes' \subseteq Nodes
    BY <1>1, <1>4 DEF DoneNodes
  <2> QED
    BY <1>3, <1>4, <2>1, <2>2, AcyclicDone, SameGraph DEF Inv, VerdictInv
<1>11. ReachInv'
  BY <1>3, SameGraph DEF Inv, ReachInv
<1> QED
  BY <1>5, <1>7, <1>9, <1>10, <1>11 DEF Inv

LEMMA ReachStepInv == ASSUME Inv, NEW n \in Nodes, Reach(n) PROVE Inv'
<1>1. UNCHANGED <<topo, search, stage>> /\ stage = "reach" /\ n \in todo
  BY DEF Reach
<1>2. reachable' = reachable \cup {n} /\ (todo \ {n}) \subseteq todo'
      /\ todo' \subseteq todo \cup Edges(n) /\ (n \notin reachable => Edges(n) \subseteq todo')
  BY DEF Reach
<1>3. TypeInv'
  BY <1>1, <1>2, EdgesAreNodes, SameGraph DEF Inv, TypeInv, search
<1>4. DoneNodes' = DoneNodes
  BY <1>1, SearchKept
<1>5. ReachInv'
  <2>1. \A k \in reachable' : Edges(k) \subseteq reachable' \cup todo'
    BY <1>1, <1>2 DEF Inv, ReachInv
  <2>2. ASSUME NEW S \in SUBSET Nodes, Entries \subseteq S, Closed(S)
        PROVE  reachable' \cup todo' \subseteq S
    <3>1. reachable \cup todo \subseteq S
      BY <2>2, <1>1 DEF Inv, ReachInv
    <3>2. Edges(n) \subseteq S
      BY <3>1, <2>2, <1>1 DEF Closed
    <3> QED
      BY <3>1, <3>2, <1>1, <1>2
  <2>3. Entries \subseteq reachable' \cup todo' /\ DoneNodes = Nodes
    BY <1>1, <1>2 DEF Inv, ReachInv
  <2> QED
    BY <1>1, <1>4, <2>1, <2>2, <2>3, SameGraph DEF ReachInv
<1> QED
  BY <1>1, <1>3, <1>5, SearchKept DEF Inv

LEMMA ReachedInv == Inv /\ Reached => Inv'
<1> SUFFICES ASSUME Inv, Reached PROVE Inv'
  OBVIOUS
<1>1. UNCHANGED <<topo, search>>
  BY DEF Reached
<1>2. TypeInv'
  BY SameGraph DEF Inv, Reached, TypeInv, search
<1>3. ReachInv'
  BY <1>1, SearchKept, SameGraph DEF Inv, Reached, ReachInv
<1> QED
  BY <1>1, <1>2, <1>3, SearchKept DEF Inv

-----------------------------------------------------------------------------
(* Theorems                                                                *)

\* Validation keeps its invariant: the calls of visit form a path of branches,
\* and what is done has edges to what is done only, unless a cycle is known.
THEOREM SearchCorrect == TopoSpec => []Inv
<1>1. Inv /\ [Validate]_topoVars => Inv'
  <2> SUFFICES ASSUME Inv, [Validate]_topoVars PROVE Inv'
    OBVIOUS
  <2>1. CASE ValidateNodes
    BY <2>1, ValidateNodesInv
  <2>2. CASE CyclesDetected
    BY <2>2, CyclesDetectedInv
  <2>3. CASE Leave
    BY <2>3, LeaveInv
  <2>4. CASE Reached
    BY <2>4, ReachedInv
  <2>5. CASE \E n \in Nodes : VisitRoot(n)
    BY <2>5, VisitRootInv
  <2>6. CASE \E n \in Nodes : FollowEdge(n)
    BY <2>6, FollowEdgeInv
  <2>7. CASE \E n \in Nodes : Reach(n)
    BY <2>7, ReachStepInv
  <2>8. CASE UNCHANGED topoVars
    BY <2>8, SameGraph, SearchKept DEF topoVars, search, Inv, TypeInv, ReachInv
  <2> QED
    BY <2>1, <2>2, <2>3, <2>4, <2>5, <2>6, <2>7, <2>8 DEF Validate
<1> QED
  BY InitInv, <1>1, PTL DEF TopoSpec

\* The verdict of detect_cycles and the set of reachable nodes are exact for
\* every topology, in every order of visits.
THEOREM ValidationIsExact == TopoSpec => []ValidationExact
<1>1. Inv => ValidationExact
  <2> SUFFICES ASSUME Inv, stage = "validated" PROVE
        /\ cyclic = {} <=> Acyclic(Nodes)
        /\ Closed(reachable)
        /\ \A S \in SUBSET Nodes : Entries \subseteq S /\ Closed(S) => reachable \subseteq S
        /\ Entries \subseteq reachable
    BY DEF ValidationExact, Entries
  <2>1. DoneNodes = Nodes /\ todo = {}
    BY DEF Inv, ReachInv
  <2>2. cyclic = {} <=> Acyclic(Nodes)
    BY <2>1 DEF Inv, VerdictInv
  <2> QED
    BY <2>1, <2>2 DEF Inv, ReachInv, Closed
<1> QED
  BY <1>1, SearchCorrect, PTL

-----------------------------------------------------------------------------
(* What is told and what is folded                                         *)

Totals == [path : Shard, total : Nat \ {0}]

ItemShape(item) ==
  /\ DOMAIN item = {"at", "retries", "told", "reports", "sent"}
  /\ item.told \in Nat /\ item.sent \in Nat

\* Of an item the proof needs its numbers, and that it is a record.
ItemsShaped == DOMAIN items = Shard /\ \A i \in Shard : ItemShape(items[i])

Mine(i) == {k \in DOMAIN bus : bus[k].path = i}

\* The newest total of a shard is the last one on the channel, or if there is
\* none, the one that was folded.
Newest(i) ==
  /\ Mine(i) = {} => /\ i \in DOMAIN folded <=> items[i].sent > 0
                     /\ i \in DOMAIN folded => folded[i] = items[i].sent
  /\ Mine(i) # {} => \E k \in Mine(i) :
                       (\A j \in Mine(i) : j <= k) /\ bus[k].total = items[i].sent

Passed == {"verdict", "show", "manifest", "usage", "spec", "bundle", "report"}

\* Who is where: after the last drain has begun nobody sends.
Phases ==
  /\ stop => main \in {"join", "exited"} \cup Passed
  /\ main \in Passed => thread = "over"
  /\ thread \in {"drain", "over"} => stop \/ events.terminal # "none"
  /\ thread = "over" => bus = <<>>

Flowing ==
  /\ ItemsShaped
  /\ bus \in Seq(Totals)
  /\ DOMAIN folded \subseteq Shard
  /\ DOMAIN events = DOMAIN NoEvents
  /\ \A i \in Shard : Newest(i)
  /\ Phases

-----------------------------------------------------------------------------
(* Steps                                                                   *)

LEMMA FlowingInit == CliInit => Flowing
<1> SUFFICES ASSUME CliInit PROVE Flowing
  OBVIOUS
<1>1. ItemsShaped /\ bus \in Seq(Totals)
  BY DEF CliInit, ItemsShaped, ItemShape
<1>2. \A i \in Shard : Newest(i)
  BY DEF CliInit, NoTotals, Newest, Mine
<1>3. Phases
  BY DEF CliInit, Phases, Passed
<1> QED
  BY <1>1, <1>2, <1>3 DEF CliInit, NoTotals, Flowing

\* Nothing is said of totals.
LEMMA NewestStays ==
  ASSUME NEW i \in Shard, Newest(i), bus' = bus, folded' = folded, items'[i].sent = items[i].sent
  PROVE  Newest(i)'
BY DEF Newest, Mine

\* While the run is under way the thread has not drained the channel for the
\* last time.
LEMMA NotYetOver ==
  ASSUME Phases, Running PROVE ~stop /\ thread \notin {"drain", "over"} /\ main \notin Passed
BY DEF Phases, Running, Passed

LEMMA PublishFlows ==
  ASSUME Flowing, NEW i \in Shard, Publishes(i) PROVE Flowing'
<1> DEFINE total == items[i].told + 1
           message == [path |-> i, total |-> total]
           n == Len(bus)
<1>1. /\ Running /\ items[i].told \in Nat /\ ItemsShaped
      /\ bus \in Seq(Totals) /\ n \in Nat
  BY DEF Publishes, Flowing, ItemsShaped, ItemShape
<1>2. /\ items' = [items EXCEPT ![i].told = total, ![i].sent = total, ![i].reports = @ + 1]
      /\ bus' = Append(bus, message)
      /\ UNCHANGED <<main, folded, thread, stop, events>>
  BY DEF Publishes, RunRest, follower
<1>3. total \in Nat \ {0} /\ message \in Totals
  BY <1>1 DEF Totals
<1>4. ItemsShaped'
  BY <1>1, <1>2, <1>3 DEF ItemsShaped, ItemShape
<1>5. bus' \in Seq(Totals) /\ Len(bus') = n + 1 /\ bus'[n + 1] = message
      /\ \A k \in 1 .. n : bus'[k] = bus[k]
  BY <1>1, <1>2, <1>3
<1>6. \A k : k \in DOMAIN bus' <=> k \in DOMAIN bus \/ k = n + 1
  BY <1>1, <1>5
<1>7. items'[i].sent = total /\ \A j \in Shard : j # i => items'[j] = items[j]
  BY <1>2 DEF Flowing, ItemsShaped, ItemShape
<1> HIDE DEF message, total, n
<1>8. message.path = i /\ message.total = total
  BY DEF message
<1>9. Newest(i)'
  <2>1. n + 1 \in Mine(i)' /\ \A j \in Mine(i)' : j <= n + 1
    BY <1>1, <1>5, <1>6, <1>8 DEF Mine, n
  <2> QED
    BY <1>5, <1>7, <1>8, <2>1 DEF Newest
<1>10. ASSUME NEW j \in Shard, j # i PROVE Newest(j)'
  <2>1. Mine(j)' = Mine(j) /\ \A k \in Mine(j) : bus'[k] = bus[k]
    BY <1>1, <1>5, <1>6, <1>8, <1>10 DEF Mine, n
  <2>2. Newest(j) /\ items'[j] = items[j] /\ folded' = folded
    BY <1>2, <1>7, <1>10 DEF Flowing
  <2> QED
    BY <2>1, <2>2 DEF Newest
<1>11. Phases'
  BY <1>1, <1>2, NotYetOver DEF Flowing, Phases
<1> QED
  BY <1>2, <1>4, <1>5, <1>9, <1>10, <1>11 DEF Flowing

\* The oldest message leaves the channel and replaces the total it is about.
LEMMA FoldFlows ==
  ASSUME Flowing, FoldOne PROVE Flowing'
<1> DEFINE head == Head(bus)
           n == Len(bus)
<1>1. /\ bus \in Seq(Totals) /\ bus # <<>>
      /\ bus' = Tail(bus) /\ thread \in {"fold", "drain"}
      /\ folded' = [i \in DOMAIN folded \cup {head.path} |->
                      IF i = head.path THEN head.total ELSE folded[i]]
      /\ UNCHANGED <<items, events, main, thread, stop>>
  BY DEF FoldOne, Flowing, Aside, runner
<1>2. /\ n \in Nat /\ n >= 1 /\ head = bus[1] /\ head \in Totals
      /\ bus' \in Seq(Totals) /\ Len(bus') = n - 1
      /\ \A k \in 1 .. n - 1 : bus'[k] = bus[k + 1]
  BY <1>1
<1>3. head.path \in Shard /\ head.total \in Nat \ {0}
  BY <1>2 DEF Totals
<1>4. DOMAIN bus = 1 .. n /\ DOMAIN bus' = 1 .. n - 1
  BY <1>1, <1>2
<1> HIDE DEF head, n
<1>5. ASSUME NEW i \in Shard PROVE Newest(i)'
  <2>1. \A k : k \in Mine(i)' <=> k \in 1 .. n - 1 /\ k + 1 \in Mine(i)
    BY <1>2, <1>4 DEF Mine
  <2>2. 1 \in Mine(i) <=> head.path = i
    BY <1>2, <1>4 DEF Mine
  <2>3. Newest(i) /\ Mine(i) \subseteq 1 .. n
    BY <1>4 DEF Flowing, Mine
  <2>4. CASE Mine(i) = {}
    <3>1. Mine(i)' = {} /\ head.path # i
      BY <2>1, <2>2, <2>4
    <3> QED
      BY <1>1, <2>3, <2>4, <3>1 DEF Newest
  <2>5. CASE Mine(i) # {}
    <3>1. PICK k \in Mine(i) : (\A j \in Mine(i) : j <= k) /\ bus[k].total = items[i].sent
      BY <2>3, <2>5 DEF Newest
    <3>2. CASE k = 1
      <4>1. Mine(i)' = {}
        <5>1. ASSUME NEW j \in Mine(i)' PROVE FALSE
          <6>1. j \in 1 .. n - 1 /\ j + 1 \in Mine(i)
            BY <2>1, <5>1
          <6>2. j + 1 <= 1
            BY <3>1, <3>2, <6>1
          <6> QED
            BY <1>2, <6>1, <6>2
        <5> QED
          BY <5>1
      <4>2. head.path = i /\ head.total = items[i].sent
        BY <1>2, <2>2, <3>1, <3>2
      <4>3. items[i].sent > 0
        BY <1>3, <4>2
      <4> QED
        BY <1>1, <4>1, <4>2, <4>3 DEF Newest
    <3>3. CASE k # 1
      <4>1. k \in 2 .. n /\ k - 1 \in 1 .. n - 1 /\ (k - 1) + 1 = k
        BY <1>2, <2>3, <3>3
      <4>2. k - 1 \in Mine(i)' /\ bus'[k - 1] = bus[k]
        BY <1>2, <2>1, <3>1, <4>1
      <4>3. ASSUME NEW j \in Mine(i)' PROVE j <= k - 1
        <5>1. j \in 1 .. n - 1 /\ j + 1 \in Mine(i)
          BY <2>1, <4>3
        <5>2. j + 1 <= k
          BY <3>1, <5>1
        <5> QED
          BY <1>2, <4>1, <5>1, <5>2
      <4> QED
        BY <1>1, <3>1, <4>2, <4>3 DEF Newest
    <3> QED
      BY <3>2, <3>3
  <2> QED
    BY <2>4, <2>5
<1>6. Phases'
  BY <1>1 DEF Flowing, Phases, Passed
<1>7. ItemsShaped'
  BY <1>1 DEF Flowing, ItemsShaped, ItemShape
<1> QED
  BY <1>1, <1>2, <1>3, <1>5, <1>6, <1>7 DEF Flowing

\* The other steps of an item send nothing.
LEMMA ItemFlows ==
  ASSUME Flowing, NEW i \in Shard,
         ItemStarts(i) \/ Retries(i) \/ CallReturns(i) \/ CallFails(i) \/ ItemSettles(i)
  PROVE  Flowing'
<1>1. /\ Running /\ ItemsShaped
      /\ DOMAIN events = DOMAIN NoEvents
  BY DEF ItemStarts, Retries, CallReturns, CallFails, ItemSettles, Flowing
<1>2. UNCHANGED <<main, bus, folded, thread, stop>>
  BY DEF ItemStarts, Retries, CallReturns, CallFails, ItemSettles, RunRest, follower
<1>3. ItemsShaped' /\ \A j \in Shard : items'[j].sent = items[j].sent
  <2>1. CASE ItemStarts(i)
    BY <1>1, <2>1 DEF ItemStarts, ItemsShaped, ItemShape
  <2>2. CASE Retries(i)
    BY <1>1, <2>2 DEF Retries, ItemsShaped, ItemShape
  <2>3. CASE CallReturns(i)
    BY <1>1, <2>3 DEF CallReturns, ItemsShaped, ItemShape
  <2>4. CASE CallFails(i)
    BY <1>1, <2>4 DEF CallFails, ItemsShaped, ItemShape
  <2>5. CASE ItemSettles(i)
    BY <1>1, <2>5 DEF ItemSettles, ItemsShaped, ItemShape
  <2> QED
    BY <2>1, <2>2, <2>3, <2>4, <2>5
<1>4. DOMAIN events' = DOMAIN NoEvents /\ events'.terminal = events.terminal
  BY <1>1 DEF ItemStarts, Retries, CallReturns, CallFails, ItemSettles, NoEvents
<1>5. \A j \in Shard : Newest(j)'
  BY <1>2, <1>3, NewestStays DEF Flowing
<1>6. Phases'
  BY <1>2, <1>4 DEF Flowing, Phases
<1> QED
  BY <1>2, <1>3, <1>4, <1>5, <1>6 DEF Flowing

\* All other steps leave the totals alone, but may move on the main task and the
\* thread.
LEMMA RestFlows ==
  ASSUME Flowing, UNCHANGED <<items, bus, folded>>, DOMAIN events' = DOMAIN events, Phases'
  PROVE  Flowing'
<1>1. \A i \in Shard : Newest(i)'
  BY NewestStays DEF Flowing
<1>2. ItemsShaped'
  BY DEF Flowing, ItemsShaped, ItemShape
<1> QED
  BY <1>1, <1>2 DEF Flowing

LEMMA MainFlows ==
  ASSUME Flowing, Main PROVE Flowing'
<1> USE DEF Prepared, AfterRun, Goes, Exit, runner, follower, ending, setting, Passed
<1>1. UNCHANGED <<items, events, bus, folded>>
  BY DEF Main, Unprepared, Refuse, Read, MakeActor, BadOverlay, Launch, Checked, Returns, Stop, Join,
     Verdict, ShowFails, Show, WriteManifest, WriteUsage, WriteSpec, ExportTrace, Write, WriteFails, Report
<1>2. Phases
  BY DEF Flowing
<1>3. CASE Unprepared \/ Refuse \/ Read \/ MakeActor \/ BadOverlay \/ Checked
  BY <1>1, <1>2, <1>3, RestFlows DEF Unprepared, Refuse, Read, MakeActor, BadOverlay, Checked, Phases
<1>4. CASE Launch
  BY <1>1, <1>2, <1>4, RestFlows DEF Launch, Phases
<1>5. CASE Returns \/ Stop \/ Join
  BY <1>1, <1>2, <1>5, RestFlows DEF Returns, Stop, Join, Phases
<1>6. CASE Verdict \/ ShowFails \/ Show \/ WriteFails \/ Report
  BY <1>1, <1>2, <1>6, RestFlows DEF Verdict, ShowFails, Show, WriteFails, Report, Phases
<1>7. CASE WriteManifest \/ WriteUsage \/ WriteSpec \/ ExportTrace
  <2>1. /\ main \in Passed /\ main' \in Passed /\ UNCHANGED <<thread, stop>>
    BY <1>7 DEF WriteManifest, WriteUsage, WriteSpec, ExportTrace, Write
  <2> QED
    BY <1>1, <1>2, <2>1, RestFlows DEF Phases
<1> QED
  BY <1>3, <1>4, <1>5, <1>6, <1>7 DEF Main

LEMMA FollowFlows ==
  ASSUME Flowing, Follow PROVE Flowing'
<1>1. CASE FoldOne
  BY <1>1, FoldFlows
<1>2. CASE Look \/ Draw \/ Poll \/ Polled \/ Drained
  <2>1. UNCHANGED <<items, events, bus, folded, main, stop>>
    BY <1>2 DEF Look, Draw, Poll, Polled, Drained, Aside, runner, drawing
  <2>2. Phases'
    BY <1>2, <2>1 DEF Look, Draw, Drawing, Poll, Polled, Drained, LoopOver, LastFold, Flowing, Phases, Passed
  <2> QED
    BY <2>1, <2>2, RestFlows
<1> QED
  BY <1>1, <1>2 DEF Follow

LEMMA WorkflowFlows ==
  ASSUME Flowing, Workflow PROVE Flowing'
<1>1. CASE Validating
  <2>1. UNCHANGED <<items, events, bus, folded, main, stop, thread>>
    BY <1>1 DEF Validating, runner, follower
  <2> QED
    BY <2>1, RestFlows DEF Flowing, Phases
<1>2. CASE Ends
  <2>1. UNCHANGED <<items, bus, folded, main, stop, thread>> /\ DOMAIN events' = DOMAIN events
    BY <1>2 DEF Ends, RunRest, follower
  <2>2. Phases'
    BY <1>2, <2>1, NotYetOver DEF Ends, Flowing, Phases
  <2> QED
    BY <2>1, <2>2, RestFlows
<1> QED
  BY <1>1, <1>2, PublishFlows, ItemFlows DEF Workflow

LEMMA FlowingStep == Flowing /\ [CliNext]_vars => Flowing'
<1> SUFFICES ASSUME Flowing, [CliNext]_vars PROVE Flowing'
  OBVIOUS
<1>1. CASE UNCHANGED vars \/ Exited \/ Tick
  <2>1. UNCHANGED <<items, events, bus, folded, main, stop, thread>>
    BY <1>1 DEF Exited, vars, Tick, runner, follower
  <2> QED
    BY <2>1, RestFlows DEF Flowing, Phases
<1> QED
  BY <1>1, MainFlows, FollowFlows, WorkflowFlows DEF CliNext

LEMMA FoldedIsSent ==
  ASSUME Flowing, main \in Passed
  PROVE  /\ bus = <<>>
         /\ DOMAIN folded = {i \in Shard : items[i].sent > 0}
         /\ \A i \in DOMAIN folded : folded[i] = items[i].sent
<1>1. bus = <<>>
  BY DEF Flowing, Phases
<1>2. \A i \in Shard : Newest(i) /\ Mine(i) = {}
  BY <1>1 DEF Flowing, Mine
<1> QED
  BY <1>1, <1>2 DEF Newest, Flowing

-----------------------------------------------------------------------------
(* Theorems                                                                *)

\* What the follow thread has folded of a shard, or the last message about it on
\* the channel, is the last total it has sent.
THEOREM TotalsFlow == CliSpec => []Flowing
<1> QED
  BY FlowingInit, FlowingStep, PTL DEF CliSpec

\* The verdict, the receipt and the files are made from the last totals of every
\* shard, wherever the drains of the follow thread fell between its reports and
\* whichever of terminal event and stop flag ended its loop.
THEOREM TotalsAreComplete == CliSpec => []TotalsComplete
<1>1. Flowing => TotalsComplete
  BY FoldedIsSent DEF TotalsComplete, Passed
<1> QED
  BY <1>1, TotalsFlow, PTL

-----------------------------------------------------------------------------
(* How many items are where                                                *)

Places == {"waiting", "calling", "called", "lost", "completed", "failed"}
Over == {"completed", "failed"}
At(S) == {i \in Shard : items[i].at \in S}

\* Of the events a count is what has been counted by kind, and the thread has
\* seen such counts, with no more load than calls in flight and succeeded.
InFlight(ev) == ev.started - ev.settled
Loaded(ev, load) ==
  /\ ev.started \in Nat /\ ev.settled \in 0 .. ev.started /\ ev.invoked \in Nat
  /\ load \in Nat /\ load <= ev.invoked + InFlight(ev)

Counts ==
  /\ DOMAIN events = DOMAIN NoEvents
  /\ \A i \in Shard : items[i].at \in Places
  /\ events.started = Cardinality(At(Places \ {"waiting"}))
  /\ events.settled = Cardinality(At(Over))
  /\ events.invoked = Cardinality(At({"called", "completed"}))
  /\ events.recorded \in Nat /\ events.recorded >= events.invoked
  /\ events.terminal \in {"none"} \cup Over
  /\ events.terminal # "none" => At(Over) = Shard /\ Accepted
  /\ Loaded(seen.events, seen.load)

LEMMA AtFinite == \A S : At(S) \subseteq Shard /\ IsFiniteSet(At(S)) /\ Cardinality(At(S)) \in Nat
BY ShardAssumption, FS_Subset, FS_CardinalityType DEF At

LEMMA DisjointUnion ==
  ASSUME NEW A, IsFiniteSet(A), NEW B, IsFiniteSet(B), A \cap B = {}
  PROVE  IsFiniteSet(A \cup B) /\ Cardinality(A \cup B) = Cardinality(A) + Cardinality(B)
<1> DEFINE a == Cardinality(A)
           b == Cardinality(B)
           c == Cardinality(A \cap B)
           u == Cardinality(A \cup B)
<1>1. c = 0
  BY FS_EmptySet
<1>2. a \in Nat /\ b \in Nat
  BY FS_CardinalityType
<1>3. /\ IsFiniteSet(A \cup B)
      /\ u = a + b - c
  BY FS_Union
<1> HIDE DEF a, b, c, u
<1>4. u = a + b
  BY <1>1, <1>2, <1>3
<1> QED
  BY <1>3, <1>4 DEF a, b, u

\* What is in flight and what has succeeded is at least what runs or has
\* succeeded.
LEMMA LoadIsCounted == ASSUME Counts PROVE Loaded(events, Load)
<1> DEFINE A == At({"calling"})
           B == At({"called", "completed"})
           C == At(Over)
           D == At(Places \ {"waiting"})
<1>1. /\ IsFiniteSet(A) /\ IsFiniteSet(B) /\ IsFiniteSet(C) /\ IsFiniteSet(D)
      /\ Cardinality(A) \in Nat /\ Cardinality(B) \in Nat /\ Cardinality(C) \in Nat /\ Cardinality(D) \in Nat
  BY AtFinite
<1>2. A \cap B = {} /\ A \cap C = {} /\ A \cup C \subseteq D
  BY DEF At, Over, Places
<1>3. Cardinality(A \cup B) = Cardinality(A) + Cardinality(B) /\ IsFiniteSet(A \cup B)
  BY <1>1, <1>2, DisjointUnion
<1>4. Cardinality(A \cup C) = Cardinality(A) + Cardinality(C) /\ IsFiniteSet(A \cup C)
  BY <1>1, <1>2, DisjointUnion
<1>5. Cardinality(A \cup C) <= Cardinality(D)
  BY <1>1, <1>2, FS_Subset
<1>6. Load = Cardinality(A \cup B)
  <2>1. A \cup B = {i \in Shard : items[i].at \in {"calling", "called", "completed"}}
    BY DEF At
  <2> QED
    BY <2>1 DEF Load
<1> HIDE DEF A, B, C, D
<1>7. events.started = Cardinality(D) /\ events.settled = Cardinality(C) /\ events.invoked = Cardinality(B)
  BY DEF Counts, A, B, C, D
<1> DEFINE a == Cardinality(A)
           b == Cardinality(B)
           c == Cardinality(C)
           d == Cardinality(D)
<1>8. a \in Nat /\ b \in Nat /\ c \in Nat /\ d \in Nat /\ a + c <= d /\ Load = a + b
  BY <1>1, <1>3, <1>4, <1>5, <1>6
<1> HIDE DEF a, b, c, d
<1>9. c \in 0 .. d /\ a + b \in Nat /\ a + b <= b + (d - c)
  BY <1>8
<1> QED
  BY <1>7, <1>8, <1>9 DEF Loaded, InFlight, a, b, c, d

-----------------------------------------------------------------------------
(* An item moves                                                           *)

\* An item moves from one place to another.
Moves(i, from, to) ==
  /\ items[i].at = from /\ items'[i].at = to
  /\ \A j \in Shard : j # i => items'[j].at = items[j].at

LEMMA MoveStays ==
  ASSUME NEW i \in Shard, NEW from, NEW to, Moves(i, from, to), NEW S, from \in S <=> to \in S
  PROVE  At(S)' = At(S)
BY DEF Moves, At

LEMMA MoveJoins ==
  ASSUME NEW i \in Shard, NEW from, NEW to, Moves(i, from, to), NEW S, from \notin S, to \in S
  PROVE  Cardinality(At(S)') = Cardinality(At(S)) + 1
<1>1. At(S)' = At(S) \cup {i} /\ i \notin At(S)
  BY DEF Moves, At
<1> QED
  BY <1>1, AtFinite, FS_AddElement

LEMMA CountsInit == CliInit => Counts
<1> SUFFICES ASSUME CliInit PROVE Counts
  OBVIOUS
<1>1. \A i \in Shard : items[i].at = "waiting"
  BY DEF CliInit
<1>2. At(Places \ {"waiting"}) = {} /\ At(Over) = {} /\ At({"called", "completed"}) = {}
  BY <1>1 DEF At, Over
<1>3. Cardinality({}) = 0
  BY FS_EmptySet
<1>4. events = NoEvents /\ seen = [events |-> NoEvents, load |-> 0]
  BY DEF CliInit
<1>5. Loaded(seen.events, seen.load)
  BY <1>4 DEF Loaded, InFlight, NoEvents
<1>6. events.started = 0 /\ events.settled = 0 /\ events.invoked = 0 /\ events.recorded = 0
      /\ events.terminal = "none"
  BY <1>4 DEF NoEvents
<1>7. \A i \in Shard : items[i].at \in Places
  BY <1>1 DEF Places
<1> QED
  BY <1>2, <1>3, <1>4, <1>5, <1>6, <1>7 DEF Counts

LEMMA ItemCounts ==
  ASSUME Counts, Flowing, NEW i \in Shard,
         ItemStarts(i) \/ Publishes(i) \/ Retries(i) \/ CallReturns(i) \/ CallFails(i) \/ ItemSettles(i)
  PROVE  Counts'
<1> DEFINE d == Cardinality(At(Places \ {"waiting"}))
           c == Cardinality(At(Over))
           b == Cardinality(At({"called", "completed"}))
<1>1. /\ Running /\ ItemsShaped /\ ItemShape(items[i])
      /\ DOMAIN events = {"started", "invoked", "settled", "terminal", "recorded"}
      /\ events.started = d /\ events.settled = c /\ events.invoked = b
      /\ events.recorded \in Nat /\ events.recorded >= events.invoked
      /\ events.terminal = "none"
  BY DEF ItemStarts, Publishes, Retries, CallReturns, CallFails, ItemSettles, Flowing, ItemsShaped, Counts,
         Running, NoEvents
<1>2. UNCHANGED <<seen, topoVars, main>>
  BY DEF ItemStarts, Publishes, Retries, CallReturns, CallFails, ItemSettles, RunRest, follower, drawing
<1>3. d \in Nat /\ c \in Nat /\ b \in Nat
  BY AtFinite
<1> DEFINE Fine(from, to) == Moves(i, from, to) /\ to \in Places
<1>4. ASSUME NEW from \in Places, NEW to \in Places, Moves(i, from, to)
      PROVE  \A j \in Shard : items'[j].at \in Places
  BY <1>4 DEF Counts, Moves
<1> HIDE DEF d, c, b
<1>5. Loaded(seen.events, seen.load)'
  BY <1>2 DEF Counts
<1>6. CASE ItemStarts(i)
  <2>1. Moves(i, "waiting", "calling")
    BY <1>1, <1>6 DEF ItemStarts, Moves, ItemsShaped, ItemShape
  <2>2. events' = [events EXCEPT !.started = @ + 1]
    BY <1>6 DEF ItemStarts
  <2>3. Cardinality(At(Places \ {"waiting"})') = d + 1
    BY <2>1, MoveJoins DEF d, Places
  <2>4. Cardinality(At(Over)') = c /\ Cardinality(At({"called", "completed"})') = b
    BY <2>1, MoveStays DEF c, b, Over
  <2>5. \A j \in Shard : items'[j].at \in Places
    BY <2>1, <1>4 DEF Places
  <2>6. /\ DOMAIN events' = DOMAIN events
        /\ events'.started = d + 1 /\ events'.settled = c /\ events'.invoked = b
        /\ events'.recorded = events.recorded /\ events'.terminal = "none"
    BY <1>1, <2>2
  <2> QED
    BY <1>1, <1>5, <2>3, <2>4, <2>5, <2>6 DEF Counts, NoEvents
<1>7. CASE Publishes(i) \/ Retries(i)
  <2>1. Moves(i, "calling", "calling")
    BY <1>1, <1>7 DEF Publishes, Retries, Moves, ItemsShaped, ItemShape
  <2>2. events' = events
    BY <1>7 DEF Publishes, Retries
  <2>3. Cardinality(At(Places \ {"waiting"})') = d /\ Cardinality(At(Over)') = c
        /\ Cardinality(At({"called", "completed"})') = b
    BY <2>1, MoveStays DEF d, c, b
  <2>5. \A j \in Shard : items'[j].at \in Places
    BY <2>1, <1>4 DEF Places
  <2> QED
    BY <1>1, <1>5, <2>2, <2>3, <2>5 DEF Counts, NoEvents
<1>8. CASE CallReturns(i)
  <2>1. Moves(i, "calling", "called")
    BY <1>1, <1>8 DEF CallReturns, Moves, ItemsShaped, ItemShape
  <2>2. events' = [events EXCEPT !.recorded = @ + 1, !.invoked = @ + 1]
    BY <1>8 DEF CallReturns
  <2>3. Cardinality(At({"called", "completed"})') = b + 1
    BY <2>1, MoveJoins DEF b
  <2>4. Cardinality(At(Places \ {"waiting"})') = d /\ Cardinality(At(Over)') = c
    BY <2>1, MoveStays DEF c, d, Over, Places
  <2>5. \A j \in Shard : items'[j].at \in Places
    BY <2>1, <1>4 DEF Places
  <2>6. /\ DOMAIN events' = DOMAIN events
        /\ events'.started = d /\ events'.settled = c /\ events'.invoked = b + 1
        /\ events'.recorded = events.recorded + 1 /\ events'.terminal = "none"
    BY <1>1, <2>2
  <2>7. events'.recorded \in Nat /\ events'.recorded >= b + 1
    BY <1>1, <1>3, <2>6
  <2> QED
    BY <1>1, <1>5, <2>3, <2>4, <2>5, <2>6, <2>7 DEF Counts, NoEvents
<1>9. CASE CallFails(i)
  <2>1. Moves(i, "calling", "lost")
    BY <1>1, <1>9 DEF CallFails, Moves, ItemsShaped, ItemShape
  <2>2. events' = events \/ events' = [events EXCEPT !.recorded = @ + 1]
    BY <1>9 DEF CallFails
  <2>3. Cardinality(At(Places \ {"waiting"})') = d /\ Cardinality(At(Over)') = c
        /\ Cardinality(At({"called", "completed"})') = b
    BY <2>1, MoveStays DEF d, c, b, Over, Places
  <2>5. \A j \in Shard : items'[j].at \in Places
    BY <2>1, <1>4 DEF Places
  <2>6. /\ DOMAIN events' = DOMAIN events
        /\ events'.started = d /\ events'.settled = c /\ events'.invoked = b
        /\ events'.recorded \in {events.recorded, events.recorded + 1} /\ events'.terminal = "none"
    BY <1>1, <2>2
  <2>7. events'.recorded \in Nat /\ events'.recorded >= b
    BY <1>1, <1>3, <2>6
  <2> QED
    BY <1>1, <1>5, <2>3, <2>5, <2>6, <2>7 DEF Counts, NoEvents
<1>10. CASE ItemSettles(i)
  <2>1. PICK from \in {"called", "lost"}, to \in Over :
          Moves(i, from, to) /\ (from = "called" <=> to = "completed")
    <3>1. CASE items[i].at = "called"
      <4>1. Moves(i, "called", "completed")
        BY <1>1, <1>10, <3>1 DEF ItemSettles, Moves, ItemsShaped, ItemShape
      <4> QED
        BY <4>1 DEF Over
    <3>2. CASE items[i].at = "lost"
      <4>1. Moves(i, "lost", "failed")
        BY <1>1, <1>10, <3>2 DEF ItemSettles, Moves, ItemsShaped, ItemShape
      <4> QED
        BY <4>1 DEF Over
    <3> QED
      BY <1>10, <3>1, <3>2 DEF ItemSettles
  <2>2. events' = [events EXCEPT !.settled = @ + 1]
    BY <1>10 DEF ItemSettles
  <2>3. Cardinality(At(Over)') = c + 1
    BY <2>1, MoveJoins DEF c, Over
  <2>4. Cardinality(At(Places \ {"waiting"})') = d /\ Cardinality(At({"called", "completed"})') = b
    BY <2>1, MoveStays DEF d, b, Over, Places
  <2>5. \A j \in Shard : items'[j].at \in Places
    BY <2>1, <1>4 DEF Places, Over
  <2>6. /\ DOMAIN events' = DOMAIN events
        /\ events'.started = d /\ events'.settled = c + 1 /\ events'.invoked = b
        /\ events'.recorded = events.recorded /\ events'.terminal = "none"
    BY <1>1, <2>2
  <2> QED
    BY <1>1, <1>5, <2>3, <2>4, <2>5, <2>6 DEF Counts, NoEvents
<1> QED
  BY <1>6, <1>7, <1>8, <1>9, <1>10

\* All other steps leave the items and their counts alone.
LEMMA CountsStay ==
  ASSUME Counts, UNCHANGED <<items, events, seen>>, Accepted => Accepted'
  PROVE  Counts'
<1>1. \A S : At(S)' = At(S)
  BY DEF At
<1> QED
  BY <1>1 DEF Counts

\* A workflow that was validated stays so.
LEMMA AcceptedStays == ASSUME [CliNext]_vars, Accepted PROVE Accepted'
<1>1. stage = "validated" /\ flaws = {} /\ cyclic = {}
  BY DEF Accepted
<1>2. CASE UNCHANGED topoVars
  BY <1>1, <1>2 DEF Accepted, topoVars, search
<1>3. CASE Validate
  BY <1>1, <1>3 DEF Validate, ValidateNodes, CyclesDetected, Leave, Reached, VisitRoot, FollowEdge, Reach
<1>4. UNCHANGED topoVars \/ Validate
  <2>1. CASE UNCHANGED vars \/ Exited \/ Tick
    BY <2>1 DEF Exited, vars, Tick
  <2>2. CASE Main
    BY <2>2 DEF Main, Unprepared, Refuse, Read, MakeActor, BadOverlay, Launch, Checked, Returns, Stop, Join,
       Verdict, ShowFails, Show, WriteManifest, WriteUsage, WriteSpec, ExportTrace, Write, WriteFails, Report,
       Prepared, AfterRun
  <2>3. CASE Follow
    BY <2>3 DEF Follow, Look, FoldOne, Draw, Poll, Polled, Drained, Aside
  <2>4. CASE Workflow
    BY <2>4 DEF Workflow, Validating, Ends, ItemStarts, Publishes, Retries, CallReturns, CallFails, ItemSettles,
       RunRest
  <2> QED
    BY <2>1, <2>2, <2>3, <2>4 DEF CliNext
<1> QED
  BY <1>2, <1>3, <1>4

LEMMA CountsStep == Counts /\ Flowing /\ [CliNext]_vars => Counts'
<1> SUFFICES ASSUME Counts, Flowing, [CliNext]_vars PROVE Counts'
  OBVIOUS
<1>1. Accepted => Accepted'
  BY AcceptedStays
<1>2. CASE UNCHANGED vars \/ Exited \/ Tick
  BY <1>1, <1>2, CountsStay DEF Exited, vars, Tick, runner, follower, drawing
<1>3. CASE Main
  <2>1. UNCHANGED <<items, events, seen>>
    BY <1>3 DEF Main, Unprepared, Refuse, Read, MakeActor, BadOverlay, Launch, Checked, Returns, Stop, Join,
       Verdict, ShowFails, Show, WriteManifest, WriteUsage, WriteSpec, ExportTrace, Write, WriteFails, Report,
       Prepared, AfterRun, runner, follower, drawing
  <2> QED
    BY <1>1, <2>1, CountsStay
<1>4. CASE Look
  <2>1. UNCHANGED <<items, events>> /\ seen' = [events |-> events, load |-> Load]
    BY <1>4 DEF Look, Aside, runner
  <2>2. Loaded(seen'.events, seen'.load)
    BY <2>1, LoadIsCounted
  <2>3. \A S : At(S)' = At(S)
    BY <2>1 DEF At
  <2> QED
    BY <1>1, <2>1, <2>2, <2>3 DEF Counts
<1>5. CASE FoldOne \/ Draw \/ Poll \/ Polled \/ Drained
  <2>1. UNCHANGED <<items, events, seen>>
    BY <1>5 DEF FoldOne, Draw, Poll, Polled, Drained, Aside, runner, drawing
  <2> QED
    BY <1>1, <2>1, CountsStay
<1>6. CASE Validating
  <2>1. UNCHANGED <<items, events, seen>>
    BY <1>6 DEF Validating, runner, follower, drawing
  <2> QED
    BY <1>1, <2>1, CountsStay
<1>7. CASE Ends
  <2>1. /\ Running /\ \A i \in Shard : items[i].at \in Over
        /\ UNCHANGED <<items, seen>>
        /\ events' = [events EXCEPT !.terminal =
                        IF cmd.tolerant \/ \A i \in Shard : items[i].at = "completed"
                        THEN "completed" ELSE "failed"]
    BY <1>7 DEF Ends, RunRest, follower, drawing, Over
  <2>2. At(Over) = Shard /\ Accepted
    BY <2>1 DEF At, Running
  <2>3. /\ DOMAIN events' = DOMAIN events
        /\ events'.started = events.started /\ events'.settled = events.settled
        /\ events'.invoked = events.invoked /\ events'.recorded = events.recorded
        /\ events'.terminal \in Over
    BY <2>1 DEF Counts, NoEvents, Over
  <2>4. \A S : At(S)' = At(S)
    BY <2>1 DEF At
  <2> QED
    BY <1>1, <2>1, <2>2, <2>3, <2>4 DEF Counts
<1> QED
  BY <1>2, <1>3, <1>4, <1>5, <1>6, <1>7, ItemCounts DEF CliNext, Follow, Workflow

-----------------------------------------------------------------------------
(* Induction                                                               *)

LEMMA LeastNat ==
  ASSUME NEW S \in SUBSET Nat, S # {} PROVE \E x \in S : \A y \in S : x <= y
<1> DEFINE R == {ss \in Nat \X Nat : ss[1] < ss[2]}
<1>1. IsWellFoundedOn(R, Nat)
  BY NatLessThanWellFounded DEF OpToRel
<1>2. \A x, y \in Nat : <<y, x>> \in R <=> y < x
  OBVIOUS
<1> HIDE DEF R
<1>3. PICK x \in S : \A y \in S : ~(<<y, x>> \in R)
  BY <1>1, WFMin
<1>4. ASSUME NEW y \in S PROVE x <= y
  <2>1. x \in Nat /\ y \in Nat
    OBVIOUS
  <2>2. ~(y < x)
    BY <1>2, <1>3, <2>1
  <2> QED
    BY <2>1, <2>2
<1> QED
  BY <1>4

\* A set of numbers that has 0 and the successor of each has them all.
LEMMA AllNats ==
  ASSUME NEW S, 0 \in S, \A n \in Nat : n \in S => n + 1 \in S
  PROVE  \A n \in Nat : n \in S
<1> DEFINE Bad == {n \in Nat : n \notin S}
<1>1. SUFFICES ASSUME Bad # {} PROVE FALSE
  OBVIOUS
<1>2. PICK n \in Bad : \A m \in Bad : n <= m
  BY <1>1, LeastNat
<1>3. n \in Nat /\ n # 0 /\ n - 1 \in Nat
  BY <1>2
<1>4. n - 1 \in S
  BY <1>2, <1>3
<1>5. (n - 1) + 1 = n
  BY <1>3
<1> QED
  BY <1>2, <1>3, <1>4, <1>5

-----------------------------------------------------------------------------
(* Selections of a sequence                                                *)

\* The indices at which P holds are kept, one after the other.
Keeps(f, s, P) ==
  f = [n \in 0 .. Len(s) |-> IF n = 0 THEN <<>> ELSE IF P[n] THEN Append(f[n - 1], s[n]) ELSE f[n - 1]]

\* What r holds are the elements with P of the first n, and its last one is
\* the last of them.
Picks(r, s, P, n) ==
  /\ r \in Seq({s[k] : k \in {k \in 1 .. n : P[k]}})
  /\ \A k \in 1 .. n : P[k] => \E i \in 1 .. Len(r) : r[i] = s[k]
  /\ r # <<>> => \E m \in 1 .. n : /\ P[m] /\ r[Len(r)] = s[m]
                                   /\ \A k \in 1 .. n : P[k] => k <= m

LEMMA KeepsExists == ASSUME NEW s, Len(s) \in Nat, NEW P PROVE \E f : Keeps(f, s, P)
<1> DEFINE Upto(f, n) ==
             f = [k \in 0 .. n |-> IF k = 0 THEN <<>> ELSE IF P[k] THEN Append(f[k - 1], s[k]) ELSE f[k - 1]]
           N == {n \in Nat : \E f : Upto(f, n)}
<1>1. 0 \in N
  <2> DEFINE f == [k \in 0 .. 0 |-> <<>>]
  <2>1. Upto(f, 0)
    OBVIOUS
  <2> HIDE DEF f, Upto
  <2> QED
    BY <2>1
<1>2. ASSUME NEW n \in Nat, n \in N PROVE n + 1 \in N
  <2>1. PICK f : Upto(f, n)
    BY <1>2
  <2> DEFINE g == [k \in 0 .. n + 1 |-> IF k = 0 THEN <<>> ELSE IF P[k] THEN Append(f[k - 1], s[k]) ELSE f[k - 1]]
  <2>2. ASSUME NEW k \in 0 .. n PROVE g[k] = f[k]
    <3>1. k \in 0 .. n + 1
      OBVIOUS
    <3>2. f[k] = IF k = 0 THEN <<>> ELSE IF P[k] THEN Append(f[k - 1], s[k]) ELSE f[k - 1]
      BY <2>1
    <3> QED
      BY <3>1, <3>2
  <2>3. \A k \in 0 .. n + 1 : k # 0 => k - 1 \in 0 .. n
    OBVIOUS
  <2>4. \A k \in 0 .. n + 1 : k # 0 => g[k - 1] = f[k - 1]
    BY <2>2, <2>3
  <2>5. g = [k \in 0 .. n + 1 |-> IF k = 0 THEN <<>> ELSE IF P[k] THEN Append(g[k - 1], s[k]) ELSE g[k - 1]]
    <3>1. ASSUME NEW k \in 0 .. n + 1
          PROVE  g[k] = IF k = 0 THEN <<>> ELSE IF P[k] THEN Append(g[k - 1], s[k]) ELSE g[k - 1]
      <4>1. g[k] = IF k = 0 THEN <<>> ELSE IF P[k] THEN Append(f[k - 1], s[k]) ELSE f[k - 1]
        OBVIOUS
      <4>2. k # 0 => g[k - 1] = f[k - 1]
        BY <2>4
      <4> HIDE DEF g
      <4> QED
        BY <4>1, <4>2
    <3>2. g = [k \in 0 .. n + 1 |-> g[k]]
      OBVIOUS
    <3> HIDE DEF g
    <3> QED
      BY <3>1, <3>2
  <2>6. Upto(g, n + 1)
    BY <2>5
  <2> HIDE DEF g, Upto
  <2> QED
    BY <2>6
<1> HIDE DEF N
<1>3. Len(s) \in N
  BY <1>1, <1>2, AllNats
<1>4. PICK f : Upto(f, Len(s))
  BY <1>3 DEF N
<1> QED
  BY <1>4 DEF Keeps

LEMMA PicksAppend ==
  ASSUME NEW r, NEW s, NEW P, NEW n \in Nat, Picks(r, s, P, n), P[n + 1]
  PROVE  Picks(Append(r, s[n + 1]), s, P, n + 1)
<1> DEFINE T == {s[k] : k \in {k \in 1 .. n : P[k]}}
           U == {s[k] : k \in {k \in 1 .. n + 1 : P[k]}}
           q == Append(r, s[n + 1])
<1>1. T \subseteq U /\ s[n + 1] \in U
  <2>1. n + 1 \in 1 .. n + 1 /\ 1 .. n \subseteq 1 .. n + 1
    OBVIOUS
  <2> QED
    BY <2>1
<1>2. r \in Seq(T)
  BY DEF Picks
<1> HIDE DEF T, U
<1>3. r \in Seq(U)
  BY <1>1, <1>2
<1>4. /\ q \in Seq(U) /\ Len(q) = Len(r) + 1 /\ Len(r) \in Nat /\ q[Len(r) + 1] = s[n + 1]
      /\ \A i \in 1 .. Len(r) : q[i] = r[i]
  BY <1>1, <1>3, AppendProperties, LenProperties
<1> HIDE DEF q
<1>5. ASSUME NEW k \in 1 .. n + 1, P[k] PROVE \E i \in 1 .. Len(q) : q[i] = s[k]
  <2>1. CASE k = n + 1
    <3>1. Len(r) + 1 \in 1 .. Len(q)
      BY <1>4
    <3> QED
      BY <1>4, <2>1, <3>1
  <2>2. CASE k # n + 1
    <3>1. k \in 1 .. n
      BY <2>2
    <3>2. PICK i \in 1 .. Len(r) : r[i] = s[k]
      BY <1>5, <3>1 DEF Picks
    <3>3. i \in 1 .. Len(q) /\ q[i] = s[k]
      BY <1>4, <3>2
    <3> QED
      BY <3>3
  <2> QED
    BY <2>1, <2>2
<1>6. n + 1 \in 1 .. n + 1 /\ q[Len(q)] = s[n + 1] /\ \A k \in 1 .. n + 1 : k <= n + 1
  BY <1>4
<1>7. q \in Seq(U)
  BY <1>4
<1> QED
  BY <1>5, <1>6, <1>7 DEF Picks, U, q

LEMMA PicksSkip ==
  ASSUME NEW r, NEW s, NEW P, NEW n \in Nat, Picks(r, s, P, n), ~P[n + 1]
  PROVE  Picks(r, s, P, n + 1)
<1>1. \A k \in 1 .. n + 1 : P[k] => k \in 1 .. n
  OBVIOUS
<1>2. 1 .. n \subseteq 1 .. n + 1
  OBVIOUS
<1>3. {k \in 1 .. n : P[k]} = {k \in 1 .. n + 1 : P[k]}
  BY <1>1, <1>2
<1> QED
  BY <1>1, <1>2, <1>3 DEF Picks

LEMMA KeepsPicks ==
  ASSUME NEW s, Len(s) \in Nat, NEW P, NEW f, Keeps(f, s, P)
  PROVE  Picks(f[Len(s)], s, P, Len(s))
<1> DEFINE N == {n \in Nat : n <= Len(s) => Picks(f[n], s, P, n)}
<1>1. \A n \in 0 .. Len(s) :
        f[n] = IF n = 0 THEN <<>> ELSE IF P[n] THEN Append(f[n - 1], s[n]) ELSE f[n - 1]
  BY DEF Keeps
<1>2. 0 \in N
  <2>1. f[0] = <<>>
    BY <1>1
  <2>2. Picks(<<>>, s, P, 0)
    <3>1. <<>> \in Seq({s[k] : k \in {k \in 1 .. 0 : P[k]}})
      OBVIOUS
    <3> QED
      BY <3>1 DEF Picks
  <2> QED
    BY <2>1, <2>2
<1>3. ASSUME NEW n \in Nat, n \in N PROVE n + 1 \in N
  <2>1. SUFFICES ASSUME n + 1 <= Len(s) PROVE Picks(f[n + 1], s, P, n + 1)
    OBVIOUS
  <2>2. n + 1 \in 0 .. Len(s) /\ n + 1 # 0 /\ (n + 1) - 1 = n /\ n <= Len(s)
    BY <2>1
  <2>3. f[n + 1] = IF P[n + 1] THEN Append(f[n], s[n + 1]) ELSE f[n]
    BY <1>1, <2>2
  <2>4. Picks(f[n], s, P, n)
    BY <1>3, <2>2
  <2>5. CASE P[n + 1]
    BY <2>3, <2>4, <2>5, PicksAppend
  <2>6. CASE ~P[n + 1]
    BY <2>3, <2>4, <2>6, PicksSkip
  <2> QED
    BY <2>5, <2>6
<1> HIDE DEF N
<1>4. Len(s) \in N
  BY <1>2, <1>3, AllNats
<1> QED
  BY <1>4 DEF N

\* The samples of a kind.
LEMMA SeriesPicks ==
  ASSUME NEW samples, Len(samples) \in Nat, NEW kind
  PROVE  Picks(Series(samples, kind), samples,
               [n \in 1 .. Len(samples) |-> samples[n].kind = kind], Len(samples))
<1> DEFINE P == [n \in 1 .. Len(samples) |-> samples[n].kind = kind]
           H(f) == f = [n \in 0 .. Len(samples) |->
                          IF n = 0 THEN <<>>
                          ELSE IF samples[n].kind = kind THEN Append(f[n - 1], samples[n]) ELSE f[n - 1]]
           c == CHOOSE f : H(f)
<1>1. \A n \in 0 .. Len(samples) : n # 0 => (P[n] <=> samples[n].kind = kind)
  <2>1. \A n \in 0 .. Len(samples) : n # 0 => n \in 1 .. Len(samples)
    OBVIOUS
  <2>2. \A n \in 1 .. Len(samples) : P[n] <=> samples[n].kind = kind
    BY Zenon
  <2> HIDE DEF P
  <2> QED
    BY <2>1, <2>2
<1>2. ASSUME NEW f PROVE H(f) <=> Keeps(f, samples, P)
  <2> HIDE DEF P
  <2> QED
    BY <1>1 DEF Keeps
<1>3. Series(samples, kind) = c[Len(samples)]
  BY DEF Series, Filtered
<1> HIDE DEF P, H
<1>4. \E f : H(f)
  BY <1>2, KeepsExists
<1>5. H(c)
  BY <1>4
<1> HIDE DEF c
<1>6. Keeps(c, samples, P)
  BY <1>2, <1>5
<1>7. Picks(c[Len(samples)], samples, P, Len(samples))
  BY <1>6, KeepsPicks
<1> QED
  BY <1>3, <1>7 DEF P

-----------------------------------------------------------------------------
(* Sums over finite sets                                                   *)

Some(S) == CHOOSE k \in S : TRUE

Sums(f, D, w) ==
  f = [S \in SUBSET D |-> IF S = {} THEN 0 ELSE w[Some(S)] + f[S \ {Some(S)}]]

LEMMA SomeLeft ==
  ASSUME NEW S, IsFiniteSet(S), S # {}
  PROVE  /\ Some(S) \in S /\ IsFiniteSet(S \ {Some(S)})
         /\ Cardinality(S \ {Some(S)}) = Cardinality(S) - 1
<1>1. Some(S) \in S
  BY DEF Some
<1> QED
  BY <1>1, FS_RemoveElement

LEMMA SumsExist == ASSUME NEW D, IsFiniteSet(D), NEW w PROVE \E f : Sums(f, D, w)
<1> DEFINE Upto(n) == {S \in SUBSET D : Cardinality(S) <= n}
           Sum(f, n) == f = [S \in Upto(n) |-> IF S = {} THEN 0 ELSE w[Some(S)] + f[S \ {Some(S)}]]
           N == {n \in Nat : \E f : Sum(f, n)}
<1>1. \A S \in SUBSET D : IsFiniteSet(S) /\ Cardinality(S) \in Nat /\ Cardinality(S) <= Cardinality(D)
  BY FS_Subset, FS_CardinalityType
<1>2. \A S \in SUBSET D : Cardinality(S) <= 0 => S = {}
  BY <1>1, FS_EmptySet
<1>3. \A S \in SUBSET D : S # {} => /\ S \ {Some(S)} \in SUBSET D
                                    /\ Cardinality(S \ {Some(S)}) = Cardinality(S) - 1
  BY <1>1, SomeLeft
<1>4. 0 \in N
  <2> DEFINE f == [S \in Upto(0) |-> 0]
  <2>1. f = [S \in Upto(0) |-> IF S = {} THEN 0 ELSE w[Some(S)] + f[S \ {Some(S)}]]
    BY <1>2
  <2> HIDE DEF f
  <2> QED
    BY <2>1
<1>5. ASSUME NEW n \in Nat, n \in N PROVE n + 1 \in N
  <2>1. PICK f : Sum(f, n)
    BY <1>5
  <2> DEFINE g == [S \in Upto(n + 1) |-> IF S = {} THEN 0 ELSE w[Some(S)] + f[S \ {Some(S)}]]
  <2>2. ASSUME NEW S \in Upto(n) PROVE S \in Upto(n + 1) /\ g[S] = f[S]
    <3>1. S \in SUBSET D /\ Cardinality(S) \in Nat /\ Cardinality(S) <= n + 1
      BY <1>1
    <3>2. f[S] = IF S = {} THEN 0 ELSE w[Some(S)] + f[S \ {Some(S)}]
      BY <2>1
    <3> QED
      BY <3>1, <3>2
  <2>3. ASSUME NEW S \in Upto(n + 1), S # {} PROVE S \ {Some(S)} \in Upto(n)
    BY <1>1, <1>3, <2>3
  <2> HIDE DEF Upto
  <2>4. g = [S \in Upto(n + 1) |-> IF S = {} THEN 0 ELSE w[Some(S)] + g[S \ {Some(S)}]]
    BY <2>2, <2>3
  <2> HIDE DEF g
  <2>5. Sum(g, n + 1)
    BY <2>4
  <2> HIDE DEF Sum
  <2> QED
    BY <2>5
<1> HIDE DEF N
<1>6. \A n \in Nat : n \in N
  BY <1>4, <1>5, AllNats
<1>7. Cardinality(D) \in N
  BY <1>1, <1>6
<1>8. PICK f : Sum(f, Cardinality(D))
  BY <1>7 DEF N
<1>9. Upto(Cardinality(D)) = SUBSET D
  BY <1>1
<1> QED
  BY <1>8, <1>9 DEF Sums

\* Of a set with the same numbers in both, the sums are the same.
LEMMA SumsAgree ==
  ASSUME NEW D, NEW v, NEW f, Sums(f, D, v), NEW E, NEW w, NEW g, Sums(g, E, w),
         NEW T, IsFiniteSet(T), T \subseteq D, T \subseteq E, \A k \in T : v[k] = w[k]
  PROVE  f[T] = g[T]
<1> DEFINE N == {n \in Nat : \A S \in SUBSET T : Cardinality(S) = n => f[S] = g[S]}
<1>1. \A S \in SUBSET T : /\ IsFiniteSet(S) /\ Cardinality(S) \in Nat
                          /\ S \in SUBSET D /\ S \in SUBSET E
  BY FS_Subset, FS_CardinalityType
<1>2. \A S \in SUBSET T : /\ f[S] = IF S = {} THEN 0 ELSE v[Some(S)] + f[S \ {Some(S)}]
                          /\ g[S] = IF S = {} THEN 0 ELSE w[Some(S)] + g[S \ {Some(S)}]
  BY <1>1 DEF Sums
<1>3. 0 \in N
  <2>1. ASSUME NEW S \in SUBSET T, Cardinality(S) = 0 PROVE f[S] = g[S]
    <3>1. S = {}
      BY <1>1, <2>1, FS_EmptySet
    <3> QED
      BY <1>2, <3>1
  <2> QED
    BY <2>1
<1>4. ASSUME NEW n \in Nat, n \in N PROVE n + 1 \in N
  <2>1. ASSUME NEW S \in SUBSET T, Cardinality(S) = n + 1 PROVE f[S] = g[S]
    <3>1. S # {}
      BY <1>1, <2>1, FS_EmptySet
    <3>2. /\ Some(S) \in S /\ S \ {Some(S)} \in SUBSET T
          /\ Cardinality(S \ {Some(S)}) = Cardinality(S) - 1
      BY <1>1, <3>1, SomeLeft
    <3>3. f[S \ {Some(S)}] = g[S \ {Some(S)}]
      <4>1. Cardinality(S \ {Some(S)}) = n
        BY <2>1, <3>2
      <4> QED
        BY <1>4, <3>2, <4>1
    <3>4. v[Some(S)] = w[Some(S)]
      BY <3>2
    <3> QED
      BY <1>2, <3>1, <3>3, <3>4
  <2> QED
    BY <2>1
<1> HIDE DEF N
<1>5. Cardinality(T) \in N
  BY <1>1, <1>3, <1>4, AllNats
<1> QED
  BY <1>5 DEF N

\* Any element may be taken off.
LEMMA SumsOff ==
  ASSUME NEW D, NEW w, NEW f, Sums(f, D, w), IsFiniteSet(D), \A k \in D : w[k] \in Nat
  PROVE  \A S \in SUBSET D : f[S] \in Nat /\ \A k \in S : f[S] = w[k] + f[S \ {k}]
<1> DEFINE Off(S) == f[S] \in Nat /\ \A k \in S : f[S] = w[k] + f[S \ {k}]
           N == {n \in Nat : \A S \in SUBSET D : Cardinality(S) <= n => Off(S)}
<1>1. \A S \in SUBSET D : IsFiniteSet(S) /\ Cardinality(S) \in Nat
  BY FS_Subset, FS_CardinalityType
<1>2. \A S \in SUBSET D : f[S] = IF S = {} THEN 0 ELSE w[Some(S)] + f[S \ {Some(S)}]
  BY DEF Sums
<1>3. 0 \in N
  <2>1. ASSUME NEW S \in SUBSET D, Cardinality(S) <= 0 PROVE Off(S)
    <3>1. S = {}
      <4>1. Cardinality(S) = 0
        BY <1>1, <2>1
      <4> QED
        BY <1>1, <4>1, FS_EmptySet
    <3>2. f[S] = 0
      BY <1>2, <3>1
    <3> QED
      BY <3>1, <3>2
  <2> QED
    BY <2>1
<1>4. ASSUME NEW n \in Nat, n \in N PROVE n + 1 \in N
  <2>1. ASSUME NEW S \in SUBSET D, S # {}, Cardinality(S) <= n + 1 PROVE Off(S)
    <3> DEFINE j == Some(S)
    <3>1. S # {}
      BY <2>1
    <3>2. j \in S
      BY <1>1, <3>1, SomeLeft
    <3>3. ASSUME NEW k \in S PROVE /\ S \ {k} \in SUBSET D /\ Cardinality(S \ {k}) <= n
                                   /\ Off(S \ {k})
      <4>1. S \ {k} \in SUBSET D /\ Cardinality(S \ {k}) = Cardinality(S) - 1
        BY <1>1, FS_RemoveElement
      <4>2. Cardinality(S \ {k}) <= n
        BY <1>1, <2>1, <4>1
      <4> QED
        BY <1>4, <4>1, <4>2
    <3>4. f[S] = w[j] + f[S \ {j}]
      BY <1>2, <3>1
    <3> HIDE DEF j
    <3>5. w[j] \in Nat /\ f[S \ {j}] \in Nat
      BY <3>2, <3>3
    <3>6. f[S] \in Nat
      BY <3>4, <3>5
    <3>7. ASSUME NEW k \in S PROVE f[S] = w[k] + f[S \ {k}]
      <4>1. CASE k = j
        BY <3>4, <4>1
      <4>2. CASE k # j
        <5>1. k \in S \ {j} /\ j \in S \ {k} /\ (S \ {j}) \ {k} = (S \ {k}) \ {j}
          BY <3>2, <4>2
        <5>2. f[S \ {j}] = w[k] + f[(S \ {j}) \ {k}]
          BY <3>2, <3>3, <5>1
        <5>3. f[S \ {k}] = w[j] + f[(S \ {k}) \ {j}]
          BY <3>3, <5>1
        <5>4. w[k] \in Nat /\ w[j] \in Nat /\ f[(S \ {k}) \ {j}] \in Nat
          <6>1. (S \ {k}) \ {j} \in SUBSET D /\ Cardinality((S \ {k}) \ {j}) <= n
            <7>1. /\ S \ {k} \in SUBSET D /\ Cardinality(S \ {k}) <= n /\ IsFiniteSet(S \ {k})
                  /\ Cardinality(S \ {k}) \in Nat
              BY <1>1, <3>3
            <7>2. Cardinality((S \ {k}) \ {j}) = Cardinality(S \ {k}) - 1
              BY <5>1, <7>1, FS_RemoveElement
            <7> QED
              BY <7>1, <7>2
          <6>2. Off((S \ {k}) \ {j})
            BY <1>4, <6>1
          <6> QED
            <7>1. w[k] \in Nat
              OBVIOUS
            <7> QED
              BY <3>5, <6>2, <7>1
        <5>5. f[S \ {j}] = w[k] + f[(S \ {k}) \ {j}]
          BY <5>1, <5>2
        <5> DEFINE a == f[(S \ {k}) \ {j}]
        <5>6. /\ f[S] = w[j] + f[S \ {j}] /\ f[S \ {j}] = w[k] + a /\ f[S \ {k}] = w[j] + a
              /\ w[k] \in Nat /\ w[j] \in Nat /\ a \in Nat
          BY <3>4, <5>3, <5>4, <5>5
        <5> HIDE DEF a
        <5> QED
          BY <5>6
      <4> QED
        BY <4>1, <4>2
    <3> QED
      BY <3>6, <3>7
  <2>2. Off({})
    <3>1. {} \in SUBSET D
      OBVIOUS
    <3>2. f[{}] = 0
      BY <1>2, <3>1
    <3> QED
      BY <3>2
  <2> HIDE DEF Off
  <2>3. \A S \in SUBSET D : Cardinality(S) <= n + 1 => Off(S)
    BY <2>1, <2>2
  <2> QED
    BY <2>3
<1> HIDE DEF N
<1>5. \A S \in SUBSET D : Cardinality(S) \in N
  BY <1>1, <1>3, <1>4, AllNats
<1> QED
  BY <1>5 DEF N

\* Elements that add nothing may be left out.
LEMMA ZerosOff ==
  ASSUME NEW D, NEW w, NEW f, Sums(f, D, w), IsFiniteSet(D), \A k \in D : w[k] \in Nat,
         NEW T \in SUBSET D, \A k \in D \ T : w[k] = 0
  PROVE  f[D] = f[T]
<1> DEFINE Z == D \ T
           N == {n \in Nat : \A S \in SUBSET Z : Cardinality(S) = n => f[S \cup T] = f[T]}
<1>1. \A S \in SUBSET Z : /\ IsFiniteSet(S) /\ Cardinality(S) \in Nat
                          /\ S \cup T \in SUBSET D
  <2>1. \A S \in SUBSET Z : S \in SUBSET D /\ S \cup T \in SUBSET D
    OBVIOUS
  <2> QED
    BY <2>1, FS_Subset, FS_CardinalityType
<1>2. 0 \in N
  <2>1. ASSUME NEW S \in SUBSET Z, Cardinality(S) = 0 PROVE f[S \cup T] = f[T]
    <3>1. S = {}
      BY <1>1, <2>1, FS_EmptySet
    <3>2. S \cup T = T
      BY <3>1
    <3> QED
      BY <3>2
  <2> QED
    BY <2>1
<1>3. ASSUME NEW n \in Nat, n \in N PROVE n + 1 \in N
  <2>1. ASSUME NEW S \in SUBSET Z, Cardinality(S) = n + 1 PROVE f[S \cup T] = f[T]
    <3>1. S # {}
      BY <1>1, <2>1, FS_EmptySet
    <3>2. PICK k : k \in S
      BY <3>1
    <3>3. (S \cup T) \ {k} = (S \ {k}) \cup T /\ k \in S \cup T /\ k \in D \ T
      BY <3>2
    <3>4. S \ {k} \in SUBSET Z /\ Cardinality(S \ {k}) = Cardinality(S) - 1
      BY <1>1, <3>2, FS_RemoveElement
    <3>5. Cardinality(S \ {k}) = n
      BY <2>1, <3>4
    <3>6. f[(S \ {k}) \cup T] = f[T]
      BY <1>3, <3>4, <3>5
    <3>7. f[S \cup T] = w[k] + f[(S \cup T) \ {k}] /\ w[k] = 0
      BY <1>1, <3>3, SumsOff
    <3>8. f[T] \in Nat
      BY SumsOff
    <3> DEFINE a == f[T]
    <3> HIDE DEF a
    <3>9. f[S \cup T] = 0 + a /\ a \in Nat
      BY <3>3, <3>6, <3>7, <3>8 DEF a
    <3>10. f[S \cup T] = a
      BY <3>9
    <3> QED
      BY <3>10 DEF a
  <2> QED
    BY <2>1
<1> HIDE DEF N
<1>4. Cardinality(Z) \in N
  BY <1>1, <1>2, <1>3, AllNats
<1>5. Z \cup T = D
  OBVIOUS
<1> HIDE DEF Z
<1> QED
  BY <1>4, <1>5 DEF N

\* The tokens that the follow thread has counted.
LEMMA TokensCounted ==
  ASSUME NEW ev, NEW recorded, NEW totals, IsFiniteSet(DOMAIN totals), \A i \in DOMAIN totals : totals[i] \in Nat
  PROVE  \E f : Sums(f, DOMAIN totals, totals) /\ Counted(ev, recorded, totals).tokens = f[DOMAIN totals]
<1> DEFINE D == DOMAIN totals
           H(f) == f = [S \in SUBSET D |->
                          IF S = {} THEN 0 ELSE totals[CHOOSE i \in S : TRUE] + f[S \ {CHOOSE i \in S : TRUE}]]
           c == CHOOSE f : H(f)
<1>1. Counted(ev, recorded, totals).tokens = c[D]
  BY DEF Counted
<1>2. \A f : H(f) <=> Sums(f, D, totals)
  BY DEF Sums, Some
<1> HIDE DEF H, D
<1>3. \E f : Sums(f, D, totals)
  BY SumsExist DEF D
<1>4. \E f : H(f)
  BY <1>2, <1>3
<1>5. H(c)
  BY <1>4
<1> HIDE DEF c
<1>6. Sums(c, D, totals)
  BY <1>2, <1>5
<1> QED
  BY <1>1, <1>6 DEF D

LEMMA CountedTokensNat ==
  ASSUME NEW ev, NEW recorded, NEW totals, IsFiniteSet(DOMAIN totals), \A i \in DOMAIN totals : totals[i] \in Nat
  PROVE  Counted(ev, recorded, totals).tokens \in Nat
<1>1. PICK f : Sums(f, DOMAIN totals, totals) /\ Counted(ev, recorded, totals).tokens = f[DOMAIN totals]
  BY TokensCounted
<1>2. DOMAIN totals \in SUBSET DOMAIN totals
  OBVIOUS
<1> QED
  BY <1>1, <1>2, SumsOff

LEMMA FoldedCounted ==
  ASSUME IsFiniteSet(DOMAIN folded), \A i \in DOMAIN folded : folded[i] \in Nat, NEW ev, NEW recorded
  PROVE  \E f : Sums(f, DOMAIN folded, folded) /\ Counted(ev, recorded, folded).tokens = f[DOMAIN folded]
BY TokensCounted

\* When the totals are complete, they are the tokens of the run.
LEMMA TokensAreTold ==
  ASSUME Flowing, DOMAIN folded = {i \in Shard : items[i].sent > 0},
         \A i \in DOMAIN folded : folded[i] = items[i].sent, NEW ev, NEW recorded
  PROVE  Counted(ev, recorded, folded).tokens = Tokens
<1> DEFINE w == [i \in Shard |-> items[i].sent]
           T == DOMAIN folded
           H(f) == f = [S \in SUBSET Shard |->
                          IF S = {} THEN 0
                          ELSE items[CHOOSE i \in S : TRUE].sent + f[S \ {CHOOSE i \in S : TRUE}]]
           c == CHOOSE f : H(f)
<1>1. Tokens = c[Shard]
  BY DEF Tokens
<1>2. \A i \in Shard : items[i].sent \in Nat /\ w[i] = items[i].sent
  BY DEF Flowing, ItemsShaped, ItemShape
<1>3. ASSUME NEW f PROVE H(f) <=> Sums(f, Shard, w)
  <2>1. \A S \in SUBSET Shard : S # {} => w[Some(S)] = items[Some(S)].sent
    BY <1>2 DEF Some
  <2> HIDE DEF w
  <2> QED
    BY <2>1 DEF Sums, Some
<1> HIDE DEF H
<1>4. \E f : Sums(f, Shard, w)
  BY SumsExist, ShardAssumption
<1>5. \E f : H(f)
  BY <1>3, <1>4
<1>6. H(c)
  BY <1>5
<1> HIDE DEF c, w
<1>7. Sums(c, Shard, w)
  BY <1>3, <1>6
<1>8. T \in SUBSET Shard /\ \A i \in Shard \ T : w[i] = 0
  BY <1>2
<1>9. c[Shard] = c[T]
  BY <1>2, <1>7, <1>8, ShardAssumption, ZerosOff
<1>10. IsFiniteSet(T) /\ \A i \in T : folded[i] \in Nat /\ folded[i] = w[i]
  BY <1>2, <1>8, ShardAssumption, FS_Subset
<1>11. PICK f : Sums(f, T, folded) /\ Counted(ev, recorded, folded).tokens = f[T]
  <2>1. IsFiniteSet(DOMAIN folded) /\ \A i \in DOMAIN folded : folded[i] \in Nat
    BY <1>10
  <2> QED
    BY <2>1, FoldedCounted
<1>12. f[T] = c[T]
  <2>1. T \subseteq T /\ T \subseteq Shard
    BY <1>8
  <2> QED
    BY <1>7, <1>10, <1>11, <2>1, SumsAgree
<1> QED
  BY <1>1, <1>9, <1>11, <1>12

-----------------------------------------------------------------------------
(* What the budgets are measured from                                      *)

Points == [kind : Kinds, t : Nat, spent : Nat, reserved : Nat]
Tallies == [actor_calls : Nat, tokens : Nat, in_flight : Nat]

\* What the host has counted of a kind, at the time of the sample.
Now(kind, counted, w) ==
  Sample(kind, w, IF kind = "wall_seconds" THEN w ELSE counted[kind],
         IF kind = "actor_calls" THEN counted.in_flight ELSE 0)

LEMMA PlanShape ==
  ASSUME NEW pl \in Plans
  PROVE  /\ pl.caps \in Seq(Caps) /\ pl.warn \in Nat /\ pl.fail \in BOOLEAN
         /\ pl.eta.on \in BOOLEAN /\ pl.eta.minWall \in Nat /\ pl.eta.interval \in Nat
         /\ Len(pl.caps) \in Nat /\ DOMAIN pl.caps = 1 .. Len(pl.caps)
         /\ \A i \in DOMAIN pl.caps :
              /\ pl.caps[i] \in Caps /\ pl.caps[i].kind \in Kinds
              /\ pl.caps[i].max \in Nat /\ pl.caps[i].hard \in BOOLEAN /\ pl.caps[i].warn \in Nat
<1>1. pl.caps \in Seq(Caps)
  BY DEF Plans
<1>2. /\ Len(pl.caps) \in Nat /\ DOMAIN pl.caps = 1 .. Len(pl.caps)
      /\ \A i \in DOMAIN pl.caps : pl.caps[i] \in Caps
  BY <1>1, LenProperties
<1>3. /\ pl.warn \in Nat /\ pl.fail \in BOOLEAN
      /\ pl.eta.on \in BOOLEAN /\ pl.eta.minWall \in Nat /\ pl.eta.interval \in Nat
  BY DEF Plans
<1> QED
  BY <1>1, <1>2, <1>3 DEF Caps

LEMMA NowIsPoint ==
  ASSUME NEW k \in Kinds, NEW counted \in Tallies, NEW w \in Nat
  PROVE  Now(k, counted, w) \in Points
<1>1. CASE k = "wall_seconds"
  BY <1>1 DEF Now, Sample, Points
<1>2. CASE k = "tokens"
  BY <1>2 DEF Now, Sample, Points, Tallies
<1>3. CASE k = "actor_calls"
  BY <1>3 DEF Now, Sample, Points, Tallies
<1> QED
  BY <1>1, <1>2, <1>3 DEF Kinds

LEMMA NowKind == ASSUME NEW k, NEW counted, NEW w PROVE Now(k, counted, w).kind = k
BY DEF Now, Sample

\* The samples are what was sampled before, then one sample of each cap.
LEMMA SamplesShape ==
  ASSUME NEW pl \in Plans, NEW counted \in Tallies, NEW w \in Nat, NEW past \in Seq(Points)
  PROVE  \E n \in Nat :
           LET s == Samples(pl, counted, w, past)
           IN /\ s \in Seq(Points) /\ Len(s) = n + Len(pl.caps)
              /\ \A i \in 1 .. Len(pl.caps) : s[n + i] = Now(pl.caps[i].kind, counted, w)
<1> DEFINE L == Len(pl.caps)
           zeros == [i \in DOMAIN pl.caps |-> Sample(pl.caps[i].kind, 0, 0, 0)]
           now == [i \in DOMAIN pl.caps |->
                     LET k == pl.caps[i].kind
                     IN Sample(k, w, IF k = "wall_seconds" THEN w ELSE counted[k],
                               IF k = "actor_calls" THEN counted.in_flight ELSE 0)]
           before == IF past = <<>> /\ w > 0 THEN zeros ELSE past
           s == Samples(pl, counted, w, past)
<1>1. L \in Nat /\ DOMAIN pl.caps = 1 .. L /\ \A i \in 1 .. L : pl.caps[i].kind \in Kinds
  BY PlanShape
<1>2. s = before \o now
  BY DEF Samples
<1>3. ASSUME NEW i \in 1 .. L PROVE now[i] = Now(pl.caps[i].kind, counted, w) /\ now[i] \in Points
  <2>1. now[i] = Now(pl.caps[i].kind, counted, w)
    BY <1>1 DEF Now
  <2> QED
    BY <1>1, <2>1, NowIsPoint
<1>4. now \in Seq(Points) /\ Len(now) = L
  <2>1. DOMAIN now = 1 .. L /\ now = [i \in 1 .. L |-> now[i]]
    BY <1>1
  <2> HIDE DEF now
  <2>2. now \in [1 .. L -> Points]
    BY <1>3, <2>1
  <2> QED
    BY <1>1, <2>1, <2>2, SeqDef
<1>5. zeros \in Seq(Points)
  <2>1. DOMAIN zeros = 1 .. L /\ \A i \in 1 .. L : zeros[i] \in Points
    BY <1>1 DEF Sample, Points
  <2>2. zeros = [i \in 1 .. L |-> zeros[i]]
    BY <1>1
  <2> HIDE DEF zeros
  <2>3. zeros \in [1 .. L -> Points]
    BY <2>1, <2>2
  <2> QED
    BY <1>1, <2>3, SeqDef
<1> HIDE DEF now, zeros
<1>6. before \in Seq(Points)
  BY <1>5
<1> HIDE DEF before, s
<1>7. /\ s \in Seq(Points) /\ Len(s) = Len(before) + L /\ Len(before) \in Nat
      /\ \A i \in 1 .. L : s[Len(before) + i] = now[i]
  <2>1. Len(before) \in Nat
    BY <1>6, LenProperties
  <2>2. s \in Seq(Points) /\ Len(s) = Len(before) + L
    <3>1. before \o now \in Seq(Points) /\ Len(before \o now) = Len(before) + Len(now)
      BY <1>4, <1>6, ConcatProperties
    <3> QED
      BY <1>2, <1>4, <3>1
  <2>3. ASSUME NEW i \in 1 .. L PROVE s[Len(before) + i] = now[i]
    <3>1. Len(before) + i \in 1 .. Len(before) + L /\ ~(Len(before) + i <= Len(before))
          /\ (Len(before) + i) - Len(before) = i
      BY <1>1, <2>1
    <3> QED
      BY <1>2, <1>4, <1>6, <3>1, ConcatProperties
  <2> QED
    BY <2>1, <2>2, <2>3
<1> QED
  BY <1>3, <1>7 DEF s, L

\* The last sample of a kind that has a cap is what is counted now.
LEMMA LatestSample ==
  ASSUME NEW pl \in Plans, NEW counted \in Tallies, NEW w \in Nat, NEW past \in Seq(Points),
         NEW c \in 1 .. Len(pl.caps), NEW kind, kind = pl.caps[c].kind
  PROVE  LET s == Series(Samples(pl, counted, w, past), kind)
         IN s # <<>> /\ Final(s) = Now(kind, counted, w)
<1> DEFINE s == Samples(pl, counted, w, past)
           r == Series(s, kind)
           L == Len(pl.caps)
<1>1. PICK n \in Nat : /\ s \in Seq(Points) /\ Len(s) = n + L
                       /\ \A i \in 1 .. L : s[n + i] = Now(pl.caps[i].kind, counted, w)
  BY SamplesShape
<1> DEFINE P == [k \in 1 .. Len(s) |-> s[k].kind = kind]
<1>2. L \in Nat /\ \A i \in 1 .. L : pl.caps[i].kind \in Kinds
  BY PlanShape
<1> HIDE DEF s, L
<1>3. Len(s) \in Nat
  BY <1>1, <1>2
<1>4. Picks(r, s, P, Len(s))
  BY <1>3, SeriesPicks
<1>5. \A k \in 1 .. Len(s) : P[k] <=> s[k].kind = kind
  BY Zenon
<1> HIDE DEF P, r
<1>6. \A i \in 1 .. L : s[n + i].kind = pl.caps[i].kind
  BY <1>1, NowKind
<1>7. n + c \in 1 .. Len(s) /\ P[n + c]
  <2>1. n + c \in 1 .. Len(s) /\ c \in 1 .. L
    BY <1>1, <1>2 DEF L
  <2>2. s[n + c].kind = kind
    BY <1>6, <2>1
  <2> QED
    BY <1>5, <2>1, <2>2
<1>8. r # <<>>
  <2>1. PICK i \in 1 .. Len(r) : r[i] = s[n + c]
    BY <1>4, <1>7 DEF Picks
  <2>2. r = <<>> => Len(r) = 0
    BY EmptySeq
  <2> QED
    BY <2>1, <2>2
<1>9. PICK m \in 1 .. Len(s) : P[m] /\ r[Len(r)] = s[m] /\ \A k \in 1 .. Len(s) : P[k] => k <= m
  BY <1>4, <1>8 DEF Picks
<1>10. m >= n + c /\ m - n \in 1 .. L /\ n + (m - n) = m
  <2>1. n + c <= m
    BY <1>7, <1>9
  <2>2. c \in 1 .. L
    BY DEF L
  <2> QED
    BY <1>1, <1>2, <1>3, <1>9, <2>1, <2>2
<1>11. s[m].kind = kind
  BY <1>5, <1>9
<1>12. s[m] = Now(pl.caps[m - n].kind, counted, w) /\ s[m].kind = pl.caps[m - n].kind
  BY <1>1, <1>6, <1>10
<1> QED
  BY <1>8, <1>9, <1>11, <1>12 DEF Final, r, s

\* A cap and what it has come to.
Current(pl, cap, counted, w) ==
  LET now == Now(cap.kind, counted, w)
  IN [kind |-> cap.kind, hard |-> cap.hard, max |-> cap.max, spent |-> now.spent, reserved |-> now.reserved,
      state |-> State(pl, cap, now.spent + now.reserved)]

\* What a cap has come to is what is counted of its kind now.
LEMMA MeterNow ==
  ASSUME NEW pl \in Plans, NEW counted \in Tallies, NEW w \in Nat, NEW past \in Seq(Points),
         NEW c \in 1 .. Len(pl.caps), NEW m, m = Meter(pl, pl.caps[c], Samples(pl, counted, w, past), w)
  PROVE  m = Current(pl, pl.caps[c], counted, w)
<1> DEFINE cap == pl.caps[c]
           now == Now(cap.kind, counted, w)
           r == Series(Samples(pl, counted, w, past), cap.kind)
           last == IF r = <<>> THEN [spent |-> 0, reserved |-> 0] ELSE Final(r)
           spent == IF cap.kind = "wall_seconds" THEN Larger(w, last.spent) ELSE last.spent
<1>1. r # <<>> /\ Final(r) = now
  BY LatestSample
<1>2. m = [kind |-> cap.kind, hard |-> cap.hard, max |-> cap.max, spent |-> spent, reserved |-> last.reserved,
           state |-> State(pl, cap, spent + last.reserved)]
  BY DEF Meter, Committed
<1> HIDE DEF r
<1>3. last = now
  BY <1>1
<1> HIDE DEF last
<1>4. cap.kind = "wall_seconds" => now.spent = w
  BY DEF Now, Sample
<1> HIDE DEF now
<1>5. spent = now.spent
  BY <1>3, <1>4 DEF Larger
<1> HIDE DEF spent, cap
<1> QED
  BY <1>2, <1>3, <1>5 DEF now, cap, Current

Positive(pl) == [n \in 1 .. Len(pl.caps) |-> pl.caps[n].max > 0]
OfCaps(caps, pl, samples, w, meters) ==
  /\ Picks(caps, pl.caps, Positive(pl), Len(pl.caps))
  /\ meters = [i \in DOMAIN caps |-> Meter(pl, caps[i], samples, w)]

\* The caps with a positive maximum, in their order.
LEMMA MetersPick ==
  ASSUME NEW pl \in Plans, NEW samples, NEW w
  PROVE  \E caps : OfCaps(caps, pl, samples, w, Meters(pl, samples, w))
<1> DEFINE L == Len(pl.caps)
           P == [n \in 1 .. L |-> pl.caps[n].max > 0]
           H(f) == f = [n \in 0 .. L |->
                          IF n = 0 THEN <<>>
                          ELSE IF pl.caps[n].max > 0 THEN Append(f[n - 1], pl.caps[n]) ELSE f[n - 1]]
           c == CHOOSE f : H(f)
           caps == c[L]
<1>1. \A n \in 0 .. L : n # 0 => (P[n] <=> pl.caps[n].max > 0)
  <2>1. L \in Nat /\ \A n \in 0 .. L : n # 0 => n \in 1 .. L
    BY PlanShape
  <2>2. \A n \in 1 .. L : P[n] <=> pl.caps[n].max > 0
    BY Zenon
  <2> HIDE DEF P
  <2> QED
    BY <2>1, <2>2
<1>2. ASSUME NEW f PROVE H(f) <=> Keeps(f, pl.caps, P)
  <2> HIDE DEF P
  <2> QED
    BY <1>1 DEF Keeps
<1>3. Meters(pl, samples, w) = [i \in DOMAIN caps |-> Meter(pl, caps[i], samples, w)]
  BY DEF Meters, Filtered
<1> HIDE DEF P, H
<1>4. Len(pl.caps) \in Nat
  BY PlanShape
<1>5. \E f : H(f)
  BY <1>2, <1>4, KeepsExists
<1>6. H(c)
  BY <1>5
<1> HIDE DEF c
<1>7. Keeps(c, pl.caps, P)
  BY <1>2, <1>6
<1>8. Picks(c[Len(pl.caps)], pl.caps, P, Len(pl.caps))
  BY <1>4, <1>7, KeepsPicks
<1> HIDE DEF caps
<1>9. Picks(caps, pl.caps, P, Len(pl.caps))
  BY <1>8 DEF caps
<1>10. P = Positive(pl)
  BY DEF P, Positive
<1>11. OfCaps(caps, pl, samples, w, Meters(pl, samples, w))
  BY <1>3, <1>9, <1>10 DEF OfCaps
<1> QED
  BY <1>11

PickedFrom(e, s, P, n) == \E k \in 1 .. n : P[k] /\ e = s[k]

\* What is picked is a sequence of those elements.
LEMMA PicksShape ==
  ASSUME NEW r, NEW s, NEW P, NEW n \in Nat, Picks(r, s, P, n)
  PROVE  /\ Len(r) \in Nat /\ DOMAIN r = 1 .. Len(r)
         /\ \A i \in DOMAIN r : PickedFrom(r[i], s, P, n)
<1> DEFINE T == {s[k] : k \in {k \in 1 .. n : P[k]}}
<1>1. r \in Seq(T)
  BY DEF Picks
<1> HIDE DEF T
<1>2. Len(r) \in Nat /\ DOMAIN r = 1 .. Len(r) /\ \A i \in DOMAIN r : r[i] \in T
  BY <1>1, LenProperties
<1> QED
  BY <1>2 DEF T, PickedFrom

\* The panel has every cap with a positive maximum, and no other, with what it
\* has come to.
Shows(meters, pl, counted, w) ==
  /\ Len(meters) \in Nat /\ DOMAIN meters = 1 .. Len(meters) /\ meters = [i \in 1 .. Len(meters) |-> meters[i]]
  /\ \A i \in DOMAIN meters : \E c \in 1 .. Len(pl.caps) :
       pl.caps[c].max > 0 /\ meters[i] = Current(pl, pl.caps[c], counted, w)
  /\ \A c \in 1 .. Len(pl.caps) : pl.caps[c].max > 0 =>
       \E i \in DOMAIN meters : meters[i] = Current(pl, pl.caps[c], counted, w)

LEMMA MetersNow ==
  ASSUME NEW pl \in Plans, NEW counted \in Tallies, NEW w \in Nat, NEW past \in Seq(Points)
  PROVE  Shows(Meters(pl, Samples(pl, counted, w, past), w), pl, counted, w)
<1> DEFINE L == Len(pl.caps)
           P == Positive(pl)
           samples == Samples(pl, counted, w, past)
           ms == Meters(pl, samples, w)
<1>0. PICK caps : OfCaps(caps, pl, samples, w, ms)
  BY MetersPick
<1>1. Picks(caps, pl.caps, P, L) /\ ms = [i \in DOMAIN caps |-> Meter(pl, caps[i], samples, w)]
  BY <1>0 DEF OfCaps
<1>2. \A n \in 1 .. L : P[n] <=> pl.caps[n].max > 0
  BY Zenon DEF Positive
<1>3. L \in Nat
  BY PlanShape
<1>4. \A c \in 1 .. L : Meter(pl, pl.caps[c], samples, w) = Current(pl, pl.caps[c], counted, w)
  BY MeterNow
<1> HIDE DEF P, samples, ms
<1>5. /\ Len(caps) \in Nat /\ DOMAIN caps = 1 .. Len(caps)
      /\ \A i \in DOMAIN caps : PickedFrom(caps[i], pl.caps, P, L)
  BY <1>1, <1>3, PicksShape
<1>6. DOMAIN ms = 1 .. Len(caps) /\ \A i \in 1 .. Len(caps) : ms[i] = Meter(pl, caps[i], samples, w)
  BY <1>1, <1>5
<1>7. Len(ms) = Len(caps) /\ ms = [i \in 1 .. Len(caps) |-> ms[i]]
  <2>1. ms = [i \in 1 .. Len(caps) |-> ms[i]]
    BY <1>1, <1>5, <1>6
  <2> DEFINE R == {ms[i] : i \in 1 .. Len(caps)}
  <2>2. \A i \in 1 .. Len(caps) : ms[i] \in R
    OBVIOUS
  <2> HIDE DEF R
  <2>3. ms \in [1 .. Len(caps) -> R]
    BY <2>1, <2>2
  <2>4. ms \in Seq(R) /\ DOMAIN ms = 1 .. Len(ms) /\ Len(ms) \in Nat
    BY <1>5, <2>3, SeqDef, LenProperties
  <2>5. Len(ms) = Len(caps)
    BY <1>5, <1>6, <2>4
  <2> QED
    BY <2>1, <2>5
<1>8. ASSUME NEW i \in DOMAIN ms
      PROVE  \E c \in 1 .. L : pl.caps[c].max > 0 /\ ms[i] = Current(pl, pl.caps[c], counted, w)
  <2>1. PICK k \in 1 .. L : P[k] /\ caps[i] = pl.caps[k]
    BY <1>5, <1>6 DEF PickedFrom
  <2>2. ms[i] = Meter(pl, pl.caps[k], samples, w)
    BY <1>6, <2>1
  <2> QED
    BY <1>2, <1>4, <2>1, <2>2
<1>9. ASSUME NEW c \in 1 .. L, pl.caps[c].max > 0
      PROVE  \E i \in DOMAIN ms : ms[i] = Current(pl, pl.caps[c], counted, w)
  <2>1. P[c]
    BY <1>2, <1>9
  <2>2. PICK i \in 1 .. Len(caps) : caps[i] = pl.caps[c]
    BY <1>1, <2>1 DEF Picks
  <2>3. ms[i] = Meter(pl, pl.caps[c], samples, w) /\ i \in DOMAIN ms
    BY <1>6, <2>2
  <2> QED
    BY <1>4, <2>3
<1>10. Shows(ms, pl, counted, w)
  BY <1>5, <1>6, <1>7, <1>8, <1>9 DEF Shows
<1> QED
  BY <1>10 DEF ms, samples

\* Of a meter what is known of its numbers.
LEMMA CurrentTyped ==
  ASSUME NEW pl \in Plans, NEW counted \in Tallies, NEW w \in Nat, NEW c \in 1 .. Len(pl.caps),
         NEW m, m = Current(pl, pl.caps[c], counted, w)
  PROVE  /\ m.kind \in Kinds /\ m.spent \in Nat /\ m.reserved \in Nat /\ m.max \in Nat
         /\ m.kind = pl.caps[c].kind /\ m.max = pl.caps[c].max /\ m.hard = pl.caps[c].hard
         /\ m.spent = Now(m.kind, counted, w).spent /\ m.reserved = Now(m.kind, counted, w).reserved
         /\ m.state = "exhausted" <=> m.spent + m.reserved >= m.max
<1> DEFINE cap == pl.caps[c]
           now == Now(cap.kind, counted, w)
<1>1. cap.kind \in Kinds /\ cap.max \in Nat
  BY PlanShape
<1>2. now \in Points
  BY <1>1, NowIsPoint
<1>3. now.spent \in Nat /\ now.reserved \in Nat
  BY <1>2 DEF Points
<1>4. m.kind = cap.kind /\ m.hard = cap.hard /\ m.max = cap.max /\ m.spent = now.spent /\ m.reserved = now.reserved
      /\ m.state = State(pl, cap, now.spent + now.reserved)
  BY DEF Current
<1> HIDE DEF cap, now
<1>5. State(pl, cap, now.spent + now.reserved) = "exhausted" <=> now.spent + now.reserved >= cap.max
  BY DEF State, Exhausted
<1> QED
  BY <1>1, <1>3, <1>4, <1>5 DEF cap, now

-----------------------------------------------------------------------------
(* Types                                                                   *)

Typed ==
  /\ cmd \in Commands /\ plan \in Plans /\ wall \in Nat
  /\ \A i \in DOMAIN folded : folded[i] \in Nat
  /\ history \in Seq(Points)

LEMMA TypedInit == CliInit => Typed
<1> SUFFICES ASSUME CliInit PROVE Typed
  OBVIOUS
<1>1. cmd \in Commands /\ plan = cmd.plan /\ wall = 0 /\ folded = NoTotals /\ history = <<>>
  BY DEF CliInit
<1>2. plan \in Plans
  BY <1>1, CommandAssumption
<1> QED
  BY <1>1, <1>2 DEF Typed, NoTotals

\* What is counted of a run or of what was seen of it.
LEMMA CountedTyped ==
  ASSUME NEW ev, NEW load, Loaded(ev, load), NEW recorded \in Nat,
         NEW totals, IsFiniteSet(DOMAIN totals), \A i \in DOMAIN totals : totals[i] \in Nat
  PROVE  /\ Counted(ev, recorded, totals) \in Tallies
         /\ Counted(ev, recorded, totals).actor_calls = IF recorded > 0 THEN recorded ELSE ev.invoked
         /\ Counted(ev, recorded, totals).in_flight = InFlight(ev)
<1> DEFINE c == Counted(ev, recorded, totals)
           inFlight == IF ev.started > ev.settled THEN ev.started - ev.settled ELSE 0
           calls == IF recorded > 0 THEN recorded ELSE ev.invoked
<1>1. c.tokens \in Nat
  BY CountedTokensNat
<1>2. c = [actor_calls |-> calls, tokens |-> c.tokens, in_flight |-> inFlight]
  BY DEF Counted
<1>3. ev.started \in Nat /\ ev.settled \in 0 .. ev.started /\ ev.invoked \in Nat
  BY DEF Loaded
<1>4. inFlight = InFlight(ev) /\ inFlight \in Nat
  BY <1>3 DEF InFlight
<1>5. calls \in Nat
  BY <1>3
<1> HIDE DEF c, inFlight, calls
<1>6. c \in Tallies
  BY <1>1, <1>2, <1>4, <1>5 DEF Tallies
<1>7. c.actor_calls = calls /\ c.in_flight = inFlight
  BY <1>2
<1> QED
  BY <1>4, <1>6, <1>7 DEF c, calls

\* What a frame is drawn from.
FrameCount == Counted(seen.events, 0, folded)

LEMMA FoldedFinite == ASSUME Flowing PROVE IsFiniteSet(DOMAIN folded)
BY ShardAssumption, FS_Subset DEF Flowing

LEMMA FrameTyped ==
  ASSUME Typed, Flowing, Counts
  PROVE  /\ FrameCount \in Tallies
         /\ FrameCount.actor_calls = seen.events.invoked /\ FrameCount.in_flight = InFlight(seen.events)
         /\ FrameSamples = Samples(plan, FrameCount, wall, history)
<1>1. Loaded(seen.events, seen.load)
  BY DEF Counts
<1>2. IsFiniteSet(DOMAIN folded) /\ \A i \in DOMAIN folded : folded[i] \in Nat
  BY FoldedFinite DEF Typed
<1>3. ASSUME NEW ev, NEW load, NEW totals, ev = seen.events, load = seen.load, totals = folded
      PROVE  /\ Counted(ev, 0, totals) \in Tallies
             /\ Counted(ev, 0, totals).actor_calls = ev.invoked
             /\ Counted(ev, 0, totals).in_flight = InFlight(ev)
  <2>1. Loaded(ev, load) /\ IsFiniteSet(DOMAIN totals) /\ \A i \in DOMAIN totals : totals[i] \in Nat
    BY <1>1, <1>2, <1>3
  <2>2. 0 \in Nat /\ ~(0 > 0)
    OBVIOUS
  <2> QED
    BY <2>1, <2>2, CountedTyped
<1> QED
  BY <1>3 DEF FrameCount, FrameSamples

LEMMA FrameMeters ==
  ASSUME Typed, Flowing, Counts
  PROVE  Shows(Meters(plan, FrameSamples, wall), plan, FrameCount, wall)
<1>1. FrameCount \in Tallies /\ FrameSamples = Samples(plan, FrameCount, wall, history)
  BY FrameTyped
<1>2. plan \in Plans /\ wall \in Nat /\ history \in Seq(Points)
  BY DEF Typed
<1> QED
  BY <1>1, <1>2, MetersNow

\* The history stays one of samples when what the panel shows is appended.
LEMMA SampledTyped ==
  ASSUME NEW pl \in Plans, NEW past \in Seq(Points), NEW counted \in Tallies, NEW w \in Nat,
         NEW meters, Shows(meters, pl, counted, w)
  PROVE  Sampled(pl, past, meters, w) \in Seq(Points)
<1> DEFINE new == [i \in DOMAIN meters |-> Sample(meters[i].kind, w, meters[i].spent, meters[i].reserved)]
           more == past \o new
<1>1. Len(meters) \in Nat /\ DOMAIN meters = 1 .. Len(meters)
  BY DEF Shows
<1>2. ASSUME NEW i \in 1 .. Len(meters) PROVE new[i] \in Points
  <2>1. PICK c \in 1 .. Len(pl.caps) : meters[i] = Current(pl, pl.caps[c], counted, w)
    BY <1>1 DEF Shows
  <2>2. meters[i].kind \in Kinds /\ meters[i].spent \in Nat /\ meters[i].reserved \in Nat
    <3>1. ASSUME NEW m, m = Current(pl, pl.caps[c], counted, w)
          PROVE  m.kind \in Kinds /\ m.spent \in Nat /\ m.reserved \in Nat
      BY <3>1, CurrentTyped
    <3> QED
      BY <2>1, <3>1
  <2>3. new[i] = Sample(meters[i].kind, w, meters[i].spent, meters[i].reserved)
    BY <1>1
  <2> QED
    BY <2>2, <2>3 DEF Sample, Points
<1>3. DOMAIN new = 1 .. Len(meters) /\ new = [i \in 1 .. Len(meters) |-> new[i]]
  BY <1>1
<1> HIDE DEF new
<1>4. new \in Seq(Points)
  <2>1. new \in [1 .. Len(meters) -> Points]
    BY <1>2, <1>3
  <2> QED
    BY <1>1, <2>1, SeqDef
<1>5. more \in Seq(Points) /\ Len(more) \in Nat
  BY <1>4, ConcatProperties, LenProperties
<1>6. Sampled(pl, past, meters, w) =
        IF past # <<>> /\ w - Final(past).t < pl.eta.interval THEN past
        ELSE IF Len(more) > HistoryMax THEN SubSeq(more, Len(more) - HistoryKept + 1, Len(more)) ELSE more
  BY DEF Sampled, new
<1> HIDE DEF more
<1>7. CASE Len(more) > HistoryMax
  <2>1. Len(more) - HistoryKept + 1 \in 1 .. Len(more) + 1 /\ Len(more) \in Len(more) - HistoryKept .. Len(more)
    BY <1>5, <1>7, HistoryAssumption
  <2>2. SubSeq(more, Len(more) - HistoryKept + 1, Len(more)) \in Seq(Points)
    BY <1>5, <2>1, SubSeqProperties
  <2> QED
    BY <1>6, <1>7, <2>2
<1>8. CASE ~(Len(more) > HistoryMax)
  BY <1>5, <1>6, <1>8
<1> QED
  BY <1>7, <1>8

LEMMA TypedStep == Typed /\ Flowing /\ Counts /\ [CliNext]_vars => Typed'
<1> SUFFICES ASSUME Typed, Flowing, Counts, [CliNext]_vars PROVE Typed'
  OBVIOUS
<1>1. cmd' = cmd
  <2>1. CASE UNCHANGED vars \/ Exited \/ Tick
    BY <2>1 DEF Exited, vars, Tick, setting
  <2>2. CASE Main
    BY <2>2 DEF Main, Unprepared, Refuse, Read, MakeActor, BadOverlay, Launch, Checked, Returns, Stop, Join,
       Verdict, ShowFails, Show, WriteManifest, WriteUsage, WriteSpec, ExportTrace, Write, WriteFails, Report,
       Prepared, AfterRun, setting
  <2>3. CASE Follow
    BY <2>3 DEF Follow, Look, FoldOne, Draw, Poll, Polled, Drained, Aside, setting
  <2>4. CASE Workflow
    BY <2>4 DEF Workflow, Validating, Ends, ItemStarts, Publishes, Retries, CallReturns, CallFails, ItemSettles,
       RunRest, setting
  <2> QED
    BY <2>1, <2>2, <2>3, <2>4 DEF CliNext
<1>2. plan' \in Plans
  <2>1. plan \in Plans /\ cmd \in Commands
    BY DEF Typed
  <2>2. CASE Launch
    BY <2>1, <2>2, CommandAssumption DEF Launch
  <2>3. CASE UNCHANGED vars \/ Exited \/ Tick
    BY <2>1, <2>3 DEF Exited, vars, Tick, setting
  <2>4. CASE Main /\ ~Launch
    BY <2>1, <2>4 DEF Main, Unprepared, Refuse, Read, MakeActor, BadOverlay, Checked, Returns, Stop, Join,
       Verdict, ShowFails, Show, WriteManifest, WriteUsage, WriteSpec, ExportTrace, Write, WriteFails, Report,
       Prepared, AfterRun, setting
  <2>5. CASE Follow
    BY <2>1, <2>5 DEF Follow, Look, FoldOne, Draw, Poll, Polled, Drained, Aside, setting
  <2>6. CASE Workflow
    BY <2>1, <2>6 DEF Workflow, Validating, Ends, ItemStarts, Publishes, Retries, CallReturns, CallFails, ItemSettles,
       RunRest, setting
  <2> QED
    BY <2>2, <2>3, <2>4, <2>5, <2>6 DEF CliNext
<1>3. wall' \in Nat
  <2>1. CASE Tick
    BY <2>1 DEF Typed, Tick
  <2>2. wall' = wall \/ Tick
    <3>1. CASE UNCHANGED vars \/ Exited
      BY <3>1 DEF Exited, vars
    <3>2. CASE Main
      BY <3>2 DEF Main, Unprepared, Refuse, Read, MakeActor, BadOverlay, Launch, Checked, Returns, Stop, Join,
         Verdict, ShowFails, Show, WriteManifest, WriteUsage, WriteSpec, ExportTrace, Write, WriteFails, Report,
         Prepared, AfterRun
    <3>3. CASE Follow
      BY <3>3 DEF Follow, Look, FoldOne, Draw, Poll, Polled, Drained, Aside
    <3>4. CASE Workflow
      BY <3>4 DEF Workflow, Validating, Ends, ItemStarts, Publishes, Retries, CallReturns, CallFails, ItemSettles,
         RunRest
    <3> QED
      BY <3>1, <3>2, <3>3, <3>4 DEF CliNext
  <2> QED
    BY <2>1, <2>2 DEF Typed
<1>4. UNCHANGED <<folded, history>> \/ FoldOne \/ Draw
  <2>1. CASE UNCHANGED vars \/ Exited \/ Tick
    BY <2>1 DEF Exited, vars, Tick, follower, drawing
  <2>2. CASE Main
    BY <2>2 DEF Main, Unprepared, Refuse, Read, MakeActor, BadOverlay, Launch, Checked, Returns, Stop, Join,
       Verdict, ShowFails, Show, WriteManifest, WriteUsage, WriteSpec, ExportTrace, Write, WriteFails, Report,
       Prepared, AfterRun, follower, drawing
  <2>3. CASE Follow
    BY <2>3 DEF Follow, Look, Poll, Polled, Drained, drawing
  <2>4. CASE Workflow
    BY <2>4 DEF Workflow, Validating, Ends, ItemStarts, Publishes, Retries, CallReturns, CallFails, ItemSettles,
       RunRest, follower, drawing
  <2> QED
    BY <2>1, <2>2, <2>3, <2>4 DEF CliNext
<1>5. CASE UNCHANGED <<folded, history>>
  BY <1>1, <1>2, <1>3, <1>5 DEF Typed
<1>6. CASE FoldOne
  <2>1. history' = history /\ bus # <<>> /\ bus \in Seq(Totals)
        /\ folded' = [i \in DOMAIN folded \cup {Head(bus).path} |->
                        IF i = Head(bus).path THEN Head(bus).total ELSE folded[i]]
    BY <1>6 DEF FoldOne, drawing, Flowing
  <2>2. Head(bus) \in Totals
    BY <2>1, HeadTailProperties
  <2>3. Head(bus).total \in Nat
    BY <2>2 DEF Totals
  <2>4. \A i \in DOMAIN folded' : folded'[i] \in Nat
    BY <2>1, <2>3 DEF Typed
  <2> QED
    BY <1>1, <1>2, <1>3, <2>1, <2>4 DEF Typed
<1>7. CASE Draw
  <2>1. /\ folded' = folded
        /\ history' = IF plan.caps = <<>> THEN history
                      ELSE Sampled(plan, history, Meters(plan, FrameSamples, wall), wall)
    BY <1>7 DEF Draw
  <2>2. Shows(Meters(plan, FrameSamples, wall), plan, FrameCount, wall) /\ FrameCount \in Tallies
    BY FrameMeters, FrameTyped
  <2>3. plan \in Plans /\ history \in Seq(Points) /\ wall \in Nat
    BY DEF Typed
  <2>4. Sampled(plan, history, Meters(plan, FrameSamples, wall), wall) \in Seq(Points)
    BY <2>2, <2>3, SampledTyped
  <2>5. history' \in Seq(Points)
    BY <2>1, <2>3, <2>4
  <2> QED
    BY <1>1, <1>2, <1>3, <2>1, <2>5 DEF Typed
<1> QED
  BY <1>4, <1>5, <1>6, <1>7

-----------------------------------------------------------------------------
(* The verdict                                                             *)

FinalCount == Counted(events, events.recorded, folded)

\* At the end nothing is in flight, and every call and token is counted.
LEMMA FinalCountIsUsed ==
  ASSUME Typed, Flowing, Counts, main \in Passed, events.terminal # "none"
  PROVE  /\ FinalCount \in Tallies
         /\ \A k \in Kinds : Now(k, FinalCount, wall).spent = Used(k) /\ Now(k, FinalCount, wall).reserved = 0
         /\ \A k \in Kinds : Used(k) \in Nat
         /\ FinalCount.tokens = Tokens
<1>1. Loaded(events, Load)
  BY LoadIsCounted
<1>2. IsFiniteSet(DOMAIN folded) /\ \A i \in DOMAIN folded : folded[i] \in Nat
  BY FoldedFinite DEF Typed
<1>3. events.recorded \in Nat /\ events.recorded >= events.invoked /\ events.invoked \in Nat
  BY <1>1 DEF Counts, Loaded
<1>4. ASSUME NEW ev, NEW load, NEW rec, NEW totals, ev = events, load = Load, rec = events.recorded, totals = folded
      PROVE  /\ Counted(ev, rec, totals) \in Tallies
             /\ Counted(ev, rec, totals).actor_calls = IF rec > 0 THEN rec ELSE ev.invoked
             /\ Counted(ev, rec, totals).in_flight = InFlight(ev)
  <2>1. Loaded(ev, load) /\ IsFiniteSet(DOMAIN totals) /\ (\A i \in DOMAIN totals : totals[i] \in Nat) /\ rec \in Nat
    BY <1>1, <1>2, <1>3, <1>4
  <2> QED
    BY <2>1, CountedTyped
<1>5. /\ FinalCount \in Tallies
      /\ FinalCount.actor_calls = IF events.recorded > 0 THEN events.recorded ELSE events.invoked
      /\ FinalCount.in_flight = InFlight(events)
  BY <1>4 DEF FinalCount
<1>6. FinalCount.actor_calls = events.recorded
  BY <1>3, <1>5
<1>7. InFlight(events) = 0
  <2>1. At(Over) = Shard /\ At(Over) \subseteq At(Places \ {"waiting"}) /\ At(Places \ {"waiting"}) \subseteq Shard
    BY DEF Counts, At, Over, Places
  <2>2. At(Places \ {"waiting"}) = At(Over)
    BY <2>1
  <2>3. events.started = events.settled /\ events.started \in Nat
    BY <1>1, <2>2 DEF Counts, Loaded
  <2> QED
    BY <2>3 DEF InFlight
<1>8. FinalCount.tokens = Tokens
  BY FoldedIsSent, TokensAreTold DEF FinalCount
<1> DEFINE c == FinalCount
<1> HIDE DEF c
<1>9. c \in Tallies /\ c.actor_calls = events.recorded /\ c.in_flight = 0 /\ c.tokens = Tokens
  BY <1>5, <1>6, <1>7, <1>8 DEF c
<1>10. ASSUME NEW k \in Kinds
       PROVE  Now(k, c, wall).spent = Used(k) /\ Now(k, c, wall).reserved = 0
  BY <1>9 DEF Kinds, Now, Sample, Used
<1>11. \A k \in Kinds : Used(k) \in Nat
  <2>1. wall \in Nat /\ Tokens \in Nat
    BY <1>9 DEF Typed, Tallies
  <2> QED
    BY <1>3, <2>1 DEF Used
<1> QED
  BY <1>9, <1>10, <1>11 DEF c

\* The verdict finds a hard cap exhausted when one is reached, and only then.
LEMMA VerdictIsExact ==
  ASSUME Typed, Flowing, Counts, main \in Passed, events.terminal # "none"
  PROVE  plan.fail /\ HardExhausted(Meters(plan, Samples(plan, FinalCount, wall, <<>>), wall)) <=> OverCap
<1> DEFINE ms == Meters(plan, Samples(plan, FinalCount, wall, <<>>), wall)
<1>1. plan \in Plans /\ wall \in Nat /\ <<>> \in Seq(Points) /\ FinalCount \in Tallies
  BY FinalCountIsUsed DEF Typed
<1>2. Shows(ms, plan, FinalCount, wall)
  BY <1>1, MetersNow
<1> HIDE DEF ms
<1>3. DOMAIN plan.caps = 1 .. Len(plan.caps) /\ \A c \in 1 .. Len(plan.caps) : plan.caps[c].kind \in Kinds
  BY <1>1, PlanShape
<1>4. ASSUME NEW c \in 1 .. Len(plan.caps), NEW m, m = Current(plan, plan.caps[c], FinalCount, wall)
      PROVE  /\ m.hard = plan.caps[c].hard
             /\ m.state = "exhausted" <=> Used(plan.caps[c].kind) >= plan.caps[c].max
  <2>1. ASSUME NEW pl, NEW counted, NEW w, pl = plan, counted = FinalCount, w = wall
        PROVE  /\ m.kind = plan.caps[c].kind /\ m.max = plan.caps[c].max /\ m.hard = plan.caps[c].hard
               /\ m.spent = Now(m.kind, FinalCount, wall).spent /\ m.reserved = Now(m.kind, FinalCount, wall).reserved
               /\ m.state = "exhausted" <=> m.spent + m.reserved >= m.max
    <3>1. pl \in Plans /\ counted \in Tallies /\ w \in Nat /\ c \in 1 .. Len(pl.caps)
          /\ m = Current(pl, pl.caps[c], counted, w)
      BY <1>1, <1>4, <2>1
    <3>2. /\ m.kind = pl.caps[c].kind /\ m.max = pl.caps[c].max /\ m.hard = pl.caps[c].hard
          /\ m.spent = Now(m.kind, counted, w).spent /\ m.reserved = Now(m.kind, counted, w).reserved
          /\ m.state = "exhausted" <=> m.spent + m.reserved >= m.max
      BY <3>1, CurrentTyped
    <3> QED
      BY <2>1, <3>2
  <2>2. /\ m.kind = plan.caps[c].kind /\ m.max = plan.caps[c].max /\ m.hard = plan.caps[c].hard
        /\ m.spent = Now(m.kind, FinalCount, wall).spent /\ m.reserved = Now(m.kind, FinalCount, wall).reserved
        /\ m.state = "exhausted" <=> m.spent + m.reserved >= m.max
    BY <2>1
  <2>3. m.kind \in Kinds
    BY <1>3, <2>2
  <2>4. m.spent = Used(m.kind) /\ m.reserved = 0 /\ Used(m.kind) \in Nat
    BY <2>2, <2>3, FinalCountIsUsed
  <2>5. m.spent + m.reserved = Used(m.kind)
    BY <2>4
  <2> QED
    BY <2>2, <2>5
<1>5. ASSUME HardExhausted(ms)
      PROVE  \E c \in 1 .. Len(plan.caps) :
               plan.caps[c].hard /\ plan.caps[c].max > 0 /\ Used(plan.caps[c].kind) >= plan.caps[c].max
  <2>1. PICK i \in DOMAIN ms : ms[i].hard /\ ms[i].state = "exhausted"
    BY <1>5 DEF HardExhausted
  <2>2. PICK c \in 1 .. Len(plan.caps) : plan.caps[c].max > 0 /\ ms[i] = Current(plan, plan.caps[c], FinalCount, wall)
    BY <1>2 DEF Shows
  <2>3. ms[i].hard = plan.caps[c].hard /\ Used(plan.caps[c].kind) >= plan.caps[c].max
    BY <1>4, <2>1, <2>2
  <2> QED
    BY <2>1, <2>2, <2>3
<1>6. ASSUME NEW c \in 1 .. Len(plan.caps),
             plan.caps[c].hard, plan.caps[c].max > 0, Used(plan.caps[c].kind) >= plan.caps[c].max
      PROVE  HardExhausted(ms)
  <2>1. PICK i \in DOMAIN ms : ms[i] = Current(plan, plan.caps[c], FinalCount, wall)
    BY <1>2, <1>6 DEF Shows
  <2>2. ms[i].hard = plan.caps[c].hard /\ ms[i].state = "exhausted"
    BY <1>4, <1>6, <2>1
  <2> QED
    BY <1>6, <2>2 DEF HardExhausted
<1>7. HardExhausted(ms) <=> \E c \in DOMAIN plan.caps :
               plan.caps[c].hard /\ plan.caps[c].max > 0 /\ Used(plan.caps[c].kind) >= plan.caps[c].max
  BY <1>3, <1>5, <1>6
<1> QED
  BY <1>7 DEF OverCap, ms

-----------------------------------------------------------------------------
(* From the run to the exit                                                *)

Early == {"read", "check", "actor", "plan"}
Judging == Passed \ {"verdict"}

\* What the manifest says once the budgets have been judged.
Judged ==
  /\ events.terminal # "none"
  /\ manifest.status = "failed" <=> RunFailed
  /\ manifest.status = events.terminal \/ manifest.reason = "budget_exhausted"

Returned ==
  events.terminal # "none" /\ manifest.status = events.terminal /\ manifest.reason = events.terminal

Measured == New([tokens |-> IF Tokens > 0 THEN Tokens ELSE None])

AllWritten ==
  /\ disk.manifest = New(manifest) /\ disk.usage = Measured /\ disk.spec = New(topo)
  /\ cmd.trace => disk.bundle = disk.manifest

Stages ==
  /\ main \in Early \cup {"run", "stop", "join", "exited"} \cup Passed
  /\ main = "check" => cmd.do = "validate"
  /\ main \in {"actor", "plan", "run", "stop", "join"} \cup Passed => cmd.do # "validate"
  /\ main \in Early => thread = "none"
  /\ main = "exited" <=> exit # "none"
  /\ main = "exited" => ~proxy /\ thread \in {"none", "over"}

Books ==
  /\ main \in Early \cup {"run"} => manifest = NoManifest
  /\ main \in {"stop", "join"} => manifest = NoManifest \/ Returned
  /\ main = "verdict" => Returned
  /\ main \in Judging => Judged

Files ==
  /\ DOMAIN disk = DOMAIN OldFiles
  /\ main \in Early \cup {"run", "stop", "join", "verdict", "show", "manifest"} => disk = OldFiles
  /\ main \in {"usage", "spec", "bundle"} => disk.manifest = New(manifest)
  /\ main \in {"spec", "bundle"} => disk.usage = Measured
  /\ main = "bundle" => disk.spec = New(topo)
  /\ main = "report" => (cmd.out => AllWritten)
  /\ disk.manifest.is = "new" => disk.manifest = New(manifest) /\ Judged

Answers ==
  exit \in {"success", "failure"} =>
    IF cmd.do = "validate" THEN exit = "success" <=> Accepted
    ELSE /\ Judged /\ (exit = "failure" <=> manifest.status = "failed")
         /\ cmd.out => AllWritten

Outcome == Stages /\ Books /\ Files /\ Answers

LEMMA OutcomeInit == CliInit => Outcome
<1> SUFFICES ASSUME CliInit PROVE Outcome
  OBVIOUS
<1> USE DEF CliInit
<1>1. Stages
  BY DEF Stages, Early, Passed
<1>2. Books
  BY DEF Books, Judging, Passed
<1>3. Files
  <2>1. disk = OldFiles /\ main = "read"
    OBVIOUS
  <2> QED
    BY <2>1 DEF Files, OldFiles, Old
<1>4. Answers
  BY DEF Answers
<1> QED
  BY <1>1, <1>2, <1>3, <1>4 DEF Outcome

Settled == <<topoVars, items, events, wall, plan>>

\* When the run is over nothing that it is judged by changes.
LEMMA Frozen ==
  ASSUME UNCHANGED Settled PROVE RunFailed' = RunFailed /\ Tokens' = Tokens /\ Accepted' = Accepted /\ topo' = topo
<1>1. UNCHANGED <<topo, stage, flaws, cyclic, items, events, wall, plan>>
  BY DEF Settled, topoVars, search
<1>2. Tokens' = Tokens
  BY <1>1 DEF Tokens
<1>3. \A k : Used(k)' = Used(k)
  BY <1>1, <1>2 DEF Used
<1>4. OverCap' = OverCap
  BY <1>1, <1>3 DEF OverCap
<1> QED
  BY <1>1, <1>2, <1>4 DEF RunFailed, Accepted

LEMMA JudgedStays == ASSUME UNCHANGED Settled, manifest' = manifest PROVE Judged' = Judged
<1>1. RunFailed' = RunFailed /\ events' = events
  BY Frozen DEF Settled
<1> QED
  BY <1>1 DEF Judged

LEMMA MeasuredStays == ASSUME UNCHANGED Settled PROVE Measured' = Measured
<1>1. Tokens' = Tokens
  BY Frozen
<1> QED
  BY <1>1 DEF Measured

LEMMA WrittenStays ==
  ASSUME UNCHANGED Settled, manifest' = manifest, disk' = disk, cmd' = cmd PROVE AllWritten' = AllWritten
<1>1. Measured' = Measured /\ topo' = topo
  BY Frozen, MeasuredStays
<1> QED
  BY <1>1 DEF AllWritten

\* The steps of the follow thread.
LEMMA AsideOutcome ==
  ASSUME Outcome, UNCHANGED Settled, UNCHANGED <<cmd, proxy, main, manifest, disk, exit>>,
         thread' = thread \/ main \notin Early \cup {"exited"}
  PROVE  Outcome'
<1>1. /\ Judged' = Judged /\ Measured' = Measured /\ AllWritten' = AllWritten /\ Accepted' = Accepted
      /\ topo' = topo /\ events' = events
  BY JudgedStays, MeasuredStays, WrittenStays, Frozen DEF Settled
<1>2. Stages'
  BY DEF Outcome, Stages
<1>3. Books'
  <2>1. Returned' = Returned
    BY <1>1 DEF Returned
  <2> QED
    BY <1>1, <2>1 DEF Outcome, Books
<1>4. Files'
  BY <1>1 DEF Outcome, Files
<1>5. Answers'
  BY <1>1 DEF Outcome, Answers
<1> QED
  BY <1>2, <1>3, <1>4, <1>5 DEF Outcome

\* Files of an earlier run say nothing of this one.
LEMMA OldIsOld == OldFiles.manifest.is # "new" /\ DOMAIN OldFiles = {"manifest", "usage", "spec", "bundle"}
BY DEF OldFiles, Old

\* The steps of the validation and the run, while the main task waits for them.
LEMMA RunOutcome ==
  ASSUME Outcome, main \in {"check", "run"}, UNCHANGED <<cmd, proxy, main, thread, manifest, disk, exit>>
  PROVE  Outcome'
<1>1. Stages'
  BY DEF Outcome, Stages
<1>2. Books'
  BY DEF Outcome, Books, Judging, Passed, Early
<1>3. Files'
  <2>1. disk = OldFiles
    BY DEF Outcome, Files, Early
  <2> QED
    BY <2>1, OldIsOld DEF Outcome, Files
<1>4. Answers'
  BY DEF Outcome, Stages, Answers
<1> QED
  BY <1>1, <1>2, <1>3, <1>4 DEF Outcome

\* What the main task does, before the run, and after it while nothing is written.
LEMMA BeforeOutcome ==
  ASSUME Outcome, Read \/ MakeActor \/ Launch \/ Returns \/ Stop \/ Join PROVE Outcome'
<1> USE DEF Prepared, AfterRun, Goes, Exit, runner, follower, ending, setting
<1>0. /\ main \in Early \cup {"run", "stop", "join"}
      /\ DOMAIN disk = DOMAIN OldFiles /\ disk = OldFiles /\ disk' = disk /\ cmd' = cmd
  BY OldIsOld DEF Read, MakeActor, Launch, Returns, Stop, Join, Early, Outcome, Files
<1>1. Files'
  <2>1. main' \in Early \cup {"run", "stop", "join", "verdict", "exited"}
    BY DEF Read, MakeActor, Launch, Returns, Stop, Join, Early
  <2> QED
    BY <1>0, <2>1, OldIsOld DEF Files, Early
<1>2. CASE Read \/ MakeActor
  <2>1. Stages'
    BY <1>2 DEF Read, MakeActor, Outcome, Stages, Early, Passed
  <2>2. Books'
    BY <1>2 DEF Read, MakeActor, Outcome, Books, Early, Passed, Judging
  <2>3. exit' = exit /\ exit = "none"
    BY <1>2 DEF Read, MakeActor, Outcome, Stages
  <2> QED
    BY <1>1, <2>1, <2>2, <2>3 DEF Outcome, Answers
<1>3. CASE Launch
  <2>1. Stages'
    BY <1>3 DEF Launch, Outcome, Stages, Early, Passed
  <2>2. Books'
    BY <1>3 DEF Launch, Outcome, Books, Early, Passed, Judging
  <2>3. exit' = exit /\ exit = "none"
    BY <1>3 DEF Launch, Outcome, Stages
  <2> QED
    BY <1>1, <2>1, <2>2, <2>3 DEF Outcome, Answers
<1>4. CASE Returns
  <2>1. Stages'
    BY <1>4 DEF Returns, Outcome, Stages, Early, Passed
  <2>2. Books'
    <3>1. manifest = NoManifest /\ main' = "stop" /\ events' = events
      BY <1>4 DEF Returns, Outcome, Books
    <3>2. CASE Accepted
      <4>1. events.terminal # "none" /\ manifest' = [NoManifest EXCEPT !.status = events.terminal, !.reason = events.terminal]
        BY <1>4, <3>2 DEF Returns
      <4>2. Returned'
        BY <3>1, <4>1 DEF Returned, NoManifest
      <4> QED
        BY <3>1, <4>2 DEF Books, Early, Judging, Passed
    <3>3. CASE ~Accepted
      <4>1. manifest' = NoManifest
        BY <1>4, <3>1, <3>3 DEF Returns
      <4> QED
        BY <3>1, <4>1 DEF Books, Early, Judging, Passed
    <3> QED
      BY <3>2, <3>3
  <2>3. exit' = exit /\ exit = "none"
    BY <1>4 DEF Returns, Outcome, Stages
  <2> QED
    BY <1>1, <2>1, <2>2, <2>3 DEF Outcome, Answers
<1>5. CASE Stop
  <2>1. Stages'
    BY <1>5 DEF Stop, Outcome, Stages, Early, Passed
  <2>2. Books'
    <3>1. main = "stop" /\ main' = "join" /\ UNCHANGED <<manifest, events>>
      BY <1>5 DEF Stop
    <3> QED
      BY <3>1 DEF Outcome, Books, Returned, Early, Judging, Passed
  <2>3. exit' = exit /\ exit = "none"
    BY <1>5 DEF Stop, Outcome, Stages
  <2> QED
    BY <1>1, <2>1, <2>2, <2>3 DEF Outcome, Answers
<1>6. CASE Join
  <2>1. main = "join" /\ thread = "over" /\ UNCHANGED <<manifest, events, thread, cmd>> /\ exit = "none"
    BY <1>6 DEF Join, Outcome, Stages
  <2>2. CASE manifest.status = "none"
    <3>1. main' = "exited" /\ exit' = "error" /\ proxy' = FALSE
      BY <1>6, <2>2 DEF Join
    <3>2. Stages'
      BY <2>1, <3>1 DEF Stages, Early, Passed
    <3>3. Books'
      BY <3>1 DEF Books, Early, Judging, Passed
    <3> QED
      BY <1>1, <3>1, <3>2, <3>3 DEF Outcome, Answers
  <2>3. CASE manifest.status # "none"
    <3>1. main' = "verdict" /\ UNCHANGED <<proxy, exit>>
      BY <1>6, <2>3 DEF Join
    <3>2. Stages'
      BY <2>1, <3>1 DEF Outcome, Stages, Early, Passed
    <3>3. Returned
      BY <2>1, <2>3 DEF Outcome, Books, NoManifest
    <3>4. Books'
      BY <2>1, <3>1, <3>3 DEF Books, Returned, Early, Judging, Passed
    <3> QED
      BY <1>1, <2>1, <3>1, <3>2, <3>4 DEF Outcome, Answers
  <2> QED
    BY <2>2, <2>3
<1> QED
  BY <1>2, <1>3, <1>4, <1>5, <1>6

\* The exits before the run.
LEMMA EarlyExitOutcome ==
  ASSUME Outcome, Unprepared \/ Refuse \/ BadOverlay \/ Checked PROVE Outcome'
<1> USE DEF Prepared, Exit, follower
<1>1. /\ main \in Early /\ main' = "exited" /\ proxy' = FALSE
      /\ UNCHANGED <<topoVars, cmd, thread, manifest, disk>>
      /\ disk = OldFiles /\ thread = "none"
      /\ exit' \in {"error", "success", "failure"}
  BY DEF Unprepared, Refuse, BadOverlay, Checked, Early, Outcome, Files, Stages
<1>2. Stages'
  BY <1>1 DEF Stages, Early, Passed
<1>3. Books'
  BY <1>1 DEF Books, Early, Passed, Judging
<1>4. Files'
  BY <1>1, OldIsOld DEF Files, Early, Passed
<1>5. Answers'
  <2>1. CASE Checked
    <3>1. cmd.do = "validate" /\ exit' = IF Accepted THEN "success" ELSE "failure"
      BY <2>1 DEF Checked, Outcome, Stages
    <3>2. Accepted' = Accepted
      BY <1>1 DEF Accepted, topoVars, search
    <3> QED
      BY <1>1, <3>1, <3>2 DEF Answers
  <2>2. CASE ~Checked
    <3>1. exit' = "error"
      BY <2>2 DEF Unprepared, Refuse, BadOverlay
    <3> QED
      BY <3>1 DEF Answers
  <2> QED
    BY <2>1, <2>2
<1> QED
  BY <1>2, <1>3, <1>4, <1>5 DEF Outcome

LEMMA VerdictOutcome ==
  ASSUME Outcome, Typed, Flowing, Counts, Verdict PROVE Outcome'
<1>1. /\ main = "verdict" /\ main' = "show"
      /\ UNCHANGED Settled /\ UNCHANGED <<cmd, thread, proxy, disk, exit>>
  BY DEF Verdict, Goes, AfterRun, Settled, runner, follower
<1>2. disk = OldFiles /\ Returned /\ exit = "none"
  BY <1>1 DEF Outcome, Files, Books, Stages
<1> DEFINE ms == Meters(plan, Samples(plan, FinalCount, wall, <<>>), wall)
           fails == plan.fail /\ HardExhausted(ms)
<1>3. manifest' = [status |-> IF fails THEN "failed" ELSE manifest.status,
                   reason |-> IF fails THEN "budget_exhausted" ELSE manifest.reason,
                   budgets |-> ms]
  BY DEF Verdict, FinalCount
<1>4. main \in Passed /\ events.terminal # "none"
  BY <1>1, <1>2 DEF Passed, Returned
<1>5. fails <=> OverCap
  BY <1>4, VerdictIsExact
<1> HIDE DEF ms, fails
<1>6. /\ manifest'.status = IF fails THEN "failed" ELSE manifest.status
      /\ manifest'.reason = IF fails THEN "budget_exhausted" ELSE manifest.reason
  BY <1>3
<1>7. manifest.status = events.terminal
  BY <1>2 DEF Returned
<1>8. Judged'
  <2>1. RunFailed' = RunFailed /\ events' = events
    BY <1>1, Frozen DEF Settled
  <2>2. manifest'.status = "failed" <=> RunFailed
    BY <1>5, <1>6, <1>7 DEF RunFailed
  <2>3. manifest'.status = events.terminal \/ manifest'.reason = "budget_exhausted"
    BY <1>6, <1>7
  <2> QED
    BY <1>4, <2>1, <2>2, <2>3 DEF Judged
<1>9. Stages'
  BY <1>1, <1>2 DEF Outcome, Stages, Early, Passed
<1>10. Books'
  BY <1>1, <1>8 DEF Books, Early, Passed, Judging
<1>11. Files'
  BY <1>1, <1>2, OldIsOld DEF Files, Early, Passed
<1>12. Answers'
  BY <1>1, <1>2 DEF Answers
<1> QED
  BY <1>9, <1>10, <1>11, <1>12 DEF Outcome

\* What the steps after the verdict have in common.
LEMMA AfterVerdict ==
  ASSUME Outcome, ShowFails \/ Show \/ WriteManifest \/ WriteUsage \/ WriteSpec \/ ExportTrace \/ WriteFails \/ Report
  PROVE  /\ main \in Judging /\ Judged /\ Judged' /\ exit = "none" /\ cmd.do # "validate"
         /\ UNCHANGED <<cmd, thread, manifest, topo>>
         /\ Measured' = Measured /\ UNCHANGED Settled
<1>1. main \in Judging
  BY DEF ShowFails, Show, WriteManifest, WriteUsage, WriteSpec, ExportTrace, Write, WriteFails, Report, Goes,
     Judging, Passed
<1>2. UNCHANGED Settled /\ UNCHANGED <<cmd, thread, manifest>>
  BY DEF ShowFails, Show, WriteManifest, WriteUsage, WriteSpec, ExportTrace, Write, WriteFails, Report,
     AfterRun, Settled, runner, follower, ending
<1>3. Judged
  BY <1>1 DEF Outcome, Books
<1>4. exit = "none" /\ cmd.do # "validate"
  BY <1>1 DEF Outcome, Stages, Judging, Passed
<1> QED
  BY <1>1, <1>2, <1>3, <1>4, JudgedStays, MeasuredStays, Frozen

\* The main task is past the verdict and goes on.
LEMMA GoesOn ==
  ASSUME Outcome, main \in Judging, main' \in Judging, UNCHANGED <<cmd, thread, proxy, exit>>, Judged'
  PROVE  Stages' /\ Books' /\ Answers'
<1>1. Stages'
  BY DEF Outcome, Stages, Judging, Passed, Early
<1>2. Books'
  BY DEF Books, Judging, Passed, Early
<1>3. Answers'
  BY DEF Outcome, Stages, Answers, Judging, Passed
<1> QED
  BY <1>1, <1>2, <1>3

LEMMA NewIsNew == \A c : New(c).is = "new" /\ New(c).holds = c
BY DEF New

LEMMA ShowOutcome == ASSUME Outcome, Show PROVE Outcome'
<1>1. /\ main = "show" /\ main' = IF cmd.out THEN "manifest" ELSE "report"
      /\ UNCHANGED <<proxy, disk, exit>>
  BY DEF Show, Goes, ending
<1>2. UNCHANGED <<cmd, thread, manifest>> /\ Judged'
  BY AfterVerdict
<1>3. disk = OldFiles
  BY <1>1 DEF Outcome, Files
<1>4. Stages' /\ Books' /\ Answers'
  BY <1>1, <1>2, GoesOn DEF Judging, Passed
<1>5. Files'
  BY <1>1, <1>2, <1>3, OldIsOld DEF Files, Early
<1> QED
  BY <1>4, <1>5 DEF Outcome

\* The receipt has the tokens of all shards.
LEMMA ReceiptIsTold ==
  ASSUME Flowing, main \in Passed PROVE Receipt = [tokens |-> IF Tokens > 0 THEN Tokens ELSE None]
<1>1. Counted(events, 0, folded).tokens = Tokens
  BY FoldedIsSent, TokensAreTold
<1> QED
  BY <1>1 DEF Receipt

LEMMA WritesOutcome ==
  ASSUME Outcome, Typed, Flowing, Counts, WriteManifest \/ WriteUsage \/ WriteSpec \/ ExportTrace PROVE Outcome'
<1>1. /\ main \in Judging /\ Judged /\ Judged'
      /\ UNCHANGED <<cmd, thread, manifest, topo>> /\ Measured' = Measured /\ UNCHANGED Settled
  BY AfterVerdict
<1>2. UNCHANGED <<proxy, exit>> /\ main' \in Judging
  BY DEF WriteManifest, WriteUsage, WriteSpec, ExportTrace, Write, Goes, Judging, Passed
<1>3. Stages' /\ Books' /\ Answers'
  BY <1>1, <1>2, GoesOn
<1>4. DOMAIN disk = {"manifest", "usage", "spec", "bundle"}
  BY OldIsOld DEF Outcome, Files
<1>5. CASE WriteManifest
  <2>1. main' = "usage" /\ disk' = [disk EXCEPT !.manifest = New(manifest)]
    BY <1>5 DEF WriteManifest, Write, Goes
  <2>2. DOMAIN disk' = DOMAIN disk /\ disk'.manifest = New(manifest)
    BY <1>4, <2>1
  <2>3. Files'
    BY <1>1, <1>4, <2>1, <2>2, OldIsOld DEF Files, Early
  <2> QED
    BY <1>3, <2>3 DEF Outcome
<1>6. CASE WriteUsage
  <2>1. main = "usage" /\ main' = "spec" /\ disk' = [disk EXCEPT !.usage = New(Receipt)]
    BY <1>6 DEF WriteUsage, Write, Goes
  <2>2. disk.manifest = New(manifest)
    BY <2>1 DEF Outcome, Files
  <2>3. DOMAIN disk' = DOMAIN disk /\ disk'.manifest = New(manifest) /\ disk'.usage = New(Receipt)
    BY <1>4, <2>1, <2>2
  <2>4. New(Receipt) = Measured
    BY <2>1, ReceiptIsTold DEF Measured, Passed
  <2>5. Files'
    BY <1>1, <1>4, <2>1, <2>3, <2>4, OldIsOld DEF Files, Early
  <2> QED
    BY <1>3, <2>5 DEF Outcome
<1>7. CASE WriteSpec
  <2>1. /\ main = "spec" /\ main' = IF cmd.trace THEN "bundle" ELSE "report"
        /\ disk' = [disk EXCEPT !.spec = New(topo)]
    BY <1>7 DEF WriteSpec, Write, Goes
  <2>2. disk.manifest = New(manifest) /\ disk.usage = Measured
    BY <2>1 DEF Outcome, Files
  <2>3. DOMAIN disk' = DOMAIN disk /\ disk'.manifest = New(manifest) /\ disk'.usage = Measured /\ disk'.spec = New(topo)
    BY <1>4, <2>1, <2>2
  <2>4. ~cmd.trace => AllWritten'
    BY <1>1, <2>3 DEF AllWritten
  <2>5. Files'
    BY <1>1, <1>4, <2>1, <2>3, <2>4, OldIsOld DEF Files, Early
  <2> QED
    BY <1>3, <2>5 DEF Outcome
<1>8. CASE ExportTrace
  <2>1. /\ main = "bundle" /\ main' = "report"
        /\ disk' = [disk EXCEPT !.bundle = New(disk.manifest.holds)]
    BY <1>8 DEF ExportTrace, Write, Goes
  <2>2. disk.manifest = New(manifest) /\ disk.usage = Measured /\ disk.spec = New(topo)
    BY <2>1 DEF Outcome, Files
  <2>3. New(disk.manifest.holds) = New(manifest)
    BY <2>2, NewIsNew
  <2>4. DOMAIN disk' = DOMAIN disk /\ disk'.manifest = New(manifest) /\ disk'.usage = Measured
        /\ disk'.spec = New(topo) /\ disk'.bundle = New(manifest)
    BY <1>4, <2>1, <2>2, <2>3
  <2>5. AllWritten'
    BY <1>1, <2>4 DEF AllWritten
  <2>6. Files'
    BY <1>1, <1>4, <2>1, <2>4, <2>5, OldIsOld DEF Files, Early
  <2> QED
    BY <1>3, <2>6 DEF Outcome
<1> QED
  BY <1>5, <1>6, <1>7, <1>8

\* The exits after the verdict.
LEMMA ExitOutcome == ASSUME Outcome, Flowing, ShowFails \/ WriteFails \/ Report PROVE Outcome'
<1>1. /\ main \in Judging /\ Judged /\ Judged' /\ cmd.do # "validate"
      /\ UNCHANGED <<cmd, thread, manifest, topo>> /\ Measured' = Measured /\ UNCHANGED Settled
  BY AfterVerdict
<1>2. main' = "exited" /\ proxy' = FALSE /\ exit' \in {"error", "success", "failure"}
  BY DEF ShowFails, WriteFails, Report, Exit
<1>3. thread = "over"
  BY <1>1 DEF Flowing, Phases, Judging
<1>4. Stages'
  BY <1>1, <1>2, <1>3 DEF Stages, Early, Passed
<1>5. Books'
  BY <1>2 DEF Books, Early, Passed, Judging
<1>6. DOMAIN disk = {"manifest", "usage", "spec", "bundle"}
  BY OldIsOld DEF Outcome, Files
<1>7. CASE ShowFails \/ Report
  <2>1. disk' = disk
    BY <1>7 DEF ShowFails, Report
  <2>2. Files'
    BY <1>1, <1>2, <2>1 DEF Outcome, Files, Early
  <2>3. Answers'
    <3>1. CASE ShowFails
      BY <3>1 DEF ShowFails, Exit, Answers
    <3>2. CASE Report
      <4>1. exit' = IF manifest.status = "failed" THEN "failure" ELSE "success"
        BY <3>2 DEF Report, Exit
      <4>2. main = "report"
        BY <3>2 DEF Report
      <4>3. cmd.out => AllWritten
        BY <4>2 DEF Outcome, Files
      <4>4. AllWritten' = AllWritten
        BY <1>1, <2>1, WrittenStays
      <4> QED
        BY <1>1, <4>1, <4>3, <4>4 DEF Answers
    <3> QED
      BY <1>7, <3>1, <3>2
  <2> QED
    BY <1>4, <1>5, <2>2, <2>3 DEF Outcome
<1>8. CASE WriteFails
  <2>1. exit' = "error" /\ (disk' = disk \/ disk' = [disk EXCEPT ![main] = Torn])
    BY <1>8 DEF WriteFails, Exit
  <2>2. DOMAIN disk' = DOMAIN disk /\ (disk'.manifest = disk.manifest \/ disk'.manifest = Torn)
    BY <1>6, <2>1
  <2>3. Torn.is # "new"
    BY DEF Torn
  <2>4. disk'.manifest.is = "new" => disk'.manifest = New(manifest)
    BY <2>2, <2>3 DEF Outcome, Files
  <2>5. Files'
    BY <1>1, <1>2, <2>2, <2>4 DEF Outcome, Files, Early
  <2>6. Answers'
    BY <2>1 DEF Answers
  <2> QED
    BY <1>4, <1>5, <2>5, <2>6 DEF Outcome
<1> QED
  BY <1>7, <1>8

LEMMA OutcomeStep == Outcome /\ Typed /\ Flowing /\ Counts /\ [CliNext]_vars => Outcome'
<1> SUFFICES ASSUME Outcome, Typed, Flowing, Counts, [CliNext]_vars PROVE Outcome'
  OBVIOUS
<1>1. CASE UNCHANGED vars \/ Exited
  <2>1. UNCHANGED Settled /\ UNCHANGED <<cmd, proxy, main, manifest, disk, exit, thread>>
    BY <1>1 DEF Exited, vars, Settled, setting, runner, follower, ending
  <2> QED
    BY <2>1, AsideOutcome
<1>2. CASE Tick \/ Workflow
  <2>1. main \in {"check", "run"}
    BY <1>2 DEF Tick, Workflow, Validating, Ends, ItemStarts, Publishes, Retries, CallReturns, CallFails,
       ItemSettles, Running
  <2>2. UNCHANGED <<cmd, proxy, main, thread, manifest, disk, exit>>
    BY <1>2 DEF Tick, Workflow, Validating, Ends, ItemStarts, Publishes, Retries, CallReturns, CallFails,
       ItemSettles, RunRest, setting, follower, ending
  <2> QED
    BY <2>1, <2>2, RunOutcome
<1>3. CASE Follow
  <2>1. UNCHANGED Settled /\ UNCHANGED <<cmd, proxy, main, manifest, disk, exit>>
    BY <1>3 DEF Follow, Look, FoldOne, Draw, Poll, Polled, Drained, Aside, Settled, setting, runner, ending
  <2>2. thread \notin {"none", "over"}
    BY <1>3 DEF Follow, Look, FoldOne, Draw, Drawing, Poll, Polled, Drained
  <2>3. main \notin Early \cup {"exited"}
    BY <2>2 DEF Outcome, Stages
  <2> QED
    BY <2>1, <2>3, AsideOutcome
<1>4. CASE Main
  BY <1>4, BeforeOutcome, EarlyExitOutcome, VerdictOutcome, ShowOutcome, WritesOutcome, ExitOutcome DEF Main
<1> QED
  BY <1>1, <1>2, <1>3, <1>4 DEF CliNext

-----------------------------------------------------------------------------
(* Theorems                                                                *)

\* The counts of the events are those of the items by where they are, and what the
\* thread has seen was such a count, with no more load than it tells of.
THEOREM EventsCount == CliSpec => []Counts
<1> QED
  BY CountsInit, CountsStep, TotalsFlow, PTL DEF CliSpec

\* The plan in force has the types of a plan, whatever the overlay, the totals are
\* numbers and the history is made of samples.
THEOREM TypeCorrect == CliSpec => []Typed
<1> QED
  BY TypedInit, TypedStep, TotalsFlow, EventsCount, PTL DEF CliSpec

\* What the command has returned, judged and written, stage by stage.
THEOREM OutcomeKept == CliSpec => []Outcome
<1> QED
  BY OutcomeInit, OutcomeStep, TotalsFlow, EventsCount, TypeCorrect, PTL DEF CliSpec

\* The exit code, the manifest on disk and what happened in the run agree, for
\* every command line, whatever the shards did and wherever a write failed.
THEOREM ExitTells == CliSpec => []ExitTellsOutcome
<1>1. Outcome /\ Counts => ExitTellsOutcome
  <2> SUFFICES ASSUME Outcome, Counts PROVE ExitTellsOutcome
    OBVIOUS
  <2>1. disk.manifest.is = "new" => (disk.manifest.holds.status = "failed" <=> RunFailed)
    <3>1. ASSUME disk.manifest.is = "new" PROVE disk.manifest.holds = manifest /\ Judged
      BY <3>1, NewIsNew DEF Outcome, Files
    <3> QED
      BY <3>1 DEF Judged
  <2>2. exit = "failure" => IF cmd.do = "validate" THEN ~Accepted ELSE RunFailed
    BY DEF Outcome, Answers, Judged
  <2>3. exit = "success" /\ cmd.do = "validate" => Accepted
    BY DEF Outcome, Answers
  <2>4. ASSUME exit = "success", cmd.do = "run"
        PROVE  /\ events.terminal = "completed" /\ ~OverCap
               /\ cmd.out => disk.usage = New([tokens |-> IF Tokens > 0 THEN Tokens ELSE None]) /\ disk.spec = New(topo)
               /\ cmd.out /\ cmd.trace => disk.bundle = disk.manifest
    <3>1. Judged /\ manifest.status # "failed" /\ (cmd.out => AllWritten)
      BY <2>4 DEF Outcome, Answers
    <3>2. ~RunFailed /\ events.terminal \in Over
      BY <3>1 DEF Judged, Counts
    <3>3. events.terminal = "completed" /\ ~OverCap
      BY <3>2 DEF RunFailed, Over
    <3> QED
      BY <3>1, <3>3 DEF AllWritten, Measured
  <2>5. ASSUME exit \in {"success", "failure"}, cmd.do = "run", cmd.out
        PROVE  disk.manifest.is = "new" /\
                 (disk.manifest.holds.status = events.terminal \/ disk.manifest.holds.reason = "budget_exhausted")
    <3>1. Judged /\ AllWritten
      BY <2>5 DEF Outcome, Answers
    <3>2. disk.manifest.is = "new" /\ disk.manifest.holds = manifest
      BY <3>1, NewIsNew DEF AllWritten
    <3> QED
      BY <3>1, <3>2 DEF Judged
  <2>6. exit # "none" => ~proxy /\ thread \in {"none", "over"}
    BY DEF Outcome, Stages
  <2> QED
    BY <2>1, <2>2, <2>3, <2>4, <2>5, <2>6 DEF ExitTellsOutcome
<1> QED
  BY <1>1, OutcomeKept, EventsCount, PTL

-----------------------------------------------------------------------------
(* Fractions                                                               *)

Fractions == Nat \X (Nat \ {0})

LEMMA FractionShape ==
  ASSUME NEW r \in Fractions PROVE r[1] \in Nat /\ r[2] \in Nat /\ r[2] > 0 /\ r # None
<1>1. r[1] \in Nat /\ r[2] \in Nat /\ r[2] > 0
  BY DEF Fractions
<1>2. r = <<r[1], r[2]>>
  BY DEF Fractions
<1>3. Len(<<r[1], r[2]>>) = 2 /\ Len(<<>>) = 0
  OBVIOUS
<1> QED
  BY <1>1, <1>2, <1>3 DEF None

LEMMA PositiveProduct ==
  ASSUME NEW a \in Nat, NEW b \in Nat, a > 0, b > 0 PROVE a * b \in Nat /\ a * b > 0
OBVIOUS

LEMMA ProductNat == \A a, b \in Nat : a * b \in Nat
OBVIOUS

LEMMA TimesOrder ==
  ASSUME NEW a \in Nat, NEW b \in Nat, NEW c \in Nat, c > 0 PROVE a * c < b * c <=> a < b
OBVIOUS

LEMMA TimesMonotone ==
  ASSUME NEW a \in Nat, NEW b \in Nat, NEW c \in Nat, a <= b PROVE a * c <= b * c
OBVIOUS

LEMMA TimesAround ==
  ASSUME NEW a \in Nat, NEW b \in Nat, NEW c \in Nat PROVE (a * b) * c = (a * c) * b
OBVIOUS

\* What is less than one that another is not less than is less than that.
LEMMA LessBelow ==
  ASSUME NEW a \in Fractions, NEW b \in Fractions, NEW c \in Fractions, Less(a, b), ~Less(c, b)
  PROVE  Less(a, c)
<1> DEFINE a1 == a[1]  a2 == a[2]  b1 == b[1]  b2 == b[2]  c1 == c[1]  c2 == c[2]
<1>1. /\ a1 \in Nat /\ a2 \in Nat /\ a2 > 0 /\ b1 \in Nat /\ b2 \in Nat /\ b2 > 0
      /\ c1 \in Nat /\ c2 \in Nat /\ c2 > 0
  BY FractionShape
<1>2. a1 * b2 < b1 * a2 /\ ~(c1 * b2 < b1 * c2)
  BY DEF Less
<1> HIDE DEF a1, a2, b1, b2, c1, c2
<1> DEFINE p == a1 * b2  q == b1 * a2  r == c1 * b2  s == b1 * c2
<1>3. p \in Nat /\ q \in Nat /\ r \in Nat /\ s \in Nat /\ p < q /\ s <= r
  BY <1>1, <1>2, ProductNat
<1>4. p * c2 = (a1 * c2) * b2 /\ q * c2 = s * a2 /\ r * a2 = (c1 * a2) * b2
  BY <1>1, TimesAround
<1> HIDE DEF p, q, r, s
<1>5. p * c2 < q * c2
  BY <1>1, <1>3, TimesOrder
<1>6. s * a2 <= r * a2
  BY <1>1, <1>3, TimesMonotone
<1> DEFINE u == a1 * c2  v == c1 * a2
<1>7. u \in Nat /\ v \in Nat
  BY <1>1, ProductNat
<1>8. p * c2 = u * b2 /\ r * a2 = v * b2
  BY <1>4
<1> HIDE DEF u, v
<1>9. u * b2 < v * b2
  <2>1. p * c2 \in Nat /\ s * a2 \in Nat /\ r * a2 \in Nat /\ q * c2 = s * a2
    BY <1>1, <1>3, <1>4, ProductNat
  <2> DEFINE x == p * c2  y == s * a2  z == r * a2
  <2>2. x \in Nat /\ y \in Nat /\ z \in Nat /\ x < y /\ y <= z
    BY <1>5, <1>6, <2>1
  <2> HIDE DEF x, y, z
  <2>3. x < z
    BY <2>2
  <2> QED
    BY <1>8, <2>3 DEF x, z
<1>10. u < v
  BY <1>1, <1>7, <1>9, TimesOrder
<1> QED
  BY <1>10 DEF u, v, Less, a1, a2, c1, c2

LEMMA LessAsym ==
  ASSUME NEW a \in Fractions, NEW b \in Fractions PROVE ~(Less(a, b) /\ Less(b, a)) /\ ~Less(a, a)
<1>1. a[1] \in Nat /\ a[2] \in Nat /\ b[1] \in Nat /\ b[2] \in Nat
  BY FractionShape
<1> DEFINE p == a[1] * b[2]  q == b[1] * a[2]  r == a[1] * a[2]
<1>2. p \in Nat /\ q \in Nat /\ r \in Nat
  BY <1>1, ProductNat
<1>3. Less(a, b) <=> p < q
  BY DEF Less
<1>4. Less(b, a) <=> q < p
  BY DEF Less
<1>5. Less(a, a) <=> r < r
  BY DEF Less
<1> HIDE DEF p, q, r
<1> QED
  BY <1>2, <1>3, <1>4, <1>5

-----------------------------------------------------------------------------
(* The least and the greatest of some fractions                            *)

\* Of a finite set of indices one has a fraction that no other is less than.
LEMMA LeastFraction ==
  ASSUME NEW I, IsFiniteSet(I), I # {}, NEW v, \A i \in I : v[i] \in Fractions
  PROVE  \E m \in I : \A i \in I : ~Less(v[i], v[m])
<1> DEFINE Has(S) == S # {} => \E m \in S : \A i \in S : ~Less(v[i], v[m])
           N == {n \in Nat : \A S \in SUBSET I : Cardinality(S) = n => Has(S)}
<1>1. \A S \in SUBSET I : IsFiniteSet(S) /\ Cardinality(S) \in Nat
  BY FS_Subset, FS_CardinalityType
<1>2. 0 \in N
  <2>1. ASSUME NEW S \in SUBSET I, Cardinality(S) = 0 PROVE Has(S)
    <3>1. S = {}
      BY <1>1, <2>1, FS_EmptySet
    <3> QED
      BY <3>1
  <2> HIDE DEF Has
  <2> QED
    BY <2>1
<1>3. ASSUME NEW n \in Nat, n \in N PROVE n + 1 \in N
  <2>1. ASSUME NEW S \in SUBSET I, Cardinality(S) = n + 1, S # {}
        PROVE  \E m \in S : \A i \in S : ~Less(v[i], v[m])
    <3>1. PICK k : k \in S
      BY <2>1
    <3>2. S \ {k} \in SUBSET I /\ Cardinality(S \ {k}) = Cardinality(S) - 1
      BY <1>1, <3>1, FS_RemoveElement
    <3>3. Cardinality(S \ {k}) = n
      BY <2>1, <3>2
    <3>4. Has(S \ {k})
      BY <1>3, <3>2, <3>3
    <3>5. \A i \in S : v[i] \in Fractions
      OBVIOUS
    <3>6. CASE S \ {k} = {}
      <4>1. \A i \in S : ~Less(v[i], v[k])
        BY <3>1, <3>5, <3>6, LessAsym
      <4> QED
        BY <3>1, <4>1
    <3>7. CASE S \ {k} # {}
      <4>1. PICK m \in S \ {k} : \A i \in S \ {k} : ~Less(v[i], v[m])
        BY <3>4, <3>7
      <4>2. CASE Less(v[k], v[m])
        <5>1. ASSUME NEW i \in S PROVE ~Less(v[i], v[k])
          <6>1. CASE i = k
            BY <3>5, <6>1, LessAsym
          <6>2. CASE i # k
            <7>1. Less(v[k], v[i])
              BY <3>1, <3>5, <4>1, <4>2, <6>2, LessBelow
            <7> QED
              BY <3>1, <3>5, <7>1, LessAsym
          <6> QED
            BY <6>1, <6>2
        <5> QED
          BY <3>1, <5>1
      <4>3. CASE ~Less(v[k], v[m])
        BY <4>1, <4>3
      <4> QED
        BY <4>2, <4>3
    <3> QED
      BY <3>6, <3>7
  <2> QED
    BY <2>1
<1> HIDE DEF N
<1>4. Cardinality(I) \in N
  BY <1>1, <1>2, <1>3, AllNats
<1> QED
  BY <1>4 DEF N

LEMMA GreatestFraction ==
  ASSUME NEW I, IsFiniteSet(I), I # {}, NEW v, \A i \in I : v[i] \in Fractions
  PROVE  \E m \in I : \A i \in I : ~Less(v[m], v[i])
<1> DEFINE Has(S) == S # {} => \E m \in S : \A i \in S : ~Less(v[m], v[i])
           N == {n \in Nat : \A S \in SUBSET I : Cardinality(S) = n => Has(S)}
<1>1. \A S \in SUBSET I : IsFiniteSet(S) /\ Cardinality(S) \in Nat
  BY FS_Subset, FS_CardinalityType
<1>2. 0 \in N
  <2>1. ASSUME NEW S \in SUBSET I, Cardinality(S) = 0 PROVE Has(S)
    <3>1. S = {}
      BY <1>1, <2>1, FS_EmptySet
    <3> QED
      BY <3>1
  <2> HIDE DEF Has
  <2> QED
    BY <2>1
<1>3. ASSUME NEW n \in Nat, n \in N PROVE n + 1 \in N
  <2>1. ASSUME NEW S \in SUBSET I, Cardinality(S) = n + 1, S # {}
        PROVE  \E m \in S : \A i \in S : ~Less(v[m], v[i])
    <3>1. PICK k : k \in S
      BY <2>1
    <3>2. S \ {k} \in SUBSET I /\ Cardinality(S \ {k}) = Cardinality(S) - 1
      BY <1>1, <3>1, FS_RemoveElement
    <3>3. Cardinality(S \ {k}) = n
      BY <2>1, <3>2
    <3>4. Has(S \ {k})
      BY <1>3, <3>2, <3>3
    <3>5. \A i \in S : v[i] \in Fractions
      OBVIOUS
    <3>6. CASE S \ {k} = {}
      <4>1. \A i \in S : ~Less(v[k], v[i])
        BY <3>1, <3>5, <3>6, LessAsym
      <4> QED
        BY <3>1, <4>1
    <3>7. CASE S \ {k} # {}
      <4>1. PICK m \in S \ {k} : \A i \in S \ {k} : ~Less(v[m], v[i])
        BY <3>4, <3>7
      <4>2. CASE Less(v[m], v[k])
        <5>1. ASSUME NEW i \in S PROVE ~Less(v[k], v[i])
          <6>1. CASE i = k
            BY <3>5, <6>1, LessAsym
          <6>2. CASE i # k
            <7>1. ASSUME Less(v[k], v[i]) PROVE FALSE
              <8>1. ~Less(v[i], v[k])
                BY <3>1, <3>5, <7>1, LessAsym
              <8>2. Less(v[m], v[i])
                BY <3>1, <3>5, <4>1, <4>2, <8>1, LessBelow
              <8> QED
                BY <4>1, <6>2, <8>2
            <7> QED
              BY <7>1
          <6> QED
            BY <6>1, <6>2
        <5> QED
          BY <3>1, <5>1
      <4>3. CASE ~Less(v[m], v[k])
        BY <4>1, <4>3
      <4> QED
        BY <4>2, <4>3
    <3> QED
      BY <3>6, <3>7
  <2> QED
    BY <2>1
<1> HIDE DEF N
<1>4. Cardinality(I) \in N
  BY <1>1, <1>2, <1>3, AllNats
<1> QED
  BY <1>4 DEF N

-----------------------------------------------------------------------------
(* Rates and estimates                                                     *)

Rates == (Nat \ {0}) \X (Nat \ {0})

LEMMA RateShape ==
  ASSUME NEW r \in Rates PROVE r[1] \in Nat /\ r[1] > 0 /\ r[2] \in Nat /\ r[2] > 0 /\ r \in Fractions /\ r # None
<1>1. r \in Fractions /\ r[1] \in Nat /\ r[1] > 0
  BY DEF Rates, Fractions
<1> QED
  BY <1>1, FractionShape

\* The upper median of some rates is one of them.
LEMMA MedianIsOne ==
  ASSUME NEW n \in Nat \ {0}, NEW rates, DOMAIN rates = 1 .. n, Len(rates) = n,
         \A i \in 1 .. n : rates[i] \in Fractions
  PROVE  Median(rates) \in {rates[i] : i \in 1 .. n}
<1> DEFINE D == 1 .. n
           h == n \div 2
           Below(r) == {j \in D : Less(rates[j], r)}
           Upto(r) == {j \in D : ~Less(r, rates[j])}
           C == {i \in D : h < Cardinality(Upto(rates[i]))}
<1>1. h \in Nat /\ h < n
  OBVIOUS
<1>2. IsFiniteSet(D) /\ Cardinality(D) = n /\ D # {}
  <2>1. 1 \in Int /\ n \in Int /\ ~(1 > n) /\ n - 1 + 1 = n /\ 1 \in D
    OBVIOUS
  <2>2. IsFiniteSet(1 .. n) /\ Cardinality(1 .. n) = IF 1 > n THEN 0 ELSE n - 1 + 1
    BY <2>1, FS_Interval
  <2> QED
    BY <2>1, <2>2
<1>3. \A S \in SUBSET D : IsFiniteSet(S) /\ Cardinality(S) \in Nat
  BY <1>2, FS_Subset, FS_CardinalityType
<1>4. \A i \in D : rates[i] \in Fractions
  OBVIOUS
<1>5. Median(rates) = CHOOSE r \in {rates[i] : i \in D} : Cardinality(Below(r)) <= h /\ h < Cardinality(Upto(r))
  BY DEF Median
<1> HIDE DEF D, h
<1>6. PICK top \in D : \A j \in D : ~Less(rates[top], rates[j])
  BY <1>2, <1>4, GreatestFraction
<1>7. top \in C
  <2>1. Upto(rates[top]) = D
    BY <1>6
  <2> QED
    BY <1>1, <1>2, <2>1
<1>8. C \in SUBSET D /\ IsFiniteSet(C) /\ C # {} /\ \A i \in C : rates[i] \in Fractions
  BY <1>3, <1>4, <1>7
<1> HIDE DEF C
<1>9. PICK k \in C : \A i \in C : ~Less(rates[i], rates[k])
  BY <1>8, LeastFraction
<1>10. k \in D /\ h < Cardinality(Upto(rates[k]))
  BY <1>9 DEF C
<1>11. Cardinality(Below(rates[k])) <= h
  <2> DEFINE L == Below(rates[k])
  <2>1. SUFFICES ASSUME ~(Cardinality(L) <= h) PROVE FALSE
    OBVIOUS
  <2>2. L \in SUBSET D
    OBVIOUS
  <2>3. IsFiniteSet(L) /\ Cardinality(L) \in Nat
    BY <1>3, <2>2
  <2>4. h < Cardinality(L)
    BY <1>1, <2>1, <2>3
  <2>5. \A i \in L : i \in D /\ Less(rates[i], rates[k]) /\ rates[i] \in Fractions
    BY <1>4
  <2> HIDE DEF L
  <2>6. L # {}
    <3>1. Cardinality(L) # 0
      BY <1>1, <2>3, <2>4
    <3> QED
      BY <3>1, FS_EmptySet
  <2>7. PICK s \in L : \A i \in L : ~Less(rates[s], rates[i])
    BY <2>3, <2>5, <2>6, GreatestFraction
  <2> DEFINE U == Upto(rates[s])
  <2>8. U \in SUBSET D /\ L \subseteq U
    BY <2>5, <2>7
  <2> HIDE DEF U
  <2>9. IsFiniteSet(U) /\ Cardinality(U) \in Nat /\ Cardinality(L) <= Cardinality(U)
    BY <1>3, <2>8, FS_Subset
  <2>10. h < Cardinality(U)
    BY <1>1, <2>3, <2>4, <2>9
  <2>11. s \in C
    BY <2>5, <2>10 DEF C, U
  <2> QED
    BY <1>9, <2>5, <2>11
<1> HIDE DEF Below, Upto
<1>12. \E r \in {rates[i] : i \in D} : Cardinality(Below(r)) <= h /\ h < Cardinality(Upto(r))
  BY <1>10, <1>11
<1>13. Median(rates) \in {rates[i] : i \in D}
  BY <1>5, <1>12
<1> QED
  BY <1>13 DEF D

\* The points that a rate is taken from: times and amounts.
IsSeries(series) ==
  /\ Len(series) \in Nat /\ DOMAIN series = 1 .. Len(series)
  /\ series = [i \in 1 .. Len(series) |-> series[i]]
  /\ \A i \in 1 .. Len(series) : series[i].t \in Nat /\ series[i].used \in Nat

Steep(g) == g[2].t - g[1].t >= 1 /\ g[2].used > g[1].used
Pairs(series) == [i \in 1 .. Len(series) - 1 |-> <<series[i], series[i + 1]>>]

LEMMA FunLen ==
  ASSUME NEW n \in Nat, NEW s, DOMAIN s = 1 .. n, s = [i \in 1 .. n |-> s[i]] PROVE Len(s) = n
<1> DEFINE R == {s[i] : i \in 1 .. n}
<1>1. \A i \in 1 .. n : s[i] \in R
  OBVIOUS
<1> HIDE DEF R
<1>2. s \in [1 .. n -> R]
  BY <1>1
<1>3. s \in Seq(R)
  BY <1>2, SeqDef
<1>4. DOMAIN s = 1 .. Len(s) /\ Len(s) \in Nat
  BY <1>3, LenProperties
<1> QED
  BY <1>4

GapsOf(gaps, series) ==
  LET ps == Pairs(series)
  IN /\ \E P : Picks(gaps, ps, P, Len(ps)) /\ \A n \in 1 .. Len(ps) : P[n] <=> Steep(ps[n])
     /\ Len(ps) \in Nat /\ DOMAIN ps = 1 .. Len(ps)
     /\ PositiveRates(series) =
          [i \in DOMAIN gaps |-> <<gaps[i][2].used - gaps[i][1].used, gaps[i][2].t - gaps[i][1].t>>]

LEMMA GapsPick ==
  ASSUME NEW series, Len(series) \in Nat
  PROVE  \E gaps : GapsOf(gaps, series)
<1> DEFINE ps == Pairs(series)
           L == Len(ps)
           P == [n \in 1 .. L |-> Steep(ps[n])]
           H(f) == f = [n \in 0 .. L |->
                          IF n = 0 THEN <<>>
                          ELSE IF ps[n][2].t - ps[n][1].t >= 1 /\ ps[n][2].used > ps[n][1].used
                               THEN Append(f[n - 1], ps[n]) ELSE f[n - 1]]
           c == CHOOSE f : H(f)
           gaps == c[L]
<1>1. PositiveRates(series) =
        [i \in DOMAIN gaps |-> <<gaps[i][2].used - gaps[i][1].used, gaps[i][2].t - gaps[i][1].t>>]
  BY DEF PositiveRates, Filtered, Pairs
<1>2. L \in Nat /\ DOMAIN ps = 1 .. L
  <2>1. CASE Len(series) = 0
    <3>1. 1 .. Len(series) - 1 = 1 .. 0
      BY <2>1
    <3>2. DOMAIN ps = 1 .. 0 /\ ps = [i \in 1 .. 0 |-> ps[i]]
      BY <3>1 DEF Pairs
    <3>3. L = 0
      BY <3>2, FunLen
    <3> QED
      BY <3>2, <3>3
  <2>2. CASE Len(series) > 0
    <3>1. Len(series) - 1 \in Nat /\ DOMAIN ps = 1 .. Len(series) - 1
      BY <2>2 DEF Pairs
    <3>2. ps = [i \in 1 .. Len(series) - 1 |-> ps[i]]
      BY DEF Pairs
    <3>3. L = Len(series) - 1
      BY <3>1, <3>2, FunLen
    <3> QED
      BY <3>1, <3>3
  <2> QED
    BY <2>1, <2>2
<1> HIDE DEF ps, L
<1>3. \A n \in 1 .. L : P[n] <=> Steep(ps[n])
  BY Zenon
<1>4. ASSUME NEW f PROVE H(f) <=> Keeps(f, ps, P)
  <2>1. \A n \in 0 .. L : n # 0 => (P[n] <=> ps[n][2].t - ps[n][1].t >= 1 /\ ps[n][2].used > ps[n][1].used)
    <3>1. \A n \in 0 .. L : n # 0 => n \in 1 .. L
      BY <1>2
    <3> HIDE DEF P
    <3> QED
      BY <1>3, <3>1 DEF Steep
  <2> HIDE DEF P
  <2> QED
    BY <2>1 DEF Keeps, L
<1> HIDE DEF P, H
<1>5. \E f : H(f)
  BY <1>2, <1>4, KeepsExists DEF L
<1>6. H(c)
  BY <1>5
<1> HIDE DEF c
<1>7. Keeps(c, ps, P)
  BY <1>4, <1>6
<1>8. Picks(gaps, ps, P, L)
  BY <1>2, <1>7, KeepsPicks DEF L
<1> HIDE DEF gaps
<1>9. \E Q : Picks(gaps, ps, Q, L) /\ \A n \in 1 .. L : Q[n] <=> Steep(ps[n])
  BY <1>3, <1>8
<1>10. GapsOf(gaps, series)
  BY <1>1, <1>2, <1>9 DEF GapsOf, ps, L
<1> QED
  BY <1>10

\* Rates are of neighbours between which time passed and the amount grew.
LEMMA RatesArePositive ==
  ASSUME NEW series, IsSeries(series), NEW rates, rates = PositiveRates(series)
  PROVE  /\ Len(rates) \in Nat /\ DOMAIN rates = 1 .. Len(rates)
         /\ \A i \in 1 .. Len(rates) : rates[i] \in Rates
         /\ rates # <<>> => Len(rates) # 0 /\ Len(series) # 0
<1> DEFINE ps == Pairs(series)
           L == Len(ps)
<1>1. PICK gaps : GapsOf(gaps, series)
  BY GapsPick DEF IsSeries
<1>2. PICK P : Picks(gaps, ps, P, L) /\ \A n \in 1 .. L : P[n] <=> Steep(ps[n])
  BY <1>1 DEF GapsOf
<1>3. /\ L \in Nat /\ DOMAIN ps = 1 .. L
      /\ rates = [i \in DOMAIN gaps |-> <<gaps[i][2].used - gaps[i][1].used, gaps[i][2].t - gaps[i][1].t>>]
  BY <1>1 DEF GapsOf
<1>4. \A n \in 1 .. L : /\ ps[n] = <<series[n], series[n + 1]>>
                         /\ n \in 1 .. Len(series) /\ n + 1 \in 1 .. Len(series)
  <2>1. DOMAIN ps = 1 .. Len(series) - 1 /\ Len(series) \in Nat
    BY DEF Pairs, IsSeries
  <2>2. \A n \in DOMAIN ps : n \in 1 .. Len(series) /\ n + 1 \in 1 .. Len(series)
    BY <2>1
  <2>3. \A n \in DOMAIN ps : ps[n] = <<series[n], series[n + 1]>>
    BY DEF Pairs
  <2> QED
    BY <1>3, <2>2, <2>3
<1> HIDE DEF ps, L
<1>5. /\ Len(gaps) \in Nat /\ DOMAIN gaps = 1 .. Len(gaps)
      /\ \A i \in DOMAIN gaps : PickedFrom(gaps[i], ps, P, L)
  BY <1>2, <1>3, PicksShape
<1>6. ASSUME NEW i \in 1 .. Len(gaps) PROVE rates[i] \in Rates
  <2>1. PICK n \in 1 .. L : P[n] /\ gaps[i] = ps[n]
    BY <1>5 DEF PickedFrom
  <2>2. Steep(ps[n])
    BY <1>2, <2>1
  <2> DEFINE x == series[n]
             y == series[n + 1]
  <2>3. gaps[i][1] = x /\ gaps[i][2] = y
    BY <1>4, <2>1
  <2>4. x.t \in Nat /\ x.used \in Nat /\ y.t \in Nat /\ y.used \in Nat
    BY <1>4 DEF IsSeries
  <2>5. y.t - x.t >= 1 /\ y.used > x.used
    BY <2>1, <2>2, <2>3 DEF Steep
  <2>6. rates[i] = <<y.used - x.used, y.t - x.t>>
    BY <1>3, <1>5, <2>3
  <2> HIDE DEF x, y
  <2>7. y.used - x.used \in Nat \ {0} /\ y.t - x.t \in Nat \ {0}
    BY <2>4, <2>5
  <2> QED
    BY <2>6, <2>7 DEF Rates
<1>7. DOMAIN rates = 1 .. Len(gaps) /\ rates = [i \in 1 .. Len(gaps) |-> rates[i]]
  BY <1>3, <1>5
<1>8. Len(rates) = Len(gaps)
  BY <1>5, <1>7, FunLen
<1>9. rates # <<>> => Len(rates) # 0
  <2>1. ASSUME Len(rates) = 0 PROVE rates = <<>>
    <3>1. rates = [i \in 1 .. 0 |-> rates[i]]
      BY <1>7, <1>8, <2>1
    <3>2. [i \in 1 .. 0 |-> rates[i]] = <<>>
      OBVIOUS
    <3> QED
      BY <3>1, <3>2
  <2> QED
    BY <2>1
<1>10. Len(rates) # 0 => Len(series) # 0
  <2>1. ASSUME Len(rates) # 0 PROVE Len(series) # 0
    <3>1. 1 \in DOMAIN gaps
      BY <1>5, <1>8, <2>1
    <3>2. PICK n \in 1 .. L : gaps[1] = ps[n]
      BY <1>5, <3>1 DEF PickedFrom
    <3>3. n \in 1 .. Len(series)
      BY <1>4
    <3> QED
      BY <3>3 DEF IsSeries
  <2> QED
    BY <2>1
<1> QED
  BY <1>5, <1>6, <1>7, <1>8, <1>9, <1>10

LEMMA SeriesEnds ==
  ASSUME NEW series, IsSeries(series), series # <<>>, NEW last, last = Final(series)
  PROVE  last.used \in Nat /\ last.t \in Nat /\ series[1].used \in Nat /\ series[1].t \in Nat
<1>1. Len(series) # 0
  <2>1. ASSUME Len(series) = 0 PROVE FALSE
    <3>1. series = [i \in 1 .. 0 |-> series[i]]
      BY <2>1 DEF IsSeries
    <3>2. [i \in 1 .. 0 |-> series[i]] = <<>>
      OBVIOUS
    <3> QED
      BY <3>1, <3>2
  <2> QED
    BY <2>1
<1>2. 1 \in 1 .. Len(series) /\ Len(series) \in 1 .. Len(series)
  BY <1>1 DEF IsSeries
<1> QED
  BY <1>2 DEF IsSeries, Final

\* A rate is a positive amount in a positive time.
LEMMA RateIsPositive ==
  ASSUME NEW pl \in Plans, NEW w \in Nat, NEW series, IsSeries(series), NEW r, r = Rate(series, w, pl).rate
  PROVE  r = None \/ r \in Rates
<1> DEFINE rates == PositiveRates(series)
           last == Final(series)
           first == series[1]
           n == Len(rates)
<1>1. /\ n \in Nat /\ DOMAIN rates = 1 .. n /\ \A i \in 1 .. n : rates[i] \in Rates
      /\ rates # <<>> => n # 0 /\ Len(series) # 0
  BY RatesArePositive
<1>2. series # <<>> => last.used \in Nat /\ last.t \in Nat /\ first.used \in Nat /\ first.t \in Nat
  BY SeriesEnds
<1>3. r = IF rates # <<>> THEN Damped(Median(rates), series)
          ELSE IF w > pl.eta.minWall /\ series # <<>> /\ last.used > 0 THEN <<last.used, w>>
          ELSE None
  BY DEF Rate
<1>4. Damped(Median(rates), series) =
        IF last.used > first.used /\ last.t > first.t
             /\ Less(<<3 * (last.used - first.used), 2 * (last.t - first.t)>>, Median(rates))
        THEN <<3 * (last.used - first.used), 2 * (last.t - first.t)>> ELSE Median(rates)
  BY DEF Damped
<1>5. CASE rates # <<>>
  <2> DEFINE m == Median(rates)
             p == 3 * (last.used - first.used)
             q == 2 * (last.t - first.t)
  <2>1. n \in Nat \ {0} /\ series # <<>>
    <3>1. Len(<<>>) = 0
      OBVIOUS
    <3> QED
      BY <1>1, <1>5, <3>1
  <2>2. \A i \in 1 .. n : rates[i] \in Fractions
    BY <1>1, RateShape
  <2>3. m \in {rates[i] : i \in 1 .. n}
    BY <1>1, <2>1, <2>2, MedianIsOne
  <2>4. m \in Rates
    BY <1>1, <2>3
  <2>5. last.used > first.used /\ last.t > first.t => p \in Nat \ {0} /\ q \in Nat \ {0}
    BY <1>2, <2>1
  <2>6. r = IF last.used > first.used /\ last.t > first.t /\ Less(<<p, q>>, m) THEN <<p, q>> ELSE m
    BY <1>3, <1>4, <1>5
  <2> HIDE DEF m, p, q
  <2>7. last.used > first.used /\ last.t > first.t => <<p, q>> \in Rates
    BY <2>5 DEF Rates
  <2> QED
    BY <2>4, <2>6, <2>7
<1>6. CASE rates = <<>> /\ w > pl.eta.minWall /\ series # <<>> /\ last.used > 0
  <2>1. r = <<last.used, w>>
    BY <1>3, <1>6
  <2>2. w \in Nat \ {0} /\ last.used \in Nat \ {0}
    <3>1. pl.eta.minWall \in Nat
      BY PlanShape
    <3> QED
      BY <1>2, <1>6, <3>1
  <2> QED
    BY <2>1, <2>2 DEF Rates
<1> QED
  BY <1>3, <1>5, <1>6

\* An estimate is a fraction, and zero of what is used up only.
LEMMA EtaShape ==
  ASSUME NEW pl \in Plans, NEW w \in Nat, NEW series, IsSeries(series), NEW remaining \in Nat,
         NEW e, e = Forecast(remaining, series, w, pl).eta
  PROVE  /\ e = None \/ (e \in Fractions /\ (e[1] = 0 => remaining = 0))
         /\ pl.eta.on /\ remaining = 0 => e = <<0, 1>>
<1> DEFINE r == Rate(series, w, pl).rate
<1>1. e = IF ~pl.eta.on THEN None
          ELSE IF remaining = 0 THEN <<0, 1>>
          ELSE IF r = None THEN None
          ELSE <<remaining * r[2], r[1]>>
  BY DEF Forecast
<1>2. r = None \/ r \in Rates
  BY RateIsPositive
<1> HIDE DEF r
<1>3. <<0, 1>> \in Fractions /\ <<0, 1>>[1] = 0
  BY DEF Fractions
<1>4. CASE pl.eta.on /\ remaining # 0 /\ r # None
  <2>1. e = <<remaining * r[2], r[1]>>
    BY <1>1, <1>4
  <2>2. r[1] \in Nat /\ r[1] > 0 /\ r[2] \in Nat /\ r[2] > 0
    BY <1>2, <1>4, RateShape
  <2> DEFINE p == remaining * r[2]
  <2>3. p \in Nat /\ p > 0
    BY <1>4, <2>2, PositiveProduct
  <2> HIDE DEF p
  <2>4. e = <<p, r[1]>>
    BY <2>1 DEF p
  <2>5. e \in Fractions /\ e[1] = p
    BY <2>2, <2>3, <2>4 DEF Fractions
  <2> QED
    BY <1>4, <2>3, <2>5
<1>5. CASE ~(pl.eta.on /\ remaining # 0 /\ r # None)
  BY <1>1, <1>3, <1>5
<1> QED
  BY <1>4, <1>5

-----------------------------------------------------------------------------
(* What a frame shows                                                      *)

Eta(line) == line.forecast.eta

\* Lines of the panel, with or without an estimate.
IsPanel(lines) ==
  /\ Len(lines) \in Nat /\ DOMAIN lines = 1 .. Len(lines)
  /\ \A i \in 1 .. Len(lines) : lines[i] # None /\ (Eta(lines[i]) = None \/ Eta(lines[i]) \in Fractions)

First(told, i) ==
  /\ \A j \in DOMAIN told : ~Less(Eta(told[j]), Eta(told[i]))
  /\ \A j \in 1 .. i - 1 : Less(Eta(told[i]), Eta(told[j]))

\* Of some estimates there is a first that no other is less than.
LEMMA FirstExists ==
  ASSUME NEW told, Len(told) \in Nat, DOMAIN told = 1 .. Len(told), Len(told) # 0,
         \A i \in DOMAIN told : Eta(told[i]) \in Fractions
  PROVE  \E i \in DOMAIN told : First(told, i)
<1> DEFINE D == DOMAIN told
           v == [i \in D |-> Eta(told[i])]
           M == {i \in D : \A j \in D : ~Less(v[j], v[i])}
<1>1. IsFiniteSet(D)
  <2>1. 1 \in Int /\ Len(told) \in Int
    OBVIOUS
  <2>2. IsFiniteSet(1 .. Len(told))
    BY <2>1, FS_Interval
  <2> QED
    BY <2>2
<1>2. D # {} /\ D \subseteq Nat
  BY DEF D
<1>3. \A i \in D : v[i] = Eta(told[i]) /\ v[i] \in Fractions
  OBVIOUS
<1>4. \A i \in D : \A j \in 1 .. i - 1 : j \in D /\ j < i
  OBVIOUS
<1> HIDE DEF D, v
<1>5. \E m \in D : \A j \in D : ~Less(v[j], v[m])
  BY <1>1, <1>2, <1>3, LeastFraction
<1>6. M # {} /\ M \in SUBSET Nat
  BY <1>2, <1>5
<1> HIDE DEF M
<1>7. PICK i \in M : \A j \in M : i <= j
  BY <1>6, LeastNat
<1>8. i \in D /\ i \in Nat /\ \A j \in D : ~Less(v[j], v[i])
  BY <1>2, <1>7 DEF M
<1>9. ASSUME NEW j \in 1 .. i - 1 PROVE Less(v[i], v[j])
  <2>1. j \in D /\ j < i /\ j \in Nat
    BY <1>2, <1>4, <1>8
  <2>2. j \notin M
    BY <1>7, <1>8, <2>1
  <2>3. PICK k \in D : Less(v[k], v[j])
    BY <2>1, <2>2 DEF M
  <2>4. ASSUME ~Less(v[i], v[j]) PROVE FALSE
    <3>1. Less(v[k], v[i])
      BY <1>3, <1>8, <2>1, <2>3, <2>4, LessBelow
    <3> QED
      BY <1>8, <3>1
  <2> QED
    BY <2>4
<1>10. First(told, i)
  BY <1>3, <1>4, <1>8, <1>9 DEF First, D
<1> QED
  BY <1>8, <1>10 DEF D

ToldOf(told, lines) ==
  \E P : Picks(told, lines, P, Len(lines)) /\ \A n \in 1 .. Len(lines) : P[n] <=> Eta(lines[n]) # None

LEMMA ToldPick ==
  ASSUME NEW lines, IsPanel(lines)
  PROVE  \E told : /\ ToldOf(told, lines)
                   /\ Nearest(lines) = IF told = <<>> THEN None ELSE told[CHOOSE i \in DOMAIN told : First(told, i)]
<1> DEFINE L == Len(lines)
           P == [n \in 1 .. L |-> Eta(lines[n]) # None]
           H(f) == f = [n \in 0 .. L |->
                          IF n = 0 THEN <<>>
                          ELSE IF lines[n].forecast.eta # None THEN Append(f[n - 1], lines[n]) ELSE f[n - 1]]
           c == CHOOSE f : H(f)
           told == c[L]
<1>1. Nearest(lines) = IF told = <<>> THEN None ELSE told[CHOOSE i \in DOMAIN told : First(told, i)]
  BY DEF Nearest, Filtered, First, Eta
<1>2. L \in Nat
  BY DEF IsPanel
<1>3. \A n \in 1 .. L : P[n] <=> Eta(lines[n]) # None
  BY Zenon
<1>4. ASSUME NEW f PROVE H(f) <=> Keeps(f, lines, P)
  <2>1. \A n \in 0 .. L : n # 0 => (P[n] <=> lines[n].forecast.eta # None)
    <3>1. \A n \in 0 .. L : n # 0 => n \in 1 .. L
      BY <1>2
    <3> HIDE DEF P
    <3> QED
      BY <1>3, <3>1 DEF Eta
  <2> HIDE DEF P
  <2> QED
    BY <2>1 DEF Keeps
<1> HIDE DEF P, H
<1>5. \E f : H(f)
  BY <1>2, <1>4, KeepsExists
<1>6. H(c)
  BY <1>5
<1> HIDE DEF c
<1>7. Keeps(c, lines, P)
  BY <1>4, <1>6
<1>8. Picks(told, lines, P, L)
  BY <1>2, <1>7, KeepsPicks
<1> HIDE DEF told
<1>9. \E Q : Picks(told, lines, Q, L) /\ \A n \in 1 .. L : Q[n] <=> Eta(lines[n]) # None
  BY <1>3, <1>8
<1>10. ToldOf(told, lines)
  BY <1>9 DEF ToldOf
<1> QED
  BY <1>1, <1>10

\* With an estimate on the panel, the nearest is a line with one, and no other
\* estimate is less.
LEMMA NearestIsLeast ==
  ASSUME NEW lines, IsPanel(lines), NEW i \in 1 .. Len(lines), Eta(lines[i]) # None,
         NEW near, near = Nearest(lines)
  PROVE  /\ near # None
         /\ \E k \in 1 .. Len(lines) : near = lines[k]
         /\ Eta(near) \in Fractions /\ ~Less(Eta(lines[i]), Eta(near))
<1>1. PICK told : /\ ToldOf(told, lines)
                  /\ near = IF told = <<>> THEN None ELSE told[CHOOSE k \in DOMAIN told : First(told, k)]
  BY ToldPick
<1>2. PICK P : Picks(told, lines, P, Len(lines)) /\ \A n \in 1 .. Len(lines) : P[n] <=> Eta(lines[n]) # None
  BY <1>1 DEF ToldOf
<1>3. Len(lines) \in Nat
  BY DEF IsPanel
<1>4. /\ Len(told) \in Nat /\ DOMAIN told = 1 .. Len(told)
      /\ \A k \in DOMAIN told : PickedFrom(told[k], lines, P, Len(lines))
  BY <1>2, <1>3, PicksShape
<1>5. ASSUME NEW k \in DOMAIN told
      PROVE  (\E n \in 1 .. Len(lines) : told[k] = lines[n]) /\ Eta(told[k]) \in Fractions
  <2>1. PICK n \in 1 .. Len(lines) : P[n] /\ told[k] = lines[n]
    BY <1>4 DEF PickedFrom
  <2>2. Eta(lines[n]) # None
    BY <1>2, <2>1
  <2> QED
    BY <2>1, <2>2 DEF IsPanel
<1>6. PICK j \in DOMAIN told : told[j] = lines[i]
  <2>1. P[i]
    BY <1>2
  <2>2. PICK j \in 1 .. Len(told) : told[j] = lines[i]
    BY <1>2, <2>1 DEF Picks
  <2> QED
    BY <1>4, <2>2
<1>7. Len(told) # 0 /\ told # <<>>
  <2>1. Len(told) # 0
    BY <1>4, <1>6
  <2>2. Len(<<>>) = 0
    OBVIOUS
  <2> QED
    BY <2>1, <2>2
<1> DEFINE k == CHOOSE k \in DOMAIN told : First(told, k)
<1>8. k \in DOMAIN told /\ First(told, k)
  <2>1. \E x \in DOMAIN told : First(told, x)
    BY <1>4, <1>5, <1>7, FirstExists
  <2> QED
    BY <2>1
<1>9. near = told[k]
  BY <1>1, <1>7
<1> HIDE DEF k
<1>10. ~Less(Eta(lines[i]), Eta(near))
  BY <1>6, <1>8, <1>9 DEF First
<1>11. PICK n \in 1 .. Len(lines) : near = lines[n]
  BY <1>5, <1>8, <1>9
<1>12. near # None
  BY <1>11 DEF IsPanel
<1>13. Eta(near) \in Fractions
  BY <1>5, <1>8, <1>9
<1> QED
  BY <1>10, <1>11, <1>12, <1>13

\* A line has the estimate of its meter: none, or a fraction that is zero when
\* what the cap leaves is used up, and only then.
LEMMA LineShape ==
  ASSUME NEW pl \in Plans, NEW w \in Nat, NEW samples \in Seq(Points), NEW m,
         m.kind \in Kinds, m.spent \in Nat, m.reserved \in Nat, m.max \in Nat,
         NEW line, line = Item(pl, m, samples, w)
  PROVE  /\ line # None /\ line.meter = m
         /\ Eta(line) = None \/ Eta(line) \in Fractions
         /\ Eta(line) # None /\ Eta(line)[1] = 0 => m.spent + m.reserved >= m.max
         /\ pl.eta.on /\ m.spent + m.reserved >= m.max => Eta(line) = <<0, 1>>
<1> DEFINE series == Series(samples, m.kind)
           points == [i \in DOMAIN series |->
                        [t |-> series[i].t, used |-> Committed(series[i].spent, series[i].reserved)]]
           P == [n \in 1 .. Len(samples) |-> samples[n].kind = m.kind]
<1>1. Len(samples) \in Nat /\ DOMAIN samples = 1 .. Len(samples) /\ \A i \in 1 .. Len(samples) : samples[i] \in Points
  BY LenProperties
<1>2. Picks(series, samples, P, Len(samples))
  BY <1>1, SeriesPicks
<1> HIDE DEF P
<1>3. /\ Len(series) \in Nat /\ DOMAIN series = 1 .. Len(series)
      /\ \A i \in DOMAIN series : PickedFrom(series[i], samples, P, Len(samples))
  BY <1>1, <1>2, PicksShape
<1>4. \A i \in DOMAIN series : series[i] \in Points
  BY <1>1, <1>3 DEF PickedFrom
<1>5. line = [meter |-> m, forecast |-> Forecast(Remaining(m), points, w, pl)]
  BY DEF Item
<1> HIDE DEF series
<1>6. ASSUME NEW i \in 1 .. Len(series) PROVE points[i].t \in Nat /\ points[i].used \in Nat
  <2>1. series[i].t \in Nat /\ series[i].spent \in Nat /\ series[i].reserved \in Nat
    BY <1>3, <1>4 DEF Points
  <2> QED
    BY <1>3, <2>1 DEF Committed
<1>7. DOMAIN points = 1 .. Len(series) /\ points = [i \in 1 .. Len(series) |-> points[i]]
  BY <1>3
<1> HIDE DEF points
<1>8. Len(points) = Len(series)
  BY <1>3, <1>7, FunLen
<1>9. IsSeries(points)
  BY <1>3, <1>6, <1>7, <1>8 DEF IsSeries
<1> DEFINE room == Remaining(m)
           e == Forecast(room, points, w, pl).eta
<1>10. room \in Nat /\ (room = 0 <=> m.spent + m.reserved >= m.max)
  BY DEF Remaining, Committed
<1> HIDE DEF room
<1>11. /\ e = None \/ (e \in Fractions /\ (e[1] = 0 => room = 0))
       /\ pl.eta.on /\ room = 0 => e = <<0, 1>>
  BY <1>9, <1>10, EtaShape
<1>12. line.meter = m /\ Eta(line) = e
  BY <1>5 DEF Eta, room
<1>13. line # None
  BY <1>5 DEF None
<1> HIDE DEF e
<1> QED
  BY <1>10, <1>11, <1>12, <1>13

\* A frame has a line for every meter, and its meters tell what was counted when
\* it looked.
LEMMA FrameShape ==
  ASSUME Typed, Flowing, Counts
  PROVE  LET lines == Frame.items
         IN /\ IsPanel(lines) /\ Frame.nearest = Nearest(lines)
            /\ \A i \in 1 .. Len(lines) :
                 LET m == lines[i].meter
                 IN /\ m.state = "exhausted" <=> m.spent + m.reserved >= m.max
                    /\ m.max \in Nat /\ m.spent \in Nat /\ m.reserved \in Nat
                    /\ m.kind = "actor_calls" => m.spent + m.reserved >= seen.load
                    /\ Eta(lines[i]) # None /\ Eta(lines[i])[1] = 0 => m.state = "exhausted"
                    /\ plan.eta.on /\ m.state = "exhausted" => Eta(lines[i]) = <<0, 1>>
<1> DEFINE samples == FrameSamples
           meters == Meters(plan, samples, wall)
           lines == [i \in DOMAIN meters |-> Item(plan, meters[i], samples, wall)]
<1>1. Frame.items = lines /\ Frame.nearest = Nearest(lines)
  BY DEF Frame, Snapshot
<1>2. Shows(meters, plan, FrameCount, wall)
  BY FrameMeters
<1>3. /\ FrameCount \in Tallies /\ FrameCount.actor_calls = seen.events.invoked
      /\ FrameCount.in_flight = InFlight(seen.events)
      /\ samples = Samples(plan, FrameCount, wall, history)
  BY FrameTyped
<1>4. plan \in Plans /\ wall \in Nat /\ history \in Seq(Points)
  BY DEF Typed
<1>5. samples \in Seq(Points)
  <2>1. ASSUME NEW pl, NEW counted, NEW w, NEW past, pl = plan, counted = FrameCount, w = wall, past = history
        PROVE  Samples(pl, counted, w, past) \in Seq(Points)
    <3>1. pl \in Plans /\ counted \in Tallies /\ w \in Nat /\ past \in Seq(Points)
      BY <1>3, <1>4, <2>1
    <3> QED
      BY <3>1, SamplesShape
  <2> QED
    BY <1>3, <2>1
<1> HIDE DEF samples, meters
<1>6. /\ Len(meters) \in Nat /\ DOMAIN lines = 1 .. Len(meters)
      /\ lines = [i \in 1 .. Len(meters) |-> lines[i]]
      /\ \A i \in 1 .. Len(meters) : lines[i] = Item(plan, meters[i], samples, wall)
  BY <1>2 DEF Shows
<1> HIDE DEF lines
<1>7. Len(lines) = Len(meters)
  BY <1>6, FunLen
<1>8. ASSUME NEW i \in 1 .. Len(meters), NEW m, m = meters[i]
      PROVE  /\ m.kind \in Kinds /\ m.spent \in Nat /\ m.reserved \in Nat /\ m.max \in Nat
             /\ m.spent = Now(m.kind, FrameCount, wall).spent /\ m.reserved = Now(m.kind, FrameCount, wall).reserved
             /\ m.state = "exhausted" <=> m.spent + m.reserved >= m.max
  <2>1. PICK c \in 1 .. Len(plan.caps) : meters[i] = Current(plan, plan.caps[c], FrameCount, wall)
    BY <1>2 DEF Shows
  <2>2. ASSUME NEW pl, NEW counted, NEW w, pl = plan, counted = FrameCount, w = wall
        PROVE  /\ m.kind \in Kinds /\ m.spent \in Nat /\ m.reserved \in Nat /\ m.max \in Nat
               /\ m.spent = Now(m.kind, counted, w).spent /\ m.reserved = Now(m.kind, counted, w).reserved
               /\ m.state = "exhausted" <=> m.spent + m.reserved >= m.max
    <3>1. pl \in Plans /\ counted \in Tallies /\ w \in Nat /\ c \in 1 .. Len(pl.caps)
          /\ m = Current(pl, pl.caps[c], counted, w)
      BY <1>3, <1>4, <1>8, <2>1, <2>2
    <3>2. m.kind \in Kinds /\ m.spent \in Nat /\ m.reserved \in Nat /\ m.max \in Nat
      BY <3>1, CurrentTyped
    <3>3. m.spent = Now(m.kind, counted, w).spent /\ m.reserved = Now(m.kind, counted, w).reserved
      BY <3>1, CurrentTyped
    <3>4. m.state = "exhausted" <=> m.spent + m.reserved >= m.max
      BY <3>1, CurrentTyped
    <3> QED
      BY <3>2, <3>3, <3>4
  <2> QED
    BY <2>2
<1>9. ASSUME NEW i \in 1 .. Len(meters), NEW m, m = meters[i], NEW line, line = lines[i]
      PROVE  /\ line # None /\ line.meter = m
             /\ Eta(line) = None \/ Eta(line) \in Fractions
             /\ Eta(line) # None /\ Eta(line)[1] = 0 => m.spent + m.reserved >= m.max
             /\ plan.eta.on /\ m.spent + m.reserved >= m.max => Eta(line) = <<0, 1>>
  <2>1. m.kind \in Kinds /\ m.spent \in Nat /\ m.reserved \in Nat /\ m.max \in Nat
    BY <1>8, <1>9
  <2>2. ASSUME NEW pl, NEW w, NEW s, pl = plan, w = wall, s = samples
        PROVE  /\ line # None /\ line.meter = m
               /\ Eta(line) = None \/ Eta(line) \in Fractions
               /\ Eta(line) # None /\ Eta(line)[1] = 0 => m.spent + m.reserved >= m.max
               /\ pl.eta.on /\ m.spent + m.reserved >= m.max => Eta(line) = <<0, 1>>
    <3>1. pl \in Plans /\ w \in Nat /\ s \in Seq(Points) /\ line = Item(pl, m, s, w)
      BY <1>4, <1>5, <1>6, <1>9, <2>2
    <3> QED
      BY <2>1, <3>1, LineShape
  <2> QED
    BY <2>2
<1>10. ASSUME NEW i \in 1 .. Len(meters), NEW m, m = meters[i], m.kind = "actor_calls"
       PROVE  m.spent + m.reserved >= seen.load
  <2> DEFINE c == FrameCount
  <2>1. c.actor_calls = seen.events.invoked /\ c.in_flight = InFlight(seen.events)
    BY <1>3
  <2> HIDE DEF c
  <2>2. Now("actor_calls", c, wall).spent = c.actor_calls /\ Now("actor_calls", c, wall).reserved = c.in_flight
    BY DEF Now, Sample
  <2>3. m.spent = c.actor_calls /\ m.reserved = c.in_flight
    BY <1>8, <1>10, <2>2 DEF c
  <2>4. seen.load <= seen.events.invoked + InFlight(seen.events) /\ seen.load \in Nat
    BY DEF Counts, Loaded
  <2>5. m.spent \in Nat /\ m.reserved \in Nat
    BY <1>8, <1>10
  <2> QED
    BY <2>1, <2>3, <2>4, <2>5
<1>11. \A i \in 1 .. Len(lines) : lines[i].meter = meters[i]
  BY <1>7, <1>9
<1>12. IsPanel(lines)
  BY <1>6, <1>7, <1>9 DEF IsPanel
<1>13. ASSUME NEW i \in 1 .. Len(lines), NEW m, m = lines[i].meter
       PROVE  /\ m.state = "exhausted" <=> m.spent + m.reserved >= m.max
              /\ m.max \in Nat /\ m.spent \in Nat /\ m.reserved \in Nat
              /\ m.kind = "actor_calls" => m.spent + m.reserved >= seen.load
              /\ Eta(lines[i]) # None /\ Eta(lines[i])[1] = 0 => m.state = "exhausted"
              /\ plan.eta.on /\ m.state = "exhausted" => Eta(lines[i]) = <<0, 1>>
  <2>1. m = meters[i] /\ i \in 1 .. Len(meters)
    BY <1>7, <1>11, <1>13
  <2>2. m.state = "exhausted" <=> m.spent + m.reserved >= m.max
    BY <1>8, <2>1
  <2>3. m.max \in Nat /\ m.spent \in Nat /\ m.reserved \in Nat
    BY <1>8, <2>1
  <2>4. m.kind = "actor_calls" => m.spent + m.reserved >= seen.load
    BY <1>10, <2>1
  <2>5. /\ Eta(lines[i]) # None /\ Eta(lines[i])[1] = 0 => m.spent + m.reserved >= m.max
        /\ plan.eta.on /\ m.spent + m.reserved >= m.max => Eta(lines[i]) = <<0, 1>>
    BY <1>9, <2>1
  <2> QED
    BY <2>2, <2>3, <2>4, <2>5
<1> QED
  BY <1>1, <1>12, <1>13

\* A frame is never behind the load at the time it looked, and the cap it names
\* as nearest is one that no other is expected to run out before.
THEOREM FramesShow == CliSpec => []FramesShowLoad
<1>1. Typed /\ Flowing /\ Counts => FramesShowLoad
  <2> SUFFICES ASSUME Typed, Flowing, Counts PROVE FramesShowLoad
    OBVIOUS
  <2> DEFINE f == Frame
             lines == f.items
             near == f.nearest
             out == {i \in DOMAIN lines : lines[i].meter.state = "exhausted"}
  <2>1. /\ IsPanel(lines) /\ near = Nearest(lines)
        /\ \A i \in 1 .. Len(lines) :
             LET m == lines[i].meter
             IN /\ m.state = "exhausted" <=> m.spent + m.reserved >= m.max
                /\ m.max \in Nat /\ m.spent \in Nat /\ m.reserved \in Nat
                /\ m.kind = "actor_calls" => m.spent + m.reserved >= seen.load
                /\ Eta(lines[i]) # None /\ Eta(lines[i])[1] = 0 => m.state = "exhausted"
                /\ plan.eta.on /\ m.state = "exhausted" => Eta(lines[i]) = <<0, 1>>
    BY FrameShape
  <2>2. DOMAIN lines = 1 .. Len(lines) /\ seen.load \in Nat
    BY <2>1 DEF IsPanel, Counts, Loaded
  <2> HIDE DEF f
  <2>3. ASSUME NEW i \in DOMAIN lines, lines[i].meter.kind = "actor_calls", seen.load >= lines[i].meter.max
        PROVE  i \in out
    <3> DEFINE m == lines[i].meter
    <3>1. /\ m.state = "exhausted" <=> m.spent + m.reserved >= m.max
          /\ m.max \in Nat /\ m.spent \in Nat /\ m.reserved \in Nat
          /\ m.spent + m.reserved >= seen.load /\ seen.load >= m.max
      BY <2>1, <2>2, <2>3
    <3> HIDE DEF m
    <3>2. m.state = "exhausted"
      BY <2>2, <3>1
    <3> QED
      BY <3>2 DEF m
  <2>4. ASSUME NEW i \in DOMAIN lines, Eta(lines[i]) # None
        PROVE  /\ near # None /\ (\E k \in DOMAIN lines : near = lines[k])
               /\ Eta(near) \in Fractions /\ ~Less(Eta(lines[i]), Eta(near))
    <3>1. ASSUME NEW ls, ls = lines, NEW n, n = near
          PROVE  /\ n # None /\ (\E k \in 1 .. Len(ls) : n = ls[k])
                 /\ Eta(n) \in Fractions /\ ~Less(Eta(ls[i]), Eta(n))
      <4>1. IsPanel(ls) /\ i \in 1 .. Len(ls) /\ Eta(ls[i]) # None /\ n = Nearest(ls)
        BY <2>1, <2>2, <2>4, <3>1
      <4> QED
        BY <4>1, NearestIsLeast
    <3> QED
      BY <2>2, <3>1
  <2>5. ASSUME plan.eta.on, out # {} PROVE near # None /\ near.meter.state = "exhausted"
    <3>1. PICK i \in DOMAIN lines : lines[i].meter.state = "exhausted"
      BY <2>5
    <3>2. Eta(lines[i]) = <<0, 1>>
      BY <2>1, <2>2, <2>5, <3>1
    <3>3. <<0, 1>> # None
      BY DEF None
    <3>4. /\ near # None /\ (\E k \in DOMAIN lines : near = lines[k])
          /\ Eta(near) \in Fractions /\ ~Less(<<0, 1>>, Eta(near))
      BY <2>4, <3>2, <3>3
    <3>5. Eta(near)[1] = 0 /\ Eta(near) # None
      <4> DEFINE e == Eta(near)
      <4>1. e[1] \in Nat /\ e[2] \in Nat /\ e # None /\ ~Less(<<0, 1>>, e)
        BY <3>4, FractionShape
      <4> HIDE DEF e
      <4>2. ~(0 * e[2] < e[1] * 1)
        BY <4>1 DEF Less
      <4>3. e[1] = 0
        BY <4>1, <4>2
      <4> QED
        BY <4>1, <4>3 DEF e
    <3>6. PICK k \in DOMAIN lines : near = lines[k]
      BY <3>4
    <3>7. near.meter.state = "exhausted"
      BY <2>1, <2>2, <3>5, <3>6
    <3> QED
      BY <3>4, <3>7
  <2>6. ASSUME NEW i \in DOMAIN lines, lines[i].forecast.eta # None
        PROVE  /\ near # None
               /\ lines[i].forecast.eta[1] * near.forecast.eta[2] >= near.forecast.eta[1] * lines[i].forecast.eta[2]
    <3> DEFINE e == Eta(lines[i])
               n == Eta(near)
    <3>1. near # None /\ n \in Fractions /\ ~Less(e, n)
      BY <2>4, <2>6 DEF Eta
    <3>2. e \in Fractions
      BY <2>1, <2>2, <2>6 DEF IsPanel, Eta
    <3>3. e = lines[i].forecast.eta /\ n = near.forecast.eta
      BY DEF Eta
    <3> HIDE DEF e, n
    <3>4. e[1] \in Nat /\ e[2] \in Nat /\ n[1] \in Nat /\ n[2] \in Nat
      BY <3>1, <3>2, FractionShape
    <3> DEFINE p == e[1] * n[2]
               q == n[1] * e[2]
    <3>5. p \in Nat /\ q \in Nat /\ ~(p < q)
      BY <3>1, <3>4, ProductNat DEF Less
    <3> HIDE DEF p, q
    <3>6. p >= q
      BY <3>5
    <3> QED
      BY <3>1, <3>3, <3>6 DEF p, q
  <2> QED
    BY <2>3, <2>5, <2>6 DEF FramesShowLoad, f
<1> QED
  BY <1>1, TypeCorrect, TotalsFlow, EventsCount, PTL
=============================================================================
