------------------------------ MODULE MCReplay ------------------------------
(* Small topologies for a run and its replay.                               *)
EXTENDS Replay, MCRunner

\* A parallel map whose failures are tolerated, then sessions taking turns on
\* its results; a null reply cannot be stored and fails the session.
PairNodes ==
  [gather |-> MapOf("xs", "x", 2, 50, "ask", "ys"), ask |-> ActorOf("x", NoRef),
   play |-> GroupOf("ys", "turn", "move"), move |-> ActorOf("item", "draft")]
Pair ==
  [Plain(PairNodes, <<"gather", "play">>, {"xs", "ys", "draft", "item", "x"},
         [xs |-> <<One, Nil>>], SomeOrNull) EXCEPT !.limits = [turn |-> 1]]

\* A resumed session whose body reads its checkpoint.
ResumeNodes == [back |-> ResumeOf("id", "recall"), recall |-> ActorOf("session", "memo")]
Resume ==
  Plain(ResumeNodes, <<"back">>, {"id", "memo", "item", "session"}, [id |-> One], OneReply)

OnlyPair == {Pair}
PairAndResume == {Pair, [Resume EXCEPT !.hosts_fail = FALSE]}
=============================================================================
