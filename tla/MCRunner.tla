------------------------------ MODULE MCRunner ------------------------------
(***************************************************************************)
(* Small workflows for the runner, each for a part of what it can do.      *)
(***************************************************************************)
EXTENDS RunnerProps, TLC

\* Two truths, the array of one null and the array of two, and one falsehood.
One == <<Null>>
Two == <<Null, Null>>
Nil == <<>>

Blank == [kind |-> "program", in |-> NoRef, out |-> NoRef, src |-> NoRef, body |-> NoNode,
          width |-> 0, min |-> 100, iters |-> 0, then |-> NoNode, else |-> NoNode,
          limit |-> NoLimit, as |-> "item", op |-> "copy"]

ProgramOf(op, in, out) == [Blank EXCEPT !.op = op, !.in = in, !.out = out]
ActorOf(in, out) == [Blank EXCEPT !.kind = "actor", !.in = in, !.out = out]
MapOf(src, as, width, min, body, out) ==
  [Blank EXCEPT !.kind = "map", !.src = src, !.as = as, !.width = width, !.min = min,
                !.body = body, !.out = out]
ForEachOf(src, as, body) ==
  [Blank EXCEPT !.kind = "for_each", !.src = src, !.as = as, !.body = body]
WhileOf(cond, iters, body) ==
  [Blank EXCEPT !.kind = "while", !.src = cond, !.iters = iters, !.body = body]
BranchOf(cond, then, else) ==
  [Blank EXCEPT !.kind = "branch", !.src = cond, !.then = then, !.else = else]
GroupOf(src, limit, body) ==
  [Blank EXCEPT !.kind = "session_group", !.src = src, !.limit = limit, !.body = body]
ResumeOf(src, body) ==
  [Blank EXCEPT !.kind = "resume_session", !.src = src, !.body = body]

\* The programs: copy the input, drop its first element, or fail.
MCRunProgram(op, in) ==
  CASE op = "copy" -> Ok(in)
    [] op = "shrink" -> Ok(IF in \in {Null, Nil} THEN Nil ELSE Tail(in))
    [] op = "fail" -> Err(DriveErr)

\* Session ids: the position of the session.
ById(item, i) == ToString(i)

SomeReplies == {One, Nil}
SomeOrNull == {One, Nil, Null}
OneReply == {One}

\* No limits and no goals, hosts that may fail.
Plain(nodes, entry, slots, args, replies) ==
  [nodes |-> nodes, entrypoint |-> entry, slots |-> slots, args |-> args,
   map_concurrency |-> 0, limits |-> [l \in {} |-> 1], goals |-> {}, terminate |-> FALSE,
   cancel_in_flight |-> FALSE, fail_on_unmet |-> FALSE, finalize |-> NoNode,
   replies |-> replies, hosts_fail |-> TRUE]

\* fan: a parallel map in chunks of two, then a serial map over its results,
\* in which the nulls of failed items fail again.
FanNodes ==
  [gather |-> MapOf("xs", "x", 2, 50, "ask", "ys"), ask |-> ActorOf("x", "draft"),
   judge |-> MapOf("ys", "item", 1, 50, "check", "zs"),
   check |-> ProgramOf("copy", "item", NoRef)]
Fan ==
  Plain(FanNodes, <<"gather", "judge">>,
        {"xs", "ys", "zs", "draft", "item", "x"},
        [xs |-> <<One, Nil, Two, One>>], SomeOrNull)

\* sessions: a group that takes strict turns (0 permits count as 1), then one
\* with two permits for three sessions, each a parallel map over its item.
SessionNodes ==
  [play |-> GroupOf("ss", "turn", "loop"), loop |-> WhileOf("item", 2, "ask"),
   ask |-> ActorOf("item", "draft"),
   work |-> GroupOf("ts", "desk", "share"), share |-> MapOf("item", "x", 2, 50, "part", NoRef),
   part |-> ActorOf("item", "draft")]
Turns ==
  Plain(SessionNodes, <<"play", "work">>,
        {"ss", "ts", "draft", "item", "x"},
        [ss |-> <<One, Two>>, ts |-> <<<<One, One>>, Nil, <<One>>>>], OneReply)
Sessions == [Turns EXCEPT !.limits = [turn |-> 0, desk |-> 2]]

\* free: sessions without a limit, whose bodies fail when a reply is null.
FreeNodes == [play |-> GroupOf("ss", NoLimit, "ask"), ask |-> ActorOf("item", "draft"),
              late |-> WhileOf("nothing", 1, "ask")]
Free ==
  Plain(FreeNodes, <<"play", "late">>,
        {"ss", "nothing", "draft", "item"},
        [ss |-> <<One, Two, One>>], SomeOrNull)

\* loops: a while over a for_each over a branch, then a resumed session, then
\* a branch on a slot nobody has written.
LoopNodes ==
  [turns |-> WhileOf("go", 2, "each"), each |-> ForEachOf("xs", "x", "pick"),
   pick |-> BranchOf("x", "ask", NoNode), ask |-> ActorOf("x", "go"),
   back |-> ResumeOf("xs", "recall"), recall |-> ActorOf("session", "memo"),
   lost |-> BranchOf("nothing", "ask", "ask")]
Passes ==
  Plain(LoopNodes, <<"turns", "back", "lost">>,
        {"go", "xs", "memo", "nothing", "item", "x", "session"},
        [go |-> One, xs |-> <<One, Nil, Two>>], SomeOrNull)
Loops ==
  [Passes EXCEPT !.goals = {[slot |-> "go", want |-> {Nil}, required |-> TRUE]},
                 !.terminate = TRUE, !.finalize = "nowhere"]

\* goals: a first answer may meet the goal; a map and a for_each follow.
GoalNodes ==
  [first |-> ActorOf(NoRef, "g"), fan |-> MapOf("xs", "x", 2, 50, "ask", "ys"),
   ask |-> ActorOf("x", NoRef), each |-> ForEachOf("xs", "x", "note"),
   note |-> ProgramOf("copy", "x", "last"), wrap |-> ActorOf(NoRef, "g")]
Goal ==
  [Plain(GoalNodes, <<"first", "fan", "each">>, {"g", "xs", "ys", "last", "item", "x"},
         [xs |-> <<One, Two, Nil>>], SomeReplies)
     EXCEPT !.goals = {[slot |-> "g", want |-> {One}, required |-> TRUE],
                       [slot |-> "ys", want |-> {Nil}, required |-> FALSE]},
            !.fail_on_unmet = TRUE]
GoalsEnd == [Goal EXCEPT !.terminate = TRUE, !.finalize = "wrap"]
GoalsCancel ==
  [Goal EXCEPT !.cancel_in_flight = TRUE, !.entrypoint = @ \o <<"wrap">>]

\* shrinking: a while whose passes map over a collection, then shorten it.
ShrinkNodes ==
  [passes |-> WhileOf("go", 2, "steps"), steps |-> ForEachOf("plan", "x", "step"),
   step |-> BranchOf("x", "fan", "trim"), fan |-> MapOf("xs", "item", 1, 0, "ask", NoRef),
   ask |-> ActorOf("item", NoRef), trim |-> ProgramOf("shrink", "xs", "xs")]
Shrinking ==
  Plain(ShrinkNodes, <<"passes">>,
        {"go", "plan", "xs", "item", "x"},
        [go |-> One, plan |-> <<One, Nil>>, xs |-> <<One, One>>], OneReply)

\* What the runs start from.
AllWorkflows == {Fan, Sessions, Free, Loops, GoalsEnd, GoalsCancel}
OnlyShrinking == {[Shrinking EXCEPT !.hosts_fail = FALSE]}
=============================================================================
