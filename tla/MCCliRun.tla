------------------------------ MODULE MCCliRun ------------------------------
(* Command lines with small topologies and budgets.                         *)
EXTENDS CliRun

Ref(literal, segs) == [literal |-> literal, segs |-> segs]
Part(kind, targets) ==
  [kind |-> kind, reads |-> {}, writes |-> {}, inRange |-> TRUE, targets |-> targets]
Graph(entry, nodes) == [entrypoint |-> entry, nodes |-> nodes]

\* A map of one actor, which reads its item and writes its verdict.
Audit ==
  Graph({"audit"},
    [audit |-> <<[Part("map", {}) EXCEPT !.reads = {Ref(FALSE, <<"ledger", "jobs">>)}],
                 [Part("program", {}) EXCEPT !.reads = {Ref(FALSE, <<"item">>), Ref(TRUE, <<"3">>)},
                                             !.writes = {Ref(FALSE, <<"ledger", "verdict">>)}]>>])

\* Branches between three nodes, in all ways, from one entrypoint or two.
Id == {"a", "b", "c"}
Branches ==
  {Graph(e, [n \in Id |-> <<Part(IF g[n] = {} THEN "program" ELSE "branch", g[n])>>]) :
     e \in {{"a"}, {"a", "c"}},
     g \in {f \in [Id -> SUBSET Id] : Cardinality(f["a"]) <= 2 /\ Cardinality(f["b"]) <= 1 /\ Cardinality(f["c"]) <= 1}}

\* One error each: a dangling id, a target, a reference, a parameter; the last
\* of a body's.
Flawed ==
  {Graph({"a", "x"}, [a |-> <<Part("program", {})>>]),
   Graph({"a"}, [a |-> <<Part("map", {}), Part("branch", {"x"})>>]),
   Graph({"a"}, [a |-> <<[Part("program", {}) EXCEPT !.reads = {Ref(FALSE, <<"ledger">>)}]>>]),
   Graph({"a"}, [a |-> <<[Part("program", {}) EXCEPT !.reads = {Ref(FALSE, <<"item", "">>)}]>>]),
   Graph({"a"}, [a |-> <<[Part("program", {}) EXCEPT !.writes = {Ref(FALSE, <<"item">>)}]>>]),
   Graph({"a"}, [a |-> <<Part("map", {}), [Part("while", {}) EXCEPT !.inRange = FALSE]>>])}

Cap(kind, max, hard) == [kind |-> kind, max |-> max, hard |-> hard, warn |-> 0]
Eta == [on |-> TRUE, minWall |-> 0, interval |-> 1]
Plan(caps) == [caps |-> caps, warn |-> 80, fail |-> TRUE, eta |-> Eta]

Unlimited == Plan(<<>>)
Calls == Plan(<<Cap("tokens", 2, FALSE), Cap("actor_calls", 2, TRUE)>>)
Wall == Plan(<<Cap("wall_seconds", 1, TRUE), Cap("actor_calls", 3, FALSE), Cap("tokens", 0, TRUE)>>)

NoArgs == [budgets |-> "none", overlay |-> <<>>]
Softened == [budgets |-> "object", overlay |-> [fail |-> FALSE, eta |-> [on |-> FALSE]]]

Cmd(do, spec, budgets) ==
  [do |-> do, spec |-> spec, plan |-> budgets, args |-> NoArgs, follow |-> FALSE, out |-> FALSE,
   trace |-> FALSE, tolerant |-> TRUE, actor |-> "codex", route |-> "native", home |-> FALSE,
   tracing |-> FALSE, effort |-> "none", dungeon |-> FALSE, reports |-> 1, retries |-> 0,
   seconds |-> 0]

Validations == {Cmd("validate", s, Unlimited) : s \in Branches \cup Flawed}
Plain == Cmd("run", Audit, Unlimited)
Fake == [Plain EXCEPT !.actor = "fake"]

\* What is refused, and what is not.
Routes ==
  {[Fake EXCEPT !.dungeon = TRUE]} \cup
  {[Fake EXCEPT !.args = [NoArgs EXCEPT !.budgets = b]] : b \in {"scalar", "mistyped"}} \cup
  {[Fake EXCEPT !.actor = "codex", !.route = r, !.home = h, !.tracing = t, !.effort = e] :
     r \in {"banned", "unmapped"}, h, t \in BOOLEAN, e \in {"none", "unsupported"}}

\* An invalid workflow, run with either thread.
Invalid ==
  {[Fake EXCEPT !.spec = s, !.follow = f] :
     s \in Flawed \cup {Graph({"a"}, [a |-> <<Part("branch", {"a"})>>])}, f \in BOOLEAN}

\* With a clock, for the estimates; with retries, for the totals.
Runs ==
  {[Plain EXCEPT !.plan = Calls, !.follow = TRUE, !.route = "proxied", !.tolerant = FALSE],
   [Plain EXCEPT !.plan = Calls, !.out = TRUE, !.trace = TRUE, !.reports = 2],
   [Plain EXCEPT !.plan = Unlimited, !.tolerant = FALSE, !.retries = 1],
   [Plain EXCEPT !.plan = Calls, !.out = TRUE, !.args = Softened],
   [Fake EXCEPT !.plan = Wall, !.follow = TRUE, !.out = TRUE, !.seconds = 1]}

AllCommands == Validations \cup Routes \cup Invalid \cup Runs
AllSpecs == {c.spec : c \in AllCommands}
=============================================================================
