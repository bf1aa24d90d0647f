------------------------------- MODULE CliRun -------------------------------
(***************************************************************************)
(* jesterky run (run_spec in main.rs): what the command refuses, the run   *)
(* and, beside it, the thread that drains the live stream (live.rs) and    *)
(* draws it; then the budgets' verdict, the files and the exit code.       *)
(* jesterky validate is its first half.                                    *)
(*                                                                         *)
(* The workflow is a parallel map of one actor, as in the examples; how    *)
(* the runner gets there is module Runner.  Its events are counted by      *)
(* kind.  Whole seconds pass on one clock.                                 *)
(***************************************************************************)
EXTENDS Budgets, Topology

CONSTANTS
  Commands,   \* the command lines, with what they find in the spec; and bounds:
              \* how often a session reports usage, how often a call starts
              \* over, how many seconds a run takes
  Shard       \* the items of the map: a call each

\* A plan that is read, alone or with its overlay, has the types of
\* ResourceBudgetPlan and of its caps.
ASSUME CommandAssumption ==
  \A c \in Commands :
    c.plan \in Plans /\ (~OverlayFails(c.args) => ResolvedPlan(c.plan, c.args) \in Plans)

ASSUME ShardAssumption == IsFiniteSet(Shard)

VARIABLES
  cmd,       \* the command line
  main,      \* where run_spec is
  proxy,     \* is the chat proxy up
  plan,      \* the resolved budget plan
  wall,      \* seconds since the run started
  items,     \* the runner: where each item is, and its call's retries and totals
  events,    \* what it has emitted, and how many calls it has recorded
  bus,       \* the channel of the live stream
  folded,    \* LiveStream.state: the totals drained so far
  thread,    \* where the follow thread is
  stop,      \* follow_stop
  seen,      \* the events the thread has copied, and the load at that time
  history,   \* its samples
  manifest,  \* what run has returned, with the verdict
  disk,      \* the files next to --out
  exit       \* how the command ended

runner == <<items, events>>
drawing == <<seen, history>>
follower == <<folded, thread, drawing>>
setting == <<cmd, plan, proxy>>
ending == <<manifest, disk, exit>>
vars == <<topoVars, setting, main, wall, runner, bus, follower, stop, ending>>

NoManifest == [status |-> "none", reason |-> "none", budgets |-> None]
Old == [is |-> "old"]
Torn == [is |-> "torn"]
New(content) == [is |-> "new", holds |-> content]
OldFiles == [manifest |-> Old, usage |-> Old, spec |-> Old, bundle |-> Old]
NoEvents == [started |-> 0, invoked |-> 0, settled |-> 0, terminal |-> "none", recorded |-> 0]
NoTotals == [i \in {} |-> 0]

CliInit ==
  /\ cmd \in Commands
  /\ topo = cmd.spec /\ TopoStart
  /\ main = "read" /\ proxy = FALSE /\ plan = cmd.plan /\ wall = 0
  /\ items = [i \in Shard |-> [at |-> "waiting", retries |-> 0, told |-> 0, reports |-> 0, sent |-> 0]]
  /\ events = NoEvents
  /\ bus = <<>> /\ folded = NoTotals /\ thread = "none" /\ stop = FALSE
  /\ seen = [events |-> NoEvents, load |-> 0] /\ history = <<>>
  /\ manifest = NoManifest /\ disk = OldFiles /\ exit = "none"

-----------------------------------------------------------------------------
(* Before the run                                                          *)

\* Returning drops the proxy's guard.
Exit(code) ==
  /\ main' = "exited" /\ exit' = code /\ proxy' = FALSE

Goes(from, to) == main = from /\ main' = to

Prepared == <<topoVars, cmd, wall, runner, bus, follower, stop, manifest, disk>>

\* A spec, arguments or a role prompt that cannot be read, a proxy that cannot
\* be spawned, an events file that cannot be created.
Unprepared ==
  /\ main \in {"read", "actor", "plan"}
  /\ Exit("error")
  /\ UNCHANGED <<Prepared, plan>>

Direct == cmd.route = "native" \/ cmd.tracing

\* assert_model_allowed, and the routes that have no supported path.
Refused ==
  \/ cmd.actor = "fake" /\ cmd.dungeon
  \/ cmd.actor = "codex" /\
       \/ cmd.route = "banned"
       \/ ~Direct /\ (cmd.home \/ cmd.route = "unmapped")
       \/ cmd.effort = "unsupported"

Refuse ==
  /\ main = "actor" /\ Refused
  /\ Exit("error")
  /\ UNCHANGED <<Prepared, plan>>

Read ==
  /\ Goes("read", IF cmd.do = "validate" THEN "check" ELSE "actor")
  /\ UNCHANGED <<Prepared, plan, proxy, exit>>

\* The guard of the proxy lives until run_spec returns.
MakeActor ==
  /\ Goes("actor", "plan") /\ ~Refused
  /\ proxy' = (cmd.actor = "codex" /\ ~cmd.home /\ ~cmd.tracing /\ cmd.route = "proxied")
  /\ UNCHANGED <<Prepared, plan, exit>>

BadOverlay ==
  /\ main = "plan" /\ OverlayFails(cmd.args)
  /\ Exit("error")
  /\ UNCHANGED <<Prepared, plan>>

\* The thread is spawned, and run is awaited.
Launch ==
  /\ Goes("plan", "run") /\ ~OverlayFails(cmd.args)
  /\ plan' = ResolvedPlan(cmd.plan, cmd.args)
  /\ thread' = IF cmd.follow THEN "look" ELSE "poll"
  /\ UNCHANGED <<topoVars, cmd, proxy, wall, runner, bus, folded, drawing, stop, ending>>

\* validate_and_hash opens every run; validate prints what it says.
Validating ==
  /\ main \in {"check", "run"} /\ Validate
  /\ UNCHANGED <<setting, main, wall, runner, bus, follower, stop, ending>>

Checked ==
  /\ main = "check" /\ stage = "validated"
  /\ Exit(IF Accepted THEN "success" ELSE "failure")
  /\ UNCHANGED <<Prepared, plan>>

-----------------------------------------------------------------------------
(* The run                                                                 *)

Running == main = "run" /\ Accepted /\ events.terminal = "none"
RunRest == <<topoVars, setting, main, wall, follower, stop, ending>>

Tick ==
  /\ main = "run" /\ wall < cmd.seconds
  /\ wall' = wall + 1
  /\ UNCHANGED <<topoVars, setting, main, runner, bus, follower, stop, ending>>

ItemStarts(i) ==
  /\ Running /\ items[i].at = "waiting"
  /\ items' = [items EXCEPT ![i].at = "calling"]
  /\ events' = [events EXCEPT !.started = @ + 1]
  /\ UNCHANGED <<RunRest, bus>>

\* A turn of the session is over: the totals of the attempt are published.
Publishes(i) ==
  /\ Running /\ cmd.actor = "codex"
  /\ items[i].at = "calling" /\ items[i].reports < cmd.reports
  /\ LET total == items[i].told + 1
     IN /\ items' = [items EXCEPT ![i].told = total, ![i].sent = total, ![i].reports = @ + 1]
        /\ bus' = Append(bus, [path |-> i, total |-> total])
  /\ UNCHANGED <<RunRest, events>>

\* The next attempt counts from zero.
Retries(i) ==
  /\ Running /\ cmd.actor = "codex"
  /\ items[i].at = "calling" /\ items[i].retries < cmd.retries
  /\ items' = [items EXCEPT ![i].retries = @ + 1, ![i].told = 0, ![i].reports = 0]
  /\ UNCHANGED <<RunRest, bus, events>>

\* A call is recorded when it returns, and announced when its outputs are
\* stored.
CallReturns(i) ==
  /\ Running /\ items[i].at = "calling"
  /\ items' = [items EXCEPT ![i].at = "called"]
  /\ events' = [events EXCEPT !.recorded = @ + 1, !.invoked = @ + 1]
  /\ UNCHANGED <<RunRest, bus>>

\* The drive fails, which the fake actor never does, or what it has returned
\* cannot be stored.
CallFails(i) ==
  /\ Running /\ items[i].at = "calling"
  /\ items' = [items EXCEPT ![i].at = "lost"]
  /\ \/ cmd.actor = "codex" /\ UNCHANGED events
     \/ events' = [events EXCEPT !.recorded = @ + 1]
  /\ UNCHANGED <<RunRest, bus>>

ItemSettles(i) ==
  /\ Running /\ items[i].at \in {"called", "lost"}
  /\ items' = [items EXCEPT ![i].at = IF @ = "called" THEN "completed" ELSE "failed"]
  /\ events' = [events EXCEPT !.settled = @ + 1]
  /\ UNCHANGED <<RunRest, bus>>

Ends ==
  /\ Running /\ \A i \in Shard : items[i].at \in {"completed", "failed"}
  /\ events' = [events EXCEPT !.terminal =
                  IF cmd.tolerant \/ \A i \in Shard : items[i].at = "completed"
                  THEN "completed" ELSE "failed"]
  /\ UNCHANGED <<RunRest, items, bus>>

\* run returns a manifest, or the error of the validation.
Returns ==
  /\ Goes("run", "stop") /\ stage = "validated"
  /\ IF Accepted
     THEN events.terminal # "none" /\ manifest' = [NoManifest EXCEPT !.status = events.terminal, !.reason = events.terminal]
     ELSE UNCHANGED manifest
  /\ UNCHANGED <<topoVars, setting, wall, runner, bus, follower, stop, disk, exit>>

-----------------------------------------------------------------------------
(* The follow thread                                                       *)

Aside == <<topoVars, setting, main, wall, runner, stop, ending>>

\* What project_budgets counts: calls, tokens, and items in flight.
Counted(ev, recorded, totals) ==
  [actor_calls |-> IF recorded > 0 THEN recorded ELSE ev.invoked,
   tokens |-> LET sum[S \in SUBSET DOMAIN totals] ==
                    IF S = {} THEN 0 ELSE LET i == CHOOSE i \in S : TRUE IN totals[i] + sum[S \ {i}]
              IN sum[DOMAIN totals],
   in_flight |-> IF ev.started > ev.settled THEN ev.started - ev.settled ELSE 0]

\* The calls that run or have succeeded: for the properties.
Load == Cardinality({i \in Shard : items[i].at \in {"calling", "called", "completed"}})

\* follow_viz_loop copies the events, then drains the channel.
Look ==
  /\ thread = "look" /\ thread' = "fold"
  /\ seen' = [events |-> events, load |-> Load]
  /\ UNCHANGED <<Aside, bus, folded, history>>

\* LiveStream::fold, one message at a time: the newest totals replace the old.
FoldOne ==
  /\ thread \in {"fold", "drain"} /\ bus # <<>>
  /\ bus' = Tail(bus)
  /\ folded' = [i \in DOMAIN folded \cup {Head(bus).path} |->
                  IF i = Head(bus).path THEN Head(bus).total ELSE folded[i]]
  /\ UNCHANGED <<Aside, thread, drawing>>

\* Faulty variant: only the terminal event ends the loop.
TerminalSeen == events.terminal # "none"

LoopOver == events.terminal # "none" \/ stop

\* Faulty variant: the thread ends without a last look at the channel.
StraightAway == "over"

LastFold == "drain"

Drawing == thread = "fold" /\ bus = <<>> /\ cmd.follow

\* A frame is drawn from the events copied and the totals drained; the errors
\* of the terminal are ignored.
FrameSamples == Samples(plan, Counted(seen.events, 0, folded), wall, history)

Frame == Snapshot(plan, FrameSamples, wall)

Draw ==
  /\ Drawing
  /\ \E samples \in {FrameSamples} : \E meters \in {Meters(plan, samples, wall)} :
       history' = IF plan.caps = <<>> THEN history ELSE Sampled(plan, history, meters, wall)
  /\ thread' = IF LoopOver THEN LastFold ELSE "look"
  /\ UNCHANGED <<Aside, bus, folded, seen>>

\* collect_headless_usage
Poll ==
  /\ thread = "poll"
  /\ thread' = IF stop THEN LastFold ELSE "fold"
  /\ UNCHANGED <<Aside, bus, folded, drawing>>

Polled ==
  /\ thread = "fold" /\ bus = <<>> /\ ~cmd.follow
  /\ thread' = "poll"
  /\ UNCHANGED <<Aside, bus, folded, drawing>>

Drained ==
  /\ thread = "drain" /\ bus = <<>>
  /\ thread' = "over"
  /\ UNCHANGED <<Aside, bus, folded, drawing>>

Follow == Look \/ FoldOne \/ Draw \/ Poll \/ Polled \/ Drained

-----------------------------------------------------------------------------
(* After the run                                                           *)

AfterRun == <<topoVars, cmd, plan, wall, runner, bus, follower>>

Stop ==
  /\ Goes("stop", "join") /\ stop' = TRUE
  /\ UNCHANGED <<AfterRun, proxy, ending>>

\* The thread is joined before the error of the run is propagated.
Join ==
  /\ main = "join" /\ thread = "over"
  /\ IF manifest.status = "none" THEN Exit("error") ELSE main' = "verdict" /\ UNCHANGED <<proxy, exit>>
  /\ UNCHANGED <<AfterRun, stop, manifest, disk>>

\* Faulty variant: any exhausted cap fails the run.
SoftExhausted(meters) == \E i \in DOMAIN meters : meters[i].state = "exhausted"

HardExhausted(meters) == \E i \in DOMAIN meters : meters[i].hard /\ meters[i].state = "exhausted"

\* The status may change here, after the terminal event was emitted.
Verdict ==
  /\ Goes("verdict", "show")
  /\ LET samples == Samples(plan, Counted(events, events.recorded, folded), wall, <<>>)
         meters == Meters(plan, samples, wall)
         fails == plan.fail /\ HardExhausted(meters)
     IN manifest' = [status |-> IF fails THEN "failed" ELSE manifest.status,
                     reason |-> IF fails THEN "budget_exhausted" ELSE manifest.reason,
                     budgets |-> meters]
  /\ UNCHANGED <<AfterRun, proxy, stop, disk, exit>>

ShowFails ==
  /\ main = "show" /\ cmd.follow
  /\ Exit("error")
  /\ UNCHANGED <<AfterRun, stop, manifest, disk>>

Show ==
  /\ Goes("show", IF cmd.out THEN "manifest" ELSE "report")
  /\ UNCHANGED <<AfterRun, proxy, stop, ending>>

\* usage_receipt: no tokens at all is not a measured zero.
Receipt ==
  LET tokens == Counted(events, 0, folded).tokens
  IN [tokens |-> IF tokens > 0 THEN tokens ELSE None]

\* write_json and export_trace_v5.
Write(file, content, next) ==
  /\ Goes(file, next)
  /\ disk' = [disk EXCEPT ![file] = New(content)]
  /\ UNCHANGED <<AfterRun, proxy, stop, manifest, exit>>

WriteManifest == Write("manifest", manifest, "usage")
WriteUsage == Write("usage", Receipt, "spec")
WriteSpec == Write("spec", topo, IF cmd.trace THEN "bundle" ELSE "report")
ExportTrace == Write("bundle", disk.manifest.holds, "report")

\* A file may be left torn, and what follows is not written.
WriteFails ==
  /\ main \in {"manifest", "usage", "spec", "bundle"}
  /\ Exit("error")
  /\ disk' \in {disk, [disk EXCEPT ![main] = Torn]}
  /\ UNCHANGED <<AfterRun, stop, manifest>>

Report ==
  /\ main = "report"
  /\ Exit(IF manifest.status = "failed" THEN "failure" ELSE "success")
  /\ UNCHANGED <<AfterRun, stop, manifest, disk>>

-----------------------------------------------------------------------------
Main ==
  \/ Unprepared \/ Refuse \/ Read \/ MakeActor \/ BadOverlay \/ Launch \/ Checked
  \/ Returns \/ Stop \/ Join \/ Verdict \/ ShowFails \/ Show
  \/ WriteManifest \/ WriteUsage \/ WriteSpec \/ ExportTrace \/ WriteFails \/ Report

Workflow ==
  \/ Validating \/ Ends
  \/ \E i \in Shard :
       ItemStarts(i) \/ Publishes(i) \/ Retries(i) \/ CallReturns(i) \/ CallFails(i) \/ ItemSettles(i)

Exited == main = "exited" /\ UNCHANGED vars

CliNext == Main \/ Workflow \/ Follow \/ Tick \/ Exited

CliSpec == CliInit /\ [][CliNext]_vars

\* The process and the thread are scheduled; that calls return is assumed.
CliFairSpec == CliSpec /\ WF_vars(Main) /\ WF_vars(Workflow) /\ WF_vars(Follow)

-----------------------------------------------------------------------------
(* Properties                                                              *)

\* Once the thread is joined, the totals of every shard are the last ones it
\* published, whichever of the terminal event and the stop flag the thread saw
\* first and wherever its drains fell.
TotalsComplete ==
  main \in {"verdict", "show", "manifest", "usage", "spec", "bundle", "report"} =>
    /\ bus = <<>>
    /\ DOMAIN folded = {i \in Shard : items[i].sent > 0}
    /\ \A i \in DOMAIN folded : folded[i] = items[i].sent

Tokens == LET sum[S \in SUBSET Shard] ==
                IF S = {} THEN 0 ELSE LET i == CHOOSE i \in S : TRUE IN items[i].sent + sum[S \ {i}]
          IN sum[Shard]

\* What the run has used of a cap's resource in the end.
Used(kind) ==
  IF kind = "actor_calls" THEN events.recorded ELSE IF kind = "tokens" THEN Tokens ELSE wall

\* A hard cap of the resolved plan has been reached.
OverCap ==
  plan.fail /\ \E i \in DOMAIN plan.caps :
    LET c == plan.caps[i] IN c.hard /\ c.max > 0 /\ Used(c.kind) >= c.max

RunFailed == events.terminal = "failed" \/ OverCap

\* The exit code, the manifest on disk and what really happened agree: a run
\* that failed, or reached a hard cap by the totals of all its calls, never
\* exits with success, a failed run leaves its manifest behind, and a success
\* means every file of this run is there.
ExitTellsOutcome ==
  /\ disk.manifest.is = "new" => (disk.manifest.holds.status = "failed" <=> RunFailed)
  /\ exit = "failure" => IF cmd.do = "validate" THEN ~Accepted ELSE RunFailed
  /\ exit = "success" /\ cmd.do = "validate" => Accepted
  /\ exit = "success" /\ cmd.do = "run" =>
       /\ events.terminal = "completed" /\ ~OverCap
       /\ cmd.out => disk.usage = New([tokens |-> IF Tokens > 0 THEN Tokens ELSE None]) /\ disk.spec = New(topo)
       /\ cmd.out /\ cmd.trace => disk.bundle = disk.manifest
  /\ exit \in {"success", "failure"} /\ cmd.do = "run" /\ cmd.out =>
       disk.manifest.is = "new" /\
         (disk.manifest.holds.status = events.terminal \/ disk.manifest.holds.reason = "budget_exhausted")
  /\ exit # "none" => ~proxy /\ thread \in {"none", "over"}

\* A frame is never behind the load at the time it looked: with as many calls
\* running or done as a cap allows, it shows that cap exhausted; and it names
\* as nearest a cap that is exhausted, if one is, and else one that no other
\* is expected to run out before.
FramesShowLoad ==
  Drawing /\ plan.caps # <<>> =>
    \A f \in {Frame} :
    LET cap(i) == f.items[i].meter
        out == {i \in DOMAIN f.items : cap(i).state = "exhausted"}
    IN /\ \A i \in DOMAIN f.items :
            cap(i).kind = "actor_calls" /\ seen.load >= cap(i).max => i \in out
       /\ plan.eta.on /\ out # {} => f.nearest # None /\ f.nearest.meter.state = "exhausted"
       /\ \A i \in DOMAIN f.items :
            LET eta == f.items[i].forecast.eta
            IN eta # None => f.nearest # None /\ eta[1] * f.nearest.forecast.eta[2] >= f.nearest.forecast.eta[1] * eta[2]

\* The command comes to an end, and the thread with it, whether the run ends
\* with a terminal event or with an error that emits none.
RunExits == (main = "run") ~> (main = "exited")
=============================================================================
