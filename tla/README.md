# A TLA+ model of jesterky

jesterky runs workflows of language-model agents. A workflow is a JSON topology of
nodes; the runner executes it, emits a stream of logically addressed events, and
returns a manifest from which the same stream can be replayed without any agent. Calls
go to codex subprocesses in sandboxes, through a limiter and, for other providers,
through a local proxy with a spending budget. This directory models the parts of it that
are hard to test: what interleaves, what may fail half-way, what has to be the same
again on a replay, and what has to survive a crash.

Paths below are relative to `src/`. Short names: `runner.rs`, `limits.rs` and
`ledger.rs` are in `crates/jesterky-core/src`; `event.rs`, `artifact.rs`, `goal.rs`,
`topology.rs` and `live.rs` in `crates/jesterky-contract/src`; `limiter.rs` and
`codex.rs` in `crates/jesterky-model/src`; `server.rs`, `convert.rs` and `sse.rs` in
`crates/jesterky-proxy/src`; `main.rs` in `crates/jesterky-cli/src`; `oss_code.rs`,
`blog.rs`, `docs.rs`, `trace.rs` and `obliq.rs` in `crates/jesterky-quality/src`.

## 1. Inventory

| component | state | operations | interacts with |
|---|---|---|---|
| Workflow runner (`runner.rs`) | a tree of futures, ledgers, `node_io`, the cancel flag | `run`, one arm per node kind, map (serial, chunked), for_each, while, branch, session_group, resume_session | actor, resource and checkpoint traits; event sink; limits; goals |
| Logical clock (`event.rs`, `emit`) | `addr_seqs`, the events, the recorded calls | `emit`, `peek_next_addr`, recording | every node of the runner |
| Limits (`limits.rs`), ledger (`ledger.rs`) | holders and waiters of each limit; slots and item bindings | `acquire`, release on drop; `resolve`, `store_outputs`, `bind_item`, `restore_item` | session_group; every node |
| Goals (`goal.rs`) | none (a projection of the ledger) | snapshot, `all_required_met`, `should_fail` | `Runner::run` between entrypoints and at the end |
| Run record (`artifact.rs`, `build_trace`) | the manifest and its trace tree | build, `InvariantReport::compute`, `spec_hash` | CLI, replay |
| Replay (`jesterky-actor/src/lib.rs`, `replay_manifest`) | answers by address | `drive`, `load`, compare | runner, run record |
| Topology validation (`topology.rs`) | the marks of a depth-first search | references, cycles, reachability, parameters | before every run |
| Model actor (`jesterky-model/src/lib.rs`) | a sandbox per drive | prompt, call, parse, re-ask, collect | models, sandboxes |
| Adaptive limiter and retry loop (`limiter.rs`, `codex.rs`) | ceiling, permits, successes; an attempt counter per call | `acquire`, `on_success`, `on_rate_limited`, drop; `complete` | every codex call of a process |
| Codex subprocess and trace child (`exec_once`, `scripts/register_trace_child.py`) | child process, its pipes, native trace, trace child | register, spawn, stream, wait, import, finish | limiter, live stream |
| Sandboxes (`jesterky-sandbox`) | a directory, or one mounted in a container | create, seed, set up, exec, collect, drop | model actor |
| Resource budgets (`jesterky-contract/src/budget.rs`) | a bounded history of samples | merge, snapshot with forecast | CLI, during and after the run |
| Live stream (`live.rs`) | a channel and the totals per shard | publish, drain, fold | codex streams, the CLI's follow thread |
| CLI (`main.rs`) | manifest on disk, follow thread | run, replay, validate, render | everything |
| Chat proxy (`jesterky-proxy`) | the signatures of tool calls, a counter | spawn, route, translate, reserve, forward, stream | codex, providers, its budget |
| Proxy spending budget (`budget.rs` of the proxy) | the ledger file, its lock file and its staging file | `reserve` | proxy requests, several processes |
| Quality workloads (`jesterky-quality`) | none between programs | `expand`, `aggregate` and `record` of six scans | runner, through the program registry |
| DungeonGrid and host wiring; annotation grounding; terminal visualisation | a game; none; none | pure functions | CLI, runner |

What is hard, and what correctness means, component by component:

- **Runner and clock.** Items of a map and sessions of a group run at once, and still
  every event and every recorded call has to get an address that depends on the
  topology and the answers alone, since replay looks answers up by address. The address
  of a call is *peeked* before the drive is awaited and *allocated* after it. Futures
  must not outlive their join; collected results are in item order however the answers
  come; items must not see each other's ledgers; a failing body must leave no permit,
  binding or item behind; the terminal event, the status and the stop reason must agree.
- **Limits.** No more holders than permits, none lost when a body fails, nobody waiting
  forever: a session that found no permit is looked at again only if its task is woken.
- **Goals.** A met goal ends the entrypoints or trips the cancel flag; what may still
  start after that, and which of two reasons a failed run reports.
- **Replay.** The stream is reproduced for every interleaving of both runs.
- **Validation.** The depth-first search with marks reports a cycle exactly when there is
  one, in whatever order it visits the nodes.
- **Limiter and retry loop.** A wakeup between the test and the await must not be lost;
  every way out of a call (success, retry, giving up, a dropped future) returns exactly
  one permit; the ceiling stays in its range; every call returns.
- **Model actor, subprocess, sandboxes.** Drives run at once on shared counters and one
  disk; each has retries inside re-asks; a step may fail or the drive be dropped between
  any two. The answer must be the last session's, complete, and its capture its own; the
  trace child must tell the same story; nothing may be left behind.
- **CLI, live stream, budgets.** A thread folds totals while the run goes on and is
  stopped after it: the last totals must be in the verdict. Status, files and exit code
  must agree although a budget may overturn the status and any write may fail.
- **Chat proxy.** A stateless translation between two protocols whose only memory, the
  signatures, is shared by all conversations; replies are streamed and rebuilt; codex
  gives requests up and repeats them. The provider must see the conversation it has had.
- **Proxy budget.** Several processes share one file and may be killed, or lose power,
  between any two system calls; money already promised must never be forgotten.
- **Quality workloads.** Sequential programs around a fan-out that may lose or garble
  any answer: the jobs must be those that were asked for, and the report must account
  for every one of them.

## 2. Modules

| module | models | composes |
|---|---|---|
| `LogicalClock` | lanes, sequence numbers, `emit`, `peek`, recording | |
| `Runner` | `Runner::run`, node kinds, joins, limits, ledgers, goals | `LogicalClock` |
| `RunnerProps` | the properties of a run, and of the trace built from it | `Runner` |
| `RunnerProofs` | theorems about every accepted workflow: cancellation and termination; the tree of futures and their ledgers; the clock, the limits, the recorded calls | `RunnerProps` |
| `RunnerOutcomeProofs` | what the events tell of the nodes; the end of a run; the lanes nodes run on; the bindings of loops; what maps announce and collect | `RunnerProofs` |
| `Turnstile` | abstract: what the limits of a run promise the sessions that share them | |
| `LimitSet` | `limits.rs` with its wakers, under `join_all_ordered` | refines `Turnstile` |
| `Replay` | a run followed by the replay of its manifest | `Runner` |
| `Topology` | `validate` and `validate_and_hash` | |
| `AdaptiveGate` | abstract: what a concurrency gate with a moving ceiling promises | |
| `AdaptiveLimiter` | `limiter.rs` and `CodexModel::complete` | refines `AdaptiveGate` |
| `AdaptiveLimiterProofs` | theorems about it | |
| `Workspaces` | the two sandbox backends | |
| `CodexExec` | `complete`, `exec_once`, the child, its pipes and its trace child | `Workspaces` |
| `ModelActor` | `ModelActor::drive`, several at once, cancelled anywhere | `CodexExec` |
| `ModelActorProofs` | theorems about any number of drives: workspaces, captures, answers, trace children | `ModelActor` |
| `Budgets` | plans, overlays, meters and forecasts, as operators | |
| `CliRun` | `jesterky run` and `validate`, the follow thread, the live stream | `Budgets`, `Topology` |
| `CliRunProofs` | theorems about any workflow that is validated, any shards and command lines: the verdict, the totals, the exit and the files, what a frame shows | `CliRun` |
| `ChatWire` | both translations of the proxy and codex's reading of the events, as operators | |
| `ChatProxy` | spawn, connection tasks, signatures, upstream, codex | `ChatWire` |
| `ChatProxyProofs` | theorems about any conversations: what was reserved, what the provider is shown | `ChatProxy` |
| `ProxyBudget` | `Budget::reserve` with its files, crashes and power loss | |
| `ProxyBudgetProofs` | theorems about it | |
| `OssScan`, `CorpusScan`, `ObliqScan` | the programs of the six scans, as operators | |
| `QualityScan` | a scan: expand, audit in any order, gate, aggregate, record | the three above |
| `QualityScanProofs` | theorems about any input of a scan and any replies: the jobs, the reports, the scores | `QualityScan` |
| `MC...` | the instances for TLC | |

### Runner

`fr` is the tree of live invocations of `execute_node`: a function from positions
(sequences of child numbers) to frames. A frame carries the locals that live across an
await: node, path, iteration, whose ledger it works on, a program counter `st`, a
loop counter `k`, the items, the collected results, the value to return. A node that
runs another one has it at position `p \o <<1>>`; a fan-out has one position per future.
A finished frame is `done` and keeps its result until its parent takes it: that is the
return of `execute_node`, or the join.

| code | model |
|---|---|
| `RunCtx.ledger`, the clones of map, session_group and resume_session | `leds`, keyed by the frame that owns the copy (`<<>>` is the run's own) |
| `RunCtx.addr_seqs`, events, `recorded`, `node_io` | `seqs`, `events`, `records`, `nodeIo` |
| `LimitState.active` | `active` |
| `RunCtx.cancel`, locals of `Runner::run` | `cancel`, `run` |
| Program | `Program`, `ProgramFails` |
| Actor | `ActorStart`, then `ActorReplies` or `ActorFails` |
| `execute_map`, `_serial`, `_parallel` | `MapStart`, `Dispatch` (a chunk; serial is a chunk of one), `ItemStart`, `ItemEnd`, `Collect`, `MapEnd` |
| `execute_for_each` | `ForEachStart`, `ForEachNext`, `ForEachItemEnd`, `ForEachEnd` |
| While, Branch, ResumeSession | `While...`, `Branch...`, `Resume...`, `PassOn` |
| SessionGroup, `LimitSet::acquire`, the guard's drop | `GroupStart`, `SessionStart`, `SessionAcquire`, `SessionEnd`, `GroupJoin` |
| `Runner::run` | `EntryStart`, `EntryEnd`, `EntriesExhausted`, `FinalStart`, `FinalEnd`, `Settle` |

A step ends where the code awaits, or hands control to the body of a node, so an
event and the assignments around it are one step. `join_all_ordered` polls on a single
task, so the program switches futures at awaits that really suspend only; the model
lets every step of every future interleave. That allows more than the program does,
which is sound for the safety properties. Two things of the order are kept because
they are visible: futures are first polled in order (`EldersStarted`), and results are
collected in order.

JSON is abstracted to null and to arrays of values, enough to tell truthy from falsy, a
result with the declared output field from one without, a collection from a
scalar. Payloads of events carry what a property reads. References are slot names.
Programs are an operator `RunProgram`, actors answer with any value of the workflow's
`replies` or fail, and checkpoint loads return any of these, null, or fail.

`LimitSet` has what `Runner` leaves out of the limits: wakers. A run is one task, so all
who wait leave the same waker, and a limit holds it or does not. `at` is the session the
join is polling (`PollTask` to the last `PassOver`), `woken` that the executor will poll
the task again. The limits of the groups of a map are taken by one row of sessions, that of
the nested joins, which come to ask for their permits at different times (`Arrive`).
`Acquire` and `Register` are the two outcomes of the closure of `acquire`, `Release` the
drop of the guard. A session that waits is looked at again only in a poll: `NoLostWaker`
says that one is coming. `ImplementsTurnstile` says that the guard `Room` of `SessionAcquire`
and its fairness are what the code provides.

`Replay` adds one variable, the tape, to the runner: a first run with free hosts, a
`Rewind` that keeps its events, records and final ledger, and a second one whose actors
answer from the records by address and whose checkpoint store knows no session.

### Topology

A node is the sequence of its parts: itself, the inline body of a map or loop, the body
of that. `ValidateNodes` collects the errors of single nodes; `VisitRoot`, `FollowEdge`
and `Leave` are the calls and returns of the recursive `visit`, whose stack is `path` and
whose colours are `marks`; `Reach` and `Reached` are `reachable_nodes`. Ids have no order
in the model, so that every order of visits is covered, the code's sorted one among them.

### Limiter

`AdaptiveLimiter`: a step is what a caller does between two acquisitions of the mutex
or two awaits. Taking the mutex to release a permit and notifying the waiters are two
steps, as are arming the `Notified` future, testing for room, and awaiting. A dropped
future is `CancelWaiting` (parked or asleep) or `CancelRunning` (the permit's drop
follows). `exec_once` is its outcome here: success, rate limit, transient, fatal.

### Drives

`pc[d]` is where the drive `d` is: in the creation of its workspace (`Workspaces`), in an
attempt (`CodexExec`) or around it (`ModelActor`).

| code | model |
|---|---|
| `unique_workspace_dir`, `unique_mount_dir`, their counters | `seq`, `MakeDir` |
| `stage_files`, the environment probe, `run_setup` | `Stage`, `QueryContainer`, `RunSetup` |
| `docker run`; reading its output and building `DockerSandbox` | `StartContainer`; `TakeContainer` |
| `collect`, the drops of both sandboxes | `Collected`, `RemoveDir`, `DropBox` |
| the proxy and argument checks of `exec_once` | `Misconfigured`, `Configure` |
| `register_trace_child`, trace headers, opening the sink, spawn | `Register...`, `HeadersFail`, `SinkOpenFails`, `SpawnFails`, `Launch` |
| codex itself (external) | `ChildPrints`, `ChildComplains`, `ChildWrites`, `ChildExits`, `StrayWrites` |
| the line loop, `wait`, import, finish, the verdict | `ReadLine`, `ReadGarbled`, `SinkFails`, `Wait`, `Import...`, `Finish...`, `Settle...` |
| the retry loop of `complete` | `Fail`, `Retry`: a fresh attempt in the same workspace |
| the re-ask loop of `drive`, the parse, the capture | `Ask`, `AskAgain`, `GiveUp`, `AnswerNow`, `Capturing`, `Collect`, `CollectFails` |
| the future is dropped | `Cancel`; helpers that go on: `OrphanEnds` |

A session follows a script: the lines it prints, what it writes to stderr and to its
workspace, its exit code. It runs beside the host and blocks on a full pipe. A session
whose `docker exec` client was killed goes on in its container until that is removed, and
on the host commands that a killed codex has started may go on (`strays`).

`kill_on_drop` is set for codex alone. `docker run`, a setup on the host, the registrar, the
importer and the finisher go on when their drive is dropped (`orphans`), and do their work
or fail: a container is started, the collector is told. `docker run` is one step
(`StartContainer`) of which the drive learns in another; the `DockerSandbox`, whose drop
removes the container and the directory, exists from `TakeContainer` on (`Owned`), a
`LocalSandbox` only after its setup. Dropping it is an attempt: `remove_dir_all` gives up
where a process still puts files, so that a directory with strays may stay (`DropBox`). A
`docker run` that fails has left no container. What a setup that outlives its drive writes
is not modelled: its directory has no reader any more.
A trace child is identified by drive and attempt, as in the script that registers it.

### The command line

`CliRun` has the steps of `run_spec` (`main`), the run of a parallel map of one actor as
counts of events, calls and published totals (how the runner gets there is `Runner`),
the follow thread with its loop, its fold of one message at a time and its last drain
(`thread`), the budget's verdict over the manifest, and the files, each of which may be
written, torn or missing while older files of that name lie there. `ResolvedPlan`,
`Samples`, `Meters` and `Snapshot` of `Budgets` say what a frame and the verdict show.

### The chat proxy

`ChatWire!ToChat` is the translation of a Responses request (`convert.rs`), `Harvested`
and `Reattached` the signatures (`server.rs`), `Events` the stream (`sse.rs`),
`Reconciled` what codex makes of it. In `ChatProxy` each request is a connection task:
`ReadRequest`, `Dispatch`, `Translate`, `Reserve`, `UpstreamReplies`, `Harvest`, `Build`,
`Write`, and the failures beside them. codex keeps a transcript, sends it whole, runs
the tools it is asked for, and may hang up and ask again at any moment; the task of the
old request goes on. `truth` is the conversation as the provider had it. Texts are
sequences of pieces; a name is a sequence of the parts its separator divides.

`ProxyBudget` is the `reserve` of that proxy cut at every system call. `ledger` is the
file as processes see it, `durable` as a power loss would leave it; `WriteBack` lets the
file system write a rename back whenever it likes. A worker is one request of one
process, which has one of several configurations; `Abandon` is an I/O error or a kill,
also inside the write; the exclusive lock disappears with its holder. `ChatProxy` takes
the whole of it as one step, which `NothingIsForgotten` and `CapIsKept` justify.

### Quality workloads

`Expand`, `Audit`, `Gathered`, `Aggregate` and `Record` are the nodes of the example
specs (`examples/quality_scan_*.json`, `obliq_*.json`). The programs are operators from an
input to the set of results they may return: more than one where the code reads a
directory in the order the file system gives or shuffles with a generator, none where it
returns an error. `OssScan` has the selection of source directories (walk, filter, cap per
repository, the round robin of the shared cap) and the fold of audits into rows;
`CorpusScan` the posts of a blog, the pages of a documentation site and the traces;
`ObliqScan` the candidate pools of the four modes and the metrics, in thousandths. A
reply is an audit with its score and its words, an echo of the job (what the fake actor
says), junk, or lost, as a map collects a null for an item whose actor failed.

## 3. Runs

All constants are model values or the small sets given here.

| run | expects | instance | what it shows |
|---|---|---|---|
| `MCRunner` | pass | six workflows, chosen by `Init` | the properties of `RunnerProps`, and that every run ends |
| `MCReplay` | pass | a tolerant parallel map, then sessions over its results | `ReplayFaithful`, over all interleavings of both runs |
| `MCAdaptiveLimiter` | pass | 3 callers, a call of 2 attempts each, ceiling 1..3, starting at 3 | the safety of the limiter, its refinement of `AdaptiveGate`, and that every call returns |
| `MCProxyBudget` | pass | 3 requests, two configurations, costs 1 or 2, caps 3..5, words up to 7 | the safety of the ledger under crashes and power loss |
| `MCLimitSet` | pass | five sessions, a limit of no permits, which counts as one, and one of two | no wake is lost; who waits while there is room goes in |
| `MCModelActor` | pass | two drives, eight pairs of configurations, six scripts | what a drive answers, captures, traces and leaves behind, and that it ends |
| `MCCliRun` | pass | 268 command lines, most of them `validate`; two shards, topologies of up to three nodes | totals, budgets, files, exit code and frames agree with the run; the command ends; validation is exact |
| `MCChatProxy` | pass | two conversations of up to three requests, 38 environments and agents | the provider sees its conversation; nothing is charged that was not reserved |
| `MCQualityScan` | pass | 87 scans of the six workloads, at most five jobs | the jobs, the report and, in the pool scope, the metrics of a scan |
| `MCShrink` | violation | a loop around a map over a shrinking collection | the trace has more item children than the map's total |
| `MCReplayIdentical` | violation | `MCReplay`'s workflow, and a resumed session | a replay emits another stream |
| `MCFullScope` | violation | the obliq scans of `MCQualityScan` | in the full scope a model's ranking is scored against fewer golds than promised |

**Why these bounds.** The runner has no unbounded counter: a workflow is finite, and
each is chosen to make a case happen. `Fan` has four items in chunks of two, so that a
chunk boundary, a failure before and after it and the 50 % gate on both sides occur, has
actors that also answer null, which is recorded and cannot be stored, and feeds the nulls
of failed items to a serial map. `Sessions` has a limit declared with 0
permits (it counts as 1) and three sessions on two permits, with nested maps, so that a
woken waiter races another. `Free` has sessions without a limit of which any
subset fails. `Loops` nests for_each and branch in a while, which may meet a goal whose
finalize node does not exist, and otherwise resumes a session. `GoalsEnd` and
`GoalsCancel` meet a goal, or not, before a parallel map and a for_each.

Three callers are enough for the limiter: a holder, a parked waiter and a third that takes
the freed permit first; two attempts give one retry and one giving up; a start above one
lets the ceiling halve to its floor, grow and halve again. One call per caller is a small
bound, but what it bounds is liveness only: safety and refinement are proved for every
number of callers and calls. In the budget, costs, caps and requests are such that
sums meet a cap exactly, pass it by one, and are refused by a stale configuration; two
processes are inside `reserve` at once, the third has another configuration.

Two drives are enough for what drives share (two counters, one disk, the ids of trace
children); the second is short, or refused, where the first already has everything to do.
The scripts print a draft before the answer, the answer before a file, an object of the
wrong shape, no text, text that is not UTF-8, a rate limit, and more complaints than a
pipe holds. A pipe holds two lines, fewer than a script prints, so that the child blocks
and also exits with lines unread. Two attempts in each of two asks make a retry inside a
re-ask; the code has more of both, which only repeat. The command line has two shards of up
to two messages, one retry, one second of clock, caps that are met exactly and one that a
single call passes; the history of samples is cut at 3 to 2 instead of at 240 to 180. The
topologies are all graphs of three nodes with out-degrees up to 2, 1 and 1, and one for
each kind of flaw; the theorem about validation has no bound. Two conversations with three
requests each let a repeated request overtake the one that was given up, and a request
carry signatures of two earlier replies, of one conversation while the other's
arrive. The scans have caps below, at and above the number of candidates, repositories of
one name, pools of two to four places, queries with several, no and unknown golds; every
job may be lost, echoed, malformed or objected to, in every combination.

Five sessions are enough for the limits: in the row a session that waits has one behind it
that holds its permit, or two, while another limit wakes the same task. One call before a
group and one in a body put every answer before, into and after a poll.

A score out of ten is a whole number in code audits, of which each group of criteria has a
set, and in hundredths on pages, so that the scales a score is taken for (up to one, up to
ten, up to a hundred) are told apart at their bounds.

Deadlock is checked everywhere but in the limiter's run, where callers that have made all
their calls are idle. A drive stuck on a full stderr pipe is a stuttering step of
`MCModelActor` (`Finished`), since it really is stuck.

**Fairness.** Nothing in the repository puts a timeout on a drive, a codex child, a docker
command or an upstream request, so that any of them that never answers does hang the run.
That they answer is the assumption behind each of these:

- `Runner!FairSpec`: weak fairness of one action, `Progress`: if anything can happen
  something does. The executor polls woken tasks. There is no fairness between futures, so
  `Terminates` does not depend on any.
- `AdaptiveLimiter!FairSpec`: weak fairness per caller of its steps (the executor polls a
  woken task; a sleep ends; a subprocess exits) and none of calling or cancelling.
  Strong fairness is not needed although callers race for permits, since calls are
  bounded in number: with endless calls a caller could starve, as the code wakes all
  waiters and lets them race.
- `ModelActor!FairSpec`: weak fairness, per drive, of its steps and of its subprocess: a
  session goes on when it can. It is not assumed that it exits: a session that blocks on
  the stderr pipe does not, and `DriveEnds` excepts exactly that.
- `LimitSet!Spec`: weak fairness of the task (a woken task is polled) and of each answer of the
  host. Not of the sessions: that a waiting one is polled at all is what is checked.
- `CliRun!CliFairSpec`: weak fairness of the main task, of the run and of the follow
  thread, which is a thread of the operating system and polls with a sleep.

## 4. Proofs

`tlapm` checks eight modules, for every value of the constants under the named assumptions:
`LimiterAssumption` and `BudgetAssumption` (a finite set of callers, natural bounds, caps that
fit a word), and `WorkflowAssumption`: the workflows are such as `validate` and the types of the
plan accept, with bodies, branch targets, entrypoints and limits that exist, and widths and
permits that are natural numbers. It asks nothing of their size, their nesting or their goals.
For drives they are `SetupAssumption`, `ExecAssumption` and `ActorAssumption`: there are the
three backends, a script is a finite sequence of steps, and attempts, asks and the pipe are not
zero. For the chat proxy it is `ChatAssumption`: the conversations are finitely many and their
asks bounded, a session starts with what the host and the user say, and the provider calls
functions that it was offered (it may call them with any arguments, as often as it likes and
unsigned). For the command line it is `CommandAssumption`, that plans are such as the types of
a plan allow, also once overlaid, `HistoryAssumption`, on how much history is kept, and
`ShardAssumption`, that a run has finitely many items. For
the scans it is `ScanAssumption`: numbers and ids are natural numbers, what is listed is finite,
and the discount of a benchmark has a value for the first k places; `DiscountAssumption`, that it
does not grow (it is 1 / log2(place + 1)); `DimensionAssumption`, that the dimensions are a list;
and `GateAssumption`, the shares that the example specs ask for.

`RunnerProofs`
- `GoalsStopTheRun` (`MetGoalsStop`) follows from one inductive invariant on the tree of frames,
  `IInv`:
  every frame executes a node of the workflow, or is a future that a map or a group made; its
  path is never empty; once the cancel flag is set no item frame is live; once the run has
  terminated on its goals every frame lies below the finalize node. The property alone is not
  inductive, since an item that starts was made by an earlier step, and a node starts on the
  path of a frame that was entered earlier. The argument has three parts: operators on frames
  preserve soundness (`DoneSound`, `EnterSound`, ...); each kind of node takes steps that keep
  it and say on whose lane they emit (`FrameStepKeeps`); and the steps of `Runner::run` set the
  flags only when no frame is left. If `Dispatch` did not read the flag, the proof of its step
  would fail.
- `FuturesAreJoined` (`StructuredJoin`) and `ItemsAreIsolated` (`FanIsolation`) rest on `Tree`,
  inductive together with `IInv`. `Shaped`: a frame is at a program point of its kind, and its
  counters fit its collections. `Rooted`: all ancestors of a frame are alive and each has it
  among the children its program point gives it (`KidsOf`), so that a frame that is new or done
  has nothing below it. `Ledgered`: a frame works on its own ledger exactly if it is an item or
  a session, else on that of a frame above it, and frames of which none is above the other never
  share one; this is why an item cannot reach the ledger of its map. `LiveLedgers`: there is a
  ledger for the run and for each owner. The proof is not one of forty actions but of two moves:
  `StepMoves` shows that each step either grows the tree by children of one frame or reaps them,
  and changes that frame only.
- `LimitsHold` (`PermitsHeld`), `AllIsSettled` (`EverythingSettled`) and `RunnerTyped`
  (`TypeOK`) rest on `Books`. `Clock`: an event has an address of its own, below what its lane
  counts next. `LimitBooks`: `active` is the number of sessions inside their bodies, at most the
  permits. `LaneBooks`: on every lane the events that open something are as many as those that
  close it and the frames between the two. Counting needs no distinct lanes: several sessions of
  one id may share one and the books still balance.
- `CallsKeepTheirAddress` (`CallsAddressed`): `Calls` adds that frames of which none is above
  the other have lanes of which none is (`Lanes`), so that nobody else speaks on the lane of a
  call between the peek and the emit (`OpenCalls`). This needs session ids that differ
  (`SessionsDiffer`), which `session_group` does not check; see section 5.

`RunnerOutcomeProofs`
- `StatusIsExplained` (`StatusExplained`). `Told` relates the events on the lanes of the
  entrypoints to `Runner::run`: what it has entered (`Ran`), how far the node that runs has got
  (`RootTold`), that all passed entrypoints succeeded (`PastTold`), which failure it settled
  with (`Verdict`), and that the terminal event is one and the last (`Ending`). `Outcome` says
  for each kind of step which of its events tell what. The hypotheses are `EntriesDiffer`, that
  no entrypoint is named twice or as the finalize node (two executions on one lane are not told
  apart by their events), and `ErrorsSpeak`, that no message of a failure is null: messages are
  strings in the code.
- `NodesRunOnce` (`LanesEnteredOnce`): `Lanewise` says what of its lanes a frame has used and
  what is still `Ahead` of it: all of them when it is new, else the items and passes to come. No
  lane that was used is ahead of anyone, which is inductive since a frame that is entered takes
  over part of what was ahead of its parent. Besides `SessionsDiffer` and `EntriesDiffer` it
  needs `LoopsApart`: no while has another one, or a group, below it. The code does not refuse
  these, and there lanes do recur, since the iteration of a lane is that of the innermost pass
  or session alone.
- `ItemsAreUnbound` (`BindingsRestored`): each loop that binds an item in the ledger of the run
  has saved what was there, the outermost one an unset slot (`Bindings`). Loops that share a
  ledger are nested, by `Ledgered`, and are left from the inside. `NamesFree` is the hypothesis
  that the names of items are not also those of arguments or outputs, which set those slots
  outside of loops as well.
- `MapsAccount` (`MapAccounts`): `Maps` relates the three places where the result of an item
  shows, the frame of the item, the event on its lane and the results its map has joined. An
  item that is done has announced one result, its own, and one that is not has announced none
  (`ItemsTold`), whatever the order in which the items of a chunk finish; each result joined is
  one that was announced (`ResultsTold`); what was not dispatched is silent, since its lane is
  still `Ahead` of the map. The counts then follow by a bijection between indices and events.
  That they stay right until the run ends needs more: no item ends on a lane whose map has
  completed, and nothing else signals there (`NotOver`), because a lane belongs to one live node
  (`OneNode`). The hypotheses are those of `NodesRunOnce`.
- `CollectsInOrder` (`CollectedInItemOrder`): `Collects` follows an answer from the record of
  the call, of which a lane has one (`OneAnswer`), through the frame of the call
  (`CallsAnswer`), that of its item (`ItemsAnswer`) and the results its map has joined
  (`ResultsAnswer`) into the slot of the map (`Gathers`). `Homes` says which node each frame
  runs, so that the answer is that of the body of this map. In the slot the array stays since
  nobody else writes there: besides the hypotheses of `MapsAccount` it needs `NamesFree`, and
  `CollectorsApart`, that a map of the entrypoint is not the body of another node and shares its
  output slot with none. Validation refuses neither; a second writer overwrites the array, as
  the last one to complete should.

All these hypotheses hold in all workflows of `MCRunner`.

`ModelActorProofs`, for any number of drives, any configurations and any scripts
- `CapturesAreOwn` (`CaptureIsOwn`) and `NothingIsLeft` (`NothingLeft`) rest on `Solid`, which
  is inductive. `Workplaces`: which drives have a workspace, and which of them a container,
  follows from where they are; a name that was given is below its counter, so that the next one
  is new although `create_dir_all` would accept an old one; a directory belongs to a drive that
  works in it, or whose creation was broken off (`BrokenOff`), or that left commands there; a
  container to a drive past `docker run`, or to one that was dropped before it was taken over; a
  helper to a drive that was dropped; sessions that outlive their client in a container to a
  drive that is not over. It is what
  a helper does after its drive has gone that makes the exceptions necessary: `OrphanKeepsPlaces`
  shows that it starts a container for such a drive only, and `LeaveKeepsPlaces` that whatever
  else ends a drive leaves nothing but these. `Working`: what is in a workspace are
  seeds and files of its drive's sessions (`OwnFiles`), and what the running session has written
  so far is there, without a container as it wrote it (`Written`); the session follows a script
  under the command it was given (`Following`).
- `AnswersAreLast` (`AnswerIsLast`) and `TracesTellAnswers` (`TraceTellsAnswer`) rest on
  `Telling` as well. `Streamed`: the last object that the session has printed is the last one in
  the pipe, or if the pipe has none, the last one of the reply (`Tells`). `TraceFollows`: the
  lines printed are as many as those in the sink and in the pipe together (`Count`), the trace
  child is named by the attempt and tells its session. Printing, reading, complaining and
  writing keep both by lemmas on single steps of a pipe (`TellsPrint`, `TellsRead`,
  `CountAppend`, `CountTail`), and at the end of the stream the pipe is empty.
- As for the runner, the many actions are few moves: a step of a drive fails for good (`Drops`)
  or for now (`Backs`), answers, builds its workspace, writes a file, or goes on without
  touching the disk (`Advances`), and never touches what belongs to another drive
  (`StepsLeaveOthers`, `DiskStays`, `TracesStay`).

`AdaptiveLimiterProofs`
- `TypeCorrect`, `RetriesAreLeft`: `TypeOK /\ RetryLeft` is inductive. `TypeOK` alone is not:
  that the attempt counter stays below `MaxAttempts` depends on `RetryLeft`, which says a caller
  on its way to a retry has one left.
- `PermitsAreCounted`: `inFlight` equals the number of callers in the locations that hold a
  guard. Each step moves at most one caller in or out of that set, by two lemmas on the
  cardinality of a set with one element more or less.
- `CeilingIsRespected` (`CeilingIsEarned`): inductive with the type invariant; a grant is below
  the ceiling and the ceiling below `top`.
- `NoWakeupIsLost`: a step that makes room leaves its caller about to notify, a notification
  empties the set of parked callers, and a caller parks only when its own test found no room. A
  parked caller that has been notified is no longer in `armed`, which is why the invariant
  speaks of armed callers.
- `LimiterImplementsGate`: initial states map to initial states and every step to a step of
  `AdaptiveGate` or a stutter, with the invariants above as lemmas: the counter the code tests
  stands for the set the gate speaks of.

`CliRunProofs`
- `ValidationIsExact` (`ValidationExact`), for every topology and every order of visits. The
  inductive invariant has five parts. `TypeInv` types the search. `PathInv`: the nodes marked as
  being visited are those on the stack, once each, and each is an edge of the one below it.
  `FollowedInv`: as long as nothing was reported, the edges of finished nodes lead to finished
  nodes, and those that were followed from the stack to these or to the next on it.
  `VerdictInv`: until then the finished nodes are acyclic; once something was reported there is
  a cycle. A back edge closes a cycle through the stack (`BackEdge`); a node that is left
  extends an acyclic closed set by a node with edges into it only (`AcyclicExtends`).
  `ReachInv`: what is reached or to be visited is in every closed set that holds the
  entrypoints. "Acyclic" is stated without paths, so that no induction over data is needed: no
  set of nodes has all its members branch into it.
- `TotalsAreComplete` (`TotalsComplete`), for any number of shards, reports and retries and any
  command line. `Flowing` says of each shard which total is the newest one: the last message
  about it on the channel, or if there is none, what was folded (`Newest`); a message that
  leaves the channel changes the one into the other, whether others about the same shard follow
  it or not. And after the last drain has begun, the run is over and nobody publishes
  (`Phases`), whether the terminal event or the stop flag ended the loop of the thread.
- `ExitTells` (`ExitTellsOutcome`) rests on `Outcome`, four invariants at once. `Stages`: where
  `run_spec` is says whether the thread and the proxy are up and whether there is an exit code.
  `Books`: the manifest in memory is that of the run until the budgets are judged, and from then
  on says "failed" exactly if the run failed or is over a hard cap. `Files`: which files of this
  run are on disk follows from how far the writing has got, and a new manifest there is the
  judged one. `Answers`: an exit code is given for what the books say, with all files there. The
  verdict is exact although it is made from what the thread has folded: by `TotalsFlow` that is
  what was sent, and by `EventsCount` (`Counts`: the numbers of events are the numbers of items
  at certain places) no call is in flight any more. The sums are the folds of `Budgets`, shown to
  be independent of the order in which shards are added (`Sums`).
- `FramesShow` (`FramesShowLoad`), for every plan, history and load. `TypeCorrect` (`Typed`) and
  `Counts` say that what the thread has seen is a state of the counters with no more load than
  calls done and in flight (`Loaded`). A panel has a line for each cap with a positive maximum,
  with what is counted of its kind now (`Shows`), however the history was thinned. An estimate
  is a fraction or none, since the rate it divides by, a median, is one of the rates
  (`Rates`, `Fractions`); fractions are compared by products and the nearest line is the first
  that no other is less than, which exists by induction on the set of lines (`FirstExists`).

`ChatProxyProofs`, for any number of conversations, any environment and any replies
- Both theorems rest on `Shapes`: where a task is says what it holds, a reply's events are those
  that `Events` makes of it, and the transcripts are sequences. What codex makes of the events
  is a fold, so it is shown what each group of them does to its state (`Takes`: an item opened
  and done is appended, one that is not is dropped), and by induction what all do: the items
  that `Output` names (`EventsTell`).
- `SpendingIsReserved` (`SpentWasReserved`): what was charged and what the requests that are on
  their way may still cost, their sizes and their caps, is covered by the ledger. A request
  enters this sum when it is reserved, with what is added to the ledger, and leaves it when the
  provider replies or fails, with at least what it charges (`SpendingEnters`, `SpendingLeaves`).
  The sum is defined by recursion over sets that picks any element; that the order of picking
  does not matter is `SumTaken`.
- `ConversationIsKept` (`ConversationKept`) needs two invariants more. `Signs`: a signature is
  that of the id it is kept under, and belongs to a request that was made and has been
  harvested; a call in a transcript is of a request that is over, and of a function that was
  offered. So a harvest, whose calls are those of a request under way, changes nothing of what
  was told before (`HarvestTells`), although all conversations share the map. `Told`: what a
  transcript says with the signatures in the map (`Telling`) is what was said, and so is what a
  payload says. A payload says what its transcript does (`PayloadTells`), the output of a reply
  what the provider said (`OutputTells`: a name is put together as it was split, a call finds
  its signature), and the host's messages say nothing.

`QualityScanProofs`, for every input of a scan and any replies, in any order
- All rest on `Audited /\ Written /\ Caused` (`ScanInvariant`): there is an audit per job and the
  jobs are among those `Expand` may list; a report is made of these audits and its record repeats
  it; a scan of code or pages that fails once it has jobs has an audit out of range, or lost more
  than the gate allows. The rest of the work is about the programs, which are operators.
- `JobsPromised` (`JobsAsPromised`). What is sorted comes out in the one order in which each
  element stands behind those that rank before it (`Ranks`, `InOrder`), shown once for every
  order on a finite set and used for the four the programs sort by. The code modules are dealt
  by turns: the deal is a front of that order (`DealtShape`), a front takes from each repository
  the first ones of its shelf (`Ahead`), so that two repositories differ by one at most unless
  one has run out (`FrontIsFair`), and those left out are no larger (`ByRepoKept`). The number
  dealt is the least of the cap and of a sum over the repositories (`DealLength`). A pool holds
  golds and distractors in numbers that leave room for both (`GoldsLeaveRoom`), for each of the
  four modes (`PoolHonest`).
- `ReportTells` (`ReportTellsAudits`): each program has a lemma on what its rows and counts say
  of the audits (`OssReportTells`, ...). For a lost answer, what the gate lets pass is computed
  from the percentages (`GateLoses`).
- `RankingFair` (`RankingFairlyScored`), where the scope is not the full one: the hits of a ranking without repetition are at
  different places among the first k and no more than the golds (`HitsFit`). By induction on
  their number they gain no more than as many first places do (`FirstGainsMost`), since the
  discount does not grow, and those no more than the places of an ideal ranking
  (`MoreGainsMore`); a ranking with the golds first hits exactly these (`GoldsFirst`).

`ProxyBudgetProofs`
- `TypeCorrect`, `LedgerStaysReadable`, `NothingIsForgotten`, `CapIsKept`, `NothingIsRefunded`:
  one inductive invariant. Besides the properties it says who is inside the critical section
  (the lock holder and nobody else), what the staging file holds at each of its steps (the
  charged ledger, synced or not), and that the visible ledger is never behind the durable one.
  Mutual exclusion is what makes the sum staged by a worker the sum of the ledger it replaces;
  the order sync, rename, sync is what makes a power loss find either ledger whole.

The type invariants of the limiter and the budget are proved and therefore not run again.

All safety properties that the passing runs check are proved but two. Only model-checked: `ReplayFaithful`,
and all liveness (`Terminates`, `EveryCallReturns`, `DriveEnds`, `RunExits`), and the two
properties of `LimitSet`, of which one has a part that is liveness. `ReplayFaithful`
does not hold of every workflow that `validate` accepts: a map that cancels on failure stops at
another item when its futures are scheduled otherwise, in the replay as in the run, so that it
is checked on topologies whose outcome is settled by their answers. A theorem would need that
notion, and that two runs with the same answers agree whatever their interleaving, which relates
two behaviours and is no invariant of one. Liveness is only checked since
reasoning from fairness, like `ENABLED`, is beyond the prover. The library's theorems on
induction take an operator, which the provers cannot instantiate; where a proof needs one, it is
an induction on a set: of numbers or of sequences, with `WellFoundedInduction` for the least
counterexample (`AllNats`, `AllSeqs`). No module has a recursive operator, only recursive
functions and the folds of the community modules.

## 5. Where the code and its documents disagree

Each of the three violation runs checks a sentence of the repository against the code;
`PROJECT.json` quotes the sentences and lines. In short:

1. The trace merges iterations of a path, so that a repeated map over a
   shrinking collection fails the run's own `children_within_total` check (`MCShrink`).
2. A replay is not identical: the manifest never contains a checkpoint, so a session resumed
   from a store that had one is replayed from null; and a failed drive is not recorded, so
   that a tolerated failure has another message (`MCReplayIdentical`). Up to messages the
   replay of a workflow without resumed sessions is faithful, which is what `MCReplay` shows.
3. In the full scope of `obliq`, that of the retrieval modes, all golds of a query are said to
   count. `expand` puts them into the job; `aggregate` finds them in the echo of the fake actor
   only. A reply of the schema does not carry them and is scored against the golds among the
   documents it names, as in the pool scope (`MCFullScope`). A reply that does carry
   `gold_ids` or `candidates` is not in the models: `obliq_rank.schema.json`, which the host
   configures for the reranker, allows no other fields than its own.

Seen while modelling, and in the models as the code has it, without a run of their own:

- `execute_for_each` (`runner.rs:952-1001`) never reads the cancel flag, which docs/GOALS.md:133-135
  says stops new items of `map` and `for_each`. `MetGoalsStop` speaks of map items only.
- A plan whose goals are all optional, with `terminate_on_met`, ends the run after its first
  entrypoint (`goal.rs:301-304`), though docs/GOALS.md:111 has them "record progress only".
- `session_group` takes session ids from data and does not refuse equal ones. Two bodies are then
  on one lane, and the second may emit between the peek and the emit of the first: its call
  is announced at another address than the one it was recorded at, against the assertion in
  `runner.rs:482`, which panics in a debug build, and against `event.rs:75-76`. (In `Runner` it
  takes a `SessionId` that is the same for all items of a group.)
- A workspace whose staging, start or setup fails keeps its directory, which has no owner before
  `create` returns, though docs/DESIGN_sandbox.md:151-152 has it cleaned up when the call returns.
- A reply that cannot be stored (null, where an output is declared) is recorded but never
  announced: the actor node fails between the two, and its address is given to whatever
  its lane says next. `CallsAddressed` states exactly this.
- `detect_cycles` follows the edges of named branches: an inline body that branches back to its
  own node is accepted, and recurses without end.
- A hard cap that is reached exactly fails a run that is over; the comment at line 119 of the
  contract's `budget.rs` speaks of passing it.
- The totals of a shard start again with each retry, so the last ones miss the tokens of
  the attempts that failed (`live.rs:28` calls them cumulative).
- The manifest is "always" persisted (`main.rs:684`), but an error of the follow output or of
  an earlier return leaves none. `TotalsComplete` and `ExitTellsOutcome` are about what follows.
- A budget turns the status of a finished manifest to failed after its terminal event said
  completed.
- Before any call is recorded the budget counts announced calls; afterwards recorded ones,
  which do not include failed drives.
- A trace child is named by drive and attempt: a re-ask of the same drive reuses the name of the
  child of the ask before (`register_trace_child.py:130-158`). One that is registered before a
  failing step stays open.
- A drive dropped while its sandbox is created leaves the directory; dropped before it has read
  the output of `docker run`, the container too, which nobody removes. The children of the
  registrar and a setup on the host go on after their drive (`codex.rs:722`, `783`, `816`,
  `jesterky-sandbox/src/lib.rs:126`). In a container a session goes on after its client is
  killed, until the container is removed.
- The proxy accepts a reply whose tool call has empty arguments and refuses the
  transcript that holds it (`convert.rs:198`). Parallel calls become messages of their own, which the
  comment at `convert.rs:652-654` says they do not.
- `docs.rs` takes a score of 1 for a fraction, so that 1 of the 10 that its schema has counts as 10.
  An audit of a blog that is lost, or one of code whose score is out of range, fails the
  whole report, although the gate of the map tolerates lost audits. Two repositories of one name
  overwrite each other's modules (`oss_code.rs:187`). A reply to `obliq` that leaves golds out is
  scored without them, and one that repeats a gold counts it twice.

## 6. What is not modelled

- **Data with no effect on control**: the wording of payloads and prompts, JSON paths, wall-clock
  times of events, offloading of large inputs, hashes, HTML and terminal rendering.
- **Run record**: beyond the trace tree and `children_within_total`, the checks of
  `InvariantReport` compare fields that `build_trace` copies from one place.
- **Goals**: the runner reads `all_required_met` and `should_fail`, which are in `Runner`; the
  merge of a plan with an overlay is the `deep_merge_json` that `Budgets` has, and the
  progress numbers only label lines of a panel.
- **CLI**: `visualize`, `schema` and the other commands read a file and print; they change
  nothing. `live_item_labels` runs the program of `expand` once more, for labels, before
  the run (`main.rs:1146`): its result is used for nothing else.
- **Annotation grounding** is a tally over recorded rows, **terminal visualisation** draws
  frames, **DungeonGrid** is a game for demonstrations whose rules the model actor is told in a
  prompt: none has state a run depends on. The `Resource` trait they would use is part of
  the runner's seam, but no node kind drives it.
- **Quality workloads**: the excerpts, claims and context a job carries, the statistics of a
  report, its rendered matrix, the identity hashes of the traces.
- **Timeouts**: there are none on drives, children, docker or upstream requests, so there is none
  in the models.
- **The follow thread** tests its stop flag in the step that ends a fold, where the code may be
  told to stop between the two (`main.rs:1278-1301`). Either way the drain after the loop
  reads what is left, on which the properties rest.
- **Hazards without a property**: sessions of one group with one id share a lane, a group nested in the body of another on the same limit waits
  for its own parent, nested loops reuse a lane, a branch inside an inline body may recurse, a
  trace child whose attempt fails early stays open, and a child that fills its stderr pipe is
  never read. The topologies of the runs, or the properties, except these cases.

## 7. Plan

In order of importance:

1. **Proofs about `Replay`**: a condition on topologies under which the answers settle the
   outcome, and `ReplayFaithful` under it, for one future at a time first.
2. **Proofs about the proxy**: that `Reserve` of `ChatProxy` is what `ProxyBudget` implements.
3. **Models**: groups and loops that nest, as instances of `Runner` that are meant to fail;
   goal overlays as operators; that `Runner` with `LimitSet` in the place of its guard behaves
   as it does with it.
