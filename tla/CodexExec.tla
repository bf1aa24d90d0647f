----------------------------- MODULE CodexExec ------------------------------
(***************************************************************************)
(* CodexModel::complete and exec_once (codex.rs): one codex subprocess per *)
(* attempt, its JSONL stream read through a pipe, its trace child, and the *)
(* retries of an attempt that failed in a way worth retrying.              *)
(*                                                                         *)
(* The subprocess is the environment.  It follows a script: what it prints *)
(* (a line), complains of (a piece of stderr), writes to the workspace,    *)
(* and the code it exits with.  It runs beside the host, and stops while a *)
(* pipe it writes to is full.  The concurrency limiter that surrounds an   *)
(* attempt is the module AdaptiveLimiter.                                  *)
(***************************************************************************)
EXTENDS Workspaces

CONSTANTS
  Scripts(_),   \* the scripts a session of a drive may follow
  MaxAttempts,  \* MAX_ATTEMPTS
  TailLength,   \* how many lines the tail keeps (12 in the code)
  PipeLimit     \* bound: what a pipe holds

Steps(script) == {script.steps[i] : i \in DOMAIN script.steps}

ASSUME ExecAssumption ==
  /\ MaxAttempts \in Nat \ {0}
  /\ TailLength \in Nat \ {0}
  /\ PipeLimit \in Nat \ {0}
  /\ \A d \in Drive : \A s \in Scripts(d) : s.steps \in Seq(Steps(s))

VARIABLES
  asks,     \* how often the drive has called complete
  attempt,  \* the attempt counter of the running complete
  exec,     \* how many sessions the drive has started: names them
  child,    \* the subprocess of the running attempt
  strays,   \* what is left of killed sessions, and the file each may write
  reply,    \* the agent messages of the attempt
  tail,     \* the last lines of the attempt
  trace,    \* the registered trace children, by capture id
  result    \* what the drive has returned

tries == <<asks, attempt, exec>>
talk == <<reply, tail>>

NoResult == [ok |-> FALSE, class |-> "none"]
Failed(class) == [ok |-> FALSE, class |-> class]
NoChild == [up |-> FALSE, at |-> 0, out |-> <<>>, err |-> <<>>, as |-> <<>>,
            script |-> [steps |-> <<>>, code |-> 0]]

Session(d) == <<d, exec[d]>>

ExecInit ==
  /\ asks = [d \in Drive |-> 0]
  /\ attempt = [d \in Drive |-> 0]
  /\ exec = [d \in Drive |-> 0]
  /\ child = [d \in Drive |-> NoChild]
  /\ strays = {}
  /\ reply = [d \in Drive |-> <<>>]
  /\ tail = [d \in Drive |-> <<>>]
  /\ trace = [x \in {} |-> 0]
  /\ result = [d \in Drive |-> NoResult]

-----------------------------------------------------------------------------
(* The end of an attempt                                                   *)

\* What a session has not yet written to its workspace, and may write there.
Pending(d) ==
  {[drive |-> d, by |-> Session(d), path |-> child[d].script.steps[i].what] :
     i \in {j \in child[d].at + 1 .. Len(child[d].script.steps) :
              child[d].script.steps[j].do = "write" /\ child[d].as.sandbox # "read-only"}}

\* kill_on_drop kills the process that was spawned.  In a container that is
\* the docker exec client: the session it started goes on.  On the host it is
\* codex, and commands that codex has started may go on.
Survivors(d) == IF InContainer(d) THEN {Pending(d)} ELSE SUBSET Pending(d)

Hangup(d) ==
  /\ child' = [child EXCEPT ![d] = NoChild]
  /\ \E left \in Survivors(d) : strays' = strays \cup left

\* Removing the container ends what still runs in it.
EndStrays(d) ==
  IF InContainer(d) THEN strays' = {s \in strays : s.drive # d}
                    ELSE \E left \in Survivors(d) : strays' = strays \cup left

\* The future of the drive is dropped, with everything it holds.
Leave(d, r) ==
  /\ pc' = [pc EXCEPT ![d] = "done"]
  /\ result' = [result EXCEPT ![d] = r]
  /\ child' = [child EXCEPT ![d] = NoChild]
  /\ EndStrays(d)
  /\ DropBox(d, \E s \in strays' : s.drive = d)
  /\ UNCHANGED <<seq, tries, talk>>

\* The drive ends by itself: no helper of it runs.
Return(d, r) == Leave(d, r) /\ UNCHANGED orphans

Retryable(class) == class \in {"transient", "quota"}

MayRetry(d) == attempt[d] + 1 < MaxAttempts

Fail(d, class) ==
  IF Retryable(class) /\ MayRetry(d)
  THEN /\ pc' = [pc EXCEPT ![d] = "backoff"]
       /\ Hangup(d)
       /\ UNCHANGED <<boxes, tries, talk, result>>
  ELSE Return(d, Failed(class))

Retry(d) ==
  /\ Goto(d, "backoff", "exec")
  /\ attempt' = [attempt EXCEPT ![d] = @ + 1]
  /\ UNCHANGED <<boxes, asks, exec, child, strays, talk, trace, result>>

-----------------------------------------------------------------------------
(* Before the subprocess                                                   *)

Traced(d) == setup[d].traced # "off"
HasSink(d) == setup[d].traced = "sink"

\* provider_proxy_for_child, and the provider the arguments select.
Provider(d) ==
  CASE Traced(d) -> "synth_trace"
    [] ~Traced(d) /\ setup[d].native = setup[d].proxy -> "refused"
    [] ~Traced(d) /\ setup[d].native /\ ~setup[d].proxy -> "openai"
    [] ~Traced(d) /\ ~setup[d].native /\ setup[d].proxy -> "jesterky_local_proxy"

UrlRefused(d) == Traced(d) /\ setup[d].badUrl

\* The loopback proxy cannot be reached from a container.
Configurable(d) ==
  /\ ~UrlRefused(d)
  /\ Provider(d) # "refused"
  /\ ~(Provider(d) = "jesterky_local_proxy" /\ InContainer(d))
  /\ ~setup[d].badTools

Flag(d) ==
  CASE InContainer(d) -> "danger-full-access"
    [] Backend(d) = "local" -> Mode(d)
    [] Backend(d) = "none" -> "read-only"

CodexReadsSchema(d) ==
  setup[d].schema /\ ~InContainer(d) /\ Provider(d) = "openai"

\* CODEX_HOME: a proxy keeps its own, otherwise the sandbox's wins.
Home(d) ==
  CASE Provider(d) = "jesterky_local_proxy" -> "proxy"
    [] Provider(d) # "jesterky_local_proxy" /\ InContainer(d) -> "container"
    [] Provider(d) # "jesterky_local_proxy" /\ ~InContainer(d) -> "model"

\* register_trace_child.py derives every id of the trace child from the
\* actor, its address and the attempt.
Capture(d) == <<d, attempt[d]>>

\* The arguments and the environment the subprocess is given.
Command(d) ==
  [provider |-> Provider(d), sandbox |-> Flag(d), schema |-> CodexReadsSchema(d),
   home |-> Home(d), attempt |-> attempt[d], capture |-> Capture(d)]

Misconfigured(d) ==
  /\ pc[d] = "exec" /\ ~Configurable(d)
  /\ Fail(d, "config")
  /\ UNCHANGED trace

Configure(d) ==
  /\ Configurable(d)
  /\ Goto(d, "exec", IF Traced(d) THEN "register" ELSE "launch")
  /\ UNCHANGED <<boxes, tries, child, strays, talk, trace, result>>

Open(d) == [status |-> "open", session |-> <<d, exec[d] + 1>>, lines |-> 0, imported |-> 0]
Registered(d) == Put(trace, Capture(d), Open(d))

Register(d) ==
  /\ Goto(d, "register", "launch")
  /\ trace' = Registered(d)
  /\ UNCHANGED <<boxes, tries, child, strays, talk, result>>

\* The registrar fails, before or after the collector knows the child.
RegisterFails(d) ==
  /\ pc[d] = "register"
  /\ trace' \in {trace, Registered(d)}
  /\ Fail(d, "config")

\* Three ways to fail before the subprocess runs.  A trace child that was
\* registered stays open: nothing finishes it.
HeadersFail(d) ==
  /\ pc[d] = "launch" /\ Traced(d)
  /\ Fail(d, "config")
  /\ UNCHANGED trace

SinkOpenFails(d) ==
  /\ pc[d] = "launch" /\ HasSink(d)
  /\ Fail(d, "config")
  /\ UNCHANGED trace

\* No such binary, or any other error of the spawn.
SpawnFails(d) ==
  /\ pc[d] = "launch"
  /\ \E class \in {"config", "transient"} : Fail(d, class)
  /\ UNCHANGED trace

\* The file of the sink is truncated, then the subprocess is spawned.
Launch(d) ==
  /\ Goto(d, "launch", "read")
  /\ exec' = [exec EXCEPT ![d] = @ + 1]
  /\ \E s \in Scripts(d) :
       child' = [child EXCEPT ![d] = [NoChild EXCEPT !.up = TRUE, !.script = s,
                                                          !.as = Command(d)]]
  /\ reply' = [reply EXCEPT ![d] = <<>>]
  /\ tail' = [tail EXCEPT ![d] = <<>>]
  /\ UNCHANGED <<boxes, asks, attempt, strays, trace, result>>

-----------------------------------------------------------------------------
(* The subprocess                                                          *)

Lines == {"say", "log", "noise", "blank", "garble"}

AtStep(d, kinds) ==
  /\ child[d].up
  /\ child[d].at < Len(child[d].script.steps)
  /\ child[d].script.steps[child[d].at + 1].do \in kinds

Doing(d) == child[d].script.steps[child[d].at + 1]

ChildPrints(d) ==
  /\ AtStep(d, Lines)
  /\ Len(child[d].out) < PipeLimit
  /\ child' = [child EXCEPT ![d].at = @ + 1, ![d].out = Append(@, Doing(d))]
  /\ UNCHANGED <<boxes, pc, tries, strays, talk, trace, result>>

ChildComplains(d) ==
  /\ AtStep(d, {"err"})
  /\ Len(child[d].err) < PipeLimit
  /\ child' = [child EXCEPT ![d].at = @ + 1, ![d].err = Append(@, Doing(d))]
  /\ UNCHANGED <<boxes, pc, tries, strays, talk, trace, result>>

\* The sandbox of codex itself enforces the mode.
ChildWrites(d) ==
  /\ AtStep(d, {"write"})
  /\ child' = [child EXCEPT ![d].at = @ + 1]
  /\ disk' = IF child[d].as.sandbox # "read-only"
             THEN [disk EXCEPT ![box[d]] = Put(@, Doing(d).what, Session(d))]
             ELSE disk
  /\ UNCHANGED <<seq, box, containers, orphans, pc, tries, strays, talk, trace, result>>

ChildExits(d) ==
  /\ child[d].up
  /\ child[d].at = Len(child[d].script.steps)
  /\ child' = [child EXCEPT ![d].up = FALSE]
  /\ UNCHANGED <<boxes, pc, tries, strays, talk, trace, result>>

\* As often as it likes, as long as the directory is there.
StrayWrites ==
  \E s \in strays :
    /\ box[s.drive] # NoBox
    /\ disk' = [disk EXCEPT ![box[s.drive]] = Put(@, s.path, s.by)]
    /\ UNCHANGED <<seq, box, containers, orphans, pc, tries, child, strays, talk, trace, result>>

-----------------------------------------------------------------------------
(* Reading the stream                                                      *)

\* A line that is not UTF-8 ends the attempt while the subprocess runs.
ReadGarbled(d) ==
  /\ pc[d] = "read" /\ child[d].out # <<>>
  /\ Head(child[d].out).do = "garble"
  /\ Fail(d, "transient")
  /\ UNCHANGED trace

SinkFails(d) ==
  /\ pc[d] = "read" /\ HasSink(d) /\ child[d].out # <<>>
  /\ Head(child[d].out).do \notin {"garble", "blank"}
  /\ Fail(d, "transient")
  /\ UNCHANGED trace

\* The trace child that the environment of the subprocess names.
Traces(d) == child[d].as.capture

Last(s, n) == IF Len(s) > n THEN SubSeq(s, Len(s) - n + 1, Len(s)) ELSE s

\* ShardStream::ingest: the text of an agent message is added to the reply.
Ingested(d, line) == IF line.do = "say" THEN Append(reply[d], line.what) ELSE reply[d]

ReadLine(d) ==
  /\ pc[d] = "read" /\ child[d].out # <<>>
  /\ LET line == Head(child[d].out)
     IN /\ line.do # "garble"
        /\ child' = [child EXCEPT ![d].out = Tail(@)]
        /\ IF line.do = "blank"
           THEN UNCHANGED <<talk, trace>>
           ELSE /\ trace' = IF HasSink(d) THEN [trace EXCEPT ![Traces(d)].lines = @ + 1]
                            ELSE trace
                /\ tail' = [tail EXCEPT ![d] = Last(Append(@, line), TailLength)]
                /\ reply' = [reply EXCEPT ![d] = Ingested(d, line)]
  /\ UNCHANGED <<boxes, pc, tries, strays, result>>

\* Faulty variant: the exit of the subprocess is taken for the end of its output.
ExitSeen(d) == ~child[d].up

\* Faulty variant: the host waits for both pipes to be empty.
BothEnded(d) == ~child[d].up /\ child[d].out = <<>> /\ child[d].err = <<>>

\* next_line returns None at the end of the pipe: nothing left, and no writer.
AtEnd(d) == ~child[d].up /\ child[d].out = <<>>

Wait(d) ==
  /\ AtEnd(d)
  /\ Goto(d, "read", IF ~Traced(d) THEN "settle" ELSE IF HasSink(d) THEN "import" ELSE "finish")
  /\ UNCHANGED <<boxes, tries, child, strays, talk, trace, result>>

Succeeded(d) == child[d].script.code = 0

\* The importer reads the file of the sink.
Imported(c) == [trace EXCEPT ![c].imported = trace[c].lines]

Import(d) ==
  /\ Goto(d, "import", "finish")
  /\ trace' = Imported(Traces(d))
  /\ UNCHANGED <<boxes, tries, child, strays, talk, result>>

\* Flushing the sink fails, or the importer.
ImportFails(d) ==
  /\ pc[d] = "import"
  /\ \E class \in {"transient", "config"} : Fail(d, class)
  /\ UNCHANGED trace

Verdict(d) == IF Succeeded(d) /\ reply[d] # <<>> THEN "completed" ELSE "failed"

Closed(c, status) == [trace EXCEPT ![c].status = status]

Finish(d) ==
  /\ Goto(d, "finish", "settle")
  /\ trace' = Closed(Traces(d), Verdict(d))
  /\ UNCHANGED <<boxes, tries, child, strays, talk, result>>

\* The finisher fails, before or after the collector has the status.
FinishFails(d) ==
  /\ pc[d] = "finish"
  /\ trace' \in {trace, Closed(Traces(d), Verdict(d))}
  /\ Fail(d, "config")

\* classify_codex_failure looks for words in stderr and the tail together.
Classify(d) ==
  LET said == {child[d].err[i].what : i \in DOMAIN child[d].err} \cup
              {tail[d][i].what : i \in DOMAIN tail[d]}
  IN CASE "quota" \in said -> "quota"
       [] "quota" \notin said /\ "auth" \in said -> "auth"
       [] "quota" \notin said /\ "auth" \notin said -> "transient"

SettleReply(d) ==
  /\ Goto(d, "settle", "judge")
  /\ Succeeded(d) /\ reply[d] # <<>>
  /\ UNCHANGED <<boxes, tries, child, strays, talk, trace, result>>

SettleFailure(d) ==
  /\ pc[d] = "settle"
  /\ ~(Succeeded(d) /\ reply[d] # <<>>)
  /\ Fail(d, IF Succeeded(d) THEN "parse" ELSE Classify(d))
  /\ UNCHANGED trace
=============================================================================
