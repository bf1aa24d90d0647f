----------------------------- MODULE ModelActor -----------------------------
(***************************************************************************)
(* ModelActor::drive (jesterky-model/lib.rs): a sandbox for the call, a    *)
(* model asked until its reply holds an object of the declared shape, the  *)
(* files the agent wrote captured into the outputs.                        *)
(*                                                                         *)
(* Drives run at once, as the items of a parallel map do; each is a        *)
(* sequence of steps between awaits.  A drive may be cancelled at any of   *)
(* them: its future is dropped.                                            *)
(***************************************************************************)
EXTENDS CodexExec, FiniteSets, FiniteSetsExt

CONSTANT ParseAttempts  \* PARSE_ATTEMPTS

ASSUME ActorAssumption == ParseAttempts \in Nat \ {0}

vars == <<setup, pc, boxes, tries, child, strays, talk, trace, result>>
run == <<tries, child, strays, talk, trace, result>>

Init ==
  /\ setup \in Setups
  /\ pc = [d \in Drive |-> "idle"]
  /\ BoxesInit
  /\ ExecInit

-----------------------------------------------------------------------------
(* Before the model is asked                                               *)

\* The schema file is read first: no sandbox is made for a bad one.
Begin(d) ==
  /\ Goto(d, "idle", IF Backend(d) = "none" THEN "ask" ELSE "create")
  /\ UNCHANGED <<boxes, run>>

BadSchema(d) ==
  /\ pc[d] = "idle" /\ setup[d].schema
  /\ Return(d, Failed("config"))
  /\ UNCHANGED trace

Create(d) ==
  /\ MakeDir(d) \/ Stage(d) \/ TakeContainer(d) \/ QueryContainer(d) \/ RunSetup(d)
  /\ UNCHANGED run

\* A docker run that fails has left no container.
CreateFails(d) ==
  /\ Creating(d) /\ pc[d] # "started"
  /\ Return(d, Failed("sandbox"))
  /\ UNCHANGED trace

\* A call of complete: its attempts are counted from zero.
Ask(d) ==
  /\ Goto(d, "ask", "exec")
  /\ asks' = [asks EXCEPT ![d] = @ + 1]
  /\ attempt' = [attempt EXCEPT ![d] = 0]
  /\ UNCHANGED <<boxes, exec, child, strays, talk, trace, result>>

-----------------------------------------------------------------------------
(* The reply                                                               *)

\* Where in the reply there are objects.
Objects(r) == {i \in DOMAIN r : r[i] \in {"fit", "unfit"}}

\* Faulty variant: the first object of the reply.
FirstObject(r) == IF Objects(r) = {} THEN "prose" ELSE r[Min(Objects(r))]

\* extract_json: the last balanced object of the reply.
Extracted(r) == IF Objects(r) = {} THEN "prose" ELSE r[Max(Objects(r))]

\* An object, and one that validate_json accepts if a schema is declared.
Usable(d) ==
  \/ Extracted(reply[d]) = "fit"
  \/ Extracted(reply[d]) = "unfit" /\ ~setup[d].schema

Answer(d, files) ==
  [ok |-> TRUE, outputs |-> Extracted(reply[d]), files |-> files, session |-> Session(d),
   script |-> child[d].script]

Captures(d) == setup[d].capture /\ Backend(d) # "none"

AnswerNow(d) ==
  /\ pc[d] = "judge" /\ Usable(d) /\ ~Captures(d)
  /\ Return(d, Answer(d, NoFiles))
  /\ UNCHANGED trace

Capturing(d) ==
  /\ Usable(d) /\ Captures(d)
  /\ Goto(d, "judge", "capture")
  /\ UNCHANGED <<boxes, run>>

Collect(d) ==
  /\ pc[d] = "capture"
  /\ Return(d, Answer(d, Collected(d)))
  /\ UNCHANGED trace

\* A file that cannot be read as text.
CollectFails(d) ==
  /\ pc[d] = "capture"
  /\ Return(d, Failed("sandbox"))
  /\ UNCHANGED trace

\* The same sandbox, the prompt with a nudge.
AskAgain(d) ==
  /\ ~Usable(d) /\ asks[d] < ParseAttempts
  /\ Goto(d, "judge", "ask")
  /\ UNCHANGED <<boxes, run>>

GiveUp(d) ==
  /\ pc[d] = "judge" /\ ~Usable(d) /\ asks[d] = ParseAttempts
  /\ Return(d, Failed("parse"))
  /\ UNCHANGED trace

-----------------------------------------------------------------------------
(* A drive that is cancelled                                               *)

\* docker run, the setup on the host, and the three calls of the registrar: a
\* child of the host that is not killed on drop.  A command in a container ends
\* with it.
Helps(d) ==
  \/ pc[d] \in {"start", "register", "import", "finish"}
  \/ pc[d] = "setup" /\ ~InContainer(d)

\* What it was told to do.
Helper(d) ==
  [drive |-> d, does |-> pc[d], status |-> IF pc[d] = "finish" THEN Verdict(d) ELSE "open"]

Cancel(d) ==
  /\ pc[d] \notin {"idle", "done"}
  /\ Leave(d, Failed("cancelled"))
  /\ orphans' = IF Helps(d) THEN orphans \cup {Helper(d)} ELSE orphans
  /\ UNCHANGED trace

\* A helper that nobody waits for does its work, or fails.
Mounts(o) ==
  containers' = IF o.does = "start" THEN containers \cup {box[o.drive]} ELSE containers

Reports(o) ==
  trace' = CASE o.does = "register" -> Registered(o.drive)
             [] o.does = "import" -> Imported(Capture(o.drive))
             [] o.does = "finish" -> Closed(Capture(o.drive), o.status)
             [] OTHER -> trace

OrphanEnds ==
  \E o \in orphans :
    /\ orphans' = orphans \ {o}
    /\ \/ Mounts(o) /\ Reports(o)
       \/ UNCHANGED <<containers, trace>>
    /\ UNCHANGED <<seq, disk, box, pc, tries, child, strays, talk, result>>

-----------------------------------------------------------------------------
Host(d) ==
  \/ Begin(d) \/ BadSchema(d) \/ Create(d) \/ CreateFails(d) \/ Ask(d)
  \/ Misconfigured(d) \/ Configure(d) \/ Register(d) \/ RegisterFails(d)
  \/ HeadersFail(d) \/ SinkOpenFails(d) \/ SpawnFails(d) \/ Launch(d) \/ ReadGarbled(d) \/ SinkFails(d) \/ ReadLine(d)
  \/ Wait(d) \/ Import(d) \/ ImportFails(d) \/ Finish(d) \/ FinishFails(d)
  \/ SettleReply(d) \/ SettleFailure(d) \/ Retry(d)
  \/ AnswerNow(d) \/ Capturing(d) \/ Collect(d) \/ CollectFails(d)
  \/ AskAgain(d) \/ GiveUp(d)

\* docker run belongs to the environment, as the session does.
DockerRuns(d) == StartContainer(d) /\ UNCHANGED run

Subprocess(d) ==
  \/ DockerRuns(d)
  \/ ChildPrints(d) \/ ChildComplains(d) \/ ChildWrites(d) \/ ChildExits(d)

\* The subprocess fills the stderr pipe, which nobody reads before it has
\* exited: it stops, and the drive waits for it.
StderrFull(d) == AtStep(d, {"err"}) /\ Len(child[d].err) = PipeLimit

Finished ==
  /\ \A d \in Drive : pc[d] = "done" \/ StderrFull(d)
  /\ UNCHANGED vars

Next ==
  \/ \E d \in Drive : (Host(d) \/ Cancel(d) \/ Subprocess(d)) /\ UNCHANGED setup
  \/ (StrayWrites \/ OrphanEnds) /\ UNCHANGED setup
  \/ Finished

Spec == Init /\ [][Next]_vars

\* The runtime polls a future that can go on, and a session does not stop by
\* itself: nothing in the code bounds its time, so this is assumed of codex.
Fairness ==
  \A d \in Drive : WF_vars(Host(d) /\ UNCHANGED setup)
                   /\ WF_vars(Subprocess(d) /\ UNCHANGED setup)

FairSpec == Spec /\ Fairness

-----------------------------------------------------------------------------
(* Properties                                                              *)

Told(s) == s.do = "say" /\ s.what \in {"fit", "unfit"}
Answers(script) == {i \in DOMAIN script.steps : Told(script.steps[i])}

\* The outputs of a drive are the last object its session printed, however
\* far ahead of the host the session was and however often the model had to
\* be asked: nothing is lost between the pipe and the parse of drive, and no
\* text of an earlier attempt gets in.
AnswerIsLast ==
  \A d \in Drive :
    result[d].ok =>
      /\ LET s == result[d].script
         IN Answers(s) # {} /\ result[d].outputs = s.steps[Max(Answers(s))].what
      /\ result[d].script.code = 0
      /\ setup[d].schema => result[d].outputs = "fit"

Wrote(script) == {s.what : s \in {t \in Steps(script) : t.do = "write"}}

\* A command of a session of the drive that was killed may have written the file.
LeftBehind(d, p, by) == [drive |-> d, by |-> by, path |-> p] \in strays

\* The capture of a drive holds seeds and files of its own sessions, never
\* those of a drive that ran beside it, and everything the answering session
\* wrote; without a container, with the content that session gave it, unless a
\* command of a session that was killed before was still there to overwrite it.
CaptureIsOwn ==
  \A d \in Drive :
    result[d].ok /\ Captures(d) =>
      LET f == result[d].files
      IN /\ \A p \in DOMAIN f : f[p] = Seed \/ f[p][1] = d
         /\ Flag(d) # "read-only" =>
              \A p \in Wrote(result[d].script) \cap Globs :
                p \in DOMAIN f /\ (~InContainer(d) => f[p] = result[d].session \/ LeftBehind(d, p, f[p]))

Printed(script) == Cardinality({i \in DOMAIN script.steps : script.steps[i].do \in Lines \ {"blank"}})

\* A drive that answers under tracing leaves the trace child of the session
\* that answered completed, with the whole of its stream imported before.
TraceTellsAnswer ==
  \A d \in Drive :
    result[d].ok /\ Traced(d) =>
      LET t == trace[Capture(d)]
      IN /\ t.status = "completed" /\ t.session = result[d].session
         /\ HasSink(d) => t.imported = Printed(result[d].script)

\* A drive that ended before its model was asked, by a failure of its sandbox or
\* by being dropped.
BrokenOff(d) ==
  /\ pc[d] = "done" /\ ~result[d].ok
  /\ result[d].class \in {"sandbox", "cancelled"} /\ asks[d] = 0

Cancelled(d) == pc[d] = "done" /\ ~result[d].ok /\ result[d].class = "cancelled"

\* No two drives have one workspace.  A drive that is over has no codex process
\* any more, in its container least of all; and no directory, unless the creation
\* of its sandbox was broken off or commands of a killed session are still at
\* work there.  A container or a helper process outlives none but a drive that
\* was dropped while it waited for it.
NothingLeft ==
  /\ \A c, d \in Drive : box[c] = box[d] => c = d \/ box[c] = NoBox
  /\ \A d \in Drive : pc[d] = "done" => ~child[d].up
  /\ \A s \in strays : InContainer(s.drive) => pc[s.drive] # "done"
  /\ \A dir \in DOMAIN disk : \E d \in Drive :
       /\ box[d] = dir
       /\ pc[d] = "done" => BrokenOff(d) \/ \E s \in strays : s.drive = d
  /\ \A dir \in containers : \E d \in Drive :
       /\ box[d] = dir
       /\ pc[d] = "done" => BrokenOff(d) /\ Cancelled(d)
  /\ \A o \in orphans : Cancelled(o.drive)

\* Every drive ends, whatever its sessions print, as long as none of them
\* complains at such length that it fills the stderr pipe: exec_once reads
\* stderr after the exit of the session only.
DriveEnds ==
  \A d \in Drive : pc[d] # "idle" ~> pc[d] = "done" \/ StderrFull(d)
=============================================================================
