-------------------------- MODULE ModelActorProofs --------------------------
(***************************************************************************)
(* Proofs about the drives of a model actor, for any number of them at     *)
(* once, every configuration and every script their sessions follow: who   *)
(* owns which workspace, what is written there, and how what a session     *)
(* prints becomes the answer and the trace of its drive.                   *)
(***************************************************************************)
EXTENDS ModelActor, FiniteSetTheorems, WellFoundedInduction, TLAPS

Making == {"create", "stage", "start", "started", "query", "setup"}
Trying == {"ask", "exec", "register", "launch", "backoff"}
Running == {"read", "import", "finish", "settle", "judge", "capture"}
Ends == {"idle", "done"}

ChildFields == {"up", "at", "out", "err", "as", "script"}
TraceFields == {"status", "session", "lines", "imported"}

Shapes ==
  /\ setup \in Setups
  /\ pc \in [Drive -> Making \cup Trying \cup Running \cup Ends]
  /\ DOMAIN box = Drive /\ DOMAIN result = Drive
  /\ DOMAIN asks = Drive /\ DOMAIN attempt = Drive /\ DOMAIN exec = Drive
  /\ DOMAIN reply = Drive /\ DOMAIN tail = Drive /\ DOMAIN child = Drive
  /\ seq \in [{"local", "docker"} -> Nat]
  /\ \A d \in Drive : DOMAIN child[d] = ChildFields
  /\ \A c \in DOMAIN trace : DOMAIN trace[c] = TraceFields

-----------------------------------------------------------------------------
(* Workspaces and their owners                                             *)

\* A drive has a workspace from the step that makes it on, under a name that was
\* given once, and has it still when it is over only if nothing owned it or
\* something was at work there.
Placed(d) ==
  /\ pc[d] # "done" => (box[d] # NoBox <=> Backend(d) # "none" /\ pc[d] \notin {"idle", "create"})
  /\ pc[d] = "done" /\ box[d] # NoBox => BrokenOff(d) \/ \E s \in strays : s.drive = d
  /\ box[d] # NoBox =>
       /\ Backend(d) # "none" /\ box[d] \in DOMAIN disk
       /\ \E n \in Nat : n < seq[Backend(d)] /\ box[d] = <<Backend(d), n>>
  /\ pc[d] \in Making => Backend(d) # "none"
  /\ pc[d] \in {"start", "started", "query"} => InContainer(d)
  /\ box[d] \in containers =>
       /\ box[d] # NoBox /\ InContainer(d) /\ pc[d] \notin {"stage", "start"}
       /\ pc[d] = "done" => BrokenOff(d) /\ Cancelled(d)
  /\ pc[d] \in Making \cup {"idle"} => asks[d] = 0
  /\ child[d].up => pc[d] = "read"
  /\ result[d].ok => pc[d] = "done"

\* A stray belongs to a session whose attempt is over, and in a container to a
\* drive that is not; an orphan to a drive that was cancelled.
Workplaces ==
  /\ \A d \in Drive : Placed(d)
  /\ \A c, d \in Drive : box[c] = box[d] => c = d \/ box[c] = NoBox
  /\ containers \subseteq {box[d] : d \in Drive}
  /\ \A dir \in DOMAIN disk :
       /\ \E b \in {"local", "docker"}, n \in Nat : n < seq[b] /\ dir = <<b, n>>
       /\ \E d \in Drive : box[d] = dir
  /\ \A s \in strays :
       /\ s.drive \in Drive /\ s.by[1] = s.drive
       /\ s = [drive |-> s.drive, by |-> s.by, path |-> s.path]
       /\ pc[s.drive] \in Trying \cup Running \cup {"done"}
       /\ InContainer(s.drive) => pc[s.drive] # "done"
  /\ \A o \in orphans :
       /\ o.drive \in Drive /\ Cancelled(o.drive)
       /\ o.does = "start" =>
            BrokenOff(o.drive) /\ InContainer(o.drive) /\ box[o.drive] # NoBox

-----------------------------------------------------------------------------
(* What sessions do in them                                                *)

\* The session of a running attempt follows a script, under the command it was
\* started with; it has exited where the host no longer reads.
Following(d) ==
  pc[d] \in Running =>
    /\ child[d].script \in Scripts(d)
    /\ child[d].at \in 0 .. Len(child[d].script.steps)
    /\ child[d].as = Command(d)
    /\ ~child[d].up => child[d].at = Len(child[d].script.steps)
    /\ pc[d] # "read" => child[d].out = <<>>
    /\ pc[d] \in {"judge", "capture"} => Succeeded(d) /\ reply[d] # <<>>
    /\ pc[d] = "capture" => Usable(d) /\ Captures(d)

OwnFiles(d) ==
  box[d] # NoBox =>
    \A p \in DOMAIN disk[box[d]] : disk[box[d]][p] = Seed \/ disk[box[d]][p][1] = d

\* What the session has written so far is in the workspace, and still as it
\* wrote it unless earlier sessions go on in the container, or have left a
\* command on the host that writes the same file.
Written(d) ==
  pc[d] \in Running /\ Flag(d) # "read-only" =>
    \A i \in 1 .. child[d].at :
      LET s == child[d].script.steps[i] IN
      s.do = "write" => /\ s.what \in DOMAIN disk[box[d]]
                        /\ ~InContainer(d) => \/ disk[box[d]][s.what] = Session(d)
                                            \/ LeftBehind(d, s.what, disk[box[d]][s.what])

\* What CaptureIsOwn says of one drive.
OwnCapture(d) ==
  result[d].ok /\ Captures(d) =>
    LET f == result[d].files
    IN /\ \A p \in DOMAIN f : f[p] = Seed \/ f[p][1] = d
       /\ Flag(d) # "read-only" =>
            \A p \in Wrote(result[d].script) \cap Globs :
              p \in DOMAIN f /\ (~InContainer(d) => f[p] = result[d].session \/ LeftBehind(d, p, f[p]))

Working == \A d \in Drive : Following(d) /\ OwnFiles(d) /\ Written(d) /\ OwnCapture(d)

-----------------------------------------------------------------------------
(* From the pipe to the answer                                             *)

LastOf(P, i) == i \in P /\ \A j \in P : j <= i

ToldIn(q, n) == {i \in 1 .. n : Told(q[i])}

\* The last object of the first at steps is the last one of the pipe, or where
\* the pipe has none, of the reply.
Tells(steps, at, out, r) ==
  LET told == ToldIn(steps, at)
      piped == ToldIn(out, Len(out))
  IN \/ told = {} /\ piped = {} /\ Objects(r) = {}
     \/ \E i \in told :
          /\ LastOf(told, i)
          /\ \/ \E j \in piped : LastOf(piped, j) /\ out[j].what = steps[i].what
             \/ /\ piped = {}
                /\ \E j \in Objects(r) : LastOf(Objects(r), j) /\ r[j] = steps[i].what

\* The pipe holds lines of the script, the reply texts of it.
Streamed(d) ==
  pc[d] \in Running =>
    /\ child[d].out \in Seq({s \in Steps(child[d].script) : s.do \in Lines})
    /\ reply[d] \in Seq({s.what : s \in Steps(child[d].script)})
    /\ Tells(child[d].script.steps, child[d].at, child[d].out, reply[d])

Counted(s) == s.do \in Lines \ {"blank"}
CountedIn(q, n) == {i \in 1 .. n : Counted(q[i])}
Count(q, n) == Cardinality(CountedIn(q, n))

\* The trace child of a running attempt is its own; its sink has the lines that
\* were printed and are not in the pipe any more.
TraceFollows(d) ==
  Traced(d) /\ pc[d] \in Running \cup {"launch"} =>
    LET t == trace[Capture(d)] IN
    /\ Capture(d) \in DOMAIN trace
    /\ t.session = IF pc[d] = "launch" THEN <<d, exec[d] + 1>> ELSE Session(d)
    /\ HasSink(d) =>
         /\ t.lines \in Nat
         /\ pc[d] = "launch" => t.lines = 0
         /\ pc[d] # "launch" =>
              Count(child[d].script.steps, child[d].at) = t.lines + Count(child[d].out, Len(child[d].out))
         /\ pc[d] \in {"finish", "settle", "judge", "capture"} => t.imported = t.lines
    /\ pc[d] = "settle" => t.status = Verdict(d)
    /\ pc[d] \in {"judge", "capture"} => t.status = "completed"

OwnAnswer(d) ==
  result[d].ok =>
    /\ LET s == result[d].script
       IN Answers(s) # {} /\ result[d].outputs = s.steps[Max(Answers(s))].what
    /\ result[d].script.code = 0
    /\ setup[d].schema => result[d].outputs = "fit"

OwnTrace(d) ==
  result[d].ok /\ Traced(d) =>
    LET t == trace[Capture(d)]
    IN /\ Capture(d) \in DOMAIN trace
       /\ t.status = "completed" /\ t.session = result[d].session
       /\ HasSink(d) => t.imported = Printed(result[d].script)

Tale(d) == Streamed(d) /\ TraceFollows(d) /\ OwnAnswer(d) /\ OwnTrace(d)

Telling == \A d \in Drive : Tale(d)

-----------------------------------------------------------------------------
(* The steps of a drive                                                    *)

OtherTraces(d) ==
  \A c : c[1] # d => /\ c \in DOMAIN trace <=> c \in DOMAIN trace'
                     /\ c \in DOMAIN trace => trace'[c] = trace[c]

OthersStay(d) ==
  \A e \in Drive : e # d =>
    /\ pc'[e] = pc[e] /\ box'[e] = box[e] /\ result'[e] = result[e]
    /\ asks'[e] = asks[e] /\ attempt'[e] = attempt[e] /\ exec'[e] = exec[e]
    /\ reply'[e] = reply[e] /\ child'[e] = child[e]

StraysStay(d) == \A s : s.drive # d => (s \in strays' <=> s \in strays)

\* An attempt that failed, before another one.
Backs(d) ==
  /\ pc[d] \notin Ends \cup Making
  /\ pc' = [pc EXCEPT ![d] = "backoff"]
  /\ Hangup(d)
  /\ UNCHANGED <<boxes, tries, talk, result>>

\* A drive that ends with a failure; a helper it waits for may be left.
Drops(d) ==
  /\ pc[d] # "done"
  /\ \E class :
       /\ Leave(d, Failed(class))
       /\ pc[d] \in Making => class \in {"sandbox", "cancelled"}
       /\ pc[d] = "started" => class = "cancelled"
       /\ orphans' = orphans \/ (class = "cancelled" /\ Helps(d) /\ orphans' = orphans \cup {Helper(d)})

\* A step that leaves workspaces and result alone.
Walks(d) ==
  /\ pc[d] \notin Making \cup {"done"}
  /\ pc[d] = "idle" => Backend(d) = "none"
  /\ \E to \in Trying \cup Running : pc' = [pc EXCEPT ![d] = to]
  /\ child'[d].up => pc'[d] = "read"
  /\ OthersStay(d)
  /\ UNCHANGED <<boxes, strays, result>>

Fails(d) ==
  \/ BadSchema(d) \/ CreateFails(d) \/ Misconfigured(d) \/ RegisterFails(d) \/ HeadersFail(d)
  \/ SinkOpenFails(d) \/ SpawnFails(d) \/ ReadGarbled(d) \/ SinkFails(d) \/ ImportFails(d)
  \/ FinishFails(d) \/ SettleFailure(d) \/ CollectFails(d) \/ GiveUp(d) \/ Cancel(d)

Succeeds(d) == AnswerNow(d) \/ Collect(d)

Advances(d) ==
  \/ Begin(d) /\ Backend(d) = "none"
  \/ Ask(d) \/ Configure(d) \/ Register(d) \/ Launch(d) \/ ReadLine(d) \/ Wait(d) \/ Import(d)
  \/ Finish(d) \/ SettleReply(d) \/ Retry(d) \/ Capturing(d) \/ AskAgain(d)
  \/ ChildPrints(d) \/ ChildComplains(d) \/ ChildExits(d)

Makes(d) == (Begin(d) /\ Backend(d) # "none") \/ Create(d) \/ DockerRuns(d)

LEMMA StepCases ==
  ASSUME NEW d \in Drive, Host(d) \/ Cancel(d) \/ Subprocess(d)
  PROVE  Fails(d) \/ Succeeds(d) \/ Advances(d) \/ Makes(d) \/ ChildWrites(d)
BY DEF Host, Subprocess, Fails, Succeeds, Advances, Makes

LEMMA FailCases ==
  ASSUME NEW d, NEW class, Fail(d, class)
  PROVE  \/ /\ pc' = [pc EXCEPT ![d] = "backoff"]
            /\ Hangup(d)
            /\ UNCHANGED <<boxes, tries, talk, result>>
         \/ Return(d, Failed(class))
BY DEF Fail

\* Every failure is one of two things.
LEMMA FailsQuit ==
  ASSUME NEW d \in Drive, Fails(d)
  PROVE  Drops(d) \/ Backs(d)
<1>1. CASE BadSchema(d) \/ CreateFails(d) \/ CollectFails(d) \/ GiveUp(d)
  BY <1>1 DEF BadSchema, CreateFails, CollectFails, GiveUp, Drops, Return, Creating, Making
<1>4. CASE Cancel(d)
  BY <1>4 DEF Cancel, Drops, Making
<1>2. ASSUME pc[d] \in Trying \cup Running, NEW class, Fail(d, class)
      PROVE  Drops(d) \/ Backs(d)
  BY <1>2, FailCases DEF Drops, Return, Backs, Making, Trying, Running, Ends
<1>3. CASE \/ Misconfigured(d) \/ RegisterFails(d) \/ HeadersFail(d) \/ SinkOpenFails(d)
           \/ SpawnFails(d) \/ ReadGarbled(d) \/ SinkFails(d) \/ ImportFails(d)
           \/ FinishFails(d) \/ SettleFailure(d)
  <2>1. pc[d] \in Trying \cup Running
    BY <1>3 DEF Misconfigured, RegisterFails, HeadersFail, SinkOpenFails, SpawnFails,
       ReadGarbled, SinkFails, ImportFails, FinishFails, SettleFailure, Trying, Running
  <2>2. \E class : Fail(d, class)
    BY <1>3 DEF Misconfigured, RegisterFails, HeadersFail, SinkOpenFails, SpawnFails,
       ReadGarbled, SinkFails, ImportFails, FinishFails, SettleFailure
  <2> QED
    BY <1>2, <2>1, <2>2
<1> QED
  BY <1>1, <1>3, <1>4 DEF Fails

LEMMA PendingIs ==
  ASSUME NEW d
  PROVE  \A s \in Pending(d) :
           /\ s.drive = d /\ s.by[1] = d
           /\ s = [drive |-> s.drive, by |-> s.by, path |-> s.path]
BY DEF Pending, Session

\* What is known of a drive that leaves.
LEMMA LeaveIs ==
  ASSUME Shapes, NEW d \in Drive, NEW r, Leave(d, r)
  PROVE  /\ OthersStay(d) /\ StraysStay(d) /\ UNCHANGED <<seq, asks, attempt, exec, reply, tail>>
         /\ pc' = [pc EXCEPT ![d] = "done"] /\ result' = [result EXCEPT ![d] = r]
         /\ child' = [child EXCEPT ![d] = NoChild]
         /\ \/ /\ Owned(d)
               /\ disk' = Without(disk, box[d]) /\ containers' = containers \ {box[d]}
               /\ box' = [box EXCEPT ![d] = NoBox]
            \/ /\ ~Owned(d) \/ \E s \in strays' : s.drive = d
               /\ UNCHANGED <<disk, containers, box>>
         /\ InContainer(d) => strays' = {s \in strays : s.drive # d}
         /\ ~InContainer(d) => \E left \in SUBSET Pending(d) : strays' = strays \cup left
<1>1. /\ UNCHANGED <<seq, asks, attempt, exec, reply, tail>>
      /\ pc' = [pc EXCEPT ![d] = "done"] /\ result' = [result EXCEPT ![d] = r]
      /\ child' = [child EXCEPT ![d] = NoChild]
  BY DEF Leave, tries, talk
<1>2. \/ /\ Owned(d)
         /\ disk' = Without(disk, box[d]) /\ containers' = containers \ {box[d]}
         /\ box' = [box EXCEPT ![d] = NoBox]
      \/ /\ ~Owned(d) \/ \E s \in strays' : s.drive = d
         /\ UNCHANGED <<disk, containers, box>>
  BY DEF Leave, DropBox, RemoveDir
<1>3. /\ InContainer(d) => strays' = {s \in strays : s.drive # d}
      /\ ~InContainer(d) => \E left \in SUBSET Pending(d) : strays' = strays \cup left
  BY DEF Leave, EndStrays, Survivors
<1>4. OthersStay(d)
  BY <1>1, <1>2 DEF OthersStay, Shapes
<1>5. StraysStay(d)
  BY <1>3, PendingIs DEF StraysStay
<1> QED
  BY <1>1, <1>2, <1>3, <1>4, <1>5

LEMMA BackOthers ==
  ASSUME Shapes, NEW d \in Drive, Backs(d)
  PROVE  /\ OthersStay(d) /\ StraysStay(d)
         /\ \E left \in SUBSET Pending(d) : strays' = strays \cup left
<1>1. OthersStay(d)
  BY DEF Backs, Hangup, boxes, OthersStay, tries, talk, Shapes
<1>2. \E left \in SUBSET Pending(d) : strays' = strays \cup left
  BY DEF Backs, Hangup, Survivors
<1>3. StraysStay(d)
  BY <1>2, PendingIs DEF StraysStay
<1> QED
  BY <1>1, <1>2, <1>3

LEMMA AdvancesWalk ==
  ASSUME Shapes, Workplaces, NEW d \in Drive, Advances(d) PROVE Walks(d)
<1> USE DEF Making, Trying, Running, Ends, boxes, tries, talk, run, Goto
<1>1. OthersStay(d)
  <2>1. CASE \/ Begin(d) \/ Ask(d) \/ Configure(d) \/ Register(d) \/ Launch(d)
    BY <2>1 DEF Begin, Ask, Configure, Register, Launch, OthersStay, Shapes
  <2>2. CASE \/ ReadLine(d) \/ Wait(d) \/ Import(d) \/ Finish(d) \/ SettleReply(d) \/ Retry(d)
    BY <2>2 DEF ReadLine, Wait, Import, Finish, SettleReply, Retry, OthersStay, Shapes
  <2>3. CASE \/ Capturing(d) \/ AskAgain(d) \/ ChildPrints(d) \/ ChildComplains(d) \/ ChildExits(d)
    BY <2>3 DEF Capturing, AskAgain, ChildPrints, ChildComplains, ChildExits, OthersStay, Shapes
  <2> QED
    BY <2>1, <2>2, <2>3 DEF Advances
<1>2. child[d].up => pc[d] = "read"
  BY DEF Workplaces, Placed
<1>3. DOMAIN pc = Drive /\ DOMAIN child = Drive /\ DOMAIN child[d] = ChildFields
  BY DEF Shapes
<1>0. pc = [e \in Drive |-> pc[e]] /\ pc[d] \in Making \cup Trying \cup Running \cup Ends
  BY DEF Shapes
<1>4. CASE \/ (Begin(d) /\ Backend(d) = "none") \/ Ask(d) \/ Configure(d) \/ Register(d) \/ Launch(d)
  BY <1>1, <1>2, <1>3, <1>4 DEF Begin, Ask, Configure, Register, Launch, Walks, Traced
<1>5. CASE \/ ReadLine(d) \/ Wait(d) \/ Import(d) \/ Finish(d) \/ SettleReply(d) \/ Retry(d)
  <2>1. child'[d].up = child[d].up /\ pc[d] \in Trying \cup Running
    BY <1>3, <1>5 DEF ReadLine, Wait, Import, Finish, SettleReply, Retry, ChildFields
  <2>2. pc' = [pc EXCEPT ![d] = pc'[d]] /\ pc'[d] \in Trying \cup Running
    BY <1>0, <1>3, <1>5, <2>1 DEF ReadLine, Wait, Import, Finish, SettleReply, Retry
  <2> QED
    BY <1>1, <1>2, <1>3, <1>5, <2>1, <2>2
       DEF ReadLine, Wait, Import, Finish, SettleReply, Retry, Walks, AtEnd
<1>6. CASE \/ Capturing(d) \/ AskAgain(d)
  BY <1>1, <1>2, <1>3, <1>6 DEF Capturing, AskAgain, Walks
<1>7. CASE ChildPrints(d) \/ ChildComplains(d) \/ ChildExits(d)
  <2>1. child[d].up /\ pc[d] = "read" /\ pc' = [pc EXCEPT ![d] = "read"]
    BY <1>0, <1>2, <1>3, <1>7 DEF ChildPrints, ChildComplains, ChildExits, AtStep
  <2> QED
    BY <1>1, <1>7, <2>1 DEF ChildPrints, ChildComplains, ChildExits, Walks
<1> QED
  BY <1>4, <1>5, <1>6, <1>7 DEF Advances

-----------------------------------------------------------------------------
(* Shapes                                                                  *)

LEMMA ShapesInit == Init => Shapes
BY SetupAssumption
   DEF Init, BoxesInit, ExecInit, Shapes, NoChild, ChildFields, Making, Trying, Running, Ends

\* What the variables are after a step of a drive, with the traces aside.
LEMMA StepShapes ==
  ASSUME Shapes, setup' = setup, \A c \in DOMAIN trace' : DOMAIN trace'[c] = TraceFields,
         NEW d \in Drive, Drops(d) \/ Backs(d) \/ Succeeds(d) \/ Makes(d) \/ Advances(d) \/ ChildWrites(d)
  PROVE  Shapes'
<1> DEFINE Kept == /\ pc' \in [Drive -> Making \cup Trying \cup Running \cup Ends]
                   /\ DOMAIN box' = Drive /\ DOMAIN result' = Drive
                   /\ DOMAIN asks' = Drive /\ DOMAIN attempt' = Drive /\ DOMAIN exec' = Drive
                   /\ DOMAIN reply' = Drive /\ DOMAIN tail' = Drive /\ DOMAIN child' = Drive
                   /\ seq' \in [{"local", "docker"} -> Nat]
                   /\ \A e \in Drive : DOMAIN child'[e] = ChildFields
<1> SUFFICES Kept
  BY DEF Shapes
<1> USE DEF Making, Trying, Running, Ends, boxes, tries, talk, run, Goto
<1>1. ASSUME NEW r, Leave(d, r) PROVE Kept
  BY <1>1, LeaveIs DEF Shapes, NoChild, ChildFields
<1>2. CASE Backs(d)
  BY <1>2 DEF Backs, Hangup, Shapes, NoChild, ChildFields
<1>3. ASSUME UNCHANGED run, \/ Begin(d) \/ QueryContainer(d) \/ StartContainer(d)
                               \/ TakeContainer(d) \/ Stage(d) \/ RunSetup(d)
      PROVE  Kept
  BY <1>3 DEF Begin, QueryContainer, StartContainer, TakeContainer, Stage, RunSetup, Shapes
<1>4. ASSUME UNCHANGED run, MakeDir(d) PROVE Kept
  <2>1. seq' = [seq EXCEPT ![Backend(d)] = @ + 1]
    BY <1>4 DEF MakeDir, TakeName
  <2>2. seq' \in [{"local", "docker"} -> Nat]
    <3>1. seq' = [b \in {"local", "docker"} |-> IF b = Backend(d) THEN seq[b] + 1 ELSE seq[b]]
      BY <2>1 DEF Shapes
    <3> QED
      BY <3>1 DEF Shapes
  <2> QED
    BY <1>4, <2>2 DEF MakeDir, Shapes
<1>5. CASE Advances(d)
  <2>1. CASE \/ Begin(d) \/ Ask(d) \/ Configure(d) \/ Register(d) \/ Launch(d)
    BY <2>1 DEF Begin, Ask, Configure, Register, Launch, Shapes, NoChild, ChildFields
  <2>2. CASE \/ ReadLine(d) \/ Wait(d) \/ Import(d) \/ Finish(d) \/ SettleReply(d) \/ Retry(d)
    BY <2>2 DEF ReadLine, Wait, Import, Finish, SettleReply, Retry, Shapes, ChildFields
  <2>3. CASE \/ Capturing(d) \/ AskAgain(d) \/ ChildPrints(d) \/ ChildComplains(d) \/ ChildExits(d)
    BY <2>3 DEF Capturing, AskAgain, ChildPrints, ChildComplains, ChildExits, Shapes, ChildFields
  <2> QED
    BY <1>5, <2>1, <2>2, <2>3 DEF Advances
<1>6. CASE ChildWrites(d)
  BY <1>6 DEF ChildWrites, Shapes, ChildFields
<1>7. CASE Makes(d)
  <2>1. /\ Create(d) => MakeDir(d) \/ Stage(d) \/ TakeContainer(d) \/ QueryContainer(d) \/ RunSetup(d)
        /\ DockerRuns(d) => StartContainer(d)
    BY DEF Create, DockerRuns
  <2>2. UNCHANGED run
    BY <1>7 DEF Makes, Create, Begin, DockerRuns
  <2> QED
    BY <1>3, <1>4, <1>7, <2>1, <2>2 DEF Makes
<1> QED
  BY <1>1, <1>2, <1>5, <1>6, <1>7 DEF Drops, Succeeds, AnswerNow, Collect, Return

-----------------------------------------------------------------------------
(* Workplaces                                                              *)

LEMMA WorkplacesInit == Init => Workplaces
BY DEF Init, BoxesInit, ExecInit, Workplaces, Placed, NoResult, NoChild, NoFiles, Making

\* Which drives are placed is decided by what they do alone, as long as counters
\* only grow and workspaces and strays of others stay.
LEMMA PlacedStays ==
  ASSUME Shapes, NEW d \in Drive, Placed(d), setup' = setup,
         pc'[d] = pc[d], box'[d] = box[d], result'[d] = result[d], asks'[d] = asks[d],
         child'[d] = child[d],
         box[d] # NoBox /\ box[d] \in DOMAIN disk => box[d] \in DOMAIN disk',
         box[d] \in containers' => box[d] \in containers,
         \A s \in strays : s.drive = d => s \in strays',
         seq' \in [{"local", "docker"} -> Nat],
         \A b \in {"local", "docker"} : seq[b] <= seq'[b]
  PROVE  Placed(d)'
<1>1. Backend(d)' = Backend(d) /\ (InContainer(d)' <=> InContainer(d))
  BY DEF Backend, InContainer
<1>2. Backend(d) \in {"none", "local", "docker"}
  BY SetupAssumption DEF Shapes, Backend
<1>3. ASSUME NEW n \in Nat, n < seq[Backend(d)], Backend(d) # "none"
      PROVE  n < seq'[Backend(d)]
  <2>1. seq[Backend(d)] \in Nat /\ seq'[Backend(d)] \in Nat /\ seq[Backend(d)] <= seq'[Backend(d)]
    BY <1>2, <1>3 DEF Shapes
  <2> QED
    BY <1>3, <2>1
<1>4. (BrokenOff(d)' <=> BrokenOff(d)) /\ (Cancelled(d)' <=> Cancelled(d))
  BY DEF BrokenOff, Cancelled
<1>5. (\E s \in strays : s.drive = d) => (\E s \in strays' : s.drive = d)
  OBVIOUS
<1>6. box[d] # NoBox =>
        /\ box[d] \in DOMAIN disk'
        /\ \E n \in Nat : n < seq'[Backend(d)] /\ box[d] = <<Backend(d), n>>
  <2>1. SUFFICES ASSUME box[d] # NoBox
                 PROVE  \E n \in Nat : n < seq'[Backend(d)] /\ box[d] = <<Backend(d), n>>
    BY DEF Placed
  <2>2. PICK n \in Nat : n < seq[Backend(d)] /\ box[d] = <<Backend(d), n>>
    BY <2>1 DEF Placed
  <2>3. Backend(d) # "none"
    BY <2>1 DEF Placed
  <2> QED
    BY <1>3, <2>2, <2>3
<1> QED
  BY <1>1, <1>4, <1>5, <1>6 DEF Placed

LEMMA NoBoxUnmounted ==
  ASSUME Workplaces PROVE NoBox \notin containers
BY DEF Workplaces, Placed

\* A drive that is over stays what it was.
LEMMA OverStays ==
  ASSUME NEW d \in Drive, NEW e \in Drive, OthersStay(d), pc[d] # "done"
  PROVE  /\ BrokenOff(e) => BrokenOff(e)'
         /\ Cancelled(e) => Cancelled(e)' /\ e # d
BY DEF BrokenOff, Cancelled, OthersStay

LEMMA OrphansStay ==
  ASSUME Workplaces, setup' = setup, NEW d \in Drive, OthersStay(d), pc[d] # "done"
  PROVE  \A o \in orphans :
           /\ o.drive \in Drive /\ Cancelled(o.drive)'
           /\ o.does = "start" =>
                BrokenOff(o.drive)' /\ InContainer(o.drive)' /\ box'[o.drive] # NoBox
<1> SUFFICES ASSUME NEW o \in orphans
             PROVE  /\ o.drive \in Drive /\ Cancelled(o.drive)'
                    /\ o.does = "start" =>
                         BrokenOff(o.drive)' /\ InContainer(o.drive)' /\ box'[o.drive] # NoBox
  OBVIOUS
<1>1. o.drive \in Drive /\ Cancelled(o.drive)
  BY DEF Workplaces
<1>2. Cancelled(o.drive)' /\ o.drive # d /\ (BrokenOff(o.drive) => BrokenOff(o.drive)')
  BY <1>1, OverStays
<1>3. box'[o.drive] = box[o.drive] /\ (InContainer(o.drive)' <=> InContainer(o.drive))
  BY <1>1, <1>2 DEF OthersStay, InContainer, Backend
<1> QED
  BY <1>1, <1>2, <1>3 DEF Workplaces

LEMMA WalkKeepsPlaces ==
  ASSUME Shapes, Workplaces, setup' = setup, NEW d \in Drive, Walks(d)
  PROVE  Workplaces'
<1>1. /\ seq' = seq /\ disk' = disk /\ box' = box /\ containers' = containers
      /\ result' = result /\ strays' = strays /\ orphans' = orphans
  BY DEF Walks, boxes
<1>2. pc[d] \notin Making \cup {"done"} /\ pc'[d] \in Trying \cup Running
  BY DEF Walks, Shapes
<1>3. /\ \A e : Backend(e)' = Backend(e) /\ (InContainer(e)' <=> InContainer(e))
  BY DEF Backend, InContainer
<1>4. Placed(d)'
  BY <1>1, <1>2, <1>3 DEF Walks, Workplaces, Placed, Making, Trying, Running
<1>5. \A e \in Drive : e # d => Placed(e)'
  BY <1>1, PlacedStays DEF Walks, OthersStay, Workplaces, Shapes
<1>6. \A o \in orphans :
        /\ o.drive \in Drive /\ Cancelled(o.drive)'
        /\ o.does = "start" =>
             BrokenOff(o.drive)' /\ InContainer(o.drive)' /\ box'[o.drive] # NoBox
  BY OrphansStay DEF Walks
<1>7. \A e \in Drive : /\ pc[e] \in Trying \cup Running \cup {"done"} => pc'[e] \in Trying \cup Running \cup {"done"}
                       /\ pc[e] # "done" => pc'[e] # "done"
  BY <1>2 DEF Walks, OthersStay, Trying, Running
<1> QED
  BY <1>1, <1>3, <1>4, <1>5, <1>6, <1>7 DEF Workplaces

LEMMA BackKeepsPlaces ==
  ASSUME Shapes, Workplaces, setup' = setup, NEW d \in Drive, Backs(d)
  PROVE  Workplaces'
<1>1. /\ seq' = seq /\ disk' = disk /\ box' = box /\ containers' = containers
      /\ result' = result /\ asks' = asks /\ orphans' = orphans
  BY DEF Backs, boxes, tries
<1>2. pc[d] \notin Making \cup Ends /\ pc'[d] = "backoff" /\ ~child'[d].up
  BY DEF Backs, Hangup, Shapes, NoChild
<1>3. /\ \A e : Backend(e)' = Backend(e) /\ (InContainer(e)' <=> InContainer(e))
  BY DEF Backend, InContainer
<1>4. Placed(d)'
  BY <1>1, <1>2, <1>3 DEF Workplaces, Placed, Making, Ends
<1>5. \A e \in Drive : e # d => Placed(e)'
  BY <1>1, BackOthers, PlacedStays DEF OthersStay, Workplaces, Shapes
<1>6. \A o \in orphans :
        /\ o.drive \in Drive /\ Cancelled(o.drive)'
        /\ o.does = "start" =>
             BrokenOff(o.drive)' /\ InContainer(o.drive)' /\ box'[o.drive] # NoBox
  BY <1>2, BackOthers, OrphansStay DEF Ends
<1>7. \A e \in Drive : /\ pc[e] \in Trying \cup Running \cup {"done"} => pc'[e] \in Trying \cup Running \cup {"done"}
                       /\ pc[e] # "done" => pc'[e] # "done"
  BY <1>2, BackOthers DEF OthersStay, Trying
<1>8. \A s \in strays' : s \in strays \/ s \in Pending(d)
  BY BackOthers
<1>9. \A s \in strays' :
        /\ s.drive \in Drive /\ s.by[1] = s.drive
        /\ s = [drive |-> s.drive, by |-> s.by, path |-> s.path]
        /\ pc'[s.drive] \in Trying \cup Running \cup {"done"}
        /\ InContainer(s.drive)' => pc'[s.drive] # "done"
  <2>1. ASSUME NEW s \in Pending(d)
        PROVE  /\ s.drive = d /\ s.by[1] = s.drive
               /\ s = [drive |-> s.drive, by |-> s.by, path |-> s.path]
    BY PendingIs
  <2>2. pc'[d] \in Trying /\ pc'[d] # "done"
    BY <1>2 DEF Trying
  <2> QED
    BY <1>3, <1>7, <1>8, <2>1, <2>2 DEF Workplaces
<1> QED
  BY <1>1, <1>4, <1>5, <1>6, <1>9 DEF Workplaces

\* A drive that leaves takes its workspace with it, if there is a sandbox and
\* nothing is at work there.
LEMMA LeaveKeepsPlaces ==
  ASSUME Shapes, Workplaces, setup' = setup, NEW d \in Drive, NEW r, Leave(d, r),
         pc[d] # "done",
         pc[d] \in Making => ~r.ok /\ r.class \in {"sandbox", "cancelled"},
         pc[d] = "started" => r.class = "cancelled",
         orphans' = orphans \/ (~r.ok /\ r.class = "cancelled" /\ Helps(d) /\ orphans' = orphans \cup {Helper(d)})
  PROVE  Workplaces'
<1>1. /\ OthersStay(d) /\ StraysStay(d) /\ seq' = seq /\ asks' = asks
      /\ pc'[d] = "done" /\ result'[d] = r /\ ~child'[d].up
  BY LeaveIs DEF Shapes, NoChild
<1>2. /\ \A e : Backend(e)' = Backend(e) /\ (InContainer(e)' <=> InContainer(e))
  BY DEF Backend, InContainer
<1>3. \A s \in strays' :
        /\ s.drive \in Drive /\ s.by[1] = s.drive
        /\ s = [drive |-> s.drive, by |-> s.by, path |-> s.path]
        /\ pc'[s.drive] \in Trying \cup Running \cup {"done"}
        /\ InContainer(s.drive)' => pc'[s.drive] # "done"
  <2>1. ASSUME NEW s \in strays', s.drive # d
        PROVE  s \in strays /\ pc'[s.drive] = pc[s.drive]
    <3>1. s \in strays
      BY <1>1, <2>1 DEF StraysStay
    <3> QED
      BY <1>1, <2>1, <3>1 DEF OthersStay, Workplaces
  <2>2. ASSUME NEW s \in strays', s.drive = d
        PROVE  ~InContainer(d) /\ (s \in strays \/ s \in Pending(d))
    BY <2>2, LeaveIs
  <2>3. ASSUME NEW s \in Pending(d)
        PROVE  /\ s.drive = d /\ s.by[1] = s.drive
               /\ s = [drive |-> s.drive, by |-> s.by, path |-> s.path]
    BY PendingIs
  <2> QED
    BY <1>1, <1>2, <2>1, <2>2, <2>3 DEF Workplaces
<1>4. \/ /\ Owned(d)
         /\ disk' = Without(disk, box[d]) /\ containers' = containers \ {box[d]}
         /\ box' = [box EXCEPT ![d] = NoBox]
      \/ /\ box[d] = NoBox \/ BrokenOff(d)' \/ \E s \in strays' : s.drive = d
         /\ box[d] \in containers => BrokenOff(d)' /\ Cancelled(d)'
         /\ UNCHANGED <<disk, containers, box>>
  <2>1. CASE ~Owned(d)
    <3>1. box[d] = NoBox \/ pc[d] \in Making
      BY <2>1 DEF Owned, Creating, Making
    <3>2. pc[d] \in Making => BrokenOff(d)'
      BY <1>1 DEF BrokenOff, Workplaces, Placed
    <3>3. box[d] \in containers => pc[d] = "started"
      BY <2>1, <3>1 DEF Workplaces, Placed, Owned, Creating, Making
    <3>4. pc[d] = "started" => Cancelled(d)'
      BY <1>1 DEF Cancelled, Making
    <3>5. pc[d] = "started" => BrokenOff(d)'
      BY <3>2 DEF Making
    <3> QED
      BY <2>1, <3>1, <3>2, <3>3, <3>4, <3>5, LeaveIs
  <2>2. CASE \E s \in strays' : s.drive = d
    <3>1. ~InContainer(d)
      BY <2>2, LeaveIs
    <3>2. box[d] \notin containers
      BY <3>1 DEF Workplaces, Placed
    <3> QED
      BY <2>2, <3>2, LeaveIs
  <2> QED
    BY <2>1, <2>2, LeaveIs
<1>5. /\ \A dir : dir \in DOMAIN disk' => dir \in DOMAIN disk
      /\ \A dir : dir \in DOMAIN disk /\ dir # box[d] => dir \in DOMAIN disk'
      /\ containers' \subseteq containers /\ (box'[d] = NoBox \/ box'[d] = box[d])
      /\ box'[d] = NoBox => box[d] = NoBox \/ (box[d] \notin DOMAIN disk' /\ box[d] \notin containers')
      /\ box'[d] # NoBox => disk' = disk /\ containers' = containers
  BY <1>4 DEF Without, Shapes
<1>6. \A e \in Drive : e # d /\ box[e] # NoBox => box[e] # box[d]
  BY DEF Workplaces
<1>7. Placed(d)'
  <2>1. Placed(d) /\ NoBox \notin containers'
    BY <1>5, NoBoxUnmounted DEF Workplaces
  <2>2. CASE box'[d] = NoBox
    BY <1>1, <2>1, <2>2 DEF Placed, Making
  <2>3. CASE box'[d] # NoBox
    <3>1. box'[d] = box[d] /\ disk' = disk /\ containers' = containers
      BY <1>5, <2>3
    <3>2. /\ BrokenOff(d)' \/ \E s \in strays' : s.drive = d
          /\ box[d] \in containers => BrokenOff(d)' /\ Cancelled(d)'
      BY <1>4, <2>3, <3>1 DEF Shapes
    <3> QED
      BY <1>1, <1>2, <2>1, <2>3, <3>1, <3>2 DEF Placed, Making
  <2> QED
    BY <2>2, <2>3
<1>8. \A e \in Drive : e # d => Placed(e)'
  <2>1. SUFFICES ASSUME NEW e \in Drive, e # d PROVE Placed(e)'
    OBVIOUS
  <2>2. /\ pc'[e] = pc[e] /\ box'[e] = box[e] /\ result'[e] = result[e] /\ asks'[e] = asks[e]
        /\ child'[e] = child[e] /\ \A s \in strays : s.drive = e => s \in strays'
    BY <1>1, <2>1 DEF OthersStay, StraysStay
  <2>3. /\ box[e] # NoBox /\ box[e] \in DOMAIN disk => box[e] \in DOMAIN disk'
        /\ box[e] \in containers' => box[e] \in containers
    BY <1>5, <1>6, <2>1
  <2>4. seq' \in [{"local", "docker"} -> Nat] /\ \A b \in {"local", "docker"} : seq[b] <= seq'[b]
    BY <1>1 DEF Shapes
  <2>5. Placed(e)
    BY DEF Workplaces
  <2> QED
    BY <2>2, <2>3, <2>4, <2>5, PlacedStays
<1>9. \A o \in orphans' :
        /\ o.drive \in Drive /\ Cancelled(o.drive)'
        /\ o.does = "start" =>
             BrokenOff(o.drive)' /\ InContainer(o.drive)' /\ box'[o.drive] # NoBox
  <2>1. CASE orphans' = orphans
    BY <1>1, <2>1, OrphansStay
  <2>2. CASE ~r.ok /\ r.class = "cancelled" /\ Helps(d) /\ orphans' = orphans \cup {Helper(d)}
    <3>1. Helper(d).drive = d /\ Helper(d).does = pc[d]
      BY DEF Helper
    <3>2. Cancelled(d)'
      BY <1>1, <2>2 DEF Cancelled
    <3>3. ASSUME pc[d] = "start"
          PROVE  BrokenOff(d)' /\ InContainer(d)' /\ box'[d] # NoBox
      <4>1. InContainer(d) /\ asks[d] = 0 /\ Backend(d) # "none" /\ box[d] # NoBox
        BY <3>3 DEF Workplaces, Placed, Making
      <4>2. ~Owned(d)
        BY <3>3 DEF Owned, Creating
      <4> QED
        BY <1>1, <1>2, <1>4, <2>2, <4>1, <4>2 DEF BrokenOff
    <3> QED
      BY <1>1, <2>2, <3>1, <3>2, <3>3, OrphansStay
  <2> QED
    BY <2>1, <2>2
<1>10. \A dir \in DOMAIN disk' :
         /\ \E b \in {"local", "docker"}, n \in Nat : n < seq'[b] /\ dir = <<b, n>>
         /\ \E e \in Drive : box'[e] = dir
  <2>1. SUFFICES ASSUME NEW dir \in DOMAIN disk' PROVE \E e \in Drive : box'[e] = dir
    BY <1>1, <1>5 DEF Workplaces
  <2>2. PICK e \in Drive : box[e] = dir
    BY <1>5 DEF Workplaces
  <2>3. dir # NoBox
    BY <1>5 DEF Workplaces, NoBox
  <2>4. CASE e = d
    BY <1>5, <2>2, <2>3, <2>4
  <2>5. CASE e # d
    BY <1>1, <2>2, <2>5 DEF OthersStay
  <2> QED
    BY <2>4, <2>5
<1>11. containers' \subseteq {box'[e] : e \in Drive}
  <2>1. SUFFICES ASSUME NEW dir \in containers' PROVE \E e \in Drive : box'[e] = dir
    OBVIOUS
  <2>2. PICK e \in Drive : box[e] = dir
    BY <1>5 DEF Workplaces
  <2>3. dir # NoBox
    BY <1>5, NoBoxUnmounted
  <2>4. CASE e = d
    BY <1>5, <2>2, <2>3, <2>4
  <2>5. CASE e # d
    BY <1>1, <2>2, <2>5 DEF OthersStay
  <2> QED
    BY <2>4, <2>5
<1>12. \A c, e \in Drive : box'[c] = box'[e] => c = e \/ box'[c] = NoBox
  <2>1. \A e \in Drive : box'[e] = NoBox \/ box'[e] = box[e]
    BY <1>1, <1>5 DEF OthersStay
  <2> QED
    BY <2>1 DEF Workplaces
<1> QED
  BY <1>3, <1>7, <1>8, <1>9, <1>10, <1>11, <1>12 DEF Workplaces

LEMMA MakeKeepsPlaces ==
  ASSUME Shapes, Shapes', Workplaces, setup' = setup, NEW d \in Drive, Makes(d)
  PROVE  Workplaces'
<1> USE DEF Goto, boxes
<1>1. /\ UNCHANGED <<asks, child, strays, orphans, result>> /\ seq' \in [{"local", "docker"} -> Nat]
  BY DEF Makes, Begin, Create, MakeDir, Stage, DockerRuns, StartContainer, TakeContainer, QueryContainer,
     RunSetup, run, tries, Shapes
<1>2. /\ \A e : Backend(e)' = Backend(e) /\ (InContainer(e)' <=> InContainer(e))
      /\ InContainer(d) <=> Backend(d) = "docker"
  BY DEF Backend, InContainer
<1>3. /\ pc[d] \in Making \cup {"idle"} /\ Backend(d) \in {"local", "docker"}
      /\ Backend(d) # "none"
  BY SetupAssumption DEF Makes, Begin, Create, MakeDir, Stage, DockerRuns, StartContainer,
     TakeContainer, QueryContainer, RunSetup,
     Making, Workplaces, Placed, Shapes, Backend
<1>4. /\ \A e \in Drive : e # d => pc'[e] = pc[e] /\ box'[e] = box[e]
      /\ pc'[d] \in Making \cup {"ask"}
  BY DEF Makes, Begin, Create, MakeDir, Stage, DockerRuns, StartContainer,
     TakeContainer, QueryContainer, RunSetup, Shapes,
     Making
<1>5. /\ DOMAIN disk' = IF MakeDir(d) THEN DOMAIN disk \cup {box'[d]} ELSE DOMAIN disk
      /\ containers' = IF StartContainer(d) THEN containers \cup {box[d]} ELSE containers
  <2>1. CASE MakeDir(d)
    BY <2>1 DEF MakeDir, StartContainer, Put, Shapes
  <2>2. CASE ~MakeDir(d)
    BY <2>2 DEF Makes, Begin, Create, Stage, DockerRuns, StartContainer,
     TakeContainer, QueryContainer, RunSetup
  <2> QED
    BY <2>1, <2>2
<1>8. \A o \in orphans' :
        /\ o.drive \in Drive /\ Cancelled(o.drive)'
        /\ o.does = "start" =>
             BrokenOff(o.drive)' /\ InContainer(o.drive)' /\ box'[o.drive] # NoBox
  <2>1. pc[d] # "done" /\ OthersStay(d)
    BY <1>1, <1>3, <1>4 DEF Making, OthersStay, Makes, Begin, Create, DockerRuns, run, tries, talk
  <2> QED
    BY <1>1, <2>1, OrphansStay
<1>9. /\ pc[d] \notin Trying \cup Running \cup {"done"} /\ pc'[d] # "done"
      /\ \A s \in strays : s.drive # d
  <2>1. pc[d] \notin Trying \cup Running \cup {"done"} /\ pc'[d] # "done"
    BY <1>3, <1>4 DEF Making, Trying, Running
  <2> QED
    BY <2>1 DEF Workplaces
<1>6. CASE MakeDir(d)
  <2>1. PICK b, n : b = Backend(d) /\ n = seq[b]
    OBVIOUS
  <2>2. b \in {"local", "docker"} /\ n \in Nat
    BY <1>3, <2>1 DEF Shapes
  <2>3. /\ pc[d] = "create" /\ pc'[d] = "stage" /\ box'[d] = <<b, n>> /\ seq' = [seq EXCEPT ![b] = n + 1]
    BY <1>6, <2>1 DEF MakeDir, TakeName, Shapes
  <2>4. /\ seq'[b] = n + 1 /\ \A c \in {"local", "docker"} : seq[c] \in Nat /\ seq[c] <= seq'[c]
    BY <2>1, <2>2, <2>3 DEF Shapes
  <2>5. <<b, n>> # NoBox /\ <<b, n>> \notin DOMAIN disk
    <3>1. <<b, n>> # NoBox
      BY <2>2 DEF NoBox
    <3>2. ASSUME <<b, n>> \in DOMAIN disk PROVE FALSE
      <4>1. PICK c \in {"local", "docker"}, m \in Nat : m < seq[c] /\ <<b, n>> = <<c, m>>
        BY <3>2 DEF Workplaces
      <4> QED
        BY <2>1, <2>2, <4>1
    <3> QED
      BY <3>1, <3>2
  <2>6. \A e \in Drive : box[e] # NoBox => box[e] \in DOMAIN disk /\ box[e] # <<b, n>>
    BY <2>5 DEF Workplaces, Placed
  <2>7. containers' = containers /\ ~StartContainer(d)
    BY <1>6 DEF MakeDir, StartContainer
  <2>8. <<b, n>> \notin containers
    BY <2>5, <2>6 DEF Workplaces
  <2>9. Placed(d)'
    <3>1. Placed(d)
      BY DEF Workplaces
    <3>2. n < n + 1
      BY <2>2
    <3> QED
      BY <1>1, <1>2, <1>3, <1>5, <1>6, <2>1, <2>2, <2>3, <2>4, <2>5, <2>7, <2>8, <3>1, <3>2 DEF Placed, Making
  <2>10. \A e \in Drive : e # d => Placed(e)'
    BY <1>1, <1>4, <1>5, <2>4, <2>7, PlacedStays DEF Workplaces
  <2>12. \A dir \in DOMAIN disk' :
           /\ \E c \in {"local", "docker"}, m \in Nat : m < seq'[c] /\ dir = <<c, m>>
           /\ \E e \in Drive : box'[e] = dir
    <3>1. ASSUME NEW dir \in DOMAIN disk'
          PROVE  \E c \in {"local", "docker"}, m \in Nat : m < seq'[c] /\ dir = <<c, m>>
      <4>1. CASE dir = <<b, n>>
        BY <2>2, <2>4, <4>1
      <4>2. CASE dir \in DOMAIN disk
        <5>1. PICK c \in {"local", "docker"}, m \in Nat : m < seq[c] /\ dir = <<c, m>>
          BY <4>2 DEF Workplaces
        <5>2. m < seq'[c]
          BY <1>1, <2>4, <5>1
        <5> QED
          BY <5>1, <5>2
      <4> QED
        BY <1>5, <1>6, <2>3, <3>1, <4>1, <4>2
    <3>2. ASSUME NEW dir \in DOMAIN disk' PROVE \E e \in Drive : box'[e] = dir
      <4>1. CASE dir = box'[d]
        BY <4>1
      <4>2. CASE dir \in DOMAIN disk
        <5>1. PICK e \in Drive : box[e] = dir
          BY <4>2 DEF Workplaces
        <5>2. box[d] = NoBox /\ NoBox \notin DOMAIN disk
          BY <2>3 DEF Workplaces, Placed, NoBox
        <5> QED
          BY <1>4, <4>2, <5>1, <5>2
      <4> QED
        BY <1>5, <1>6, <3>2, <4>1, <4>2
    <3> QED
      BY <3>1, <3>2
  <2>13. \A c, e \in Drive : box'[c] = box'[e] => c = e \/ box'[c] = NoBox
    BY <1>4, <2>3, <2>6 DEF Workplaces
  <2>14. containers' \subseteq {box'[e] : e \in Drive}
    <3>1. box[d] = NoBox
      BY <2>3 DEF Workplaces, Placed
    <3> QED
      BY <1>4, <2>7, <3>1, NoBoxUnmounted DEF Workplaces
  <2> QED
    BY <1>1, <1>2, <1>4, <1>8, <1>9, <2>9, <2>10, <2>12, <2>13, <2>14 DEF Workplaces
<1>7. CASE ~MakeDir(d)
  <2>1. box' = box /\ seq' = seq /\ DOMAIN disk' = DOMAIN disk
    BY <1>5, <1>7 DEF Makes, Begin, Create, Stage, DockerRuns, StartContainer,
     TakeContainer, QueryContainer, RunSetup
  <2>2. pc[d] # "create"
    BY <1>7 DEF Makes, Begin, Create, Stage, DockerRuns, StartContainer,
     TakeContainer, QueryContainer, RunSetup
  <2>3. \A e \in Drive : box[e] # NoBox /\ e # d => box[e] # box[d]
    BY DEF Workplaces
  <2>4. StartContainer(d) => box[d] # NoBox
    BY <1>3 DEF StartContainer, Workplaces, Placed
  <2>5. Placed(d)'
    <3>1. Placed(d)
      BY DEF Workplaces
    <3>2. CASE Begin(d)
      BY <1>1, <1>2, <1>3, <1>5, <1>7, <2>1, <3>1, <3>2 DEF Begin, StartContainer, Placed, Making, Shapes
    <3>3. CASE Stage(d)
      BY <1>1, <1>2, <1>3, <1>5, <1>7, <2>1, <3>1, <3>3 DEF Stage, StartContainer, Placed, Making, Shapes
    <3>4. CASE StartContainer(d)
      BY <1>1, <1>2, <1>3, <1>5, <1>7, <2>1, <2>4, <3>1, <3>4 DEF StartContainer, Placed, Making, Shapes
    <3>5. CASE TakeContainer(d) \/ QueryContainer(d) \/ RunSetup(d)
      BY <1>1, <1>2, <1>3, <1>5, <1>7, <2>1, <3>1, <3>5
         DEF TakeContainer, QueryContainer, RunSetup, StartContainer, Placed, Making, Shapes
    <3> QED
      BY <1>7, <3>2, <3>3, <3>4, <3>5 DEF Makes, Create, DockerRuns
  <2>6. \A e \in Drive : e # d => Placed(e)'
    BY <1>1, <1>4, <1>5, <2>1, <2>3, <2>4, PlacedStays DEF Workplaces, Shapes
  <2>9. containers' \subseteq {box[e] : e \in Drive}
    BY <1>5 DEF Workplaces
  <2> QED
    BY <1>1, <1>2, <1>4, <1>8, <1>9, <2>1, <2>5, <2>6, <2>9 DEF Workplaces
<1> QED
  BY <1>6, <1>7

\* A step that writes a file changes no place.
LEMMA WriteKeepsPlaces ==
  ASSUME Shapes, Workplaces, setup' = setup, UNCHANGED <<pc, seq, box, containers, orphans, asks, result>>,
         DOMAIN disk' = DOMAIN disk, strays' = strays,
         \A d \in Drive : child'[d].up = child[d].up
  PROVE  Workplaces'
<1>1. \A e : Backend(e)' = Backend(e) /\ (InContainer(e)' <=> InContainer(e))
  BY DEF Backend, InContainer
<1>2. \A d \in Drive : (BrokenOff(d)' <=> BrokenOff(d)) /\ (Cancelled(d)' <=> Cancelled(d))
  BY DEF BrokenOff, Cancelled
<1>3. \A d \in Drive : Placed(d)'
  BY <1>1, <1>2 DEF Workplaces, Placed
<1> QED
  BY <1>1, <1>2, <1>3 DEF Workplaces

\* A docker run that nobody waits for mounts the directory of a drive that was
\* dropped meanwhile.
LEMMA OrphanKeepsPlaces ==
  ASSUME Shapes, Workplaces, setup' = setup, OrphanEnds
  PROVE  Workplaces'
<1>1. PICK o \in orphans :
        /\ orphans' = orphans \ {o}
        /\ Mounts(o) \/ containers' = containers
  BY DEF OrphanEnds
<1>2. UNCHANGED <<seq, disk, box, pc, asks, child, strays, result>>
  BY DEF OrphanEnds, tries
<1>3. \A e : Backend(e)' = Backend(e) /\ (InContainer(e)' <=> InContainer(e))
  BY DEF Backend, InContainer
<1>4. \A d \in Drive : (BrokenOff(d)' <=> BrokenOff(d)) /\ (Cancelled(d)' <=> Cancelled(d))
  BY <1>2 DEF BrokenOff, Cancelled
<1>5. o.drive \in Drive /\ Cancelled(o.drive)
  BY DEF Workplaces
<1>6. \/ containers' = containers
      \/ /\ containers' = containers \cup {box[o.drive]}
         /\ BrokenOff(o.drive) /\ InContainer(o.drive) /\ box[o.drive] # NoBox
  BY <1>1 DEF Mounts, Workplaces
<1>7. \A d \in Drive : Placed(d)'
  <2>1. SUFFICES ASSUME NEW d \in Drive PROVE Placed(d)'
    OBVIOUS
  <2>2. Placed(d)
    BY DEF Workplaces
  <2>3. CASE box[d] \in containers' => box[d] \in containers
    BY <1>2, <1>3, <1>4, <2>2, <2>3 DEF Placed
  <2>4. CASE ~(box[d] \in containers' => box[d] \in containers)
    <3>1. d = o.drive /\ BrokenOff(d) /\ InContainer(d) /\ box[d] # NoBox
      BY <1>5, <1>6, <2>4 DEF Workplaces
    <3>2. pc[d] = "done" /\ Cancelled(d)
      BY <1>5, <3>1 DEF Cancelled
    <3> QED
      BY <1>2, <1>3, <1>4, <2>2, <3>1, <3>2 DEF Placed
  <2> QED
    BY <2>3, <2>4
<1>8. containers' \subseteq {box[d] : d \in Drive}
  BY <1>5, <1>6 DEF Workplaces
<1>9. \A p \in orphans' :
        /\ p.drive \in Drive /\ Cancelled(p.drive)'
        /\ p.does = "start" =>
             BrokenOff(p.drive)' /\ InContainer(p.drive)' /\ box'[p.drive] # NoBox
  BY <1>1, <1>2, <1>3, <1>4 DEF Workplaces
<1> QED
  BY <1>2, <1>3, <1>7, <1>8, <1>9 DEF Workplaces

-----------------------------------------------------------------------------
(* Work in the workspaces                                                  *)

LEMMA FreshName ==
  ASSUME Shapes, Workplaces, NEW d \in Drive, MakeDir(d)
  PROVE  /\ <<Backend(d), seq[Backend(d)]>> \notin DOMAIN disk
         /\ <<Backend(d), seq[Backend(d)]>> # NoBox
<1>1. Backend(d) \in {"local", "docker"}
  BY SetupAssumption DEF MakeDir, Goto, Making, Workplaces, Placed, Shapes, Backend
<1>2. PICK b, n : b = Backend(d) /\ n = seq[b]
  OBVIOUS
<1>3. n \in Nat
  BY <1>1, <1>2 DEF Shapes
<1>4. ASSUME <<b, n>> \in DOMAIN disk PROVE FALSE
  <2>1. PICK c \in {"local", "docker"}, m \in Nat : m < seq[c] /\ <<b, n>> = <<c, m>>
    BY <1>4 DEF Workplaces
  <2> QED
    BY <1>2, <1>3, <2>1
<1> QED
  BY <1>1, <1>2, <1>4 DEF NoBox

\* No step of a drive changes a workspace that is not its own.
LEMMA DiskStays ==
  ASSUME Shapes, Workplaces, NEW d \in Drive,
         Drops(d) \/ Backs(d) \/ Succeeds(d) \/ Makes(d) \/ Advances(d) \/ ChildWrites(d),
         NEW e \in Drive, e # d, box[e] # NoBox
  PROVE  disk'[box[e]] = disk[box[e]]
<1>1. box[e] \in DOMAIN disk /\ box[e] # box[d]
  BY DEF Workplaces, Placed
<1>2. ASSUME NEW r, Leave(d, r) PROVE disk'[box[e]] = disk[box[e]]
  BY <1>1, <1>2, LeaveIs DEF Without
<1>3. CASE Drops(d) \/ Succeeds(d)
  BY <1>2, <1>3 DEF Drops, Succeeds, AnswerNow, Collect, Return
<1>4. CASE Backs(d) \/ Advances(d)
  BY <1>4, AdvancesWalk DEF Backs, Walks, boxes
<1>5. CASE MakeDir(d)
  BY <1>1, <1>5, FreshName DEF MakeDir, Put
<1>6. CASE Makes(d) /\ ~MakeDir(d)
  BY <1>1, <1>6 DEF Makes, Begin, Create, Stage, DockerRuns, StartContainer, TakeContainer,
     QueryContainer, RunSetup, boxes
<1>7. CASE ChildWrites(d)
  BY <1>1, <1>7 DEF ChildWrites
<1> QED
  BY <1>3, <1>4, <1>5, <1>6, <1>7

LEMMA WorkStays ==
  ASSUME NEW d \in Drive, Following(d), OwnFiles(d), Written(d), OwnCapture(d), setup' = setup,
         pc'[d] = pc[d], box'[d] = box[d], child'[d] = child[d], result'[d] = result[d],
         reply'[d] = reply[d], exec'[d] = exec[d], attempt'[d] = attempt[d],
         box[d] # NoBox => disk'[box[d]] = disk[box[d]],
         \A s \in strays : s.drive = d => s \in strays',
         Flag(d) # "read-only" /\ pc[d] \in Running => box[d] # NoBox
  PROVE  Following(d)' /\ OwnFiles(d)' /\ Written(d)' /\ OwnCapture(d)'
<1>1. /\ Flag(d)' = Flag(d) /\ Session(d)' = Session(d) /\ (InContainer(d)' <=> InContainer(d))
      /\ (Captures(d)' <=> Captures(d))
  BY DEF Flag, InContainer, Backend, Mode, Session, Captures
<1>2. Command(d)' = Command(d)
  BY <1>1 DEF Command, Provider, Traced, CodexReadsSchema, Home, InContainer, Backend, Capture
<1>3. (Succeeded(d)' <=> Succeeded(d)) /\ (Usable(d)' <=> Usable(d))
  BY DEF Succeeded, Usable
<1>4. Following(d)'
  BY <1>1, <1>2, <1>3 DEF Following
<1>5. OwnFiles(d)'
  BY DEF OwnFiles
<1>6. \A p, by : LeftBehind(d, p, by) => LeftBehind(d, p, by)'
  BY DEF LeftBehind
<1>7. Written(d)'
  BY <1>1, <1>6 DEF Written
<1>8. OwnCapture(d)'
  BY <1>1, <1>6 DEF OwnCapture
<1> QED
  BY <1>4, <1>5, <1>7, <1>8

LEMMA WritersHaveBoxes ==
  ASSUME Shapes, Workplaces, NEW d \in Drive, pc[d] \in Running, Flag(d) # "read-only"
  PROVE  box[d] # NoBox
<1>1. Backend(d) \in {"none", "local", "docker"}
  BY SetupAssumption DEF Shapes, Backend
<1>2. Backend(d) # "none"
  BY DEF Flag, InContainer
<1> QED
  BY <1>2 DEF Workplaces, Placed, Running

LEMMA OthersWork ==
  ASSUME Shapes, Workplaces, Working, setup' = setup, NEW d \in Drive, OthersStay(d),
         StraysStay(d),
         Drops(d) \/ Backs(d) \/ Succeeds(d) \/ Makes(d) \/ Advances(d) \/ ChildWrites(d),
         NEW e \in Drive, e # d
  PROVE  Following(e)' /\ OwnFiles(e)' /\ Written(e)' /\ OwnCapture(e)'
<1>1. box[e] # NoBox => disk'[box[e]] = disk[box[e]]
  BY DiskStays
<1>2. Following(e) /\ OwnFiles(e) /\ Written(e) /\ OwnCapture(e)
  BY DEF Working
<1>3. Flag(e) # "read-only" /\ pc[e] \in Running => box[e] # NoBox
  BY WritersHaveBoxes
<1>4. /\ pc'[e] = pc[e] /\ box'[e] = box[e] /\ child'[e] = child[e] /\ result'[e] = result[e]
      /\ reply'[e] = reply[e] /\ exec'[e] = exec[e] /\ attempt'[e] = attempt[e]
  BY DEF OthersStay
<1>5. \A s \in strays : s.drive = e => s \in strays'
  BY DEF StraysStay
<1> QED
  BY <1>1, <1>2, <1>3, <1>4, <1>5, WorkStays

\* A drive that leaves has no work left, but for the answer it gives.
LEMMA LeaveWorks ==
  ASSUME Shapes, Workplaces, Working, NEW d \in Drive, NEW r, Leave(d, r)
  PROVE  Following(d)' /\ OwnFiles(d)' /\ Written(d)' /\ (~r.ok => OwnCapture(d)')
<1>1. pc'[d] = "done" /\ result'[d] = r
  BY LeaveIs DEF Shapes
<1>2. box'[d] = NoBox \/ (box'[d] = box[d] /\ disk' = disk)
  BY LeaveIs DEF Shapes
<1>3. OwnFiles(d)'
  BY <1>2 DEF OwnFiles, Working
<1> QED
  BY <1>1, <1>3 DEF Following, Written, OwnCapture, Running

LEMMA BackWorks ==
  ASSUME Shapes, Workplaces, Working, setup' = setup, NEW d \in Drive, Backs(d)
  PROVE  Following(d)' /\ OwnFiles(d)' /\ Written(d)' /\ OwnCapture(d)'
<1>1. pc'[d] = "backoff" /\ box' = box /\ disk' = disk /\ result' = result
  BY DEF Backs, boxes, Shapes
<1>2. ~result[d].ok
  BY DEF Workplaces, Placed, Backs, Ends
<1> QED
  BY <1>1, <1>2 DEF Following, OwnFiles, Written, OwnCapture, Running, Working

\* The answer captures what the workspace has of the sessions of the drive.
LEMMA AnswerWorks ==
  ASSUME Shapes, Workplaces, Working, setup' = setup, NEW d \in Drive, Succeeds(d)
  PROVE  OwnCapture(d)'
<1>1. /\ Flag(d)' = Flag(d) /\ (InContainer(d)' <=> InContainer(d)) /\ (Captures(d)' <=> Captures(d))
  BY DEF Flag, InContainer, Backend, Mode, Captures
<1>2. CASE AnswerNow(d)
  BY <1>1, <1>2 DEF AnswerNow, OwnCapture, Return, Leave, Answer, Shapes
<1>3. CASE Collect(d)
  <2>1. PICK f : f = Collected(d)
    OBVIOUS
  <2>2. /\ result'[d] = Answer(d, f) /\ pc[d] = "capture"
    BY <1>3, <2>1 DEF Collect, Return, Leave, Shapes
  <2>3. /\ result'[d].files = f /\ result'[d].session = Session(d)
        /\ result'[d].script = child[d].script
    BY <2>2 DEF Answer
  <2>4. Captures(d) /\ box[d] # NoBox
    BY <2>2 DEF Working, Following, Running, Workplaces, Placed, Captures
  <2>5. \A p : p \in DOMAIN f <=> p \in DOMAIN disk[box[d]] /\ p \in Globs
    BY <2>1 DEF Collected, Matches
  <2>6. \A p \in DOMAIN f : f[p] = disk[box[d]][p]
    BY <2>1 DEF Collected
  <2>7. \A p \in DOMAIN f : f[p] = Seed \/ f[p][1] = d
    BY <2>4, <2>5, <2>6 DEF Working, OwnFiles
  <2>8. ASSUME Flag(d) # "read-only", NEW p \in Wrote(child[d].script) \cap Globs
        PROVE  p \in DOMAIN f /\ (~InContainer(d) => f[p] = Session(d) \/ LeftBehind(d, p, f[p]))
    <3>1. child[d].at = Len(child[d].script.steps) /\ child[d].script \in Scripts(d)
      BY <2>2 DEF Working, Following, Running, Workplaces, Placed
    <3>2. child[d].script.steps \in Seq(Steps(child[d].script))
      BY <3>1, ExecAssumption
    <3>3. PICK i \in DOMAIN child[d].script.steps :
            child[d].script.steps[i].do = "write" /\ child[d].script.steps[i].what = p
      BY <2>8 DEF Wrote, Steps
    <3>4. i \in 1 .. child[d].at
      BY <3>1, <3>2, <3>3
    <3>5. /\ p \in DOMAIN disk[box[d]]
          /\ ~InContainer(d) => disk[box[d]][p] = Session(d) \/ LeftBehind(d, p, disk[box[d]][p])
      BY <2>2, <2>8, <3>3, <3>4 DEF Working, Written, Running
    <3> QED
      BY <2>5, <2>6, <2>8, <3>5
  <2>9. ~InContainer(d) => \A p, by : LeftBehind(d, p, by) => LeftBehind(d, p, by)'
    <3>1. Leave(d, Answer(d, Collected(d)))
      BY <1>3 DEF Collect, Return
    <3> QED
      BY <3>1, LeaveIs DEF LeftBehind
  <2> QED
    BY <1>1, <2>3, <2>7, <2>8, <2>9 DEF OwnCapture
<1> QED
  BY <1>2, <1>3 DEF Succeeds

\* The command and the place of a drive in a step that counts no attempt.
LEMMA SameCommand ==
  ASSUME NEW d \in Drive, setup' = setup, attempt'[d] = attempt[d]
  PROVE  /\ Command(d)' = Command(d) /\ Flag(d)' = Flag(d) /\ (InContainer(d)' <=> InContainer(d))
         /\ (Captures(d)' <=> Captures(d))
BY DEF Command, Provider, Traced, Flag, Mode, CodexReadsSchema, Home, InContainer, Backend, Capture,
   Captures

LEMMA NoAnswerYet ==
  ASSUME Workplaces, NEW d \in Drive, pc[d] # "done", result' = result
  PROVE  OwnCapture(d)'
BY DEF Workplaces, Placed, OwnCapture

LEMMA MakeWorks ==
  ASSUME Shapes, Workplaces, Working, setup' = setup, NEW d \in Drive, Makes(d)
  PROVE  Following(d)' /\ OwnFiles(d)' /\ Written(d)' /\ OwnCapture(d)'
<1>1. /\ pc[d] # "done" /\ result' = result /\ pc'[d] \notin Running
  BY DEF Makes, Begin, Create, MakeDir, Stage, DockerRuns, StartContainer, TakeContainer, QueryContainer,
     RunSetup, Goto, run, Running, Shapes
<1>2. OwnFiles(d)'
  <2>1. CASE MakeDir(d)
    <3>1. box'[d] = <<Backend(d), seq[Backend(d)]>> /\ disk'[box'[d]] = NoFiles
      BY <2>1, FreshName DEF MakeDir, Put, Shapes
    <3> QED
      BY <3>1 DEF OwnFiles, NoFiles
  <2>2. CASE Stage(d)
    <3>1. box[d] \in DOMAIN disk /\ box' = box
      BY <2>2 DEF Stage, Goto, Workplaces, Placed, Making
    <3>2. disk'[box[d]] = Seeded(disk[box[d]])
      BY <2>2, <3>1 DEF Stage
    <3>3. \A q \in DOMAIN disk[box[d]] : disk[box[d]][q] = Seed \/ disk[box[d]][q][1] = d
      BY <2>2 DEF Stage, Goto, Working, OwnFiles, Workplaces, Placed, Making
    <3> QED
      BY <3>1, <3>2, <3>3 DEF OwnFiles, Seeded
  <2>3. CASE ~MakeDir(d) /\ ~Stage(d)
    BY <2>3 DEF Makes, Begin, Create, DockerRuns, StartContainer, TakeContainer, QueryContainer, RunSetup,
       boxes, Working, OwnFiles
  <2> QED
    BY <2>1, <2>2, <2>3
<1> QED
  BY <1>1, <1>2, NoAnswerYet DEF Following, Written

LEMMA LaunchWorks ==
  ASSUME Shapes, Workplaces, Working, setup' = setup, NEW d \in Drive, Launch(d)
  PROVE  Following(d)' /\ Written(d)'
<1>1. PICK s \in Scripts(d) :
        child'[d] = [NoChild EXCEPT !.up = TRUE, !.script = s, !.as = Command(d)]
  BY DEF Launch, Shapes
<1>2. /\ child'[d].up /\ child'[d].script = s /\ child'[d].at = 0 /\ child'[d].as = Command(d)
      /\ pc'[d] = "read" /\ attempt' = attempt
  BY <1>1 DEF NoChild, Launch, Goto, Shapes
<1>3. Len(s.steps) \in Nat
  BY ExecAssumption
<1>4. Following(d)'
  BY <1>2, <1>3, SameCommand DEF Following
<1>5. Written(d)'
  BY <1>2 DEF Written
<1> QED
  BY <1>4, <1>5

\* What steps of a running attempt may do to its session.
LEMMA RunningWorks ==
  ASSUME Shapes, Workplaces, Working, setup' = setup, NEW d \in Drive, pc[d] \in Running,
         Advances(d)
  PROVE  Following(d)' /\ Written(d)'
<1>1. /\ box' = box /\ disk' = disk /\ exec'[d] = exec[d] /\ attempt'[d] = attempt[d]
  BY DEF Advances, Begin, Ask, Configure, Register, Launch, ReadLine, Wait, Import, Finish,
     SettleReply, Retry, Capturing, AskAgain, ChildPrints, ChildComplains, ChildExits, Goto, Running,
     boxes, tries, run, Making
<1>11. \A p, by : LeftBehind(d, p, by)' <=> LeftBehind(d, p, by)
  BY AdvancesWalk DEF Walks, LeftBehind
<1>2. /\ Following(d) /\ Written(d) /\ (child[d].up => pc[d] = "read")
      /\ DOMAIN child[d] = ChildFields
  BY DEF Working, Workplaces, Placed, Shapes
<1>3. /\ Command(d)' = Command(d) /\ Flag(d)' = Flag(d) /\ (InContainer(d)' <=> InContainer(d))
      /\ (Captures(d)' <=> Captures(d)) /\ Session(d)' = Session(d)
  BY <1>1, SameCommand DEF Session
<1>4. Len(child[d].script.steps) \in Nat /\ child[d].at \in Nat
  <2>1. child[d].script \in Scripts(d)
    BY <1>2 DEF Following
  <2> QED
    BY <1>2, <2>1, ExecAssumption DEF Following
<1>5. CASE ReadLine(d)
  <2>1. /\ child'[d].script = child[d].script /\ child'[d].at = child[d].at
        /\ child'[d].as = child[d].as /\ child'[d].up = child[d].up /\ pc'[d] = "read"
    BY <1>2, <1>5 DEF ReadLine, Shapes, ChildFields
  <2> QED
    BY <1>1, <1>2, <1>3, <1>5, <1>11, <2>1 DEF Following, Written, Running, ReadLine
<1>6. CASE Wait(d) \/ Import(d) \/ Finish(d)
  <2>1. child' = child /\ pc'[d] \in {"import", "finish", "settle"}
        /\ (pc[d] # "read" \/ child[d].out = <<>>)
    BY <1>6 DEF Wait, AtEnd, Import, Finish, Goto, Shapes
  <2> QED
    BY <1>1, <1>2, <1>3, <1>11, <2>1 DEF Following, Written, Running
<1>7. CASE SettleReply(d) \/ Capturing(d)
  <2>1. child' = child /\ reply' = reply /\ pc'[d] \in {"judge", "capture"} /\ pc[d] # "read"
        /\ (Succeeded(d)' <=> Succeeded(d)) /\ (Usable(d)' <=> Usable(d))
        /\ Succeeded(d) /\ reply[d] # <<>> /\ (pc'[d] = "capture" => Usable(d) /\ Captures(d))
    BY <1>2, <1>7 DEF SettleReply, Capturing, Goto, run, talk, Shapes, Succeeded, Usable, Following,
       Running
  <2> QED
    BY <1>1, <1>2, <1>3, <1>11, <2>1 DEF Following, Written, Running
<1>8. CASE AskAgain(d)
  BY <1>8 DEF AskAgain, Goto, Following, Written, Running, Shapes
<1>9. CASE ChildPrints(d) \/ ChildComplains(d)
  <2>1. /\ child'[d].script = child[d].script /\ child'[d].at = child[d].at + 1
        /\ child'[d].as = child[d].as /\ child'[d].up /\ pc'[d] = "read" /\ child[d].up
        /\ child[d].at < Len(child[d].script.steps)
        /\ child[d].script.steps[child[d].at + 1].do # "write"
    BY <1>2, <1>9 DEF ChildPrints, ChildComplains, AtStep, Lines, Shapes, ChildFields
  <2>2. Following(d)'
    BY <1>2, <1>3, <1>4, <2>1 DEF Following, Running
  <2>3. Written(d)'
    BY <1>1, <1>2, <1>3, <1>4, <1>11, <2>1 DEF Written, Running
  <2> QED
    BY <2>2, <2>3
<1>10. CASE ChildExits(d)
  <2>1. /\ child'[d].script = child[d].script /\ child'[d].at = child[d].at
        /\ child'[d].as = child[d].as /\ pc'[d] = "read"
        /\ child[d].at = Len(child[d].script.steps)
    BY <1>2, <1>10 DEF ChildExits, Shapes, ChildFields
  <2> QED
    BY <1>1, <1>2, <1>3, <1>11, <2>1 DEF Following, Written, Running
<1> QED
  BY <1>5, <1>6, <1>7, <1>8, <1>9, <1>10 DEF Advances, Begin, Ask, Configure, Register, Launch, Retry,
     Goto, Running

LEMMA AdvanceWorks ==
  ASSUME Shapes, Workplaces, Working, setup' = setup, NEW d \in Drive, Advances(d)
  PROVE  Following(d)' /\ OwnFiles(d)' /\ Written(d)' /\ OwnCapture(d)'
<1>1. Walks(d)
  BY AdvancesWalk
<1>2. OwnFiles(d)' /\ OwnCapture(d)'
  BY <1>1, NoAnswerYet DEF Walks, boxes, Working, OwnFiles
<1>3. CASE pc[d] \in Running \/ Launch(d)
  BY <1>2, <1>3, RunningWorks, LaunchWorks
<1>4. CASE pc[d] \notin Running /\ ~Launch(d)
  <2>1. child[d].up => pc[d] \in Running
    BY DEF Workplaces, Placed, Running
  <2>2. pc'[d] \notin Running
    BY <1>4, <2>1 DEF Advances, Begin, Ask, Configure, Register, ReadLine, Wait, Import, Finish,
       SettleReply, Retry, Capturing, AskAgain, ChildPrints, ChildComplains, ChildExits, AtStep, Goto,
       Running, Shapes
  <2> QED
    BY <1>2, <2>2 DEF Following, Written
<1> QED
  BY <1>3, <1>4

\* A session writes a file to the workspace of its drive.
LEMMA WriteWorks ==
  ASSUME Shapes, Workplaces, Working, setup' = setup, NEW d \in Drive, ChildWrites(d)
  PROVE  Following(d)' /\ OwnFiles(d)' /\ Written(d)' /\ OwnCapture(d)'
<1>1. /\ box' = box /\ exec' = exec /\ attempt' = attempt /\ pc' = pc /\ result' = result
  BY DEF ChildWrites, tries
<1>10. \A p, by : LeftBehind(d, p, by)' <=> LeftBehind(d, p, by)
  BY DEF ChildWrites, LeftBehind
<1>2. /\ Following(d) /\ Written(d) /\ OwnFiles(d) /\ child[d].up /\ pc[d] = "read"
      /\ DOMAIN child[d] = ChildFields
  BY DEF Working, Workplaces, Placed, Shapes, ChildWrites, AtStep
<1>3. /\ Command(d)' = Command(d) /\ Flag(d)' = Flag(d) /\ (InContainer(d)' <=> InContainer(d))
      /\ (Captures(d)' <=> Captures(d)) /\ Session(d)' = Session(d)
  BY <1>1, SameCommand DEF Session
<1>4. /\ Len(child[d].script.steps) \in Nat /\ child[d].at \in Nat
      /\ child[d].as.sandbox = Flag(d)
  <2>1. child[d].script \in Scripts(d) /\ child[d].as = Command(d)
    BY <1>2 DEF Following, Running
  <2> QED
    BY <1>2, <2>1, ExecAssumption DEF Following, Running, Command
<1>5. /\ child'[d].script = child[d].script /\ child'[d].at = child[d].at + 1
      /\ child'[d].as = child[d].as /\ child'[d].up
      /\ child[d].at < Len(child[d].script.steps)
  BY <1>2 DEF ChildWrites, AtStep, Shapes, ChildFields
<1>6. Following(d)'
  BY <1>1, <1>2, <1>3, <1>4, <1>5 DEF Following, Running
<1>7. OwnCapture(d)'
  BY <1>1, <1>2, NoAnswerYet
<1>8. CASE Flag(d) = "read-only"
  <2>1. disk' = disk
    BY <1>4, <1>8 DEF ChildWrites
  <2> QED
    BY <1>1, <1>2, <1>3, <1>6, <1>7, <1>8, <1>10, <2>1 DEF OwnFiles, Written
<1>9. CASE Flag(d) # "read-only"
  <2>1. PICK p, f : p = Doing(d).what /\ f = disk[box[d]]
    OBVIOUS
  <2>2. box[d] \in DOMAIN disk
    BY <1>2, <1>9, WritersHaveBoxes DEF Workplaces, Placed, Running
  <2>3. disk'[box[d]] = Put(f, p, Session(d))
    BY <1>4, <1>9, <2>1, <2>2 DEF ChildWrites
  <2>4. /\ \A q : q \in DOMAIN disk'[box[d]] <=> q \in DOMAIN f \/ q = p
        /\ \A q \in DOMAIN f : q # p => disk'[box[d]][q] = f[q]
        /\ disk'[box[d]][p] = Session(d)
    BY <2>3 DEF Put
  <2>5. OwnFiles(d)'
    BY <1>1, <1>2, <2>1, <2>4 DEF OwnFiles, Session
  <2>6. Written(d)'
    <3>1. SUFFICES ASSUME NEW i \in 1 .. child[d].at + 1,
                          child[d].script.steps[i].do = "write"
                   PROVE  /\ child[d].script.steps[i].what \in DOMAIN disk'[box[d]]
                          /\ ~InContainer(d) =>
                               LET by == disk'[box[d]][child[d].script.steps[i].what]
                               IN by = Session(d) \/ LeftBehind(d, child[d].script.steps[i].what, by)
      BY <1>1, <1>3, <1>5, <1>10 DEF Written
    <3>2. CASE i = child[d].at + 1
      BY <2>1, <2>4, <3>2 DEF Doing
    <3>3. CASE i # child[d].at + 1
      <4>1. i \in 1 .. child[d].at
        BY <1>4, <3>3
      <4> QED
        BY <1>2, <1>9, <2>1, <2>4, <3>1, <4>1 DEF Written, Running
    <3> QED
      BY <3>2, <3>3
  <2> QED
    BY <1>6, <1>7, <2>5, <2>6
<1> QED
  BY <1>8, <1>9

-----------------------------------------------------------------------------
(* Steps                                                                   *)

LEMMA CaptureOfRunning ==
  ASSUME Working, NEW d \in Drive, pc[d] \in Running
  PROVE  Traces(d) = Capture(d) /\ Capture(d)[1] = d
<1>1. child[d].as = Command(d)
  BY DEF Working, Following
<1>2. Traces(d) = Capture(d)
  BY <1>1 DEF Traces, Command
<1> QED
  BY <1>2 DEF Capture

\* No step of a drive changes a trace child that is not its own.
LEMMA TracesStay ==
  ASSUME Shapes, Workplaces, Working, NEW d \in Drive, Host(d) \/ Cancel(d) \/ Subprocess(d)
  PROVE  /\ OtherTraces(d)
         /\ \A c \in DOMAIN trace' : DOMAIN trace'[c] = TraceFields
<1> DEFINE Kept == /\ OtherTraces(d)
                   /\ \A c \in DOMAIN trace' : DOMAIN trace'[c] = TraceFields
<1>1. CASE trace' = trace
  BY <1>1 DEF OtherTraces, Shapes
<1>2. CASE trace' = Registered(d)
  BY <1>2 DEF Registered, Put, Open, Capture, OtherTraces, Shapes, TraceFields
<1>3. ASSUME pc[d] \in Running, NEW n,
             \/ trace' = [trace EXCEPT ![Traces(d)].lines = n]
             \/ trace' = [trace EXCEPT ![Traces(d)].imported = n]
             \/ trace' = [trace EXCEPT ![Traces(d)].status = n]
      PROVE  Kept
  BY <1>3, CaptureOfRunning DEF OtherTraces, Shapes
<1>4. CASE ReadLine(d)
  <2>1. pc[d] \in Running
    BY <1>4 DEF ReadLine, Running
  <2>2. trace' = trace \/ trace' = [trace EXCEPT ![Traces(d)].lines = trace[Traces(d)].lines + 1]
    BY <1>4 DEF ReadLine, talk
  <2> QED
    BY <1>1, <1>3, <2>1, <2>2
<1>5. CASE Import(d) \/ Finish(d) \/ FinishFails(d)
  BY <1>1, <1>3, <1>5 DEF Import, Finish, FinishFails, Imported, Closed, Goto, Running
<1>6. CASE Register(d) \/ RegisterFails(d)
  BY <1>1, <1>2, <1>6 DEF Register, RegisterFails
<1>7. CASE \/ BadSchema(d) \/ CreateFails(d) \/ Misconfigured(d) \/ HeadersFail(d) \/ SinkOpenFails(d)
           \/ SpawnFails(d) \/ ReadGarbled(d) \/ SinkFails(d) \/ ImportFails(d) \/ SettleFailure(d)
           \/ CollectFails(d) \/ GiveUp(d) \/ Cancel(d) \/ AnswerNow(d) \/ Collect(d)
  BY <1>1, <1>7 DEF BadSchema, CreateFails, Misconfigured, HeadersFail, SinkOpenFails, SpawnFails,
     ReadGarbled, SinkFails, ImportFails, SettleFailure, CollectFails, GiveUp, Cancel, AnswerNow, Collect
<1>8. CASE \/ Begin(d) \/ Create(d) \/ Ask(d) \/ Configure(d) \/ Launch(d) \/ Wait(d) \/ SettleReply(d)
           \/ Retry(d) \/ Capturing(d) \/ AskAgain(d) \/ Subprocess(d)
  BY <1>1, <1>8 DEF Begin, Create, Ask, Configure, Launch, Wait, SettleReply, Retry, Capturing,
     AskAgain, Subprocess, DockerRuns, ChildPrints, ChildComplains, ChildWrites, ChildExits, run
<1> QED
  BY <1>4, <1>5, <1>6, <1>7, <1>8 DEF Host

LEMMA StepsLeaveOthers ==
  ASSUME Shapes, Workplaces, NEW d \in Drive,
         Drops(d) \/ Backs(d) \/ Succeeds(d) \/ Makes(d) \/ Advances(d) \/ ChildWrites(d)
  PROVE  OthersStay(d) /\ StraysStay(d)
<1>1. CASE Drops(d) \/ Succeeds(d)
  BY <1>1, LeaveIs DEF Drops, Succeeds, AnswerNow, Collect, Return
<1>2. CASE Backs(d)
  BY <1>2, BackOthers
<1>3. CASE Makes(d)
  <2>1. UNCHANGED run
    BY <1>3 DEF Makes, Begin, Create, DockerRuns
  <2>2. \A e \in Drive : e # d => pc'[e] = pc[e] /\ box'[e] = box[e]
    BY <1>3 DEF Makes, Begin, Create, MakeDir, Stage, DockerRuns, StartContainer, TakeContainer,
       QueryContainer, RunSetup, Goto, boxes, Shapes
  <2> QED
    BY <2>1, <2>2 DEF OthersStay, StraysStay, run, tries, talk
<1>4. CASE Advances(d)
  BY <1>4, AdvancesWalk DEF Walks, StraysStay
<1>5. CASE ChildWrites(d)
  BY <1>5 DEF ChildWrites, OthersStay, StraysStay, tries, talk, Shapes
<1> QED
  BY <1>1, <1>2, <1>3, <1>4, <1>5

LEMMA StepIs ==
  ASSUME NEW d \in Drive, Host(d) \/ Cancel(d) \/ Subprocess(d)
  PROVE  Drops(d) \/ Backs(d) \/ Succeeds(d) \/ Makes(d) \/ Advances(d) \/ ChildWrites(d)
BY StepCases, FailsQuit

LEMMA StepKeepsPlaces ==
  ASSUME Shapes, Workplaces, Working, Shapes', setup' = setup, NEW d \in Drive,
         Drops(d) \/ Backs(d) \/ Succeeds(d) \/ Makes(d) \/ Advances(d) \/ ChildWrites(d)
  PROVE  Workplaces'
<1>1. CASE Drops(d)
  <2>1. PICK class :
          /\ Leave(d, Failed(class))
          /\ pc[d] \in Making => class \in {"sandbox", "cancelled"}
          /\ pc[d] = "started" => class = "cancelled"
          /\ orphans' = orphans \/ (class = "cancelled" /\ Helps(d) /\ orphans' = orphans \cup {Helper(d)})
    BY <1>1 DEF Drops
  <2>2. /\ ~Failed(class).ok /\ Failed(class).class = class
    BY DEF Failed
  <2>3. pc[d] # "done"
    BY <1>1 DEF Drops
  <2>4. PICK r : r = Failed(class)
    OBVIOUS
  <2>5. Leave(d, r) /\ ~r.ok /\ r.class = class
    BY <2>1, <2>2, <2>4
  <2> QED
    BY <2>1, <2>3, <2>5, LeaveKeepsPlaces
<1>2. CASE Succeeds(d)
  <2>1. PICK r : Leave(d, r) /\ orphans' = orphans
    BY <1>2 DEF Succeeds, AnswerNow, Collect, Return
  <2>2. pc[d] \notin Making \cup {"done"} /\ pc[d] # "started"
    BY <1>2 DEF Succeeds, AnswerNow, Collect, Making
  <2> QED
    BY <2>1, <2>2, LeaveKeepsPlaces
<1>3. CASE Backs(d)
  BY <1>3, BackKeepsPlaces
<1>4. CASE Makes(d)
  BY <1>4, MakeKeepsPlaces
<1>5. CASE Advances(d)
  BY <1>5, AdvancesWalk, WalkKeepsPlaces
<1>6. CASE ChildWrites(d)
  <2>1. /\ UNCHANGED <<pc, seq, box, containers, orphans, asks, result, strays>> /\ DOMAIN disk' = DOMAIN disk
    BY <1>6 DEF ChildWrites, tries
  <2>2. \A e \in Drive : child'[e].up = child[e].up
    BY <1>6 DEF ChildWrites, Shapes, ChildFields
  <2> QED
    BY <2>1, <2>2, WriteKeepsPlaces
<1> QED
  BY <1>1, <1>2, <1>3, <1>4, <1>5, <1>6

LEMMA StepKeepsWork ==
  ASSUME Shapes, Workplaces, Working, setup' = setup, NEW d \in Drive,
         Drops(d) \/ Backs(d) \/ Succeeds(d) \/ Makes(d) \/ Advances(d) \/ ChildWrites(d)
  PROVE  Working'
<1>1. \A e \in Drive : e # d => Following(e)' /\ OwnFiles(e)' /\ Written(e)' /\ OwnCapture(e)'
  BY StepsLeaveOthers, OthersWork
<1>2. Following(d)' /\ OwnFiles(d)' /\ Written(d)' /\ OwnCapture(d)'
  <2>1. CASE Drops(d)
    <3>1. PICK class : Leave(d, Failed(class))
      BY <2>1 DEF Drops
    <3>2. ~Failed(class).ok
      BY DEF Failed
    <3> QED
      BY <3>1, <3>2, LeaveWorks
  <2>2. CASE Succeeds(d)
    <3>1. PICK r : Leave(d, r)
      BY <2>2 DEF Succeeds, AnswerNow, Collect, Return
    <3> QED
      BY <2>2, <3>1, LeaveWorks, AnswerWorks
  <2>3. CASE Backs(d) \/ Makes(d) \/ Advances(d) \/ ChildWrites(d)
    BY <2>3, BackWorks, MakeWorks, AdvanceWorks, WriteWorks
  <2> QED
    BY <2>1, <2>2, <2>3
<1> QED
  BY <1>1, <1>2 DEF Working

LEMMA StrayKeepsSolid ==
  ASSUME Shapes, Workplaces, Working, setup' = setup, StrayWrites
  PROVE  Shapes' /\ Workplaces' /\ Working'
<1>1. PICK s \in strays :
        /\ box[s.drive] # NoBox
        /\ disk' = [disk EXCEPT ![box[s.drive]] = Put(@, s.path, s.by)]
        /\ UNCHANGED <<seq, box, containers, orphans, pc, tries, child, strays, talk, trace, result>>
  BY DEF StrayWrites
<1>2. Shapes'
  BY <1>1 DEF Shapes, tries, talk
<1>3. Workplaces'
  <2>1. /\ UNCHANGED <<pc, seq, box, containers, orphans, asks, result>> /\ DOMAIN disk' = DOMAIN disk
        /\ strays' = strays /\ child' = child
    BY <1>1 DEF tries
  <2> QED
    BY <2>1, WriteKeepsPlaces
<1>4. /\ s.drive \in Drive /\ s.by[1] = s.drive /\ box[s.drive] \in DOMAIN disk
      /\ s = [drive |-> s.drive, by |-> s.by, path |-> s.path]
  BY <1>1 DEF Workplaces, Placed
<1>5. \A e \in Drive : e # s.drive /\ box[e] # NoBox => disk'[box[e]] = disk[box[e]]
  <2>1. \A e \in Drive : e # s.drive /\ box[e] # NoBox => box[e] # box[s.drive] /\ box[e] \in DOMAIN disk
    BY <1>4 DEF Workplaces, Placed
  <2> QED
    BY <1>1, <2>1
<1>6. ASSUME NEW e \in Drive, e # s.drive
      PROVE  Following(e)' /\ OwnFiles(e)' /\ Written(e)' /\ OwnCapture(e)'
  <2>1. Following(e) /\ OwnFiles(e) /\ Written(e) /\ OwnCapture(e)
    BY DEF Working
  <2>2. Flag(e) # "read-only" /\ pc[e] \in Running => box[e] # NoBox
    BY WritersHaveBoxes
  <2>3. /\ pc'[e] = pc[e] /\ box'[e] = box[e] /\ child'[e] = child[e] /\ result'[e] = result[e]
        /\ reply'[e] = reply[e] /\ exec'[e] = exec[e] /\ attempt'[e] = attempt[e]
    BY <1>1 DEF tries, talk
  <2> QED
    BY <1>1, <1>5, <1>6, <2>1, <2>2, <2>3, WorkStays
<1>7. ASSUME NEW e \in Drive, e = s.drive
      PROVE  Following(e)' /\ OwnFiles(e)' /\ Written(e)' /\ OwnCapture(e)'
  <2>1. /\ pc' = pc /\ box' = box /\ child' = child /\ result' = result
        /\ reply' = reply /\ exec' = exec /\ attempt' = attempt
    BY <1>1 DEF tries, talk
  <2>2. Following(e) /\ OwnFiles(e) /\ Written(e) /\ OwnCapture(e)
    BY DEF Working
  <2>3. /\ Command(e)' = Command(e) /\ Flag(e)' = Flag(e) /\ (InContainer(e)' <=> InContainer(e))
        /\ (Captures(e)' <=> Captures(e)) /\ Session(e)' = Session(e)
    BY <2>1, SameCommand DEF Session
  <2>4. PICK f : f = disk[box[e]]
    OBVIOUS
  <2>5. disk'[box[e]] = Put(f, s.path, s.by)
    BY <1>1, <1>4, <1>7, <2>4
  <2>6. /\ \A q : q \in DOMAIN disk'[box[e]] <=> q \in DOMAIN f \/ q = s.path
        /\ \A q \in DOMAIN disk'[box[e]] : disk'[box[e]][q] = s.by \/ (q \in DOMAIN f /\ disk'[box[e]][q] = f[q])
    BY <2>5 DEF Put
  <2>7. Following(e)'
    BY <2>1, <2>2, <2>3 DEF Following, Succeeded, Usable
  <2>8. OwnFiles(e)'
    BY <1>4, <1>7, <2>1, <2>2, <2>4, <2>6 DEF OwnFiles
  <2>9. \A p, by : LeftBehind(e, p, by)' <=> LeftBehind(e, p, by)
    BY <1>1 DEF LeftBehind
  <2>10. \A q \in DOMAIN disk'[box[e]] :
           LeftBehind(e, q, disk'[box[e]][q]) \/ (q \in DOMAIN f /\ disk'[box[e]][q] = f[q])
    BY <1>4, <1>7, <2>5 DEF Put, LeftBehind
  <2>11. Written(e)'
    BY <2>1, <2>2, <2>3, <2>4, <2>6, <2>9, <2>10 DEF Written
  <2>12. OwnCapture(e)'
    BY <2>1, <2>2, <2>3, <2>9 DEF OwnCapture
  <2> QED
    BY <2>7, <2>8, <2>11, <2>12
<1>8. Working'
  BY <1>6, <1>7 DEF Working
<1> QED
  BY <1>2, <1>3, <1>8

\* A helper that nobody waits for touches what is left of a drive that was
\* cancelled, and nothing else.
LEMMA OrphanTraces ==
  ASSUME Shapes, Workplaces, OrphanEnds
  PROVE  /\ \E d \in Drive : Cancelled(d) /\ OtherTraces(d)
         /\ \A c \in DOMAIN trace' : DOMAIN trace'[c] = TraceFields
<1>1. PICK o \in orphans : Reports(o) \/ trace' = trace
  BY DEF OrphanEnds
<1>2. o.drive \in Drive /\ Cancelled(o.drive) /\ Capture(o.drive)[1] = o.drive
  BY DEF Workplaces, Capture
<1>3. \/ trace' = trace
      \/ trace' = Registered(o.drive)
      \/ \E n : \/ trace' = [trace EXCEPT ![Capture(o.drive)].imported = n]
                \/ trace' = [trace EXCEPT ![Capture(o.drive)].status = n]
  BY <1>1 DEF Reports, Imported, Closed
<1>4. OtherTraces(o.drive) /\ \A c \in DOMAIN trace' : DOMAIN trace'[c] = TraceFields
  <2>1. CASE trace' = Registered(o.drive)
    BY <1>2, <2>1 DEF Registered, Put, Open, OtherTraces, Shapes, TraceFields
  <2>2. CASE trace' # Registered(o.drive)
    BY <1>2, <1>3, <2>2 DEF OtherTraces, Shapes
  <2> QED
    BY <2>1, <2>2
<1> QED
  BY <1>2, <1>4

LEMMA OrphanKeepsSolid ==
  ASSUME Shapes, Workplaces, Working, setup' = setup, OrphanEnds
  PROVE  Shapes' /\ Workplaces' /\ Working'
<1>1. UNCHANGED <<seq, disk, box, pc, asks, attempt, exec, child, strays, reply, tail, result>>
  BY DEF OrphanEnds, tries, talk
<1>2. Shapes'
  BY <1>1, OrphanTraces DEF Shapes
<1>3. Workplaces'
  BY OrphanKeepsPlaces
<1>4. ASSUME NEW e \in Drive
      PROVE  Following(e)' /\ OwnFiles(e)' /\ Written(e)' /\ OwnCapture(e)'
  <2>1. /\ Following(e) /\ OwnFiles(e) /\ Written(e) /\ OwnCapture(e)
        /\ Flag(e) # "read-only" /\ pc[e] \in Running => box[e] # NoBox
    BY WritersHaveBoxes DEF Working
  <2> QED
    BY <1>1, <2>1, WorkStays
<1> QED
  BY <1>2, <1>3, <1>4 DEF Working

-----------------------------------------------------------------------------
(* Texts that pass through a pipe                                          *)

LEMMA MaxIsLast ==
  ASSUME NEW P \in SUBSET Nat, NEW i, LastOf(P, i) PROVE Max(P) = i
<1>1. i \in P /\ i \in Nat /\ \A j \in P : j \in Nat /\ j <= i /\ i >= j
  BY DEF LastOf
<1>2. \E x : x \in P /\ \A y \in P : x >= y
  BY <1>1
<1>3. Max(P) \in P /\ \A y \in P : Max(P) >= y
  BY <1>2 DEF Max
<1>4. Max(P) \in Nat /\ Max(P) <= i /\ Max(P) >= i
  BY <1>1, <1>3
<1> QED
  BY <1>1, <1>4

LEMMA TellsAtStart ==
  ASSUME NEW steps PROVE Tells(steps, 0, <<>>, <<>>)
BY DEF Tells, ToldIn, Objects

\* A step that prints no object.
LEMMA TellsQuiet ==
  ASSUME NEW steps, NEW at \in Nat, NEW out, NEW r, Tells(steps, at, out, r), ~Told(steps[at + 1])
  PROVE  Tells(steps, at + 1, out, r)
<1>1. ToldIn(steps, at + 1) = ToldIn(steps, at)
  BY DEF ToldIn
<1> QED
  BY <1>1 DEF Tells

LEMMA TellsPrint ==
  ASSUME NEW L, NEW steps, NEW at \in Nat, NEW out \in Seq(L), NEW r, Tells(steps, at, out, r),
         steps[at + 1] \in L
  PROVE  Tells(steps, at + 1, Append(out, steps[at + 1]), r)
<1> DEFINE line == steps[at + 1]
           new == Append(out, line)
           told == ToldIn(steps, at)
           piped == ToldIn(out, Len(out))
<1>1. /\ Len(new) = Len(out) + 1 /\ new[Len(out) + 1] = line
      /\ \A j \in 1 .. Len(out) : new[j] = out[j]
      /\ Len(out) \in Nat
  OBVIOUS
<1> HIDE DEF line, new
<1>2. CASE Told(line)
  <2>1. LastOf(ToldIn(steps, at + 1), at + 1)
    BY <1>2 DEF LastOf, ToldIn, line
  <2>2. LastOf(ToldIn(new, Len(new)), Len(out) + 1)
    BY <1>1, <1>2 DEF LastOf, ToldIn
  <2>3. new[Len(out) + 1].what = steps[at + 1].what
    BY <1>1 DEF line
  <2> QED
    BY <2>1, <2>2, <2>3 DEF Tells, LastOf, new, line
<1>3. CASE ~Told(line)
  <2>1. ToldIn(steps, at + 1) = told
    BY <1>3 DEF ToldIn, line
  <2>2. ToldIn(new, Len(new)) = piped
    BY <1>1, <1>3 DEF ToldIn
  <2>3. \A j \in piped : new[j] = out[j]
    BY <1>1 DEF ToldIn
  <2> QED
    BY <2>1, <2>2, <2>3 DEF Tells, new, line
<1> QED
  BY <1>2, <1>3

LEMMA TailOf ==
  ASSUME NEW L, NEW q \in Seq(L), q # <<>>
  PROVE  /\ Len(q) \in Nat /\ Len(q) >= 1 /\ Head(q) = q[1] /\ Head(q) \in L
         /\ Tail(q) \in Seq(L) /\ Len(Tail(q)) = Len(q) - 1
         /\ \A j \in 1 .. Len(q) - 1 : Tail(q)[j] = q[j + 1]
OBVIOUS

\* A line that is read leaves the pipe; the text of a message joins the reply.
LEMMA TellsRead ==
  ASSUME NEW L, NEW W, NEW steps, NEW at \in Nat, NEW out \in Seq(L), out # <<>>,
         NEW r \in Seq(W), Head(out).do = "say" => Head(out).what \in W,
         Tells(steps, at, out, r)
  PROVE  Tells(steps, at, Tail(out), IF Head(out).do = "say" THEN Append(r, Head(out).what) ELSE r)
<1> DEFINE line == Head(out)
           rest == Tail(out)
           n == Len(out)
           new == IF line.do = "say" THEN Append(r, line.what) ELSE r
<1>1. /\ n \in Nat /\ n >= 1 /\ line = out[1] /\ Len(rest) = n - 1
      /\ \A j \in 1 .. n - 1 : rest[j] = out[j + 1]
  BY TailOf
<1>2. \A j : j \in ToldIn(rest, Len(rest)) <=> j \in 1 .. n - 1 /\ j + 1 \in ToldIn(out, n)
  BY <1>1 DEF ToldIn
<1>3. 1 \in ToldIn(out, n) <=> Told(line)
  BY <1>1 DEF ToldIn
<1>4. ~Told(line) => Objects(new) = Objects(r) /\ \A j \in Objects(r) : new[j] = r[j]
  BY DEF Objects, Told
<1>5. Told(line) => LastOf(Objects(new), Len(r) + 1) /\ new[Len(r) + 1] = line.what
  BY DEF Objects, Told, LastOf
<1>6. ToldIn(out, n) \subseteq 1 .. n
  BY DEF ToldIn
<1> HIDE DEF line, rest, n, new
<1>7. CASE ToldIn(out, n) = {}
  <2>1. ToldIn(rest, Len(rest)) = {} /\ ~Told(line)
    BY <1>2, <1>3, <1>7
  <2>2. Tells(steps, at, rest, new)
    BY <1>4, <1>7, <2>1 DEF Tells, n
  <2> QED
    BY <2>2 DEF line, rest, new
<1>8. ASSUME NEW i \in ToldIn(steps, at), LastOf(ToldIn(steps, at), i), NEW j \in ToldIn(out, n),
             LastOf(ToldIn(out, n), j), out[j].what = steps[i].what
      PROVE  Tells(steps, at, rest, new)
  <2>1. CASE j = 1
    <3>1. ToldIn(rest, Len(rest)) = {}
      BY <1>1, <1>2, <1>8, <2>1 DEF LastOf
    <3>2. Told(line) /\ line.what = steps[i].what
      BY <1>1, <1>3, <1>8, <2>1
    <3> QED
      BY <1>5, <1>8, <3>1, <3>2 DEF Tells, LastOf
  <2>2. CASE j # 1
    <3>1. j \in 2 .. n /\ j - 1 \in 1 .. n - 1 /\ (j - 1) + 1 = j
      BY <1>1, <1>6, <1>8, <2>2
    <3>2. j - 1 \in ToldIn(rest, Len(rest)) /\ rest[j - 1].what = steps[i].what
      BY <1>1, <1>2, <1>8, <3>1
    <3>3. LastOf(ToldIn(rest, Len(rest)), j - 1)
      <4>1. ASSUME NEW k \in ToldIn(rest, Len(rest)) PROVE k <= j - 1
        <5>1. k \in 1 .. n - 1 /\ k + 1 \in ToldIn(out, n)
          BY <1>2, <4>1
        <5>2. k + 1 <= j
          BY <1>8, <5>1 DEF LastOf
        <5> QED
          BY <1>1, <3>1, <5>1, <5>2
      <4> QED
        BY <3>2, <4>1 DEF LastOf
    <3> QED
      BY <1>8, <3>2, <3>3 DEF Tells
  <2> QED
    BY <2>1, <2>2
<1>9. CASE ToldIn(out, n) # {}
  <2>1. Tells(steps, at, rest, new)
    BY <1>8, <1>9 DEF Tells, n
  <2> QED
    BY <2>1 DEF line, rest, new
<1> QED
  BY <1>7, <1>9

\* When all is printed and read, the last object of the reply is the last one
\* of the script.
LEMMA TellsAll ==
  ASSUME NEW L, NEW steps \in Seq(L), NEW W, NEW r \in Seq(W), Objects(r) # {},
         Tells(steps, Len(steps), <<>>, r)
  PROVE  LET all == {i \in DOMAIN steps : Told(steps[i])}
         IN all # {} /\ r[Max(Objects(r))] = steps[Max(all)].what
<1>1. ToldIn(<<>>, Len(<<>>)) = {}
  BY DEF ToldIn
<1>2. PICK i \in ToldIn(steps, Len(steps)), j \in Objects(r) :
        /\ LastOf(ToldIn(steps, Len(steps)), i) /\ LastOf(Objects(r), j) /\ r[j] = steps[i].what
  BY <1>1 DEF Tells
<1>3. ToldIn(steps, Len(steps)) = {k \in DOMAIN steps : Told(steps[k])}
  BY DEF ToldIn
<1>4. Objects(r) \in SUBSET Nat /\ ToldIn(steps, Len(steps)) \in SUBSET Nat
  BY DEF Objects, ToldIn
<1>5. Max(Objects(r)) = j /\ Max(ToldIn(steps, Len(steps))) = i
  BY <1>2, <1>4, MaxIsLast
<1> QED
  BY <1>2, <1>3, <1>5

-----------------------------------------------------------------------------
(* Lines that pass through a pipe                                          *)

LEMMA CountIsNatural ==
  ASSUME NEW q, NEW n \in Nat
  PROVE  IsFiniteSet(CountedIn(q, n)) /\ Count(q, n) \in Nat
<1>1. IsFiniteSet(1 .. n) /\ CountedIn(q, n) \in SUBSET (1 .. n)
  BY FS_Interval DEF CountedIn
<1> QED
  BY <1>1, FS_Subset, FS_CardinalityType DEF Count

LEMMA CountNothing == ASSUME NEW q PROVE Count(q, 0) = 0
<1>1. CountedIn(q, 0) = {}
  BY DEF CountedIn
<1> QED
  BY <1>1, FS_EmptySet DEF Count

LEMMA CountNext ==
  ASSUME NEW q, NEW n \in Nat
  PROVE  Count(q, n + 1) = IF Counted(q[n + 1]) THEN Count(q, n) + 1 ELSE Count(q, n)
<1>1. IsFiniteSet(CountedIn(q, n))
  BY CountIsNatural
<1>2. CASE Counted(q[n + 1])
  <2>1. CountedIn(q, n + 1) = CountedIn(q, n) \cup {n + 1} /\ n + 1 \notin CountedIn(q, n)
    BY <1>2 DEF CountedIn
  <2> QED
    BY <1>1, <1>2, <2>1, FS_AddElement DEF Count
<1>3. CASE ~Counted(q[n + 1])
  <2>1. CountedIn(q, n + 1) = CountedIn(q, n)
    BY <1>3 DEF CountedIn
  <2> QED
    BY <1>3, <2>1 DEF Count
<1> QED
  BY <1>2, <1>3

LEMMA CountAppend ==
  ASSUME NEW L, NEW q \in Seq(L), NEW x \in L
  PROVE  Count(Append(q, x), Len(Append(q, x))) =
           IF Counted(x) THEN Count(q, Len(q)) + 1 ELSE Count(q, Len(q))
<1> DEFINE new == Append(q, x)
           n == Len(q)
<1>1. /\ n \in Nat /\ Len(new) = n + 1 /\ new[n + 1] = x
      /\ \A j \in 1 .. n : new[j] = q[j]
  OBVIOUS
<1> HIDE DEF new, n
<1>2. CountedIn(new, n) = CountedIn(q, n)
  BY <1>1 DEF CountedIn
<1>3. Count(new, n + 1) = IF Counted(x) THEN Count(q, n) + 1 ELSE Count(q, n)
  BY <1>1, <1>2, CountNext DEF Count
<1> QED
  BY <1>1, <1>3 DEF new, n

LEMMA CountTail ==
  ASSUME NEW L, NEW q \in Seq(L), q # <<>>
  PROVE  Count(q, Len(q)) = IF Counted(Head(q)) THEN Count(Tail(q), Len(Tail(q))) + 1
                                               ELSE Count(Tail(q), Len(Tail(q)))
<1> DEFINE rest == Tail(q)
           n == Len(q)
           P == CountedIn(q, n)
           R == CountedIn(rest, n - 1)
           shift == [i \in P \ {1} |-> i - 1]
<1>1. /\ n \in Nat /\ n >= 1 /\ Head(q) = q[1] /\ Len(rest) = n - 1
      /\ \A j \in 1 .. n - 1 : rest[j] = q[j + 1]
  BY TailOf
<1> HIDE DEF rest, n
<1>2. IsFiniteSet(P)
  BY <1>1, CountIsNatural
<1>3. \A i \in P \ {1} : i \in 2 .. n /\ i - 1 \in R
  BY <1>1 DEF CountedIn
<1>4. \A j \in R : j + 1 \in P \ {1} /\ (j + 1) - 1 = j
  BY <1>1 DEF CountedIn
<1>5. shift \in Bijection(P \ {1}, R)
  <2>1. shift \in [P \ {1} -> R]
    BY <1>3
  <2>2. ASSUME NEW a \in P \ {1}, NEW b \in P \ {1}, shift[a] = shift[b] PROVE a = b
    BY <1>3, <2>2
  <2>3. \A j \in R : \E i \in P \ {1} : shift[i] = j
    BY <1>4
  <2> HIDE DEF P, R, shift
  <2> QED
    BY <2>1, <2>2, <2>3 DEF Bijection, Injection, Surjection, IsInjective
<1>6. Cardinality(R) = Cardinality(P \ {1})
  <2> HIDE DEF P, R, shift
  <2>1. IsFiniteSet(P \ {1})
    BY <1>2, FS_RemoveElement
  <2>2. ExistsBijection(P \ {1}, R)
    BY <1>5 DEF ExistsBijection
  <2> QED
    BY <2>1, <2>2, FS_Bijection
<1>7. Cardinality(P \ {1}) = IF 1 \in P THEN Cardinality(P) - 1 ELSE Cardinality(P)
  <2> HIDE DEF P
  <2> QED
    BY <1>2, FS_RemoveElement
<1>8. 1 \in P <=> Counted(Head(q))
  BY <1>1 DEF CountedIn
<1>9. Cardinality(P) \in Nat
  BY <1>1, CountIsNatural DEF Count
<1>10. Cardinality(P) = Count(q, n) /\ Cardinality(R) = Count(rest, Len(rest))
  BY <1>1 DEF Count
<1> HIDE DEF P, R
<1> QED
  BY <1>6, <1>7, <1>8, <1>9, <1>10 DEF rest, n

-----------------------------------------------------------------------------
(* Telling                                                                 *)

LEMMA SameTrace ==
  ASSUME NEW d \in Drive, setup' = setup, attempt'[d] = attempt[d]
  PROVE  /\ Capture(d)' = Capture(d) /\ (Traced(d)' <=> Traced(d)) /\ (HasSink(d)' <=> HasSink(d))
         /\ setup'[d] = setup[d]
BY DEF Capture, Traced, HasSink

LEMMA TaleStays ==
  ASSUME NEW d \in Drive, Tale(d), setup' = setup,
         pc'[d] = pc[d], child'[d] = child[d], result'[d] = result[d],
         reply'[d] = reply[d], exec'[d] = exec[d], attempt'[d] = attempt[d],
         Capture(d) \in DOMAIN trace => Capture(d) \in DOMAIN trace' /\ trace'[Capture(d)] = trace[Capture(d)]
  PROVE  Tale(d)'
<1>1. /\ Capture(d)' = Capture(d) /\ (Traced(d)' <=> Traced(d)) /\ (HasSink(d)' <=> HasSink(d))
      /\ Session(d)' = Session(d) /\ Verdict(d)' = Verdict(d)
  BY SameTrace DEF Session, Verdict, Succeeded
<1>2. Streamed(d)'
  BY DEF Tale, Streamed
<1>3. TraceFollows(d)'
  BY <1>1 DEF Tale, TraceFollows
<1>4. OwnAnswer(d)'
  BY DEF Tale, OwnAnswer
<1>5. OwnTrace(d)'
  BY <1>1 DEF Tale, OwnTrace
<1> QED
  BY <1>2, <1>3, <1>4, <1>5 DEF Tale

LEMMA OthersTell ==
  ASSUME Telling, setup' = setup, NEW d \in Drive, OthersStay(d), OtherTraces(d),
         NEW e \in Drive, e # d
  PROVE  Tale(e)'
<1>1. Capture(e)[1] # d
  BY DEF Capture
<1>2. Tale(e)
  BY DEF Telling
<1>3. /\ pc'[e] = pc[e] /\ child'[e] = child[e] /\ result'[e] = result[e]
      /\ reply'[e] = reply[e] /\ exec'[e] = exec[e] /\ attempt'[e] = attempt[e]
  BY DEF OthersStay
<1>4. Capture(e) \in DOMAIN trace =>
        Capture(e) \in DOMAIN trace' /\ trace'[Capture(e)] = trace[Capture(e)]
  BY <1>1 DEF OtherTraces
<1> QED
  BY <1>2, <1>3, <1>4, TaleStays

\* A drive with no attempt under way and no answer has nothing to tell.
LEMMA NoTale ==
  ASSUME NEW d \in Drive, pc'[d] \notin Running \cup {"launch"}, ~result'[d].ok PROVE Tale(d)'
BY DEF Tale, Streamed, TraceFollows, OwnAnswer, OwnTrace

LEMMA RunningFacts ==
  ASSUME Shapes, Workplaces, Working, NEW d \in Drive, pc[d] \in Running
  PROVE  /\ child[d].script.steps \in Seq(Steps(child[d].script))
         /\ Len(child[d].script.steps) \in Nat
         /\ child[d].at \in Nat /\ child[d].at <= Len(child[d].script.steps)
         /\ ~result[d].ok
         /\ Traces(d) = Capture(d)
         /\ DOMAIN child[d] = ChildFields
<1>1. child[d].script \in Scripts(d) /\ child[d].at \in 0 .. Len(child[d].script.steps)
  BY DEF Working, Following
<1>2. child[d].script.steps \in Seq(Steps(child[d].script))
  BY <1>1, ExecAssumption
<1>3. ~result[d].ok
  BY DEF Workplaces, Placed, Running
<1> QED
  BY <1>1, <1>2, <1>3, CaptureOfRunning DEF Shapes

\* The answer is the last object of the script, and the trace child has all.
LEMMA AnswerTells ==
  ASSUME Shapes, Workplaces, Working, Telling, setup' = setup, NEW d \in Drive, Succeeds(d)
  PROVE  Tale(d)'
<1>1. PICK f : Leave(d, Answer(d, f)) /\ trace' = trace
  BY DEF Succeeds, AnswerNow, Collect, Return
<1>2. pc[d] \in {"judge", "capture"} /\ Usable(d)
  BY DEF Succeeds, AnswerNow, Collect, Working, Following, Running
<1>3. pc[d] \in Running /\ pc[d] # "read" /\ pc[d] # "launch"
  BY <1>2 DEF Running
<1>4. /\ pc'[d] = "done" /\ result'[d] = Answer(d, f) /\ attempt' = attempt
  BY <1>1 DEF Leave, Shapes, tries
<1>5. /\ result'[d].outputs = Extracted(reply[d]) /\ result'[d].script = child[d].script
      /\ result'[d].session = Session(d)
  BY <1>4 DEF Answer
<1>6. /\ child[d].out = <<>> /\ child[d].at = Len(child[d].script.steps) /\ Succeeded(d)
  BY <1>2, <1>3 DEF Working, Following, Workplaces, Placed
<1>7. /\ child[d].script.steps \in Seq(Steps(child[d].script))
  BY <1>3, RunningFacts
<1>8. Objects(reply[d]) # {} /\ Extracted(reply[d]) = reply[d][Max(Objects(reply[d]))]
  BY <1>2 DEF Usable, Extracted
<1>9. OwnAnswer(d)'
  <2>1. /\ reply[d] \in Seq({s.what : s \in Steps(child[d].script)})
        /\ Tells(child[d].script.steps, Len(child[d].script.steps), <<>>, reply[d])
    BY <1>3, <1>6 DEF Telling, Tale, Streamed
  <2>2. PICK steps, r, S, W : /\ steps = child[d].script.steps /\ r = reply[d] /\ S = Steps(child[d].script)
                              /\ W = {s.what : s \in Steps(child[d].script)}
    OBVIOUS
  <2>3. /\ {i \in DOMAIN steps : Told(steps[i])} # {}
        /\ r[Max(Objects(r))] = steps[Max({i \in DOMAIN steps : Told(steps[i])})].what
    <3>1. steps \in Seq(S) /\ r \in Seq(W) /\ Objects(r) # {} /\ Tells(steps, Len(steps), <<>>, r)
      BY <1>7, <1>8, <2>1, <2>2
    <3> QED
      BY <3>1, TellsAll
  <2>4. /\ Answers(child[d].script) # {}
        /\ Extracted(reply[d]) = child[d].script.steps[Max(Answers(child[d].script))].what
    BY <1>8, <2>2, <2>3 DEF Answers
  <2>5. setup'[d].schema => Extracted(reply[d]) = "fit"
    BY <1>2 DEF Usable
  <2> QED
    BY <1>5, <1>6, <2>4, <2>5 DEF OwnAnswer, Succeeded
<1>10. OwnTrace(d)'
  <2>1. TraceFollows(d)
    BY DEF Telling, Tale
  <2>2. SUFFICES ASSUME Traced(d)
                 PROVE  LET t == trace[Capture(d)]
                        IN /\ Capture(d) \in DOMAIN trace
                           /\ t.status = "completed" /\ t.session = Session(d)
                           /\ HasSink(d) => t.imported = Printed(child[d].script)
    BY <1>1, <1>4, <1>5, SameTrace DEF OwnTrace
  <2>3. /\ Capture(d) \in DOMAIN trace /\ trace[Capture(d)].status = "completed"
        /\ trace[Capture(d)].session = Session(d)
    BY <1>2, <1>3, <2>1, <2>2 DEF TraceFollows
  <2>4. ASSUME HasSink(d) PROVE trace[Capture(d)].imported = Printed(child[d].script)
    <3>1. /\ trace[Capture(d)].imported = trace[Capture(d)].lines
          /\ trace[Capture(d)].lines \in Nat
          /\ Count(child[d].script.steps, Len(child[d].script.steps)) =
               trace[Capture(d)].lines + Count(<<>>, Len(<<>>))
      BY <1>2, <1>3, <1>6, <2>1, <2>2, <2>4 DEF TraceFollows
    <3>2. Count(<<>>, Len(<<>>)) = 0
      BY CountNothing
    <3>3. {i \in DOMAIN child[d].script.steps : child[d].script.steps[i].do \in Lines \ {"blank"}}
            = CountedIn(child[d].script.steps, Len(child[d].script.steps))
      BY <1>7 DEF CountedIn, Counted
    <3>4. Printed(child[d].script) = Count(child[d].script.steps, Len(child[d].script.steps))
      BY <3>3 DEF Printed, Count
    <3> QED
      BY <3>1, <3>2, <3>4
  <2> QED
    BY <2>3, <2>4
<1> QED
  BY <1>4, <1>9, <1>10 DEF Tale, Streamed, TraceFollows, Running

\* An attempt begins with an empty pipe, an empty reply and an open trace child.
LEMMA LaunchTells ==
  ASSUME Shapes, Telling, setup' = setup, NEW d \in Drive, Launch(d)
  PROVE  Streamed(d)' /\ TraceFollows(d)'
<1>1. PICK s \in Scripts(d) :
        child'[d] = [NoChild EXCEPT !.up = TRUE, !.script = s, !.as = Command(d)]
  BY DEF Launch, Shapes
<1>2. /\ child'[d].script = s /\ child'[d].at = 0 /\ child'[d].out = <<>>
      /\ pc[d] = "launch" /\ pc'[d] = "read" /\ attempt' = attempt /\ reply'[d] = <<>> /\ trace' = trace
      /\ exec[d] + 1 = exec'[d]
  BY <1>1 DEF NoChild, Launch, Goto, Shapes
<1>3. Streamed(d)'
  <2>1. Tells(s.steps, 0, <<>>, <<>>)
    BY TellsAtStart
  <2> QED
    BY <1>2, <2>1 DEF Streamed
<1>4. TraceFollows(d)'
  <2>1. /\ Capture(d)' = Capture(d) /\ (Traced(d)' <=> Traced(d)) /\ (HasSink(d)' <=> HasSink(d))
    BY <1>2, SameTrace
  <2>2. <<d, exec[d] + 1>> = Session(d)'
    BY <1>2 DEF Session
  <2>3. Count(s.steps, 0) = 0 /\ Count(<<>>, Len(<<>>)) = 0
    BY CountNothing
  <2>4. TraceFollows(d)
    BY DEF Telling, Tale
  <2> QED
    BY <1>2, <2>1, <2>2, <2>3, <2>4 DEF TraceFollows
<1> QED
  BY <1>3, <1>4

LEMMA RegisterTells ==
  ASSUME Shapes, setup' = setup, NEW d \in Drive, Register(d)
  PROVE  Streamed(d)' /\ TraceFollows(d)'
<1>1. /\ pc'[d] = "launch" /\ attempt' = attempt /\ exec' = exec /\ trace' = Registered(d)
  BY DEF Register, Goto, Shapes, tries
<1>2. Capture(d)' = Capture(d)
  BY <1>1, SameTrace
<1>3. Capture(d) \in DOMAIN trace' /\ trace'[Capture(d)] = Open(d)
  BY <1>1 DEF Registered, Put
<1> QED
  BY <1>1, <1>2, <1>3 DEF Streamed, TraceFollows, Running, Open

\* The host reads a line: the pipe has one less, the sink and the reply have it.
LEMMA ReadTells ==
  ASSUME Shapes, Workplaces, Working, Telling, setup' = setup, NEW d \in Drive, ReadLine(d)
  PROVE  Streamed(d)' /\ TraceFollows(d)'
<1> DEFINE out == child[d].out
           line == Head(out)
           S == {s \in Steps(child[d].script) : s.do \in Lines}
           W == {s.what : s \in Steps(child[d].script)}
<1>1. /\ pc[d] = "read" /\ pc' = pc /\ pc[d] \in Running /\ out # <<>> /\ line.do # "garble"
      /\ attempt' = attempt /\ exec' = exec
  BY DEF ReadLine, Running, tries
<1>2. DOMAIN child[d] = ChildFields /\ Traces(d) = Capture(d)
  BY <1>1, RunningFacts
<1>3. /\ child'[d].script = child[d].script /\ child'[d].at = child[d].at
      /\ child'[d].out = Tail(out)
  BY <1>2 DEF ReadLine, Shapes, ChildFields
<1>4. out \in Seq(S) /\ reply[d] \in Seq(W) /\ Tells(child[d].script.steps, child[d].at, out, reply[d])
  BY <1>1 DEF Telling, Tale, Streamed
<1>5. line \in S /\ Tail(out) \in Seq(S) /\ line.what \in W
  <2>1. line \in S /\ Tail(out) \in Seq(S)
    BY <1>1, <1>4, TailOf
  <2> QED
    BY <2>1
<1>6. reply'[d] = IF line.do = "say" THEN Append(reply[d], line.what) ELSE reply[d]
  <2>1. CASE line.do = "blank"
    BY <2>1 DEF ReadLine, talk
  <2>2. CASE line.do # "blank"
    BY <2>2 DEF ReadLine, Shapes, Ingested
  <2> QED
    BY <2>1, <2>2
<1>7. Streamed(d)'
  <2>1. reply'[d] \in Seq(W)
    BY <1>4, <1>5, <1>6
  <2>2. PICK q, r, steps, at, L, X : /\ q = out /\ r = reply[d] /\ steps = child[d].script.steps
                                  /\ at = child[d].at /\ L = S /\ X = W
    OBVIOUS
  <2>3. /\ at \in Nat /\ q \in Seq(L) /\ q # <<>> /\ r \in Seq(X)
        /\ (Head(q).do = "say" => Head(q).what \in X) /\ Tells(steps, at, q, r)
    BY <1>1, <1>4, <1>5, <2>2, RunningFacts
  <2>4. Tells(steps, at, Tail(q), IF Head(q).do = "say" THEN Append(r, Head(q).what) ELSE r)
    BY <2>3, TellsRead
  <2>5. Tells(child'[d].script.steps, child'[d].at, child'[d].out, reply'[d])
    BY <1>3, <1>6, <2>2, <2>4
  <2> QED
    BY <1>3, <1>5, <2>1, <2>5 DEF Streamed
<1>8. TraceFollows(d)'
  <2>1. TraceFollows(d)
    BY DEF Telling, Tale
  <2>2. /\ Capture(d)' = Capture(d) /\ (Traced(d)' <=> Traced(d)) /\ (HasSink(d)' <=> HasSink(d))
        /\ Session(d)' = Session(d)
    BY <1>1, SameTrace DEF Session
  <2>3. CASE HasSink(d) /\ Traced(d)
    <3>1. /\ Capture(d) \in DOMAIN trace /\ trace[Capture(d)].session = Session(d)
          /\ trace[Capture(d)].lines \in Nat
          /\ Count(child[d].script.steps, child[d].at) = trace[Capture(d)].lines + Count(out, Len(out))
      BY <1>1, <2>1, <2>3 DEF TraceFollows
    <3>2. DOMAIN trace[Capture(d)] = TraceFields
      BY <3>1 DEF Shapes
    <3>3. Counted(line) <=> line.do # "blank"
      BY <1>5 DEF Counted
    <3>4. Count(out, Len(out)) = IF line.do # "blank" THEN Count(Tail(out), Len(Tail(out))) + 1
                                                      ELSE Count(Tail(out), Len(Tail(out)))
      BY <1>1, <1>4, <3>3, CountTail
    <3>5. Count(Tail(out), Len(Tail(out))) \in Nat
      BY <1>5, CountIsNatural
    <3>6. CASE line.do = "blank"
      <4>1. trace' = trace
        BY <3>6 DEF ReadLine, talk
      <4> QED
        BY <1>1, <1>3, <2>2, <3>1, <3>4, <3>6, <4>1 DEF TraceFollows
    <3>7. CASE line.do # "blank"
      <4>1. trace' = [trace EXCEPT ![Capture(d)].lines = @ + 1]
        BY <1>2, <2>3, <3>7 DEF ReadLine
      <4>2. /\ Capture(d) \in DOMAIN trace' /\ trace'[Capture(d)].session = trace[Capture(d)].session
            /\ trace'[Capture(d)].lines = trace[Capture(d)].lines + 1
        BY <3>1, <3>2, <4>1 DEF TraceFields
      <4>3. Count(child[d].script.steps, child[d].at) =
              trace'[Capture(d)].lines + Count(Tail(out), Len(Tail(out)))
        BY <3>1, <3>4, <3>5, <3>7, <4>2
      <4>4. trace'[Capture(d)].lines \in Nat
        BY <3>1, <4>2
      <4> QED
        BY <1>1, <1>3, <2>2, <3>1, <4>2, <4>3, <4>4 DEF TraceFollows
    <3> QED
      BY <3>6, <3>7
  <2>4. CASE ~HasSink(d) /\ Traced(d)
    <3>1. trace' = trace
      BY <2>4 DEF ReadLine, talk
    <3> QED
      BY <1>1, <2>1, <2>2, <2>4, <3>1 DEF TraceFollows
  <2>5. CASE ~Traced(d)
    BY <2>2, <2>5 DEF TraceFollows
  <2> QED
    BY <2>3, <2>4, <2>5
<1> QED
  BY <1>7, <1>8

\* What a step of the subprocess leaves alone.
LEMMA ChildLeaves ==
  ASSUME Shapes, Workplaces, Working, NEW d \in Drive,
         ChildPrints(d) \/ ChildComplains(d) \/ ChildWrites(d) \/ ChildExits(d)
  PROVE  /\ pc[d] = "read" /\ pc' = pc /\ pc[d] \in Running
         /\ attempt' = attempt /\ exec' = exec /\ trace' = trace /\ reply' = reply /\ result' = result
         /\ child'[d].script = child[d].script
<1>1. pc[d] = "read"
  BY DEF Workplaces, Placed, ChildPrints, ChildComplains, ChildWrites, ChildExits, AtStep
<1> QED
  BY <1>1 DEF ChildPrints, ChildComplains, ChildWrites, ChildExits, Running, tries, talk,
     Shapes, ChildFields

LEMMA PrintTells ==
  ASSUME Shapes, Workplaces, Working, Telling, setup' = setup, NEW d \in Drive, ChildPrints(d)
  PROVE  Streamed(d)' /\ TraceFollows(d)'
<1> DEFINE S == {s \in Steps(child[d].script) : s.do \in Lines}
<1>1. /\ pc[d] = "read" /\ pc' = pc /\ pc[d] \in Running
      /\ attempt' = attempt /\ exec' = exec /\ trace' = trace /\ reply' = reply
      /\ child'[d].script = child[d].script
  BY ChildLeaves
<1>2. PICK q, r, steps, at, L : /\ q = child[d].out /\ r = reply[d] /\ steps = child[d].script.steps
                             /\ at = child[d].at /\ L = S
  OBVIOUS
<1>3. /\ child'[d].at = at + 1 /\ child'[d].out = Append(q, steps[at + 1])
      /\ at < Len(steps) /\ steps[at + 1].do \in Lines
  BY <1>2 DEF ChildPrints, AtStep, Doing, Shapes, ChildFields
<1>4. /\ at \in Nat /\ Len(steps) \in Nat /\ q \in Seq(L) /\ Tells(steps, at, q, r)
  BY <1>1, <1>2, RunningFacts DEF Telling, Tale, Streamed
<1>5. steps[at + 1] \in L
  <2>1. at + 1 \in DOMAIN steps
    BY <1>1, <1>2, <1>3, <1>4, RunningFacts
  <2> QED
    BY <1>2, <1>3, <2>1 DEF Steps
<1>6. Streamed(d)'
  <2>1. Tells(steps, at + 1, Append(q, steps[at + 1]), r)
    BY <1>4, <1>5, TellsPrint
  <2>2. Append(q, steps[at + 1]) \in Seq(L)
    BY <1>4, <1>5
  <2>3. reply[d] \in Seq({s.what : s \in Steps(child[d].script)})
    BY <1>1 DEF Telling, Tale, Streamed
  <2> QED
    BY <1>1, <1>2, <1>3, <2>1, <2>2, <2>3 DEF Streamed
<1>7. TraceFollows(d)'
  <2>1. TraceFollows(d)
    BY DEF Telling, Tale
  <2>2. /\ Capture(d)' = Capture(d) /\ (Traced(d)' <=> Traced(d)) /\ (HasSink(d)' <=> HasSink(d))
        /\ Session(d)' = Session(d)
    BY <1>1, SameTrace DEF Session
  <2>3. Count(steps, at + 1) = IF Counted(steps[at + 1]) THEN Count(steps, at) + 1 ELSE Count(steps, at)
    BY <1>4, CountNext
  <2>4. Count(Append(q, steps[at + 1]), Len(Append(q, steps[at + 1]))) =
          IF Counted(steps[at + 1]) THEN Count(q, Len(q)) + 1 ELSE Count(q, Len(q))
    BY <1>4, <1>5, CountAppend
  <2>5. Count(q, Len(q)) \in Nat
    BY <1>4, CountIsNatural
  <2>6. ASSUME NEW n \in Nat, Count(steps, at) = n + Count(q, Len(q))
        PROVE  Count(steps, at + 1) = n + Count(Append(q, steps[at + 1]), Len(Append(q, steps[at + 1])))
    BY <2>3, <2>4, <2>5, <2>6
  <2>7. ASSUME Traced(d), HasSink(d)
        PROVE  /\ trace[Capture(d)].lines \in Nat
               /\ Count(steps, at + 1) = trace[Capture(d)].lines
                    + Count(Append(q, steps[at + 1]), Len(Append(q, steps[at + 1])))
    BY <1>1, <1>2, <2>1, <2>6, <2>7 DEF TraceFollows
  <2> QED
    BY <1>1, <1>2, <1>3, <2>1, <2>2, <2>7 DEF TraceFollows
<1> QED
  BY <1>6, <1>7

\* Complaints and files are nothing the host reads from the stream.
LEMMA QuietTells ==
  ASSUME Shapes, Workplaces, Working, Telling, setup' = setup, NEW d \in Drive,
         ChildComplains(d) \/ ChildWrites(d)
  PROVE  Streamed(d)' /\ TraceFollows(d)'
<1>1. /\ pc[d] = "read" /\ pc' = pc /\ pc[d] \in Running
      /\ attempt' = attempt /\ exec' = exec /\ trace' = trace /\ reply' = reply
      /\ child'[d].script = child[d].script
  BY ChildLeaves
<1>2. /\ child'[d].at = child[d].at + 1 /\ child'[d].out = child[d].out
      /\ child[d].script.steps[child[d].at + 1].do \in {"err", "write"}
  BY DEF ChildComplains, ChildWrites, AtStep, Shapes, ChildFields
<1>3. child[d].at \in Nat
  BY <1>1, RunningFacts
<1>4. ~Told(child[d].script.steps[child[d].at + 1]) /\ ~Counted(child[d].script.steps[child[d].at + 1])
  BY <1>2 DEF Told, Counted, Lines
<1>5. Streamed(d)'
  <2>1. Streamed(d)
    BY DEF Telling, Tale
  <2> QED
    BY <1>1, <1>2, <1>3, <1>4, <2>1, TellsQuiet DEF Streamed
<1>6. TraceFollows(d)'
  <2>1. TraceFollows(d)
    BY DEF Telling, Tale
  <2>2. /\ Capture(d)' = Capture(d) /\ (Traced(d)' <=> Traced(d)) /\ (HasSink(d)' <=> HasSink(d))
        /\ Session(d)' = Session(d)
    BY <1>1, SameTrace DEF Session
  <2>3. Count(child[d].script.steps, child[d].at + 1) = Count(child[d].script.steps, child[d].at)
    BY <1>3, <1>4, CountNext
  <2> QED
    BY <1>1, <1>2, <2>1, <2>2, <2>3 DEF TraceFollows
<1> QED
  BY <1>5, <1>6

LEMMA ExitTells ==
  ASSUME Shapes, Workplaces, Working, Telling, setup' = setup, NEW d \in Drive, ChildExits(d)
  PROVE  Streamed(d)' /\ TraceFollows(d)'
<1>1. /\ pc[d] = "read" /\ pc' = pc /\ pc[d] \in Running
      /\ attempt' = attempt /\ exec' = exec /\ trace' = trace /\ reply' = reply
      /\ child'[d].script = child[d].script
  BY ChildLeaves
<1>2. child'[d].at = child[d].at /\ child'[d].out = child[d].out
  BY DEF ChildExits, Shapes, ChildFields
<1>3. /\ Capture(d)' = Capture(d) /\ (Traced(d)' <=> Traced(d)) /\ (HasSink(d)' <=> HasSink(d))
      /\ Session(d)' = Session(d)
  BY <1>1, SameTrace DEF Session
<1>4. Streamed(d) /\ TraceFollows(d)
  BY DEF Telling, Tale
<1>5. Streamed(d)'
  BY <1>1, <1>2, <1>4 DEF Streamed
<1>6. TraceFollows(d)'
  BY <1>1, <1>2, <1>3, <1>4 DEF TraceFollows
<1> QED
  BY <1>5, <1>6

\* The host goes on when the stream has ended.
LEMMA EndTells ==
  ASSUME Shapes, Workplaces, Working, Telling, setup' = setup, NEW d \in Drive,
         Wait(d) \/ Import(d) \/ Finish(d) \/ SettleReply(d) \/ Capturing(d)
  PROVE  Streamed(d)' /\ TraceFollows(d)'
<1>1. /\ pc[d] \in Running /\ pc[d] # "launch"
      /\ attempt' = attempt /\ exec' = exec /\ reply' = reply /\ child' = child
  BY DEF Wait, Import, Finish, SettleReply, Capturing, Goto, Running, tries, talk, run
<1>2. /\ Capture(d)' = Capture(d) /\ (Traced(d)' <=> Traced(d)) /\ (HasSink(d)' <=> HasSink(d))
      /\ Session(d)' = Session(d) /\ Verdict(d)' = Verdict(d)
  BY <1>1, SameTrace DEF Session, Verdict, Succeeded
<1>3. Streamed(d) /\ TraceFollows(d)
  BY DEF Telling, Tale
<1>4. Streamed(d)'
  BY <1>1, <1>3 DEF Streamed
<1>5. TraceFollows(d)'
  <2>1. SUFFICES ASSUME Traced(d) PROVE TraceFollows(d)'
    BY <1>2 DEF TraceFollows
  <2>2. /\ Capture(d) \in DOMAIN trace /\ DOMAIN trace[Capture(d)] = TraceFields
        /\ Traces(d) = Capture(d)
    BY <1>1, <1>3, <2>1, RunningFacts DEF TraceFollows, Shapes
  <2>3. CASE Wait(d)
    <3>1. pc'[d] = (IF HasSink(d) THEN "import" ELSE "finish") /\ pc[d] = "read" /\ trace' = trace
      BY <2>1, <2>3 DEF Wait, Goto, Shapes
    <3> QED
      BY <1>1, <1>2, <1>3, <2>1, <3>1 DEF TraceFollows
  <2>4. CASE Import(d)
    <3>1. /\ pc'[d] = "finish" /\ pc[d] = "import"
          /\ trace' = [trace EXCEPT ![Capture(d)].imported = trace[Capture(d)].lines]
      BY <2>2, <2>4 DEF Import, Imported, Goto, Shapes
    <3>2. /\ Capture(d) \in DOMAIN trace' /\ trace'[Capture(d)].imported = trace[Capture(d)].lines
          /\ trace'[Capture(d)].lines = trace[Capture(d)].lines
          /\ trace'[Capture(d)].session = trace[Capture(d)].session
      BY <2>2, <3>1 DEF TraceFields
    <3> QED
      BY <1>1, <1>2, <1>3, <2>1, <3>1, <3>2 DEF TraceFollows
  <2>5. CASE Finish(d)
    <3>1. /\ pc'[d] = "settle" /\ pc[d] = "finish"
          /\ trace' = [trace EXCEPT ![Capture(d)].status = Verdict(d)]
      BY <2>2, <2>5 DEF Finish, Closed, Goto, Shapes
    <3>2. /\ Capture(d) \in DOMAIN trace' /\ trace'[Capture(d)].status = Verdict(d)
          /\ trace'[Capture(d)].lines = trace[Capture(d)].lines
          /\ trace'[Capture(d)].imported = trace[Capture(d)].imported
          /\ trace'[Capture(d)].session = trace[Capture(d)].session
      BY <2>2, <3>1 DEF TraceFields
    <3> QED
      BY <1>1, <1>2, <1>3, <2>1, <3>1, <3>2 DEF TraceFollows
  <2>6. CASE SettleReply(d)
    <3>1. pc'[d] = "judge" /\ pc[d] = "settle" /\ trace' = trace /\ Verdict(d) = "completed"
      BY <2>6 DEF SettleReply, Goto, Shapes, Verdict
    <3> QED
      BY <1>1, <1>2, <1>3, <2>1, <3>1 DEF TraceFollows
  <2>7. CASE Capturing(d)
    <3>1. pc'[d] = "capture" /\ pc[d] = "judge" /\ trace' = trace
      BY <2>7 DEF Capturing, Goto, Shapes, run
    <3> QED
      BY <1>1, <1>2, <1>3, <2>1, <3>1 DEF TraceFollows
  <2> QED
    BY <2>3, <2>4, <2>5, <2>6, <2>7
<1> QED
  BY <1>4, <1>5

LEMMA AdvanceTells ==
  ASSUME Shapes, Workplaces, Working, Telling, setup' = setup, NEW d \in Drive, Advances(d)
  PROVE  Tale(d)'
<1>1. ~result'[d].ok
  <2>1. Walks(d)
    BY AdvancesWalk
  <2> QED
    BY <2>1 DEF Walks, Workplaces, Placed
<1>2. SUFFICES Streamed(d)' /\ TraceFollows(d)'
  BY <1>1 DEF Tale, OwnAnswer, OwnTrace
<1>3. CASE pc'[d] \notin Running \cup {"launch"}
  BY <1>1, <1>3, NoTale DEF Tale
<1>4. CASE Configure(d)
  <2>1. pc'[d] = "launch" => ~Traced(d)
    BY <1>4 DEF Configure, Goto, Shapes
  <2>2. pc'[d] \in {"register", "launch"} /\ (Traced(d)' <=> Traced(d))
    BY <1>4 DEF Configure, Goto, Shapes, Traced
  <2> QED
    BY <2>1, <2>2 DEF Streamed, TraceFollows, Running
<1>5. CASE Begin(d) \/ Ask(d) \/ Retry(d) \/ AskAgain(d)
  <2>1. pc'[d] \in {"ask", "create", "exec"}
    BY <1>5 DEF Begin, Ask, Retry, AskAgain, Goto, Shapes
  <2> QED
    BY <1>3, <2>1 DEF Running
<1>6. CASE Register(d) \/ Launch(d) \/ ReadLine(d)
  BY <1>6, RegisterTells, LaunchTells, ReadTells
<1>7. CASE Wait(d) \/ Import(d) \/ Finish(d) \/ SettleReply(d) \/ Capturing(d)
  BY <1>7, EndTells
<1>8. CASE ChildPrints(d) \/ ChildComplains(d) \/ ChildExits(d)
  BY <1>8, PrintTells, QuietTells, ExitTells
<1> QED
  BY <1>4, <1>5, <1>6, <1>7, <1>8 DEF Advances

LEMMA StepTells ==
  ASSUME Shapes, Workplaces, Working, Telling, setup' = setup, NEW d \in Drive,
         Host(d) \/ Cancel(d) \/ Subprocess(d)
  PROVE  Telling'
<1>1. Drops(d) \/ Backs(d) \/ Succeeds(d) \/ Makes(d) \/ Advances(d) \/ ChildWrites(d)
  BY StepIs
<1>2. \A e \in Drive : e # d => Tale(e)'
  BY <1>1, StepsLeaveOthers, TracesStay, OthersTell
<1>3. CASE Drops(d)
  <2>1. PICK class : Leave(d, Failed(class))
    BY <1>3 DEF Drops
  <2>2. pc'[d] = "done" /\ ~result'[d].ok
    BY <2>1 DEF Leave, Failed, Shapes
  <2> QED
    BY <1>2, <2>2, NoTale DEF Telling, Running
<1>4. CASE Backs(d)
  <2>1. pc'[d] = "backoff" /\ ~result'[d].ok
    BY <1>4 DEF Backs, Shapes, Workplaces, Placed, Ends
  <2> QED
    BY <1>2, <2>1, NoTale DEF Telling, Running
<1>5. CASE Makes(d)
  <2>1. pc'[d] \notin Running \cup {"launch"}
    BY <1>5 DEF Makes, Begin, Create, MakeDir, Stage, DockerRuns, StartContainer, TakeContainer,
       QueryContainer, RunSetup, Goto,
       Running, Shapes
  <2>2. ~result'[d].ok
    BY <1>5 DEF Makes, Begin, Create, MakeDir, Stage, DockerRuns, StartContainer, TakeContainer,
       QueryContainer, RunSetup, Goto,
       run, Workplaces, Placed
  <2> QED
    BY <1>2, <2>1, <2>2, NoTale DEF Telling
<1>6. CASE ChildWrites(d)
  <2>1. ~result'[d].ok
    <3>1. pc[d] \in Running /\ result' = result
      BY <1>6, ChildLeaves
    <3> QED
      BY <3>1, RunningFacts
  <2>2. Streamed(d)' /\ TraceFollows(d)'
    BY <1>6, QuietTells
  <2> QED
    BY <1>2, <2>1, <2>2 DEF Telling, Tale, OwnAnswer, OwnTrace
<1> QED
  BY <1>1, <1>2, <1>3, <1>4, <1>5, <1>6, AnswerTells, AdvanceTells DEF Telling

-----------------------------------------------------------------------------
(* What stays true                                                         *)

Solid == Shapes /\ Workplaces /\ Working

LEMMA SolidInit == Init => Solid
<1>1. ASSUME Init, NEW d \in Drive
      PROVE  Following(d) /\ OwnFiles(d) /\ Written(d) /\ OwnCapture(d)
  <2>1. pc[d] = "idle" /\ box[d] = NoBox /\ ~result[d].ok
    BY <1>1 DEF Init, BoxesInit, ExecInit, NoResult
  <2> QED
    BY <2>1 DEF Following, OwnFiles, Written, OwnCapture, Running
<1> QED
  BY <1>1, ShapesInit, WorkplacesInit DEF Solid, Working

LEMMA SolidStep == Solid /\ [Next]_vars => Solid'
<1> SUFFICES ASSUME Solid, [Next]_vars PROVE Solid'
  OBVIOUS
<1>1. Shapes /\ Workplaces /\ Working
  BY DEF Solid
<1>2. CASE UNCHANGED vars
  <2>1. /\ UNCHANGED <<setup, pc, seq, disk, box, containers, orphans, strays, trace, result>>
        /\ UNCHANGED <<asks, attempt, exec, child, reply, tail>>
    BY <1>2 DEF vars, boxes, tries, talk
  <2>2. Shapes'
    BY <1>1, <2>1 DEF Shapes
  <2>3. Workplaces'
    BY <1>1, <2>1, WriteKeepsPlaces
  <2>4. ASSUME NEW e \in Drive
        PROVE  Following(e)' /\ OwnFiles(e)' /\ Written(e)' /\ OwnCapture(e)'
    <3>1. /\ Following(e) /\ OwnFiles(e) /\ Written(e) /\ OwnCapture(e)
          /\ Flag(e) # "read-only" /\ pc[e] \in Running => box[e] # NoBox
      BY <1>1, WritersHaveBoxes DEF Working
    <3> QED
      BY <2>1, <3>1, WorkStays
  <2> QED
    BY <2>2, <2>3, <2>4 DEF Solid, Working
<1>3. ASSUME NEW d \in Drive, (Host(d) \/ Cancel(d) \/ Subprocess(d)) /\ UNCHANGED setup
      PROVE  Solid'
  <2>1. \/ Drops(d) \/ Backs(d) \/ Succeeds(d) \/ Makes(d) \/ Advances(d) \/ ChildWrites(d)
    BY <1>3, StepIs
  <2>2. Shapes'
    BY <1>1, <1>3, <2>1, TracesStay, StepShapes
  <2> QED
    BY <1>1, <1>3, <2>1, <2>2, StepKeepsPlaces, StepKeepsWork DEF Solid
<1>4. CASE StrayWrites /\ UNCHANGED setup
  BY <1>1, <1>4, StrayKeepsSolid DEF Solid
<1>5. CASE OrphanEnds /\ UNCHANGED setup
  BY <1>1, <1>5, OrphanKeepsSolid DEF Solid
<1> QED
  BY <1>2, <1>3, <1>4, <1>5 DEF Next, Finished

\* The inductive invariant of the workspaces and of the work in them.
THEOREM DrivesAreSolid == Spec => []Solid
<1> QED
  BY SolidInit, SolidStep, PTL DEF Spec

\* A capture holds seeds and files of the drive's own sessions, whatever other
\* drives and sessions that outlived their attempt do meanwhile, and all that
\* the answering session wrote.
THEOREM CapturesAreOwn == Spec => []CaptureIsOwn
<1>1. Solid => CaptureIsOwn
  BY DEF Solid, Working, OwnCapture, CaptureIsOwn
<1> QED
  BY <1>1, DrivesAreSolid, PTL

\* No two drives have one workspace.  A drive that is over has no codex process any
\* more; its directory only if nothing owned it yet or a command of a killed
\* session is at work in it; its container only if it was dropped while docker run
\* started it, and a helper process only if it was dropped while it waited for one.
THEOREM NothingIsLeft == Spec => []NothingLeft
<1>1. ASSUME Solid PROVE NothingLeft
  <2>1. Workplaces
    BY <1>1 DEF Solid
  <2>2. \A d \in Drive : pc[d] = "done" => ~child[d].up
    BY <2>1 DEF Workplaces, Placed
  <2>3. ASSUME NEW dir \in DOMAIN disk
        PROVE  \E d \in Drive :
                 /\ box[d] = dir
                 /\ pc[d] = "done" => BrokenOff(d) \/ \E s \in strays : s.drive = d
    <3>1. PICK d \in Drive : box[d] = dir
      BY <2>1 DEF Workplaces
    <3>2. dir # NoBox
      BY <2>1 DEF Workplaces, NoBox
    <3> QED
      BY <2>1, <3>1, <3>2 DEF Workplaces, Placed
  <2>4. ASSUME NEW dir \in containers
        PROVE  \E d \in Drive : box[d] = dir /\ (pc[d] = "done" => BrokenOff(d) /\ Cancelled(d))
    BY <2>1 DEF Workplaces, Placed
  <2>5. \A s \in strays : InContainer(s.drive) => pc[s.drive] # "done"
    BY <2>1 DEF Workplaces
  <2>6. \A o \in orphans : Cancelled(o.drive)
    BY <2>1 DEF Workplaces
  <2>7. \A c, d \in Drive : box[c] = box[d] => c = d \/ box[c] = NoBox
    BY <2>1 DEF Workplaces
  <2> QED
    BY <2>2, <2>3, <2>4, <2>5, <2>6, <2>7 DEF NothingLeft
<1> QED
  BY <1>1, DrivesAreSolid, PTL

\* What was told stays told.
LEMMA TellingInit == Init => Telling
<1>1. ASSUME Init, NEW d \in Drive PROVE Tale(d)
  <2>1. pc[d] = "idle" /\ ~result[d].ok
    BY <1>1 DEF Init, ExecInit, NoResult
  <2> QED
    BY <2>1 DEF Tale, Streamed, TraceFollows, OwnAnswer, OwnTrace, Running
<1> QED
  BY <1>1 DEF Telling

LEMMA TellingStep == Solid /\ Telling /\ [Next]_vars => Telling'
<1> SUFFICES ASSUME Solid, Telling, [Next]_vars PROVE Telling'
  OBVIOUS
<1>1. Shapes /\ Workplaces /\ Working
  BY DEF Solid
<1>2. ASSUME UNCHANGED <<setup, pc, tries, child, talk, trace, result>> PROVE Telling'
  BY <1>2, TaleStays DEF Telling, tries, talk
<1>3. CASE UNCHANGED vars
  BY <1>2, <1>3 DEF vars
<1>4. CASE StrayWrites /\ UNCHANGED setup
  BY <1>2, <1>4 DEF StrayWrites
<1>6. CASE OrphanEnds /\ UNCHANGED setup
  <2>1. PICK d \in Drive : Cancelled(d) /\ OtherTraces(d)
    BY <1>1, <1>6, OrphanTraces
  <2>2. UNCHANGED <<pc, attempt, exec, child, reply, result>>
    BY <1>6 DEF OrphanEnds, tries, talk
  <2>3. Tale(d)'
    BY <2>1, <2>2, NoTale DEF Cancelled, Running
  <2>4. ASSUME NEW e \in Drive, e # d PROVE Tale(e)'
    <3>1. Tale(e) /\ Capture(e)[1] # d
      BY <2>4 DEF Telling, Capture
    <3>2. Capture(e) \in DOMAIN trace =>
            Capture(e) \in DOMAIN trace' /\ trace'[Capture(e)] = trace[Capture(e)]
      BY <2>1, <3>1 DEF OtherTraces
    <3> QED
      BY <1>6, <2>2, <3>1, <3>2, TaleStays
  <2> QED
    BY <2>3, <2>4 DEF Telling
<1>5. ASSUME NEW d \in Drive, (Host(d) \/ Cancel(d) \/ Subprocess(d)) /\ UNCHANGED setup
      PROVE  Telling'
  BY <1>1, <1>5, StepTells
<1> QED
  BY <1>3, <1>4, <1>5, <1>6 DEF Next, Finished

\* The inductive invariant of what passes from a session to its answer and its
\* trace child.
THEOREM DrivesTell == Spec => []Telling
<1> QED
  BY TellingInit, TellingStep, DrivesAreSolid, PTL DEF Spec

\* The outputs of a drive are the last object that its session printed, however
\* far the session ran ahead of the reader, and fit the declared schema.
THEOREM AnswersAreLast == Spec => []AnswerIsLast
<1>1. Telling => AnswerIsLast
  BY DEF Telling, Tale, OwnAnswer, AnswerIsLast
<1> QED
  BY <1>1, DrivesTell, PTL

\* The trace child of a drive that answered is completed, names the session that
\* answered and has imported the whole of its stream.
THEOREM TracesTellAnswers == Spec => []TraceTellsAnswer
<1>1. Telling => TraceTellsAnswer
  BY DEF Telling, Tale, OwnTrace, TraceTellsAnswer
<1> QED
  BY <1>1, DrivesTell, PTL
=============================================================================
