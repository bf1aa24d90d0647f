----------------------------- MODULE Workspaces -----------------------------
(***************************************************************************)
(* The execution workspaces of jesterky-sandbox: a fresh directory for     *)
(* each drive, seeded, set up, read back by a capture, and deleted when    *)
(* the sandbox is dropped.  A local sandbox runs commands on the host; a   *)
(* docker one mounts the directory in a container that lives as long as    *)
(* the sandbox.                                                            *)
(*                                                                         *)
(* A file is its path and who wrote it.  Any step of a creation may fail   *)
(* or be cancelled: the awaits between the steps are where it is.  A       *)
(* helper process that such a step waits for is not killed with the drive  *)
(* (kill_on_drop is set for codex alone).                                  *)
(***************************************************************************)
EXTENDS Naturals, Sequences

CONSTANTS
  Drive,    \* the calls of ModelActor::drive, each with an address of its own
  Setups,   \* the functions from drives to configurations (see CodexExec)
  Seeds,    \* the paths that seed.files_input and seed.copy_from stage
  Globs     \* the paths that capture.globs select, outside target/ and .git/

ASSUME SetupAssumption ==
  \A s \in Setups : \A d \in Drive : s[d].backend \in {"none", "local", "docker"}

VARIABLES
  setup,      \* the configuration of each drive
  pc,         \* where each drive is
  seq,        \* the SEQ counters of unique_workspace_dir and unique_mount_dir
  disk,       \* the workspaces on disk: directory -> path -> writer
  box,        \* the directory made for each drive, until it is deleted
  containers, \* the directories mounted in a running container
  orphans     \* the helper processes that cancelled drives were waiting for

boxes == <<seq, disk, box, containers, orphans>>

NoBox == <<"none", 0>>
Seed == <<"seed", 0>>
NoFiles == [p \in {} |-> Seed]

Put(f, x, v) == [y \in DOMAIN f \cup {x} |-> IF y = x THEN v ELSE f[y]]
Without(f, x) == [y \in DOMAIN f \ {x} |-> f[y]]

Goto(d, from, to) ==
  /\ pc[d] = from
  /\ pc' = [pc EXCEPT ![d] = to]

Backend(d) == setup[d].backend
Mode(d) == setup[d].mode

\* A docker sandbox runs commands by docker exec, and is the confinement itself.
InContainer(d) == Backend(d) = "docker"

BoxesInit ==
  /\ seq = [local |-> 0, docker |-> 0]
  /\ disk = [x \in {} |-> NoFiles]
  /\ box = [d \in Drive |-> NoBox]
  /\ containers = {}
  /\ orphans = {}

-----------------------------------------------------------------------------
(* create                                                                  *)

\* Faulty variant: the number is not taken.
StaleName(b) == seq' = seq

\* A process-wide counter names the directory.
TakeName(b) == seq' = [seq EXCEPT ![b] = @ + 1]

\* create_dir_all is content with a directory that exists.
MakeDir(d) ==
  LET b == Backend(d)
      dir == <<b, seq[b]>>
  IN /\ Goto(d, "create", "stage")
     /\ TakeName(b)
     /\ disk' = IF dir \in DOMAIN disk THEN disk ELSE Put(disk, dir, NoFiles)
     /\ box' = [box EXCEPT ![d] = dir]
     /\ UNCHANGED <<containers, orphans>>

\* Files of the inputs, then copied directories: what is there is overwritten.
Seeded(f) == [p \in DOMAIN f \cup Seeds |-> IF p \in Seeds THEN Seed ELSE f[p]]

Stage(d) ==
  /\ Goto(d, "stage", IF InContainer(d) THEN "start" ELSE "setup")
  /\ disk' = [disk EXCEPT ![box[d]] = Seeded(@)]
  /\ UNCHANGED <<seq, box, containers, orphans>>

\* The container runs, and docker run tells so; nothing owns it yet.
StartContainer(d) ==
  /\ Goto(d, "start", "started")
  /\ containers' = containers \cup {box[d]}
  /\ UNCHANGED <<seq, disk, box, orphans>>

\* The output of docker run is read, and from here on there is a DockerSandbox.
TakeContainer(d) ==
  /\ Goto(d, "started", "query")
  /\ UNCHANGED boxes

\* The environment of the container is read by a docker exec.
QueryContainer(d) ==
  /\ Goto(d, "query", "setup")
  /\ UNCHANGED boxes

RunSetup(d) ==
  /\ Goto(d, "setup", "ask")
  /\ UNCHANGED boxes

Creating(d) == pc[d] \in {"create", "stage", "start", "started", "query", "setup"}

\* A LocalSandbox is built after the last step that can fail, a DockerSandbox
\* when docker run has ended well.
Owned(d) ==
  IF Creating(d) THEN InContainer(d) /\ pc[d] \in {"query", "setup"} ELSE box[d] # NoBox

-----------------------------------------------------------------------------
(* collect and drop                                                        *)

\* A capture never looks into target/ and .git/.
Matches(p) == p \in Globs

Collected(d) == [p \in {q \in DOMAIN disk[box[d]] : Matches(q)} |-> disk[box[d]][p]]

\* Faulty variant: the mount of a container is left.
RemoveLocalDir(d) == disk' = IF InContainer(d) THEN disk ELSE Without(disk, box[d])

RemoveDir(d) == disk' = Without(disk, box[d])

\* What dropping the future of the drive does.  A sandbox that exists is removed
\* with its container, as far as that goes: remove_dir_all gives up where a
\* process still puts files.  Of a creation that did not end the directory stays,
\* and the container, if it runs already.
DropBox(d, busy) ==
  \/ /\ Owned(d)
     /\ RemoveDir(d)
     /\ containers' = containers \ {box[d]}
     /\ box' = [box EXCEPT ![d] = NoBox]
  \/ /\ ~Owned(d) \/ busy
     /\ UNCHANGED <<disk, containers, box>>
=============================================================================
