------------------------------- MODULE Replay -------------------------------
(***************************************************************************)
(* A run, and the replay of its manifest: the CLI's replay_manifest drives *)
(* the same topology again with ReplayActor, which answers from the        *)
(* recorded outputs by address, and with a checkpoint store filled from    *)
(* the manifest.  The runner never adds to the manifest's checkpoints, so  *)
(* that store knows no session.                                            *)
(***************************************************************************)
EXTENDS Runner

VARIABLE tape   \* the manifest, and which of the two runs is on

replayVars == <<vars, tape>>

ReplayInit ==
  /\ Init
  /\ tape = [on |-> FALSE, events |-> {}, recorded |-> {}, ledger |-> <<>>]

Live == ~tape.on /\ Progress /\ UNCHANGED tape

\* The run has returned its manifest; the runner starts afresh from its args.
Rewind ==
  /\ ~tape.on /\ run.st = "done"
  /\ tape' = [on |-> TRUE, events |-> events, recorded |-> records, ledger |-> RootLed]
  /\ seqs' = StartSeqs /\ events' = StartEvents /\ records' = {}
  /\ fr' = <<>> /\ leds' = StartLedgers /\ nodeIo' = <<>>
  /\ active' = [l \in DOMAIN Permits |-> 0] /\ cancel' = FALSE
  /\ run' = StartRun
  /\ UNCHANGED wf

\* ReplayActor::drive
Answers(p) == {r \in tape.recorded : Addr(r) = <<Lane(p), fr[p].seq>>}

ReplayDrive(p) ==
  \/ \E r \in Answers(p) : ActorReplies(p, r.v)
  \/ Answers(p) = {} /\ ActorFails(p, ReplayMiss)

\* ManifestCheckpointStore::load finds nothing.
ReplayLoad(p) == ResumeLoaded(p, Null)

Replayed ==
  /\ tape.on
  /\ RunStep \/ \E p \in DOMAIN fr : FrameStep(p) \/ ReplayDrive(p) \/ ReplayLoad(p)
  /\ UNCHANGED <<wf, tape>>

Over == tape.on /\ run.st = "done" /\ UNCHANGED replayVars

ReplayNext == Live \/ Rewind \/ Replayed \/ Over

ReplaySpec == ReplayInit /\ [][ReplayNext]_replayVars

-----------------------------------------------------------------------------

ReplayOver == tape.on /\ run.st = "done"

\* Two streams are alike when they differ in the wording of errors only.
Errors == {"MapItemFailed", "WorkflowFailed"}
Alike(S, T) ==
  LET bare(X) == {[e EXCEPT !.pay = IF e.kind \in Errors THEN Null ELSE @] : e \in X}
  IN  bare(S) = bare(T)

\* Replay fidelity: whatever the interleaving of either run, the replay emits
\* the recorded stream, up to the messages of the failures, and leaves the
\* recorded ledger; every call it makes was recorded and is recorded again.
ReplayFaithful ==
  ReplayOver =>
    /\ Alike(events, tape.events)
    /\ RootLed = tape.ledger
    /\ \A r \in records : \E s \in tape.recorded : Addr(r) = Addr(s) /\ r.v = s.v

\* Fidelity as it is claimed: the replayed stream is the recorded stream.
ReplayIdentical == ReplayOver => events = tape.events
=============================================================================
