---------------------------- MODULE MCModelActor ----------------------------
(***************************************************************************)
(* Two drives at once: a full one that is configured in several ways, and  *)
(* a short one beside it that shares the host's counters and disk.         *)
(***************************************************************************)
EXTENDS ModelActor

Plain ==
  [backend |-> "none", mode |-> "read-only", capture |-> FALSE, schema |-> FALSE,
   native |-> TRUE, proxy |-> FALSE, traced |-> "off", badUrl |-> FALSE, badTools |-> FALSE]

LocalBox ==
  [Plain EXCEPT !.backend = "local", !.mode = "workspace-write", !.capture = TRUE]
DockerBox == [LocalBox EXCEPT !.backend = "docker"]

\* A route that is refused: the drive is over in three steps.
Refused == [Plain EXCEPT !.native = FALSE]

Beside(s, short) == [d \in Drive |-> IF d = "full" THEN s ELSE short]

MCSetups ==
  {Beside(LocalBox, [LocalBox EXCEPT !.capture = FALSE]),
   Beside(DockerBox, [DockerBox EXCEPT !.capture = FALSE]),
   Beside([LocalBox EXCEPT !.schema = TRUE, !.traced = "sink"], Refused),
   Beside([Plain EXCEPT !.traced = "on"], Refused),
   Beside([Plain EXCEPT !.native = FALSE, !.proxy = TRUE], Refused),
   Beside([DockerBox EXCEPT !.native = FALSE, !.proxy = TRUE], Refused),
   Beside([Plain EXCEPT !.traced = "on", !.badUrl = TRUE], Refused),
   Beside([Plain EXCEPT !.badTools = TRUE], Refused)}

S(do, what) == [do |-> do, what |-> what]
Script(code, steps) == [steps |-> steps, code |-> code]

\* An answer after a draft, an answer of the wrong shape, no text at all, a
\* rate limit, a stream that is not text, and too many complaints.
FullScripts ==
  {Script(0, <<S("say", "unfit"), S("write", "src"), S("say", "fit"), S("blank", ""), S("noise", "")>>),
   Script(0, <<S("write", "src"), S("write", "log"), S("say", "unfit")>>),
   Script(0, <<S("noise", "")>>),
   Script(1, <<S("err", "other"), S("log", "quota"), S("say", "prose")>>),
   Script(0, <<S("garble", ""), S("write", "src")>>),
   Script(1, <<S("err", "auth"), S("err", "other"), S("err", "other")>>)}

ShortScripts == {Script(0, <<S("write", "src"), S("say", "fit")>>)}

MCScripts(d) == IF d = "full" THEN FullScripts ELSE ShortScripts
=============================================================================
