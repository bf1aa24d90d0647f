---- MODULE MCQualityScan ----
(* Inputs of each workload small enough for TLC, chosen for the corners of *)
(* its programs; names of files and directories are numbers.               *)
EXTENDS QualityScan

Vendor == 90
Public == 91
MCSkipDirs == {Vendor}
MCHiddenDirs == {Public}
MCDimensions == <<"correctness", "security", "docs">>
MCDiscount == <<1000, 631, 500, 431, 387, 356, 333, 315>>

\* min_success of the example specs, in percent.
MCMinSuccess ==
  [quality |-> 100, oss |-> 0, docs |-> 80, blog |-> 85, trace |-> 100, obliq |-> 80]

\* ---- oss_code ----
File(lines) == [stub |-> FALSE, lines |-> lines]
Stub == [stub |-> TRUE, lines |-> 9]
Dir(id, path, files) == [id |-> id, path |-> path, files |-> files, readable |-> TRUE]
Repo(name, dirs) == [name |-> name, isDir |-> TRUE, dirs |-> dirs]
Big == Repo(1, {Dir(1, <<>>, <<File(5), File(0), File(9)>>), Dir(2, <<7>>, <<Stub, File(3)>>),
                Dir(3, <<7, 8>>, <<File(5)>>), Dir(4, <<Vendor>>, <<File(9)>>)})
Small == Repo(2, {Dir(1, <<>>, <<File(4)>>), Dir(2, <<7>>, <<Stub>>), Dir(3, <<8>>, <<File(0)>>)})
Locked == Repo(3, {[Dir(1, <<>>, <<File(4)>>) EXCEPT !.readable = FALSE]})
Gone == [Big EXCEPT !.isDir = FALSE]
Oss(repos, perRepo, limit, only) ==
  [workload |-> "oss",
   in |-> [repos |-> repos, maxFiles |-> 2, minLoc |-> 2, limit |-> limit, perRepo |-> perRepo, only |-> only]]
OssScans ==
  {Oss(repos, perRepo, limit, {}) :
     repos \in {<<Big>>, <<Big, Small>>, <<Small, [Big EXCEPT !.name = 2]>>, <<Big, Gone>>, <<Locked>>, <<>>},
     perRepo \in {0, 2}, limit \in {2, 3}}
  \cup {Oss(<<Big, Small>>, 1, 3, {only}) : only \in {{}, {<<1, 3>>, <<2, 1>>}, {<<1, 4>>}, {<<1, 1>>, <<1, 2>>}}}
Audits(job) ==
  {[kind |-> "audit", id |-> job.id, score |-> s, bearing |-> b, other |-> {5}, hold |-> h, label |-> "high"] :
     s \in {7, 11}, b \in {{3, 4}, {4}, {4, 11}}, h \in BOOLEAN}

\* ---- blogs, pages, traces ----
Md(path, name) == [path |-> path, name |-> name, mdx |-> TRUE, draft |-> FALSE, index |-> FALSE]
Index(path) == [Md(path, 0) EXCEPT !.index = TRUE]
Draft(f) == [f EXCEPT !.draft = TRUE]
Blog(dir, stray, files) ==
  [workload |-> "blog", in |-> [dir |-> dir, stray |-> stray, files |-> files]]
BlogScans ==
  {Blog("given", FALSE, files) :
     files \in {{}, {Md(<<>>, 1), Index(<<>>), Index(<<2>>), Draft(Md(<<>>, 3))},
                {Md(<<>>, 1), Index(<<1>>), Md(<<5>>, 1), Md(<<5>>, 2)},
                {Md(<<>>, 1), Draft(Index(<<4>>)), [Md(<<>>, 6) EXCEPT !.mdx = FALSE]}}}
  \cup {Blog("absent", FALSE, {}), Blog("given", TRUE, {Md(<<>>, 1)})}

Docs(dir, nav, limit, files) ==
  [workload |-> "docs",
   in |-> [dir |-> dir, nav |-> nav, listed |-> {1, 9}, limit |-> limit, files |-> files,
           ignore |-> [pages |-> {3}, dirs |-> {<<5>>}]]]
Site == {Md(<<>>, 1), Md(<<2>>, 2), Md(<<>>, 3), Md(<<5, 2>>, 4), Md(<<2, Public>>, 5), Md(<<>>, 6)}
DocsScans ==
  {Docs("given", nav, limit, Site) : nav \in {"none", "read", "broken"}, limit \in {{}, {2}}}
  \cup {Docs("missing", "none", {}, Site), Docs("given", "none", {}, {})}

Trace(path, name, parses) == [path |-> path, name |-> name, trace |-> TRUE, parses |-> parses]
TraceScans ==
  {[workload |-> "trace", in |-> [dir |-> "given", files |-> files]] :
     files \in {{Trace(<<>>, 1, TRUE), Trace(<<3>>, 2, FALSE)}, {Trace(<<>>, 1, TRUE), Trace(<<>>, 2, FALSE)},
                {Trace(<<>>, 1, TRUE), Trace(<<>>, 2, TRUE)}}}

QualityScans ==
  {[workload |-> "quality", in |-> [target |-> t, stray |-> s]] :
     t \in {"absent", "blank", "given"}, s \in BOOLEAN}

\* ---- obliq: documents 1 to 6, of which 7 is not in the corpus ----
Lexical == [d \in 1 .. 6 |-> IF d <= 2 THEN 0 ELSE IF d <= 4 THEN 1 ELSE 2]
Obliq(mode, scope, size, max, gold) ==
  [workload |-> "obliq",
   in |-> [present |-> TRUE, mode |-> mode, scope |-> scope, poolSize |-> size, maxQueries |-> max,
           k |-> 2, corpus |-> 1 .. 6, queries |-> {1, 2},
           golds |-> [q \in {1, 2} |-> IF q = 1 THEN gold ELSE {1}],
           excluded |-> [q \in {1, 2} |-> IF q = 1 THEN {5} ELSE {2}],
           lexical |-> [q \in {1, 2} |-> Lexical]]]
ObliqScans ==
  {Obliq(mode, "default", size, 1, gold) :
     mode \in {"verify", "hard_verify", "retrieve", "retrieve_hard"}, size \in {0, 3},
     gold \in {{1, 3, 4}, {7}, {}, {5, 6}}}
  \cup {Obliq("verify", "full", 2, 2, {1, 3}), Obliq("verify", "default", 4, 1, {1, 3, 4}),
        Obliq("retrieve", "pool", 2, 2, {1, 6}),
        [Obliq("verify", "default", 2, 1, {}) EXCEPT !.in.present = FALSE]}

Rankings(job) ==
  LET golds == SelectSeq(job.cands, LAMBDA d : d \in job.golds)
      others == SelectSeq(job.cands, LAMBDA d : d \notin job.golds)
  IN {job.cands, golds \o others, others \o golds, others, golds \o golds, <<>>}

MCReplies(s, job) ==
  CASE s.workload = "quality" ->
         {[kind |-> "verdict", pass |-> p, complete |-> TRUE] : p \in BOOLEAN}
         \cup {[kind |-> "echo", complete |-> c] : c \in BOOLEAN}
    [] s.workload = "oss" -> Audits(job) \cup {[kind |-> "junk"]}
    [] s.workload = "blog" ->
         {[kind |-> "audit", blocker |-> b, score |-> x] : b \in BOOLEAN, x \in {5, 6}}
         \cup {[kind |-> "echo"], [kind |-> "junk"]}
    [] s.workload = "docs" ->
         {[kind |-> "page", blocker |-> b, score |-> x] : b \in BOOLEAN, x \in {10, 100, 500, 1010, 6000}}
         \cup {[kind |-> "junk"]}
    [] s.workload = "trace" ->
         {[kind |-> "note", blocker |-> b] : b \in BOOLEAN} \cup {[kind |-> "junk"]}
    [] s.workload = "obliq" ->
         {[kind |-> "ranking", id |-> id, ranked |-> r] : id \in {job.id, 0}, r \in Rankings(job)}
         \cup {[kind |-> "echo", id |-> job.id, job |-> job]}

AllScans == QualityScans \cup OssScans \cup BlogScans \cup DocsScans \cup TraceScans \cup ObliqScans
====
