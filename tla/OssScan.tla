------------------------------- MODULE OssScan -------------------------------
(***************************************************************************)
(* The programs of the oss_code workload (oss_code.rs): `expand` picks the *)
(* source directories to audit, `aggregate` folds the audits of a model    *)
(* into a report.                                                          *)
(*                                                                         *)
(* A directory is known by its place in the order of the module ids, with  *)
(* the names on its path and its source files by name; a file is a stub    *)
(* (__init__.py, mod.rs) or not, and has the lines of its excerpt, none    *)
(* when it is blank or cannot be read.  A program yields the set of the    *)
(* results it may return, empty when it returns an error.                  *)
(***************************************************************************)
EXTENDS Integers, FiniteSets, FiniteSetsExt, Sequences, SequencesExt

CONSTANT SkipDirs  \* names of directories that are not looked into

AtMost(seq, n) == SubSeq(seq, 1, Min({n, Len(seq)}))
HowMany(seq, Test(_)) == Cardinality({i \in DOMAIN seq : Test(seq[i])})

\* The elements of a set in an order: at a place is the one that has as many
\* before it as the place.
Sorted(S, Before(_, _)) ==
  [i \in 1 .. Cardinality(S) |-> CHOOSE x \in S : Cardinality({y \in S : Before(y, x)}) = i - 1]
Ascending(S) == Sorted(S, LAMBDA a, b : a < b)

\* What a map collects for an item whose actor failed.
Lost == [kind |-> "lost"]

-----------------------------------------------------------------------------
(* expand                                                                  *)

Walked(repo) == {d \in repo.dirs : Range(d.path) \cap SkipDirs = {}}
Meaningful(d) == \E i \in DOMAIN d.files : ~d.files[i].stub

\* The cap on the files of a module counts the blank ones.
Excerpts(d, cfg) == {i \in 1 .. Min({cfg.maxFiles, Len(d.files)}) : d.files[i].lines > 0}
Loc(d, cfg) == MapThenSumSet(LAMBDA i : d.files[i].lines, Excerpts(d, cfg))

Discovered(repo, cfg) ==
  {[repo |-> repo.name, id |-> d.id, loc |-> Loc(d, cfg)] :
     d \in {w \in Walked(repo) : Meaningful(w) /\ Excerpts(w, cfg) # {}}}

\* cfg.only holds the set of modules asked for, if one is given.
Matched(repo, cfg) ==
  {m \in Discovered(repo, cfg) :
     m.loc >= cfg.minLoc /\ \A only \in cfg.only : <<m.repo, m.id>> \in only}

Larger(a, b) == a.loc > b.loc \/ (a.loc = b.loc /\ a.id < b.id)
BySize(modules) == Sorted(modules, Larger)
Kept(repo, cfg) ==
  LET sorted == BySize(Matched(repo, cfg))
  IN IF cfg.perRepo = 0 THEN sorted ELSE AtMost(sorted, cfg.perRepo)

\* Of repositories of one name the last one stays.
ByRepo(cfg) ==
  [n \in {cfg.repos[i].name : i \in DOMAIN cfg.repos} |->
     Kept(cfg.repos[Max({i \in DOMAIN cfg.repos : cfg.repos[i].name = n})], cfg)]

\* The place a module has in its repository, and the name of the repository.
Turns(byRepo) == UNION {{<<i, n>> : i \in DOMAIN byRepo[n]} : n \in DOMAIN byRepo}
Sooner(s, t) == s[1] < t[1] \/ (s[1] = t[1] /\ s[2] < t[2])
InTurns(turns) == Sorted(turns, Sooner)

\* Faulty variant: one repository after the other.
DealtByRepo(byRepo) ==
  LET order == Sorted(Turns(byRepo), LAMBDA s, t : Sooner(<<s[2], s[1]>>, <<t[2], t[1]>>))
  IN [k \in DOMAIN order |-> byRepo[order[k][2]][order[k][1]]]

\* In turns: the first module of every repository, then the second ones...
Dealt(byRepo) ==
  LET order == InTurns(Turns(byRepo))
  IN [k \in DOMAIN order |-> byRepo[order[k][2]][order[k][1]]]

\* repo_roots: an empty list stands for one that is malformed, too.
NoRepos(cfg) == cfg.repos = <<>>
\* string_set_arg: a filter has to name a module.
BlankFilter(cfg) == {} \in cfg.only

Unreadable(repo) == ~repo.isDir \/ \E d \in Walked(repo) : ~d.readable

\* Modules asked for that no repository has; one may have and still lose it to
\* the caps, or be replaced by another repository of its name.
Missing(cfg) ==
  UNION cfg.only \ {<<m.repo, m.id>> : m \in UNION {Matched(cfg.repos[i], cfg) : i \in DOMAIN cfg.repos}}

OssRefused(cfg) ==
  \/ NoRepos(cfg) \/ BlankFilter(cfg)
  \/ \E i \in DOMAIN cfg.repos : Unreadable(cfg.repos[i])
  \/ Missing(cfg) # {}

OssExpansions(cfg) == IF OssRefused(cfg) THEN {} ELSE {AtMost(Dealt(ByRepo(cfg)), cfg.limit)}

-----------------------------------------------------------------------------
(* aggregate: an audit has an overall score, and the sets of the scores it *)
(* gives to the load-bearing criteria and to the others.                   *)

InRange(audit) == {audit.score} \cup audit.bearing \cup audit.other \subseteq 1 .. 10

Calibrated(score, hold, label) ==
  CASE hold /\ score <= 3 -> "critical"
    [] ~(hold /\ score <= 3) /\ (hold \/ score < 5) -> "high"
    [] ~hold /\ score \in 5 .. 7 -> "medium"
    [] OTHER -> IF label = "medium" THEN "medium" ELSE "low"

\* Faulty variant: the model alone decides what is held.
AuditRowOnWord(audit) ==
  [id |-> audit.id, score |-> audit.score, hold |-> audit.hold,
   severity |-> Calibrated(audit.score, audit.hold, audit.label)]

\* A module is held on the word of the model or for a weak load-bearing score.
AuditRow(audit) ==
  LET hold == audit.hold \/ \E s \in audit.bearing : s <= 3
  IN [id |-> audit.id, score |-> audit.score, hold |-> hold,
      severity |-> Calibrated(audit.score, hold, audit.label)]

\* A reply that does not parse is kept as a failed audit.
MalformedRow(job) == [id |-> job.id, score |-> 1, hold |-> TRUE, severity |-> "critical"]

OssReport(jobs, scans) ==
  LET rows == [i \in DOMAIN scans |->
                 IF scans[i].kind = "audit" THEN AuditRow(scans[i]) ELSE MalformedRow(jobs[i])]
      holds == HowMany(rows, LAMBDA r : r.hold)
      lost == Max({0, Len(jobs) - Len(rows)})
      failed == holds + lost
  IN [total |-> Len(jobs), rows |-> rows, passed |-> Max({0, Len(jobs) - failed}),
      failed |-> failed, lost |-> lost,
      malformed |-> HowMany(scans, LAMBDA s : s.kind # "audit"),
      verdict |-> IF failed = 0 THEN "pass" ELSE "fail"]

\* A score out of range is an error of the program, whatever the others say.
OssReports(jobs, scans) ==
  IF \E i \in DOMAIN scans : scans[i].kind = "audit" /\ ~InRange(scans[i])
  THEN {} ELSE {OssReport(jobs, scans)}
=============================================================================
