----------------------------- MODULE QualityScan -----------------------------
(***************************************************************************)
(* A run of a quality workload: `expand` lists the jobs, a map asks an     *)
(* actor for an audit of each, `aggregate` makes the report, and some      *)
(* workloads record it.  The runner is module Runner; here its map is the  *)
(* settling of its items in any order and the gate on the share of them    *)
(* that succeeded.  The actors are external, and no schema is enforced on  *)
(* what they return.                                                       *)
(***************************************************************************)
EXTENDS CorpusScan, ObliqScan

CONSTANTS
  Scans,            \* the scans that may be asked for: a workload and its input
  Replies(_, _),    \* what the actor of a workload may return for a job
  MinSuccess        \* per workload, the percentage the gate of its map asks for

\* What the arguments of a scan and the files it reads give: names and ids are
\* places in an order, sizes are numbers, and what is listed is finite.
RepoInput(repo) ==
  /\ repo.name \in Nat /\ IsFiniteSet(repo.dirs)
  /\ \A d \in repo.dirs :
       /\ d.id \in Nat /\ d.files \in Seq(Range(d.files))
       /\ \A i \in DOMAIN d.files : d.files[i].lines \in Nat
OssInput(in) ==
  /\ {in.maxFiles, in.minLoc, in.limit, in.perRepo} \subseteq Nat
  /\ in.repos \in Seq(Range(in.repos)) /\ \A i \in DOMAIN in.repos : RepoInput(in.repos[i])
BlogInput(in) == IsFiniteSet(in.files) /\ \A f \in Posts(in.files) : Slug(f) \in Nat
ObliqInput(in) ==
  /\ {in.poolSize, in.maxQueries, in.k} \subseteq Nat /\ in.k <= Len(Discount)
  /\ in.corpus \subseteq Nat /\ IsFiniteSet(in.corpus)
  /\ in.queries \subseteq Nat /\ IsFiniteSet(in.queries)
  /\ \A q \in in.queries : \A d \in in.corpus : in.lexical[q][d] \in Nat

Workloads == {"quality", "oss", "docs", "blog", "trace", "obliq"}

ASSUME ScanAssumption ==
  \A s \in Scans :
    /\ s.workload \in Workloads
    /\ s.workload = "oss" => OssInput(s.in)
    /\ s.workload = "docs" => IsFiniteSet(s.in.files) /\ s.in.limit \subseteq Nat
    /\ s.workload = "blog" => BlogInput(s.in)
    /\ s.workload = "trace" => IsFiniteSet(s.in.files)
    /\ s.workload = "obliq" => ObliqInput(s.in)

\* The gates of quality_scan_oss_code.json and quality_scan_docs.json.
ASSUME GateAssumption == MinSuccess.oss = 0 /\ MinSuccess.docs \in 0 .. 80

VARIABLES
  scan,    \* the scan asked for
  phase,   \* "expand", "audit", "reduce", "record", "done" or "failed"
  jobs,    \* ledger.jobs
  audits,  \* what each item of the map has returned, if it has
  report,  \* ledger.summary, once there is one
  record   \* what is recorded of it

vars == <<scan, phase, jobs, audits, report, record>>

Unsettled == [kind |-> "unsettled"]
NoReport == [verdict |-> "none"]

Init ==
  /\ scan \in Scans
  /\ phase = "expand" /\ jobs = <<>> /\ audits = <<>> /\ report = NoReport /\ record = NoReport

Expansions ==
  CASE scan.workload = "quality" -> QualityExpansions(scan.in)
    [] scan.workload = "oss" -> OssExpansions(scan.in)
    [] scan.workload = "docs" -> DocsExpansions(scan.in)
    [] scan.workload = "blog" -> BlogExpansions(scan.in)
    [] scan.workload = "trace" -> TraceExpansions(scan.in)
    [] scan.workload = "obliq" -> ObliqExpansions(scan.in)

Reports ==
  CASE scan.workload = "quality" -> QualityReports(audits)
    [] scan.workload = "oss" -> OssReports(jobs, audits)
    [] scan.workload = "docs" -> DocsReports(jobs, audits)
    [] scan.workload = "blog" -> BlogReports(audits)
    [] scan.workload = "trace" -> TraceReports(audits)
    [] scan.workload = "obliq" -> ObliqReports(scan.in, audits)

Expand ==
  /\ phase = "expand"
  /\ \E list \in Expansions :
       jobs' = list /\ audits' = [i \in DOMAIN list |-> Unsettled]
  /\ phase' = "audit"
  /\ UNCHANGED <<scan, report, record>>

ExpandFails ==
  /\ phase = "expand" /\ Expansions = {}
  /\ phase' = "failed"
  /\ UNCHANGED <<scan, jobs, audits, report, record>>

\* The actor answers for an item, or fails and the map collects a null.
Audit ==
  /\ phase = "audit"
  /\ \E i \in {j \in DOMAIN jobs : audits[j] = Unsettled} :
       \E reply \in Replies(scan, jobs[i]) \cup {Lost} : audits' = [audits EXCEPT ![i] = reply]
  /\ UNCHANGED <<scan, phase, jobs, report, record>>

\* The gate of the map; an empty map passes it.
Gate ==
  LET won == HowMany(audits, LAMBDA a : a # Lost)
  IN 100 * won >= MinSuccess[scan.workload] * Len(jobs)

Gathered ==
  /\ phase = "audit" /\ \A i \in DOMAIN jobs : audits[i] # Unsettled
  /\ phase' = IF Gate THEN "reduce" ELSE "failed"
  /\ UNCHANGED <<scan, jobs, audits, report, record>>

\* The workloads whose report an actor or a program records.
Recorded == {"quality", "blog", "trace", "obliq"}

Aggregate ==
  /\ phase = "reduce"
  /\ report' \in Reports
  /\ phase' = IF scan.workload \in Recorded THEN "record" ELSE "done"
  /\ UNCHANGED <<scan, jobs, audits, record>>

AggregateFails ==
  /\ phase = "reduce" /\ Reports = {}
  /\ phase' = "failed"
  /\ UNCHANGED <<scan, jobs, audits, report, record>>

Record ==
  /\ phase = "record"
  /\ record' = IF scan.workload = "trace" THEN Registry(report) ELSE record
  /\ phase' = "done"
  /\ UNCHANGED <<scan, jobs, audits, report>>

\* An actor that records may fail; the program of the traces may not.
RecordFails ==
  /\ phase = "record" /\ scan.workload # "trace"
  /\ phase' = "failed"
  /\ UNCHANGED <<scan, jobs, audits, report, record>>

Ended == phase \in {"done", "failed"} /\ UNCHANGED vars

Next ==
  \/ Expand \/ ExpandFails \/ Audit \/ Gathered
  \/ Aggregate \/ AggregateFails \/ Record \/ RecordFails
  \/ Ended

Spec == Init /\ [][Next]_vars

-----------------------------------------------------------------------------
(* Properties                                                              *)

Expanded == phase \notin {"expand", "failed"}
Reported == report # NoReport

\* The cap on the number of jobs is shared: while a repository has a module
\* left to audit, no other one has more than one job more than it, and the
\* modules left out of a repository are no larger than those taken.
OssJobsShared ==
  LET in == scan.in
      last(n) == in.repos[Max({i \in DOMAIN in.repos : in.repos[i].name = n})]
      names == {in.repos[i].name : i \in DOMAIN in.repos}
      fit(n) == Matched(last(n), in)
      taken(n) == {jobs[i] : i \in {j \in DOMAIN jobs : jobs[j].repo = n}}
      most(n) == IF in.perRepo = 0 THEN Cardinality(fit(n)) ELSE Min({in.perRepo, Cardinality(fit(n))})
  IN /\ IsInjective(jobs)
     /\ Len(jobs) = Min({in.limit, SumFunction([n \in names |-> most(n)])})
     /\ \A n, m \in names :
          Cardinality(taken(n)) < most(n) => Cardinality(taken(m)) <= Cardinality(taken(n)) + 1
     /\ \A n \in names : \A out \in fit(n) \ taken(n), job \in taken(n) : out.loc <= job.loc

\* Every slug that has a published post is audited, and once.
PostsOnce ==
  /\ {Slug(jobs[i]) : i \in DOMAIN jobs} = {Slug(f) : f \in Posts(scan.in.files)}
  /\ \A i, j \in DOMAIN jobs : Slug(jobs[i]) = Slug(jobs[j]) => i = j

\* A pool has no document twice, no document that must not be shown and no
\* more than its size; it can be told apart (not all of it is relevant while
\* there is a distractor), and it holds what its mode says of golds.
PoolsHonest ==
  LET in == scan.in IN
  \A i \in DOMAIN jobs :
    LET q == jobs[i].id
        pool == Range(jobs[i].cands)
        golds == pool \cap in.golds[q]
        findable == in.golds[q] \cap in.corpus
    IN /\ IsInjective(jobs[i].cands) /\ Cardinality(pool) <= PoolSize(in)
       /\ pool \subseteq in.corpus /\ pool \cap in.excluded[q] \subseteq in.golds[q]
       /\ in.mode \in {"verify", "hard_verify"} =>
            /\ (findable # {}) = (golds # {})
            /\ in.corpus \ (in.golds[q] \cup in.excluded[q]) # {} => pool \ golds # {}
       /\ in.mode = "hard_verify" => Cardinality(golds) <= 1
       /\ in.mode = "retrieve_hard" => golds = {}

\* What a scan audits is what its options promise, whatever the order in which
\* the directories are met and the shuffles fall out (oss_code.rs, blog.rs and
\* obliq.rs: expand).
JobsAsPromised ==
  Expanded =>
    /\ scan.workload = "oss" => OssJobsShared
    /\ scan.workload = "blog" => PostsOnce
    /\ scan.workload = "obliq" => PoolsHonest

\* The audits that speak against the subject of their job.
Objections ==
  {i \in DOMAIN audits :
     CASE scan.workload = "quality" -> audits[i].kind = "verdict" /\ ~audits[i].pass
       [] scan.workload = "oss" -> ~(audits[i].kind = "audit" /\ ~audits[i].hold /\ \A s \in audits[i].bearing : s > 3)
       [] scan.workload = "docs" -> audits[i].kind = "page" /\ audits[i].blocker
       [] scan.workload = "blog" -> audits[i].kind = "echo" \/ audits[i].blocker
       [] scan.workload = "trace" -> audits[i].kind = "note" /\ audits[i].blocker
       [] OTHER -> FALSE}

\* A report accounts for every job, passes exactly when no audit objects, and
\* its counts add up; a scan that fails to report has a cause in its audits,
\* and a lost audit that the gate tolerates is none for code and pages.
ReportTellsAudits ==
  /\ Reported =>
       /\ Len(report.rows) + (IF scan.workload = "docs" THEN report.lost ELSE 0) = Len(jobs)
       /\ scan.workload # "obliq" => (report.verdict = "pass") = (Objections = {})
       /\ scan.workload \in {"quality", "blog", "docs", "oss"} => report.passed + report.failed = report.total
       /\ record # NoReport => record.verdict = report.verdict
  /\ phase = "failed" /\ scan.workload = "oss" /\ jobs # <<>> =>
       \E i \in DOMAIN audits : audits[i].kind = "audit" /\ ~InRange(audits[i])
  /\ phase = "failed" /\ scan.workload = "docs" /\ jobs # <<>> =>
       5 * Cardinality({i \in DOMAIN audits : audits[i] = Lost}) > Len(jobs)

\* Where the golds of the pool count, a ranking of the whole pool is scored
\* against those that `expand` put into it, though the reply does not carry
\* them, its metrics are within their range, and the ranking that has them
\* first scores full marks (obliq.rs: "metrics stay fair when the actor does
\* not echo gold_ids").
RankingFairlyScored ==
  Reported /\ scan.workload = "obliq" /\ Scope(scan.in) # "full" =>
    \A i \in DOMAIN jobs :
      LET a == audits[i]
          row == report.rows[i]
          golds == Range(jobs[i].cands) \cap scan.in.golds[jobs[i].id]
          whole == a.kind = "ranking" /\ a.id = jobs[i].id /\ a.ranked \in Seq(Range(jobs[i].cands))
                   /\ IsInjective(a.ranked) /\ Range(a.ranked) = Range(jobs[i].cands)
      IN whole =>
           /\ row.golds = golds
           /\ row.recall \in 0 .. 1000 /\ row.ndcg \in 0 .. 1000
           /\ (golds # {} /\ {a.ranked[j] : j \in 1 .. Cardinality(golds)} = golds) =>
                row.ndcg = 1000 /\ (Cardinality(golds) <= scan.in.k => row.recall = 1000)

\* Where the full judgements count, as they do by default in the two retrieval
\* modes, every ranking of a query is scored against all golds of the query
\* (obliq.rs: "full qrels for pure retrieve").  It is not: a reply that does not
\* carry its golds is scored against those it names.
RetrievalScoredInFull ==
  Reported /\ scan.workload = "obliq" /\ Scope(scan.in) = "full" =>
    \A i \in DOMAIN jobs :
      audits[i].kind = "ranking" /\ audits[i].id = jobs[i].id =>
        report.rows[i].golds = scan.in.golds[jobs[i].id]
=============================================================================
