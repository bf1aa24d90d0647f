------------------------------ MODULE CorpusScan ------------------------------
(***************************************************************************)
(* The programs of the scans of a fixed list or a directory of files: the  *)
(* dimensions of a code base (lib.rs), the posts of a blog (blog.rs), the  *)
(* pages of a documentation site (docs.rs) and rollout traces (trace.rs).  *)
(*                                                                         *)
(* A corpus is a set of files, each with its path, the names of its        *)
(* directories, and its name, a place in the order of the names.  As in    *)
(* OssScan a program yields the results it may return, none for an error.  *)
(***************************************************************************)
EXTENDS OssScan

CONSTANTS
  Dimensions,  \* the dimensions of a code audit, in order
  HiddenDirs   \* directories the walk over the pages does not enter

ASSUME DimensionAssumption == Dimensions \in Seq(Range(Dimensions))

Verdict(objections) == IF objections = 0 THEN "pass" ELSE "fail"

-----------------------------------------------------------------------------
(* lib.rs: quality.expand and quality.aggregate                            *)

\* A target that is not given falls back to the arguments or a label.
QualityExpansions(in) == IF in.target = "blank" \/ in.stray THEN {} ELSE {Dimensions}

\* A complete verdict, or the echo of the fake actor.
Complete(scan) == scan.kind \in {"verdict", "echo"} /\ scan.complete

QualityReports(scans) ==
  LET failed == HowMany(scans, LAMBDA s : s.kind = "verdict" /\ ~s.pass)
  IN IF \E i \in DOMAIN scans : ~Complete(scans[i]) THEN {}
     ELSE {[total |-> Len(scans), rows |-> scans, passed |-> Len(scans) - failed,
            failed |-> failed, verdict |-> Verdict(failed)]}

-----------------------------------------------------------------------------
(* blog.rs                                                                 *)

\* index.mdx is the post of its directory; the one at the top is none.
Posts(files) == {f \in files : f.mdx /\ ~f.draft /\ (f.index => f.path # <<>>)}
Slug(f) == IF f.index THEN Last(f.path) ELSE f.name

\* Of posts of one slug the walk keeps the one it meets first.
Published(files) ==
  LET slugs == {Slug(f) : f \in Posts(files)}
      FirstMet == {f \in [slugs -> Posts(files)] : \A s \in slugs : Slug(f[s]) = s}
  IN {[i \in 1 .. Cardinality(slugs) |-> f[Ascending(slugs)[i]]] : f \in FirstMet}

BlogExpansions(in) == IF in.dir # "given" \/ in.stray THEN {} ELSE Published(in.files)

\* The echo of the fake actor is a row that blocks.
BlogRow(scan) ==
  IF scan.kind = "audit" THEN [blocker |-> scan.blocker, score |-> scan.score]
  ELSE [blocker |-> TRUE, score |-> 0]

\* A lost or malformed audit is an error of the program.
BlogReports(scans) ==
  LET rows == [i \in DOMAIN scans |-> BlogRow(scans[i])]
      failed == HowMany(rows, LAMBDA r : r.score < 6)
  IN IF \E i \in DOMAIN scans : scans[i].kind \notin {"audit", "echo"} THEN {}
     ELSE {[total |-> Len(rows), rows |-> rows, passed |-> Len(rows) - failed,
            failed |-> failed, verdict |-> Verdict(HowMany(rows, LAMBDA r : r.blocker))]}

-----------------------------------------------------------------------------
(* docs.rs: scores are in tenths                                           *)

\* .mintignore names pages, and directories by a path that ends in a slash.
Ignored(f, ignore) == f.name \in ignore.pages \/ \E dir \in ignore.dirs : IsPrefix(dir, f.path)
Pages(in) ==
  {f \in in.files : f.mdx /\ Range(f.path) \cap HiddenDirs = {} /\ ~Ignored(f, in.ignore)}
\* parse_nav_pages: the navigation is optional, and an error if it is broken.
InNav(in, f) == in.nav = "read" /\ f.name \in in.listed

SitePages(in) ==
  LET sorted == Sorted(Pages(in), LAMBDA f, g : f.name < g.name)
      limit == IF in.limit = {} THEN Len(sorted) ELSE Min(in.limit)
  IN [i \in DOMAIN AtMost(sorted, limit) |->
        [name |-> sorted[i].name, inNav |-> InNav(in, sorted[i])]]

DocsExpansions(in) == IF in.dir # "given" \/ in.nav = "broken" THEN {} ELSE {SitePages(in)}

\* A score out of 1 or out of 100 is brought to a score out of 10.  Scores are in
\* hundredths, and those of a reply have one decimal: nothing is rounded.
Scaled(score) ==
  IF score \in 1 .. 100 THEN 10 * score ELSE IF score \in 1001 .. 10000 THEN score \div 10 ELSE score

\* A reply that names no page is dropped; the score is scaled on the way into
\* the row and once more on the way out.
DocsReports(jobs, scans) ==
  LET Row(s) == [blocker |-> s.blocker, score |-> Scaled(s.score)]
      told == Ascending({i \in DOMAIN scans : scans[i].kind = "page"})
      rows == [i \in DOMAIN told |-> Row(scans[told[i]])]
      failed == HowMany(rows, LAMBDA r : Scaled(r.score) < 600)
  IN {[total |-> Len(rows), rows |-> rows, passed |-> Len(rows) - failed, failed |-> failed,
       lost |-> Max({0, Len(jobs) - Len(rows)}),
       verdict |-> Verdict(HowMany(rows, LAMBDA r : r.blocker))]}

-----------------------------------------------------------------------------
(* trace.rs                                                                *)

Traces(in) == {f \in in.files : f.trace /\ f.path = <<>>}

\* trace_summary: a trace that cannot be read and parsed.
Broken(in) == \E f \in Traces(in) : ~f.parses

TraceExpansions(in) ==
  IF in.dir # "given" \/ Broken(in) THEN {}
  ELSE {Sorted(Traces(in), LAMBDA f, g : f.name < g.name)}

\* A reply that says nothing is a row of no trace that does not block.
TraceReports(scans) ==
  LET rows == [i \in DOMAIN scans |-> [blocker |-> scans[i].kind = "note" /\ scans[i].blocker]]
  IN {[total |-> Len(rows), rows |-> rows,
       verdict |-> Verdict(HowMany(rows, LAMBDA r : r.blocker))]}

\* The registry repeats the report, or reads one from it when it lacks a field.
Registry(report) == [total |-> report.total, verdict |-> report.verdict]
=============================================================================
