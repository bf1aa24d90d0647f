------------------------------ MODULE ObliqScan ------------------------------
(***************************************************************************)
(* The programs of the obliq workload (obliq.rs): `expand` builds, for     *)
(* each query, a pool of candidate documents for a model to rank, and      *)
(* `aggregate` scores the rankings against the relevant documents, the     *)
(* golds.                                                                  *)
(*                                                                         *)
(* A benchmark has a corpus, queries, and per query its golds (qrels), the *)
(* documents not to be shown (excluded) and the lexical score of every     *)
(* document.  The generator is seeded by the caller: a shuffle yields any  *)
(* order.  Metrics are in thousandths.                                     *)
(***************************************************************************)
EXTENDS OssScan

CONSTANT Discount  \* what a hit is worth at a place: 1 / log2(place + 1)

ASSUME DiscountAssumption ==
  /\ Discount \in Seq(Nat \ {0}) /\ Len(Discount) > 0
  /\ \A i \in 2 .. Len(Discount) : Discount[i] <= Discount[i - 1]

Shuffled(S) == SetToSeqs(S)
Some(S, n) == kSubset(Min({n, Cardinality(S)}), S)

Scope(in) ==
  CASE in.scope # "default" -> in.scope
    [] in.scope = "default" /\ in.mode \in {"retrieve", "retrieve_hard"} -> "full"
    [] OTHER -> "pool"

PoolSize(in) == Max({2, in.poolSize})

-----------------------------------------------------------------------------
(* The pools                                                               *)

Infusable(in, q) == in.golds[q] \cap in.corpus
Distractors(in, q) == in.corpus \ (in.golds[q] \cup in.excluded[q])

\* The documents of a set by their score, the first ids first on a tie.
ByScore(S, score) ==
  Sorted(S, LAMBDA a, b : score[a] > score[b] \/ (score[a] = score[b] /\ a < b))

\* The n best ones for a query.
Top(in, q, S, n) == Range(AtMost(ByScore(S, in.lexical[q]), n))

\* The places golds may take: some are kept for documents that are not relevant.
GoldSlots(size) == Max({1, size - (IF size >= 4 THEN Max({2, size \div 4}) ELSE 1)})

VerifyPools(in, q) ==
  UNION {{golds \cup others : others \in Some(Distractors(in, q), PoolSize(in) - Cardinality(golds))} :
           golds \in Some(Infusable(in, q), GoldSlots(PoolSize(in)))}

\* One gold among near misses, and then documents at random.
HardPools(in, q) ==
  LET need == PoolSize(in) - 1
      near == Top(in, q, {d \in Distractors(in, q) : in.lexical[q][d] > 0}, need)
  IN IF Infusable(in, q) = {} THEN VerifyPools(in, q)
     ELSE {{gold} \cup near \cup pad : gold \in Infusable(in, q),
             pad \in Some(Distractors(in, q) \ near, need - Cardinality(near))}

\* What the first stage finds, golds like any document.
RetrievePool(in, q) ==
  Top(in, q, in.corpus \ (in.excluded[q] \ in.golds[q]), PoolSize(in))

Pools(in, q) ==
  CASE in.mode \in {"retrieve", "retrieve_hard"} -> {RetrievePool(in, q)}
    [] in.mode = "hard_verify" -> HardPools(in, q)
    [] OTHER -> VerifyPools(in, q)

-----------------------------------------------------------------------------
(* expand                                                                  *)

\* The hard retrieval keeps the queries whose golds the first stage misses.
Eligible(in) ==
  {q \in in.queries : in.mode = "retrieve_hard" =>
     in.golds[q] # {} /\ RetrievePool(in, q) \cap in.golds[q] = {}}

\* Queries are drawn before those without golds are passed over.
Drawn(in) == Some(Eligible(in), Max({1, in.maxQueries}))

Job(in, q, cands) ==
  [id |-> q, cands |-> cands,
   golds |-> IF Scope(in) = "full" THEN in.golds[q] ELSE in.golds[q] \cap Range(cands)]

JobsOf(in, q) == {Job(in, q, cands) : cands \in UNION {Shuffled(pool) : pool \in Pools(in, q)}}

JobLists(in, qs) ==
  LET order == Ascending({q \in qs : in.golds[q] # {}})
  IN {js \in [DOMAIN order -> UNION {JobsOf(in, order[i]) : i \in DOMAIN order}] :
        \A i \in DOMAIN order : js[i].id = order[i]}

\* The corpus, the queries and the relevance judgements are there and parse.
Loaded(in) == in.present

\* No job is an error, too.
ObliqExpansions(in) ==
  IF ~Loaded(in) THEN {} ELSE UNION {JobLists(in, qs) : qs \in Drawn(in)} \ {<<>>}

-----------------------------------------------------------------------------
(* aggregate                                                               *)

Gain(places) == MapThenSumSet(LAMBDA i : Discount[i], places)
Hits(ranked, golds, k) == {i \in 1 .. Min({k, Len(ranked)}) : ranked[i] \in golds}

Recall(ranked, golds, k) ==
  IF golds = {} THEN 0 ELSE (1000 * Cardinality(Hits(ranked, golds, k))) \div Cardinality(golds)
Ndcg(ranked, golds, k) ==
  IF golds = {} THEN 0
  ELSE (1000 * Gain(Hits(ranked, golds, k))) \div Gain(1 .. Min({k, Cardinality(golds)}))

\* The echo of the fake actor carries its job; a model returns a ranking only.
Ranked(scan) == IF scan.kind = "echo" THEN scan.job.cands ELSE scan.ranked

\* Faulty variant: all the golds of the query count.
EveryGold(in, scan) ==
  IF scan.kind = "lost" THEN {} ELSE IF scan.id \in in.queries THEN in.golds[scan.id] ELSE {}

\* The golds of the job when the scan has them; else those among the documents
\* the scan names.
Golds(in, scan) ==
  CASE scan.kind = "echo" /\ scan.job.golds # {} -> scan.job.golds
    [] scan.kind = "lost" \/ (scan.kind = "ranking" /\ scan.id \notin in.queries) -> {}
    [] OTHER -> in.golds[scan.id] \cap Range(Ranked(scan))

ObliqRow(in, scan) ==
  LET golds == Golds(in, scan)
      ranked == IF scan.kind = "lost" THEN <<>> ELSE Ranked(scan)
      k == Max({1, in.k})
  IN [golds |-> golds, recall |-> Recall(ranked, golds, k), ndcg |-> Ndcg(ranked, golds, k)]

ObliqReports(in, scans) ==
  LET rows == [i \in DOMAIN scans |-> ObliqRow(in, scans[i])]
      gained == FoldLeft(LAMBDA n, r : n + r.ndcg, 0, rows)
  IN {[total |-> Len(rows), rows |-> rows,
       verdict |-> IF rows # <<>> /\ gained \div Len(rows) >= 500 THEN "pass" ELSE "fail"]}
=============================================================================
