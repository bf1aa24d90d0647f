---------------------------- MODULE LogicalClock ----------------------------
(***************************************************************************)
(* The logical clock of a run (runner.rs emit and peek_next_addr, and the  *)
(* addresses of event.rs).  An address is a lane, the pair of a node path  *)
(* and an iteration, and a sequence number counted per lane.  Events carry *)
(* addresses allocated by emit; a recorded call carries the address peeked *)
(* before the call was made.  The stream is kept as the set of its events: *)
(* its order is that of the addresses and never that of emission.          *)
(***************************************************************************)
EXTENDS Naturals, Sequences

VARIABLES
  seqs,     \* addr_seqs: the next local_seq of every lane used so far
  events,   \* the events emitted: [lane, seq, kind, pay]
  records   \* recorded: the calls recorded for replay: [lane, seq, v, by]

\* The function f with k mapped to v.
Put(f, k, v) == [x \in DOMAIN f \cup {k} |-> IF x = k THEN v ELSE f[x]]

NextSeq(lane) == IF lane \in DOMAIN seqs THEN seqs[lane] ELSE 0

\* Emit the events es, a sequence of [kind, pay], one after the other on a lane.
Emit(lane, es) ==
  /\ seqs' = Put(seqs, lane, NextSeq(lane) + Len(es))
  /\ events' = events \cup
       {[lane |-> lane, seq |-> NextSeq(lane) + i - 1,
         kind |-> es[i].kind, pay |-> es[i].pay] : i \in 1 .. Len(es)}

\* Record a call made at an address peeked earlier; `by` tells calls apart.
Record(lane, seq, v, by) ==
  records' = records \cup {[lane |-> lane, seq |-> seq, v |-> v, by |-> by]}

Addr(x) == <<x.lane, x.seq>>
=============================================================================
