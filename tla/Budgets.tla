------------------------------ MODULE Budgets -------------------------------
(***************************************************************************)
(* The resource budgets of a run: the plan and its overlay, the samples    *)
(* that the CLI takes (project_budgets, append_budget_samples in main.rs)  *)
(* and what BudgetEngine::snapshot makes of them (contract budget.rs).     *)
(*                                                                         *)
(* Amounts are whole numbers, the time is in seconds, and a rate or an     *)
(* estimate is a fraction <<numerator, denominator>>.  What only selects   *)
(* or labels lines of the panel is left out of the plan.                   *)
(***************************************************************************)
EXTENDS Naturals, Sequences, FiniteSets

CONSTANTS
  HistoryMax,   \* the length at which the history of samples is cut (240)
  HistoryKept   \* and the length it is cut to (180)

ASSUME HistoryAssumption == HistoryMax \in Nat /\ HistoryKept \in 0 .. HistoryMax

Kinds == {"actor_calls", "tokens", "wall_seconds"}
None == <<>>
Final(s) == s[Len(s)]
Larger(a, b) == IF a < b THEN b ELSE a

\* The elements of a sequence that are of a kind, in their order.
Filtered(seq, Of(_)) ==
  LET kept[n \in 0 .. Len(seq)] ==
        IF n = 0 THEN <<>> ELSE IF Of(seq[n]) THEN Append(kept[n - 1], seq[n]) ELSE kept[n - 1]
  IN kept[Len(seq)]

-----------------------------------------------------------------------------
(* The plan                                                                *)

Caps == [kind : Kinds, max : Nat, hard : BOOLEAN, warn : Nat]
Plans ==
  [caps : Seq(Caps), warn : Nat, fail : BOOLEAN,
   eta : [on : BOOLEAN, minWall : Nat, interval : Nat]]

\* deep_merge_json: eta is the object in the plan, so it is merged by field;
\* everything else, the array of caps included, is replaced.
Merged(plan, overlay) ==
  [f \in DOMAIN plan |->
     IF f \notin DOMAIN overlay THEN plan[f]
     ELSE IF f # "eta" THEN overlay[f]
     ELSE [g \in DOMAIN plan.eta |->
             IF g \in DOMAIN overlay.eta THEN overlay.eta[g] ELSE plan.eta[g]]]

\* overlay_json: an overlay that is not an object, or not a plan once merged.
OverlayFails(args) == args.budgets \in {"scalar", "mistyped"}

ResolvedPlan(plan, args) == IF args.budgets = "object" THEN Merged(plan, args.overlay) ELSE plan

Warning(plan, cap) == IF cap.warn = 0 THEN plan.warn ELSE cap.warn

-----------------------------------------------------------------------------
(* forecast_eta                                                            *)

Less(a, b) == a[1] * b[2] < b[1] * a[2]

\* positive_rates: between neighbours a second or more apart.
PositiveRates(series) ==
  LET gaps == Filtered([i \in 1 .. Len(series) - 1 |-> <<series[i], series[i + 1]>>],
                        LAMBDA g : g[2].t - g[1].t >= 1 /\ g[2].used > g[1].used)
  IN [i \in DOMAIN gaps |-> <<gaps[i][2].used - gaps[i][1].used, gaps[i][2].t - gaps[i][1].t>>]

\* pick_rate: the upper median.
Median(rates) ==
  LET below(r) == Cardinality({i \in DOMAIN rates : Less(rates[i], r)})
      upto(r) == Cardinality({i \in DOMAIN rates : ~Less(r, rates[i])})
  IN CHOOSE r \in {rates[i] : i \in DOMAIN rates} :
       below(r) <= Len(rates) \div 2 /\ Len(rates) \div 2 < upto(r)

Confidence(n) == IF n = 0 THEN "unknown" ELSE IF n <= 2 THEN "low" ELSE IF n <= 5 THEN "medium" ELSE "high"

\* No more than one and a half times the average since the first sample.
Damped(rate, series) ==
  LET used == Final(series).used - series[1].used
      over == Final(series).t - series[1].t
  IN IF Final(series).used > series[1].used /\ Final(series).t > series[1].t /\ Less(<<3 * used, 2 * over>>, rate)
     THEN <<3 * used, 2 * over>> ELSE rate

\* Without two samples that differ, the average since the start.
Rate(series, wall, plan) ==
  LET rates == PositiveRates(series)
  IN IF rates # <<>> THEN [rate |-> Damped(Median(rates), series), sure |-> Confidence(Len(rates))]
     ELSE IF wall > plan.eta.minWall /\ series # <<>> /\ Final(series).used > 0
     THEN [rate |-> <<Final(series).used, wall>>, sure |-> "low"]
     ELSE [rate |-> None, sure |-> "unknown"]

\* interval_multipliers, in percent.
Interval(sure) ==
  IF sure = "high" THEN <<85, 125>> ELSE IF sure = "medium" THEN <<75, 150>> ELSE <<50, 200>>

Forecast(remaining, series, wall, plan) ==
  LET r == Rate(series, wall, plan)
      eta == <<remaining * r.rate[2], r.rate[1]>>
      scaled(percent) == <<eta[1] * percent, eta[2] * 100>>
  IN IF ~plan.eta.on THEN [eta |-> None, low |-> None, high |-> None]
     ELSE IF remaining = 0 THEN [eta |-> <<0, 1>>, low |-> <<0, 1>>, high |-> <<0, 1>>]
     ELSE IF r.rate = None THEN [eta |-> None, low |-> None, high |-> None]
     ELSE [eta |-> eta, low |-> scaled(Interval(r.sure)[1]), high |-> scaled(Interval(r.sure)[2])]

-----------------------------------------------------------------------------
(* BudgetEngine::snapshot                                                  *)

\* Faulty variant: what is in flight does not count.
SpentOnly(spent, reserved) == spent

Committed(spent, reserved) == spent + reserved

Exhausted(cap, used) == used >= cap.max

State(plan, cap, used) ==
  IF Exhausted(cap, used) THEN "exhausted"
  ELSE IF used * 100 >= Warning(plan, cap) * cap.max THEN "warning" ELSE "ok"

Series(samples, kind) == Filtered(samples, LAMBDA o : o.kind = kind)

\* What a cap has come to by its last sample.
Meter(plan, cap, samples, wall) ==
  LET series == Series(samples, cap.kind)
      last == IF series = <<>> THEN [spent |-> 0, reserved |-> 0] ELSE Final(series)
      spent == IF cap.kind = "wall_seconds" THEN Larger(wall, last.spent) ELSE last.spent
  IN [kind |-> cap.kind, hard |-> cap.hard, max |-> cap.max, spent |-> spent, reserved |-> last.reserved,
      state |-> State(plan, cap, Committed(spent, last.reserved))]

\* A cap without a positive maximum is passed over.
Meters(plan, samples, wall) ==
  LET caps == Filtered(plan.caps, LAMBDA c : c.max > 0)
  IN [i \in DOMAIN caps |-> Meter(plan, caps[i], samples, wall)]

Remaining(meter) ==
  LET used == Committed(meter.spent, meter.reserved) IN IF used < meter.max THEN meter.max - used ELSE 0

Item(plan, meter, samples, wall) ==
  LET series == Series(samples, meter.kind)
      points == [i \in DOMAIN series |->
                   [t |-> series[i].t, used |-> Committed(series[i].spent, series[i].reserved)]]
  IN [meter |-> meter, forecast |-> Forecast(Remaining(meter), points, wall, plan)]

\* The first of those that run out soonest.
Nearest(items) ==
  LET told == Filtered(items, LAMBDA i : i.forecast.eta # None)
  IN IF told = <<>> THEN None
     ELSE told[CHOOSE i \in DOMAIN told :
                 /\ \A j \in DOMAIN told : ~Less(told[j].forecast.eta, told[i].forecast.eta)
                 /\ \A j \in 1 .. i - 1 : Less(told[i].forecast.eta, told[j].forecast.eta)]

Snapshot(plan, samples, wall) ==
  LET meters == Meters(plan, samples, wall)
      items == [i \in DOMAIN meters |-> Item(plan, meters[i], samples, wall)]
      some(state) == \E i \in DOMAIN meters : meters[i].state = state
  IN [items |-> items, nearest |-> Nearest(items),
      state |-> IF some("exhausted") THEN "exhausted" ELSE IF some("warning") THEN "warning"
                ELSE IF meters = <<>> THEN "unlimited" ELSE "ok"]

-----------------------------------------------------------------------------
(* The host's meters                                                       *)

Sample(kind, t, spent, reserved) == [kind |-> kind, t |-> t, spent |-> spent, reserved |-> reserved]

\* project_budgets: a zero to start from if nothing was sampled, then one
\* sample per cap of what the host has counted.
Samples(plan, counted, wall, history) ==
  LET zeros == [i \in DOMAIN plan.caps |-> Sample(plan.caps[i].kind, 0, 0, 0)]
      now == [i \in DOMAIN plan.caps |->
                LET k == plan.caps[i].kind
                IN Sample(k, wall, IF k = "wall_seconds" THEN wall ELSE counted[k],
                          IF k = "actor_calls" THEN counted.in_flight ELSE 0)]
  IN (IF history = <<>> /\ wall > 0 THEN zeros ELSE history) \o now

\* append_budget_samples: not before the interval is over; then the oldest go.
Sampled(plan, history, meters, wall) ==
  LET more == history \o [i \in DOMAIN meters |->
                            Sample(meters[i].kind, wall, meters[i].spent, meters[i].reserved)]
  IN IF history # <<>> /\ wall - Final(history).t < plan.eta.interval THEN history
     ELSE IF Len(more) > HistoryMax THEN SubSeq(more, Len(more) - HistoryKept + 1, Len(more))
     ELSE more
=============================================================================
