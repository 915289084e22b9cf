----------------------------- MODULE TrendSignals -----------------------------
(***************************************************************************)
(* When feedback becomes a signal: analysis windows (analytics/metrics.py),*)
(* source health (application.py 1854-1958 and analytics/data_health.py),  *)
(* stratified trends, recurring friction and improvement                   *)
(* (analytics/trends.py, application.py 1959-2112).                        *)
(*                                                                         *)
(* Shares are fractions and are compared by multiplying out.  Hours count  *)
(* from an epoch, per cents are integers.                                  *)
(***************************************************************************)
EXTENDS Integers, FiniteSets, Sequences, FiniteSetsExt, Collections

CONSTANTS
    None,
    MinCurrent, MinBaseline,    \* TrendThresholds: denominators of a stratum
    MinSupport, MinExcess,      \* and of the signal
    MinGrowth, MinDelta,        \* fractions <<p, q>>
    CriticalSquare,             \* the square of the critical z-score, a fraction
    MinSourceGroups,
    StaleHours,                 \* voc_source_stale_hours
    StaleAfter,                 \* HealthPolicy.stale_after
    TopicNames,                 \* the topics, in alphabetical order
    TopN, WeeksRequired, Lookback,
    Offset                      \* the business time zone, in hours

-----------------------------------------------------------------------------
(* Windows. *)

\* The local midnight that ends the last day counted.
EndOfWindow(asOf, complete) ==
    ((asOf + Offset) \div 24) * 24 + (IF complete THEN 24 ELSE 0) - Offset

Windows(asOf, complete, currentDays, baselineDays) ==
    LET end == EndOfWindow(asOf, complete)
        start == end - 24 * currentDays
    IN  [current |-> <<start, end>>, baseline |-> <<start - 24 * baselineDays, start>>]

\* The dashboard's windows: the baseline is as long as the current window.
DashboardWindows(asOf, complete, range) ==
    LET end == IF range.kind = "custom" THEN 24 * (range.to + 1) - Offset
               ELSE EndOfWindow(asOf, complete)
        start == IF range.kind = "custom" THEN 24 * range.from - Offset
                 ELSE end - 24 * range.days
    IN  [current |-> <<start, end>>, baseline |-> <<start - (end - start), start>>]

-----------------------------------------------------------------------------
(* Source health: connectors are [status, age], age the hours since success. *)

EffectiveStatus(row) ==
    IF row.status = "failed" THEN "failed"
    ELSE IF row.age = None THEN "stale"
    ELSE IF row.age > StaleHours THEN "stale" ELSE row.status

Severity == [healthy |-> 0, partial |-> 1, stale |-> 2, failed |-> 3]
\* Broken variant: the best connector speaks for its group.
BestStatus(rows) ==
    IF rows = {} THEN "failed"
    ELSE CHOOSE s \in {EffectiveStatus(r) : r \in rows} :
            \A r \in rows : Severity[s] <= Severity[EffectiveStatus(r)]
WorstStatus(rows) ==
    IF rows = {} THEN "failed"
    ELSE CHOOSE s \in {EffectiveStatus(r) : r \in rows} :
            \A r \in rows : Severity[EffectiveStatus(r)] <= Severity[s]

\* The reasons against a platform's feedback: records is [total, dated, groups,
\* analysed, confidence], with the mean confidence in per cent.
HealthReasons(rows, records) ==
    LET ages == {r.age : r \in rows} \ {None}
        low(part, percent) == part * 100 < records.total * percent
        against == [source_status |-> WorstStatus(rows) # "healthy",
                    no_success_timestamp |-> ages = {},
                    source_stale |-> ages # {} /\ Min(ages) > StaleAfter,
                    timestamp_coverage_low |-> low(records.dated, 80),
                    duplicate_share_high |-> low(records.groups, 50),
                    classification_coverage_low |-> low(records.analysed, 80),
                    classification_confidence_low |-> records.confidence < 70]
    IN  {reason \in DOMAIN against : against[reason]}

-----------------------------------------------------------------------------
(* Trends: a stratum is [group, healthy, c, C, b, B]. *)

Eligible(strata) ==
    {i \in DOMAIN strata :
        strata[i].healthy /\ strata[i].C >= MinCurrent /\ strata[i].B >= MinBaseline}

\* Every share has the weight of its baseline denominator.
CurrentShare(strata, E) ==
    LET sizes == [i \in E |-> strata[i].C]
        others(i) == ProductFunctionOnSet(sizes, E \ {i})
    IN  <<SumFunction([i \in E |-> strata[i].B * strata[i].c * others(i)]),
          SumFunction([i \in E |-> strata[i].B]) * ProductFunctionOnSet(sizes, E)>>
BaselineShare(strata, E) ==
    <<SumFunction([i \in E |-> strata[i].b]), SumFunction([i \in E |-> strata[i].B])>>

Less(x, y) == x[1] * y[2] < y[1] * x[2]
Minus(x, y) == <<x[1] * y[2] - y[1] * x[2], x[2] * y[2]>>
Times(x, y) == <<x[1] * y[1], x[2] * y[2]>>

\* current.numerator - current.denominator * baseline share, or nothing.
Excess(s) == IF s.c * s.B > s.C * s.b THEN <<s.c * s.B - s.C * s.b, s.B>> ELSE <<0, 1>>
TotalExcess(strata, E) ==
    FoldSet(LAMBDA i, t : LET e == Excess(strata[i])
                          IN  <<t[1] * e[2] + e[1] * t[2], t[2] * e[2]>>, <<0, 1>>, E)

Rises(s) == s.c * s.B > s.C * s.b
\* The one-sided pooled z-test: p < alpha is z above the critical score.
ConfidencePasses(s) ==
    LET N == s.C + s.B
        all == s.c + s.b
        rise == s.c * s.B - s.C * s.b
    IN  /\ Rises(s) /\ all # N
        /\ rise * rise * N * CriticalSquare[2] > CriticalSquare[1] * s.C * s.B * all * (N - all)

HealthSuppressions(strata, required) ==
    (IF \E i \in DOMAIN strata : ~strata[i].healthy /\ strata[i].group \in required
     THEN {"required_source_unhealthy"} ELSE {})
    \cup (IF required \subseteq {strata[i].group : i \in Eligible(strata)}
          THEN {} ELSE {"required_source_unavailable"})

Suppressions(strata, required) ==
    LET E == Eligible(strata)
        current == CurrentShare(strata, E)
        baseline == BaselineShare(strata, E)
        against ==
            [current_support |-> SumFunction([i \in E |-> strata[i].c]) < MinSupport,
             excess |-> Less(TotalExcess(strata, E), <<MinExcess, 1>>),
             rate_delta |-> Less(Minus(current, baseline), MinDelta),
             growth |-> baseline[1] > 0 /\ Less(current, Times(baseline, MinGrowth)),
             confidence_check_failed |-> \A i \in E : ~ConfidencePasses(strata[i]),
             cross_source_confirmation_missing |->
                Cardinality({strata[i].group : i \in {j \in E : Rises(strata[j])}})
                    < MinSourceGroups]
    IN  HealthSuppressions(strata, required)
        \cup (IF E = {} THEN {"no_eligible_strata"}
              ELSE {reason \in DOMAIN against : against[reason]})

Qualifies(strata, required) == Suppressions(strata, required) = {}

-----------------------------------------------------------------------------
(* Improvement against a frozen share of known groups. *)

Covers(reference, groups) == reference.groups \subseteq groups

Improves(reference, strata, minimum) ==
    LET E == Eligible(strata)
    IN  /\ E # {} /\ reference.healthy
        /\ SumFunction([i \in E |-> strata[i].C]) >= minimum
        /\ Covers(reference, {strata[i].group : i \in E})
        /\ reference.share[1] > 0
        /\ Less(CurrentShare(strata, E), Times(reference.share, <<3, 4>>))

-----------------------------------------------------------------------------
(* Recurring friction: negatives[week][topic], weeks numbered upwards. *)

Before(t, u) == \E i, j \in 1 .. Len(TopicNames) : i < j /\ TopicNames[i] = t /\ TopicNames[j] = u
WeekRank(counts, t) ==
    1 + Cardinality({u \in DOMAIN counts :
            counts[u] > counts[t] \/ (counts[u] = counts[t] /\ Before(u, t))})

\* A week without a complaint has no metrics: it is not among the latest weeks.
Available(negatives) ==
    LET weeks == {w \in DOMAIN negatives : \E t \in DOMAIN negatives[w] : negatives[w][t] > 0}
    IN  {w \in weeks : Cardinality({v \in weeks : v > w}) < Lookback}

Recurs(negatives, healthy, topic) ==
    /\ healthy /\ Cardinality(Available(negatives)) = Lookback
    /\ Cardinality({w \in Available(negatives) :
            negatives[w][topic] > 0 /\ WeekRank(negatives[w], topic) <= TopN}) >= WeeksRequired
=============================================================================
