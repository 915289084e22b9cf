--------------------------- MODULE InsightAnalytics ---------------------------
(***************************************************************************)
(* What a rebuild asks of the analytics, one question and answer at a time *)
(* (application.py 2522-2738): which feedback is counted, how healthy a    *)
(* source is, whether a topic rises, recurs or improves, how brands        *)
(* compare, and which cards Today shows.                                   *)
(***************************************************************************)
EXTENDS CountedUnits, TrendSignals, MatchedCohorts

CONSTANTS
    UnitInputs,     \* sequences of units
    HealthInputs,   \* [rows, records]
    TrendInputs,    \* sequences of strata
    References,     \* frozen observations: [share, healthy]
    WeekInputs,     \* negatives of each week and topic
    WindowInputs,   \* [asOf, complete, range]
    CohortInputs,   \* strata of brand cells
    CandidateInputs \* sets of candidates for Today

ASSUME AnalyticsAssumption ==
    /\ MinCurrent \in Nat \ {0} /\ MinBaseline \in Nat \ {0} /\ MinSample \in Nat \ {0}
    /\ MinGrowth[1] >= MinGrowth[2] /\ TopN \in Nat \ {0} /\ WeeksRequired <= Lookback

\* Feedback ids name the units that the database returns, in any order.
IsUnits(units) ==
    /\ units \in Seq(ToSet(units))
    /\ \A u \in ToSet(units) : u.id \in Nat
    /\ \A u, v \in ToSet(units) : u.id = v.id => u = v
ASSUME UnitsAssumption ==
    /\ SourceOrder \in Seq(ToSet(SourceOrder))
    /\ \A units \in UnitInputs : IsUnits(units)

\* The statuses that sync_source writes, and the hours since the last success.
ASSUME HealthAssumption ==
    /\ StaleHours \in Nat
    /\ \A source \in HealthInputs : \A r \in source.rows :
            /\ r.status \in {"healthy", "partial", "stale", "failed"}
            /\ r.age \in Nat \cup {None}

\* Numerators count some of what the denominators count.
Strata == [group : ToSet(SourceOrder), healthy : BOOLEAN, c : Nat, C : Nat, b : Nat, B : Nat]
ASSUME TrendAssumption ==
    \A strata \in TrendInputs :
        /\ strata \in Seq(Strata)
        /\ \A i \in DOMAIN strata : strata[i].c <= strata[i].C /\ strata[i].b <= strata[i].B

\* Hours; a custom range is a day or more (422 otherwise).
ASSUME WindowsAssumption ==
    /\ Offset \in Int
    /\ \A w \in WindowInputs :
        /\ w.asOf \in Int /\ w.complete \in BOOLEAN
        /\ IF w.range.kind = "custom"
           THEN w.range.from \in Int /\ w.range.to \in Int /\ w.range.from <= w.range.to
           ELSE w.range.days \in Nat \ {0}

\* Every week that has feedback counts the complaints of each topic.
ASSUME WeeksAssumption ==
    /\ TopicNames \in Seq(ToSet(TopicNames)) /\ WeeksRequired \in Nat
    /\ \A negatives \in WeekInputs :
        /\ IsFiniteSet(DOMAIN negatives) /\ DOMAIN negatives \subseteq Int
        /\ \A w \in DOMAIN negatives : negatives[w] \in [ToSet(TopicNames) -> Nat]

ASSUME CohortsAssumption ==
    /\ IsFiniteSet(Brands)
    /\ \A cohort \in CohortInputs :
        /\ IsFiniteSet(DOMAIN cohort)
        /\ \A k \in DOMAIN cohort, b \in Brands : cohort[k][b].n \in Nat /\ cohort[k][b].d \in Nat

\* Candidates have ids of their own.
ASSUME CandidatesAssumption ==
    /\ Limit \in Nat
    /\ \A candidates \in CandidateInputs :
        /\ IsFiniteSet(candidates)
        /\ \A c \in candidates : c.id \in Int /\ c.strength \in Int
        /\ \A c, e \in candidates : c.id = e.id => c = e

VARIABLES question, answer
vars == <<question, answer>>

Init == question = [kind |-> "none"] /\ answer = {}

Windowed == {"current", "baseline"} \X BOOLEAN
\* Rates and drivers are asked for with and without inferred dates, as the
\* setting voc_allow_inferred_dates has it; evidence has one answer.
CountUnits ==
    \E units \in UnitInputs :
        /\ question' = [kind |-> "units", units |-> units]
        /\ answer' = [counted |-> [w \in Windowed |-> Counted(units, w[1], w[2])],
                      cells |-> [w \in Windowed |-> RateCells(units, w[1], w[2])],
                      roles |-> EvidenceRoles(units, Head(SubtopicOrder)),
                      drivers |-> [i \in BOOLEAN |-> LikelyDrivers(units, i)]]

AssessHealth ==
    \E source \in HealthInputs :
        /\ question' = [kind |-> "health", rows |-> source.rows, records |-> source.records]
        /\ answer' = HealthReasons(source.rows, source.records)

\* All groups that were ever seen are required.
ComputeTrend ==
    \E strata \in TrendInputs :
        /\ question' = [kind |-> "trend", strata |-> strata,
                        required |-> {strata[i].group : i \in DOMAIN strata}]
        /\ answer' = Suppressions(strata, {strata[i].group : i \in DOMAIN strata})

\* An observation is stored without its groups, and read back with all of them.
DetectImproving ==
    \E strata \in TrendInputs, r \in References :
        LET reference == [share |-> r.share, healthy |-> r.healthy,
                          groups |-> ToSet(SourceOrder)]
        IN  /\ question' = [kind |-> "improving", strata |-> strata, reference |-> reference]
            /\ answer' = Improves(reference, strata, MinCurrent)

DetectRecurring ==
    \E negatives \in WeekInputs, healthy \in BOOLEAN, topic \in ToSet(TopicNames) :
        /\ question' = [kind |-> "recurring", negatives |-> negatives, healthy |-> healthy,
                        topic |-> topic]
        /\ answer' = Recurs(negatives, healthy, topic)

BuildWindows ==
    \E w \in WindowInputs :
        /\ question' = [kind |-> "windows", asOf |-> w.asOf, complete |-> w.complete,
                        range |-> w.range]
        /\ answer' = [analysis |-> Windows(w.asOf, w.complete, 7, 28),
                      dashboard |-> DashboardWindows(w.asOf, w.complete, w.range)]

CompareBrands ==
    \E cohort \in CohortInputs :
        /\ question' = [kind |-> "benchmark", cohort |-> cohort]
        /\ answer' = Benchmark(cohort)

RankToday ==
    \E candidates \in CandidateInputs :
        /\ question' = [kind |-> "today", candidates |-> candidates]
        /\ answer' = Today(candidates)

Next ==
    /\ question.kind = "none"
    /\ \/ CountUnits \/ AssessHealth \/ ComputeTrend \/ DetectImproving \/ DetectRecurring
       \/ BuildWindows \/ CompareBrands \/ RankToday

-----------------------------------------------------------------------------
(* Properties. *)

Asked(kind) == question.kind = kind

\* Which post stands for a repost group does not depend on the order in which
\* the database returns the rows.
RepresentativeIsStable ==
    Asked("units") => \A w \in Windowed :
        LET posts == {u \in ToSet(question.units) :
                        u.brand = Guardian /\ u.window = w[1] /\ TimeEligible(u, w[2])}
        IN  answer.counted[w] =
                {u \in posts : u.ok /\ \A v \in posts : v.group = u.group => u.id <= v.id}

\* However many sources repeat a text, it is counted in one cell of a window.
RepostsCountOnce ==
    Asked("units") => \A w \in Windowed :
        SumFunction([s \in ToSet(SourceOrder) |-> answer.cells[w][s].denominator])
            <= Cardinality({u.group : u \in {v \in ToSet(question.units) : v.window = w[1]}})

\* What a card names as its likely driver was counted as the issue, under
\* either setting of voc_allow_inferred_dates, and what it shows as evidence
\* was, under the default one: both collapse groups before they look at brands,
\* the rate looks at brands first.  With inferred dates allowed the rate may
\* count the inferred post of a group whose reported repost is the evidence.
EvidenceWasCounted ==
    Asked("units") =>
        LET counted(inferred) == {u \in answer.counted[<<"current", inferred>>] : Complains(u)}
        IN  /\ answer.roles.representative \cup answer.roles.supporting \subseteq counted(FALSE)
            /\ \A i \in BOOLEAN : \A d \in answer.drivers[i] : d.evidence \subseteq counted(i)

\* One connector that failed, never succeeded or went stale qualifies all
\* feedback of its group, however healthy the others are.
OneBadConnectorIsSeen ==
    Asked("health") /\ answer = {} =>
        /\ question.rows # {}
        /\ \A r \in question.rows : r.status = "healthy" /\ r.age # None /\ r.age <= StaleHours

\* The all-channel change lies between the smallest and the largest change of
\* a stratum: a different mix of sources alone moves nothing.
ChangeIsWithinStrata ==
    Asked("trend") =>
        LET strata == question.strata
            E == Eligible(strata)
            delta == Minus(CurrentShare(strata, E), BaselineShare(strata, E))
            change(i) == Minus(<<strata[i].c, strata[i].C>>, <<strata[i].b, strata[i].B>>)
        IN  E # {} => /\ \E i \in E : ~Less(delta, change(i))
                      /\ \E i \in E : ~Less(change(i), delta)

\* When a source fails, a topic that was no signal does not become one.
AFailingSourceNeverRaises ==
    Asked("trend") /\ answer # {} =>
        \A i \in DOMAIN question.strata :
            ~Qualifies([question.strata EXCEPT ![i].healthy = FALSE], question.required)

\* A feed that is missing cannot be mistaken for improvement: whatever the
\* numbers are, a group of the reference that lost its last stratum prevents it.
MissingFeedIsNotImprovement ==
    Asked("improving") /\ answer =>
        \A g \in question.reference.groups :
            ~Improves(question.reference,
                      [i \in DOMAIN question.strata |->
                          [question.strata[i] EXCEPT !.healthy = @ /\ question.strata[i].group # g]],
                      MinCurrent)

\* A recurring topic led several of the most recent weeks with complaints; an
\* old lead does not make up for a recent week.
RecurringIsRecent ==
    Asked("recurring") /\ answer =>
        LET weeks == {w \in DOMAIN question.negatives :
                        \E t \in ToSet(TopicNames) : question.negatives[w][t] > 0}
            recent == {w \in weeks : Cardinality({v \in weeks : v > w}) < Lookback}
            led(w) == Cardinality({t \in ToSet(TopicNames) :
                        question.negatives[w][t] > question.negatives[w][question.topic]}) < TopN
        IN  Cardinality({w \in recent : led(w)}) >= WeeksRequired

\* Analysis covers whole local days that are over (or the whole day of the
\* demo's anchor), the baseline ends where the current window starts, and the
\* dashboard of a range compares periods of one length; "all" has the windows
\* of the analysis, a week and the four before it.
WindowsAreWholeDays ==
    Asked("windows") =>
        LET a == answer.analysis
            d == answer.dashboard
            end == a.current[2]
        IN  /\ (end + Offset) % 24 = 0
            /\ IF question.complete THEN end > question.asOf /\ end <= question.asOf + 24
               ELSE end <= question.asOf /\ end > question.asOf - 24
            /\ a.baseline[2] = a.current[1] /\ d.baseline[2] = d.current[1]
            /\ d.current[2] - d.current[1] = d.baseline[2] - d.baseline[1]
            /\ d.current[1] < d.current[2] /\ (d.current[1] + Offset) % 24 = 0

\* A brand with the smaller share in every common stratum has the smaller
\* weighted share: the benchmark has no paradox of mixed cohorts.
ComparisonsAreFair ==
    Asked("benchmark") /\ answer # <<>> =>
        \A b, e \in Brands :
            (\A k \in Common(question.cohort) :
                ~Less(<<question.cohort[k][e].n, question.cohort[k][e].d>>,
                      <<question.cohort[k][b].n, question.cohort[k][b].d>>))
            => ~Less(answer[e], answer[b])

\* Today shows the strongest candidates: no weaker one for the sake of owners.
StrongestAreShown ==
    Asked("today") =>
        \A i \in DOMAIN answer : \A c \in question.candidates \ ToSet(answer) :
            c.healthy => c.strength <= answer[i].strength

\* Among equals, an owner without a card comes before one with a card.
TiesSpreadOwners ==
    Asked("today") =>
        \A i \in DOMAIN answer : \A c \in question.candidates \ ToSet(answer) :
            /\ c.healthy /\ c.strength = answer[i].strength
            /\ \E j \in 1 .. i - 1 : answer[j].owner = answer[i].owner
            => \E j \in 1 .. i - 1 : answer[j].owner = c.owner
=============================================================================
