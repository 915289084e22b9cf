----------------------------- MODULE CountedUnits -----------------------------
(***************************************************************************)
(* Which pieces of feedback an insight counts and which it shows as        *)
(* evidence: repost groups collapsed to one unit (analytics/metrics.py),   *)
(* the cells of a rate (analytics/trends.py), likely drivers               *)
(* (analytics/drivers.py) and evidence (application.py 2115-2183).         *)
(*                                                                         *)
(* The database returns the units in any order: they are a sequence.  A    *)
(* unit is [id, group, brand, source, quality, window, ok, topical,        *)
(* sentiment, subtopic]; "ok" stands for a relevant, completed analysis,   *)
(* "topical" for one whose topic is the one the card is about.             *)
(***************************************************************************)
EXTENDS Naturals, FiniteSets, Sequences, SequencesExt

CONSTANTS
    SourceOrder,    \* the source groups, in alphabetical order
    SubtopicOrder,  \* the subtopics, in alphabetical order
    Guardian,       \* the brand whose feedback an insight is about
    DriverSupport   \* rank_likely_drivers' minimum_support

\* Where a value stands in an alphabetical order.
Rank(order, x) == CHOOSE i \in 1 .. Len(order) : order[i] = x

TimeEligible(u, inferred) == u.quality = "reported" \/ (u.quality = "inferred" /\ inferred)

\* The unit with the smallest id stands for its repost group.
OneOfGroup(kept, u) ==
    IF \E v \in kept : v.group = u.group /\ v.id <= u.id THEN kept
    ELSE {v \in kept : v.group # u.group} \cup {u}

\* The units that stand for the eligible ones among the first n.
Selection(units, eligible) ==
    LET selected[n \in 0 .. Len(units)] ==
            IF n = 0 THEN {}
            ELSE IF units[n] \in eligible THEN OneOfGroup(selected[n - 1], units[n])
            ELSE selected[n - 1]
    IN  selected
Collapse(units, eligible) == Selection(units, eligible)[Len(units)]

EligibleUnits(units, window, inferred) ==
    {u \in ToSet(units) : TimeEligible(u, inferred) /\ u.window = window}
\* Broken variant: every post counts.
EveryPost(units, window, inferred) == EligibleUnits(units, window, inferred)
InWindow(units, window, inferred) == Collapse(units, EligibleUnits(units, window, inferred))

-----------------------------------------------------------------------------
(* The rate: brand first, then window, then stratum. *)

Counted(units, window, inferred) ==
    {u \in Collapse(units, {v \in EligibleUnits(units, window, inferred) : v.brand = Guardian}) :
        u.ok}

\* A piece of feedback complains about the topic.
Complains(u) == u.sentiment = "negative" /\ u.topical

\* Numerator and denominator of every source's cell: the complaints about the
\* topic among what was said of any topic.
RateCells(units, window, inferred) ==
    [s \in ToSet(SourceOrder) |->
        LET all == {u \in Counted(units, window, inferred) : u.source = s}
        IN  [denominator |-> Cardinality(all),
             numerator |-> Cardinality({u \in all : Complains(u)})]]

-----------------------------------------------------------------------------
(* Evidence and drivers: window first, then brand. *)

Issue(units, window, inferred) ==
    {u \in InWindow(units, window, inferred) :
        u.brand = Guardian /\ u.ok /\ Complains(u)}

\* Evidence never has an inferred date, whatever the settings allow.
EvidenceIssue(units) == Issue(units, "current", FALSE)

\* The preferred subtopic first, then by source, then by id.
ShownBefore(preferred, u, v) ==
    LET key(x) == <<IF x.subtopic = preferred THEN 0 ELSE 1, Rank(SourceOrder, x.source), x.id>>
    IN  \E i \in 1 .. 3 : key(u)[i] < key(v)[i] /\ \A j \in 1 .. i - 1 : key(u)[j] = key(v)[j]

\* One representative of each source, up to four, then others, up to six.
Representatives(preferred, issue) ==
    {u \in issue : \A v \in issue \ {u} : v.source = u.source => ShownBefore(preferred, u, v)}
Supporting(preferred, issue) ==
    LET rest == issue \ Representatives(preferred, issue)
        room == 6 - Cardinality(Representatives(preferred, issue))
    IN  {u \in rest : Cardinality({v \in rest : ShownBefore(preferred, v, u)}) < room}
Praise(units) ==
    {u \in InWindow(units, "current", FALSE) :
        u.brand = Guardian /\ u.ok /\ u.topical /\ u.sentiment = "positive"}

EvidenceRoles(units, preferred) ==
    LET issue == EvidenceIssue(units)
        praise == Praise(units)
    IN  [representative |-> Representatives(preferred, issue),
         supporting |-> Supporting(preferred, issue),
         counterexample |-> IF praise = {} THEN {} ELSE {CHOOSE u \in praise :
             \A v \in praise : u.group <= v.group}]

\* A candidate driver is one value of one dimension of the issue.
DriverValue(u, dimension) ==
    CASE dimension = "source_group" -> u.source
      [] dimension = "subtopic" -> u.subtopic
Candidates(units, inferred) ==
    LET current == Issue(units, "current", inferred)
        baseline == Issue(units, "baseline", inferred)
        with(issue, d, x) == {u \in issue : DriverValue(u, d) = x}
        scale == IF baseline = {} THEN 1 ELSE Cardinality(baseline)
        candidate(d, x) ==
            LET n == Cardinality(with(current, d, x))
                b == Cardinality(with(baseline, d, x))
            IN  [dimension |-> d, value |-> x, support |-> n, baseline |-> b,
                 excess |-> IF n * scale > Cardinality(current) * b
                            THEN n * scale - Cardinality(current) * b ELSE 0,
                 breadth |-> Cardinality({u.source : u \in with(current, d, x)}),
                 evidence |-> with(current, d, x)]
        values(d) == {DriverValue(u, d) : u \in current} \ {"other"}
    IN  {c \in UNION {{candidate(d, x) : x \in values(d)} : d \in {"source_group", "subtopic"}} :
            c.support >= DriverSupport}

\* Two sources before one, then excess, then support, then lift (with equal
\* support, the smaller the baseline the larger the lift).
DriverKey(c) == <<IF c.breadth >= 2 THEN 1 ELSE 0, c.excess, c.support>>
Precedes(c, e) ==
    \/ \E i \in 1 .. 3 : /\ DriverKey(c)[i] > DriverKey(e)[i]
                         /\ \A j \in 1 .. i - 1 : DriverKey(c)[j] = DriverKey(e)[j]
    \/ DriverKey(c) = DriverKey(e) /\ c.baseline < e.baseline

\* What generate_insight_card may name as the likely driver; the last fields of
\* the key, which only make the order reproducible, are left out.
LikelyDrivers(units, inferred) ==
    LET all == Candidates(units, inferred)
    IN  {c \in all : \A e \in all : ~Precedes(e, c)}
=============================================================================
