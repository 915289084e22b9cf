----------------------------- MODULE DashboardViews -----------------------------
(***************************************************************************)
(* What readers of the service see (application.py 3201-4735): the product *)
(* dashboard, one problem in detail, whether the evidence is ready, and    *)
(* the list of feedback.                                                   *)
(*                                                                         *)
(* A row joins a piece of feedback with its analysis: [id, group, product, *)
(* source, brand, primary, trusted, day, inferred, analysis, relevant,     *)
(* intent, sentiment, problem, confidence, cards].  "trusted" stands for   *)
(* an attribution confident enough whose span is in the text; "cards" is the  *)
(* number of insights the row is evidence of; "analysis" is "none" without *)
(* an analysis and else the status of the row, which is "pending" or       *)
(* "failed" while the analysis is written or about to be deleted.  Days    *)
(* are local; the day is None when the date is missing.                    *)
(***************************************************************************)
EXTENDS CountedUnits, TrendSignals, MatchedCohorts

CONSTANTS
    EvidenceLimit,  \* DASHBOARD_EVIDENCE_LIMIT
    ReviewLimit,    \* the reviews of a problem that are shown
    ProductOrder,   \* the products, in alphabetical order
    PublicSources,  \* the source groups of public feedback
    MonthDays,      \* the days of a month
    LongRange,      \* above so many days the trend has a point for each month
    TrendMonths     \* the months of the trend of "all" and "1y"

ASSUME ViewsAssumption == EvidenceLimit \in Nat /\ MonthDays \in Nat \ {0}

Resolved(r) == IF r.brand # None THEN r.brand ELSE IF r.trusted THEN r.primary ELSE None
OnTime(r, inferred) == r.day # None /\ (r.inferred => inferred)
InPeriod(rows, window, inferred) ==
    {r \in rows : OnTime(r, inferred) /\ window[1] <= r.day /\ r.day < window[2]}

\* The period that is shown: the range, or else the preset, which only callers
\* in the process give.
PeriodOf(q) == IF q.range.name # "all" THEN q.range ELSE q.preset

\* Rows are read in the order of their ids; the first of a group stands for it.
Independent(rows) == {r \in rows : \A s \in rows : s.group = r.group => r.id <= s.id}
GuardianRows(rows) == {r \in Independent(rows) : Resolved(r) = Guardian}

HasAnalysis(r) == r.analysis # "none" /\ r.relevant
Completed(rows) == {r \in rows : r.analysis = "completed" /\ r.relevant}
Complaints(rows, problem) == {r \in rows : r.intent = "complaint" /\ r.problem = problem}

-----------------------------------------------------------------------------
(* Products. *)

Counts(period) ==
    LET with(field, value) == Cardinality({r \in Completed(period) : r[field] = value})
    IN  [feedback |-> Cardinality(period), complaints |-> with("intent", "complaint"),
         positive |-> with("sentiment", "positive"), neutral |-> with("sentiment", "neutral")]

ProductView(rows, product, windows, inferred) ==
    LET mine == {r \in GuardianRows(rows) : r.product = product}
        current == InPeriod(mine, windows.current, inferred)
        baseline == InPeriod(mine, windows.baseline, inferred)
        problems(part) == [q \in ToSet(SubtopicOrder) |-> Cardinality(Complaints(part, q))]
    IN  [current |-> Counts(current), baseline |-> Counts(baseline), overall |-> Counts(mine),
         problems |-> problems(Completed(current)),
         baselineProblems |-> problems(Completed(baseline)),
         allProblems |-> problems({r \in mine : HasAnalysis(r)})]

Products(rows, windows, inferred) ==
    [p \in {r.product : r \in GuardianRows(rows)} |-> ProductView(rows, p, windows, inferred)]

Order(p) == IF p = "unattributed" THEN 1 ELSE 0
\* The order of the products: complaints, feedback, attributed ones first, name.
Leads(products, p, q) ==
    LET key(x) == <<-products[x].current.complaints, -products[x].current.feedback, Order(x),
                    Rank(ProductOrder, x)>>
    IN  \E i \in 1 .. 4 : key(p)[i] < key(q)[i] /\ \A j \in 1 .. i - 1 : key(p)[j] = key(q)[j]

DataState(rows, windows, inferred) ==
    LET guardian == {r \in rows : Resolved(r) = Guardian}
    IN  IF rows = {} THEN "empty"
        ELSE IF \/ \E r \in rows : r.analysis = "none"
                \/ \A r \in rows : ~OnTime(r, inferred)
                \/ \A r \in rows : r.product = "unattributed"
                \/ guardian = {} \/ \E r \in guardian : r.product = "unattributed"
                \/ InPeriod(GuardianRows(rows), windows.current, inferred) = {}
                \/ InPeriod(GuardianRows(rows), windows.baseline, inferred) = {}
             THEN "partial" ELSE "ready"

-----------------------------------------------------------------------------
(* The sentiment trend: a point for each day or month. *)

Month(day) == day \div MonthDays

LastDay(window) == window[2] - 1

Monthly(range, window) ==
    range \in {"all", "1y"} \/ LastDay(window) - window[1] + 1 > LongRange
TrendPeriods(range, window) ==
    IF ~Monthly(range, window) THEN window[1] .. LastDay(window)
    ELSE IF range \in {"all", "1y"}
    THEN Month(LastDay(window)) - TrendMonths + 1 .. Month(LastDay(window))
    ELSE Month(window[1]) .. Month(LastDay(window))

SentimentTrend(rows, range, window, inferred) ==
    LET dated == {r \in Completed(GuardianRows(rows)) : OnTime(r, inferred)}
        period(r) == IF Monthly(range, window) THEN Month(r.day) ELSE r.day
    IN  [p \in TrendPeriods(range, window) |->
            Cardinality({r \in dated : period(r) = p
                            /\ r.sentiment \in {"positive", "neutral", "negative"}})]

TrendStart(range, window, dated) ==
    IF range = "all" /\ dated # {} THEN Min({r.day : r \in dated}) ELSE window[1]

\* The trend of one product has a point for each week that starts with it.
ProductTrend(rows, product, range, window, inferred) ==
    LET dated == {r \in GuardianRows(rows) : r.product = product /\ OnTime(r, inferred)}
        start == TrendStart(range, window, dated)
        kept == InPeriod(Completed(dated), <<start, window[2]>>, inferred)
        week(r) == (r.day - start) \div 7
        weeks == {week(r) : r \in {s \in kept :
                    s.sentiment \in {"positive", "neutral", "negative"}}}
    IN  IF weeks = {} THEN <<>>
        ELSE [w \in Min(weeks) .. Max(weeks) |->
                Cardinality({r \in kept : week(r) = w
                                /\ r.sentiment \in {"positive", "neutral", "negative"}})]

-----------------------------------------------------------------------------
(* Evidence: products take turns. *)

Later(r, s) == r.day # None /\ (s.day = None \/ r.day > s.day)
Newer(r, s) ==
    \/ Later(r, s)
    \/ r.day = s.day /\ r.confidence > s.confidence
    \/ r.day = s.day /\ r.confidence = s.confidence /\ r.id > s.id

\* A preset does not limit the evidence.
EvidenceRows(rows, range, window, inferred) ==
    LET proof == {r \in GuardianRows(rows) : HasAnalysis(r)}
    IN  IF range = "all" THEN proof ELSE InPeriod(proof, window, inferred)

Round(evidence, r) == Cardinality({s \in evidence : s.product = r.product /\ s # r /\ Newer(s, r)})
\* Broken variant: the newest are shown, whatever their product.
NewestFirst(products, evidence, s, r) == Newer(s, r)
Sooner(products, evidence, s, r) ==
    \/ Round(evidence, s) < Round(evidence, r)
    \/ Round(evidence, s) = Round(evidence, r) /\ Leads(products, s.product, r.product)

Sample(products, evidence) ==
    {r \in evidence :
        Cardinality({s \in evidence \ {r} : Sooner(products, evidence, s, r)}) < EvidenceLimit}

-----------------------------------------------------------------------------
(* The comparison with other brands. *)

OfBrands(rows) == {r \in Completed(rows) : Resolved(r) \in Brands}
EveryBrand(rows) ==
    \A b \in Brands : Cardinality({r \in rows : Resolved(r) = b}) >= MinSample

\* Matched public feedback of the window or else all feedback.
Basis(rows, window, inferred) ==
    LET current == OfBrands(InPeriod(Independent(rows), window, inferred))
        cohorts == {{r \in current : r.source = s} : s \in PublicSources}
        common == {c \in cohorts : EveryBrand(c)}
    IN  IF common # {} THEN UNION common ELSE OfBrands(Independent(rows))
Compared(rows, window, inferred) ==
    LET current == OfBrands(InPeriod(Independent(rows), window, inferred))
        matched == \E s \in PublicSources : EveryBrand({r \in current : r.source = s})
    IN  IF matched \/ EveryBrand(OfBrands(Independent(rows)))
        THEN [b \in Brands |->
                Counts({r \in Basis(rows, window, inferred) : Resolved(r) = b})]
        ELSE <<>>

-----------------------------------------------------------------------------
(* One problem in detail; both periods are None for all time. *)

\* Broken variant: the posts of a group are looked at one by one.
PostComplaints(rows) ==
    {r \in rows : Resolved(r) = Guardian /\ HasAnalysis(r) /\ r.intent = "complaint"}
DetailComplaints(rows) ==
    {r \in GuardianRows(rows) : HasAnalysis(r) /\ r.intent = "complaint"}

Reviews(rows) ==
    LET before(s, r) == Later(s, r) \/ (s.day = r.day /\ s.id > r.id)
    IN  {r \in rows : Cardinality({s \in rows \ {r} : before(s, r)}) < ReviewLimit}

Detail(rows, problem, period, previous, inferred) ==
    LET all == DetailComplaints(rows)
        current == IF period = None THEN all ELSE InPeriod(all, period, inferred)
        earlier == IF previous = None THEN {} ELSE InPeriod(all, previous, inferred)
    IN  [count |-> Cardinality(Complaints(current, problem)), total |-> Cardinality(current),
         previous |-> Cardinality(Complaints(earlier, problem)),
         reviews |-> Reviews(Complaints(current, problem))]

-----------------------------------------------------------------------------
(* Today: is there enough evidence to say anything? *)

\* The attribution is not checked again.
Claimed(r) == IF r.brand # None THEN r.brand ELSE r.primary

Readiness(rows, windows, inferred) ==
    LET signals == {r \in Completed(rows) : Claimed(r) = Guardian}
        groups(window) == {r.group : r \in InPeriod(signals, window, inferred)}
    IN  [current |-> Cardinality(groups(windows.current)),
         baseline |-> Cardinality(groups(windows.baseline)),
         sources |-> Cardinality({r.source : r \in InPeriod(signals,
                        <<windows.baseline[1], windows.current[2]>>, inferred)})]
Insufficient(ready) ==
    \/ ready.current < MinCurrent * MinSourceGroups
    \/ ready.baseline < MinBaseline * MinSourceGroups
    \/ ready.sources < MinSourceGroups

Incomplete(rows) ==
    100 * Cardinality({r \in rows : r.analysis \in {"completed", "low_confidence"}})
        < 80 * Cardinality(rows)

NextStep(rows, windows, inferred, health) ==
    IF Incomplete(rows) THEN "classify"
    ELSE IF Insufficient(Readiness(rows, windows, inferred)) THEN "connect"
    ELSE IF health # "healthy" THEN "restore" ELSE "none"

\* A source group as readers see it: its last success is its oldest one.
SourceView(connectors) ==
    [status |-> WorstStatus(connectors),
     success |-> IF \E c \in connectors : c.age = None THEN None
                 ELSE Max({c.age : c \in connectors})]
OverallHealth(groups) ==
    LET statuses == {SourceView(g).status : g \in groups}
    IN  IF "failed" \in statuses THEN "failed" ELSE IF "stale" \in statuses THEN "stale"
        ELSE IF groups = {} \/ "partial" \in statuses THEN "partial" ELSE "healthy"

-----------------------------------------------------------------------------
(* The list of feedback, newest first, a page at a time. *)

Matching(rows, brand, window) ==
    {r \in rows : /\ brand # None => Claimed(r) = brand
                  /\ window # None => r.day # None /\ window[1] <= r.day /\ r.day < window[2]}

\* Joined with the insights it is evidence of, feedback is grouped again.
Joined(rows) == UNION {{r} \X (1 .. (IF r.cards > 1 THEN r.cards ELSE 1)) : r \in rows}
Grouped(rows) == {pair[1] : pair \in Joined(rows)}

Listed(r, s) ==
    IF r.day = s.day THEN r.id < s.id
    ELSE r.day # None /\ (s.day = None \/ r.day > s.day)
Listing(rows) ==
    InOrder(Grouped(rows), {pair \in rows \X rows : Listed(pair[1], pair[2])})

Page(rows, brand, window, limit, offset) ==
    LET list == Listing(Matching(rows, brand, window))
        rest == Cardinality(Grouped(Matching(rows, brand, window))) - offset
    IN  [items |-> [i \in 1 .. (IF limit < rest THEN limit ELSE rest) |-> list[offset + i]],
         total |-> Cardinality(Matching(rows, brand, window))]
=============================================================================
