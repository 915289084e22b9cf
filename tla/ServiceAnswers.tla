---------------------------- MODULE ServiceAnswers ----------------------------
(***************************************************************************)
(* All that the service computes without changing its state, one question  *)
(* and answer at a time: what a rebuild asks of the analytics (in          *)
(* InsightAnalytics), what readers of the dashboard, of Today and of the   *)
(* list of feedback see (api/main.py 148-330 and application.py), the text *)
(* of a card and the units of an uploaded file.                            *)
(***************************************************************************)
EXTENDS InsightAnalytics, DashboardViews, CardText, ReviewFile

CONSTANTS
    AsOf,               \* the hour in which readers ask
    DashboardInputs,    \* [rows, range, preset, inferred]
    TodayInputs,        \* [rows, groups]: feedback and connectors by group
    PageInputs,         \* [rows, brand, window, limit]
    CardInputs,         \* [packet, replies]
    Drafts,             \* the drafts that replies may be
    ClassifyInputs,     \* [request, replies]
    Objects,            \* the objects that replies may be
    FileInputs          \* [lines, grouped, filter]

\* The rows of the database: each has a feedback id of its own.
IsRows(rows) ==
    /\ IsFiniteSet(rows)
    /\ \A r \in rows : /\ r.id \in Nat /\ r.day \in Int \cup {None} /\ r.cards \in Nat
                       /\ r.inferred \in BOOLEAN /\ r.confidence \in Nat
    /\ \A r, s \in rows : r.id = s.id => r = s
IsRange(range) ==
    IF range.kind = "custom" THEN range.from \in Int /\ range.to \in Int ELSE range.days \in Int
ASSUME RowsAssumption ==
    /\ Guardian # None /\ None \notin Int /\ None \notin Int \X Int
    /\ AsOf \in Int /\ Offset \in Int
    /\ MinSourceGroups \in Nat
    /\ \A q \in DashboardInputs : IsRows(q.rows) /\ IsRange(q.range) /\ IsRange(q.preset)
    /\ \A q \in TodayInputs : IsRows(q.rows)
    /\ \A q \in PageInputs :
        IsRows(q.rows) /\ q.limit \in Nat \ {0} /\ q.window \in {None} \cup (Int \X Int)

\* A reply is an object of the schema or one of three failures.
ASSUME RepliesAssumption ==
    /\ TransportRetries \in Nat /\ ValidationRetries \in Nat
    /\ {NoReply, Refused, Malformed} \cap Objects = {}
    /\ Malformed \notin {NoReply, Refused}
    /\ \A q \in ClassifyInputs :
        q.replies \in Seq({NoReply, Refused, Malformed} \cup Objects)

\* A line is blank, no object, or has a time that was parsed or was not.
IsLines(lines) ==
    /\ lines \in Seq(ToSet(lines))
    /\ \A n \in DOMAIN lines : lines[n] \notin {Blank, Bad} => lines[n].at \in Int \cup {NoValue}
ASSUME FilesAssumption ==
    /\ NoValue \notin Int /\ Unread \notin Int \cup {NoValue} /\ MaxRows \in Nat /\ Blank # Bad
    /\ \A q \in FileInputs : IsLines(q.lines)

\* Windows are whole local days, and so are the days of rows.
LocalDays(window) == <<(window[1] + Offset) \div 24, (window[2] + Offset) \div 24>>
AnalysisDays == LET w == Windows(AsOf, FALSE, 7, 28)
                IN  [current |-> LocalDays(w.current), baseline |-> LocalDays(w.baseline)]
DashboardDays(range) ==
    LET w == DashboardWindows(AsOf, FALSE, range)
    IN  IF range.name = "all" THEN AnalysisDays
        ELSE [current |-> LocalDays(w.current), baseline |-> LocalDays(w.baseline)]

\* A problem is looked at for all time and for the window of the dashboard.
ReadDashboard ==
    \E q \in DashboardInputs :
        LET period == PeriodOf(q).name
            windows == DashboardDays(PeriodOf(q))
            products == Products(q.rows, windows, q.inferred)
            details(now, before) == [p \in ToSet(SubtopicOrder) |->
                                    Detail(q.rows, p, now, before, q.inferred)]
        IN  /\ question' = [kind |-> "dashboard", rows |-> q.rows, range |-> q.range.name,
                            period |-> period, windows |-> windows, inferred |-> q.inferred]
            /\ answer' = [state |-> DataState(q.rows, windows, q.inferred),
                          products |-> products,
                          trend |-> SentimentTrend(q.rows, period, windows.current, q.inferred),
                          productTrends |-> [p \in DOMAIN products |->
                              ProductTrend(q.rows, p, period, windows.current, q.inferred)],
                          evidence |-> Sample(products, EvidenceRows(q.rows, q.range.name,
                                                          windows.current, q.inferred)),
                          comparison |-> Compared(q.rows, windows.current, q.inferred),
                          allDetails |-> details(None, None),
                          details |-> details(windows.current, windows.baseline)]

ReadToday ==
    \E q \in TodayInputs :
        /\ question' = [kind |-> "readiness", rows |-> q.rows, groups |-> q.groups]
        /\ answer' = [next |-> NextStep(q.rows, AnalysisDays, FALSE, OverallHealth(q.groups)),
                      sources |-> {SourceView(g) : g \in q.groups}]

\* A reader turns the pages until one is not full.
ListFeedback ==
    \E q \in PageInputs :
        /\ question' = [kind |-> "pages", rows |-> q.rows, brand |-> q.brand,
                        window |-> q.window]
        /\ answer' = [k \in 0 .. Cardinality(q.rows) |->
                        Page(q.rows, q.brand, q.window, q.limit, k * q.limit)]

Write ==
    \E q \in CardInputs :
        /\ question' = [kind |-> "card", packet |-> q.packet, replies |-> q.replies]
        /\ answer' = WriteCard(q.packet, q.replies, Drafts)

Valid(request) == {o \in Objects : ValidClassification(o, request)}
Classify ==
    \E q \in ClassifyInputs :
        /\ question' = [kind |-> "classification", request |-> q.request, replies |-> q.replies]
        /\ answer' = Request(q.replies, Valid(q.request), TRUE)

ParseFile ==
    \E q \in FileInputs :
        /\ question' = [kind |-> "file", lines |-> q.lines, grouped |-> q.grouped,
                        filter |-> q.filter]
        /\ answer' = ParseImport(q.lines, q.grouped, q.filter)

ServiceNext ==
    \/ Next
    \/ /\ question.kind = "none"
       /\ ReadDashboard \/ ReadToday \/ ListFeedback \/ Write \/ Classify \/ ParseFile

ServiceSpec == Init /\ [][ServiceNext]_vars

-----------------------------------------------------------------------------
(* Properties: the dashboard. *)

\* However many posts repeat a text, and whatever products they name, one
\* product counts it once.
RepostsReachOneProduct ==
    Asked("dashboard") =>
        SumFunction([p \in DOMAIN answer.products |-> answer.products[p].current.feedback])
            <= Cardinality({r.group : r \in {s \in question.rows :
                    /\ Resolved(s) = Guardian
                    /\ s.day # None /\ question.windows.current[1] <= s.day
                    /\ s.day < question.windows.current[2]}})

\* A problem has as many complaints in detail as on the dashboard, for all time;
\* in a period, and in the one it is compared with, it may only have more by
\* those whose analysis is of low confidence or still being written.
ProblemViewsAgree ==
    Asked("dashboard") => \A q \in ToSet(SubtopicOrder) :
        LET unsure == {r \in question.rows : HasAnalysis(r) /\ r.analysis # "completed" /\ r.problem = q}
            agree(shown, detail) == shown <= detail /\ detail <= shown + Cardinality(unsure)
            products == DOMAIN answer.products
        IN  /\ answer.allDetails[q].count
                    = SumFunction([p \in products |-> answer.products[p].allProblems[q]])
            /\ agree(SumFunction([p \in products |-> answer.products[p].problems[q]]),
                     answer.details[q].count)
            /\ question.period # "all" =>
                agree(SumFunction([p \in products |-> answer.products[p].baselineProblems[q]]),
                      answer.details[q].previous)

\* A dashboard that says it is ready has feedback to show for both periods,
\* all of it analysed and with a product.
ReadyIsComplete ==
    Asked("dashboard") /\ answer.state = "ready" =>
        LET products == DOMAIN answer.products
        IN  /\ SumFunction([p \in products |-> answer.products[p].current.feedback]) > 0
            /\ SumFunction([p \in products |-> answer.products[p].baseline.feedback]) > 0
            /\ "unattributed" \notin products
            /\ \A r \in question.rows : r.analysis # "none"

\* The trends of the products add up to the trend of the dashboard, when it
\* has a point for each day; months also have the days outside a period.
TrendsAgree ==
    Asked("dashboard") /\ question.period \in {"7d", "custom"} =>
        LET products == SumFunction([p \in DOMAIN answer.productTrends |->
                                        SumFunction(answer.productTrends[p])])
            dashboard == SumFunction(answer.trend)
        IN  IF Monthly(question.period, question.windows.current)
            THEN products <= dashboard ELSE products = dashboard

\* A product with much feedback leaves room for the evidence of the others: if
\* some of its evidence is not shown, no product shows two more.
EvidenceIsSpread ==
    Asked("dashboard") =>
        LET evidence == EvidenceRows(question.rows, question.range, question.windows.current,
                                     question.inferred)
            of(rows, p) == Cardinality({r \in rows : r.product = p})
        IN  \A p, q \in DOMAIN answer.products :
                of(answer.evidence, p) < of(evidence, p)
                    => of(answer.evidence, q) <= of(answer.evidence, p) + 1

\* Brands are compared only with enough feedback of each in what is shown,
\* also when it is undated feedback of all sources.
ComparedBrandsHaveEnough ==
    Asked("dashboard") /\ answer.comparison # <<>> =>
        \A b \in Brands : answer.comparison[b].feedback >= MinSample

-----------------------------------------------------------------------------
(* Properties: Today and the list of feedback. *)

\* The posts of a source that a signal counts.
SignalPosts(rows, window, source) ==
    LET posts == {r \in rows : /\ Resolved(r) = Guardian /\ r.day # None /\ ~r.inferred
                               /\ window[1] <= r.day /\ r.day < window[2]}
    IN  {r \in posts : /\ r.source = source /\ r.analysis = "completed" /\ r.relevant
                       /\ \A t \in posts : t.group = r.group => r.id <= t.id}
StrongSources(rows) ==
    {s \in {r.source : r \in rows} :
        /\ Cardinality(SignalPosts(rows, AnalysisDays.current, s)) >= MinCurrent
        /\ Cardinality(SignalPosts(rows, AnalysisDays.baseline, s)) >= MinBaseline}

\* Today never asks for more feedback when enough sources have what a signal
\* needs: readiness counts other posts of a group than the signal does.
ReadinessNeverHidesASignal ==
    Asked("readiness") /\ Cardinality(StrongSources(question.rows)) >= MinSourceGroups
        => answer.next # "connect"

\* The pages together have every piece of feedback that matches exactly once,
\* however many insights it is evidence of, and their total is right.
PagesCoverFeedback ==
    Asked("pages") =>
        LET found == {r \in question.rows :
                        /\ question.brand # None =>
                            \/ question.brand = r.brand
                            \/ r.brand = None /\ question.brand = r.primary
                        /\ question.window # None =>
                            r.day # None /\ r.day \in question.window[1] .. question.window[2] - 1}
            places == UNION {{k} \X DOMAIN answer[k].items : k \in DOMAIN answer}
        IN  /\ \A k \in DOMAIN answer :
                    ToSet(answer[k].items) \subseteq found /\ answer[k].total = Cardinality(found)
            /\ \A r \in found :
                    Cardinality({x \in places : answer[x[1]].items[x[2]] = r}) = 1

-----------------------------------------------------------------------------
(* Properties: answers of the provider. *)

\* Whatever the provider replies, a card that is written has only numbers,
\* evidence and actions of its facts, and an accepted brand that its source
\* does not fix is named in the text.
OnlyGroundedAnswersAreUsed ==
    /\ Asked("card") /\ answer.written =>
        /\ answer.draft.numbers \subseteq question.packet.numbers
        /\ ToSet(answer.draft.evidence) \subseteq ToSet(question.packet.evidence)
        /\ answer.draft.owner = Playbook.owner
    /\ Asked("classification") /\ answer.accepted =>
        \/ question.request.fixed # "none" \/ answer.reply.primary = "none"
        \/ answer.reply.brandSpan = "text"

\* One invalid reply, after as many failures as are retried, is not the end if
\* the service may ask again: a valid one that follows it is used.
OneBadReplyIsRepaired ==
    Asked("classification") /\ ValidationRetries > 0 =>
        LET valid == Valid(question.request)
            replies == question.replies
            fails(i, j) == \A k \in i .. j : replies[k] = NoReply
        IN  \A bad, good \in DOMAIN replies :
                /\ bad < good /\ replies[bad] \in (Objects \ valid) \cup {Malformed}
                /\ replies[good] \in valid
                /\ fails(1, bad - 1) /\ bad - 1 <= TransportRetries
                /\ fails(bad + 1, good - 1) /\ good - bad - 1 <= TransportRetries
                => answer.accepted /\ answer.reply = replies[good]

\* The template that replaces a rejected reply can always be used.
FallbackIsSafe == Asked("card") => answer.written

-----------------------------------------------------------------------------
(* Properties: files. *)

\* Every line that is not blank is part of exactly one unit, valid or not.
EveryRowIsAccounted ==
    Asked("file") /\ ~answer.rejected =>
        LET units == {u.rows : u \in answer.valid \cup answer.quarantined}
        IN  \A n \in DOMAIN question.lines :
                Cardinality({u \in units : n \in ToSet(u)})
                    = IF question.lines[n] = Blank THEN 0 ELSE 1

\* The text of a conversation is in the order of its times, wherever the
\* messages are in the file.
TranscriptsAreChronological ==
    Asked("file") =>
        \A u \in answer.valid : \A i, j \in DOMAIN u.text :
            LET at(k) == question.lines[u.text[k]].at
            IN  i < j /\ at(j) # NoValue => at(i) # NoValue /\ at(i) <= at(j)

\* A line that cannot be read changes nothing for the others.
BadRowsHarmNoNeighbour ==
    Asked("file") /\ ~answer.rejected =>
        answer.valid = ParseImport([n \in DOMAIN question.lines |->
                            IF question.lines[n] = Bad THEN Blank ELSE question.lines[n]],
                        question.grouped, question.filter).valid
-----------------------------------------------------------------------------
(* What is checked of each kind of answer. *)

\* Reposts count once wherever the service counts: in the rate, in its
\* evidence and driver, and on the dashboard, whatever order rows come in.
CountsAreIndependent ==
    /\ RepresentativeIsStable /\ RepostsCountOnce
    /\ EvidenceWasCounted /\ RepostsReachOneProduct

\* A change is one of customers: neither the mix of sources or cohorts nor the
\* choice of days or weeks makes one.
ChangesAreMeasured ==
    /\ ChangeIsWithinStrata /\ ComparisonsAreFair
    /\ WindowsAreWholeDays /\ RecurringIsRecent

\* The health of sources only ever takes signals away, is never hidden by a
\* healthy neighbour, and is not confused with a lack of feedback.
HealthIsRespected ==
    /\ OneBadConnectorIsSeen /\ AFailingSourceNeverRaises
    /\ MissingFeedIsNotImprovement /\ ReadinessNeverHidesASignal

\* What is shown of many is the strongest, then spread over owners, products
\* and brands.
SelectionIsFair ==
    /\ StrongestAreShown /\ TiesSpreadOwners
    /\ EvidenceIsSpread /\ ComparedBrandsHaveEnough

\* Views that are computed apart agree about the same feedback.
ViewsAgree ==
    ProblemViewsAgree /\ TrendsAgree /\ ReadyIsComplete /\ PagesCoverFeedback

\* Whatever the provider replies, and in whatever order, what is used of it is
\* grounded, and one bad reply is not the end.
RepliesAreJudged == OnlyGroundedAnswersAreUsed /\ OneBadReplyIsRepaired

\* A file is read as a whole, in the order of its conversations, and bad lines
\* cost nothing but themselves.
FilesAreReadWhole ==
    EveryRowIsAccounted /\ TranscriptsAreChronological /\ BadRowsHarmNoNeighbour
=============================================================================
