--------------------------- MODULE LiveAcquisition ---------------------------
(***************************************************************************)
(* The live acquisition data layer (src/guardian_voc/data_layer.py): one   *)
(* run seeds the product catalog, searches, reads pages, sends what Fetch  *)
(* cannot read to an agent, extracts customer units with a model and       *)
(* ingests them.  Every stage is paid for by the request and records what  *)
(* it did in an autocommitted statement, so that a later run resumes where *)
(* an interrupted one stopped.                                             *)
(*                                                                         *)
(* A page is a row of discovery_results: a source and a canonical URL.     *)
(* Two sources may discover one URL; their rows then share one entry of    *)
(* page_reader_cache.  A content stands for a title and a text, and for    *)
(* the hash that names the fetch.                                          *)
(***************************************************************************)
EXTENDS Naturals, FiniteSets, SequencesExt

CONSTANTS
    PageOrder,      \* the pages by source_id and canonical_url
    Url,            \* the canonical URL of each page
    Catalog,        \* the pages the catalog checkpoint lists
    Anchored,       \* those of them that show a review anchor
    Atomic,         \* the pages that hold one post, or a product page
    Contents,       \* what a reader may find,
    ContentsAt,     \* and where it may find it
    Readable,       \* the contents that are long enough and show no login wall
    UnitsIn,        \* the customer units of each content
    Vietnamese,     \* the units in Vietnamese
    Day,            \* the day a unit states, or NoDay
    NoDay,
    NoText,         \* a URL without a row in page_reader_cache
    Options,        \* the calls of run(): [stages, refresh, limit, window]
    BatchSize,      \* the URLs of one Fetch request (10 in the code)
    Concurrency,    \* the agent runs at a time
    MaxPolls,       \* the polls that fit into timeout_seconds
    MaxRuns,        \* bound on the runs
    MaxUpsets       \* bound on interrupted runs and deployments together

Pages == ToSet(PageOrder)
Urls == {Url[p] : p \in Pages}
Units == UNION {UnitsIn[c] : c \in Contents}
Readers == {"fetch", "agent"}

ASSUME PagesAssumption ==
    /\ PageOrder \in Seq(Pages)
    /\ \A i, j \in DOMAIN PageOrder : PageOrder[i] = PageOrder[j] => i = j
    /\ Anchored \subseteq Catalog /\ Catalog \subseteq Pages /\ Atomic \subseteq Pages
ASSUME ContentsAssumption ==
    /\ Readable \subseteq Contents /\ Vietnamese \subseteq Units
    /\ "error" \notin Contents /\ NoText \notin Contents
    /\ \A u \in Urls : ContentsAt[u] \subseteq Contents
ASSUME LimitsAssumption ==
    /\ BatchSize \in Nat \ {0} /\ Concurrency \in Nat \ {0} /\ MaxPolls \in Nat
    /\ MaxRuns \in Nat /\ MaxUpsets \in Nat

VARIABLES
    policy,         \* the pages the deployed source registry allows to fetch
    contract,       \* the deployed extraction model and prompt
    found,          \* discovery_results.eligible_for_fetch of each page
    provider,       \* discovery_results.provider
    attempts,       \* fetch_attempts, ordered by fetched_at
    cache,          \* page_reader_cache
    extractions,    \* page_extractions
    stored,         \* the units in feedback_items, with the URL they came from
    ingestions,     \* ingestion_runs: what the ingestion of each run ended as
    stage,          \* where the run is
    plan,           \* the stages after it
    opts,           \* the arguments of the run
    rows,           \* the pages the stage has still to look at
    texts,          \* the reads and texts that are still to be extracted
    answers,        \* pages that were read and are not recorded yet
    caching,        \* the first of them is in fetch_attempts, not in the cache
    tasks,          \* the agent's coroutines: none, queued or running
    polls,          \* the polls of a running coroutine
    staged,         \* extracted units that are not ingested yet
    runs, cuts, deploys

registry == <<policy, contract, deploys>>
discovery == <<found, provider>>
reads == <<attempts, cache>>
results == <<extractions, stored, ingestions>>
place == <<stage, plan, opts>>
work == <<rows, texts, answers, caching, tasks, polls, staged>>
vars == <<registry, discovery, reads, results, place, work, runs, cuts>>

NoOptions == [stages |-> {}, refresh |-> FALSE, limit |-> 0, window |-> {}]
NoTasks == [p \in Pages |-> "none"]
NoPolls == [p \in Pages |-> 0]

Init ==
    /\ policy = Pages /\ contract = 0 /\ deploys = 0
    /\ found = [p \in Pages |-> "none"] /\ provider = found
    /\ attempts = <<>> /\ cache = [u \in Urls |-> NoText]
    /\ extractions = {} /\ stored = {} /\ ingestions = [r \in 1 .. MaxRuns |-> "none"]
    /\ stage = "idle" /\ plan = {} /\ opts = NoOptions
    /\ rows = {} /\ texts = {} /\ answers = {} /\ caching = FALSE
    /\ tasks = NoTasks /\ polls = NoPolls /\ staged = {}
    /\ runs = 0 /\ cuts = 0

-----------------------------------------------------------------------------
(* What the stages select. *)

\* The status of a read is a function of the reader and of what it read: the
\* error stands for a failed request, a missing result and a refused redirect.
Status(reader, key) ==
    IF key \in Readable THEN "usable"
    ELSE IF key = "error" THEN "failed"
    ELSE IF reader = "agent" THEN "no_customer_voice"
    ELSE "blocked_or_empty"

\* Only a usable read can be extracted, and goes on to the cache.
Usable(a) == Status(a.reader, a.key) = "usable"

\* The rows of a query come in the order of the pages, at most n of them.
Before(p, q) == \E i, j \in DOMAIN PageOrder : i < j /\ PageOrder[i] = p /\ PageOrder[j] = q
First(n, ps) == {p \in ps : Cardinality({q \in ps : Before(q, p)}) < n}
Limited(ps) == First(opts.limit, ps)
Foremost(ps) == CHOOSE p \in ps : \A q \in ps : ~Before(q, p)

\* The usable reads of a page by their places in fetch_attempts.
UsableOn(p) == {i \in DOMAIN attempts : attempts[i].page = p /\ Usable(attempts[i])}
Newest(places) == attempts[CHOOSE i \in places : \A j \in places : j <= i]

\* Every discovered page is checked against the registry again.
Discovered == {p \in Pages : found[p] # "none"}
Unread(p) == found[p] = "eligible" /\ (opts.refresh \/ UsableOn(p) = {})
ToFetch == Limited({p \in Pages : Unread(p)})

\* The agent is kept for catalog products with a review anchor.
AgentDone(p) == \E a \in ToSet(attempts) :
    /\ a.page = p /\ a.reader = "agent"
    /\ Status("agent", a.key) \in {"usable", "no_customer_voice"}
Askable(p) ==
    /\ found[p] = "eligible" /\ provider[p] = "catalog" /\ p \in Anchored
    /\ opts.refresh \/ ~AgentDone(p)
ToAsk == Limited({p \in Pages : Askable(p)})

SettledStatuses == {"completed", "no_customer_voice", "filtered_non_vietnamese",
                    "filtered_out_of_period", "skipped_non_atomic"}

\* The row of page_extractions for a read under the deployed contract.
ExtractionsOf(a) == {e \in extractions : e.read = a /\ e.contract = contract}

SettledRead(a) == \E e \in ExtractionsOf(a) : e.status \in SettledStatuses

\* The newest usable read of a page, joined with the cache by URL.
Extractable(p) ==
    /\ UsableOn(p) # {} /\ cache[Url[p]] # NoText
    /\ opts.refresh \/ ~SettledRead(Newest(UsableOn(p)))
ToExtract == {[read |-> Newest(UsableOn(p)), text |-> cache[Url[p]]] :
                 p \in Limited({q \in Pages : Extractable(q)})}

-----------------------------------------------------------------------------
(* A run and its stages. *)

StageOrder == <<"seed", "discover", "revalidate", "agent", "extract", "manifest">>
Stages == ToSet(StageOrder)
NextStage == CHOOSE s \in plan : \A t \in plan \ {s} :
    \E i, j \in DOMAIN StageOrder : i < j /\ StageOrder[i] = s /\ StageOrder[j] = t

\* Going on to a stage starts with the query that selects its work.
Enter(s) ==
    /\ stage' = s
    /\ rows' = IF s = "revalidate" THEN Discovered ELSE {}
    /\ texts' = IF s = "extract" THEN ToExtract ELSE {}
    /\ tasks' = [p \in Pages |-> IF s = "agent" /\ p \in ToAsk THEN "queued" ELSE "none"]
    /\ polls' = NoPolls

Advance == Enter(NextStage) /\ plan' = plan \ {NextStage}

Begin == \E o \in Options :
    /\ stage = "idle" /\ runs < MaxRuns
    /\ stage' = "begin" /\ opts' = o /\ runs' = runs + 1
    /\ plan' = (Stages \cap o.stages) \cup {"manifest"}
    /\ UNCHANGED <<registry, discovery, reads, results, work, cuts>>

StageEnds ==
    /\ \/ stage \in {"begin", "seed", "discover"}
       \/ stage = "fetch" /\ rows = {} /\ answers = {}
       \/ stage = "agent" /\ tasks = NoTasks /\ answers = {}
    /\ Advance
    /\ UNCHANGED <<registry, discovery, reads, results, opts, answers, caching,
                   staged, runs, cuts>>

\* Insert or refresh a row of discovery_results, with today's decision.
Upsert(p, by) ==
    /\ found' = [found EXCEPT ![p] = IF p \in policy THEN "eligible" ELSE "refused"]
    /\ provider' = [provider EXCEPT ![p] = by]
    /\ UNCHANGED <<registry, reads, results, place, work, runs, cuts>>

SeedProduct == stage = "seed" /\ \E p \in Catalog : Upsert(p, "catalog")
FindPage == stage = "discover" /\ \E p \in Pages : Upsert(p, "search")

-----------------------------------------------------------------------------
(* Reading pages with Fetch. *)

\* Broken variant: the decision made at discovery is trusted.
TrustDiscovery ==
    /\ stage = "revalidate" /\ rows # {}
    /\ rows' = rows \ {Foremost(rows)}
    /\ UNCHANGED <<registry, discovery, reads, results, place, texts, answers, caching,
                   tasks, polls, staged, runs, cuts>>

Revalidate ==
    /\ stage = "revalidate" /\ rows # {}
    /\ LET p == Foremost(rows) IN
          /\ found' = [found EXCEPT ![p] = IF p \in policy THEN "eligible" ELSE "refused"]
          /\ rows' = rows \ {p}
    /\ UNCHANGED <<registry, provider, reads, results, place, texts, answers, caching,
                   tasks, polls, staged, runs, cuts>>

SelectUnread ==
    /\ stage = "revalidate" /\ rows = {}
    /\ stage' = "fetch" /\ rows' = ToFetch
    /\ UNCHANGED <<registry, discovery, reads, results, plan, opts, texts, answers, caching,
                   tasks, polls, staged, runs, cuts>>

Batch == First(BatchSize, rows)

\* One request for a batch: an answer per URL, or one error for all of them.
RequestBatch ==
    /\ stage = "fetch" /\ rows # {} /\ answers = {}
    /\ \E result \in [{Url[p] : p \in Batch} -> Contents \cup {"error"}] :
          /\ \A u \in DOMAIN result : result[u] \in ContentsAt[u] \cup {"error"}
          /\ answers' = {[page |-> p, reader |-> "fetch", key |-> result[Url[p]]] : p \in Batch}
    /\ rows' = rows \ Batch
    /\ UNCHANGED <<registry, discovery, reads, results, place, texts, caching, tasks, polls,
                   staged, runs, cuts>>

\* Answers are recorded in the order of their pages.
Answer == CHOOSE a \in answers : \A b \in answers : ~Before(b.page, a.page)

\* A log without one of its rows.
Without(log, a) ==
    IF a \in ToSet(log) THEN RemoveAt(log, CHOOSE i \in DOMAIN log : log[i] = a) ELSE log

\* The fetch id is a hash of the page, the reader and the content or error: a
\* read that repeats an earlier one moves its row instead of adding one.
RecordRead ==
    /\ answers # {} /\ ~caching
    /\ attempts' = Append(Without(attempts, Answer), Answer)
    /\ caching' = Usable(Answer)
    /\ answers' = IF Usable(Answer) THEN answers ELSE answers \ {Answer}
    /\ UNCHANGED <<registry, discovery, cache, results, place, rows, texts, tasks, polls,
                   staged, runs, cuts>>

\* Broken variant: the first text of a URL stays in the cache.
KeepText ==
    /\ caching
    /\ cache' = [cache EXCEPT ![Url[Answer.page]] = IF @ = NoText THEN Answer.key ELSE @]
    /\ caching' = FALSE /\ answers' = answers \ {Answer}
    /\ UNCHANGED <<registry, discovery, attempts, results, place, rows, texts, tasks, polls, staged,
                   runs, cuts>>

CacheText ==
    /\ caching
    /\ cache' = [cache EXCEPT ![Url[Answer.page]] = Answer.key]
    /\ caching' = FALSE /\ answers' = answers \ {Answer}
    /\ UNCHANGED <<registry, discovery, attempts, results, place, rows, texts, tasks, polls, staged,
                   runs, cuts>>

-----------------------------------------------------------------------------
(* Reading product pages with the agent: one coroutine per page. *)

Running(p) == tasks[p] = "running"
AgentReads(p, key) == answers' = {[page |-> p, reader |-> "agent", key |-> key]}
AgentStep == stage = "agent" /\ answers = {}
             /\ UNCHANGED <<registry, discovery, reads, results, place, rows, texts, caching,
                            staged, runs, cuts>>

\* A started run holds a place of the semaphore until its page is recorded.
Submit(p) ==
    /\ AgentStep /\ tasks[p] = "queued"
    /\ Cardinality({q \in Pages : Running(q)}) < Concurrency
    /\ \/ tasks' = [tasks EXCEPT ![p] = "running"] /\ UNCHANGED answers
       \/ tasks' = [tasks EXCEPT ![p] = "none"] /\ AgentReads(p, "error")
    /\ UNCHANGED polls

\* Broken variant: the deadline is not counted down.
PollForever(p) ==
    /\ AgentStep /\ Running(p) /\ polls[p] < MaxPolls
    /\ UNCHANGED <<tasks, polls, answers>>

PollAgain(p) ==
    /\ AgentStep /\ Running(p) /\ polls[p] < MaxPolls
    /\ polls' = [polls EXCEPT ![p] = @ + 1] /\ UNCHANGED <<tasks, answers>>

EndsWith(p, key) ==
    /\ AgentStep /\ Running(p)
    /\ tasks' = [tasks EXCEPT ![p] = "none"] /\ polls' = [polls EXCEPT ![p] = 0]
    /\ AgentReads(p, key)

\* The poll fails, or returns a terminal status and perhaps reviews.
AgentAnswers(p) ==
    polls[p] < MaxPolls /\ \E key \in ContentsAt[Url[p]] \cup {"error"} : EndsWith(p, key)
AgentTimesOut(p) == polls[p] = MaxPolls /\ EndsWith(p, "error")

-----------------------------------------------------------------------------
(* Extracting and ingesting customer units. *)

InWindow(u) == Day[u] = NoDay \/ Day[u] \in opts.window
Accepted(c) == {u \in UnitsIn[c] \cap Vietnamese : InWindow(u)}

ExtractedStatus(c) ==
    IF Accepted(c) # {} THEN "completed"
    ELSE IF UnitsIn[c] = {} THEN "no_customer_voice"
    ELSE IF UnitsIn[c] \cap Vietnamese = {} THEN "filtered_non_vietnamese"
    ELSE "filtered_out_of_period"

Extracting == stage = "extract" /\ texts # {}
Text == CHOOSE r \in texts : \A q \in texts : ~Before(q.read.page, r.read.page)

Written(status) ==
    /\ extractions' = (extractions \ ExtractionsOf(Text.read)) \cup
          {[read |-> Text.read, contract |-> contract, status |-> status,
            text |-> Text.text, units |-> Accepted(Text.text), run |-> runs]}
    /\ texts' = texts \ {Text}
    /\ UNCHANGED <<registry, discovery, reads, stored, ingestions, place, rows, answers,
                   caching, tasks, polls, runs, cuts>>

SkipNonAtomic ==
    /\ Extracting /\ Text.read.page \notin Atomic
    /\ Written("skipped_non_atomic") /\ UNCHANGED staged

OnUrl(p, us) == {Url[p]} \X us

ExtractPage ==
    /\ Extracting /\ Text.read.page \in Atomic
    /\ Written(ExtractedStatus(Text.text))
    /\ staged' = staged \cup OnUrl(Text.read.page, Accepted(Text.text))

\* Broken variant: a failed page takes the units of the pages before it along.
ForgetStaged ==
    /\ Extracting /\ Text.read.page \in Atomic
    /\ Written("failed")
    /\ staged' = {}

\* The provider or a unit raises: units that were accepted before stay staged.
ExtractFails ==
    /\ Extracting /\ Text.read.page \in Atomic
    /\ Written("failed")
    /\ \E us \in SUBSET Accepted(Text.text) :
          staged' = staged \cup OnUrl(Text.read.page, us)

Ingesting ==
    /\ stage = "extract" /\ texts = {}
    /\ UNCHANGED <<registry, discovery, reads, extractions, opts, answers, caching,
                   runs, cuts>>

\* A unit that is there already is skipped.
IngestUnit ==
    /\ Ingesting
    /\ \E x \in staged : stored' = stored \cup {x} /\ staged' = staged \ {x}
    /\ UNCHANGED <<ingestions, stage, plan, rows, texts, tasks, polls>>

IngestionEnds(status) ==
    /\ Ingesting
    /\ ingestions' = [ingestions EXCEPT ![runs] = status]
    /\ Advance
    /\ staged' = {} /\ UNCHANGED stored

\* A unit cannot be normalised or inserted: the units after it are dropped, the
\* ingestion run is partial or failed, and the acquisition goes on regardless.
IngestFails == staged # {} /\ IngestionEnds("failed")

IngestEnds == staged = {} /\ IngestionEnds("completed")

BuildManifest ==
    /\ stage = "manifest"
    /\ stage' = "idle" /\ opts' = NoOptions
    /\ UNCHANGED <<registry, discovery, reads, results, plan, work, runs, cuts>>

\* A statement raises or the process ends: what is in memory is lost.
Cut ==
    /\ stage # "idle" /\ cuts + deploys < MaxUpsets
    /\ cuts' = cuts + 1
    /\ stage' = "idle" /\ plan' = {} /\ opts' = NoOptions
    /\ rows' = {} /\ texts' = {} /\ answers' = {} /\ caching' = FALSE
    /\ tasks' = NoTasks /\ polls' = NoPolls /\ staged' = {}
    /\ UNCHANGED <<registry, discovery, reads, results, runs>>

\* A new version is installed: another registry or another extractor.
Deploy ==
    /\ stage = "idle" /\ cuts + deploys < MaxUpsets
    /\ deploys' = deploys + 1
    /\ \/ \E p \in Pages : policy' = policy \ {p} /\ UNCHANGED contract
       \/ contract' = contract + 1 /\ UNCHANGED policy
    /\ UNCHANGED <<discovery, reads, results, place, work, runs, cuts>>

\* What the program does by itself; every request of its own has a timeout.
RunStep ==
    \/ StageEnds \/ SeedProduct \/ FindPage
    \/ Revalidate \/ SelectUnread \/ RequestBatch \/ RecordRead \/ CacheText
    \/ \E p \in Pages : Submit(p) \/ PollAgain(p) \/ AgentTimesOut(p)
    \/ SkipNonAtomic \/ ExtractPage \/ ExtractFails
    \/ IngestUnit \/ IngestFails \/ IngestEnds \/ BuildManifest

Next == Begin \/ RunStep \/ (\E p \in Pages : AgentAnswers(p)) \/ Cut \/ Deploy

Spec == Init /\ [][Next]_vars

\* A running process goes on; no agent has to answer and nobody starts a run.
FairSpec == Spec /\ WF_vars(RunStep)

-----------------------------------------------------------------------------
(* Properties. *)

Reads == [page : Pages, reader : Readers, key : Contents \cup {"error"}]

\* The tables hold rows of their kinds, and a read is recorded once.
TypeOK ==
    /\ policy \subseteq Pages /\ contract \in 0 .. MaxUpsets /\ deploys \in 0 .. MaxUpsets
    /\ found \in [Pages -> {"none", "eligible", "refused"}]
    /\ provider \in [Pages -> {"none", "catalog", "search"}]
    /\ attempts \in Seq(Reads) /\ IsInjective(attempts)
    /\ cache \in [Urls -> Contents \cup {NoText}]
    /\ extractions \subseteq [read : Reads, contract : 0 .. MaxUpsets, text : Contents,
                              status : SettledStatuses \cup {"failed"}, units : SUBSET Units,
                              run : 1 .. MaxRuns]
    /\ \A d, e \in extractions : d.read = e.read /\ d.contract = e.contract => d = e
    /\ ingestions \in [1 .. MaxRuns -> {"none", "completed", "failed"}]
    /\ stored \subseteq Urls \X Units /\ staged \subseteq Urls \X Units
    /\ stage \in {"idle", "begin", "fetch"} \cup Stages /\ plan \subseteq Stages
    /\ opts \in Options \cup {NoOptions}
    /\ rows \subseteq Pages /\ texts \subseteq [read : Reads, text : Contents]
    /\ answers \subseteq Reads /\ caching \in BOOLEAN /\ (caching => answers # {})
    /\ tasks \in [Pages -> {"none", "queued", "running"}] /\ polls \in [Pages -> 0 .. MaxPolls]
    /\ runs \in 0 .. MaxRuns /\ cuts \in 0 .. MaxUpsets

\* While no run was cut off between the two statements, the cache holds what
\* the newest usable read of the URL found, whichever page asked for it.
CacheIsLatestRead ==
    cuts = 0 /\ ~caching =>
        \A u \in Urls :
            LET on == UNION {UsableOn(p) : p \in {q \in Pages : Url[q] = u}}
            IN  IF on = {} THEN cache[u] = NoText ELSE cache[u] = Newest(on).key

\* A text that was extracted had been read, and was usable, at that URL: even
\* after a cut-off run, and when the cache belongs to another page by then.
TextsWereRead ==
    \A e \in extractions : \E a \in ToSet(attempts) :
        /\ Url[a.page] = Url[e.read.page] /\ a.key = e.text /\ Usable(a)

\* A run may still ingest what it staged.
MayIngest(r) == r = runs /\ stage # "idle" /\ ingestions[r] = "none"

\* The units of a completed extraction are stored, or staged while their run may
\* still ingest them; a failing page loses no other page's.  They are missing
\* only where the audit shows it: the ingestion of their run has failed at a
\* unit, or has no end because the run was cut off.
CompletedUnitsAreKept ==
    \A e \in extractions : e.status = "completed" =>
        LET units == OnUrl(e.read.page, e.units) IN
        \/ units \subseteq stored
        \/ MayIngest(e.run) /\ units \subseteq stored \cup staged
        \/ ingestions[e.run] = "failed"
        \/ cuts > 0 /\ ingestions[e.run] = "none" /\ ~MayIngest(e.run)

\* A run ends although agents may never reach a terminal status.
RunsEnd == (stage # "idle") ~> (stage = "idle")

\* What the audit tables say of each other: the cache is the newest usable read
\* and every extracted text was read.
ReadsAgree == TypeOK /\ CacheIsLatestRead /\ TextsWereRead

\* A Fetch request names only pages that the deployed registry allows, also
\* those that were discovered when it allowed more, and without refresh none
\* that was read well; nor is a settled extraction made again.  A resumed run
\* pays for what is missing only.
RequestsAreDue ==
    [][/\ stage = "fetch" /\ answers = {} =>
             \A a \in answers' :
                /\ a.page \in policy
                /\ ~opts.refresh => UsableOn(a.page) = {}
       /\ ~opts.refresh =>
             \A e \in extractions : e.status \in SettledStatuses => e \in extractions']_vars
=============================================================================
