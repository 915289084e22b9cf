------------------------ MODULE LiveAcquisitionProofs ------------------------
(***************************************************************************)
(* Theorems about LiveAcquisition, for any pages, contents, calls, limits  *)
(* and any number of runs, deployments and cut-offs.                       *)
(***************************************************************************)
EXTENDS LiveAcquisition, SequenceTheorems, WellFoundedInduction, TLAPS

\* A run that goes on has its manifest ahead, and what was read is recorded
\* before the stage that read it is left.
StageInv ==
    /\ stage \notin {"idle", "manifest"} => "manifest" \in plan
    /\ stage \notin {"fetch", "agent"} => answers = {}
    /\ contract <= deploys
    /\ stage # "idle" => runs >= 1

\* A read that is on its way to the cache is the newest read of all.
CachingInv == caching =>
    attempts # <<>> /\ attempts[Len(attempts)] = Answer /\ Usable(Answer)

Latest(places) == CHOOSE i \in places : \A j \in places : j <= i

\* The usable reads of a URL in a log, and what the newest of them found.
UsableAt(log, u) == {i \in DOMAIN log : Url[log[i].page] = u /\ Usable(log[i])}
LatestText(log, u) ==
    IF UsableAt(log, u) = {} THEN NoText ELSE log[Latest(UsableAt(log, u))].key

\* The cache is behind the log for the URL of one read at most.
CacheInv == cuts = 0 => \A u \in Urls :
    cache[u] = LatestText(attempts, u) \/ (caching /\ Url[Answer.page] = u)

\* What a later stage works on was read, and stays read.
WasRead(u, key) == \E a \in ToSet(attempts) : Url[a.page] = u /\ a.key = key /\ Usable(a)
ReadInv ==
    /\ \A u \in Urls : cache[u] # NoText => WasRead(u, cache[u])
    /\ \A r \in texts : WasRead(Url[r.read.page], r.text)
    /\ TextsWereRead

\* What each stage may still do is due: the registry has decided on every page
\* that is done, no page left was read or is being read, and no text left has a
\* settled extraction.
DueInv ==
    /\ stage = "revalidate" =>
          \A p \in Pages \ rows : found[p] = "eligible" => p \in policy
    /\ stage = "fetch" => \A p \in rows :
          /\ p \in policy /\ \A a \in answers : a.page # p
          /\ ~opts.refresh => UsableOn(p) = {}
    /\ stage = "extract" => \A r \in texts :
          /\ ~opts.refresh => ~SettledRead(r.read)
          /\ \A q \in texts : q.read.page = r.read.page => q = r

\* Every run ingests once, after its extractions: a run that has the stage ahead
\* has extracted nothing, and one that has left it has an end in the audit.
IngestionInv ==
    /\ \A e \in extractions : e.run <= runs
    /\ \A r \in 1 .. MaxRuns : r > runs => ingestions[r] = "none"
    /\ stage # "idle" =>
          /\ "extract" \in plan => stage # "extract"
          /\ stage = "extract" \/ "extract" \in plan => ingestions[runs] = "none"
          /\ \A e \in extractions : e.run = runs =>
                "extract" \notin plan /\ (stage # "extract" => ingestions[runs] # "none")

IndInv ==
    /\ TypeOK /\ StageInv /\ CachingInv
    /\ CacheInv /\ ReadInv /\ IngestionInv /\ CompletedUnitsAreKept /\ DueInv

-----------------------------------------------------------------------------
(* What the queries select. *)

LEMMA LeastExists ==
    ASSUME NEW S \in SUBSET Nat, S # {}
    PROVE  \E i \in S : \A j \in S : i <= j
<1>1. PICK i \in S : \A j \in S : ~ <<j, i>> \in OpToRel(<, Nat)
    BY NatLessThanWellFounded, WFMin
<1>2. \A j \in S : ~ j < i
    BY <1>1 DEF OpToRel
<1> QED
    BY <1>2

\* A set of pages that is not empty has a first page.
LEMMA FirstOfPages ==
    ASSUME NEW ps \in SUBSET Pages, ps # {}
    PROVE  \E p \in ps : \A q \in ps : ~Before(q, p)
<1> DEFINE Places == {i \in DOMAIN PageOrder : PageOrder[i] \in ps}
<1>1. Places \subseteq Nat /\ Places # {}
    BY PagesAssumption DEF Pages, ToSet
<1>2. PICK i \in Places : \A j \in Places : i <= j
    BY <1>1, LeastExists
<1>3. \A q \in ps : ~Before(q, PageOrder[i])
    BY <1>2, PagesAssumption DEF Before
<1> QED
    BY <1>3

\* A set of places in the log that is not empty has a newest place.
LEMMA LatestExists ==
    ASSUME NEW log \in Seq(Reads), NEW ps \in SUBSET (DOMAIN log), ps # {}
    PROVE  Latest(ps) \in ps /\ \A j \in ps : j <= Latest(ps)
<1> DEFINE Ends == {Len(log) - i : i \in ps}
<1>1. Ends \subseteq Nat /\ Ends # {}
    OBVIOUS
<1>2. PICK n \in Ends : \A m \in Ends : n <= m
    BY <1>1, LeastExists
<1>3. PICK i \in ps : n = Len(log) - i
    BY <1>2
<1>4. \A j \in ps : Len(log) - j \in Ends
    OBVIOUS
<1>5. ps \subseteq Nat /\ Len(log) \in Nat
    OBVIOUS
<1>6. \A j \in ps : Len(log) - i <= Len(log) - j
    BY <1>2, <1>3, <1>4, Zenon
<1>7. \A j \in ps : j <= i
  <2> HIDE DEF Ends
  <2> QED
    BY <1>5, <1>6
<1> QED
    BY <1>7, Zenon DEF Latest

LEMMA NewestExists ==
    ASSUME attempts \in Seq(Reads), NEW ps \in SUBSET (DOMAIN attempts), ps # {}
    PROVE  \E i \in ps : Newest(ps) = attempts[i] /\ \A j \in ps : j <= i
<1>1. Latest(ps) \in ps /\ \A j \in ps : j <= Latest(ps)
    BY LatestExists
<1>2. Newest(ps) = attempts[Latest(ps)]
    BY Zenon DEF Newest, Latest
<1> QED
    BY <1>1, <1>2, Zenon

\* The stage that comes next is one of the plan.
LEMMA NextIsPlanned ==
    ASSUME plan \subseteq Stages, plan # {}
    PROVE  NextStage \in plan /\ NextStage \in Stages
<1> DEFINE Places == {i \in DOMAIN StageOrder : StageOrder[i] \in plan}
<1>1. Len(StageOrder) = 6 /\ DOMAIN StageOrder = 1 .. 6
      /\ \A i, j \in 1 .. 6 : StageOrder[i] = StageOrder[j] => i = j
    BY DEF StageOrder
<1>2. Places \subseteq Nat /\ Places # {}
  <2>1. PICK s \in plan : TRUE
    OBVIOUS
  <2>2. PICK i \in DOMAIN StageOrder : s = StageOrder[i]
    BY <2>1, Zenon DEF Stages, ToSet
  <2> QED
    BY <1>1, <2>1, <2>2
<1>3. PICK i \in Places : \A j \in Places : i <= j
    BY <1>2, LeastExists
<1>4. \A j \in Places \ {i} : i < j
    BY <1>2, <1>3
<1>5. \A t \in plan \ {StageOrder[i]} :
         \E k, j \in DOMAIN StageOrder :
            k < j /\ StageOrder[k] = StageOrder[i] /\ StageOrder[j] = t
    BY <1>1, <1>4 DEF Stages, ToSet
<1> QED
    BY <1>5 DEF NextStage

LEMMA StagesAre ==
    Stages = {"seed", "discover", "revalidate", "agent", "extract", "manifest"}
<1>1. Len(StageOrder) = 6 /\ StageOrder[1] = "seed" /\ StageOrder[2] = "discover"
      /\ StageOrder[3] = "revalidate" /\ StageOrder[4] = "agent" /\ StageOrder[5] = "extract"
      /\ StageOrder[6] = "manifest" /\ DOMAIN StageOrder = 1 .. 6
    BY DEF StageOrder
<1>2. \A s : s \in Stages <=> \E i \in 1 .. 6 : s = StageOrder[i]
    BY <1>1, Zenon DEF Stages, ToSet
<1>3. \A s : s \in Stages <=>
         s \in {"seed", "discover", "revalidate", "agent", "extract", "manifest"}
    BY <1>1, <1>2
<1> QED
    BY <1>3, Zenon

\* The rows that a stage works on are rows of its query.
LEMMA FirstOfRead ==
    ASSUME NEW as \in SUBSET Reads, as # {}
    PROVE  \E a \in as : \A b \in as : ~Before(b.page, a.page)
<1> DEFINE ps == {a.page : a \in as}
<1>1. ps \in SUBSET Pages /\ ps # {}
    BY DEF Reads
<1>2. PICK p \in ps : \A q \in ps : ~Before(q, p)
    BY <1>1, FirstOfPages
<1> QED
    BY <1>2

LEMMA AnswerIsOne ==
    ASSUME answers \subseteq Reads, answers # {}
    PROVE  Answer \in answers
    BY FirstOfRead DEF Answer

LEMMA TextIsOne ==
    ASSUME texts \subseteq [read : Reads, text : Contents], texts # {}
    PROVE  Text \in texts
<1>1. {r.read : r \in texts} \in SUBSET Reads /\ {r.read : r \in texts} # {}
    OBVIOUS
<1>2. PICK a \in {r.read : r \in texts} :
         \A b \in {r.read : r \in texts} : ~Before(b.page, a.page)
    BY <1>1, FirstOfRead
<1> QED
    BY <1>2 DEF Text

\* A text that is to be extracted is the newest usable read of its page.
LEMMA ToExtractAre ==
    ASSUME attempts \in Seq(Reads), cache \in [Urls -> Contents \cup {NoText}],
           NEW r \in ToExtract
    PROVE  /\ r \in [read : Reads, text : Contents]
           /\ r.read \in ToSet(attempts) /\ Usable(r.read)
           /\ r.text = cache[Url[r.read.page]]
           /\ opts.refresh \/ ~SettledRead(r.read)
           /\ r = [read |-> Newest(UsableOn(r.read.page)), text |-> cache[Url[r.read.page]]]
<1>1. PICK p \in Pages : Extractable(p)
         /\ r = [read |-> Newest(UsableOn(p)), text |-> cache[Url[p]]]
    BY DEF ToExtract, Limited, First
<1>2. UsableOn(p) \in SUBSET (DOMAIN attempts) /\ UsableOn(p) # {}
    BY <1>1 DEF Extractable, UsableOn
<1>3. PICK i \in UsableOn(p) : Newest(UsableOn(p)) = attempts[i]
    BY <1>2, NewestExists
<1>4. /\ r.read \in Reads /\ r.read.page = p /\ Usable(r.read) /\ r.read = attempts[i]
      /\ i \in DOMAIN attempts
    BY <1>1, <1>3 DEF UsableOn
<1>5. r.text \in Contents
    BY <1>1 DEF Extractable, Urls
<1> QED
    BY <1>1, <1>4, <1>5 DEF ToSet, Extractable

-----------------------------------------------------------------------------
(* The log of fetch attempts. *)

\* Another log has the reads of this one in the same order, but for one read.
KeepsOrder(log, a) ==
    \A i, j \in DOMAIN attempts : attempts[i] # a /\ attempts[j] # a /\ i <= j =>
        \E k, l \in DOMAIN log : log[k] = attempts[i] /\ log[l] = attempts[j] /\ k <= l

\* Recording a read moves its row to the end of the log or adds it there.
LEMMA RecordedLog ==
    ASSUME attempts \in Seq(Reads), IsInjective(attempts), NEW a \in Reads,
           NEW log, log = Append(Without(attempts, a), a)
    PROVE  /\ log \in Seq(Reads) /\ IsInjective(log)
           /\ ToSet(log) = ToSet(attempts) \cup {a}
           /\ log # <<>> /\ log[Len(log)] = a
           /\ KeepsOrder(log, a)
<1>1. CASE a \notin ToSet(attempts)
  <2>1. log = Append(attempts, a)
    BY <1>1 DEF Without
  <2> QED
    BY <1>1, <2>1 DEF ToSet, IsInjective, KeepsOrder
<1>2. CASE a \in ToSet(attempts)
  <2> DEFINE n == Len(attempts)
             c == CHOOSE i \in DOMAIN attempts : attempts[i] = a
             Moved(i) == IF i < c THEN i ELSE i - 1
  <2>1. c \in 1 .. n /\ attempts[c] = a /\ n \in Nat
    <3>1. \E i \in DOMAIN attempts : attempts[i] = a
      BY <1>2 DEF ToSet
    <3>2. c \in DOMAIN attempts /\ attempts[c] = a
      BY <3>1
    <3> QED
      BY <3>2
  <2>2. log = Append(RemoveAt(attempts, c), a)
    BY <1>2, Zenon DEF Without
  <2> HIDE DEF c
  <2>3. \A i \in 1 .. n : attempts[i] = a <=> i = c
    BY <2>1 DEF IsInjective
  <2>4. /\ RemoveAt(attempts, c) \in Seq(Reads) /\ Len(RemoveAt(attempts, c)) = n - 1
        /\ \A k \in 1 .. n - 1 :
              RemoveAt(attempts, c)[k] = IF k < c THEN attempts[k] ELSE attempts[k + 1]
    <3> DEFINE before == SubSeq(attempts, 1, c - 1)
               after == SubSeq(attempts, c + 1, n)
    <3>1. before \in Seq(Reads) /\ Len(before) = c - 1
          /\ \A k \in 1 .. c - 1 : before[k] = attempts[k]
      BY <2>1
    <3>2. after \in Seq(Reads) /\ Len(after) = n - c
          /\ \A k \in 1 .. n - c : after[k] = attempts[c + k]
      BY <2>1
    <3>3. RemoveAt(attempts, c) = before \o after
      BY DEF RemoveAt
    <3> HIDE DEF before, after, n
    <3>4. before \o after \in Seq(Reads) /\ Len(before \o after) = n - 1
      <4>1. before \o after \in Seq(Reads)
            /\ Len(before \o after) = Len(before) + Len(after)
        BY <3>1, <3>2, ConcatProperties, Zenon
      <4> QED
        BY <2>1, <3>1, <3>2, <4>1
    <3>5. ASSUME NEW k \in 1 .. n - 1
          PROVE  (before \o after)[k] = IF k < c THEN attempts[k] ELSE attempts[k + 1]
      <4>1. CASE k < c
        <5>1. k \in 1 .. Len(before)
          BY <2>1, <3>1, <4>1
        <5>2. (before \o after)[k] = before[k]
          BY <3>1, <3>2, <5>1
        <5> QED
          BY <3>1, <4>1, <5>1, <5>2
      <4>2. CASE ~ k < c
        <5>1. k - (c - 1) \in 1 .. n - c /\ c + (k - (c - 1)) = k + 1
          BY <2>1, <4>2
        <5>2. (before \o after)[k] = after[k - (c - 1)]
          BY <2>1, <3>1, <3>2, <4>2
        <5> QED
          BY <3>2, <4>2, <5>1, <5>2
      <4> QED
        BY <4>1, <4>2
    <3> QED
      BY <3>3, <3>4, <3>5
  <2>5. /\ log \in Seq(Reads) /\ Len(log) = n /\ log[n] = a
        /\ \A k \in 1 .. n - 1 : log[k] = IF k < c THEN attempts[k] ELSE attempts[k + 1]
    BY <2>1, <2>2, <2>4
  <2>5a. DOMAIN attempts = 1 .. n /\ DOMAIN log = 1 .. n
    BY <2>5
  <2> HIDE DEF n
  <2>6. \A i \in (1 .. n) \ {c} : Moved(i) \in 1 .. n - 1 /\ log[Moved(i)] = attempts[i]
    BY <2>1, <2>5
  <2>7. \A i, j \in (1 .. n) \ {c} : i <= j => Moved(i) <= Moved(j)
    BY <2>1
  <2> HIDE DEF Moved
  <2>8. IsInjective(log)
    <3> DEFINE Origin(k) == IF k = n THEN c ELSE IF k < c THEN k ELSE k + 1
    <3>1. \A k \in 1 .. n : Origin(k) \in 1 .. n /\ log[k] = attempts[Origin(k)]
      BY <2>1, <2>5
    <3>2. \A k, l \in 1 .. n : Origin(k) = Origin(l) => k = l
      BY <2>1
    <3> HIDE DEF Origin
    <3>3. \A k, l \in 1 .. n : attempts[k] = attempts[l] => k = l
      BY <2>5a DEF IsInjective
    <3>4. \A k, l \in 1 .. n : log[k] = log[l] => k = l
      BY <3>1, <3>2, <3>3
    <3> QED
      BY <2>5a, <3>4 DEF IsInjective
  <2>9. ToSet(log) = ToSet(attempts) \cup {a}
    <3>1. \A b : b \in ToSet(log) <=> \E k \in 1 .. n : log[k] = b
      BY <2>5a, Zenon DEF ToSet
    <3>2. \A b : b \in ToSet(attempts) <=> \E k \in 1 .. n : attempts[k] = b
      BY <2>5a, Zenon DEF ToSet
    <3>3. \A b : b \in ToSet(log) => b \in ToSet(attempts) \cup {a}
      BY <2>1, <2>5, <3>1, <3>2
    <3>4. \A b : b \in ToSet(attempts) \cup {a} => b \in ToSet(log)
      <4>1. n \in 1 .. n /\ log[n] = a
        BY <2>1, <2>5
      <4>2. a \in ToSet(log)
        BY <3>1, <4>1, Zenon
      <4>3. ASSUME NEW k \in 1 .. n, k # c PROVE attempts[k] \in ToSet(log)
        <5>1. Moved(k) \in 1 .. n - 1 /\ log[Moved(k)] = attempts[k]
          BY <2>6, <4>3
        <5>2. Moved(k) \in 1 .. n
          BY <2>1, <5>1
        <5> QED
          BY <3>1, <5>1, <5>2, Zenon
      <4> QED
        BY <2>1, <3>2, <4>2, <4>3, Zenon
    <3> QED
      BY <3>3, <3>4, Zenon
  <2>10. log # <<>> /\ log[Len(log)] = a
    BY <2>1, <2>5
  <2>11. ASSUME NEW i \in DOMAIN attempts, NEW j \in DOMAIN attempts,
                attempts[i] # a, attempts[j] # a, i <= j
         PROVE  \E k, l \in DOMAIN log :
                   log[k] = attempts[i] /\ log[l] = attempts[j] /\ k <= l
    <3>1. i \in (1 .. n) \ {c} /\ j \in (1 .. n) \ {c}
      BY <2>1, <2>5a, <2>11
    <3>2. Moved(i) \in DOMAIN log /\ Moved(j) \in DOMAIN log
      BY <2>1, <2>5a, <2>6, <3>1
    <3> QED
      BY <2>6, <2>7, <2>11, <3>1, <3>2
  <2> QED
    BY <2>5, <2>8, <2>9, <2>10, <2>11 DEF KeepsOrder
<1> QED
    BY <1>1, <1>2

-----------------------------------------------------------------------------
(* Type correctness. *)

LEMMA EnterTyped ==
    ASSUME TypeOK, NEW s \in Stages, Enter(s)
    PROVE  /\ stage' = s /\ rows' \subseteq Pages
           /\ texts' \subseteq [read : Reads, text : Contents]
           /\ tasks' \in [Pages -> {"none", "queued", "running"}]
           /\ polls' \in [Pages -> 0 .. MaxPolls]
<1>1. texts' \subseteq [read : Reads, text : Contents]
    BY ToExtractAre DEF Enter, TypeOK
<1>2. rows' \subseteq Pages
    BY DEF Enter, Discovered
<1>3. tasks' \in [Pages -> {"none", "queued", "running"}]
    BY DEF Enter
<1>4. polls' \in [Pages -> 0 .. MaxPolls]
    BY LimitsAssumption DEF Enter, NoPolls
<1> QED
    BY <1>1, <1>2, <1>3, <1>4 DEF Enter

\* A stage is left for one that is planned.
LEMMA AdvanceEnters ==
    ASSUME TypeOK, StageInv, stage \notin {"idle", "manifest"}, Advance
    PROVE  \E s \in Stages : /\ s \in plan /\ Enter(s) /\ plan' = plan \ {s}
                             /\ s # "manifest" => "manifest" \in plan'
<1>1. NextStage \in plan /\ NextStage \in Stages
    BY NextIsPlanned DEF TypeOK, StageInv
<1> QED
    BY <1>1 DEF Advance, StageInv

LEMMA InitTyped == Init => TypeOK /\ StageInv /\ CachingInv
<1> SUFFICES ASSUME Init PROVE TypeOK /\ StageInv /\ CachingInv
    OBVIOUS
<1>1. polls \in [Pages -> 0 .. MaxPolls] /\ runs \in 0 .. MaxRuns /\ cuts \in 0 .. MaxUpsets
      /\ contract \in 0 .. MaxUpsets /\ deploys \in 0 .. MaxUpsets
    BY LimitsAssumption DEF Init, NoPolls
<1>2. attempts \in Seq(Reads) /\ IsInjective(attempts)
    BY DEF Init, IsInjective
<1>3. policy \subseteq Pages /\ found \in [Pages -> {"none", "eligible", "refused"}]
      /\ provider \in [Pages -> {"none", "catalog", "search"}]
      /\ cache \in [Urls -> Contents \cup {NoText}]
      /\ tasks \in [Pages -> {"none", "queued", "running"}]
      /\ ingestions \in [1 .. MaxRuns -> {"none", "completed", "failed"}]
    BY DEF Init, NoTasks
<1>4. extractions = {} /\ stored = {} /\ staged = {} /\ texts = {} /\ answers = {}
      /\ rows = {} /\ plan = {} /\ stage = "idle" /\ opts = NoOptions /\ caching = FALSE
      /\ contract = 0 /\ deploys = 0
    BY DEF Init
<1>5. StageInv /\ CachingInv
    BY <1>4 DEF StageInv, CachingInv
<1> QED
    BY <1>1, <1>2, <1>3, <1>4, <1>5 DEF TypeOK

\* A unit that is accepted is a unit.
LEMMA AcceptedAreUnits ==
    ASSUME NEW c \in Contents
    PROVE  Accepted(c) \subseteq Units
    BY DEF Accepted, Units

\* What an extraction writes has its columns, one row for a read and contract.
LEMMA WrittenTyped ==
    ASSUME TypeOK, runs >= 1, texts # {}, NEW status \in SettledStatuses \cup {"failed"},
           Written(status), staged' \subseteq Urls \X Units
    PROVE  TypeOK'
<1>1. Text \in texts /\ Text \in [read : Reads, text : Contents]
    BY TextIsOne DEF TypeOK
<1> DEFINE row == [read |-> Text.read, contract |-> contract, status |-> status,
                   text |-> Text.text, units |-> Accepted(Text.text), run |-> runs]
<1>2. extractions' = (extractions \ ExtractionsOf(Text.read)) \cup {row}
    BY DEF Written
<1>3. row \in [read : Reads, contract : 0 .. MaxUpsets, text : Contents,
               status : SettledStatuses \cup {"failed"}, units : SUBSET Units,
               run : 1 .. MaxRuns]
  <2>1. runs \in 1 .. MaxRuns
    BY LimitsAssumption DEF TypeOK
  <2> QED
    BY <1>1, <2>1, AcceptedAreUnits DEF TypeOK
<1>4. row.read = Text.read /\ row.contract = contract
    OBVIOUS
<1> HIDE DEF row
<1>5. extractions' \subseteq [read : Reads, contract : 0 .. MaxUpsets, text : Contents,
                             status : SettledStatuses \cup {"failed"}, units : SUBSET Units,
                             run : 1 .. MaxRuns]
    BY <1>2, <1>3 DEF TypeOK
<1>6. \A d, e \in extractions' : d.read = e.read /\ d.contract = e.contract => d = e
    BY <1>2, <1>4 DEF TypeOK, ExtractionsOf
<1> QED
    BY <1>5, <1>6 DEF TypeOK, Written, registry, discovery, reads, place

\* Only a text that is long enough and no login wall is usable.
LEMMA UsableIsReadable == \A a \in Reads : Usable(a) <=> a.key \in Readable
<1> SUFFICES ASSUME NEW a \in Reads PROVE Usable(a) <=> a.key \in Readable
    OBVIOUS
<1>1. "error" \notin Readable
    BY ContentsAssumption
<1> QED
    BY <1>1 DEF Usable, Status

LEMMA TypeStep == TypeOK /\ StageInv /\ CachingInv /\ [Next]_vars => TypeOK'
<1> SUFFICES ASSUME TypeOK, StageInv, CachingInv, [Next]_vars PROVE TypeOK'
    OBVIOUS
<1> USE DEF registry, discovery, reads, results, place, work
<1>1. CASE Begin
  <2>1. plan' \subseteq Stages /\ stage' = "begin" /\ opts' \in Options
        /\ runs' \in 0 .. MaxRuns
    BY <1>1, StagesAre, LimitsAssumption DEF Begin, TypeOK
  <2> QED
    BY <1>1, <2>1 DEF Begin, TypeOK
<1>2. CASE StageEnds
  <2>1. stage \notin {"idle", "manifest"} /\ Advance
    BY <1>2 DEF StageEnds
  <2>2. PICK s \in Stages : s \in plan /\ Enter(s) /\ plan' = plan \ {s}
    BY <2>1, AdvanceEnters
  <2> QED
    BY <1>2, <2>2, EnterTyped DEF StageEnds, TypeOK
<1>3. CASE SeedProduct \/ FindPage
  <2>1. PICK p \in Pages, by \in {"catalog", "search"} : Upsert(p, by)
    BY <1>3, PagesAssumption DEF SeedProduct, FindPage
  <2>2. found' \in [Pages -> {"none", "eligible", "refused"}]
        /\ provider' \in [Pages -> {"none", "catalog", "search"}]
    BY <2>1 DEF Upsert, TypeOK
  <2> QED
    BY <2>1, <2>2 DEF Upsert, TypeOK
<1>4. CASE Revalidate
  <2>1. found' \in [Pages -> {"none", "eligible", "refused"}] /\ rows' \subseteq Pages
    BY <1>4 DEF Revalidate, TypeOK
  <2> QED
    BY <1>4, <2>1 DEF Revalidate, TypeOK
<1>5. CASE SelectUnread
  <2>1. rows' \subseteq Pages /\ stage' = "fetch"
    BY <1>5 DEF SelectUnread, ToFetch, Limited, First
  <2> QED
    BY <1>5, <2>1 DEF SelectUnread, TypeOK
<1>6. CASE RequestBatch
  <2>1. Batch \subseteq Pages
    BY DEF Batch, First, TypeOK
  <2>2. answers' \subseteq Reads /\ rows' \subseteq Pages
    BY <1>6, <2>1 DEF RequestBatch, Reads, Readers, TypeOK
  <2>3. caching' = FALSE
    BY <1>6 DEF RequestBatch, TypeOK
  <2> QED
    BY <1>6, <2>2, <2>3 DEF RequestBatch, TypeOK
<1>7. CASE RecordRead
  <2>1. Answer \in answers /\ Answer \in Reads
    BY <1>7, AnswerIsOne DEF RecordRead, TypeOK
  <2>2. attempts' \in Seq(Reads) /\ IsInjective(attempts')
    BY <1>7, <2>1, RecordedLog DEF RecordRead, TypeOK
  <2>3. answers' \subseteq Reads /\ caching' \in BOOLEAN /\ (caching' => answers' # {})
    BY <1>7 DEF RecordRead, TypeOK, Usable
  <2> QED
    BY <1>7, <2>2, <2>3 DEF RecordRead, TypeOK
<1>8. CASE CacheText
  <2>1. Answer \in Reads /\ Usable(Answer)
    BY <1>8, AnswerIsOne DEF CacheText, CachingInv, TypeOK
  <2>2. Url[Answer.page] \in Urls /\ Answer.key \in Contents
    BY <2>1, UsableIsReadable, ContentsAssumption DEF Urls, Reads
  <2> QED
    BY <1>8, <2>2 DEF CacheText, TypeOK
<1>9. CASE \E p \in Pages : Submit(p) \/ PollAgain(p) \/ AgentTimesOut(p) \/ AgentAnswers(p)
  <2>1. PICK p \in Pages : Submit(p) \/ PollAgain(p) \/ AgentTimesOut(p) \/ AgentAnswers(p)
    BY <1>9
  <2>2. ASSUME NEW key \in Contents \cup {"error"}, AgentReads(p, key)
        PROVE  answers' \subseteq Reads
    BY <2>2 DEF AgentReads, Reads, Readers
  <2>3. tasks' \in [Pages -> {"none", "queued", "running"}]
        /\ polls' \in [Pages -> 0 .. MaxPolls] /\ answers' \subseteq Reads
    <3>1. CASE Submit(p)
      BY <3>1, <2>2 DEF Submit, TypeOK
    <3>2. CASE PollAgain(p)
      BY <3>2, LimitsAssumption DEF PollAgain, TypeOK
    <3>3. CASE AgentTimesOut(p)
      BY <3>3, <2>2, LimitsAssumption DEF AgentTimesOut, EndsWith, TypeOK
    <3>4. CASE AgentAnswers(p)
      <4>1. PICK key \in ContentsAt[Url[p]] \cup {"error"} : EndsWith(p, key)
        BY <3>4 DEF AgentAnswers
      <4>2. key \in Contents \cup {"error"}
        BY <4>1, ContentsAssumption DEF Urls
      <4> QED
        BY <4>1, <4>2, <2>2, LimitsAssumption DEF EndsWith, TypeOK
    <3> QED
      BY <2>1, <3>1, <3>2, <3>3, <3>4
  <2>4. AgentStep
    BY <2>1 DEF Submit, PollAgain, AgentTimesOut, AgentAnswers, EndsWith
  <2>5. caching' = FALSE
    BY <2>4 DEF AgentStep, TypeOK
  <2> QED
    BY <2>3, <2>4, <2>5 DEF AgentStep, TypeOK
<1>10. CASE SkipNonAtomic
  <2>1. Written("skipped_non_atomic") /\ staged' = staged /\ texts # {} /\ runs >= 1
    BY <1>10 DEF SkipNonAtomic, Extracting, StageInv
  <2> QED
    BY <2>1, WrittenTyped DEF SettledStatuses, TypeOK
<1>11. CASE ExtractPage \/ ExtractFails
  <2>1. Text \in [read : Reads, text : Contents]
    BY <1>11, TextIsOne DEF ExtractPage, ExtractFails, Extracting, TypeOK
  <2>2. OnUrl(Text.read.page, Accepted(Text.text)) \subseteq Urls \X Units
    BY <2>1, AcceptedAreUnits DEF OnUrl, Urls, Reads
  <2>3. staged' \subseteq Urls \X Units
    BY <1>11, <2>2 DEF ExtractPage, ExtractFails, OnUrl, TypeOK
  <2>4. ExtractedStatus(Text.text) \in SettledStatuses
    BY DEF ExtractedStatus, SettledStatuses
  <2>5. PICK status \in SettledStatuses \cup {"failed"} : Written(status)
    BY <1>11, <2>4 DEF ExtractPage, ExtractFails
  <2> QED
    BY <1>11, <2>3, <2>5, WrittenTyped DEF ExtractPage, ExtractFails, Extracting, StageInv
<1>12a. CASE IngestUnit
    BY <1>12a DEF IngestUnit, Ingesting, TypeOK
<1>12. CASE IngestFails \/ IngestEnds
  <2>1. PICK status \in {"completed", "failed"} : IngestionEnds(status)
    BY <1>12 DEF IngestFails, IngestEnds
  <2>2. stage \notin {"idle", "manifest"} /\ Advance
    BY <2>1 DEF IngestionEnds, Ingesting
  <2>3. PICK s \in Stages : s \in plan /\ Enter(s) /\ plan' = plan \ {s}
    BY <2>2, AdvanceEnters
  <2>4. ingestions' \in [1 .. MaxRuns -> {"none", "completed", "failed"}]
    BY <2>1 DEF IngestionEnds, TypeOK
  <2> QED
    BY <2>1, <2>3, <2>4, EnterTyped DEF IngestionEnds, Ingesting, TypeOK
<1>13. CASE BuildManifest
    BY <1>13 DEF BuildManifest, TypeOK
<1>14. CASE Cut
  <2>1. polls' \in [Pages -> 0 .. MaxPolls] /\ tasks' \in [Pages -> {"none", "queued", "running"}]
    BY <1>14, LimitsAssumption DEF Cut, NoPolls, NoTasks
  <2>2. cuts' \in 0 .. MaxUpsets
    BY <1>14, LimitsAssumption DEF Cut, TypeOK
  <2> QED
    BY <1>14, <2>1, <2>2 DEF Cut, TypeOK
<1>15. CASE Deploy
  <2>1. deploys' \in 0 .. MaxUpsets /\ contract' \in 0 .. MaxUpsets /\ policy' \subseteq Pages
    BY <1>15, LimitsAssumption DEF Deploy, TypeOK, StageInv
  <2> QED
    BY <1>15, <2>1 DEF Deploy, TypeOK
<1>16. CASE UNCHANGED vars
    BY <1>16 DEF vars, TypeOK
<1> QED
    BY <1>1, <1>2, <1>3, <1>4, <1>5, <1>6, <1>7, <1>8, <1>9, <1>10, <1>11, <1>12, <1>12a,
       <1>13, <1>14, <1>15, <1>16 DEF Next, RunStep

LEMMA StageStep == TypeOK /\ StageInv /\ [Next]_vars => StageInv'
<1> SUFFICES ASSUME TypeOK, StageInv, [Next]_vars PROVE StageInv'
    OBVIOUS
<1> USE DEF registry, discovery, reads, results, place, work
<1>1. CASE StageEnds \/ IngestFails \/ IngestEnds
  <2>1. stage \notin {"idle", "manifest"} /\ Advance
    BY <1>1 DEF StageEnds, IngestFails, IngestEnds, IngestionEnds, Ingesting
  <2>2. PICK s \in Stages : Enter(s) /\ (s # "manifest" => "manifest" \in plan')
    BY <2>1, AdvanceEnters
  <2>3. answers' = {}
    BY <1>1 DEF StageEnds, IngestFails, IngestEnds, IngestionEnds, Ingesting, StageInv
  <2>4. stage' = s /\ contract' = contract /\ deploys' = deploys /\ runs' = runs
    BY <1>1, <2>2 DEF StageEnds, IngestFails, IngestEnds, IngestionEnds, Ingesting, Enter
  <2> QED
    BY <2>1, <2>2, <2>3, <2>4 DEF StageInv
<1>1a. CASE IngestUnit
    BY <1>1a DEF IngestUnit, Ingesting, StageInv
<1>2. CASE \E p \in Pages : Submit(p) \/ PollAgain(p) \/ AgentTimesOut(p) \/ AgentAnswers(p)
  <2>1. AgentStep
    BY <1>2 DEF Submit, PollAgain, AgentTimesOut, AgentAnswers, EndsWith
  <2> QED
    BY <2>1 DEF AgentStep, StageInv
<1>3. CASE SkipNonAtomic \/ ExtractPage \/ ExtractFails
  <2>1. UNCHANGED <<stage, plan, answers, contract, deploys, runs>>
    BY <1>3 DEF SkipNonAtomic, ExtractPage, ExtractFails, Written
  <2> QED
    BY <2>1 DEF StageInv
<1>4. CASE SeedProduct \/ FindPage
  <2>1. UNCHANGED <<stage, plan, answers, contract, deploys, runs>>
    BY <1>4 DEF SeedProduct, FindPage, Upsert
  <2> QED
    BY <2>1 DEF StageInv
<1>5. CASE RecordRead
    BY <1>5 DEF RecordRead, StageInv
<1>6. CASE CacheText
    BY <1>6 DEF CacheText, StageInv
<1>7. CASE Begin
    BY <1>7 DEF Begin, StageInv, TypeOK
<1>8. CASE Revalidate \/ SelectUnread \/ RequestBatch
    BY <1>8 DEF Revalidate, SelectUnread, RequestBatch, StageInv
<1>9. CASE BuildManifest \/ Cut
    BY <1>9 DEF BuildManifest, Cut, StageInv
<1>10. CASE Deploy
    BY <1>10 DEF Deploy, StageInv, TypeOK
<1>11. CASE UNCHANGED vars
    BY <1>11 DEF vars, StageInv
<1> QED
    BY <1>1, <1>1a, <1>2, <1>3, <1>4, <1>5, <1>6, <1>7, <1>8, <1>9, <1>10, <1>11
       DEF Next, RunStep

-----------------------------------------------------------------------------
(* The cache and the log. *)

\* Two statements touch the log and the cache, and only a cut-off comes between.
LEMMA ReadsFrame ==
    ASSUME TypeOK, [Next]_vars, ~RecordRead, ~CacheText
    PROVE  /\ attempts' = attempts /\ cache' = cache
           /\ caching' => (caching /\ answers' = answers)
           /\ cuts' = 0 => (cuts = 0 /\ (caching => caching'))
<1> USE DEF registry, discovery, reads, results, place, work
<1>1. CASE Begin \/ StageEnds \/ BuildManifest \/ Deploy
    BY <1>1 DEF Begin, StageEnds, BuildManifest, Deploy
<1>2. CASE SeedProduct \/ FindPage
    BY <1>2 DEF SeedProduct, FindPage, Upsert
<1>3. CASE Revalidate \/ SelectUnread \/ RequestBatch
    BY <1>3 DEF Revalidate, SelectUnread, RequestBatch, TypeOK
<1>4. CASE \E p \in Pages : Submit(p) \/ PollAgain(p) \/ AgentTimesOut(p) \/ AgentAnswers(p)
  <2>1. AgentStep
    BY <1>4 DEF Submit, PollAgain, AgentTimesOut, AgentAnswers, EndsWith
  <2> QED
    BY <2>1 DEF AgentStep, TypeOK
<1>5. CASE SkipNonAtomic \/ ExtractPage \/ ExtractFails \/ IngestUnit \/ IngestFails
           \/ IngestEnds
    BY <1>5 DEF SkipNonAtomic, ExtractPage, ExtractFails, Written, IngestUnit, IngestFails,
               IngestEnds, IngestionEnds, Ingesting
<1>6. CASE Cut
    BY <1>6 DEF Cut, TypeOK
<1>7. CASE UNCHANGED vars
    BY <1>7 DEF vars
<1> QED
    BY <1>1, <1>2, <1>3, <1>4, <1>5, <1>6, <1>7 DEF Next, RunStep

\* Recording a read adds it to the log and removes nothing.
LEMMA RecordedReads ==
    ASSUME TypeOK, RecordRead
    PROVE  /\ Answer \in Reads /\ Answer \in answers
           /\ attempts' \in Seq(Reads) /\ ToSet(attempts') = ToSet(attempts) \cup {Answer}
           /\ attempts' # <<>> /\ attempts'[Len(attempts')] = Answer
<1>1. Answer \in answers /\ Answer \in Reads
    BY AnswerIsOne DEF RecordRead, TypeOK
<1> QED
    BY <1>1, RecordedLog DEF RecordRead, TypeOK

LEMMA CachingStep == TypeOK /\ CachingInv /\ [Next]_vars => CachingInv'
<1> SUFFICES ASSUME TypeOK, CachingInv, [Next]_vars PROVE CachingInv'
    OBVIOUS
<1>1. CASE RecordRead
  <2>1. SUFFICES ASSUME caching' PROVE attempts' # <<>> /\ attempts'[Len(attempts')] = Answer'
                                       /\ Usable(Answer')
    BY DEF CachingInv, Usable, Status
  <2>2. Usable(Answer) /\ answers' = answers
    BY <1>1, <2>1 DEF RecordRead
  <2>3. Answer' = Answer
    BY <2>2 DEF Answer
  <2> QED
    BY <1>1, <2>2, <2>3, RecordedReads
<1>2. CASE CacheText
    BY <1>2 DEF CacheText, CachingInv
<1>3. CASE ~RecordRead /\ ~CacheText
    BY <1>3, ReadsFrame DEF CachingInv, Answer, Usable, Status
<1> QED
    BY <1>1, <1>2, <1>3

\* A read of another URL, or one that is not usable, leaves the newest usable
\* read of a URL what it was, although it may move rows of the log.
LEMMA OtherReadsKeepLatest ==
    ASSUME attempts \in Seq(Reads), IsInjective(attempts), NEW a \in Reads, NEW u,
           Url[a.page] # u \/ ~Usable(a),
           NEW log, log = Append(Without(attempts, a), a)
    PROVE  LatestText(log, u) = LatestText(attempts, u)
<1>1. /\ log \in Seq(Reads) /\ IsInjective(log) /\ ToSet(log) = ToSet(attempts) \cup {a}
      /\ KeepsOrder(log, a)
    BY RecordedLog
<1>2. \A k \in UsableAt(log, u) : \E j \in UsableAt(attempts, u) : log[k] = attempts[j]
  <2> SUFFICES ASSUME NEW k \in UsableAt(log, u)
               PROVE  \E j \in UsableAt(attempts, u) : log[k] = attempts[j]
    OBVIOUS
  <2>1. k \in DOMAIN log /\ log[k] # a /\ Url[log[k].page] = u /\ Usable(log[k])
    BY DEF UsableAt
  <2>2. log[k] \in ToSet(attempts)
    BY <1>1, <2>1 DEF ToSet
  <2>3. PICK j \in DOMAIN attempts : attempts[j] = log[k]
    BY <2>2 DEF ToSet
  <2> QED
    BY <2>1, <2>3 DEF UsableAt
<1>3. \A i \in UsableAt(attempts, u) : i \in DOMAIN attempts /\ attempts[i] # a
    BY DEF UsableAt
<1>4. \A i \in UsableAt(attempts, u), k \in DOMAIN log :
         log[k] = attempts[i] => k \in UsableAt(log, u)
    BY DEF UsableAt
<1>5. CASE UsableAt(attempts, u) = {}
  <2>1. UsableAt(log, u) = {}
    BY <1>2, <1>5
  <2> QED
    BY <1>5, <2>1 DEF LatestText
<1>6. CASE UsableAt(attempts, u) # {}
  <2> DEFINE i == Latest(UsableAt(attempts, u))
             l == Latest(UsableAt(log, u))
  <2>1. i \in UsableAt(attempts, u) /\ \A j \in UsableAt(attempts, u) : j <= i
    <3>1. UsableAt(attempts, u) \in SUBSET (DOMAIN attempts)
      BY DEF UsableAt
    <3> QED
      BY <1>6, <3>1, LatestExists
  <2> HIDE DEF i
  <2>2. i \in DOMAIN attempts /\ i <= i
    BY <1>3, <2>1
  <2>3. UsableAt(log, u) # {}
    BY <1>1, <1>3, <1>4, <2>1, <2>2 DEF KeepsOrder
  <2>4. l \in UsableAt(log, u) /\ \A k \in UsableAt(log, u) : k <= l
    <3>1. UsableAt(log, u) \in SUBSET (DOMAIN log)
      BY DEF UsableAt
    <3> QED
      BY <1>1, <2>3, <3>1, LatestExists
  <2> HIDE DEF l
  <2>5. PICK j \in UsableAt(attempts, u) : log[l] = attempts[j]
    BY <1>2, <2>4
  <2>6. j <= i /\ j \in DOMAIN attempts /\ attempts[j] # a /\ attempts[i] # a
    BY <1>3, <2>1, <2>5
  <2>7. PICK k, m \in DOMAIN log : log[k] = attempts[j] /\ log[m] = attempts[i] /\ k <= m
    BY <1>1, <2>2, <2>6 DEF KeepsOrder
  <2>8. k = l /\ m \in UsableAt(log, u)
    BY <1>1, <1>4, <2>1, <2>4, <2>5, <2>7 DEF IsInjective, UsableAt
  <2>9. m <= l /\ m \in Nat /\ l \in Nat
    BY <1>1, <2>4, <2>7, <2>8
  <2>10. log[l] = attempts[i]
    BY <2>7, <2>8, <2>9
  <2>11. LatestText(log, u) = log[l].key
    BY <2>3, Zenon DEF LatestText, l
  <2>12. LatestText(attempts, u) = attempts[i].key
    BY <1>6, Zenon DEF LatestText, i
  <2> QED
    BY <2>10, <2>11, <2>12
<1> QED
    BY <1>5, <1>6

LEMMA CacheStep ==
    TypeOK /\ TypeOK' /\ CachingInv /\ CacheInv /\ [Next]_vars => CacheInv'
<1> SUFFICES ASSUME TypeOK, TypeOK', CachingInv, CacheInv, [Next]_vars, cuts' = 0, NEW u \in Urls
             PROVE  cache'[u] = LatestText(attempts', u) \/ (caching' /\ Url[Answer'.page] = u)
    BY DEF CacheInv, LatestText, UsableAt, Usable, Status, Latest
<1>1. CASE RecordRead
  <2>1. ~caching /\ cache' = cache /\ cuts = 0
    BY <1>1 DEF RecordRead, reads, TypeOK
  <2>2. cache[u] = LatestText(attempts, u)
    BY <2>1 DEF CacheInv
  <2>3. Answer \in Reads /\ attempts' = Append(Without(attempts, Answer), Answer)
    BY <1>1, RecordedReads DEF RecordRead
  <2>4. CASE Usable(Answer) /\ Url[Answer.page] = u
    <3>1. caching' /\ answers' = answers
      BY <1>1, <2>4 DEF RecordRead
    <3>2. Answer' = Answer
      BY <3>1 DEF Answer
    <3> QED
      BY <2>4, <3>1, <3>2
  <2>5. CASE Url[Answer.page] # u \/ ~Usable(Answer)
    <3>1. LatestText(attempts', u) = LatestText(attempts, u)
      BY <2>3, <2>5, OtherReadsKeepLatest DEF TypeOK
    <3> QED
      BY <2>1, <2>2, <3>1
  <2> QED
    BY <2>4, <2>5
<1>2. CASE CacheText
  <2>1. /\ Answer \in Reads /\ Usable(Answer) /\ caching /\ cuts = 0
        /\ attempts # <<>> /\ attempts[Len(attempts)] = Answer
        /\ attempts' = attempts /\ cache' = [cache EXCEPT ![Url[Answer.page]] = Answer.key]
    BY <1>2, AnswerIsOne DEF CacheText, CachingInv, TypeOK
  <2>2. CASE Url[Answer.page] = u
    <3> DEFINE ps == UsableAt(attempts, u)
               n == Len(attempts)
    <3>1. ps \in SUBSET (DOMAIN attempts) /\ n \in ps
      BY <2>1, <2>2 DEF UsableAt, TypeOK
    <3>2. Latest(ps) \in ps /\ \A j \in ps : j <= Latest(ps)
      BY <3>1, LatestExists DEF TypeOK
    <3>3. Latest(ps) = n
      <4> HIDE DEF ps
      <4>1. Latest(ps) \in 1 .. n /\ n <= Latest(ps) /\ n \in Nat
        BY <3>1, <3>2 DEF TypeOK
      <4> QED
        BY <4>1
    <3>4. LatestText(attempts, u) = Answer.key
      BY <2>1, <3>1, <3>3 DEF LatestText
    <3>5. cache'[u] = Answer.key
      BY <2>1, <2>2 DEF TypeOK
    <3> QED
      BY <2>1, <3>4, <3>5
  <2>3. CASE Url[Answer.page] # u
    <3>1. cache'[u] = cache[u]
      BY <2>1, <2>3 DEF TypeOK
    <3> QED
      BY <2>1, <2>3, <3>1 DEF CacheInv
  <2> QED
    BY <2>2, <2>3
<1>3. CASE ~RecordRead /\ ~CacheText
  <2>1. attempts' = attempts /\ cache' = cache /\ cuts = 0
    BY <1>3, ReadsFrame
  <2>2. CASE cache[u] = LatestText(attempts, u)
    BY <2>1, <2>2
  <2>3. CASE caching /\ Url[Answer.page] = u
    <3>1. caching'
      BY <1>3, <2>3, ReadsFrame, Zenon
    <3>2. answers' = answers
      BY <1>3, <3>1, ReadsFrame
    <3>3. Answer' = Answer
      BY <3>2 DEF Answer
    <3> QED
      BY <2>3, <3>1, <3>3
  <2> QED
    BY <2>1, <2>2, <2>3 DEF CacheInv
<1> QED
    BY <1>1, <1>2, <1>3

\* What the invariant says of the log is what the property says.
LEMMA CacheFollowsLog ==
    ASSUME TypeOK, CacheInv
    PROVE  CacheIsLatestRead
<1> SUFFICES ASSUME cuts = 0, ~caching, NEW u \in Urls
             PROVE  LET on == UNION {UsableOn(p) : p \in {q \in Pages : Url[q] = u}}
                    IN  IF on = {} THEN cache[u] = NoText ELSE cache[u] = Newest(on).key
    BY DEF CacheIsLatestRead
<1>1. cache[u] = LatestText(attempts, u)
    BY DEF CacheInv
<1>2. UNION {UsableOn(p) : p \in {q \in Pages : Url[q] = u}} = UsableAt(attempts, u)
  <2>1. \A i : i \in UNION {UsableOn(p) : p \in {q \in Pages : Url[q] = u}}
           <=> \E p \in Pages : Url[p] = u /\ i \in UsableOn(p)
    OBVIOUS
  <2>2. \A i \in DOMAIN attempts : attempts[i].page \in Pages
    <3>1. attempts \in Seq(Reads)
      BY DEF TypeOK
    <3>2. \A a \in Reads : a.page \in Pages
      BY DEF Reads
    <3> QED
      BY <3>1, <3>2
  <2>3. \A i : i \in UsableAt(attempts, u) <=> \E p \in Pages : Url[p] = u /\ i \in UsableOn(p)
    BY <2>2 DEF UsableAt, UsableOn
  <2> QED
    BY <2>1, <2>3
<1>3. Newest(UsableAt(attempts, u)) = attempts[Latest(UsableAt(attempts, u))]
    BY Zenon DEF Newest, Latest
<1> QED
    BY <1>1, <1>2, <1>3 DEF LatestText

-----------------------------------------------------------------------------
(* What was read stays read. *)

LEMMA ReadStaysRead ==
    ASSUME TypeOK, [Next]_vars, NEW u, NEW key, WasRead(u, key)
    PROVE  WasRead(u, key)'
<1>1. ToSet(attempts) \subseteq ToSet(attempts')
  <2>1. CASE RecordRead
    BY <2>1, RecordedReads
  <2>2. CASE CacheText
    BY <2>2 DEF CacheText
  <2>3. CASE ~RecordRead /\ ~CacheText
    BY <2>3, ReadsFrame
  <2> QED
    BY <2>1, <2>2, <2>3
<1> QED
    BY <1>1 DEF WasRead, Usable, Status

\* A stage that selects texts finds them in the cache.
LEMMA EnteredTextsWereRead ==
    ASSUME TypeOK, ReadInv, NEW s, Enter(s), NEW r \in texts'
    PROVE  WasRead(Url[r.read.page], r.text)
<1>1. r \in ToExtract
    BY DEF Enter
<1>2. r \in [read : Reads, text : Contents] /\ r.text = cache[Url[r.read.page]]
    BY <1>1, ToExtractAre DEF TypeOK
<1>3. Url[r.read.page] \in Urls /\ r.text # NoText
    BY <1>2, ContentsAssumption DEF Urls, Reads
<1> QED
    BY <1>2, <1>3 DEF ReadInv

LEMMA ReadStep == TypeOK /\ StageInv /\ CachingInv /\ ReadInv /\ [Next]_vars => ReadInv'
<1> SUFFICES ASSUME TypeOK, StageInv, CachingInv, ReadInv, [Next]_vars PROVE ReadInv'
    OBVIOUS
<1> USE DEF registry, discovery, reads, results, place, work
<1>1. TextsWereRead <=> \A e \in extractions : WasRead(Url[e.read.page], e.text)
    BY DEF TextsWereRead, WasRead
<1>2. TextsWereRead' <=> \A e \in extractions' : WasRead(Url[e.read.page], e.text)'
    BY DEF TextsWereRead, WasRead, Usable, Status
<1>3. ASSUME NEW u \in Urls, cache'[u] # NoText PROVE WasRead(u, cache[u])'
  <2>1. CASE CacheText
    <3>1. Answer \in Reads /\ Usable(Answer) /\ Answer \in ToSet(attempts)
          /\ cache' = [cache EXCEPT ![Url[Answer.page]] = Answer.key] /\ attempts' = attempts
      BY <2>1, AnswerIsOne DEF CacheText, CachingInv, TypeOK, ToSet
    <3>2. WasRead(Url[Answer.page], Answer.key)
      BY <3>1 DEF WasRead
    <3>3. WasRead(u, cache'[u])
      BY <3>1, <3>2, <1>3 DEF ReadInv, TypeOK
    <3> QED
      BY <3>1, <3>3 DEF WasRead, Usable, Status
  <2>2. CASE ~CacheText
    <3>1. cache' = cache
      BY <2>2, ReadsFrame DEF RecordRead
    <3>2. PICK key : key = cache[u]
      OBVIOUS
    <3>3. WasRead(u, key)
      BY <1>3, <3>1, <3>2 DEF ReadInv
    <3>4. WasRead(u, key)'
      BY <3>3, ReadStaysRead
    <3> QED
      BY <3>1, <3>2, <3>4 DEF WasRead
  <2> QED
    BY <2>1, <2>2
<1>4. /\ \A r \in texts' : WasRead(Url[r.read.page], r.text)
      /\ \A e \in extractions' : WasRead(Url[e.read.page], e.text)
  <2>1. CASE StageEnds \/ IngestFails \/ IngestEnds
    <3>1. stage \notin {"idle", "manifest"} /\ Advance /\ extractions' = extractions
      BY <2>1 DEF StageEnds, IngestFails, IngestEnds, IngestionEnds, Ingesting
    <3>2. PICK s \in Stages : Enter(s)
      BY <3>1, AdvanceEnters
    <3> QED
      BY <1>1, <3>1, <3>2, EnteredTextsWereRead DEF ReadInv
  <2>2. CASE SkipNonAtomic \/ ExtractPage \/ ExtractFails
    <3>1. Text \in texts /\ \E status : Written(status)
      BY <2>2, TextIsOne DEF SkipNonAtomic, ExtractPage, ExtractFails, Extracting, TypeOK
    <3>2. texts' \subseteq texts
          /\ \A e \in extractions' : e \in extractions
                                      \/ (e.read = Text.read /\ e.text = Text.text)
      <4>1. PICK status : Written(status)
        BY <3>1
      <4>2. texts' \subseteq texts
        BY <4>1 DEF Written
      <4>3. PICK row : /\ row.read = Text.read /\ row.text = Text.text
                       /\ extractions' = (extractions \ ExtractionsOf(Text.read)) \cup {row}
        BY <4>1 DEF Written
      <4> QED
        BY <4>2, <4>3
    <3> QED
      BY <1>1, <3>1, <3>2 DEF ReadInv
  <2>3. CASE ~(StageEnds \/ IngestFails \/ IngestEnds) /\ ~(SkipNonAtomic \/ ExtractPage \/ ExtractFails)
    <3>1. texts' \subseteq texts /\ extractions' = extractions
      <4>1. CASE Begin \/ IngestUnit \/ BuildManifest \/ Deploy \/ Cut \/ UNCHANGED vars
        BY <4>1 DEF Begin, IngestUnit, Ingesting, BuildManifest, Deploy, Cut, vars
      <4>2. CASE SeedProduct \/ FindPage
        BY <4>2 DEF SeedProduct, FindPage, Upsert
      <4>3. CASE Revalidate \/ SelectUnread \/ RequestBatch \/ RecordRead \/ CacheText
        BY <4>3 DEF Revalidate, SelectUnread, RequestBatch, RecordRead, CacheText
      <4>4. CASE \E p \in Pages : Submit(p) \/ PollAgain(p) \/ AgentTimesOut(p) \/ AgentAnswers(p)
        <5>1. AgentStep
          BY <4>4 DEF Submit, PollAgain, AgentTimesOut, AgentAnswers, EndsWith
        <5> QED
          BY <5>1 DEF AgentStep
      <4> QED
        BY <2>3, <4>1, <4>2, <4>3, <4>4 DEF Next, RunStep
    <3> QED
      BY <1>1, <3>1 DEF ReadInv
  <2> QED
    BY <2>1, <2>2, <2>3
<1>5. \A r \in texts' : WasRead(Url[r.read.page], r.text)'
  <2> SUFFICES ASSUME NEW r \in texts' PROVE WasRead(Url[r.read.page], r.text)'
    OBVIOUS
  <2>1. PICK u, key : u = Url[r.read.page] /\ key = r.text
    OBVIOUS
  <2> QED
    BY <1>4, <2>1, ReadStaysRead
<1>6. \A e \in extractions' : WasRead(Url[e.read.page], e.text)'
  <2> SUFFICES ASSUME NEW e \in extractions' PROVE WasRead(Url[e.read.page], e.text)'
    OBVIOUS
  <2>1. PICK u, key : u = Url[e.read.page] /\ key = e.text
    OBVIOUS
  <2> QED
    BY <1>4, <2>1, ReadStaysRead
<1> QED
    BY <1>2, <1>3, <1>5, <1>6 DEF ReadInv

-----------------------------------------------------------------------------
(* The units of completed extractions. *)

\* A step that neither extracts, ingests, begins nor ends anything of a run.
LEMMA ExtractedFrame ==
    ASSUME TypeOK, [Next]_vars, ~(SkipNonAtomic \/ ExtractPage \/ ExtractFails),
           ~(IngestUnit \/ IngestFails \/ IngestEnds), ~Begin, ~StageEnds, ~BuildManifest, ~Cut
    PROVE  UNCHANGED <<extractions, stored, ingestions, staged, stage, plan, runs, cuts>>
           \/ (SelectUnread /\ UNCHANGED <<extractions, stored, ingestions, staged, plan, runs, cuts>>)
<1> USE DEF registry, discovery, reads, results, place, work
<1>1. CASE SeedProduct \/ FindPage
    BY <1>1 DEF SeedProduct, FindPage, Upsert
<1>2. CASE Revalidate \/ SelectUnread \/ RequestBatch \/ RecordRead \/ CacheText
    BY <1>2 DEF Revalidate, SelectUnread, RequestBatch, RecordRead, CacheText
<1>3. CASE \E p \in Pages : Submit(p) \/ PollAgain(p) \/ AgentTimesOut(p) \/ AgentAnswers(p)
  <2>1. AgentStep
    BY <1>3 DEF Submit, PollAgain, AgentTimesOut, AgentAnswers, EndsWith
  <2> QED
    BY <2>1 DEF AgentStep
<1>4. CASE Deploy \/ UNCHANGED vars
    BY <1>4 DEF Deploy, vars
<1> QED
    BY <1>1, <1>2, <1>3, <1>4 DEF Next, RunStep

LEMMA IngestionStep ==
    TypeOK /\ StageInv /\ IngestionInv /\ [Next]_vars => IngestionInv'
<1> SUFFICES ASSUME TypeOK, StageInv, IngestionInv, [Next]_vars PROVE IngestionInv'
    OBVIOUS
<1> USE DEF registry, discovery, reads, results, place, work
<1>1. CASE SkipNonAtomic \/ ExtractPage \/ ExtractFails
  <2>1. stage = "extract" /\ UNCHANGED <<stage, plan, ingestions, runs>>
    BY <1>1 DEF SkipNonAtomic, ExtractPage, ExtractFails, Extracting, Written
  <2>2. \A e \in extractions' : e \in extractions \/ e.run = runs
    BY <1>1 DEF SkipNonAtomic, ExtractPage, ExtractFails, Written
  <2> QED
    BY <2>1, <2>2 DEF IngestionInv, TypeOK
<1>2. CASE IngestUnit
  <2>1. UNCHANGED <<extractions, stage, plan, ingestions, runs>>
    BY <1>2 DEF IngestUnit, Ingesting
  <2> QED
    BY <2>1 DEF IngestionInv
<1>3. CASE IngestFails \/ IngestEnds
  <2>1. PICK status \in {"completed", "failed"} : IngestionEnds(status)
    BY <1>3 DEF IngestFails, IngestEnds
  <2>2. /\ stage = "extract" /\ Advance /\ UNCHANGED <<extractions, runs>>
        /\ ingestions' = [ingestions EXCEPT ![runs] = status]
    BY <2>1 DEF IngestionEnds, Ingesting
  <2>3. PICK s \in Stages : s \in plan /\ Enter(s) /\ plan' = plan \ {s}
    BY <2>2, AdvanceEnters
  <2>4. stage' \in plan /\ plan' = plan \ {stage'}
    BY <2>3 DEF Enter
  <2>5. "extract" \notin plan /\ stage' # "extract" /\ "extract" \notin plan'
    BY <2>2, <2>4 DEF IngestionInv
  <2>6. runs \in 1 .. MaxRuns /\ ingestions'[runs] # "none"
    BY <2>2, LimitsAssumption DEF TypeOK, StageInv
  <2>7. \A r \in 1 .. MaxRuns : r > runs => ingestions'[r] = "none"
    BY <2>2, <2>6 DEF IngestionInv, TypeOK
  <2> QED
    BY <2>2, <2>5, <2>6, <2>7 DEF IngestionInv
<1>4. CASE StageEnds
  <2>1. stage \in {"begin", "seed", "discover", "fetch", "agent"} /\ Advance
        /\ UNCHANGED <<extractions, ingestions, runs>>
    BY <1>4 DEF StageEnds
  <2>2. PICK s \in Stages : s \in plan /\ Enter(s) /\ plan' = plan \ {s}
    BY <2>1, AdvanceEnters
  <2>3. stage' \in plan /\ plan' = plan \ {stage'}
    BY <2>2 DEF Enter
  <2> QED
    BY <2>1, <2>3 DEF IngestionInv
<1>5. CASE Begin
  <2>1. /\ runs' = runs + 1 /\ runs' \in 1 .. MaxRuns /\ stage' = "begin"
        /\ UNCHANGED <<extractions, ingestions>>
    BY <1>5, LimitsAssumption DEF Begin, TypeOK
  <2>2. \A e \in extractions : e.run <= runs /\ e.run \in Nat
    BY LimitsAssumption DEF IngestionInv, TypeOK
  <2>3. runs \in Nat /\ \A r \in 1 .. MaxRuns : r > runs => ingestions[r] = "none"
    BY DEF IngestionInv, TypeOK
  <2>4. \A e \in extractions : e.run <= runs' /\ e.run # runs'
    BY <2>1, <2>2, <2>3
  <2>5. ingestions[runs'] = "none" /\ \A r \in 1 .. MaxRuns : r > runs' => ingestions[r] = "none"
    BY <2>1, <2>3
  <2> QED
    BY <2>1, <2>4, <2>5 DEF IngestionInv
<1>6. CASE BuildManifest \/ Cut
  <2>1. stage' = "idle" /\ UNCHANGED <<extractions, ingestions, runs>>
    BY <1>6 DEF BuildManifest, Cut
  <2> QED
    BY <2>1 DEF IngestionInv
<1>7. CASE ~(SkipNonAtomic \/ ExtractPage \/ ExtractFails) /\ ~Begin /\ ~StageEnds
           /\ ~(IngestUnit \/ IngestFails \/ IngestEnds) /\ ~BuildManifest /\ ~Cut
  <2>1. /\ UNCHANGED <<extractions, ingestions, plan, runs>>
        /\ stage' = stage \/ (stage = "revalidate" /\ stage' = "fetch")
    BY <1>7, ExtractedFrame DEF SelectUnread
  <2> QED
    BY <2>1 DEF IngestionInv
<1> QED
    BY <1>1, <1>2, <1>3, <1>4, <1>5, <1>6, <1>7

LEMMA KeptStep ==
    TypeOK /\ StageInv /\ IngestionInv /\ CompletedUnitsAreKept /\ [Next]_vars
        => CompletedUnitsAreKept'
<1> SUFFICES ASSUME TypeOK, StageInv, IngestionInv, CompletedUnitsAreKept, [Next]_vars,
                    NEW e \in extractions', e.status = "completed"
             PROVE  LET units == OnUrl(e.read.page, e.units) IN
                       \/ units \subseteq stored'
                       \/ MayIngest(e.run)' /\ units \subseteq stored' \cup staged'
                       \/ ingestions'[e.run] = "failed"
                       \/ cuts' > 0 /\ ingestions'[e.run] = "none" /\ ~MayIngest(e.run)'
    BY DEF CompletedUnitsAreKept, OnUrl, MayIngest
<1> DEFINE units == OnUrl(e.read.page, e.units)
<1> USE DEF registry, discovery, reads, results, place, work
<1>1. e \in extractions =>
         /\ e.run \in 1 .. MaxRuns /\ e.run <= runs
         /\ \/ units \subseteq stored
            \/ MayIngest(e.run) /\ units \subseteq stored \cup staged
            \/ ingestions[e.run] = "failed"
            \/ cuts > 0 /\ ingestions[e.run] = "none" /\ ~MayIngest(e.run)
    BY DEF CompletedUnitsAreKept, IngestionInv, TypeOK
<1> HIDE DEF units
<1>2. CASE SkipNonAtomic \/ ExtractPage \/ ExtractFails
  <2>1. /\ UNCHANGED <<stored, ingestions, stage, runs, cuts>> /\ staged \subseteq staged'
        /\ stage = "extract"
    BY <1>2 DEF SkipNonAtomic, ExtractPage, ExtractFails, Extracting, Written
  <2>2. CASE e \in extractions
    BY <1>1, <2>1, <2>2 DEF units, MayIngest
  <2>3. CASE e \notin extractions
    <3>1. CASE ExtractPage
      <4>1. e.read = Text.read /\ e.units = Accepted(Text.text) /\ e.run = runs
        BY <2>3, <3>1 DEF ExtractPage, Written
      <4>2. units \subseteq staged'
        BY <3>1, <4>1 DEF ExtractPage, units
      <4> QED
        BY <2>1, <4>1, <4>2 DEF MayIngest, IngestionInv, units
    <3>2. CASE SkipNonAtomic \/ ExtractFails
      <4>1. e.status \in {"failed", "skipped_non_atomic"}
        BY <2>3, <3>2 DEF SkipNonAtomic, ExtractFails, Written
      <4> QED
        BY <4>1
    <3> QED
      BY <1>2, <3>1, <3>2
  <2> QED
    BY <2>2, <2>3
<1>3. CASE IngestUnit
  <2>1. /\ UNCHANGED <<extractions, ingestions, stage, runs, cuts>>
        /\ stored \subseteq stored' /\ stored \cup staged = stored' \cup staged'
    BY <1>3 DEF IngestUnit, Ingesting
  <2> QED
    BY <1>1, <2>1 DEF MayIngest, units
<1>4. CASE IngestFails \/ IngestEnds
  <2>1. PICK status \in {"completed", "failed"} :
           /\ IngestionEnds(status) /\ (staged = {} \/ status = "failed")
    BY <1>4 DEF IngestFails, IngestEnds
  <2>2. /\ UNCHANGED <<extractions, stored, runs, cuts>> /\ stage = "extract"
        /\ ingestions' = [ingestions EXCEPT ![runs] = status]
    BY <2>1 DEF IngestionEnds, Ingesting
  <2>3. e.run \in 1 .. MaxRuns
    BY <1>1, <2>2
  <2>4. CASE e.run = runs
    <3>1. MayIngest(e.run) /\ ingestions'[e.run] = status
      BY <2>2, <2>3, <2>4 DEF MayIngest, IngestionInv, TypeOK
    <3>2. ingestions[e.run] = "none"
      BY <3>1 DEF MayIngest
    <3> QED
      BY <1>1, <2>1, <2>2, <3>1, <3>2 DEF units
  <2>5. CASE e.run # runs
    <3>1. ingestions'[e.run] = ingestions[e.run] /\ ~MayIngest(e.run)
      BY <2>2, <2>3, <2>5 DEF MayIngest, TypeOK
    <3>2. ~MayIngest(e.run)'
      BY <2>2, <2>5 DEF MayIngest
    <3> QED
      BY <1>1, <2>2, <3>1, <3>2 DEF units
  <2> QED
    BY <2>4, <2>5
<1>5. CASE Begin
  <2>1. /\ runs' = runs + 1 /\ stage = "idle" /\ runs \in Nat
        /\ UNCHANGED <<extractions, stored, ingestions, cuts>>
    BY <1>5 DEF Begin, TypeOK
  <2>2. ~MayIngest(e.run) /\ ~MayIngest(e.run)'
    BY <1>1, <2>1 DEF MayIngest
  <2> QED
    BY <1>1, <2>1, <2>2 DEF units
<1>6. CASE Cut
  <2>1. /\ stage' = "idle" /\ cuts' > 0
        /\ UNCHANGED <<extractions, stored, ingestions, runs>>
    BY <1>6 DEF Cut, TypeOK
  <2>2. ~MayIngest(e.run)'
    BY <2>1 DEF MayIngest
  <2>3. CASE MayIngest(e.run)
    BY <2>1, <2>2, <2>3 DEF MayIngest, units
  <2> QED
    BY <1>1, <2>1, <2>2, <2>3 DEF units
<1>7. CASE BuildManifest
  <2>1. /\ stage = "manifest" /\ stage' = "idle"
        /\ UNCHANGED <<extractions, stored, ingestions, runs, cuts>>
    BY <1>7 DEF BuildManifest
  <2>2. ~MayIngest(e.run)
    BY <1>1, <2>1 DEF MayIngest, IngestionInv
  <2>3. ~MayIngest(e.run)'
    BY <2>1 DEF MayIngest
  <2> QED
    BY <1>1, <2>1, <2>2, <2>3 DEF units
<1>8. CASE StageEnds
  <2>1. /\ stage # "idle" /\ Advance
        /\ UNCHANGED <<extractions, stored, ingestions, staged, runs, cuts>>
    BY <1>8 DEF StageEnds
  <2>2. PICK s \in Stages : Enter(s)
    BY <1>8, <2>1, AdvanceEnters DEF StageEnds
  <2>3. stage' # "idle"
    BY <2>2, StagesAre DEF Enter
  <2> QED
    BY <1>1, <2>1, <2>3 DEF MayIngest, units
<1>9. CASE ~(SkipNonAtomic \/ ExtractPage \/ ExtractFails) /\ ~Begin /\ ~StageEnds
           /\ ~(IngestUnit \/ IngestFails \/ IngestEnds) /\ ~BuildManifest /\ ~Cut
  <2>1. /\ UNCHANGED <<extractions, stored, ingestions, staged, runs, cuts>>
        /\ stage' = stage \/ (stage = "revalidate" /\ stage' = "fetch")
    BY <1>9, ExtractedFrame DEF SelectUnread
  <2> QED
    BY <1>1, <2>1 DEF MayIngest, units
<1> QED
    BY <1>2, <1>3, <1>4, <1>5, <1>6, <1>7, <1>8, <1>9

-----------------------------------------------------------------------------
(* What a stage may still do. *)

LEMMA UsableOnLog ==
    ASSUME NEW p
    PROVE  UsableOn(p) = {} <=> \A a \in ToSet(attempts) : ~(a.page = p /\ Usable(a))
    BY DEF UsableOn, ToSet

\* A stage that is entered finds its work due.
LEMMA EnteredIsDue ==
    ASSUME TypeOK, NEW s \in Stages, Enter(s),
           UNCHANGED <<policy, contract, found, attempts, extractions, opts>>
    PROVE  DueInv'
<1>1. stage' = s /\ s # "fetch"
    BY StagesAre DEF Enter
<1>2. ASSUME s = "revalidate", NEW p \in Pages, p \notin rows'
      PROVE  found'[p] # "eligible"
    BY <1>2 DEF Enter, Discovered
<1>3. ASSUME s = "extract", NEW r \in texts'
      PROVE  /\ ~opts.refresh => ~SettledRead(r.read)
             /\ \A q \in texts' : q.read.page = r.read.page => q = r
  <2>1. \A q \in texts' : q \in ToExtract
    BY <1>3 DEF Enter
  <2>2. attempts \in Seq(Reads) /\ cache \in [Urls -> Contents \cup {NoText}]
    BY DEF TypeOK
  <2> QED
    BY <2>1, <2>2, ToExtractAre
<1>4. \A r \in texts' : SettledRead(r.read)' <=> SettledRead(r.read)
    BY DEF SettledRead, ExtractionsOf, SettledStatuses
<1> QED
    BY <1>1, <1>2, <1>3, <1>4 DEF DueInv

LEMMA DueStep == TypeOK /\ StageInv /\ DueInv /\ [Next]_vars => DueInv'
<1> SUFFICES ASSUME TypeOK, StageInv, DueInv, [Next]_vars PROVE DueInv'
    OBVIOUS
<1> USE DEF registry, discovery, reads, results, place, work
<1>1. CASE StageEnds \/ IngestFails \/ IngestEnds
  <2>1. stage \notin {"idle", "manifest"} /\ Advance
        /\ UNCHANGED <<policy, contract, found, attempts, extractions, opts>>
    BY <1>1 DEF StageEnds, IngestFails, IngestEnds, IngestionEnds, Ingesting
  <2>2. PICK s \in Stages : Enter(s)
    BY <2>1, AdvanceEnters
  <2> QED
    BY <2>1, <2>2, EnteredIsDue
<1>2. CASE SkipNonAtomic \/ ExtractPage \/ ExtractFails
  <2>1. PICK status : Written(status)
    BY <1>2 DEF SkipNonAtomic, ExtractPage, ExtractFails
  <2>2. stage = "extract" /\ Text \in texts
    BY <1>2, TextIsOne DEF SkipNonAtomic, ExtractPage, ExtractFails, Extracting, TypeOK
  <2>3. stage' = "extract" /\ texts' = texts \ {Text} /\ opts' = opts /\ contract' = contract
    BY <2>1, <2>2 DEF Written
  <2>4. ASSUME NEW r \in texts' PROVE SettledRead(r.read)' => SettledRead(r.read)
    <3>1. r.read # Text.read
      BY <2>2, <2>3 DEF DueInv
    <3>2. PICK row : row.read = Text.read
                     /\ extractions' = (extractions \ ExtractionsOf(Text.read)) \cup {row}
      BY <2>1 DEF Written
    <3> QED
      BY <2>3, <3>1, <3>2 DEF SettledRead, ExtractionsOf, SettledStatuses
  <2> QED
    BY <2>2, <2>3, <2>4 DEF DueInv
<1>3. CASE Revalidate
  <2>1. /\ stage = "revalidate" /\ stage' = stage /\ policy' = policy
        /\ rows' = rows \ {Foremost(rows)}
        /\ found' = [found EXCEPT ![Foremost(rows)] =
                        IF Foremost(rows) \in policy THEN "eligible" ELSE "refused"]
    BY <1>3 DEF Revalidate
  <2>2. ASSUME NEW p \in Pages, p \notin rows', found'[p] = "eligible" PROVE p \in policy
    BY <2>1, <2>2 DEF DueInv, TypeOK
  <2> QED
    BY <2>1, <2>2 DEF DueInv
<1>4. CASE SelectUnread
  <2>1. /\ stage = "revalidate" /\ rows = {} /\ stage' = "fetch" /\ answers' = answers
        /\ rows' \subseteq {p \in Pages : Unread(p)} /\ answers = {}
        /\ UNCHANGED <<policy, attempts, opts>>
    BY <1>4 DEF SelectUnread, StageInv, ToFetch, Limited, First
  <2>2. \A p \in rows' : p \in policy /\ (~opts.refresh => UsableOn(p) = {})
    BY <2>1 DEF DueInv, Unread
  <2>3. \A p \in rows' : (UsableOn(p) = {})' <=> UsableOn(p) = {}
    BY <2>1 DEF UsableOn, Usable, Status
  <2> QED
    BY <2>1, <2>2, <2>3 DEF DueInv
<1>5. CASE RequestBatch
  <2>1. /\ stage = "fetch" /\ stage' = stage /\ rows' = rows \ Batch
        /\ \A a \in answers' : a.page \in Batch
        /\ UNCHANGED <<policy, attempts, opts>>
    BY <1>5 DEF RequestBatch
  <2>2. \A p \in rows' : (UsableOn(p) = {})' <=> UsableOn(p) = {}
    BY <2>1 DEF UsableOn, Usable, Status
  <2> QED
    BY <2>1, <2>2 DEF DueInv
<1>6. CASE RecordRead
  <2>1. /\ stage' = stage /\ rows' = rows /\ texts' = texts /\ answers' \subseteq answers
        /\ UNCHANGED <<policy, contract, found, extractions, opts>>
    BY <1>6 DEF RecordRead
  <2>2. Answer \in answers /\ ToSet(attempts') = ToSet(attempts) \cup {Answer}
    BY <1>6, RecordedReads
  <2>3. ASSUME stage = "fetch", NEW p \in rows, UsableOn(p) = {}
        PROVE  (UsableOn(p) = {})'
    <3>1. Answer.page # p
      BY <2>2, <2>3 DEF DueInv
    <3>2. \A a \in ToSet(attempts') : ~(a.page = p /\ Usable(a))
      BY <2>2, <2>3, <3>1, UsableOnLog
    <3> QED
      BY <3>2 DEF UsableOn, Usable, Status, ToSet
  <2>4. stage # "extract"
    BY <1>6 DEF RecordRead, StageInv
  <2> QED
    BY <2>1, <2>3, <2>4 DEF DueInv
<1>7. CASE CacheText
  <2>1. /\ stage' = stage /\ rows' = rows /\ answers' \subseteq answers
        /\ UNCHANGED <<policy, contract, found, extractions, opts, attempts>>
        /\ stage # "extract"
    BY <1>7 DEF CacheText, StageInv, TypeOK
  <2>2. \A p \in rows' : (UsableOn(p) = {})' <=> UsableOn(p) = {}
    BY <2>1 DEF UsableOn, Usable, Status
  <2> QED
    BY <2>1, <2>2 DEF DueInv
<1>8. CASE Begin \/ BuildManifest \/ Cut
    BY <1>8 DEF Begin, BuildManifest, Cut, DueInv
<1>8a. CASE IngestUnit
  <2>1. stage = "extract" /\ UNCHANGED <<stage, texts, opts, contract, extractions>>
    BY <1>8a DEF IngestUnit, Ingesting
  <2> QED
    BY <2>1 DEF DueInv, SettledRead, ExtractionsOf, SettledStatuses
<1>9. CASE Deploy
    BY <1>9 DEF Deploy, DueInv
<1>10. CASE SeedProduct \/ FindPage
    BY <1>10 DEF SeedProduct, FindPage, Upsert, DueInv
<1>11. CASE \E p \in Pages : Submit(p) \/ PollAgain(p) \/ AgentTimesOut(p) \/ AgentAnswers(p)
  <2>1. AgentStep
    BY <1>11 DEF Submit, PollAgain, AgentTimesOut, AgentAnswers, EndsWith
  <2> QED
    BY <2>1 DEF AgentStep, DueInv
<1>12. CASE UNCHANGED vars
    BY <1>12 DEF vars, DueInv, UsableOn, Usable, Status, SettledRead, ExtractionsOf,
                SettledStatuses
<1> QED
    BY <1>1, <1>2, <1>3, <1>4, <1>5, <1>6, <1>7, <1>8, <1>8a, <1>9, <1>10, <1>11,
       <1>12 DEF Next, RunStep

-----------------------------------------------------------------------------

LEMMA InitInv == Init => IndInv
<1> SUFFICES ASSUME Init PROVE IndInv
    OBVIOUS
<1>1. TypeOK /\ StageInv /\ CachingInv
    BY InitTyped
<1>2. CacheInv
  <2>1. \A u \in Urls : cache[u] = NoText /\ UsableAt(attempts, u) = {}
    BY DEF Init, UsableAt
  <2> QED
    BY <2>1 DEF CacheInv, LatestText
<1>3. ReadInv
    BY DEF Init, ReadInv, TextsWereRead
<1>4. CompletedUnitsAreKept /\ IngestionInv
    BY DEF Init, CompletedUnitsAreKept, IngestionInv
<1>5. DueInv
    BY DEF Init, DueInv
<1> QED
    BY <1>1, <1>2, <1>3, <1>4, <1>5 DEF IndInv

LEMMA NextInv == IndInv /\ [Next]_vars => IndInv'
    BY TypeStep, StageStep, CachingStep, CacheStep, ReadStep, IngestionStep, KeptStep,
       DueStep DEF IndInv

LEMMA Invariance == Spec => []IndInv
    BY InitInv, NextInv, PTL DEF Spec

\* The tables agree, whatever was cut off and deployed: the cache is the newest
\* usable read of its URL, and every text that was extracted had been read there.
THEOREM TablesAgree == Spec => []ReadsAgree
<1>1. IndInv => ReadsAgree
    BY CacheFollowsLog DEF IndInv, ReadInv, ReadsAgree
<1> QED
    BY <1>1, Invariance, PTL

\* The units of a completed extraction are stored, or staged while their run may
\* still ingest them, unless the audit shows that its ingestion failed or that it
\* was cut off before the ingestion ended.
THEOREM UnitsAreKept == Spec => []CompletedUnitsAreKept
<1>1. IndInv => CompletedUnitsAreKept
    BY DEF IndInv
<1> QED
    BY <1>1, Invariance, PTL

\* A batch that is requested is due.
LEMMA BatchIsDue ==
    ASSUME TypeOK, DueInv, [Next]_vars, stage = "fetch", answers = {}, NEW a \in answers'
    PROVE  a.page \in policy /\ (~opts.refresh => UsableOn(a.page) = {})
<1> USE DEF registry, discovery, reads, results, place, work
<1>1. RequestBatch
  <2>1. answers' # answers
    OBVIOUS
  <2>2. ~(Begin \/ StageEnds \/ Revalidate \/ SelectUnread \/ RecordRead \/ CacheText)
    BY <2>1 DEF Begin, StageEnds, Revalidate, SelectUnread, RecordRead, CacheText, TypeOK
  <2>3. ~(SeedProduct \/ FindPage \/ BuildManifest \/ Cut \/ Deploy \/ UNCHANGED vars)
    BY <2>1 DEF SeedProduct, FindPage, BuildManifest, Cut, Deploy, vars
  <2>4. ~(SkipNonAtomic \/ ExtractPage \/ ExtractFails \/ IngestUnit \/ IngestFails
          \/ IngestEnds)
    BY DEF SkipNonAtomic, ExtractPage, ExtractFails, Extracting, IngestUnit, IngestFails,
           IngestEnds, IngestionEnds, Ingesting
  <2>5. ~\E p \in Pages : Submit(p) \/ PollAgain(p) \/ AgentTimesOut(p) \/ AgentAnswers(p)
    BY DEF Submit, PollAgain, AgentTimesOut, AgentAnswers, EndsWith, AgentStep
  <2> QED
    BY <2>2, <2>3, <2>4, <2>5 DEF Next, RunStep
<1>2. a.page \in rows
  <2>1. a.page \in Batch
    BY <1>1 DEF RequestBatch
  <2> QED
    BY <2>1 DEF Batch, First
<1> QED
    BY <1>2 DEF DueInv

\* Without refresh only texts without a settled extraction are extracted.
LEMMA SettledStays ==
    ASSUME TypeOK, DueInv, [Next]_vars, ~opts.refresh,
           NEW e \in extractions, e.status \in SettledStatuses
    PROVE  e \in extractions'
<1> USE DEF registry, discovery, reads, results, place, work
<1>1. CASE SkipNonAtomic \/ ExtractPage \/ ExtractFails
  <2>1. stage = "extract" /\ Text \in texts
    BY <1>1, TextIsOne DEF SkipNonAtomic, ExtractPage, ExtractFails, Extracting, TypeOK
  <2>2. ~SettledRead(Text.read)
    BY <2>1 DEF DueInv
  <2>3. PICK status : Written(status)
    BY <1>1 DEF SkipNonAtomic, ExtractPage, ExtractFails
  <2>4. e \notin ExtractionsOf(Text.read)
    BY <2>2 DEF SettledRead
  <2> QED
    BY <2>3, <2>4 DEF Written
<1>2. CASE ~(SkipNonAtomic \/ ExtractPage \/ ExtractFails)
  <2>1. CASE Begin \/ StageEnds \/ BuildManifest \/ Deploy \/ Cut \/ UNCHANGED vars
    BY <2>1 DEF Begin, StageEnds, BuildManifest, Deploy, Cut, vars
  <2>1a. CASE IngestUnit \/ IngestFails \/ IngestEnds
    BY <2>1a DEF IngestUnit, IngestFails, IngestEnds, IngestionEnds, Ingesting
  <2>2. CASE SeedProduct \/ FindPage
    BY <2>2 DEF SeedProduct, FindPage, Upsert
  <2>3. CASE Revalidate \/ SelectUnread \/ RequestBatch \/ RecordRead \/ CacheText
    BY <2>3 DEF Revalidate, SelectUnread, RequestBatch, RecordRead, CacheText
  <2>4. CASE \E p \in Pages : Submit(p) \/ PollAgain(p) \/ AgentTimesOut(p) \/ AgentAnswers(p)
    <3>1. AgentStep
      BY <2>4 DEF Submit, PollAgain, AgentTimesOut, AgentAnswers, EndsWith
    <3> QED
      BY <3>1 DEF AgentStep
  <2> QED
    BY <1>2, <2>1, <2>1a, <2>2, <2>3, <2>4 DEF Next, RunStep
<1> QED
    BY <1>1, <1>2

\* A Fetch request names pages that the deployed registry allows, no page that
\* was read well unless the run refreshes, and no settled extraction is made
\* again: a resumed run pays for what is missing only.
THEOREM NothingIsPaidTwice == Spec => RequestsAreDue
<1> DEFINE Due ==
       /\ stage = "fetch" /\ answers = {} =>
             \A a \in answers' :
                /\ a.page \in policy
                /\ ~opts.refresh => UsableOn(a.page) = {}
       /\ ~opts.refresh =>
             \A e \in extractions : e.status \in SettledStatuses => e \in extractions'
<1>1. IndInv /\ [Next]_vars => [Due]_vars
    BY BatchIsDue, SettledStays DEF IndInv
<1>2. RequestsAreDue <=> [][Due]_vars
    BY PTL DEF RequestsAreDue
<1> HIDE DEF Due
<1> QED
    BY <1>1, <1>2, Invariance, PTL DEF Spec
=============================================================================
