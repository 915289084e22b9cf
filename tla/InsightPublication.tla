-------------------------- MODULE InsightPublication --------------------------
(***************************************************************************)
(* Insight cards (application.py 1953-2743 and 4751-4786).  A rebuild      *)
(* decides from the analytics which topics deserve a card, writes series,  *)
(* observation, card and evidence of each in statements of their own, and  *)
(* then shows them through _built.  Operators assign owners and statuses   *)
(* with patch_insight, two of them at a time if they like; a monitoring    *)
(* status freezes an observation that later builds are measured against.   *)
(*                                                                         *)
(* A build stands for the numbers and facts the analytics found in it, and *)
(* for its time.  The demo mode with its seeded reference is left out.     *)
(***************************************************************************)
EXTENDS Naturals, FiniteSets, Sequences, SequencesExt

CONSTANTS
    TopicOrder,     \* the actionable topics, in the order of the taxonomy
    Delivery,       \* the topic whose improvement is monitored
    Operators,
    Owners,         \* the teams an operator may assign
    Playbook,       \* the team a new card is assigned to
    Payloads,       \* what a patch may ask for: [status, owner], None is left out
    Findings,       \* what the analytics may find for each topic
    Evidence,       \* the number of pieces of evidence of a card
    None,           \* a missing row
    MaxBuilds,      \* bound on the rebuilds
    MaxPatches,     \* bound on the patches
    MaxCuts         \* bound on failed rebuilds and ended processes

Topics == ToSet(TopicOrder)
Statuses == {"open", "acknowledged", "monitoring"}
CardTypes == {"act_now", "watch", "improving"}

Signals == {"quiet", "recurs", "spikes", "falls"}

ASSUME TopicsAssumption ==
    /\ TopicOrder \in Seq(Topics) /\ Delivery \in Topics
    /\ \A t \in Topics : Findings[t] \subseteq Signals
    /\ Payloads \subseteq [status : Statuses \cup {None}, owner : Owners \cup {None}]
ASSUME PublicationBounds ==
    Evidence \in Nat \ {0} /\ MaxBuilds \in Nat /\ MaxPatches \in Nat /\ MaxCuts \in Nat

(* The rows. *)
Builds == 1 .. MaxBuilds
Ids == Topics \X (0 .. MaxBuilds)
Teams == Owners \cup {Playbook}
Observation == [topic : Topics, share : Builds, facts : Builds, at : Builds]
Card == [observation : Ids, type : CardTypes, status : Statuses, owner : Teams]
Event == [topic : Topics, status : Statuses, reference : Ids \cup {None}]
Patch == [at : {"idle", "owner", "status", "history"}, topic : Topics \cup {None},
          observation : Ids \cup {None}, status : Statuses \cup {None},
          owner : Owners \cup {None}]

ASSUME NoneAssumption ==
    /\ None \notin Topics \cup Statuses \cup CardTypes \cup Teams
    /\ None \notin Ids \cup Card \cup Event \cup (0 .. MaxBuilds)

VARIABLES
    series,         \* insight_series.latest_observation_id of each topic
    observations,   \* insight_observations: rows by id, [share, facts, at]
    cards,          \* insight_cards of each topic
    history,        \* insight_status_history, ordered by changed_at
    evidence,       \* insight_evidence: the pieces of each topic, by build
    shown,          \* _built: the build of each topic that is shown, or None
    hydrated,       \* the process has made its start-up attempt
    place,          \* where the rebuild is
    build, id,      \* the rebuild's number and its pipeline_run_id
    signals,        \* what its analytics found for each topic
    improves,       \* what it concluded of the monitored topic
    types,          \* the insight types it decided on
    todo,           \* the topics it has still to write
    found,          \* the card row it read before writing
    rank,           \* the pieces of evidence it has written for the card
    patch,          \* the patch of each operator: where it is, its row and payload
    patches, cuts,
    crossed,        \* observer: two patches were open at once
    lost            \* observer: a rebuild or a patch was cut off

tables == <<series, observations, cards, history, evidence>>
rebuild == <<place, build, id, signals, improves, types, todo, found, rank>>
bounds == <<patches, cuts, crossed, lost>>
vars == <<tables, shown, hydrated, rebuild, patch, bounds>>

Idle == [at |-> "idle", topic |-> None, observation |-> None, status |-> None, owner |-> None]
Nothing == [t \in Topics |-> None]

Init ==
    /\ series = Nothing /\ observations = <<>> /\ cards = Nothing
    /\ history = <<>> /\ evidence = [t \in Topics |-> {}]
    /\ shown = Nothing /\ hydrated = FALSE
    /\ place = "idle" /\ build = 0 /\ id = None /\ signals = Nothing
    /\ improves = FALSE /\ types = Nothing /\ todo = {} /\ found = None /\ rank = 0
    /\ patch = [o \in Operators |-> Idle]
    /\ patches = 0 /\ cuts = 0 /\ crossed = FALSE /\ lost = FALSE

-----------------------------------------------------------------------------
(* What a rebuild decides. *)

\* One observation per topic and pipeline run; start-up has a run id as well.
ObservationId(t, run) == <<t, run>>

\* The latest event of a series: [topic, status, reference].
LatestEvent(t) ==
    LET latest == {i \in DOMAIN history : history[i].topic = t
                      /\ \A j \in DOMAIN history : j > i => history[j].topic # t}
    IN  IF latest = {} THEN None ELSE history[CHOOSE i \in latest : TRUE]

Monitored(t) ==
    LET e == LatestEvent(t)
    IN  e # None /\ e.status \in {"acknowledged", "monitoring"} /\ e.reference # None

\* The share fell against a frozen reference that is older than this build.
DeliveryImproves ==
    /\ signals[Delivery] = "falls" /\ Monitored(Delivery)
    /\ LET r == LatestEvent(Delivery).reference
       IN  r \in DOMAIN observations /\ observations[r].at < build

\* Whether the analytics deserve a card, and which.  "quiet" stands for a topic
\* without shares, with health notes, or below every threshold.
TypeOf(t) ==
    IF t = Delivery /\ improves THEN "improving"
    ELSE IF signals[t] = "spikes" THEN "act_now"
    ELSE IF t = Delivery /\ signals[t] # "quiet" /\ Monitored(t) THEN "watch"
    ELSE IF signals[t] = "recurs" THEN "watch"
    ELSE None

\* The status a card gets when it is new.
NewStatus(t) ==
    IF t = Delivery /\ (types[t] = "improving" \/ (types[t] = "watch" /\ Monitored(t)))
    THEN "monitoring" ELSE "open"

-----------------------------------------------------------------------------
(* A rebuild, one statement after the other, under the pipeline lock. *)

StartUpRun == 0
Start(run) ==
    /\ place = "idle" /\ build < MaxBuilds
    /\ build' = build + 1 /\ id' = run
    /\ signals' \in {f \in [Topics -> Signals] : \A t \in Topics : f[t] \in Findings[t]}
    /\ place' = "measure" /\ hydrated' = TRUE
    /\ UNCHANGED <<tables, shown, improves, types, todo, found, rank, patch, bounds>>

\* initialize() rebuilds before the first call of a process is served; the
\* other rebuilds belong to pipeline runs.
StartUp == ~hydrated /\ Start(StartUpRun)
StartRun == hydrated /\ Start(build + 1)

\* No feedback is left to analyse, or was there at start-up.
NothingToShow ==
    /\ place = "idle"
    /\ shown' = Nothing /\ hydrated' = TRUE
    /\ UNCHANGED <<tables, rebuild, patch, bounds>>

\* _delivery_improves reads the history and the reference observation ...
Measure ==
    /\ place = "measure"
    /\ improves' = DeliveryImproves
    /\ place' = "select"
    /\ UNCHANGED <<tables, shown, hydrated, build, id, signals, types, todo, found,
                   rank, patch, bounds>>

\* ... and _rebuild_insights reads the history again.
Select ==
    /\ place = "select"
    /\ types' = [t \in Topics |-> TypeOf(t)]
    /\ todo' = {t \in Topics : types'[t] # None}
    /\ signals' = Nothing /\ improves' = FALSE /\ place' = "next"
    /\ UNCHANGED <<tables, shown, hydrated, build, id, found, rank, patch, bounds>>

\* Broken variant: the card is written before the observation it names.
CardFirst == <<"next", "series", "card", "observation", "clear", "evidence">>
Steps == <<"next", "series", "observation", "card", "clear", "evidence">>
After(step) == CHOOSE s \in ToSet(Steps) :
    \E i \in 1 .. Len(Steps) - 1 : Steps[i] = step /\ Steps[i + 1] = s

\* The drafts are written in the order of the topics.
Topic == TopicOrder[CHOOSE i \in DOMAIN TopicOrder :
    TopicOrder[i] \in todo /\ \A j \in 1 .. i - 1 : TopicOrder[j] \notin todo]
Obs == ObservationId(Topic, id)
Writing(step) ==
    /\ place = step /\ todo # {} /\ place' = After(step)
    /\ UNCHANGED <<shown, hydrated, build, id, signals, improves, types, todo, patch, bounds>>

ReadCard ==
    /\ Writing("next")
    /\ found' = cards[Topic]
    /\ UNCHANGED <<tables, rank>>

WriteSeries ==
    /\ Writing("series")
    /\ series' = [series EXCEPT ![Topic] = Obs]
    /\ UNCHANGED <<observations, cards, history, evidence, found, rank>>

\* On conflict the facts and the time move; the numbers stay.
NewObservation ==
    IF Obs \in DOMAIN observations
    THEN [observations[Obs] EXCEPT !.facts = build, !.at = build]
    ELSE [topic |-> Topic, share |-> build, facts |-> build, at |-> build]

WriteObservation ==
    /\ Writing("observation")
    /\ observations' = [o \in DOMAIN observations \cup {Obs} |->
                          IF o = Obs THEN NewObservation ELSE observations[o]]
    /\ UNCHANGED <<series, cards, history, evidence, found, rank>>

NewCard ==
    [observation |-> Obs, type |-> types[Topic],
     status |-> IF found = None THEN NewStatus(Topic) ELSE found.status,
     owner |-> IF found = None THEN Playbook ELSE found.owner]

\* Broken variant: the status and the owner it read are written back.
WriteBack(row) == NewCard
\* Broken variant: the generated status replaces the stored one.
Regenerate(row) == [NewCard EXCEPT !.status = NewStatus(Topic), !.owner = row.owner]
\* On conflict neither the status nor the primary owner is in the SET list.
OnConflict(row) == [NewCard EXCEPT !.status = row.status, !.owner = row.owner]

WriteCard ==
    /\ Writing("card")
    /\ cards' = [cards EXCEPT ![Topic] = IF @ = None THEN NewCard ELSE OnConflict(@)]
    /\ found' = None
    /\ UNCHANGED <<series, observations, history, evidence, rank>>

\* Broken variant: evidence is added to what is there.
KeepEvidence(t) == evidence[t]
Cleared(t) == {}

ClearEvidence ==
    /\ Writing("clear")
    /\ evidence' = [evidence EXCEPT ![Topic] = Cleared(Topic)]
    /\ rank' = 0
    /\ UNCHANGED <<series, observations, cards, history, found>>

WriteEvidence ==
    /\ place = "evidence" /\ rank < Evidence
    /\ evidence' = [evidence EXCEPT ![Topic] = @ \cup {<<build, rank + 1>>}]
    /\ rank' = rank + 1
    /\ UNCHANGED <<series, observations, cards, history, shown, hydrated, place, build, id,
                   signals, improves, types, todo, found, patch, bounds>>

CardWritten ==
    /\ place = "evidence" /\ rank = Evidence
    /\ todo' = todo \ {Topic} /\ place' = "next" /\ rank' = 0
    /\ UNCHANGED <<tables, shown, hydrated, build, id, signals, improves, types, found,
                   patch, bounds>>

RebuildOver ==
    /\ place' = "idle" /\ id' = None /\ signals' = Nothing /\ improves' = FALSE
    /\ types' = Nothing /\ todo' = {} /\ found' = None /\ rank' = 0
    /\ UNCHANGED build

Show ==
    /\ place = "next" /\ todo = {}
    /\ shown' = [t \in Topics |-> IF types[t] = None THEN None ELSE build]
    /\ RebuildOver
    /\ UNCHANGED <<tables, hydrated, patch, bounds>>

\* A statement or the analytics raise: the run is recorded as failed, what was
\* written stays, and the cards of the last build are shown.
RebuildFails ==
    /\ place # "idle" /\ cuts < MaxCuts
    /\ cuts' = cuts + 1 /\ lost' = TRUE /\ RebuildOver
    /\ UNCHANGED <<tables, shown, hydrated, patch, patches, crossed>>

-----------------------------------------------------------------------------
(* Operators. *)

\* patch_insight waits in initialize() until no rebuild runs; another one may
\* have begun before it reads the card, but not the rebuild of the start-up.
\* Whatever happens afterwards, the row it read stays the same.
BeginPatch(o) ==
    /\ patch[o].at = "idle" /\ patches < MaxPatches
    /\ hydrated /\ id # StartUpRun
    /\ \E t \in Topics, ask \in Payloads :
          /\ cards[t] # None
          /\ patch' = [patch EXCEPT ![o] =
                [at |-> "owner", topic |-> t, observation |-> cards[t].observation,
                 status |-> ask.status, owner |-> ask.owner]]
    /\ patches' = patches + 1
    /\ crossed' = (crossed \/ \E q \in Operators \ {o} : patch[q].at # "idle")
    /\ UNCHANGED <<tables, shown, hydrated, rebuild, cuts, lost>>

At(o, step) == patch[o].at = step /\ UNCHANGED <<shown, hydrated, rebuild, bounds>>
Goes(o, step) == patch' = [patch EXCEPT ![o].at = step]
Patched(o, c) == cards' = [cards EXCEPT ![patch[o].topic] = c]

\* Without an owner in the payload the step changes nothing.
SetOwner(o) ==
    /\ At(o, "owner") /\ Goes(o, "status")
    /\ LET card == cards[patch[o].topic]
       IN  Patched(o, [card EXCEPT !.owner = IF patch[o].owner = None THEN @ ELSE patch[o].owner])
    /\ UNCHANGED <<series, observations, history, evidence>>

SetStatus(o) ==
    /\ At(o, "status") /\ patch[o].status # None /\ Goes(o, "history")
    /\ LET card == cards[patch[o].topic]
       IN  Patched(o, [card EXCEPT !.status = patch[o].status])
    /\ UNCHANGED <<series, observations, history, evidence>>

AppendHistory(o) ==
    /\ At(o, "history") /\ patch' = [patch EXCEPT ![o] = Idle]
    /\ history' = Append(history,
          [topic |-> patch[o].topic, status |-> patch[o].status,
           reference |-> IF patch[o].status = "monitoring" THEN patch[o].observation ELSE None])
    /\ UNCHANGED <<series, observations, cards, evidence>>

PatchWithoutStatus(o) ==
    /\ At(o, "status") /\ patch[o].status = None
    /\ patch' = [patch EXCEPT ![o] = Idle]
    /\ UNCHANGED tables

\* The process ends and starts again: memory is lost, the tables are not.
Restart ==
    /\ hydrated /\ cuts < MaxCuts
    /\ cuts' = cuts + 1
    /\ lost' = (lost \/ place # "idle" \/ \E o \in Operators : patch[o].at # "idle")
    /\ shown' = Nothing /\ hydrated' = FALSE /\ RebuildOver
    /\ patch' = [o \in Operators |-> Idle]
    /\ UNCHANGED <<tables, patches, crossed>>

RebuildStep ==
    \/ Measure \/ Select \/ ReadCard \/ WriteSeries \/ WriteObservation \/ WriteCard
    \/ ClearEvidence \/ WriteEvidence \/ CardWritten \/ Show

Next ==
    \/ StartUp \/ StartRun \/ NothingToShow \/ RebuildStep \/ RebuildFails \/ Restart
    \/ \E o \in Operators : BeginPatch(o) \/ SetOwner(o) \/ SetStatus(o)
                              \/ AppendHistory(o) \/ PatchWithoutStatus(o)

Spec == Init /\ [][Next]_vars

-----------------------------------------------------------------------------
(* Properties. *)

ObservationsTyped ==
    /\ observations \in [DOMAIN observations -> Observation]
    /\ DOMAIN observations \subseteq Ids
    /\ \A o \in DOMAIN observations : observations[o].topic = o[1]
TablesTyped ==
    /\ series \in [Topics -> Ids \cup {None}]
    /\ \A t \in Topics : series[t] # None => series[t][1] = t
    /\ cards \in [Topics -> Card \cup {None}] /\ history \in Seq(Event)
    /\ evidence \in [Topics -> SUBSET (Builds \X (1 .. Evidence))]
RebuildTyped ==
    /\ place \in {"idle", "measure", "select"} \cup ToSet(Steps)
    /\ build \in 0 .. MaxBuilds /\ id \in (0 .. MaxBuilds) \cup {None}
    /\ signals \in [Topics -> Signals \cup {None}] /\ improves \in BOOLEAN
    /\ types \in [Topics -> CardTypes \cup {None}] /\ todo \subseteq Topics
    /\ found \in Card \cup {None} /\ rank \in 0 .. Evidence
ProcessTyped ==
    /\ shown \in [Topics -> Builds \cup {None}] /\ hydrated \in BOOLEAN
    /\ patch \in [Operators -> Patch]
    /\ patches \in 0 .. MaxPatches /\ cuts \in 0 .. MaxCuts
    /\ crossed \in BOOLEAN /\ lost \in BOOLEAN

\* The tables hold rows of their kinds, each series points at an observation
\* of its own topic.
TypeOK == ObservationsTyped /\ TablesTyped /\ RebuildTyped /\ ProcessTyped

\* Whatever was cut off, a card names an observation that is stored, a frozen
\* reference is stored, and a card's observation is about the card's topic.
CardsAreGrounded ==
    /\ \A t \in Topics : cards[t] # None =>
          /\ cards[t].observation \in DOMAIN observations
          /\ observations[cards[t].observation].topic = t
    /\ \A e \in ToSet(history) : e.reference # None => e.reference \in DOMAIN observations

\* A card that is shown is stored: it can be patched, and its status is read.
ShownCardsAreStored == \A t \in Topics : shown[t] # None => cards[t] # None

\* Only operators change the status and the owner of a card that exists: a
\* rebuild does not undo a decision made after it read the card.
DecisionsSurviveRebuilds ==
    [][\A t \in Topics : cards[t] # None /\ place # "idle" /\ patch' = patch =>
          cards'[t].status = cards[t].status /\ cards'[t].owner = cards[t].owner]_vars

\* The last event of a series is the status of its card, unless two patches
\* crossed or one of them was cut off between its two statements.
HistoryFollowsCards ==
    ~crossed /\ ~lost /\ (\A o \in Operators : patch[o].at # "history") =>
        \A t \in Topics : LatestEvent(t) # None => LatestEvent(t).status = cards[t].status

\* An improving card was measured against a reference that an operator froze
\* before its build; patches that cross the rebuild do not matter.
ImprovementsAreMeasured ==
    \A t \in Topics : cards[t] # None /\ cards[t].type = "improving" =>
        \E e \in ToSet(history) :
            /\ e.topic = t /\ e.reference # None
            /\ observations[e.reference].share < observations[cards[t].observation].at

\* Evidence of an earlier build is never shown beside a newer card once the
\* rebuild is over, and none is missing, unless a rebuild was cut off.
EvidenceIsOfTheCard ==
    place = "idle" /\ ~lost => \A t \in Topics : cards[t] # None =>
        evidence[t] = {observations[cards[t].observation].at} \X (1 .. Evidence)

References == {e.reference : e \in ToSet(history)} \ {None}

\* The data dictionary's immutable facts and monitoring references: frozen
\* observations never change, whichever rebuild made them.
ReferencesAreFrozen ==
    [][\A o \in References : observations'[o] = observations[o]]_vars
\* What the insight tables say of each other, wherever a rebuild was cut off and
\* patches crossed it: cards are grounded in stored observations, what is shown
\* is stored, and improvements were measured.
CardsAgree ==
    TypeOK /\ CardsAreGrounded /\ ShownCardsAreStored /\ ImprovementsAreMeasured
=============================================================================
