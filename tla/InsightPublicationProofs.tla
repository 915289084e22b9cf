---------------------- MODULE InsightPublicationProofs ----------------------
(***************************************************************************)
(* Theorems about InsightPublication, for any number of topics, operators, *)
(* patches, rebuilds and cut-offs.                                         *)
(***************************************************************************)
EXTENDS InsightPublication, WellFoundedInduction, TLAPS

Writings == {"next", "series", "observation", "card", "clear", "evidence"}

\* Some event of the history froze a share that is below n.
Measured(t, n) ==
    \E e \in ToSet(history) :
        /\ e.topic = t /\ e.reference # None
        /\ observations[e.reference].share < n

\* What a rebuild has achieved where it is.
PlaceInv ==
    /\ place # "idle" => build \in Builds /\ id # None
    /\ place \in Writings \ {"next"} => todo # {}
    /\ place = "card" => Obs \in DOMAIN observations /\ observations[Obs].at = build
    /\ place \in {"clear", "evidence"} => cards[Topic] # None

\* The topics that are written off the list have their cards.
WrittenInv ==
    place \in Writings =>
        /\ \A t \in todo : types[t] # None
        /\ \A t \in Topics \ todo : types[t] # None => cards[t] # None

\* A conclusion that the monitored topic improved has a reference behind it.
ConclusionInv ==
    /\ place = "select" /\ improves => Measured(Delivery, build)
    /\ place \in Writings => \A t \in Topics : types[t] = "improving" => Measured(t, build)

\* A share is at most as young as the row it is in, and no row is from later.
AgeInv == \A o \in DOMAIN observations :
    observations[o].share <= observations[o].at /\ observations[o].at <= build

\* The row a patch has read is grounded, and its card is there.
PatchInv == \A o \in Operators : patch[o].at # "idle" =>
    /\ patch[o].topic \in Topics /\ cards[patch[o].topic] # None
    /\ patch[o].observation \in DOMAIN observations
    /\ patch[o].at = "history" => patch[o].status # None

IndInv == CardsAgree /\ PlaceInv /\ WrittenInv /\ ConclusionInv /\ AgeInv /\ PatchInv

-----------------------------------------------------------------------------

\* The statements follow each other as the code has them.
LEMMA StepOrder ==
    /\ After("next") = "series" /\ After("series") = "observation"
    /\ After("observation") = "card" /\ After("card") = "clear"
    /\ After("clear") = "evidence" /\ ToSet(Steps) = Writings
<1>1. Len(Steps) = 6 /\ Steps[1] = "next" /\ Steps[2] = "series" /\ Steps[3] = "observation"
      /\ Steps[4] = "card" /\ Steps[5] = "clear" /\ Steps[6] = "evidence"
    BY DEF Steps
<1>2. DOMAIN Steps = 1 .. 6
    BY DEF Steps
<1>3. ToSet(Steps) = Writings
  <2>1. \A n : n \in ToSet(Steps) <=> \E i \in 1 .. 6 : n = Steps[i]
    BY <1>2, Zenon DEF ToSet
  <2>2. \A n : n \in ToSet(Steps) <=> n \in Writings
    BY <1>1, <2>1 DEF Writings
  <2> QED
    BY <2>2, Zenon
<1>4. \A i \in 1 .. 5, s, n \in Writings :
         (Steps[i] = s /\ Steps[i + 1] = n) <=>
            \/ i = 1 /\ s = "next" /\ n = "series"
            \/ i = 2 /\ s = "series" /\ n = "observation"
            \/ i = 3 /\ s = "observation" /\ n = "card"
            \/ i = 4 /\ s = "card" /\ n = "clear"
            \/ i = 5 /\ s = "clear" /\ n = "evidence"
    BY <1>1 DEF Writings
<1>5. \A s \in Writings : After(s) = CHOOSE n \in Writings :
         \E i \in 1 .. 5 : Steps[i] = s /\ Steps[i + 1] = n
    BY <1>1, <1>3 DEF After
<1> QED
    BY <1>3, <1>4, <1>5 DEF Writings

\* The first topic of the list is on it.
LEMMA TopicIsTodo ==
    ASSUME todo \subseteq Topics, todo # {}
    PROVE  Topic \in todo
<1> DEFINE Places == {i \in DOMAIN TopicOrder : TopicOrder[i] \in todo}
<1>1. Places \subseteq Nat /\ Places # {}
    BY TopicsAssumption DEF Topics, ToSet
<1>2. PICK i \in Places : \A j \in Places : ~ <<j, i>> \in OpToRel(<, Nat)
    BY <1>1, NatLessThanWellFounded, WFMin
<1>3. \A j \in Places : ~ j < i
    BY <1>1, <1>2 DEF OpToRel
<1>4. \A j \in 1 .. i - 1 : TopicOrder[j] \notin todo
    BY <1>1, <1>3, TopicsAssumption DEF Topics
<1> QED
    BY <1>4 DEF Topic

\* The event that decides whether a series is monitored is in its history.
LEMMA LatestIsEvent ==
    ASSUME NEW t, history \in Seq(Event), LatestEvent(t) # None
    PROVE  LatestEvent(t) \in ToSet(history) /\ LatestEvent(t).topic = t
    BY DEF LatestEvent, ToSet

\* A reference that an improvement was measured against is of the past.
LEMMA ImprovementMeasured ==
    ASSUME TypeOK, CardsAreGrounded, AgeInv, DeliveryImproves
    PROVE  Measured(Delivery, build)
<1> DEFINE e == LatestEvent(Delivery)
<1>1. e \in ToSet(history) /\ e.topic = Delivery /\ e.reference # None
    BY LatestIsEvent DEF DeliveryImproves, Monitored, TypeOK, TablesTyped
<1>2. e.reference \in DOMAIN observations /\ observations[e.reference].at < build
    BY DEF DeliveryImproves
<1>3. observations[e.reference].share < build
  <2>1. observations[e.reference] \in Observation
    BY <1>2 DEF TypeOK, ObservationsTyped
  <2> QED
    BY <1>2, <2>1 DEF AgeInv, Observation, Builds, TypeOK, RebuildTyped
<1> QED
    BY <1>1, <1>3 DEF Measured

\* What was measured stays measured: the history grows, and a stored share
\* does not change.
LEMMA MeasuredStays ==
    ASSUME CardsAreGrounded, NEW t, NEW n, Measured(t, n),
           ToSet(history) \subseteq ToSet(history'),
           \A o \in DOMAIN observations : observations'[o].share = observations[o].share
    PROVE  Measured(t, n)'
    BY DEF Measured, CardsAreGrounded

LEMMA InitInv == Init => IndInv
<1> SUFFICES ASSUME Init PROVE IndInv
    OBVIOUS
<1>1. ToSet(history) = {}
    BY DEF Init, ToSet
<1>2. DOMAIN observations = {}
    BY DEF Init
<1>3. TypeOK
  <2>1. observations \in [DOMAIN observations -> Observation]
    BY <1>2 DEF Init
  <2>2. history \in Seq(Event)
    BY DEF Init
  <2>3. patch \in [Operators -> Patch]
    BY DEF Init, Idle, Patch
  <2>4. hydrated \in BOOLEAN /\ improves \in BOOLEAN /\ crossed \in BOOLEAN /\ lost \in BOOLEAN
    BY Zenon DEF Init
  <2>5. evidence \in [Topics -> SUBSET (Builds \X (1 .. Evidence))]
    BY DEF Init
  <2>6. build \in 0 .. MaxBuilds /\ rank \in 0 .. Evidence
        /\ patches \in 0 .. MaxPatches /\ cuts \in 0 .. MaxCuts
    BY PublicationBounds DEF Init
  <2>7. /\ series \in [Topics -> Ids \cup {None}] /\ \A t \in Topics : series[t] = None
        /\ cards \in [Topics -> Card \cup {None}] /\ shown \in [Topics -> Builds \cup {None}]
        /\ signals \in [Topics -> Signals \cup {None}]
        /\ types \in [Topics -> CardTypes \cup {None}]
    BY DEF Init, Nothing
  <2>8. place = "idle" /\ id = None /\ todo = {} /\ found = None
    BY DEF Init
  <2> QED
    BY <1>2, <2>1, <2>2, <2>3, <2>4, <2>5, <2>6, <2>7, <2>8, Zenon
       DEF TypeOK, ObservationsTyped, TablesTyped, RebuildTyped, ProcessTyped
<1> QED
    BY <1>1, <1>2, <1>3 DEF Init, Nothing, Idle, IndInv, CardsAgree, CardsAreGrounded,
       ShownCardsAreStored, ImprovementsAreMeasured, PlaceInv, WrittenInv, ConclusionInv,
       AgeInv, PatchInv, Writings

-----------------------------------------------------------------------------
(* The types: a rebuild's step, then everything else. *)

LEMMA RebuildOverTyped ==
    ASSUME RebuildTyped, RebuildOver
    PROVE  RebuildTyped'
<1>1. place' = "idle" /\ id' = None /\ types' = Nothing /\ signals' = Nothing /\ todo' = {}
      /\ found' = None /\ rank' = 0 /\ build' = build
    BY DEF RebuildOver
<1>2. improves' \in BOOLEAN
    BY Zenon DEF RebuildOver
<1>3. Nothing \in [Topics -> CardTypes \cup {None}] /\ Nothing \in [Topics -> Signals \cup {None}]
    BY DEF Nothing
<1>4. 0 \in 0 .. Evidence
    BY PublicationBounds
<1> QED
    BY <1>1, <1>2, <1>3, <1>4, Zenon DEF RebuildTyped

LEMMA ObsIsId ==
    ASSUME TypeOK, PlaceInv, place \in Writings \ {"next"}
    PROVE  Obs \in Ids /\ Obs[1] = Topic /\ Topic \in Topics /\ Topic \in todo /\ build \in Builds
<1>1. Topic \in todo /\ todo \subseteq Topics
    BY TopicIsTodo DEF PlaceInv, TypeOK, RebuildTyped
<1>2. id \in 0 .. MaxBuilds /\ build \in Builds
    BY DEF PlaceInv, TypeOK, RebuildTyped, Writings
<1> QED
    BY <1>1, <1>2 DEF Obs, ObservationId, Ids

LEMMA CardTyped ==
    ASSUME TypeOK, PlaceInv, WrittenInv, place = "card"
    PROVE  /\ NewCard \in Card /\ NewCard.observation = Obs /\ NewCard.type = types[Topic]
           /\ \A row \in Card : /\ OnConflict(row) \in Card
                                /\ OnConflict(row).observation = Obs
                                /\ OnConflict(row).type = types[Topic]
                                /\ OnConflict(row).status = row.status
                                /\ OnConflict(row).owner = row.owner
<1>1. Obs \in Ids /\ Topic \in todo /\ Topic \in Topics
    BY ObsIsId DEF Writings
<1>2. types[Topic] \in CardTypes
    BY <1>1 DEF WrittenInv, TypeOK, RebuildTyped, Writings
<1>3. found = None \/ (found.status \in Statuses /\ found.owner \in Teams)
    BY DEF TypeOK, RebuildTyped, Card
<1>4. NewStatus(Topic) \in Statuses /\ Playbook \in Teams
    BY DEF NewStatus, Statuses, Teams
<1>5. NewCard \in Card /\ NewCard.observation = Obs /\ NewCard.type = types[Topic]
    BY <1>1, <1>2, <1>3, <1>4 DEF NewCard, Card
<1>6. ASSUME NEW row \in Card
      PROVE  /\ OnConflict(row) \in Card
             /\ OnConflict(row).observation = Obs
             /\ OnConflict(row).type = types[Topic]
             /\ OnConflict(row).status = row.status
             /\ OnConflict(row).owner = row.owner
    BY <1>5 DEF OnConflict, Card
<1> QED
    BY <1>5, <1>6

\* Steps that leave a part of the state alone keep its types.
LEMMA SameTyped ==
    ASSUME TypeOK
    PROVE  /\ UNCHANGED observations => ObservationsTyped'
           /\ UNCHANGED tables => ObservationsTyped' /\ TablesTyped'
           /\ UNCHANGED <<series, cards, history, evidence>> => TablesTyped'
           /\ UNCHANGED rebuild => RebuildTyped'
           /\ UNCHANGED <<shown, hydrated, patch, bounds>> => ProcessTyped'
<1>1. UNCHANGED observations => ObservationsTyped'
    BY DEF TypeOK, ObservationsTyped
<1>2. UNCHANGED <<series, cards, history, evidence>> => TablesTyped'
    BY Zenon DEF TypeOK, TablesTyped
<1>3. UNCHANGED rebuild => RebuildTyped'
    BY Zenon DEF TypeOK, RebuildTyped, rebuild
<1>4. UNCHANGED <<shown, hydrated, patch, bounds>> => ProcessTyped'
    BY Zenon DEF TypeOK, ProcessTyped, bounds
<1> QED
    BY <1>1, <1>2, <1>3, <1>4 DEF tables

\* A statement about the first topic moves the rebuild one place on.
LEMMA WritingTyped ==
    ASSUME TypeOK, NEW step \in Writings \ {"evidence"}, Writing(step),
           found' \in Card \cup {None}, rank' \in 0 .. Evidence
    PROVE  RebuildTyped' /\ ProcessTyped'
<1>1. place' \in ToSet(Steps)
    BY StepOrder DEF Writing, Writings
<1>2. RebuildTyped'
    BY <1>1, Zenon DEF Writing, TypeOK, RebuildTyped
<1>3. ProcessTyped'
    BY SameTyped DEF Writing
<1> QED
    BY <1>2, <1>3

\* What an operator's statement writes into a card leaves it a card.
LEMMA PatchedTyped ==
    ASSUME TypeOK, PatchInv, NEW o \in Operators, patch[o].at # "idle", NEW c \in Card,
           Patched(o, c), UNCHANGED <<series, observations, history, evidence>>
    PROVE  ObservationsTyped' /\ TablesTyped'
<1>1. cards' \in [Topics -> Card \cup {None}]
    BY DEF Patched, TypeOK, TablesTyped
<1>2. TablesTyped'
    BY <1>1, Zenon DEF TypeOK, TablesTyped
<1> QED
    BY <1>2, SameTyped

LEMMA PatchCard ==
    ASSUME TypeOK, PatchInv, NEW o \in Operators, patch[o].at # "idle"
    PROVE  cards[patch[o].topic] \in Card /\ patch[o].topic \in Topics
    BY DEF PatchInv, TypeOK, TablesTyped

LEMMA TypeStep == IndInv /\ [Next]_vars => TypeOK'
<1> SUFFICES ASSUME IndInv, [Next]_vars PROVE TypeOK'
    OBVIOUS
<1> USE DEF IndInv, CardsAgree
<1>1. ASSUME NEW run \in 0 .. MaxBuilds, Start(run) PROVE TypeOK'
  <2>1. signals' \in [Topics -> Signals] /\ build' \in 0 .. MaxBuilds
    BY <1>1, PublicationBounds DEF Start, TypeOK, RebuildTyped
  <2>2. place' = "measure" /\ id' = run
    BY <1>1 DEF Start
  <2>3. UNCHANGED <<tables, shown, improves, types, todo, found, rank, patch, bounds>>
    BY <1>1, Zenon DEF Start
  <2>4. RebuildTyped'
    <3>1. signals' \in [Topics -> Signals \cup {None}]
      BY <2>1
    <3> QED
      BY <2>1, <2>2, <2>3, <3>1, Zenon DEF TypeOK, RebuildTyped
  <2>5. ProcessTyped'
    <3>1. hydrated' \in BOOLEAN
      BY <1>1, Zenon DEF Start
    <3> QED
      BY <2>3, <3>1, Zenon DEF TypeOK, ProcessTyped, bounds
  <2> QED
    BY <2>3, <2>4, <2>5, SameTyped DEF TypeOK
<1>2. CASE StartUp
    BY <1>1, <1>2, PublicationBounds DEF StartUp, StartUpRun
<1>3. CASE StartRun
  <2>1. build + 1 \in 0 .. MaxBuilds
    BY <1>3, PublicationBounds DEF StartRun, Start, TypeOK, RebuildTyped
  <2> QED
    BY <1>1, <1>3, <2>1 DEF StartRun
<1>4. CASE NothingToShow
  <2>1. shown' \in [Topics -> Builds \cup {None}]
    BY <1>4 DEF NothingToShow, Nothing
  <2>2. hydrated' \in BOOLEAN
    BY <1>4, Zenon DEF NothingToShow
  <2>3. ProcessTyped'
    BY <1>4, <2>1, <2>2, Zenon DEF NothingToShow, TypeOK, ProcessTyped, bounds
  <2> QED
    BY <1>4, <2>3, SameTyped DEF NothingToShow, TypeOK
<1>5. CASE Measure
  <2>1. improves' \in BOOLEAN
    BY <1>5, Zenon DEF Measure, DeliveryImproves
  <2>2. RebuildTyped'
    BY <1>5, <2>1, Zenon DEF Measure, TypeOK, RebuildTyped
  <2> QED
    BY <1>5, <2>2, SameTyped DEF Measure, TypeOK
<1>6. CASE Select
  <2>1. types' \in [Topics -> CardTypes \cup {None}]
    BY <1>6 DEF Select, TypeOf, CardTypes
  <2>2. signals' \in [Topics -> Signals \cup {None}]
    BY <1>6 DEF Select, Nothing
  <2>3. improves' \in BOOLEAN
    BY <1>6, Zenon DEF Select
  <2>4. todo' \subseteq Topics
    BY <1>6 DEF Select
  <2>5. place' \in ToSet(Steps)
    BY <1>6, StepOrder DEF Select, Writings
  <2>6. UNCHANGED <<tables, shown, hydrated, build, id, found, rank, patch, bounds>>
    BY <1>6, Zenon DEF Select
  <2>7. RebuildTyped'
    BY <2>1, <2>2, <2>3, <2>4, <2>5, <2>6, Zenon DEF TypeOK, RebuildTyped
  <2> QED
    BY <2>6, <2>7, SameTyped DEF TypeOK
<1>7. CASE ReadCard
  <2>1. cards[Topic] \in Card \cup {None}
    BY <1>7, TopicIsTodo DEF ReadCard, Writing, TypeOK, TablesTyped, RebuildTyped
  <2> QED
    BY <1>7, <2>1, WritingTyped, SameTyped DEF ReadCard, TypeOK, RebuildTyped, Writings
<1>8. CASE WriteSeries
  <2>1. Obs \in Ids /\ Obs[1] = Topic
    BY <1>8, ObsIsId DEF WriteSeries, Writing, Writings
  <2>2. /\ series' \in [Topics -> Ids \cup {None}]
        /\ \A t \in Topics : series'[t] # None => series'[t][1] = t
    BY <1>8, <2>1 DEF WriteSeries, TypeOK, TablesTyped
  <2>3. TablesTyped'
    BY <1>8, <2>2, Zenon DEF WriteSeries, TypeOK, TablesTyped
  <2> QED
    BY <1>8, <2>3, WritingTyped, SameTyped DEF WriteSeries, TypeOK, RebuildTyped, Writings
<1>9. CASE WriteObservation
  <2>1. Obs \in Ids /\ Obs[1] = Topic /\ Topic \in Topics /\ build \in Builds
    BY <1>9, ObsIsId DEF WriteObservation, Writing, Writings
  <2>2. observations' = [o \in DOMAIN observations \cup {Obs} |->
                          IF o = Obs THEN NewObservation ELSE observations[o]]
    BY <1>9 DEF WriteObservation
  <2>3. DOMAIN observations' = DOMAIN observations \cup {Obs}
    BY <2>2
  <2>4. ASSUME NEW o \in DOMAIN observations'
        PROVE  observations'[o] \in Observation /\ observations'[o].topic = o[1]
    <3>1. CASE o = Obs
      <4>1. observations'[o] = NewObservation
        BY <2>2, <2>3, <3>1
      <4>2. Obs \in DOMAIN observations =>
               observations[Obs] \in Observation /\ observations[Obs].topic = Obs[1]
        BY DEF TypeOK, ObservationsTyped
      <4>3. NewObservation \in Observation /\ NewObservation.topic = Topic
        <5>1. CASE Obs \in DOMAIN observations
          <6> DEFINE old == observations[Obs]
          <6>1. old \in Observation /\ old.topic = Topic
            BY <2>1, <4>2, <5>1
          <6>2. NewObservation = [old EXCEPT !.facts = build, !.at = build]
            BY <5>1 DEF NewObservation
          <6> HIDE DEF old
          <6> QED
            BY <2>1, <6>1, <6>2 DEF Observation
        <5>2. CASE Obs \notin DOMAIN observations
          BY <2>1, <5>2 DEF NewObservation, Observation
        <5> QED
          BY <5>1, <5>2
      <4> QED
        BY <2>1, <3>1, <4>1, <4>3
    <3>2. CASE o # Obs
      <4>1. o \in DOMAIN observations
        BY <2>3, <3>2
      <4>2. observations'[o] = IF o = Obs THEN NewObservation ELSE observations[o]
        BY <2>2, <4>1
      <4>3. observations'[o] = observations[o]
        BY <3>2, <4>2, Zenon
      <4> QED
        BY <4>1, <4>3 DEF TypeOK, ObservationsTyped
    <3> QED
      BY <3>1, <3>2
  <2>5. observations' \in [DOMAIN observations' -> Observation]
    BY <2>2, <2>3, <2>4
  <2>6. ObservationsTyped'
    BY <2>1, <2>3, <2>4, <2>5 DEF TypeOK, ObservationsTyped
  <2> QED
    BY <1>9, <2>6, WritingTyped, SameTyped DEF WriteObservation, TypeOK, RebuildTyped, Writings
<1>10. CASE WriteCard
  <2>1. Topic \in Topics
    BY <1>10, ObsIsId DEF WriteCard, Writing, Writings
  <2>2. place = "card" /\ found' = None /\ rank' = rank
    BY <1>10 DEF WriteCard, Writing
  <2>3. cards' \in [Topics -> Card \cup {None}]
    <3> DEFINE c == IF cards[Topic] = None THEN NewCard ELSE OnConflict(cards[Topic])
    <3>1. cards' = [cards EXCEPT ![Topic] = c]
      BY <1>10 DEF WriteCard
    <3>2. cards[Topic] \in Card \cup {None}
      BY <2>1 DEF TypeOK, TablesTyped
    <3>3. c \in Card
      BY <2>2, <3>2, CardTyped
    <3> HIDE DEF c
    <3> QED
      BY <3>1, <3>3 DEF TypeOK, TablesTyped
  <2>4. TablesTyped'
    BY <1>10, <2>3, Zenon DEF WriteCard, TypeOK, TablesTyped
  <2> QED
    BY <1>10, <2>2, <2>4, WritingTyped, SameTyped
       DEF WriteCard, TypeOK, RebuildTyped, Writings
<1>11. CASE ClearEvidence
  <2>1. evidence' \in [Topics -> SUBSET (Builds \X (1 .. Evidence))]
    BY <1>11 DEF ClearEvidence, Cleared, TypeOK, TablesTyped
  <2>2. TablesTyped'
    BY <1>11, <2>1, Zenon DEF ClearEvidence, TypeOK, TablesTyped
  <2>3. rank' \in 0 .. Evidence
    BY <1>11, PublicationBounds DEF ClearEvidence
  <2> QED
    BY <1>11, <2>2, <2>3, WritingTyped, SameTyped
       DEF ClearEvidence, TypeOK, RebuildTyped, Writings
<1>12. CASE WriteEvidence
  <2>1. Topic \in Topics /\ build \in Builds
    BY <1>12, ObsIsId DEF WriteEvidence, Writings
  <2>2. rank + 1 \in 1 .. Evidence
    BY <1>12, PublicationBounds DEF WriteEvidence, TypeOK, RebuildTyped
  <2>3. <<build, rank + 1>> \in Builds \X (1 .. Evidence)
    BY <2>1, <2>2
  <2>4. evidence' \in [Topics -> SUBSET (Builds \X (1 .. Evidence))]
    BY <1>12, <2>1, <2>3 DEF WriteEvidence, TypeOK, TablesTyped
  <2>5. rank' \in 0 .. Evidence
    BY <1>12, <2>2 DEF WriteEvidence
  <2>6. TablesTyped'
    BY <1>12, <2>4, Zenon DEF WriteEvidence, TypeOK, TablesTyped
  <2>7. RebuildTyped'
    BY <1>12, <2>5, Zenon DEF WriteEvidence, TypeOK, RebuildTyped
  <2> QED
    BY <1>12, <2>6, <2>7, SameTyped DEF WriteEvidence, TypeOK
<1>13. CASE CardWritten
  <2>1. place' \in ToSet(Steps)
    BY <1>13, StepOrder DEF CardWritten, Writings
  <2>2. rank' \in 0 .. Evidence
    BY <1>13, PublicationBounds DEF CardWritten
  <2>3. todo' \subseteq Topics
    BY <1>13 DEF CardWritten, TypeOK, RebuildTyped
  <2>4. RebuildTyped'
    BY <1>13, <2>1, <2>2, <2>3, Zenon DEF CardWritten, TypeOK, RebuildTyped
  <2> QED
    BY <1>13, <2>4, SameTyped DEF CardWritten, TypeOK
<1>14. CASE Show
  <2>1. build \in Builds
    BY <1>14 DEF Show, PlaceInv
  <2>2. shown' \in [Topics -> Builds \cup {None}]
    BY <1>14, <2>1 DEF Show
  <2>3. ProcessTyped'
    BY <1>14, <2>2, Zenon DEF Show, TypeOK, ProcessTyped, bounds
  <2> QED
    BY <1>14, <2>3, RebuildOverTyped, SameTyped DEF Show, TypeOK
<1>15. CASE RebuildFails
  <2>1. cuts' \in 0 .. MaxCuts
    BY <1>15, PublicationBounds DEF RebuildFails, TypeOK, ProcessTyped
  <2>2. lost' \in BOOLEAN
    BY <1>15, Zenon DEF RebuildFails
  <2>3. ProcessTyped'
    BY <1>15, <2>1, <2>2, Zenon DEF RebuildFails, TypeOK, ProcessTyped
  <2> QED
    BY <1>15, <2>3, RebuildOverTyped, SameTyped DEF RebuildFails, TypeOK
<1>16. CASE Restart
  <2>1. cuts' \in 0 .. MaxCuts
    BY <1>16, PublicationBounds DEF Restart, TypeOK, ProcessTyped
  <2>2. lost' \in BOOLEAN /\ hydrated' \in BOOLEAN
    BY <1>16, Zenon DEF Restart, TypeOK, ProcessTyped
  <2>3. shown' \in [Topics -> Builds \cup {None}] /\ patch' \in [Operators -> Patch]
    BY <1>16 DEF Restart, Nothing, Idle, Patch
  <2>4. ProcessTyped'
    BY <1>16, <2>1, <2>2, <2>3, Zenon DEF Restart, TypeOK, ProcessTyped
  <2> QED
    BY <1>16, <2>4, RebuildOverTyped, SameTyped DEF Restart, TypeOK
<1>17. ASSUME NEW o \in Operators, BeginPatch(o) PROVE TypeOK'
  <2>1. PICK t \in Topics, ask \in Payloads :
          /\ cards[t] # None
          /\ patch' = [patch EXCEPT ![o] =
                [at |-> "owner", topic |-> t, observation |-> cards[t].observation,
                 status |-> ask.status, owner |-> ask.owner]]
    BY <1>17 DEF BeginPatch
  <2>2. cards[t].observation \in Ids
    BY <2>1 DEF TypeOK, TablesTyped, Card
  <2>3. ask.status \in Statuses \cup {None} /\ ask.owner \in Owners \cup {None}
    BY TopicsAssumption
  <2>4. patch' \in [Operators -> Patch]
    BY <2>1, <2>2, <2>3 DEF TypeOK, ProcessTyped, Patch
  <2>5. patches' \in 0 .. MaxPatches
    BY <1>17, PublicationBounds DEF BeginPatch, TypeOK, ProcessTyped
  <2>6. crossed' \in BOOLEAN
    BY <1>17, Zenon DEF BeginPatch, TypeOK, ProcessTyped
  <2>7. ProcessTyped'
    BY <1>17, <2>4, <2>5, <2>6, Zenon DEF BeginPatch, TypeOK, ProcessTyped
  <2> QED
    BY <1>17, <2>7, SameTyped DEF BeginPatch, TypeOK
<1>18. ASSUME NEW o \in Operators, NEW at \in {"status", "history"}, Goes(o, at)
       PROVE  patch' \in [Operators -> Patch]
    BY <1>18 DEF Goes, TypeOK, ProcessTyped, Patch
<1>19. ASSUME NEW o \in Operators, SetOwner(o) PROVE TypeOK'
  <2>1. patch' \in [Operators -> Patch] /\ patch[o].at # "idle"
    BY <1>18, <1>19 DEF SetOwner, At
  <2>2. [cards[patch[o].topic] EXCEPT
           !.owner = IF patch[o].owner = None THEN @ ELSE patch[o].owner] \in Card
    BY <2>1, PatchCard DEF Card, Teams, TypeOK, ProcessTyped, Patch
  <2>3. ObservationsTyped' /\ TablesTyped'
    BY <1>19, <2>1, <2>2, PatchedTyped DEF SetOwner
  <2>4. ProcessTyped'
    BY <1>19, <2>1, Zenon DEF SetOwner, At, TypeOK, ProcessTyped, bounds
  <2> QED
    BY <1>19, <2>3, <2>4, SameTyped DEF SetOwner, At, TypeOK
<1>20. ASSUME NEW o \in Operators, SetStatus(o) PROVE TypeOK'
  <2>1. patch' \in [Operators -> Patch] /\ patch[o].at # "idle"
    BY <1>18, <1>20 DEF SetStatus, At
  <2>2. [cards[patch[o].topic] EXCEPT !.status = patch[o].status] \in Card
    BY <1>20, <2>1, PatchCard DEF SetStatus, Card, TypeOK, ProcessTyped, Patch
  <2>3. ObservationsTyped' /\ TablesTyped'
    BY <1>20, <2>1, <2>2, PatchedTyped DEF SetStatus
  <2>4. ProcessTyped'
    BY <1>20, <2>1, Zenon DEF SetStatus, At, TypeOK, ProcessTyped, bounds
  <2> QED
    BY <1>20, <2>3, <2>4, SameTyped DEF SetStatus, At, TypeOK
<1>21. ASSUME NEW o \in Operators, patch' = [patch EXCEPT ![o] = Idle]
       PROVE  patch' \in [Operators -> Patch]
    BY <1>21 DEF Idle, Patch, TypeOK, ProcessTyped
<1>22. ASSUME NEW o \in Operators, AppendHistory(o) PROVE TypeOK'
  <2> DEFINE event == [topic |-> patch[o].topic, status |-> patch[o].status,
           reference |-> IF patch[o].status = "monitoring" THEN patch[o].observation ELSE None]
  <2>1. patch[o].at = "history" /\ history' = Append(history, event)
        /\ patch' = [patch EXCEPT ![o] = Idle]
    BY <1>22 DEF AppendHistory, At
  <2>2. event \in Event
    BY <2>1 DEF PatchInv, TypeOK, ProcessTyped, Patch, Event
  <2>3. history' \in Seq(Event)
    BY <2>1, <2>2 DEF TypeOK, TablesTyped
  <2>4. TablesTyped'
    BY <1>22, <2>3, Zenon DEF AppendHistory, TypeOK, TablesTyped
  <2>5. ProcessTyped'
    BY <1>21, <1>22, <2>1, Zenon DEF AppendHistory, At, TypeOK, ProcessTyped, bounds
  <2> QED
    BY <1>22, <2>4, <2>5, SameTyped DEF AppendHistory, At, TypeOK
<1>23. ASSUME NEW o \in Operators, PatchWithoutStatus(o) PROVE TypeOK'
  <2>1. ProcessTyped'
    BY <1>21, <1>23, Zenon DEF PatchWithoutStatus, At, TypeOK, ProcessTyped, bounds
  <2> QED
    BY <1>23, <2>1, SameTyped DEF PatchWithoutStatus, At, TypeOK
<1>24. CASE UNCHANGED vars
    BY <1>24, SameTyped DEF vars, TypeOK, tables
<1> QED
    BY <1>2, <1>3, <1>4, <1>5, <1>6, <1>7, <1>8, <1>9, <1>10, <1>11, <1>12, <1>13, <1>14,
       <1>15, <1>16, <1>17, <1>19, <1>20, <1>22, <1>23, <1>24 DEF Next, RebuildStep

-----------------------------------------------------------------------------
(* What a step may do to each table. *)

OperatorStep(o) ==
    \/ BeginPatch(o) \/ SetOwner(o) \/ SetStatus(o) \/ AppendHistory(o) \/ PatchWithoutStatus(o)

\* The statement of operator o that is next on its card.
CardPatch(o) == SetOwner(o) \/ SetStatus(o)

LEMMA WhoWrites ==
    ASSUME [Next]_vars
    PROVE  /\ WriteObservation \/ UNCHANGED observations
           /\ WriteCard \/ (\E o \in Operators : CardPatch(o)) \/ UNCHANGED cards
           /\ (\E o \in Operators : AppendHistory(o)) \/ UNCHANGED history
           /\ \/ StartUp \/ StartRun \/ RebuildStep \/ UNCHANGED rebuild
              \/ place' = "idle" /\ build' = build
           /\ NothingToShow \/ Show \/ Restart \/ UNCHANGED shown
           /\ Restart \/ (\E o \in Operators : OperatorStep(o)) \/ UNCHANGED patch
<1> USE DEF tables, rebuild
<1>1. CASE StartUp \/ StartRun
    BY <1>1 DEF StartUp, StartRun, Start
<1>2. CASE NothingToShow
    BY <1>2 DEF NothingToShow
<1>3. CASE RebuildStep
  <2>1. CASE Measure \/ Select \/ CardWritten \/ Show
    BY <1>3, <2>1 DEF Measure, Select, CardWritten, Show
  <2>2. CASE ReadCard \/ WriteSeries \/ WriteObservation \/ WriteCard \/ ClearEvidence
    BY <1>3, <2>2 DEF ReadCard, WriteSeries, WriteObservation, WriteCard, ClearEvidence, Writing
  <2>3. CASE WriteEvidence
    BY <1>3, <2>3 DEF WriteEvidence
  <2> QED
    BY <1>3, <2>1, <2>2, <2>3 DEF RebuildStep
<1>4. CASE RebuildFails \/ Restart
    BY <1>4 DEF RebuildFails, Restart, RebuildOver
<1>5. CASE \E o \in Operators : OperatorStep(o)
    BY <1>5 DEF OperatorStep, CardPatch, BeginPatch, SetOwner, SetStatus, AppendHistory,
       PatchWithoutStatus, At
<1>6. CASE UNCHANGED vars
    BY <1>6 DEF vars
<1> QED
    BY <1>1, <1>2, <1>3, <1>4, <1>5, <1>6 DEF Next, OperatorStep

\* Rows of observations are only added, their shares never change and their
\* times only grow; a new row is of the build in hand.
LEMMA ObservationsGrow ==
    ASSUME TypeOK, PlaceInv, AgeInv, [Next]_vars
    PROVE  /\ \A o \in DOMAIN observations :
                /\ o \in DOMAIN observations' /\ observations'[o].share = observations[o].share
                /\ observations[o].at <= observations'[o].at
           /\ \A o \in DOMAIN observations' \ DOMAIN observations :
                observations'[o].share = build /\ observations'[o].at = build
           /\ \A o \in DOMAIN observations' :
                (o \in DOMAIN observations /\ observations'[o] = observations[o])
                  \/ observations'[o].at = build
           /\ WriteObservation => Obs \in DOMAIN observations' /\ observations'[Obs].at = build
<1>1. CASE UNCHANGED observations /\ ~WriteObservation
  <2>1. \A o \in DOMAIN observations : observations[o].at \in Nat
    BY DEF TypeOK, ObservationsTyped, Observation, Builds
  <2> QED
    BY <1>1, <2>1
<1>2. CASE WriteObservation
  <2>1. build \in Builds
    BY <1>2, ObsIsId DEF WriteObservation, Writing, Writings
  <2>2. observations' = [o \in DOMAIN observations \cup {Obs} |->
                          IF o = Obs THEN NewObservation ELSE observations[o]]
    BY <1>2 DEF WriteObservation
  <2>3. DOMAIN observations' = DOMAIN observations \cup {Obs}
    BY <2>2
  <2>4. observations'[Obs] = NewObservation
    BY <2>2
  <2>5. \A o \in DOMAIN observations : o # Obs => observations'[o] = observations[o]
    BY <2>2
  <2>6. \A o \in DOMAIN observations : observations[o].at \in Nat /\ observations[o].at <= build
    BY DEF TypeOK, ObservationsTyped, Observation, Builds, AgeInv
  <2>7. /\ NewObservation.at = build
        /\ Obs \notin DOMAIN observations => NewObservation.share = build
        /\ Obs \in DOMAIN observations => NewObservation.share = observations[Obs].share
    <3>1. CASE Obs \in DOMAIN observations
      <4> DEFINE old == observations[Obs]
      <4>1. old \in Observation
        BY <3>1 DEF TypeOK, ObservationsTyped
      <4>2. NewObservation = [old EXCEPT !.facts = build, !.at = build]
        BY <3>1 DEF NewObservation
      <4> HIDE DEF old
      <4>3. NewObservation.at = build /\ NewObservation.share = old.share
        BY <4>1, <4>2 DEF Observation
      <4> QED
        BY <3>1, <4>3 DEF old
    <3>2. CASE Obs \notin DOMAIN observations
      BY <3>2 DEF NewObservation
    <3> QED
      BY <3>1, <3>2
  <2> QED
    BY <2>1, <2>3, <2>4, <2>5, <2>6, <2>7 DEF Builds
<1> QED
    BY <1>1, <1>2, WhoWrites

\* A card is never removed.  Only the rebuild changes what it says of the topic,
\* and only operators its status and its owner.
LEMMA CardsStep ==
    ASSUME TypeOK, PlaceInv, WrittenInv, PatchInv, [Next]_vars, NEW t \in Topics
    PROVE  /\ cards[t] # None => cards'[t] # None
           /\ \/ cards'[t] = cards[t]
              \/ /\ cards[t] # None /\ \E o \in Operators : CardPatch(o)
                 /\ cards'[t].observation = cards[t].observation
                 /\ cards'[t].type = cards[t].type
              \/ /\ WriteCard /\ t = Topic
                 /\ cards'[t].observation = Obs /\ cards'[t].type = types[t]
                 /\ cards[t] # None => /\ cards'[t].status = cards[t].status
                                       /\ cards'[t].owner = cards[t].owner
           /\ WriteCard => cards'[Topic] # None
<1>1. CASE UNCHANGED cards /\ ~WriteCard
    BY <1>1
<1>2. CASE WriteCard
  <2> DEFINE c == IF cards[Topic] = None THEN NewCard ELSE OnConflict(cards[Topic])
  <2>1. Topic \in Topics /\ place = "card"
    BY <1>2, ObsIsId DEF WriteCard, Writing, Writings
  <2>2. cards' = [cards EXCEPT ![Topic] = c]
    BY <1>2 DEF WriteCard
  <2>3. cards[Topic] \in Card \cup {None}
    BY <2>1 DEF TypeOK, TablesTyped
  <2>4. /\ c \in Card /\ c.observation = Obs /\ c.type = types[Topic]
        /\ cards[Topic] # None =>
              c.status = cards[Topic].status /\ c.owner = cards[Topic].owner
    BY <2>1, <2>3, CardTyped
  <2> HIDE DEF c
  <2>5. cards'[Topic] = c /\ (t # Topic => cards'[t] = cards[t])
    BY <2>1, <2>2 DEF TypeOK, TablesTyped
  <2> QED
    BY <1>2, <2>4, <2>5, NoneAssumption
<1>3. ASSUME NEW o \in Operators, CardPatch(o), ~WriteCard
      PROVE  /\ cards[t] # None => cards'[t] # None
             /\ \/ cards'[t] = cards[t]
                \/ /\ cards[t] # None
                   /\ cards'[t].observation = cards[t].observation
                   /\ cards'[t].type = cards[t].type
  <2> DEFINE topic == patch[o].topic
             old == cards[topic]
  <2>1. patch[o].at # "idle"
    BY <1>3 DEF CardPatch, SetOwner, SetStatus, At
  <2>2. old \in Card /\ topic \in Topics
    BY <2>1, PatchCard
  <2>3. PICK c : /\ cards' = [cards EXCEPT ![topic] = c]
                 /\ \/ c = [old EXCEPT !.owner = IF patch[o].owner = None
                                                 THEN @ ELSE patch[o].owner]
                    \/ c = [old EXCEPT !.status = patch[o].status] /\ patch[o].status # None
    BY <1>3 DEF CardPatch, SetOwner, SetStatus, Patched, At
  <2> HIDE DEF old
  <2>4. c.observation = old.observation /\ c.type = old.type /\ c # None
    <3>1. c.observation = old.observation /\ c.type = old.type
      BY <2>2, <2>3 DEF Card
    <3>2. c \in Card
      <4>1. /\ patch[o].owner = None \/ patch[o].owner \in Teams
            /\ patch[o].status = None \/ patch[o].status \in Statuses
        BY DEF TypeOK, ProcessTyped, Patch, Teams
      <4> QED
        BY <2>2, <2>3, <4>1 DEF Card
    <3> QED
      BY <3>1, <3>2, NoneAssumption
  <2>5. cards'[topic] = c /\ (t # topic => cards'[t] = cards[t])
    BY <2>2, <2>3 DEF TypeOK, TablesTyped
  <2> QED
    BY <2>2, <2>4, <2>5, NoneAssumption DEF old
<1> QED
    BY <1>1, <1>2, <1>3, WhoWrites

\* The history only grows, by events whose reference is stored.
LEMMA HistoryStep ==
    ASSUME TypeOK, PatchInv, [Next]_vars
    PROVE  /\ ToSet(history) \subseteq ToSet(history')
           /\ \A e \in ToSet(history') \ ToSet(history) :
                 e.reference # None => e.reference \in DOMAIN observations
<1>1. CASE UNCHANGED history
    BY <1>1
<1>2. ASSUME NEW o \in Operators, AppendHistory(o)
      PROVE  /\ ToSet(history) \subseteq ToSet(history')
             /\ \A e \in ToSet(history') \ ToSet(history) :
                   e.reference # None => e.reference \in DOMAIN observations
  <2> DEFINE event == [topic |-> patch[o].topic, status |-> patch[o].status,
           reference |-> IF patch[o].status = "monitoring" THEN patch[o].observation ELSE None]
  <2>1. patch[o].at = "history" /\ history' = Append(history, event)
    BY <1>2 DEF AppendHistory, At
  <2>2. event.reference # None => event.reference \in DOMAIN observations
    BY <2>1 DEF PatchInv
  <2> HIDE DEF event
  <2>3. \A e : e \in ToSet(history') <=> e \in ToSet(history) \/ e = event
    <3>1. history \in Seq(Event)
      BY DEF TypeOK, TablesTyped
    <3>2. DOMAIN history' = 1 .. Len(history) + 1 /\ DOMAIN history = 1 .. Len(history)
      BY <2>1, <3>1
    <3>3. history'[Len(history) + 1] = event
          /\ \A i \in 1 .. Len(history) : history'[i] = history[i]
      BY <2>1, <3>1
    <3>4. Len(history) \in Nat
      BY <3>1
    <3> QED
      BY <3>2, <3>3, <3>4 DEF ToSet
  <2> QED
    BY <2>2, <2>3
<1> QED
    BY <1>1, <1>2, WhoWrites

LEMMA GroundedStep ==
    ASSUME IndInv, [Next]_vars
    PROVE  CardsAreGrounded'
<1> USE DEF IndInv, CardsAgree
<1>1. DOMAIN observations \subseteq DOMAIN observations'
    BY ObservationsGrow
<1>2. ASSUME NEW t \in Topics, cards'[t] # None
      PROVE  cards'[t].observation \in DOMAIN observations' /\ cards'[t].observation[1] = t
  <2>1. CASE cards[t] # None /\ cards'[t].observation = cards[t].observation
    BY <1>1, <2>1 DEF CardsAreGrounded, TypeOK, ObservationsTyped
  <2>2. CASE WriteCard /\ t = Topic /\ cards'[t].observation = Obs
    <3>1. place = "card"
      BY <2>2 DEF WriteCard, Writing
    <3> QED
      BY <1>1, <2>2, <3>1, ObsIsId DEF PlaceInv, Writings
  <2> QED
    BY <1>2, <2>1, <2>2, CardsStep
<1>3. ASSUME NEW e \in ToSet(history'), e.reference # None
      PROVE  e.reference \in DOMAIN observations'
    BY <1>1, <1>3, HistoryStep DEF CardsAreGrounded
<1>4. \A o \in DOMAIN observations' : observations'[o].topic = o[1]
    BY TypeStep DEF TypeOK, ObservationsTyped
<1> QED
    BY <1>2, <1>3, <1>4 DEF CardsAreGrounded

\* What was measured before a step was measured after it.
LEMMA MeasuredStep ==
    ASSUME IndInv, [Next]_vars
    PROVE  \A t, n : Measured(t, n) => Measured(t, n)'
    BY MeasuredStays, ObservationsGrow, HistoryStep DEF IndInv, CardsAgree

LEMMA AgeStep ==
    ASSUME IndInv, [Next]_vars
    PROVE  AgeInv' /\ build' >= build
<1> USE DEF IndInv, CardsAgree
<1>1. build \in Nat /\ build' \in Nat /\ build' >= build
  <2>1. UNCHANGED rebuild \/ RebuildStep \/ (place' = "idle" /\ build' = build) => build' = build
    BY DEF rebuild, RebuildStep, Measure, Select, ReadCard, WriteSeries, WriteObservation,
       WriteCard, ClearEvidence, WriteEvidence, CardWritten, Show, Writing, RebuildOver
  <2>2. StartUp \/ StartRun => build' = build + 1
    BY DEF StartUp, StartRun, Start
  <2>3. build \in Nat
    BY PublicationBounds DEF TypeOK, RebuildTyped
  <2> QED
    BY <2>1, <2>2, <2>3, WhoWrites
<1>2. ASSUME NEW o \in DOMAIN observations'
      PROVE  observations'[o].share <= observations'[o].at /\ observations'[o].at <= build'
  <2>1. CASE o \in DOMAIN observations
    <3>1. /\ observations[o].share \in Nat /\ observations[o].at \in Nat
          /\ observations[o].share <= observations[o].at /\ observations[o].at <= build
      BY <2>1 DEF AgeInv, TypeOK, ObservationsTyped, Observation, Builds
    <3>2. observations'[o].at \in Nat
      BY TypeStep DEF TypeOK, ObservationsTyped, Observation, Builds
    <3>3. /\ observations'[o].share = observations[o].share
          /\ observations[o].at <= observations'[o].at
          /\ observations'[o].at = observations[o].at \/ observations'[o].at = build
      BY <2>1, ObservationsGrow
    <3> QED
      BY <1>1, <3>1, <3>2, <3>3
  <2>2. CASE o \notin DOMAIN observations
    BY <1>1, <2>2, ObservationsGrow
  <2> QED
    BY <2>1, <2>2
<1> QED
    BY <1>1, <1>2 DEF AgeInv

LEMMA ImprovementsStep ==
    ASSUME IndInv, [Next]_vars
    PROVE  ImprovementsAreMeasured'
<1> USE DEF IndInv, CardsAgree
<1>1. ASSUME NEW t \in Topics, cards'[t] # None, cards'[t].type = "improving"
      PROVE  Measured(t, observations[cards[t].observation].at)'
  <2>1. CASE cards[t] # None /\ cards'[t].observation = cards[t].observation
             /\ cards'[t].type = cards[t].type
    <3> DEFINE o == cards[t].observation
    <3>1. o \in DOMAIN observations
      BY <2>1 DEF CardsAreGrounded
    <3>2. PICK e \in ToSet(history) : /\ e.topic = t /\ e.reference # None
                /\ observations[e.reference].share < observations[o].at
      BY <1>1, <2>1 DEF ImprovementsAreMeasured
    <3>3. e \in ToSet(history') /\ e.reference \in DOMAIN observations
      BY <3>2, HistoryStep DEF CardsAreGrounded
    <3>4. /\ observations'[e.reference].share = observations[e.reference].share
          /\ observations[o].at <= observations'[o].at
      BY <3>1, <3>3, ObservationsGrow
    <3>5. /\ observations[e.reference].share \in Nat /\ observations[o].at \in Nat
          /\ observations'[o].at \in Nat
      <4>1. o \in DOMAIN observations'
        BY <3>1, ObservationsGrow
      <4> QED
        BY <3>1, <3>3, <4>1, TypeStep DEF TypeOK, ObservationsTyped, Observation, Builds
    <3>6. observations'[e.reference].share < observations'[o].at
      BY <3>2, <3>4, <3>5
    <3> QED
      BY <2>1, <3>2, <3>3, <3>6 DEF Measured
  <2>2. CASE WriteCard /\ t = Topic /\ cards'[t].observation = Obs /\ cards'[t].type = types[t]
    <3>1. place = "card" /\ UNCHANGED observations
      BY <2>2 DEF WriteCard, Writing
    <3>2. Measured(t, build)'
      BY <1>1, <2>2, <3>1, MeasuredStep DEF ConclusionInv, Writings, Measured, WriteCard, Writing
    <3>3. observations'[Obs].at = build
      BY <3>1 DEF PlaceInv
    <3>4. UNCHANGED build
      BY <2>2 DEF WriteCard, Writing
    <3> QED
      BY <2>2, <3>2, <3>3, <3>4 DEF Measured
  <2> QED
    BY <1>1, <2>1, <2>2, CardsStep
<1> QED
    BY <1>1 DEF ImprovementsAreMeasured, Measured

LEMMA ShownStep ==
    ASSUME IndInv, [Next]_vars
    PROVE  ShownCardsAreStored'
<1> USE DEF IndInv, CardsAgree
<1>1. \A t \in Topics : cards[t] # None => cards'[t] # None
    BY CardsStep
<1>2. CASE UNCHANGED shown
    BY <1>1, <1>2 DEF ShownCardsAreStored
<1>3. CASE NothingToShow \/ Restart
    BY <1>3 DEF NothingToShow, Restart, Nothing, ShownCardsAreStored
<1>4. CASE Show
  <2>1. \A t \in Topics : shown'[t] # None => types[t] # None
    BY <1>4 DEF Show
  <2>2. \A t \in Topics : types[t] # None => cards[t] # None
    BY <1>4 DEF Show, WrittenInv, Writings
  <2> QED
    BY <1>1, <2>1, <2>2 DEF ShownCardsAreStored
<1> QED
    BY <1>2, <1>3, <1>4, WhoWrites

\* A rebuild that has ended, or has not begun to write, promises nothing.
LEMMA PlaceStep ==
    ASSUME IndInv, [Next]_vars
    PROVE  PlaceInv' /\ WrittenInv'
<1> USE DEF IndInv, CardsAgree
<1>1. \A t \in Topics : cards[t] # None => cards'[t] # None
    BY CardsStep
<1>2. \A o \in DOMAIN observations : o \in DOMAIN observations'
         /\ (observations[o].at = build => observations'[o].at = build)
  <2>1. ASSUME NEW o \in DOMAIN observations, observations[o].at = build
        PROVE  observations'[o].at = build
    BY <2>1, ObservationsGrow
  <2> QED
    BY <2>1, ObservationsGrow
<1>3. CASE place' = "idle"
    BY <1>3 DEF PlaceInv, WrittenInv, Writings
<1>4. CASE UNCHANGED rebuild
  <2>1. UNCHANGED <<place, build, id, types, todo, Topic, Obs>>
    BY <1>4 DEF rebuild, Topic, Obs
  <2>2. Topic \in Topics \/ place \notin {"clear", "evidence"}
    BY ObsIsId DEF Writings
  <2> QED
    BY <1>1, <1>2, <2>1, <2>2 DEF PlaceInv, WrittenInv
<1>5. CASE StartUp \/ StartRun
  <2>1. place' = "measure" /\ build' = build + 1 /\ build < MaxBuilds
        /\ (id' = StartUpRun \/ id' = build + 1)
    BY <1>5 DEF StartUp, StartRun, Start
  <2>2. build \in Nat /\ build' \in Builds
    BY <2>1, PublicationBounds DEF TypeOK, RebuildTyped, Builds
  <2>3. id' # None
    <3>1. id' \in 0 .. MaxBuilds
      BY <2>1, <2>2, PublicationBounds DEF StartUpRun, Builds
    <3> QED
      BY <3>1, NoneAssumption
  <2> QED
    BY <2>1, <2>2, <2>3 DEF PlaceInv, WrittenInv, Writings
<1>6. CASE Measure
    BY <1>6 DEF Measure, PlaceInv, WrittenInv, Writings
<1>7. CASE Select
  <2>1. place' = "next" /\ UNCHANGED <<build, id, cards>> /\ place # "idle"
        /\ \A t \in Topics : t \in todo' <=> types'[t] # None
    BY <1>7 DEF Select, tables
  <2>2. todo' \subseteq Topics
    BY <1>7 DEF Select
  <2> QED
    BY <2>1, <2>2 DEF PlaceInv, WrittenInv, Writings
<1>8. ASSUME NEW step \in Writings \ {"evidence"}, Writing(step)
      PROVE  WrittenInv' /\ UNCHANGED <<build, id, todo, Topic, Obs>> /\ todo # {}
             /\ place = step /\ place' = After(step)
  <2>1. UNCHANGED <<build, id, types, todo>> /\ place = step /\ place' = After(step) /\ todo # {}
    BY <1>8 DEF Writing
  <2>2. UNCHANGED <<Topic, Obs>>
    BY <2>1 DEF Topic, Obs
  <2> QED
    BY <1>1, <2>1, <2>2 DEF WrittenInv
<1>9. CASE ReadCard \/ WriteSeries
  <2>1. PICK step \in {"next", "series"} : Writing(step)
    BY <1>9 DEF ReadCard, WriteSeries
  <2> QED
    BY <1>8, <2>1, StepOrder DEF PlaceInv, Writings
<1>10. CASE WriteObservation
  <2>1. Writing("observation")
    BY <1>10 DEF WriteObservation
  <2>2. Obs \in DOMAIN observations' /\ observations'[Obs].at = build
    BY <1>10, ObservationsGrow
  <2> QED
    BY <1>8, <2>1, <2>2, StepOrder DEF PlaceInv, Writings
<1>11. CASE WriteCard
  <2>1. Writing("card") /\ cards'[Topic] # None
    <3>1. Topic \in Topics
      BY <1>11, ObsIsId DEF WriteCard, Writing, Writings
    <3> QED
      BY <1>11, <3>1, CardsStep DEF WriteCard
  <2> QED
    BY <1>8, <2>1, StepOrder DEF PlaceInv, Writings
<1>12. CASE ClearEvidence
  <2>1. Writing("clear") /\ UNCHANGED cards
    BY <1>12 DEF ClearEvidence
  <2> QED
    BY <1>8, <2>1, StepOrder DEF PlaceInv, Writings
<1>13. CASE WriteEvidence
  <2>1. UNCHANGED <<place, build, id, types, todo, cards>> /\ place = "evidence"
    BY <1>13 DEF WriteEvidence
  <2>2. UNCHANGED Topic
    BY <2>1 DEF Topic
  <2> QED
    BY <2>1, <2>2 DEF PlaceInv, WrittenInv
<1>14. CASE CardWritten
  <2>1. place = "evidence" /\ place' = "next" /\ todo' = todo \ {Topic}
        /\ UNCHANGED <<build, id, types, cards>>
    BY <1>14 DEF CardWritten, tables
  <2>2. cards[Topic] # None
    BY <2>1 DEF PlaceInv
  <2> QED
    BY <2>1, <2>2 DEF PlaceInv, WrittenInv, Writings
<1>15. CASE Show
    BY <1>3, <1>15 DEF Show, RebuildOver
<1> QED
    BY <1>3, <1>4, <1>5, <1>6, <1>7, <1>9, <1>10, <1>11, <1>12, <1>13, <1>14, <1>15, WhoWrites
       DEF RebuildStep

LEMMA ConclusionStep ==
    ASSUME IndInv, [Next]_vars
    PROVE  ConclusionInv'
<1> USE DEF IndInv, CardsAgree
<1>1. \A t, n : Measured(t, n) => Measured(t, n)'
    BY MeasuredStep
<1>2. CASE place' \notin Writings \cup {"select"}
    BY <1>2 DEF ConclusionInv
<1>3. CASE UNCHANGED <<place, build, improves, types>>
  <2>1. place = "select" /\ improves => Measured(Delivery, build)
    BY DEF ConclusionInv
  <2>2. ASSUME place \in Writings, NEW t \in Topics, types[t] = "improving"
        PROVE  Measured(t, build)
    BY <2>2 DEF ConclusionInv
  <2>3. \A t : Measured(t, build) => \E e \in ToSet(history') :
          /\ e.topic = t /\ e.reference # None
          /\ observations'[e.reference].share < build'
    BY <1>1, <1>3 DEF Measured
  <2> QED
    BY <1>3, <2>1, <2>2, <2>3 DEF ConclusionInv, Measured
<1>4. CASE Measure
  <2>1. place' = "select" /\ improves' = DeliveryImproves /\ UNCHANGED <<build, observations, history>>
    BY <1>4 DEF Measure, tables
  <2>2. improves' => Measured(Delivery, build)
    BY <2>1, ImprovementMeasured
  <2> QED
    BY <2>1, <2>2 DEF ConclusionInv, Measured, Writings
<1>5. CASE Select
  <2>1. place = "select" /\ place' = "next" /\ UNCHANGED <<build, observations, history>>
        /\ types' = [t \in Topics |-> TypeOf(t)]
    BY <1>5 DEF Select, tables
  <2>2. ASSUME NEW t \in Topics, types'[t] = "improving"
        PROVE  t = Delivery /\ improves
    BY <2>1, <2>2, NoneAssumption DEF TypeOf, CardTypes
  <2>3. \A t \in Topics : types'[t] = "improving" => Measured(t, build)
    BY <2>1, <2>2 DEF ConclusionInv
  <2> QED
    BY <2>1, <2>3 DEF ConclusionInv, Measured, Writings
<1>6. CASE place \in Writings /\ place' \in Writings /\ UNCHANGED <<build, types>>
  <2>1. \A t \in Topics : types'[t] = "improving" => Measured(t, build)
    BY <1>6 DEF ConclusionInv
  <2>2. \A t : Measured(t, build) => \E e \in ToSet(history') :
          /\ e.topic = t /\ e.reference # None
          /\ observations'[e.reference].share < build'
    BY <1>1, <1>6 DEF Measured
  <2> QED
    BY <1>6, <2>1, <2>2 DEF ConclusionInv, Measured, Writings
<1>7. CASE ReadCard \/ WriteSeries \/ WriteObservation \/ WriteCard \/ ClearEvidence
  <2>1. PICK step \in Writings \ {"evidence"} : Writing(step)
    BY <1>7 DEF ReadCard, WriteSeries, WriteObservation, WriteCard, ClearEvidence, Writings
  <2>2. After(step) \in Writings
    BY StepOrder DEF Writings
  <2> QED
    BY <1>6, <2>1, <2>2 DEF Writing
<1>8. CASE WriteEvidence \/ CardWritten
    BY <1>6, <1>8 DEF WriteEvidence, CardWritten, Writings
<1>9. CASE StartUp \/ StartRun \/ Show
    BY <1>2, <1>9 DEF StartUp, StartRun, Start, Show, RebuildOver, Writings
<1> QED
    BY <1>2, <1>3, <1>4, <1>5, <1>7, <1>8, <1>9, WhoWrites DEF RebuildStep, rebuild, Writings

LEMMA PatchStep ==
    ASSUME IndInv, [Next]_vars
    PROVE  PatchInv'
<1> USE DEF IndInv, CardsAgree
<1>1. \A t \in Topics : cards[t] # None => cards'[t] # None
    BY CardsStep
<1>2. DOMAIN observations \subseteq DOMAIN observations'
    BY ObservationsGrow
<1>3. ASSUME NEW o \in Operators, patch'[o].at # "idle",
             \/ patch'[o] = patch[o]
             \/ /\ patch[o].at # "idle" /\ patch'[o].topic = patch[o].topic
                /\ patch'[o].observation = patch[o].observation
                /\ patch'[o].at = "history" => patch'[o].status # None
      PROVE  /\ patch'[o].topic \in Topics /\ cards'[patch'[o].topic] # None
             /\ patch'[o].observation \in DOMAIN observations'
             /\ patch'[o].at = "history" => patch'[o].status # None
    BY <1>1, <1>2, <1>3 DEF PatchInv
<1>4. CASE UNCHANGED patch
    BY <1>3, <1>4 DEF PatchInv
<1>5. CASE Restart
    BY <1>5 DEF Restart, Idle, PatchInv
<1>6. ASSUME NEW o \in Operators, BeginPatch(o) PROVE PatchInv'
  <2>1. PICK t \in Topics, ask \in Payloads :
          /\ cards[t] # None
          /\ patch' = [patch EXCEPT ![o] =
                [at |-> "owner", topic |-> t, observation |-> cards[t].observation,
                 status |-> ask.status, owner |-> ask.owner]]
    BY <1>6 DEF BeginPatch
  <2>2. cards[t].observation \in DOMAIN observations
    BY <2>1 DEF CardsAreGrounded
  <2>3. /\ patch'[o].at = "owner" /\ patch'[o].topic = t
        /\ patch'[o].observation = cards[t].observation
        /\ \A q \in Operators \ {o} : patch'[q] = patch[q]
    BY <2>1 DEF TypeOK, ProcessTyped
  <2> QED
    BY <1>1, <1>2, <1>3, <2>1, <2>2, <2>3 DEF PatchInv
<1>7. ASSUME NEW o \in Operators, SetOwner(o) \/ SetStatus(o) PROVE PatchInv'
  <2>1. PICK at \in {"status", "history"} :
          /\ patch' = [patch EXCEPT ![o].at = at] /\ patch[o].at # "idle"
          /\ at = "history" => patch[o].status # None
    BY <1>7 DEF SetOwner, SetStatus, At, Goes
  <2>2. patch[o] \in Patch
    BY DEF TypeOK, ProcessTyped
  <2>3. /\ patch'[o].topic = patch[o].topic /\ patch'[o].observation = patch[o].observation
        /\ patch'[o].at = at /\ patch'[o].status = patch[o].status
        /\ \A q \in Operators \ {o} : patch'[q] = patch[q]
    BY <2>1, <2>2 DEF TypeOK, ProcessTyped, Patch
  <2> QED
    BY <1>3, <2>1, <2>3 DEF PatchInv
<1>8. ASSUME NEW o \in Operators, AppendHistory(o) \/ PatchWithoutStatus(o) PROVE PatchInv'
  <2>1. patch' = [patch EXCEPT ![o] = Idle]
    BY <1>8 DEF AppendHistory, PatchWithoutStatus
  <2>2. patch'[o].at = "idle" /\ \A q \in Operators \ {o} : patch'[q] = patch[q]
    BY <2>1 DEF TypeOK, ProcessTyped, Idle
  <2> QED
    BY <1>3, <2>2 DEF PatchInv
<1> QED
    BY <1>4, <1>5, <1>6, <1>7, <1>8, WhoWrites DEF OperatorStep

LEMMA StepInv == IndInv /\ [Next]_vars => IndInv'
    BY TypeStep, GroundedStep, ShownStep, ImprovementsStep, PlaceStep, ConclusionStep,
       AgeStep, PatchStep DEF IndInv, CardsAgree

-----------------------------------------------------------------------------
(* The theorems. *)

LEMMA Invariance == Spec => []IndInv
    BY InitInv, StepInv, PTL DEF Spec

\* Wherever a rebuild is cut off and patches cross it, cards and references
\* are grounded in stored observations, shown cards are stored, and an improving
\* card was measured against a reference an operator froze.
THEOREM TablesAlwaysAgree == Spec => []CardsAgree
<1>1. IndInv => CardsAgree
    BY DEF IndInv
<1> QED
    BY <1>1, Invariance, PTL

\* No statement of a rebuild changes the status or the owner of a card that
\* exists, whatever operators did after the rebuild read it.
THEOREM DecisionsAlwaysSurvive == Spec => DecisionsSurviveRebuilds
<1>1. ASSUME IndInv, [Next]_vars, NEW t \in Topics, cards[t] # None, place # "idle",
             patch' = patch
      PROVE  cards'[t].status = cards[t].status /\ cards'[t].owner = cards[t].owner
  <2>1. ASSUME NEW o \in Operators, CardPatch(o) PROVE FALSE
    <3>1. PICK at \in {"status", "history"} :
            patch' = [patch EXCEPT ![o].at = at] /\ patch[o].at # at
      BY <2>1 DEF CardPatch, SetOwner, SetStatus, At, Goes
    <3>2. patch \in [Operators -> Patch]
      BY <1>1 DEF IndInv, CardsAgree, TypeOK, ProcessTyped
    <3>3. patch'[o] = [patch[o] EXCEPT !.at = at] /\ patch[o] \in Patch
      BY <3>1, <3>2
    <3>4. patch'[o].at = at
      BY <3>3 DEF Patch
    <3> QED
      BY <1>1, <3>1, <3>4
  <2> QED
    BY <1>1, <2>1, CardsStep DEF IndInv, CardsAgree
<1>2. IndInv /\ [Next]_vars =>
        [\A t \in Topics : cards[t] # None /\ place # "idle" /\ patch' = patch =>
          cards'[t].status = cards[t].status /\ cards'[t].owner = cards[t].owner]_vars
    BY <1>1
<1> QED
    BY <1>2, Invariance, PTL DEF Spec, DecisionsSurviveRebuilds

-----------------------------------------------------------------------------
(* The history and the cards. *)

\* While no two patches are open at once, the one that is between its two
\* statements is the only one that may be ahead of the history.
OnePatch == ~crossed => \A o, q \in Operators :
    patch[o].at # "idle" /\ patch[q].at # "idle" => o = q

Announced(t) == \E o \in Operators : patch[o].at = "history" /\ patch[o].topic = t

HistoryInv ==
    /\ OnePatch
    /\ \A t \in Topics : LatestEvent(t) # None => cards[t] # None
    /\ ~crossed /\ ~lost =>
          /\ \A o \in Operators :
                patch[o].at = "history" => cards[patch[o].topic].status = patch[o].status
          /\ \A t \in Topics : LatestEvent(t) # None =>
                LatestEvent(t).status = cards[t].status \/ Announced(t)

\* An event that is appended is the latest of its series, and of no other.
LEMMA LatestAppended ==
    ASSUME history \in Seq(Event), NEW e \in Event, history' = Append(history, e), NEW t
    PROVE  /\ e.topic = t => LatestEvent(t)' = e
           /\ e.topic # t => LatestEvent(t)' = LatestEvent(t)
<1> DEFINE n == Len(history)
           old == {i \in DOMAIN history : history[i].topic = t
                      /\ \A j \in DOMAIN history : j > i => history[j].topic # t}
           new == {i \in DOMAIN history' : history'[i].topic = t
                      /\ \A j \in DOMAIN history' : j > i => history'[j].topic # t}
<1>1. /\ DOMAIN history = 1 .. n /\ DOMAIN history' = 1 .. n + 1 /\ n \in Nat
      /\ history'[n + 1] = e /\ \A i \in 1 .. n : history'[i] = history[i]
    OBVIOUS
<1>2. LatestEvent(t) = IF old = {} THEN None ELSE history[CHOOSE i \in old : TRUE]
    BY DEF LatestEvent
<1>3. LatestEvent(t)' = IF new = {} THEN None ELSE history'[CHOOSE i \in new : TRUE]
    BY DEF LatestEvent
<1> HIDE DEF n
<1>4. CASE e.topic = t
  <2>1. new = {n + 1}
    BY <1>1, <1>4
  <2>2. (CHOOSE i \in new : TRUE) = n + 1
    BY <2>1
  <2> QED
    BY <1>1, <1>3, <1>4, <2>1, <2>2
<1>5. CASE e.topic # t
  <2>1. new = old
    BY <1>1, <1>5
  <2>2. \A i \in old : history'[i] = history[i]
    BY <1>1
  <2> HIDE DEF old, new
  <2>3. old # {} => (CHOOSE i \in old : TRUE) \in old
    OBVIOUS
  <2> QED
    BY <1>2, <1>3, <1>5, <2>1, <2>2, <2>3
<1> QED
    BY <1>4, <1>5

\* What each statement of a patch does to the patches, the cards' statuses and
\* the history.
LEMMA PatchEffect ==
    ASSUME IndInv, NEW o \in Operators
    PROVE  /\ OperatorStep(o) => \A q \in Operators \ {o} : patch'[q] = patch[q]
           /\ BeginPatch(o) =>
                 /\ patch[o].at = "idle" /\ patch'[o].at = "owner"
                 /\ UNCHANGED <<cards, history, lost>>
                 /\ ~crossed' => ~crossed /\ \A q \in Operators \ {o} : patch[q].at = "idle"
           /\ SetOwner(o) =>
                 /\ patch[o].at # "idle" /\ patch[o].at # "history" /\ patch'[o].at = "status"
                 /\ \A t \in Topics : cards'[t].status = cards[t].status
           /\ SetStatus(o) =>
                 /\ patch[o].at # "idle" /\ patch[o].at # "history" /\ patch'[o].at = "history"
                 /\ patch'[o].topic = patch[o].topic /\ patch'[o].status = patch[o].status
                 /\ cards'[patch[o].topic].status = patch[o].status
                 /\ \A t \in Topics \ {patch[o].topic} : cards'[t] = cards[t]
           /\ SetOwner(o) \/ SetStatus(o) => UNCHANGED <<history, crossed, lost>>
           /\ AppendHistory(o) =>
                 /\ patch[o].at = "history" /\ patch'[o].at = "idle"
                 /\ \E e \in Event : /\ history' = Append(history, e)
                                     /\ e.topic = patch[o].topic /\ e.status = patch[o].status
           /\ PatchWithoutStatus(o) =>
                 patch[o].at = "status" /\ patch'[o].at = "idle" /\ UNCHANGED history
           /\ AppendHistory(o) \/ PatchWithoutStatus(o) => UNCHANGED <<cards, crossed, lost>>
<1> USE DEF IndInv, CardsAgree
<1>1. patch \in [Operators -> Patch] /\ patch[o] \in Patch
    BY DEF TypeOK, ProcessTyped
<1>2. ASSUME BeginPatch(o)
      PROVE  /\ \A q \in Operators \ {o} : patch'[q] = patch[q]
             /\ patch[o].at = "idle" /\ patch'[o].at = "owner"
             /\ UNCHANGED <<cards, history, lost>>
             /\ ~crossed' => ~crossed /\ \A q \in Operators \ {o} : patch[q].at = "idle"
  <2>1. PICK t \in Topics, ask \in Payloads :
          patch' = [patch EXCEPT ![o] =
                [at |-> "owner", topic |-> t, observation |-> cards[t].observation,
                 status |-> ask.status, owner |-> ask.owner]]
    BY <1>2 DEF BeginPatch
  <2>2. patch'[o].at = "owner" /\ \A q \in Operators \ {o} : patch'[q] = patch[q]
    BY <1>1, <2>1
  <2>3. patch[o].at = "idle" /\ UNCHANGED <<cards, history, lost>>
    BY <1>2 DEF BeginPatch, tables
  <2>4. ~crossed' => ~crossed /\ \A q \in Operators \ {o} : patch[q].at = "idle"
    BY <1>2, Zenon DEF BeginPatch
  <2> QED
    BY <2>2, <2>3, <2>4
<1>3. ASSUME NEW at \in {"status", "history"}, Goes(o, at)
      PROVE  /\ \A q \in Operators \ {o} : patch'[q] = patch[q]
             /\ patch'[o].at = at
             /\ patch'[o].topic = patch[o].topic /\ patch'[o].status = patch[o].status
    BY <1>1, <1>3 DEF Goes, Patch
<1>4. ASSUME patch' = [patch EXCEPT ![o] = Idle]
      PROVE  patch'[o].at = "idle" /\ \A q \in Operators \ {o} : patch'[q] = patch[q]
    BY <1>1, <1>4 DEF Idle
<1>5. ASSUME NEW c, Patched(o, c), patch[o].at # "idle"
      PROVE  /\ cards'[patch[o].topic] = c
             /\ \A t \in Topics \ {patch[o].topic} : cards'[t] = cards[t]
    BY <1>5, PatchCard DEF Patched, TypeOK, TablesTyped
<1>6. ASSUME SetOwner(o)
      PROVE  /\ patch[o].at # "idle" /\ patch[o].at # "history"
             /\ \A t \in Topics : cards'[t].status = cards[t].status
  <2>1. patch[o].at = "owner"
    BY <1>6 DEF SetOwner, At
  <2>2. PICK owner : Patched(o, [cards[patch[o].topic] EXCEPT !.owner = owner])
    BY <1>6 DEF SetOwner
  <2>3. cards[patch[o].topic] \in Card
    BY <2>1, PatchCard
  <2>4. [cards[patch[o].topic] EXCEPT !.owner = owner].status = cards[patch[o].topic].status
    BY <2>3 DEF Card
  <2> QED
    BY <1>5, <2>1, <2>2, <2>4
<1>7. ASSUME SetStatus(o)
      PROVE  /\ patch[o].at # "idle" /\ patch[o].at # "history"
             /\ cards'[patch[o].topic].status = patch[o].status
             /\ \A t \in Topics \ {patch[o].topic} : cards'[t] = cards[t]
  <2>1. patch[o].at = "status"
        /\ Patched(o, [cards[patch[o].topic] EXCEPT !.status = patch[o].status])
    BY <1>7 DEF SetStatus, At
  <2>2. cards[patch[o].topic] \in Card
    BY <2>1, PatchCard
  <2>3. [cards[patch[o].topic] EXCEPT !.status = patch[o].status].status = patch[o].status
    BY <2>2 DEF Card
  <2> QED
    BY <1>5, <2>1, <2>3
<1>8. ASSUME AppendHistory(o)
      PROVE  /\ patch[o].at = "history" /\ patch' = [patch EXCEPT ![o] = Idle]
             /\ \E e \in Event : /\ history' = Append(history, e)
                                 /\ e.topic = patch[o].topic /\ e.status = patch[o].status
  <2> DEFINE event == [topic |-> patch[o].topic, status |-> patch[o].status,
           reference |-> IF patch[o].status = "monitoring" THEN patch[o].observation ELSE None]
  <2>1. patch[o].at = "history" /\ history' = Append(history, event)
        /\ patch' = [patch EXCEPT ![o] = Idle]
    BY <1>8 DEF AppendHistory, At
  <2>2. event \in Event
    BY <1>1, <2>1 DEF PatchInv, Patch, Event
  <2> QED
    BY <2>1, <2>2
<1>9. SetOwner(o) \/ SetStatus(o) => UNCHANGED <<history, crossed, lost>>
    BY DEF SetOwner, SetStatus, At, bounds
<1>10. AppendHistory(o) \/ PatchWithoutStatus(o) => UNCHANGED <<cards, crossed, lost>>
    BY DEF AppendHistory, PatchWithoutStatus, At, bounds, tables
<1>11. PatchWithoutStatus(o) => patch[o].at = "status" /\ UNCHANGED history
                               /\ patch' = [patch EXCEPT ![o] = Idle]
    BY DEF PatchWithoutStatus, At, tables
<1>12. SetOwner(o) => Goes(o, "status")
    BY DEF SetOwner
<1>13. SetStatus(o) => Goes(o, "history")
    BY DEF SetStatus
<1> QED
    BY <1>2, <1>3, <1>4, <1>6, <1>7, <1>8, <1>9, <1>10, <1>11, <1>12, <1>13 DEF OperatorStep

\* Only operators and restarts touch the patches and the history, and only they
\* let patches cross.
LEMMA QuietStep ==
    ASSUME [Next]_vars, ~Restart, \A o \in Operators : ~OperatorStep(o)
    PROVE  UNCHANGED <<patch, history, crossed>> /\ (lost => lost')
<1>1. CASE StartUp \/ StartRun \/ NothingToShow
    BY <1>1 DEF StartUp, StartRun, Start, NothingToShow, bounds, tables
<1>2. CASE Measure \/ Select \/ CardWritten \/ Show \/ WriteEvidence
    BY <1>2 DEF Measure, Select, CardWritten, Show, WriteEvidence, bounds, tables
<1>3. CASE ReadCard \/ WriteSeries \/ WriteObservation \/ WriteCard \/ ClearEvidence
    BY <1>3 DEF ReadCard, WriteSeries, WriteObservation, WriteCard, ClearEvidence, Writing,
       bounds, tables
<1>4. CASE RebuildFails
    BY <1>4 DEF RebuildFails, tables
<1>5. CASE UNCHANGED vars
    BY <1>5 DEF vars, bounds, tables
<1> QED
    BY <1>1, <1>2, <1>3, <1>4, <1>5 DEF Next, RebuildStep, OperatorStep

LEMMA HistoryInvStep ==
    ASSUME IndInv, HistoryInv, [Next]_vars
    PROVE  HistoryInv'
<1> USE DEF IndInv, CardsAgree
<1>1. \A t \in Topics : cards[t] # None => cards'[t] # None
    BY CardsStep
<1>2. CASE ~Restart /\ \A o \in Operators : ~OperatorStep(o)
  <2>1. UNCHANGED <<patch, history, crossed>> /\ (lost => lost')
    BY <1>2, QuietStep
  <2>2. \A t \in Topics : cards[t] # None => cards'[t].status = cards[t].status
    <3>1. \A o \in Operators : ~CardPatch(o)
      BY <1>2 DEF OperatorStep, CardPatch
    <3> QED
      BY <3>1, CardsStep
  <2>3. \A t : LatestEvent(t)' = LatestEvent(t) /\ (Announced(t)' <=> Announced(t))
    BY <2>1 DEF LatestEvent, Announced
  <2>4. OnePatch'
    BY <2>1 DEF HistoryInv, OnePatch
  <2>5. ASSUME NEW o \in Operators, patch[o].at = "history"
        PROVE  patch[o].topic \in Topics /\ cards[patch[o].topic] # None
    BY <2>5 DEF PatchInv
  <2> QED
    BY <1>1, <2>1, <2>2, <2>3, <2>4, <2>5 DEF HistoryInv
<1>3. CASE Restart
  <2>1. /\ patch' = [o \in Operators |-> Idle] /\ UNCHANGED <<cards, history, crossed>>
        /\ ~lost' => ~lost /\ \A o \in Operators : patch[o].at = "idle"
    BY <1>3, Zenon DEF Restart, tables
  <2>2. \A o \in Operators : patch'[o].at = "idle"
    BY <2>1 DEF Idle
  <2>3. \A t : LatestEvent(t)' = LatestEvent(t)
    BY <2>1 DEF LatestEvent
  <2>4. ~lost' => \A t : ~Announced(t)
    BY <2>1 DEF Announced
  <2>5. OnePatch'
    BY <2>2 DEF OnePatch
  <2> QED
    BY <2>1, <2>2, <2>3, <2>4, <2>5 DEF HistoryInv
<1>4. ASSUME NEW o \in Operators, OperatorStep(o) PROVE HistoryInv'
  <2>1. \A q \in Operators \ {o} : patch'[q] = patch[q]
    BY <1>4, PatchEffect
  <2>2. ~crossed' => ~crossed /\ \A q \in Operators \ {o} : patch[q].at = "idle"
    BY <1>4, PatchEffect DEF OperatorStep, HistoryInv, OnePatch
  <2>3. OnePatch'
    BY <2>1, <2>2 DEF OnePatch
  <2>4. ~lost' => ~lost
    BY <1>4, PatchEffect DEF OperatorStep
  <2>6. ASSUME ~crossed', patch[o].at # "history"
        PROVE  \A t : ~Announced(t)
    BY <2>2, <2>6 DEF Announced
  <2>7. CASE BeginPatch(o) \/ SetOwner(o) \/ PatchWithoutStatus(o)
    <3>1. /\ UNCHANGED history /\ patch[o].at # "history" /\ patch'[o].at # "history"
          /\ \A t \in Topics : cards'[t].status = cards[t].status
      BY <2>7, PatchEffect
    <3>2. \A t : LatestEvent(t)' = LatestEvent(t)
      BY <3>1 DEF LatestEvent
    <3>3. ~crossed' => \A q \in Operators : patch'[q].at # "history"
      BY <2>1, <2>2, <3>1
    <3> QED
      BY <1>1, <2>2, <2>3, <2>4, <2>6, <3>1, <3>2, <3>3 DEF HistoryInv
  <2>8. CASE SetStatus(o)
    <3>0. PICK topic : topic = patch[o].topic
      OBVIOUS
    <3>1. /\ UNCHANGED history /\ patch[o].at # "idle" /\ patch[o].at # "history"
          /\ patch'[o].at = "history" /\ patch'[o].topic = topic
          /\ patch'[o].status = patch[o].status
          /\ cards'[topic].status = patch[o].status
          /\ \A t \in Topics \ {topic} : cards'[t] = cards[t]
      BY <2>8, <3>0, PatchEffect
    <3>2. \A t : LatestEvent(t)' = LatestEvent(t)
      BY <3>1 DEF LatestEvent
    <3>3. Announced(topic)'
      BY <3>1 DEF Announced
    <3>4. ~crossed' => \A q \in Operators : patch'[q].at = "history" => q = o
      BY <2>1, <2>2
    <3>5. ASSUME ~crossed', ~lost', NEW t \in Topics, LatestEvent(t)' # None
          PROVE  LatestEvent(t)'.status = cards'[t].status \/ Announced(t)'
      <4>1. CASE t = topic
        BY <3>3, <4>1
      <4>2. CASE t # topic
        BY <2>2, <2>4, <2>6, <3>1, <3>2, <3>5, <4>2 DEF HistoryInv
      <4> QED
        BY <4>1, <4>2
    <3>6. \A t \in Topics : LatestEvent(t)' # None => cards'[t] # None
      BY <1>1, <3>2 DEF HistoryInv
    <3> QED
      BY <2>3, <3>1, <3>4, <3>5, <3>6 DEF HistoryInv
  <2>9. CASE AppendHistory(o)
    <3> DEFINE topic == patch[o].topic
    <3>1. /\ patch[o].at = "history" /\ patch'[o].at = "idle"
          /\ UNCHANGED <<cards, crossed, lost>>
      BY <2>9, PatchEffect
    <3>2. PICK e \in Event : /\ history' = Append(history, e)
                             /\ e.topic = topic /\ e.status = patch[o].status
      BY <2>9, PatchEffect
    <3>3. \A t : /\ t = topic => LatestEvent(t)' = e
                 /\ t # topic => LatestEvent(t)' = LatestEvent(t)
      <4>1. history \in Seq(Event)
        BY DEF TypeOK, TablesTyped
      <4> QED
        BY <3>2, <4>1, LatestAppended
    <3>4. ~crossed' => \A q \in Operators : patch'[q].at = "idle"
      BY <2>1, <2>2, <3>1
    <3>5. topic \in Topics /\ cards[topic] # None
      BY <3>1 DEF PatchInv
    <3>6. ~crossed' => \A t : t # topic => ~Announced(t)
      BY <2>2 DEF Announced
    <3>7. ASSUME ~crossed', ~lost', NEW t \in Topics, LatestEvent(t)' # None
          PROVE  LatestEvent(t)'.status = cards'[t].status
      <4>1. CASE t = topic
        BY <2>2, <3>1, <3>2, <3>3, <3>7, <4>1 DEF HistoryInv
      <4>2. CASE t # topic
        BY <2>2, <3>1, <3>3, <3>6, <3>7, <4>2 DEF HistoryInv
      <4> QED
        BY <4>1, <4>2
    <3>8. \A t \in Topics : LatestEvent(t)' # None => cards'[t] # None
      BY <3>1, <3>3, <3>5 DEF HistoryInv
    <3> QED
      BY <2>3, <3>4, <3>7, <3>8 DEF HistoryInv
  <2> QED
    BY <1>4, <2>7, <2>8, <2>9 DEF OperatorStep
<1> QED
    BY <1>2, <1>3, <1>4

\* While patches neither cross nor are cut off, the history of a topic ends with
\* the status its card has, as soon as no patch is between the two statements.
THEOREM HistoryIsCurrent == Spec => []HistoryFollowsCards
<1>1. Init => HistoryInv
  <2> SUFFICES ASSUME Init PROVE HistoryInv
    OBVIOUS
  <2>1. history = <<>> /\ patch = [o \in Operators |-> Idle]
    BY DEF Init
  <2>2. \A t : LatestEvent(t) = None
    BY <2>1 DEF LatestEvent
  <2>3. \A o \in Operators : patch[o].at = "idle"
    BY <2>1 DEF Idle
  <2> QED
    BY <2>2, <2>3 DEF HistoryInv, OnePatch
<1>2. HistoryInv => HistoryFollowsCards
    BY DEF HistoryInv, HistoryFollowsCards, Announced
<1>3. IndInv /\ HistoryInv /\ [Next]_vars => HistoryInv'
    BY HistoryInvStep
<1> QED
    BY <1>1, <1>2, <1>3, Invariance, PTL DEF Spec

-----------------------------------------------------------------------------
(* The evidence of the cards. *)

\* A card has all the evidence of the build that wrote its observation last.
Complete(t) ==
    cards[t] # None =>
        evidence[t] = {observations[cards[t].observation].at} \X (1 .. Evidence)

\* A rebuild makes one card at a time incomplete, and completes it again.
Replacing == {"card", "clear", "evidence"}
EvidenceInv == ~lost =>
    /\ \A t \in Topics : Complete(t) \/ (t = Topic /\ place \in Replacing)
    /\ place \in {"clear", "evidence"} =>
          cards[Topic].observation = Obs /\ observations[Obs].at = build
    /\ place = "evidence" => evidence[Topic] = {build} \X (1 .. rank)

\* A step that leaves the observations, the evidence and what the cards are
\* about alone leaves the complete cards complete.
LEMMA CompleteStays ==
    ASSUME NEW t, Complete(t), UNCHANGED <<observations, evidence>>,
           \/ cards'[t] = cards[t]
           \/ cards[t] # None /\ cards'[t].observation = cards[t].observation
    PROVE  Complete(t)'
    BY DEF Complete

LEMMA EvidenceStep ==
    ASSUME IndInv, EvidenceInv, [Next]_vars
    PROVE  EvidenceInv'
<1> USE DEF IndInv, CardsAgree
<1>1. CASE lost'
    BY <1>1 DEF EvidenceInv
\* The statements that change no table but the series, between two cards.
<1>2. ASSUME ~lost, place \notin Replacing, place' \notin Replacing,
             UNCHANGED <<observations, evidence, cards>>
      PROVE  EvidenceInv'
  <2>1. \A t \in Topics : Complete(t)
    BY <1>2 DEF EvidenceInv
  <2>2. \A t \in Topics : Complete(t)'
    BY <1>2, <2>1, CompleteStays
  <2> QED
    BY <1>2, <2>2 DEF EvidenceInv, Replacing
<1>3. CASE StartUp \/ StartRun \/ NothingToShow
  <2>1. place = "idle" /\ place' \in {"idle", "measure"} /\ UNCHANGED lost
        /\ UNCHANGED <<observations, evidence, cards>>
    BY <1>3 DEF StartUp, StartRun, Start, NothingToShow, rebuild, tables, bounds
  <2> QED
    BY <1>1, <1>2, <2>1 DEF Replacing
<1>4. CASE Measure \/ Select \/ Show
  <2>1. place \in {"measure", "select", "next"} /\ place' \in {"idle", "select", "next"}
        /\ UNCHANGED lost /\ UNCHANGED <<observations, evidence, cards>>
    BY <1>4 DEF Measure, Select, Show, RebuildOver, tables, bounds
  <2> QED
    BY <1>1, <1>2, <2>1 DEF Replacing
<1>5. CASE ReadCard \/ WriteSeries
  <2>1. place \in {"next", "series"} /\ place' = After(place) /\ UNCHANGED lost
        /\ UNCHANGED <<observations, evidence, cards>>
    BY <1>5 DEF ReadCard, WriteSeries, Writing, tables, bounds
  <2>2. place' \in {"series", "observation"}
    BY <2>1, StepOrder
  <2> QED
    BY <1>1, <1>2, <2>1, <2>2 DEF Replacing
<1>6. CASE RebuildFails
    BY <1>1, <1>6 DEF RebuildFails
<1>7. CASE Restart
  <2>1. place' = "idle" /\ (~lost' => ~lost /\ place = "idle")
        /\ UNCHANGED <<observations, evidence, cards>>
    BY <1>7, Zenon DEF Restart, RebuildOver, tables
  <2> QED
    BY <1>1, <1>2, <2>1 DEF Replacing
<1>8. CASE (\E o \in Operators : OperatorStep(o)) \/ UNCHANGED vars
  <2>1. UNCHANGED <<rebuild, lost, observations, evidence>> /\ ~WriteCard
    <3>1. UNCHANGED <<rebuild, lost, observations, evidence>>
      BY <1>8 DEF OperatorStep, BeginPatch, SetOwner, SetStatus, AppendHistory,
         PatchWithoutStatus, At, bounds, tables, vars
    <3>2. WriteCard => place' # place
      <4>1. WriteCard => place = "card" /\ place' = "clear"
        BY StepOrder DEF WriteCard, Writing
      <4> QED
        BY <4>1
    <3> QED
      BY <3>1, <3>2 DEF rebuild
  <2>2. UNCHANGED <<Topic, Obs, place, build, rank>>
    BY <2>1 DEF rebuild, Topic, Obs
  <2>3. \A t \in Topics :
            \/ cards'[t] = cards[t]
            \/ /\ cards[t] # None
               /\ cards'[t].observation = cards[t].observation
    BY <2>1, CardsStep
  <2>4. \A t \in Topics : Complete(t) => Complete(t)'
    BY <2>1, <2>3, CompleteStays
  <2>5. place \in {"clear", "evidence"} =>
            Topic \in Topics /\ cards'[Topic].observation = cards[Topic].observation
    BY <2>3, ObsIsId DEF Writings
  <2> QED
    BY <2>1, <2>2, <2>4, <2>5 DEF EvidenceInv
\* The statements that replace the card of a topic.
<1>9. ASSUME ~lost', place \in Replacing \cup {"observation"},
             UNCHANGED <<todo, id, build, lost>>
      PROVE  /\ UNCHANGED <<Topic, Obs>>
             /\ Topic \in Topics /\ Obs[1] = Topic /\ build \in Builds
             /\ place = "card" => observations[Obs].at = build
             /\ place = "observation" => \A t \in Topics : Complete(t)
             /\ \A t \in Topics \ {Topic} : Complete(t)
             /\ place \in {"clear", "evidence"} =>
                   cards[Topic].observation = Obs /\ observations[Obs].at = build
             /\ place = "evidence" => evidence[Topic] = {build} \X (1 .. rank)
  <2>1. UNCHANGED <<Topic, Obs>>
    BY <1>9 DEF Topic, Obs
  <2>2. Topic \in Topics /\ Obs[1] = Topic /\ build \in Builds
    BY <1>9, ObsIsId DEF Replacing, Writings
  <2> QED
    BY <1>9, <2>1, <2>2 DEF EvidenceInv, PlaceInv, Replacing
<1>11. ASSUME ~lost', WriteObservation PROVE EvidenceInv'
  <2>1. place = "observation" /\ place' = "card" /\ UNCHANGED <<todo, id, build, lost>>
        /\ UNCHANGED <<cards, evidence>>
    BY <1>11, StepOrder DEF WriteObservation, Writing, bounds
  <2>2. \A o \in DOMAIN observations : o # Obs => observations'[o] = observations[o]
    BY <1>11 DEF WriteObservation
  <2>3. ASSUME NEW t \in Topics, t # Topic PROVE Complete(t)'
    <3>1. CASE cards[t] = None
      BY <2>1, <3>1 DEF Complete
    <3>2. CASE cards[t] # None
      <4>1. cards[t].observation \in DOMAIN observations /\ cards[t].observation[1] = t
        BY <3>2 DEF CardsAreGrounded, TypeOK, ObservationsTyped
      <4>2. cards[t].observation # Obs
        BY <1>9, <1>11, <2>1, <2>3, <4>1
      <4> QED
        BY <1>9, <1>11, <2>1, <2>2, <2>3, <4>1, <4>2 DEF Complete
    <3> QED
      BY <3>1, <3>2
  <2> QED
    BY <1>9, <1>11, <2>1, <2>3 DEF EvidenceInv, Replacing
<1>12. ASSUME ~lost', WriteCard PROVE EvidenceInv'
  <2>1. place = "card" /\ place' = "clear" /\ UNCHANGED <<todo, id, build, lost>>
        /\ UNCHANGED <<observations, evidence>>
    BY <1>12, StepOrder DEF WriteCard, Writing, bounds
  <2>2. /\ cards'[Topic].observation = Obs
        /\ \A t \in Topics : t # Topic => cards'[t] = cards[t]
    <3>1. cards' = [cards EXCEPT ![Topic] =
                      IF cards[Topic] = None THEN NewCard ELSE OnConflict(cards[Topic])]
      BY <1>12 DEF WriteCard
    <3>2. cards \in [Topics -> Card \cup {None}]
      BY DEF TypeOK, TablesTyped
    <3>3. Topic \in Topics
      BY <1>9, <1>12, <2>1 DEF Replacing
    <3> QED
      BY <2>1, <3>1, <3>2, <3>3, CardTyped
  <2>3. \A t \in Topics : t # Topic => Complete(t)'
    BY <1>9, <1>12, <2>1, <2>2, CompleteStays DEF Replacing
  <2> QED
    BY <1>9, <1>12, <2>1, <2>2, <2>3 DEF EvidenceInv, Replacing
<1>13. ASSUME ~lost', ClearEvidence PROVE EvidenceInv'
  <2>1. place = "clear" /\ place' = "evidence" /\ UNCHANGED <<todo, id, build, lost>>
        /\ UNCHANGED <<observations, cards>> /\ rank' = 0
        /\ evidence' = [evidence EXCEPT ![Topic] = {}]
    BY <1>13, StepOrder DEF ClearEvidence, Writing, bounds, Cleared
  <2>2. evidence'[Topic] = {} /\ \A t \in Topics : t # Topic => evidence'[t] = evidence[t]
    BY <1>9, <1>13, <2>1 DEF Replacing, TypeOK, TablesTyped
  <2>3. \A t \in Topics : t # Topic => Complete(t)'
    BY <1>9, <1>13, <2>1, <2>2 DEF Replacing, Complete
  <2>4. {build} \X (1 .. 0) = {}
    OBVIOUS
  <2> QED
    BY <1>9, <1>13, <2>1, <2>2, <2>3, <2>4 DEF EvidenceInv, Replacing
<1>14. ASSUME ~lost', WriteEvidence PROVE EvidenceInv'
  <2>1. place = "evidence" /\ place' = "evidence" /\ UNCHANGED <<todo, id, build, lost>>
        /\ UNCHANGED <<observations, cards>> /\ rank' = rank + 1
        /\ evidence' = [evidence EXCEPT ![Topic] = evidence[Topic] \cup {<<build, rank + 1>>}]
    BY <1>14 DEF WriteEvidence, bounds
  <2>2. evidence'[Topic] = evidence[Topic] \cup {<<build, rank + 1>>}
        /\ \A t \in Topics : t # Topic => evidence'[t] = evidence[t]
    BY <1>9, <1>14, <2>1 DEF Replacing, TypeOK, TablesTyped
  <2>3. \A t \in Topics : t # Topic => Complete(t)'
    BY <1>9, <1>14, <2>1, <2>2 DEF Replacing, Complete
  <2>4. rank \in Nat
    BY DEF TypeOK, RebuildTyped
  <2>5. 1 .. rank + 1 = (1 .. rank) \cup {rank + 1}
    BY <2>4
  <2>6. {build} \X (1 .. rank + 1) = ({build} \X (1 .. rank)) \cup {<<build, rank + 1>>}
    BY <2>5
  <2> QED
    BY <1>9, <1>14, <2>1, <2>2, <2>3, <2>6 DEF EvidenceInv, Replacing
<1>15. ASSUME ~lost', CardWritten PROVE EvidenceInv'
  <2>1. place = "evidence" /\ place' = "next" /\ UNCHANGED <<id, build, lost>>
        /\ UNCHANGED <<observations, cards, evidence>> /\ rank = Evidence
    BY <1>15 DEF CardWritten, tables, bounds
  <2>2. /\ \A t \in Topics : t = Topic \/ Complete(t)
        /\ cards[Topic].observation = Obs /\ observations[Obs].at = build
        /\ evidence[Topic] = {build} \X (1 .. Evidence)
    BY <1>15, <2>1 DEF EvidenceInv
  <2>3. \A t \in Topics : Complete(t)
    BY <2>2 DEF Complete
  <2>4. \A t \in Topics : Complete(t)'
    BY <2>1, <2>3, CompleteStays
  <2> QED
    BY <2>1, <2>4 DEF EvidenceInv, Replacing
<1> QED
    BY <1>1, <1>3, <1>4, <1>5, <1>6, <1>7, <1>8, <1>11, <1>12, <1>13, <1>14, <1>15
       DEF Next, RebuildStep, OperatorStep

\* Whenever no rebuild is under way and none was cut off, the evidence of each
\* card is that of its observation's build, and none is missing.
THEOREM EvidenceIsComplete == Spec => []EvidenceIsOfTheCard
<1>1. Init => EvidenceInv
    BY DEF Init, EvidenceInv, Complete, Nothing
<1>2. EvidenceInv => EvidenceIsOfTheCard
    BY DEF EvidenceInv, EvidenceIsOfTheCard, Complete, Replacing
<1>3. IndInv /\ EvidenceInv /\ [Next]_vars => EvidenceInv'
    BY EvidenceStep
<1> QED
    BY <1>1, <1>2, <1>3, Invariance, PTL DEF Spec
=============================================================================
