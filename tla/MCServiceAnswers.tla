--------------------------- MODULE MCServiceAnswers ---------------------------
(* Small inputs of every kind.  For the analytics: two or three posts in any  *)
(* order, up to three strata with thresholds scaled down to a handful of      *)
(* pieces of feedback, five weeks of two topics, two brands in two strata and *)
(* three candidates.  For readers: up to eight rows, weeks, months of ten     *)
(* days.  For cards and classifications: four replies; for files four lines.  *)
EXTENDS ServiceAnswers

MCSourceOrder == <<"owned", "social">>
MCSubtopicOrder == <<"late", "lost">>
MCTopicNames == <<"delivery", "price">>
MCMinGrowth == <<9, 5>>
MCMinDelta == <<5, 100>>
\* 1.645 squared: alpha is 0.05.
MCCriticalSquare == <<2706, 1000>>

\* [ok, topical]: analysed and of the topic, of another one, or not analysed.
Said == {<<TRUE, TRUE>>, <<TRUE, FALSE>>, <<FALSE, TRUE>>}
Unit(id, groups, brands, windows, said) ==
    {u \in [id : {id}, group : groups, brand : brands, source : ToSet(MCSourceOrder),
            quality : {"reported", "inferred"}, window : windows, ok : BOOLEAN, topical : BOOLEAN,
            sentiment : {"negative", "positive"}, subtopic : {"late"}] :
        <<u.ok, u.topical>> \in said}
AnyUnit(id, windows) == Unit(id, {1, 2}, {"guardian", "hasaki"}, windows, Said)
OneRepost(id) == Unit(id, {1}, {"guardian", "hasaki"}, {"current"}, {<<TRUE, TRUE>>})
MCUnitInputs ==
    {<<x, y>> : x \in AnyUnit(2, {"current"}), y \in AnyUnit(1, {"current", "baseline"})}
    \cup {<<x, y, z>> : x \in OneRepost(3), y \in OneRepost(1), z \in OneRepost(2)}
    \cup {<<x, y, z>> : x \in Unit(1, {1}, {"guardian"}, {"current"}, {<<TRUE, TRUE>>}),
                        y \in Unit(2, {2}, {"guardian"}, {"current"}, {<<TRUE, TRUE>>}),
                        z \in Unit(3, {3}, {"guardian"}, {"current"}, {<<TRUE, TRUE>>})}

Connector == [status : {"healthy", "partial", "failed"}, age : {None, 10, 40, 50}]
MCHealthInputs ==
    [rows : {S \in SUBSET Connector : Cardinality(S) <= 2},
     records : [total : {2}, dated : {1, 2}, groups : {1, 2}, analysed : {1, 2},
                confidence : {60, 70}]]

Cells(cs, bs) == {x \in [c : 0 .. 4, C : cs, b : 0 .. 4, B : bs] : x.c <= x.C /\ x.b <= x.B}
Stratum(group, cells, healths) ==
    {[group |-> group, healthy |-> h, c |-> x.c, C |-> x.C, b |-> x.b, B |-> x.B] :
        x \in cells, h \in healths}
Rich == Cells({1, 2, 4}, {2, 4})
Poor == {x \in Cells({4}, {2, 4}) : x.c \in {0, 4} /\ x.b \in {0, x.B}}
MCTrendInputs ==
    {<<x, y>> : x \in Stratum("owned", Rich, {TRUE}), y \in Stratum("social", Rich, {TRUE})}
    \cup {<<x, y, z>> : x \in Stratum("owned", Poor, BOOLEAN),
                        y \in Stratum("social", Poor, {TRUE}),
                        z \in Stratum("owned", Poor, {TRUE})}
MCReferences ==
    [share : {<<0, 1>>, <<1, 2>>, <<1, 1>>}, healthy : {TRUE}]

MCWeekInputs == [1 .. 5 -> [{"delivery", "price"} -> 0 .. 1]]

MCWindowInputs ==
    [asOf : 72 .. 96, complete : BOOLEAN,
     range : {[kind |-> "days", days |-> 7], [kind |-> "days", days |-> 30],
              [kind |-> "custom", from |-> 2, to |-> 2], [kind |-> "custom", from |-> 1, to |-> 3]}]

MCBrands == {"guardian", "hasaki"}
BrandCell == {x \in [n : 0 .. 4, d : {1, 2, 4}] : x.n <= x.d}
MCCohortInputs == {<<x, y>> : x, y \in [MCBrands -> BrandCell]}

Candidate(id) == {c \in [id : {id}, strength : 1 .. 3, owner : {"commerce", "support"},
                         healthy : BOOLEAN] : c.healthy \/ c.strength = 3}
MCCandidateInputs ==
    {{x, y, z} : x \in Candidate(1), y \in Candidate(2), z \in Candidate(3)}

-----------------------------------------------------------------------------
(* Rows.  The hour is 80 local days after the epoch: the week starts with day *)
(* 73, the 28 days before it with day 45.                                     *)

MCAsOf == 24 * 80 - Offset + 9
MCProductOrder == <<"serum", "toner", "unattributed">>
MCPublicSources == {"marketplace", "social"}

Row == [id |-> 1, group |-> 1, product |-> "serum", source |-> "marketplace",
        brand |-> "guardian", primary |-> None, trusted |-> FALSE, day |-> 75,
        inferred |-> FALSE, analysis |-> "completed", relevant |-> TRUE,
        intent |-> "complaint", sentiment |-> "negative", problem |-> "late", confidence |-> 70,
        cards |-> 0]
\* Rows that differ from Row in what f gives values for.
Vary(f) ==
    LET s(x) == IF x \in DOMAIN f THEN f[x] ELSE {Row[x]}
    IN  [id : s("id"), group : s("group"), product : s("product"), source : s("source"),
         brand : s("brand"), primary : s("primary"), trusted : s("trusted"), day : s("day"),
         inferred : s("inferred"), analysis : s("analysis"), relevant : s("relevant"),
         intent : s("intent"), sentiment : s("sentiment"), problem : s("problem"),
         confidence : s("confidence"), cards : s("cards")]
Brand(b) == CASE b = "fixed" -> [brand |-> "guardian", primary |-> None, trusted |-> FALSE]
              [] b = "changed" -> [brand |-> "guardian", primary |-> "hasaki", trusted |-> TRUE]
              [] b = "other" -> [brand |-> "hasaki", primary |-> None, trusted |-> FALSE]
              [] b = "named" -> [brand |-> None, primary |-> "guardian", trusted |-> TRUE]
              [] b = "unsure" -> [brand |-> None, primary |-> "guardian", trusted |-> FALSE]
Branded(rows, brands) ==
    {[x \in DOMAIN Row |-> IF x \in DOMAIN Brand(b) THEN Brand(b)[x] ELSE r[x]] :
        r \in rows, b \in brands}

Week == [name |-> "7d", kind |-> "days", days |-> 7]
AllTime == [name |-> "all", kind |-> "days", days |-> 7]
Year == [name |-> "1y", kind |-> "days", days |-> 35]
Few == [name |-> "custom", kind |-> "custom", from |-> 70, to |-> 74]
Many == [name |-> "custom", kind |-> "custom", from |-> 45, to |-> 74]

Identities(id, groups) ==
    Branded(Vary([id |-> {id}, group |-> groups, product |-> {"serum", "unattributed"},
                  day |-> {75, 70, None}, analysis |-> {"completed", "low_confidence", "pending",
                                                      "none"}]),
            {"fixed", "other", "unsure"})
Sets2(S, T) == {{x, y} : x \in S, y \in T}
Identity == {[rows |-> R, range |-> Week, preset |-> AllTime, inferred |-> FALSE] :
                R \in Sets2(Identities(1, {1}), Identities(2, {1, 2}))}

Proof(id, days) == Vary([id |-> {id}, group |-> {id}, product |-> {"serum", "toner"},
                         day |-> days, sentiment |-> {"positive"}])
Evidence ==
    {[rows |-> {[w EXCEPT !.confidence = c], x, y, z}, range |-> AllTime, preset |-> AllTime,
      inferred |-> FALSE] :
        c \in {60, 80}, w \in Proof(1, {75, None}), x \in Proof(2, {75, 74}), y \in Proof(3, {75, 76}),
        z \in Proof(4, {75, None})}

OfBrandRow(id) ==
    {[r EXCEPT !.brand = b, !.id = id, !.group = id] :
        r \in Vary([source |-> {"marketplace", "owned"}, day |-> {75, None}]), b \in MCBrands}
Comparison ==
    {[rows |-> {w, x, y, z}, range |-> Week, preset |-> AllTime, inferred |-> FALSE] :
        w \in OfBrandRow(1), x \in OfBrandRow(2), y \in OfBrandRow(3), z \in OfBrandRow(4)}

Felt(id, groups) ==
    Vary([id |-> {id}, group |-> groups, day |-> {45, 56, 69, 73, 74, 75, 79, 80},
          inferred |-> BOOLEAN, sentiment |-> {"positive", "mixed"}])
Moods == {[rows |-> R, range |-> g[1], preset |-> g[2], inferred |-> i] :
            R \in Sets2(Felt(1, {1}), Vary([id |-> {2}, group |-> {2}, product |-> {"toner"},
                                            day |-> {50, 75, 79}, sentiment |-> {"neutral"}])),
            g \in ({Week, Year, Few, Many} \X {AllTime}) \cup ({AllTime} \X {AllTime, Week, Many}),
            i \in BOOLEAN}
Nothing == {[rows |-> {}, range |-> Week, preset |-> AllTime, inferred |-> FALSE]}
MCDashboardInputs == Identity \cup Evidence \cup Comparison \cup Moods \cup Nothing

\* Two posts of two sources in both windows, attributed in one way or another,
\* some of them reposts that were not analysed yet.
Ready(id, source, day) ==
    {[r EXCEPT !.id = id, !.group = id] :
        r \in Branded(Vary([source |-> {source}, day |-> {day}]), {"fixed", "named"})}
Reposts == {{}} \cup {{[r EXCEPT !.id = 0]} : r \in
    Branded(Vary([group |-> {1, 5}, source |-> {"owned", "social"}, day |-> {75, 60},
                  analysis |-> {"completed", "none"}]), {"unsure"})}
Connectors == {{}, {{[status |-> "healthy", age |-> 10]}},
               {{[status |-> "healthy", age |-> 10], [status |-> "healthy", age |-> None]},
                {[status |-> "partial", age |-> 40]}}}
MCTodayInputs ==
    {[rows |-> {a, b, c, d, e, f, g, h} \cup R, groups |-> G] :
        a \in Ready(1, "owned", 75), b \in Ready(2, "owned", 76), c \in Ready(3, "social", 75),
        d \in Ready(4, "social", 79), e \in Ready(5, "owned", 60), f \in Ready(6, "owned", 72),
        g \in Ready(7, "social", 60), h \in Ready(8, "social", 45), R \in Reposts,
        G \in Connectors}

Listable(id) ==
    Branded(Vary([id |-> {id}, day |-> {74, 75, None}, cards |-> {0, 2}]),
            {"unsure", "other", IF id = 1 THEN "changed" ELSE "fixed"})
MCPageInputs ==
    {[rows |-> {x, y, z}, brand |-> b, window |-> w, limit |-> n] :
        x \in Listable(1), y \in Listable(2), z \in {r \in Listable(3) : r.cards = 2},
        b \in {None, "guardian"}, w \in {None, <<74, 75>>}, n \in {1, 2}}

-----------------------------------------------------------------------------
(* Replies and files. *)

MCPlaybook == [owner |-> "commerce", actions |-> {"restock"}]
Draft == [numbers |-> {1}, causal |-> FALSE, words |-> 10, owner |-> "commerce",
          actions |-> {"restock"}, evidence |-> <<1>>]
MCDrafts == {Draft, [Draft EXCEPT !.numbers = {1, 9}], [Draft EXCEPT !.evidence = <<1, 3>>],
             [Draft EXCEPT !.owner = "support"], [Draft EXCEPT !.causal = TRUE]}
Packet == [numbers |-> {1, 2}, evidence |-> <<1, 2>>,
           driver |-> [numbers |-> {}, causal |-> FALSE, words |-> 12]]
Four(replies) == [1 .. 4 -> replies]
MCCardInputs ==
    {[packet |-> p, replies |-> r] :
        p \in {Packet, [Packet EXCEPT !.driver.numbers = {12}],
              [Packet EXCEPT !.numbers = {1, 9}]},
        r \in Four({NoReply, Refused, Malformed} \cup MCDrafts)}

Object == [span |-> TRUE, primary |-> "guardian", brandSpan |-> "text", sentiment |-> "negative",
           score |-> "negative", relevant |-> TRUE, other |-> FALSE]
MCObjects == {Object, [Object EXCEPT !.primary = "hasaki"], [Object EXCEPT !.brandSpan = "none"],
              [Object EXCEPT !.span = FALSE], [Object EXCEPT !.score = "positive"]}
MCClassifyInputs ==
    {[request |-> q, replies |-> r] :
        q \in [fixed : {"none", "guardian"}, social : BOOLEAN, candidates : {{"guardian"}}],
        r \in Four({NoReply, Refused, Malformed} \cup MCObjects)}

Message == [conversation : {NoValue, 1, 2}, at : {NoValue, 1, 2}, text : {NoValue, "words"},
            rating : {NoValue}, day : {1}, vietnamese : {TRUE}]
Undated == {[m EXCEPT !.day = Unread] :
                m \in {x \in Message : x.conversation = 1 /\ x.at # NoValue /\ x.text # NoValue}}
Review == [conversation : {1}, at : {1}, text : {NoValue, "words"}, rating : {NoValue, 5, 9},
           day : {NoValue, 1, 3}, vietnamese : BOOLEAN]
NoFilter == [vietnamese |-> FALSE, from |-> NoValue, to |-> NoValue]
MCFileInputs ==
    {[lines |-> l, grouped |-> TRUE, filter |-> NoFilter] :
        l \in [1 .. 3 -> {Blank, Bad} \cup Message \cup Undated]}
    \cup {[lines |-> l, grouped |-> FALSE, filter |-> f] :
            l \in [1 .. 2 -> {Blank, Bad} \cup Review],
            f \in [vietnamese : BOOLEAN, from : {NoValue, 2}, to : {NoValue, 2}]}
    \cup {[lines |-> l, grouped |-> FALSE, filter |-> NoFilter] :
            l \in [1 .. 4 -> {Blank, Bad, CHOOSE r \in Review : r.text # NoValue}]}
=============================================================================
