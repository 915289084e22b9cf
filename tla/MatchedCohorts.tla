---------------------------- MODULE MatchedCohorts ----------------------------
(***************************************************************************)
(* Fair comparisons: the public benchmark of analytics/competitors.py, in  *)
(* which every brand has the same weights, and the choice of the cards of  *)
(* Today (insights/ranking.py), where owners are spread only among equals. *)
(***************************************************************************)
EXTENDS Naturals, FiniteSets, Sequences, Collections

CONSTANTS
    Brands,         \* the brands that are compared
    MinSample,      \* the pieces of feedback a brand needs in a stratum
    Limit           \* the cards of Today

\* A cohort gives every stratum and brand its [n, d]: issues of feedback.
Common(cohort) == {k \in DOMAIN cohort : \A b \in Brands : cohort[k][b].d >= MinSample}

\* Broken variant: every brand's own feedback sets its weights.
OwnWeight(cohort, k, brand) == cohort[k][brand].d
\* One weight for a stratum, whatever the brand.
Weight(cohort, k, brand) == SumFunction([b \in Brands |-> cohort[k][b].d])

\* The weighted share of a brand, as a fraction.
WeightedShare(cohort, brand) ==
    LET common == Common(cohort)
        sizes == [k \in common |-> cohort[k][brand].d]
        weights == [k \in common |-> Weight(cohort, k, brand)]
        others(k) == ProductFunctionOnSet(sizes, common \ {k})
    IN  <<SumFunction([k \in common |-> weights[k] * cohort[k][brand].n * others(k)]),
          SumFunction(weights) * ProductFunctionOnSet(sizes, common)>>

\* Which brands have a weighted share, and what it is.
Benchmark(cohort) ==
    IF Common(cohort) = {} THEN <<>> ELSE [b \in Brands |-> WeightedShare(cohort, b)]

-----------------------------------------------------------------------------
(* A candidate is [id, strength, owner, healthy]; the strength stands for    *)
(* urgency, type, excess, growth, breadth and confidence, in this order.     *)

Stronger(c, e, load) ==
    \/ c.strength > e.strength
    \/ c.strength = e.strength /\ load[c.owner] < load[e.owner]

Best(remaining, load) ==
    CHOOSE c \in remaining : \A e \in remaining \ {c} :
        Stronger(c, e, load) \/ (~Stronger(e, c, load) /\ c.id < e.id)

Load(selected, owners) ==
    [o \in owners |-> Cardinality({i \in DOMAIN selected : selected[i].owner = o})]

\* One card after the other, with the owners of those selected before.
ChosenCards(candidates) ==
    LET healthy == {c \in candidates : c.healthy}
        owners == {c.owner : c \in candidates}
        selected[k \in 0 .. Limit] ==
            IF k = 0 THEN <<>>
            ELSE LET before == selected[k - 1]
                     remaining == healthy \ {before[i] : i \in DOMAIN before}
                 IN  IF remaining = {} THEN before
                     ELSE Append(before, Best(remaining, Load(before, owners)))
    IN  selected
Today(candidates) == ChosenCards(candidates)[Limit]
=============================================================================
