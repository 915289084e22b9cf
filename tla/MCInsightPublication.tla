------------------------ MODULE MCInsightPublication ------------------------
(* The monitored topic and another one; two interchangeable operators who    *)
(* start monitoring, acknowledge and reassign, or only reassign.             *)
EXTENDS InsightPublication

CONSTANTS delivery, price

MCTopicOrder == <<price, delivery>>
MCFindings == [t \in {price, delivery} |->
    IF t = delivery THEN {"recurs", "falls"} ELSE {"quiet", "spikes"}]
MCPayloads ==
    {[status |-> "monitoring", owner |-> None],
     [status |-> "acknowledged", owner |-> "support"],
     [status |-> None, owner |-> "support"]}
Interchangeable == Permutations(Operators)
=============================================================================
