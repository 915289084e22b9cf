------------------------- MODULE MCLiveAcquisition -------------------------
(* Small instances of LiveAcquisition. *)
EXTENDS LiveAcquisition, TLC

CONSTANTS product, ours, theirs, early, late, wall

\* Two sources found the same post; the product page is the catalog's.
MCPageOrder == <<product, ours, theirs>>
MCUrl == [p \in {product, ours, theirs} |-> IF p = product THEN "item" ELSE "post"]

MCContentsAt == [u \in {"item", "post"} |->
                   IF u = "item" THEN {late, wall} ELSE {early, late}]

\* A post that was edited: praise in English, later a complaint of day 2.
MCUnitsIn == [c \in {early, late, wall} |->
                CASE c = early -> {"praise"} [] c = late -> {"praise", "complaint"}
                  [] OTHER -> {}]
MCDay == [u \in {"praise", "complaint"} |-> IF u = "praise" THEN 1 ELSE 2]

MCCall(stages, refresh, limit) ==
    [stages |-> stages, refresh |-> refresh, limit |-> limit, window |-> {1, 2}]
\* The scheduled collection, and a prefetch of one page that asks the agent.
MCOptions == {MCCall({"discover", "revalidate", "extract"}, FALSE, 2),
              [MCCall({"seed", "revalidate", "agent", "extract"}, TRUE, 1)
                  EXCEPT !.window = {1}]}
=============================================================================
