-------------------------- MODULE MCMarketplaceSync --------------------------
(* A seller with two products under two statuses and up to four reviews. *)
EXTENDS MarketplaceSync

CONSTANTS i1, i2, a, b, c, d, x

MCCatalogue == <<i1, i2>>
MCShelves == << <<i1>>, <<i2>> >>
MCFirstReviews == (i1 :> <<a, b, c>>) @@ (i2 :> <<d>>)
MCItemOf == [r \in Reviews |-> IF r = d THEN i2 ELSE i1]
\* A full sync, one that starts with a product, and one of two products only.
MCCalls == {[all |-> TRUE, ids |-> {}], [all |-> TRUE, ids |-> {i2}],
            [all |-> FALSE, ids |-> {i1, i2}]}

\* QuietSyncIsComplete is about sellers whose lists fit the pages.
ASSUME MCPagesSuffice == PagesSuffice
=============================================================================
