------------------------- MODULE MCIngestRepository -------------------------
(* A small instance of IngestRepository. *)
EXTENDS IngestRepository, TLC

CONSTANTS post, unit, reread, third, review, foreign, link, words, other,
          social, mixed, export

\* reread is unit under a new identifier; post is ordinary, same page.
MCUrl == [x \in Rows |-> IF x \in {post, unit, reread, third} THEN link ELSE NoUrl]
MCHash == [x \in Rows |-> IF x \in {unit, reread, third} THEN words ELSE other]
MCRowsIn == [f \in Files |-> CASE f = social -> {post, unit, reread}
                               [] f = export -> {review, foreign}
                               [] OTHER      -> {foreign}]
MCLegacies == {<<>>, <<unit, reread, third>>, <<reread, post, unit>>}
=============================================================================
