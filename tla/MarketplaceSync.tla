--------------------------- MODULE MarketplaceSync ---------------------------
(***************************************************************************)
(* One synchronisation of a seller's reviews with a marketplace API        *)
(* (connectors/marketplace_api.py, under _ingest_marketplace_connector of  *)
(* application.py): list the products, page through the reviews of each    *)
(* one, store every review that is wanted as it arrives, and record in     *)
(* source_checkpoints whether the source was reconciled completely.        *)
(*                                                                         *)
(* The provider is external.  It shows a list that customers change while  *)
(* it is read; the rows and the total of an answer are true when they are  *)
(* sent, but an odd answer may claim anything about the pages that follow. *)
(* Pages count from 0: Shopee's cursor and Lazada's page number both stand *)
(* for a place in the list.                                                *)
(***************************************************************************)
EXTENDS Naturals, FiniteSets, SequencesExt, Functions

CONSTANTS
    Platforms,      \* the connectors to look at: "shopee" or "lazada"
    Catalogue,      \* the products of the seller, in the order they are listed
    Shelves,        \* and those under each item status
    NewestFirst,    \* the orders in which an API may list reviews
    Reviews,        \* what customers write,
    ItemOf,         \* the product each review is about,
    FirstReviews,   \* and the reviews each product starts with
    Wanted,         \* the reviews in the window and the language
    Calls,          \* [all, ids]: discover_all_items and item_ids of a call
    ItemPage,       \* products on one page of the product list
    PageSize,       \* reviews on one page
    MaxPages,       \* max_pages_per_item
    None,           \* a field the answer does not have
    MaxSyncs,       \* bound on the syncs
    MaxChanges,     \* bound on added and removed reviews
    MaxOdd          \* bound on odd answers

Items == ToSet(Catalogue)
\* The reviews that may be listed for a product.
About(i) == {r \in Reviews : ItemOf[r] = i}
\* Pages from here on are empty, whatever is added: they count as one.
Beyond == (Cardinality(Reviews) \div PageSize) + 1

\* At most size rows of a list, after the first from rows.
Page(list, from, size) ==
    SubSeq(list, from + 1, IF from + size < Len(list) THEN from + size ELSE Len(list))

ASSUME ProductsAssumption ==
    /\ Platforms \subseteq {"shopee", "lazada"} /\ NewestFirst \subseteq BOOLEAN
    /\ Catalogue \in Seq(Items) /\ Shelves \in Seq(Seq(Items)) /\ Len(Shelves) > 0
    /\ \A i \in Items : \E s \in DOMAIN Shelves : i \in ToSet(Shelves[s])
ASSUME CallsAssumption == Calls \subseteq [all : BOOLEAN, ids : SUBSET Items]
ASSUME ReviewsAssumption ==
    /\ IsFiniteSet(Reviews) /\ ItemOf \in [Reviews -> Items]
    /\ \A i \in Items : FirstReviews[i] \in Seq(About(i)) /\ IsInjective(FirstReviews[i])
ASSUME PagingAssumption ==
    /\ ItemPage \in Nat \ {0} /\ PageSize \in Nat \ {0} /\ MaxPages \in Nat \ {0}
    /\ None \notin Nat /\ None \notin BOOLEAN
ASSUME SyncBoundsAssumption == MaxSyncs \in Nat /\ MaxChanges \in Nat /\ MaxOdd \in Nat

VARIABLES
    platform, newestFirst, totals,  \* what kind of provider this is
    listing,        \* the reviews each product shows
    changes,        \* changes made to the listing
    deleted,        \* observer: a review disappeared during this sync
    odd, oddShelf,  \* odd answers so far; one of them was a product list
    phase,          \* where the sync is
    discoverAll,    \* item_discovery_requested
    shelf, offset, offsets,     \* the place in the product list,
    whole,          \* and whether each page said truly that it was the last
    todo,           \* the products to page through,
    cursor, cursors, pages,     \* the place in the reviews of the first of them
    seen, total,    \* its reviews so far, and the largest total it reported
    answer,         \* what the last page says of the next
    pending,        \* reviews of the page that are not stored yet
    taken,          \* observer: reviews handed to the repository by this sync
    atStart,        \* observer: wanted reviews shown when the sync began
    given,          \* observer: wanted reviews that its pages have shown
    manifest,       \* [discovered, items]: the reconciliation manifest
    run,            \* the status of the ingestion run
    stored,         \* reviews in feedback_items
    checkpoint,     \* source_checkpoints.source_complete, or None
    syncs

provider == <<platform, newestFirst, totals>>
market == <<listing, changes, deleted>>
shelfPlace == <<shelf, offset, offsets, whole>>
itemPlace == <<cursor, cursors, pages, seen, total, answer>>
observed == <<taken, atStart, given>>
durable == <<stored, checkpoint, syncs>>
vars == <<provider, market, odd, oddShelf, phase, discoverAll, shelfPlace, todo,
          itemPlace, pending, observed, manifest, run, durable>>

NoManifest == [discovered |-> FALSE, items |-> <<>>]
NoAnswer == [more |-> FALSE, next |-> None]
FreshItem ==
    /\ cursor' = 0 /\ cursors' = {} /\ pages' = 0
    /\ seen' = {} /\ total' = None /\ answer' = NoAnswer

Init ==
    /\ platform \in Platforms /\ newestFirst \in NewestFirst /\ totals \in BOOLEAN
    /\ listing = [i \in Items |-> FirstReviews[i]]
    /\ changes = 0 /\ deleted = FALSE /\ odd = 0 /\ oddShelf = FALSE
    /\ phase = "idle" /\ discoverAll = FALSE
    /\ shelf = 1 /\ offset = 0 /\ offsets = {} /\ whole = TRUE /\ todo = {}
    /\ cursor = 0 /\ cursors = {} /\ pages = 0 /\ seen = {} /\ total = None
    /\ answer = NoAnswer /\ pending = {} /\ taken = <<>> /\ atStart = {}
    /\ given = {} /\ manifest = NoManifest /\ run = "none"
    /\ stored = {} /\ checkpoint = None /\ syncs = 0

-----------------------------------------------------------------------------
(* The call of the service. *)

Shown == UNION {ToSet(listing[i]) : i \in Items}

\* Broken variant: a product enters the manifest when it has been read.
OpenLate(items, ids) == items

\* The manifest's products with the result of one of them.
Marked(items, i, result) ==
    [p \in DOMAIN items \cup {i} |-> IF p = i THEN result ELSE items[p]]

\* One product is read after the other; the order of the catalogue stands for
\* the one in which they were found.
First(ids) == Catalogue[CHOOSE n \in DOMAIN Catalogue :
    Catalogue[n] \in ids /\ \A m \in 1 .. n - 1 : Catalogue[m] \notin ids]

\* The first product to read enters the manifest before it is requested.
Open(items, ids) == IF ids = {} THEN items ELSE Marked(items, First(ids), "pending")

\* A connector is made for the call.  It pages through the item ids it is given;
\* with discover_all_items it lists the seller's products first and adds them.
Begin(all, ids) ==
    /\ phase = "idle" /\ syncs < MaxSyncs
    /\ all \/ ids # {}
    /\ syncs' = syncs + 1 /\ run' = "running"
    /\ discoverAll' = all /\ todo' = ids
    /\ phase' = IF all THEN "discover" ELSE "review"
    /\ shelf' = 1 /\ offset' = 0 /\ offsets' = {} /\ whole' = TRUE /\ FreshItem
    /\ manifest' = [NoManifest EXCEPT !.items = IF all THEN <<>> ELSE Open(<<>>, ids)]
    /\ deleted' = FALSE /\ oddShelf' = FALSE /\ taken' = <<>> /\ given' = {}
    /\ atStart' = Shown \cap Wanted
    /\ UNCHANGED <<provider, listing, changes, odd, pending, stored, checkpoint>>

\* Another run is active: the pipeline answers with that run and collects
\* nothing, and the manifest is the one the connector was made with.  Nor is
\* anything collected when the row of the ingestion run cannot be written.
BeginBusy ==
    /\ phase = "idle" /\ syncs < MaxSyncs
    /\ syncs' = syncs + 1 /\ run' = "other"
    /\ discoverAll' = TRUE /\ manifest' = NoManifest /\ phase' = "record"
    /\ UNCHANGED <<provider, market, odd, oddShelf, shelfPlace, todo, itemPlace,
                   pending, observed, stored, checkpoint>>

\* The last statement of ingest_connector closes its run.  When it raises, the
\* run stays running; the pipeline run fails, which its caller does not ask.
Closes(status) == run' \in {status, "running"}

\* An exception ends the collection; ingest_connector closes its run and the
\* call goes on with the manifest as it is.
CollectionFails ==
    /\ Closes(IF taken = <<>> THEN "failed" ELSE "partial")
    /\ phase' = "record" /\ pending' = {}
    /\ UNCHANGED <<provider, market, odd, oddShelf, discoverAll, shelfPlace, todo,
                   itemPlace, observed, manifest, durable>>

RequestFails ==
    (phase = "discover" \/ (phase = "review" /\ todo # {})) /\ CollectionFails

-----------------------------------------------------------------------------
(* Listing the products. *)

\* The ids on a page; every id is paged through once.
Found(ids) == todo' = todo \cup ToSet(ids)

\* Shopee lists the products of each status, Lazada all of them at once.
Lists == IF platform = "shopee" THEN Shelves ELSE <<Catalogue>>

ShelfEnds(complete) ==
    /\ whole' = (whole /\ complete)
    /\ offset' = 0 /\ offsets' = {}
    /\ IF shelf < Len(Lists)
       THEN shelf' = shelf + 1 /\ UNCHANGED <<phase, manifest>>
       ELSE /\ shelf' = 1 /\ phase' = "review"
            /\ manifest' = [discovered |-> whole', items |-> Open(<<>>, todo')]

NextShelfPage(next) ==
    /\ offset' = next /\ offsets' = offsets \cup {next}
    /\ UNCHANGED <<shelf, whole, phase, manifest>>

\* Product pages are counted by their offsets, which only grow: a status has
\* at most max_pages_per_item of them.
ShelfPagesLeft == Cardinality(offsets) + 1 < MaxPages

ShopeeShelfPage(hasNext, next) ==
    IF hasNext = FALSE \/ (hasNext = None /\ next = None) THEN ShelfEnds(TRUE)
    ELSE IF next # None /\ next > offset /\ ShelfPagesLeft THEN NextShelfPage(next)
    ELSE ShelfEnds(FALSE)

LazadaShelfPage(ids) ==
    LET next == offset + Len(ids) IN
    IF Len(ids) < ItemPage \/ (totals /\ next >= Len(Lists[shelf])) THEN ShelfEnds(TRUE)
    ELSE IF ShelfPagesLeft THEN NextShelfPage(next) ELSE ShelfEnds(FALSE)

DiscoverPage ==
    LET ids == Page(Lists[shelf], offset, ItemPage)
        left == offset + ItemPage < Len(Lists[shelf])
    IN
    /\ phase = "discover"
    /\ Found(ids)
    /\ \/ /\ platform = "lazada" /\ LazadaShelfPage(ids)
          /\ UNCHANGED <<odd, oddShelf>>
       \/ /\ platform = "shopee" /\ ShopeeShelfPage(left, offset + ItemPage)
          /\ UNCHANGED <<odd, oddShelf>>
       \/ /\ platform = "shopee" /\ odd < MaxOdd
          /\ odd' = odd + 1 /\ oddShelf' = TRUE
          /\ \E hasNext \in BOOLEAN \cup {None}, next \in {0, offset + ItemPage, None} :
                ShopeeShelfPage(hasNext, next)
    /\ UNCHANGED <<provider, market, discoverAll, itemPlace, pending, observed, run, durable>>

-----------------------------------------------------------------------------
(* Paging through the reviews of a product. *)

Item == First(todo)
RowsAt(c) == Page(listing[Item], c * PageSize, PageSize)
LeftAfter(c) == (c + 1) * PageSize < Len(listing[Item])

\* Rows that were shown before are dropped: the list moves while it is read.
Unseen(rows) == ToSet(rows) \ seen

\* Broken variant: the page that was requested is not counted.
Uncounted == pages
Counted == pages + 1

LargestTotal ==
    IF ~totals THEN None
    ELSE IF total = None \/ Len(listing[Item]) > total THEN Len(listing[Item]) ELSE total

\* Broken variant: a page too many is asked for.
MoreUnlessExceeded(more, rows) ==
    IF platform = "shopee" \/ more # None THEN more = TRUE
    ELSE IF total' # None THEN Cardinality(seen') <= total'
    ELSE Len(rows) >= PageSize

\* What the connector makes of the answer's "more" when it has all its rows:
\* Lazada falls back on the total, and then on whether the page was full.
MoreToCome(more, rows) ==
    IF platform = "shopee" \/ more # None THEN more = TRUE
    ELSE IF total' # None THEN Cardinality(seen') < total'
    ELSE Len(rows) >= PageSize

Receive(more, next) ==
    LET rows == RowsAt(cursor) IN
    /\ pages' = Counted
    /\ total' = LargestTotal
    /\ seen' = seen \cup ToSet(rows)
    /\ pending' = Unseen(rows) \cap Wanted /\ given' = given \cup pending'
    /\ answer' = [more |-> MoreToCome(more, rows), next |-> next]
    /\ phase' = "store"
    /\ UNCHANGED <<provider, market, oddShelf, discoverAll, shelfPlace, todo, cursor,
                   cursors, taken, atStart, manifest, run, durable>>

HonestMore == {LeftAfter(cursor)} \cup (IF platform = "lazada" THEN {None} ELSE {})

RequestPage ==
    /\ phase = "review" /\ todo # {}
    /\ \/ \E more \in HonestMore : Receive(more, cursor + 1) /\ UNCHANGED odd
       \/ /\ odd < MaxOdd /\ odd' = odd + 1
          /\ \E more \in BOOLEAN \cup {None}, next \in (0 .. Beyond) \cup {None} :
                Receive(more, next)

\* The order of the rows of one page is left out.
StoreReview == \E r \in pending :
    /\ phase = "store"
    /\ stored' = stored \cup {r} /\ taken' = Append(taken, r)
    /\ pending' = pending \ {r}
    /\ UNCHANGED <<provider, market, odd, oddShelf, phase, discoverAll, shelfPlace, todo,
                   itemPlace, atStart, given, manifest, run, checkpoint, syncs>>

\* Normalising or inserting raises: the generator is not resumed.
StoreFails == phase = "store" /\ pending # {} /\ CollectionFails

\* Broken variant: pagination that ended is taken for complete.
PagedIsMatched(complete) == IF complete THEN "matched" ELSE "incomplete"

Reconciliation(complete) ==
    IF ~complete THEN "incomplete"
    ELSE IF total = None THEN "total_unavailable"
    ELSE IF Cardinality(seen) = total THEN "matched"
    ELSE "total_mismatch"

FinishItem(complete) ==
    /\ manifest' = [manifest EXCEPT !.items =
                        Open(Marked(@, Item, Reconciliation(complete)), todo \ {Item})]
    /\ todo' = todo \ {Item} /\ phase' = "review" /\ FreshItem

PagesLeft == pages < MaxPages
NextPage == IF platform = "lazada" /\ answer.next = None THEN cursor + 1 ELSE answer.next
\* Shopee must not repeat a cursor, Lazada must go forward.
Moves(next) ==
    /\ next # None
    /\ IF platform = "shopee" THEN next \notin cursors ELSE next > cursor

TurnPage ==
    /\ phase = "store" /\ pending = {}
    /\ IF ~answer.more THEN FinishItem(TRUE)
       ELSE IF ~Moves(NextPage) \/ ~PagesLeft THEN FinishItem(FALSE)
       ELSE /\ cursor' = IF NextPage < Beyond THEN NextPage ELSE Beyond
            /\ cursors' = cursors \cup {NextPage}
            /\ answer' = NoAnswer /\ phase' = "review"
            /\ UNCHANGED <<pages, seen, total, todo, manifest>>
    /\ UNCHANGED <<provider, market, odd, oddShelf, discoverAll, shelfPlace, pending,
                   observed, run, durable>>

\* The generator is exhausted and its run is closed.
CollectionEnds ==
    /\ phase = "review" /\ todo = {}
    /\ Closes("completed") /\ phase' = "record"
    /\ UNCHANGED <<provider, market, odd, oddShelf, discoverAll, shelfPlace, todo,
                   itemPlace, pending, observed, manifest, durable>>

SourceComplete ==
    /\ discoverAll /\ manifest.discovered
    /\ \A i \in DOMAIN manifest.items : manifest.items[i] = "matched"

Forget ==
    /\ phase' = "idle" /\ discoverAll' = FALSE /\ todo' = {}
    /\ shelf' = 1 /\ offset' = 0 /\ offsets' = {} /\ whole' = TRUE /\ FreshItem
    /\ pending' = {} /\ taken' = <<>> /\ atStart' = {} /\ given' = {}
    /\ manifest' = NoManifest /\ run' = "none"
    /\ deleted' = FALSE /\ oddShelf' = FALSE

RecordCheckpoint ==
    /\ phase = "record"
    /\ checkpoint' = SourceComplete
    /\ Forget /\ UNCHANGED <<provider, listing, changes, odd, stored, syncs>>

\* The process ends, or the pipeline's last update raises.  What was stored
\* stays, and so does the last checkpoint; it stays as well at the end of a sync
\* of a Shopee shop without a source id.
Cut ==
    /\ phase # "idle" /\ Forget
    /\ UNCHANGED <<provider, listing, changes, odd, durable>>

-----------------------------------------------------------------------------
(* Customers and moderators. *)

AddReview == \E r \in Reviews \ Shown :
    /\ phase # "idle" /\ changes < MaxChanges
    /\ changes' = changes + 1
    /\ listing' = [listing EXCEPT ![ItemOf[r]] =
                      IF newestFirst THEN <<r>> \o @ ELSE Append(@, r)]
    /\ UNCHANGED <<provider, deleted, odd, oddShelf, phase, discoverAll, shelfPlace, todo,
                   itemPlace, pending, observed, manifest, run, durable>>

RemoveReview == \E i \in Items : \E n \in DOMAIN listing[i] :
    /\ phase # "idle" /\ changes < MaxChanges
    /\ changes' = changes + 1 /\ deleted' = TRUE
    /\ listing' = [listing EXCEPT ![i] = RemoveAt(@, n)]
    /\ UNCHANGED <<provider, odd, oddShelf, phase, discoverAll, shelfPlace, todo,
                   itemPlace, pending, observed, manifest, run, durable>>

\* Requests have a timeout and statements return: a sync goes on.
SyncStep ==
    \/ DiscoverPage \/ RequestPage \/ RequestFails \/ StoreReview \/ StoreFails
    \/ TurnPage \/ CollectionEnds \/ RecordCheckpoint

Next ==
    \/ SyncStep \/ BeginBusy \/ Cut \/ AddReview \/ RemoveReview
    \/ \E call \in Calls : Begin(call.all, call.ids)

Spec == Init /\ [][Next]_vars
FairSpec == Spec /\ WF_vars(SyncStep)

-----------------------------------------------------------------------------
(* Properties. *)

Results == {"pending", "incomplete", "total_unavailable", "matched", "total_mismatch"}

ProviderOK ==
    /\ platform \in Platforms /\ newestFirst \in BOOLEAN /\ totals \in BOOLEAN
    /\ DOMAIN listing = Items
    /\ \A i \in Items : listing[i] \in Seq(About(i)) /\ IsInjective(listing[i])
    /\ changes \in 0 .. MaxChanges /\ deleted \in BOOLEAN
    /\ odd \in 0 .. MaxOdd /\ oddShelf \in BOOLEAN

ShelfOK ==
    /\ phase \in {"idle", "discover", "review", "store", "record"} /\ discoverAll \in BOOLEAN
    /\ whole \in BOOLEAN /\ shelf \in 1 .. Len(Lists) /\ offset \in Nat /\ IsFiniteSet(offsets)
    /\ todo \subseteq Items

ItemOK ==
    /\ cursor \in 0 .. Beyond /\ pages \in 0 .. MaxPages
    /\ IsFiniteSet(cursors) /\ Cardinality(cursors) < MaxPages
    /\ seen \subseteq Reviews /\ total \in 0 .. Cardinality(Reviews) \cup {None}
    /\ answer \in [more : BOOLEAN, next : Nat \cup {None}]
    /\ pending \subseteq Wanted \cap seen /\ atStart \subseteq Wanted /\ given \subseteq Wanted

RecordOK ==
    /\ manifest \in [discovered : BOOLEAN, items : UNION {[S -> Results] : S \in SUBSET Items}]
    /\ run \in {"none", "running", "other", "completed", "partial", "failed"}
    /\ stored \subseteq Wanted /\ checkpoint \in BOOLEAN \cup {None} /\ syncs \in 0 .. MaxSyncs

\* The sync is at one place of one product, and the manifest has results of
\* products the seller lists.
TypeOK == ProviderOK /\ ShelfOK /\ ItemOK /\ RecordOK

\* A source is recorded as complete only when every wanted review it showed
\* when the sync began is stored, whatever customers added meanwhile and
\* whatever the review pages claimed about their successors.  A removal can
\* hide a row from a reader that counts places, and is excepted; and so is a
\* product list that is not true.
CompleteMissesNothing ==
    phase = "record" /\ SourceComplete /\ ~deleted /\ ~oddShelf => atStart \subseteq stored

\* A source turns complete only when everything wanted that its pages have shown
\* is stored: not by a sync that raised in the middle, or was cut off, and not by
\* a call that found the pipeline busy.  Its ingestion run completed, or went to
\* its end and reads running because the last update raised.
CompleteStoredAll ==
    [][checkpoint' = TRUE /\ checkpoint # TRUE =>
          given \subseteq stored /\ run \in {"completed", "running"}]_vars

\* No list is longer than the pages that may be read of it.
PagesSuffice ==
    /\ Len(Catalogue) <= MaxPages * ItemPage
    /\ \A s \in DOMAIN Shelves : Len(Shelves[s]) <= MaxPages * ItemPage
    /\ \A i \in Items : Len(FirstReviews[i]) <= MaxPages * PageSize

\* Nothing is reported incomplete without a reason: a full sync of a quiet
\* source that answers truly and reports totals is complete, when the pages
\* suffice.
QuietSyncIsComplete ==
    phase = "record" /\ run = "completed" /\ discoverAll /\ totals
        /\ changes = 0 /\ odd = 0 => SourceComplete

\* A review is handed to the repository once in a sync, although rows move
\* between pages.
TakenOnce == IsInjective(taken)

\* What the manifest and the rows of one sync say of each other, and of what
\* the source showed: it is recorded as complete exactly when it should be.
CompletenessIsTrue == TypeOK /\ TakenOnce /\ CompleteMissesNothing

\* A sync ends, also when the provider always promises another page.
SyncEnds == (phase # "idle") ~> (phase = "idle")
=============================================================================
