------------------------ MODULE MarketplaceSyncProofs ------------------------
(***************************************************************************)
(* Theorems about MarketplaceSync, for any provider, products, reviews,    *)
(* page sizes and syncs.                                                   *)
(***************************************************************************)
EXTENDS MarketplaceSync, FiniteSetTheorems, SequenceTheorems, TLAPS

\* The product that is read is in the manifest, and not yet matched.
OpenInv ==
    /\ phase = "store" => todo # {}
    /\ phase \in {"review", "store"} /\ todo # {} =>
          Item \in DOMAIN manifest.items /\ manifest.items[Item] = "pending"

\* The products are all known only after discovery ended.
DiscoveryInv == phase = "discover" => manifest.discovered = FALSE

\* What the pages have shown is stored, or waits until the page is left.
GivenInv ==
    /\ phase # "store" => pending = {}
    /\ phase # "record" => given \subseteq stored \cup pending

\* A collection that did not go to its end left the manifest unreconciled.
RecordInv == phase = "record" =>
    \/ manifest.discovered = FALSE
    \/ \E i \in DOMAIN manifest.items : manifest.items[i] = "pending"
    \/ todo = {} /\ given \subseteq stored /\ run \in {"completed", "running"}

\* The manifest is a record of two fields.
ShapeInv == manifest = [discovered |-> manifest.discovered, items |-> manifest.items]

ManifestInv == OpenInv /\ DiscoveryInv /\ GivenInv /\ RecordInv /\ ShapeInv

-----------------------------------------------------------------------------

\* Whatever the manifest held, the next product is pending in it.
LEMMA OpenIsPending ==
    ASSUME NEW items, NEW ids, ids # {}
    PROVE  First(ids) \in DOMAIN Open(items, ids) /\ Open(items, ids)[First(ids)] = "pending"
    BY DEF Open, Marked

LEMMA ManifestInit == Init => ManifestInv
    BY DEF Init, NoManifest, ManifestInv, OpenInv, DiscoveryInv, GivenInv, RecordInv, ShapeInv

\* A collection that is cut off by an exception has a pending product, or
\* has not found them all.
LEMMA FailsInv ==
    ASSUME ManifestInv, CollectionFails, phase \in {"discover", "store"} \/ (phase = "review" /\ todo # {})
    PROVE  ManifestInv'
<1>1. phase' = "record" /\ pending' = {} /\ UNCHANGED manifest
    BY DEF CollectionFails
<1>2. CASE phase = "discover"
    BY <1>1, <1>2 DEF ManifestInv, OpenInv, DiscoveryInv, GivenInv, RecordInv, ShapeInv
<1>3. CASE phase \in {"review", "store"} /\ todo # {}
    BY <1>1, <1>2, <1>3 DEF ManifestInv, OpenInv, DiscoveryInv, GivenInv, RecordInv, ShapeInv
<1> QED
    BY <1>2, <1>3 DEF ManifestInv, OpenInv

\* The end of a shelf, or of discovery.
LEMMA ShelfInv ==
    ASSUME ManifestInv, phase = "discover", NEW complete, ShelfEnds(complete),
           UNCHANGED <<pending, given, stored>>
    PROVE  ManifestInv'
<1>1. CASE shelf < Len(Lists)
  <2>1. UNCHANGED <<phase, manifest>>
    BY <1>1 DEF ShelfEnds
  <2> QED
    BY <2>1 DEF ManifestInv, OpenInv, DiscoveryInv, GivenInv, RecordInv, ShapeInv
<1>2. CASE ~(shelf < Len(Lists))
  <2>1. phase' = "review" /\ manifest' = [discovered |-> whole', items |-> Open(<<>>, todo')]
    BY <1>2 DEF ShelfEnds
  <2>2. manifest'.items = Open(<<>>, todo')
    BY <2>1
  <2>3. todo' # {} =>
           First(todo') \in DOMAIN manifest'.items /\ manifest'.items[First(todo')] = "pending"
    BY <2>2, OpenIsPending
  <2> QED
    BY <2>1, <2>3 DEF ManifestInv, OpenInv, DiscoveryInv, GivenInv, RecordInv, ShapeInv, Item
<1> QED
    BY <1>1, <1>2

LEMMA ItemEndsInv ==
    ASSUME ManifestInv, NEW complete, phase = "store", FinishItem(complete), pending = {},
           UNCHANGED <<pending, given, stored>>
    PROVE  ManifestInv'
<1> DEFINE known == Marked(manifest.items, Item, Reconciliation(complete))
<1>1. phase' = "review" /\ todo' = todo \ {Item}
      /\ manifest' = [manifest EXCEPT !.items = Open(known, todo \ {Item})]
    BY DEF FinishItem
<1> HIDE DEF known
<1>2. /\ manifest'.items = Open(known, todo')
      /\ manifest' = [discovered |-> manifest'.discovered, items |-> manifest'.items]
    BY <1>1 DEF ManifestInv, ShapeInv
<1>3. todo' # {} =>
         First(todo') \in DOMAIN manifest'.items /\ manifest'.items[First(todo')] = "pending"
    BY <1>2, OpenIsPending
<1> QED
    BY <1>1, <1>2, <1>3 DEF ManifestInv, OpenInv, DiscoveryInv, GivenInv, RecordInv, ShapeInv, Item

\* One step per action.
LEMMA ManifestStep == ManifestInv /\ [Next]_vars => ManifestInv'
<1> SUFFICES ASSUME ManifestInv, [Next]_vars PROVE ManifestInv'
    OBVIOUS
<1> USE DEF ManifestInv, OpenInv, DiscoveryInv, GivenInv, RecordInv, ShapeInv, Item
<1>1. ASSUME NEW all, NEW ids, Begin(all, ids) PROVE ManifestInv'
  <2>1. /\ phase' = IF all THEN "discover" ELSE "review"
        /\ todo' = ids
        /\ manifest' = [discovered |-> FALSE, items |-> IF all THEN <<>> ELSE Open(<<>>, ids)]
        /\ phase = "idle" /\ pending' = pending /\ given' = {}
      BY <1>1 DEF Begin, NoManifest
  <2>2. ~all /\ todo' # {} =>
           First(todo') \in DOMAIN manifest'.items /\ manifest'.items[First(todo')] = "pending"
      BY <2>1, OpenIsPending
  <2> QED
      BY <2>1, <2>2
<1>2. CASE BeginBusy
    BY <1>2 DEF BeginBusy, NoManifest, observed
<1>3. CASE DiscoverPage
  <2>1. phase = "discover" /\ UNCHANGED <<run, pending, given, stored>>
      BY <1>3 DEF DiscoverPage, durable, observed
  <2>2. \/ \E complete : ShelfEnds(complete)
        \/ \E next : NextShelfPage(next)
      BY <1>3 DEF DiscoverPage, LazadaShelfPage, ShopeeShelfPage
  <2>3. ASSUME NEW next, NextShelfPage(next) PROVE ManifestInv'
      BY <2>1, <2>3 DEF NextShelfPage
  <2> QED
      BY <2>1, <2>2, <2>3, ShelfInv
<1>4. CASE RequestFails
    BY <1>4, FailsInv DEF RequestFails
<1>5. CASE RequestPage
  <2>1. /\ phase = "review" /\ todo # {} /\ phase' = "store"
        /\ given' = given \cup pending' /\ UNCHANGED <<todo, manifest, stored>>
      BY <1>5 DEF RequestPage, Receive, durable
  <2> QED
      BY <2>1
<1>6. CASE StoreReview
  <2>1. /\ phase = "store" /\ phase' = "store" /\ UNCHANGED <<todo, manifest, given>>
        /\ stored \cup pending = stored' \cup pending'
      BY <1>6 DEF StoreReview
  <2> QED
      BY <2>1
<1>7. CASE StoreFails
    BY <1>7, FailsInv DEF StoreFails
<1>8. CASE TurnPage
  <2>1. /\ phase = "store" /\ todo # {} /\ pending = {}
        /\ UNCHANGED <<pending, given, stored>>
      BY <1>8 DEF TurnPage, durable, observed
  <2>2. \/ \E complete : FinishItem(complete)
        \/ phase' = "review" /\ UNCHANGED <<todo, manifest>>
      BY <1>8 DEF TurnPage
  <2> QED
      BY <2>1, <2>2, ItemEndsInv
<1>9. CASE CollectionEnds
  <2>1. /\ phase = "review" /\ todo = {} /\ phase' = "record"
        /\ run' \in {"completed", "running"}
        /\ UNCHANGED <<todo, manifest, pending, given, stored>>
      BY <1>9 DEF CollectionEnds, Closes, durable, observed
  <2> QED
      BY <2>1
<1>10. CASE RecordCheckpoint \/ Cut
    BY <1>10 DEF RecordCheckpoint, Cut, Forget, NoManifest, durable
<1>11. CASE AddReview \/ RemoveReview
    BY <1>11 DEF AddReview, RemoveReview, durable, observed
<1>12. CASE UNCHANGED vars
    BY <1>12 DEF vars, durable, observed
<1> QED
    BY <1>1, <1>2, <1>3, <1>4, <1>5, <1>6, <1>7, <1>8, <1>9, <1>10, <1>11, <1>12
    DEF Next, SyncStep

\* The checkpoint is written in one place, from the manifest.
LEMMA OnlyRecorded ==
    ASSUME [Next]_vars, checkpoint' # checkpoint
    PROVE  phase = "record" /\ checkpoint' = SourceComplete
<1>1. CASE DiscoverPage
    BY <1>1 DEF DiscoverPage, durable
<1>2. CASE RequestFails \/ StoreFails
    BY <1>2 DEF RequestFails, StoreFails, CollectionFails, durable
<1>3. CASE RequestPage
    BY <1>3 DEF RequestPage, Receive, durable
<1>4. CASE TurnPage \/ CollectionEnds
    BY <1>4 DEF TurnPage, CollectionEnds, durable
<1>5. CASE StoreReview \/ BeginBusy \/ Cut
    BY <1>5 DEF StoreReview, BeginBusy, Cut, durable
<1>6. CASE AddReview \/ RemoveReview
    BY <1>6 DEF AddReview, RemoveReview, durable
<1>7. ASSUME NEW all, NEW ids, Begin(all, ids) PROVE FALSE
    BY <1>7 DEF Begin
<1>8. CASE UNCHANGED vars
    BY <1>8 DEF vars, durable
<1>9. CASE RecordCheckpoint
    BY <1>9 DEF RecordCheckpoint
<1> QED
    BY <1>1, <1>2, <1>3, <1>4, <1>5, <1>6, <1>7, <1>8, <1>9 DEF Next, SyncStep

\* A complete source has no pending product, so its collection went to the end
\* and stored what it was given.
THEOREM CompleteRunsStoredAll == Spec => CompleteStoredAll
<1>1. ManifestInv /\ [Next]_vars =>
         [checkpoint' = TRUE /\ checkpoint # TRUE =>
             given \subseteq stored /\ run \in {"completed", "running"}]_vars
  <2> SUFFICES ASSUME ManifestInv, [Next]_vars, checkpoint' = TRUE, checkpoint # TRUE
               PROVE  given \subseteq stored /\ run \in {"completed", "running"}
      OBVIOUS
  <2>1. phase = "record" /\ SourceComplete
      BY OnlyRecorded
  <2>2. manifest.discovered # FALSE
      BY <2>1 DEF SourceComplete
  <2>3. \A i \in DOMAIN manifest.items : manifest.items[i] # "pending"
      BY <2>1 DEF SourceComplete
  <2> QED
      BY <2>1, <2>2, <2>3 DEF ManifestInv, RecordInv
<1> QED
    BY <1>1, ManifestInit, ManifestStep, PTL DEF Spec, CompleteStoredAll

-----------------------------------------------------------------------------
(* Products and pages. *)

\* The first of some products is one of them.
LEMMA FirstIsOf ==
    ASSUME NEW ids, ids \subseteq Items, ids # {}
    PROVE  First(ids) \in ids
<1> DEFINE Places == {n \in DOMAIN Catalogue : Catalogue[n] \in ids}
<1>1. Places \subseteq Nat /\ Places # {}
    BY ProductsAssumption DEF Items, ToSet
<1>2. PICK n \in Places : \A m \in Places : ~ <<m, n>> \in OpToRel(<, Nat)
    BY <1>1, NatLessThanWellFounded, WFMin
<1>3. \A m \in Places : ~ m < n
    BY <1>1, <1>2 DEF OpToRel
<1>4. \A m \in 1 .. n - 1 : Catalogue[m] \notin ids
  <2>1. DOMAIN Catalogue = 1 .. Len(Catalogue) /\ Len(Catalogue) \in Nat
    BY ProductsAssumption
  <2>2. \A m \in 1 .. n - 1 : m \in DOMAIN Catalogue /\ m < n
    BY <1>1, <2>1
  <2> QED
    BY <1>3, <2>2
<1> QED
    BY <1>4 DEF First

\* A page has the rows of its places in the list, and no other.
LEMMA PageRows ==
    ASSUME NEW S, NEW list \in Seq(S), NEW from \in Nat, NEW size \in Nat \ {0}
    PROVE  /\ Page(list, from, size) \in Seq(S)
           /\ ToSet(Page(list, from, size)) \subseteq ToSet(list)
           /\ \A n \in from + 1 .. from + size :
                 n <= Len(list) => list[n] \in ToSet(Page(list, from, size))
           /\ \A x \in ToSet(Page(list, from, size)) :
                 \E n \in from + 1 .. from + size : n <= Len(list) /\ x = list[n]
           /\ Len(Page(list, from, size)) \in Nat
           /\ from <= Len(list) =>
                 /\ from + Len(Page(list, from, size)) <= Len(list)
                 /\ Len(Page(list, from, size)) <= size
                 /\ from + size <= Len(list) => Len(Page(list, from, size)) = size
<1> DEFINE page == Page(list, from, size)
           last == IF from + size < Len(list) THEN from + size ELSE Len(list)
<1>1. page = SubSeq(list, from + 1, last)
    BY DEF Page
<1>2. last \in Nat /\ last <= Len(list) /\ last <= from + size /\ Len(list) \in Nat
      /\ (last >= from + size \/ last >= Len(list))
    OBVIOUS
<1>6. \A i \in 1 .. Len(list) : i \in DOMAIN list /\ list[i] \in S
    OBVIOUS
<1> HIDE DEF last
<1>3. /\ page \in Seq(S)
      /\ Len(page) = IF from + 1 <= last THEN last - (from + 1) + 1 ELSE 0
      /\ \A i \in 1 .. last - (from + 1) + 1 : page[i] = list[from + 1 + i - 1]
  <2>1. \A i \in from + 1 .. last : list[i] \in S
    BY <1>2, <1>6
  <2>2. from + 1 \in Int /\ last \in Int /\ list \in Seq(S)
    BY <1>2
  <2> HIDE DEF page
  <2> QED
    BY <1>1, <2>1, <2>2, SubSeqProperties
<1> HIDE DEF page
<1>4. CASE from + 1 <= last
  <2>1. DOMAIN page = 1 .. (last - from) /\ Len(page) = last - from
        /\ \A n \in 1 .. (last - from) : page[n] = list[from + n]
    BY <1>2, <1>3, <1>4
  <2>2. \A n \in 1 .. (last - from) : from + n \in DOMAIN list
    BY <1>2, <1>4, <1>6
  <2>3. ToSet(page) \subseteq ToSet(list)
    BY <2>1, <2>2 DEF ToSet
  <2>4. ASSUME NEW n \in from + 1 .. from + size, n <= Len(list)
        PROVE  list[n] \in ToSet(page)
    <3>1. n - from \in 1 .. (last - from) /\ from + (n - from) = n
      BY <1>2, <1>4, <2>4
    <3>2. page[n - from] = list[n] /\ n - from \in DOMAIN page
      BY <2>1, <3>1
    <3> QED
      BY <3>2 DEF ToSet
  <2>5. /\ Len(page) \in Nat /\ from + Len(page) <= Len(list) /\ Len(page) <= size
        /\ from + size <= Len(list) => Len(page) = size
    BY <1>2, <1>4, <2>1
  <2>6. ASSUME NEW i \in 1 .. (last - from)
        PROVE  from + i \in from + 1 .. from + size /\ from + i <= Len(list)
    BY <1>2, <1>4, <2>6
  <2>7. \A x \in ToSet(page) : \E n \in from + 1 .. from + size : n <= Len(list) /\ x = list[n]
    BY <2>1, <2>6 DEF ToSet
  <2> QED
    BY <1>3, <2>3, <2>4, <2>5, <2>7 DEF page
<1>5. CASE last < from + 1
  <2>1. Len(page) = 0 /\ DOMAIN page = {}
    BY <1>2, <1>3, <1>5
  <2>2. ToSet(page) = {}
    BY <2>1 DEF ToSet
  <2>3. \A n \in from + 1 .. from + size : ~(n <= Len(list))
    BY <1>2, <1>5
  <2>4. from <= Len(list) => from + Len(page) <= Len(list) /\ Len(page) <= size
    BY <1>2, <2>1
  <2>5. ~(from + size <= Len(list))
    BY <1>2, <1>5
  <2> QED
    BY <1>3, <2>1, <2>2, <2>3, <2>4, <2>5 DEF page
<1> QED
    BY <1>2, <1>4, <1>5

\* A list without repetition has as many rows as places.
LEMMA RowsCounted ==
    ASSUME NEW S, NEW list \in Seq(S), IsInjective(list)
    PROVE  IsFiniteSet(ToSet(list)) /\ Cardinality(ToSet(list)) = Len(list)
<1> DEFINE n == Len(list)
<1>1. n \in Nat /\ DOMAIN list = 1 .. n
    OBVIOUS
<1>2. ToSet(list) = {list[i] : i \in 1 .. n}
    BY <1>1 DEF ToSet
<1>3. list \in [1 .. n -> ToSet(list)]
    BY <1>1, <1>2
<1>4. list \in Bijection(1 .. n, ToSet(list))
    BY <1>1, <1>2, <1>3 DEF Bijection, Injection, Surjection, IsInjective
<1>5. ExistsBijection(1 .. n, ToSet(list))
    BY <1>4 DEF ExistsBijection
<1> HIDE DEF n
<1>6. IsFiniteSet(1 .. n) /\ Cardinality(1 .. n) = n
    BY <1>1, FS_Interval
<1> QED
    BY <1>5, <1>6, FS_Bijection, Zenon DEF n

\* A new row at either end, or a row less, leaves a list without repetition.
LEMMA ListChanges ==
    ASSUME NEW S, NEW list \in Seq(S), IsInjective(list)
    PROVE  /\ \A r \in S : r \notin ToSet(list) =>
                 /\ Append(list, r) \in Seq(S) /\ <<r>> \o list \in Seq(S)
                 /\ IsInjective(Append(list, r)) /\ IsInjective(<<r>> \o list)
           /\ \A n \in DOMAIN list : RemoveAt(list, n) \in Seq(S) /\ IsInjective(RemoveAt(list, n))
           /\ \A r : /\ ToSet(Append(list, r)) = ToSet(list) \cup {r}
                     /\ ToSet(<<r>> \o list) = ToSet(list) \cup {r}
<1> DEFINE n == Len(list)
<1>1. n \in Nat /\ DOMAIN list = 1 .. n /\ \A i, j \in 1 .. n : list[i] = list[j] => i = j
    BY DEF IsInjective
<1>2. \A r : /\ DOMAIN Append(list, r) = 1 .. n + 1
             /\ Append(list, r)[n + 1] = r
             /\ \A i \in 1 .. n : Append(list, r)[i] = list[i]
    OBVIOUS
<1>3. \A r : /\ DOMAIN (<<r>> \o list) = 1 .. n + 1
             /\ (<<r>> \o list)[1] = r
             /\ \A i \in 1 .. n : (<<r>> \o list)[i + 1] = list[i]
    OBVIOUS
<1>4. ASSUME NEW r
      PROVE  /\ ToSet(Append(list, r)) = ToSet(list) \cup {r}
             /\ ToSet(<<r>> \o list) = ToSet(list) \cup {r}
  <2>1. ToSet(Append(list, r)) = ToSet(list) \cup {r}
    <3>1. \A x : x \in ToSet(Append(list, r)) <=> x \in ToSet(list) \/ x = r
      BY <1>1, <1>2 DEF ToSet
    <3> QED
      BY <3>1
  <2>2. ToSet(<<r>> \o list) = ToSet(list) \cup {r}
    <3>1. \A i \in 2 .. n + 1 : i - 1 \in 1 .. n /\ (i - 1) + 1 = i
      BY <1>1
    <3>2. \A x : x \in ToSet(<<r>> \o list) => x \in ToSet(list) \/ x = r
      <4> SUFFICES ASSUME NEW i \in 1 .. n + 1
                   PROVE  (<<r>> \o list)[i] = r \/ (<<r>> \o list)[i] \in ToSet(list)
        BY <1>3 DEF ToSet
      <4>1. CASE i = 1
        BY <1>3, <4>1
      <4>2. CASE i # 1
        <5>1. i - 1 \in 1 .. n /\ (<<r>> \o list)[i] = list[i - 1]
          BY <1>1, <1>3, <3>1, <4>2
        <5> QED
          BY <1>1, <5>1 DEF ToSet
      <4> QED
        BY <4>1, <4>2
    <3>3. \A x : x \in ToSet(list) \/ x = r => x \in ToSet(<<r>> \o list)
      <4>1. \A i \in 1 .. n : i + 1 \in DOMAIN (<<r>> \o list)
        BY <1>1, <1>3
      <4>2. 1 \in DOMAIN (<<r>> \o list)
        BY <1>1, <1>3
      <4>3. \A i \in 1 .. n : list[i] \in ToSet(<<r>> \o list)
        BY <1>3, <4>1 DEF ToSet
      <4>4. r \in ToSet(<<r>> \o list)
        BY <1>3, <4>2 DEF ToSet
      <4> QED
        BY <1>1, <4>3, <4>4 DEF ToSet
    <3> QED
      BY <3>2, <3>3
  <2> QED
    BY <2>1, <2>2
<1>5. ASSUME NEW r \in S, r \notin ToSet(list)
      PROVE  /\ Append(list, r) \in Seq(S) /\ <<r>> \o list \in Seq(S)
             /\ IsInjective(Append(list, r)) /\ IsInjective(<<r>> \o list)
  <2>1. \A i \in 1 .. n : list[i] # r
    BY <1>1, <1>5 DEF ToSet
  <2>2. IsInjective(Append(list, r))
    BY <1>1, <1>2, <2>1 DEF IsInjective
  <2>3. IsInjective(<<r>> \o list)
    <3> DEFINE longer == <<r>> \o list
    <3>1. \A i \in 2 .. n + 1 : i - 1 \in 1 .. n /\ longer[i] = list[i - 1]
      <4>1. \A i \in 2 .. n + 1 : i - 1 \in 1 .. n /\ (i - 1) + 1 = i
        BY <1>1
      <4> QED
        BY <1>3, <4>1
    <3>2. longer[1] = r /\ DOMAIN longer = 1 .. n + 1
      BY <1>3
    <3> HIDE DEF longer
    <3>3. \A i, j \in 1 .. n + 1 : longer[i] = longer[j] => i = j
      BY <1>1, <2>1, <3>1, <3>2
    <3> QED
      BY <3>2, <3>3 DEF IsInjective, longer
  <2> QED
    BY <2>2, <2>3
<1>6. ASSUME NEW k \in DOMAIN list
      PROVE  RemoveAt(list, k) \in Seq(S) /\ IsInjective(RemoveAt(list, k))
  <2> DEFINE shorter == RemoveAt(list, k)
  <2>1. k \in 1 .. n /\ n \in Nat /\ \A i \in 1 .. n : list[i] \in S
    BY <1>1
  <2> DEFINE before == SubSeq(list, 1, k - 1)
             after == SubSeq(list, k + 1, n)
  <2>2. /\ before \in Seq(S) /\ Len(before) = k - 1
        /\ \A i \in 1 .. k - 1 : before[i] = list[i]
    <3>1. \A i \in 1 .. k - 1 : list[i] \in S
      BY <2>1
    <3>2. 1 \in Int /\ k - 1 \in Int
      BY <2>1
    <3>3. /\ before \in Seq(S)
          /\ Len(before) = IF 1 <= k - 1 THEN (k - 1) - 1 + 1 ELSE 0
          /\ \A i \in 1 .. (k - 1) - 1 + 1 : before[i] = list[1 + i - 1]
      BY <3>1, <3>2, SubSeqProperties
    <3> HIDE DEF before
    <3> QED
      BY <2>1, <3>3
  <2>3. /\ after \in Seq(S) /\ Len(after) = n - k
        /\ \A i \in 1 .. n - k : after[i] = list[k + i]
    <3>1. \A i \in k + 1 .. n : list[i] \in S
      BY <2>1
    <3>2. k + 1 \in Int /\ n \in Int
      BY <2>1
    <3>3. /\ after \in Seq(S)
          /\ Len(after) = IF k + 1 <= n THEN n - (k + 1) + 1 ELSE 0
          /\ \A i \in 1 .. n - (k + 1) + 1 : after[i] = list[k + 1 + i - 1]
      <4> HIDE DEF n
      <4> QED
        BY <3>1, <3>2, SubSeqProperties
    <3> HIDE DEF after, n
    <3> QED
      BY <2>1, <3>3
  <2>4. shorter = before \o after
    BY DEF RemoveAt
  <2> HIDE DEF shorter, before, after, n
  <2>8. /\ before \o after \in Seq(S) /\ Len(before \o after) = Len(before) + Len(after)
        /\ \A i \in 1 .. Len(before) + Len(after) :
              (before \o after)[i] = IF i <= Len(before) THEN before[i] ELSE after[i - Len(before)]
    BY <2>2, <2>3, ConcatProperties
  <2>5. /\ shorter \in Seq(S) /\ Len(shorter) = (k - 1) + (n - k)
        /\ \A i \in 1 .. (k - 1) + (n - k) :
              shorter[i] = IF i <= k - 1 THEN before[i] ELSE after[i - (k - 1)]
    BY <2>2, <2>3, <2>4, <2>8
  <2>6. /\ DOMAIN shorter = 1 .. n - 1
        /\ \A i \in 1 .. n - 1 : shorter[i] = IF i < k THEN list[i] ELSE list[i + 1]
    <3>1. Len(shorter) = n - 1 /\ shorter \in Seq(S) /\ n \in Nat
      BY <2>1, <2>5
    <3>2. DOMAIN shorter = 1 .. n - 1
      BY <3>1, LenProperties
    <3>3. \A i \in 1 .. n - 1 : shorter[i] = IF i < k THEN list[i] ELSE list[i + 1]
      <4> SUFFICES ASSUME NEW i \in 1 .. n - 1
                   PROVE  shorter[i] = IF i < k THEN list[i] ELSE list[i + 1]
        OBVIOUS
      <4>1. shorter[i] = IF i <= k - 1 THEN before[i] ELSE after[i - (k - 1)]
        BY <2>1, <2>5
      <4>2. CASE i < k
        BY <2>1, <2>2, <4>1, <4>2
      <4>3. CASE ~(i < k)
        <5>1. i - (k - 1) \in 1 .. n - k /\ k + (i - (k - 1)) = i + 1
          BY <2>1, <4>3
        <5> QED
          BY <2>1, <2>3, <4>1, <4>3, <5>1
      <4> QED
        BY <4>2, <4>3
    <3> QED
      BY <3>2, <3>3
  <2>7. IsInjective(shorter)
    BY <1>1, <2>1, <2>6 DEF IsInjective
  <2> QED
    BY <2>5, <2>7 DEF shorter
<1> QED
    BY <1>4, <1>5, <1>6

-----------------------------------------------------------------------------
(* A source that is recorded as complete. *)

Reading == phase \in {"review", "store"}

\* Where the sync is, and what it has left from the places before.
PlaceInv ==
    /\ phase # "store" => pending = {}
    /\ phase = "review" => pages < MaxPages /\ Cardinality(cursors) <= pages
    /\ phase = "store" => Cardinality(cursors) < pages
    /\ phase \in {"idle", "discover"} =>
          /\ cursor = 0 /\ cursors = {} /\ pages = 0 /\ seen = {} /\ total = None
          /\ taken = <<>>
    /\ phase = "record" /\ run = "completed" => todo = {}
    /\ atStart \subseteq Reviews

\* What was taken is not waiting, and comes again only from the product that
\* is being read, where it is seen already.
TakenInv ==
    /\ taken \in Seq(Reviews) /\ IsInjective(taken)
    /\ \A r \in ToSet(taken) : r \notin pending
    /\ Reading => \A r \in ToSet(taken) :
          ItemOf[r] \in todo => ItemOf[r] = Item /\ r \in seen
    /\ Reading /\ todo # {} => seen \subseteq About(Item)

\* Every wanted review that was seen is stored or about to be.
StoredInv == Reading /\ todo # {} => seen \cap Wanted \subseteq stored \cup pending

\* The largest total counts a list, which the rows seen so far belong to and
\* which has what the product showed at the start.
CountsList(i, rows, n, start) ==
    \E L \in SUBSET ToSet(listing[i]) :
        rows \subseteq L /\ Cardinality(L) = n /\ start \cap About(i) \subseteq L

ReadInv == ~deleted /\ Reading /\ todo # {} =>
    /\ seen \subseteq ToSet(listing[Item])
    /\ total # None => CountsList(Item, seen, total, atStart)

\* Unless something was removed, what was shown is shown.
StartInv == ~deleted => \A r \in atStart : r \in ToSet(listing[ItemOf[r]])

\* A product that matched misses nothing.
MatchedInv == ~deleted => \A i \in DOMAIN manifest.items :
    manifest.items[i] = "matched" => atStart \cap About(i) \subseteq stored

\* The shelves before this one, and the pages before this one, were found.
FoundHere ==
    /\ \A s \in 1 .. shelf - 1 : ToSet(Lists[s]) \subseteq todo
    /\ offset <= Len(Lists[shelf])
    /\ \A n \in 1 .. offset : Lists[shelf][n] \in todo

\* A discovery that was whole found all the products.
FoundInv ==
    /\ phase = "discover" /\ whole /\ ~oddShelf => FoundHere
    /\ (Reading \/ phase = "record") /\ manifest.discovered /\ ~oddShelf =>
          Items \subseteq todo \cup DOMAIN manifest.items

SyncInv ==
    /\ TypeOK /\ ManifestInv /\ PlaceInv /\ TakenInv /\ StoredInv /\ ReadInv
    /\ StartInv /\ MatchedInv /\ FoundInv

-----------------------------------------------------------------------------
(* Types. *)

ItemResults == UNION {[S -> Results] : S \in SUBSET Items}

LEMMA NoResults == <<>> \in ItemResults /\ DOMAIN <<>> = {}
<1>1. <<>> = [i \in {} |-> "pending"]
    OBVIOUS
<1>2. [i \in {} |-> "pending"] \in [{} -> Results]
    OBVIOUS
<1>3. {} \in SUBSET Items
    OBVIOUS
<1> QED
    BY <1>1, <1>2, <1>3 DEF ItemResults

\* A result that is marked joins the others.
LEMMA MarkedResults ==
    ASSUME NEW items \in ItemResults, NEW i \in Items, NEW result \in Results
    PROVE  /\ Marked(items, i, result) \in ItemResults
           /\ DOMAIN Marked(items, i, result) = DOMAIN items \cup {i}
           /\ Marked(items, i, result)[i] = result
           /\ \A p \in DOMAIN items : p # i => Marked(items, i, result)[p] = items[p]
<1>1. PICK S \in SUBSET Items : items \in [S -> Results]
    BY DEF ItemResults
<1>2. S \cup {i} \in SUBSET Items /\ Marked(items, i, result) \in [S \cup {i} -> Results]
    BY <1>1 DEF Marked
<1> QED
    BY <1>1, <1>2 DEF ItemResults, Marked

\* Opening the next product matches nothing and drops nothing.
LEMMA OpenResults ==
    ASSUME NEW items \in ItemResults, NEW ids, ids \subseteq Items
    PROVE  /\ Open(items, ids) \in ItemResults
           /\ DOMAIN items \subseteq DOMAIN Open(items, ids)
           /\ \A p \in DOMAIN Open(items, ids) : Open(items, ids)[p] = "matched" =>
                 p \in DOMAIN items /\ items[p] = "matched"
<1>1. CASE ids = {}
    BY <1>1 DEF Open
<1>2. CASE ids # {}
  <2>1. First(ids) \in Items /\ "pending" \in Results /\ "pending" # "matched"
    BY <1>2, FirstIsOf DEF Results
  <2>2. Open(items, ids) = Marked(items, First(ids), "pending")
    BY <1>2 DEF Open
  <2>3. PICK i \in Items : i = First(ids)
    BY <2>1
  <2>4. /\ Open(items, ids) \in ItemResults
        /\ DOMAIN Open(items, ids) = DOMAIN items \cup {i}
        /\ Open(items, ids)[i] = "pending"
        /\ \A p \in DOMAIN items : p # i => Open(items, ids)[p] = items[p]
    BY <2>1, <2>2, <2>3, MarkedResults
  <2> QED
    BY <2>1, <2>4
<1> QED
    BY <1>1, <1>2

\* Both platforms list the products, each in at least one list.
LEMMA ListsShape ==
    ASSUME platform \in Platforms
    PROVE  /\ Len(Lists) \in Nat \ {0}
           /\ \A s \in 1 .. Len(Lists) : Lists[s] \in Seq(Items)
           /\ \A i \in Items : \E s \in 1 .. Len(Lists) : i \in ToSet(Lists[s])
<1>1. CASE platform = "shopee"
    BY <1>1, ProductsAssumption DEF Lists
<1>2. CASE platform # "shopee"
  <2>1. Lists = <<Catalogue>>
    BY <1>2 DEF Lists
  <2>2. Len(<<Catalogue>>) = 1 /\ <<Catalogue>>[1] = Catalogue
    OBVIOUS
  <2>3. 1 \in 1 .. 1 /\ \A s \in 1 .. 1 : s = 1
    OBVIOUS
  <2> QED
    BY <2>1, <2>2, <2>3, ProductsAssumption DEF Items
<1> QED
    BY <1>1, <1>2

LEMMA BeyondIsNat == Beyond \in Nat /\ Cardinality(Reviews) \in Nat
<1>1. Cardinality(Reviews) \in Nat
    BY ReviewsAssumption, FS_CardinalityType
<1> QED
    BY <1>1, PagingAssumption DEF Beyond

\* A product shows no more than there is.
LEMMA ShownIsFinite ==
    ASSUME ProviderOK, NEW i \in Items
    PROVE  /\ ToSet(listing[i]) \subseteq About(i) /\ ToSet(listing[i]) \subseteq Reviews
           /\ IsFiniteSet(ToSet(listing[i]))
           /\ Len(listing[i]) = Cardinality(ToSet(listing[i]))
           /\ Len(listing[i]) \in 0 .. Cardinality(Reviews)
<1>1. listing[i] \in Seq(About(i)) /\ IsInjective(listing[i])
    BY DEF ProviderOK
<1>2. ToSet(listing[i]) \subseteq About(i)
    BY <1>1 DEF ToSet
<1>3. About(i) \subseteq Reviews
    BY DEF About
<1>4. IsFiniteSet(ToSet(listing[i])) /\ Cardinality(ToSet(listing[i])) = Len(listing[i])
    BY <1>1, RowsCounted
<1>5. ToSet(listing[i]) \in SUBSET Reviews
    BY <1>2, <1>3
<1>6. Cardinality(ToSet(listing[i])) <= Cardinality(Reviews)
    BY <1>5, ReviewsAssumption, FS_Subset
<1>7. Len(listing[i]) \in Nat
    BY <1>1
<1> QED
    BY <1>2, <1>4, <1>5, <1>6, <1>7, BeyondIsNat

\* The rows of a page are reviews of the product, which it shows.
LEMMA RowsAreShown ==
    ASSUME ProviderOK, Item \in Items, NEW c \in Nat
    PROVE  ToSet(RowsAt(c)) \subseteq ToSet(listing[Item]) /\ Len(RowsAt(c)) \in Nat
<1>1. listing[Item] \in Seq(About(Item))
    BY DEF ProviderOK
<1>2. c * PageSize \in Nat /\ PageSize \in Nat \ {0}
    BY PagingAssumption
<1> QED
    BY <1>1, <1>2, PageRows DEF RowsAt

LEMMA FreshIsOK ==
    ASSUME FreshItem, pending' = {}, atStart' \subseteq Wanted, given' \subseteq Wanted
    PROVE  ItemOK'
<1>1. IsFiniteSet({}) /\ Cardinality({}) = 0
    BY FS_EmptySet
<1>2. NoAnswer \in [more : BOOLEAN, next : Nat \cup {None}]
    BY DEF NoAnswer
<1> QED
    BY <1>1, <1>2, BeyondIsNat, PagingAssumption DEF FreshItem, ItemOK

\* The page of products that was read, and what the connector makes of it.
LEMMA DiscoverPages ==
    ASSUME ProviderOK, ShelfOK, DiscoverPage
    PROVE  /\ phase = "discover"
           /\ UNCHANGED <<provider, market, discoverAll, itemPlace, pending, observed, run, durable>>
           /\ todo' = todo \cup ToSet(Page(Lists[shelf], offset, ItemPage))
           /\ todo' \subseteq Items
           /\ odd' \in 0 .. MaxOdd /\ (oddShelf' = oddShelf \/ oddShelf' = TRUE)
           /\ \/ \E complete \in BOOLEAN : ShelfEnds(complete)
                    /\ (complete /\ ~oddShelf' /\ offset <= Len(Lists[shelf]) =>
                           offset + ItemPage >= Len(Lists[shelf]))
              \/ \E next \in Nat : NextShelfPage(next)
                    /\ (~oddShelf' /\ offset <= Len(Lists[shelf]) =>
                           next <= Len(Lists[shelf]) /\ next <= offset + ItemPage)
<1> DEFINE list == Lists[shelf]
           ids == Page(list, offset, ItemPage)
<1>1. /\ list \in Seq(Items) /\ offset \in Nat /\ ItemPage \in Nat \ {0} /\ Len(list) \in Nat
  <2>1. list \in Seq(Items) /\ offset \in Nat
    BY ListsShape DEF ProviderOK, ShelfOK
  <2> HIDE DEF list
  <2> QED
    BY <2>1, PagingAssumption
<1>2. /\ ToSet(ids) \subseteq ToSet(list) /\ Len(ids) \in Nat
      /\ offset <= Len(list) =>
            /\ offset + Len(ids) <= Len(list) /\ Len(ids) <= ItemPage
            /\ offset + ItemPage <= Len(list) => Len(ids) = ItemPage
  <2> HIDE DEF list
  <2> QED
    BY <1>1, PageRows
<1>3. ToSet(list) \subseteq Items
  <2> HIDE DEF list
  <2> QED
    BY <1>1 DEF ToSet
<1>4. phase = "discover" /\ todo' = todo \cup ToSet(ids)
      /\ UNCHANGED <<provider, market, discoverAll, itemPlace, pending, observed, run, durable>>
    BY DEF DiscoverPage, Found
<1>5. todo' \subseteq Items
    BY <1>2, <1>3, <1>4 DEF ShelfOK
<1> DEFINE Ends(complete) == ShelfEnds(complete)
               /\ (complete /\ ~oddShelf' /\ offset <= Len(list) => offset + ItemPage >= Len(list))
           Goes(next) == NextShelfPage(next)
               /\ (~oddShelf' /\ offset <= Len(list) => next <= Len(list) /\ next <= offset + ItemPage)
<1>6. CASE platform = "lazada" /\ LazadaShelfPage(ids) /\ UNCHANGED <<odd, oddShelf>>
  <2>1. \/ /\ ShelfEnds(TRUE)
           /\ Len(ids) < ItemPage \/ offset + Len(ids) >= Len(list)
        \/ /\ NextShelfPage(offset + Len(ids))
        \/ ShelfEnds(FALSE)
    BY <1>6 DEF LazadaShelfPage
  <2> HIDE DEF list, ids
  <2>2. (\E complete \in BOOLEAN : Ends(complete)) \/ (\E next \in Nat : Goes(next))
    <3>1. CASE ShelfEnds(TRUE) /\ (Len(ids) < ItemPage \/ offset + Len(ids) >= Len(list))
      <4>1. offset <= Len(list) => offset + ItemPage >= Len(list)
        BY <1>1, <1>2, <3>1
      <4> QED
        BY <3>1, <4>1
    <3>2. CASE NextShelfPage(offset + Len(ids))
      <4>1. offset + Len(ids) \in Nat
        BY <1>1, <1>2
      <4>2. offset <= Len(list) => offset + Len(ids) <= Len(list) /\ offset + Len(ids) <= offset + ItemPage
        BY <1>1, <1>2
      <4> QED
        BY <3>2, <4>1, <4>2
    <3>3. CASE ShelfEnds(FALSE)
      BY <3>3
    <3> QED
      BY <2>1, <3>1, <3>2, <3>3
  <2>3. odd' \in 0 .. MaxOdd /\ oddShelf' = oddShelf
    BY <1>6 DEF ProviderOK
  <2> QED
    BY <1>4, <1>5, <2>2, <2>3 DEF list, ids
<1>7. CASE ShopeeShelfPage(offset + ItemPage < Len(list), offset + ItemPage) /\ UNCHANGED <<odd, oddShelf>>
  <2>1. offset + ItemPage \in Nat /\ offset + ItemPage # None
    BY <1>1, PagingAssumption
  <2>2. \/ ShelfEnds(TRUE) /\ ~(offset + ItemPage < Len(list))
        \/ NextShelfPage(offset + ItemPage) /\ offset + ItemPage < Len(list)
        \/ ShelfEnds(FALSE)
    <3>1. CASE offset + ItemPage < Len(list)
      <4>1. (offset + ItemPage < Len(list)) = TRUE
        BY <3>1
      <4>2. ShopeeShelfPage(TRUE, offset + ItemPage)
        BY <1>7, <4>1
      <4> QED
        BY <2>1, <3>1, <4>2, PagingAssumption DEF ShopeeShelfPage
    <3>2. CASE ~(offset + ItemPage < Len(list))
      <4>1. (offset + ItemPage < Len(list)) = FALSE
        BY <3>2
      <4>2. ShopeeShelfPage(FALSE, offset + ItemPage)
        BY <1>7, <4>1
      <4> QED
        BY <3>2, <4>2 DEF ShopeeShelfPage
    <3> QED
      BY <3>1, <3>2
  <2>3. odd' \in 0 .. MaxOdd /\ oddShelf' = oddShelf
    BY <1>7 DEF ProviderOK
  <2> HIDE DEF list, ids
  <2>4. (\E complete \in BOOLEAN : Ends(complete)) \/ (\E next \in Nat : Goes(next))
    <3>1. CASE ShelfEnds(TRUE) /\ ~(offset + ItemPage < Len(list))
      <4>1. offset + ItemPage >= Len(list)
        BY <1>1, <3>1
      <4>2. Ends(TRUE)
        BY <3>1, <4>1
      <4> QED
        BY <4>2
    <3>2. CASE NextShelfPage(offset + ItemPage) /\ offset + ItemPage < Len(list)
      <4>1. offset + ItemPage <= Len(list) /\ offset + ItemPage <= offset + ItemPage
        BY <1>1, <3>2
      <4>2. Goes(offset + ItemPage)
        BY <3>2, <4>1
      <4> QED
        BY <2>1, <4>2
    <3>3. CASE ShelfEnds(FALSE)
      BY <3>3
    <3> QED
      BY <2>2, <3>1, <3>2, <3>3
  <2> QED
    BY <1>4, <1>5, <2>3, <2>4 DEF list, ids
<1>8. ASSUME odd < MaxOdd, odd' = odd + 1, oddShelf' = TRUE,
             NEW hasNext, NEW next \in {0, offset + ItemPage, None}, ShopeeShelfPage(hasNext, next)
      PROVE  /\ odd' \in 0 .. MaxOdd /\ oddShelf' = TRUE
             /\ (\E complete \in BOOLEAN : Ends(complete)) \/ (\E n \in Nat : Goes(n))
  <2>1. next # None => next \in Nat
    BY <1>1, <1>8
  <2>2. \/ \E complete \in BOOLEAN : ShelfEnds(complete)
        \/ next # None /\ NextShelfPage(next)
    BY <1>8 DEF ShopeeShelfPage
  <2>3. odd' \in 0 .. MaxOdd
    BY <1>8, SyncBoundsAssumption DEF ProviderOK
  <2> QED
    BY <1>8, <2>1, <2>2, <2>3
<1> QED
  <2>1. \/ platform = "lazada" /\ LazadaShelfPage(ids) /\ UNCHANGED <<odd, oddShelf>>
        \/ ShopeeShelfPage(offset + ItemPage < Len(list), offset + ItemPage) /\ UNCHANGED <<odd, oddShelf>>
        \/ /\ odd < MaxOdd /\ odd' = odd + 1 /\ oddShelf' = TRUE
           /\ \E hasNext : \E next \in {0, offset + ItemPage, None} : ShopeeShelfPage(hasNext, next)
    BY DEF DiscoverPage
  <2> QED
    BY <1>4, <1>5, <1>6, <1>7, <1>8, <2>1

\* What a page of reviews tells of the product that is read.
LEMMA ReceivedPage ==
    ASSUME ProviderOK, ShelfOK, ItemOK, todo # {},
           NEW more, NEW next \in Nat \cup {None}, Receive(more, next)
    PROVE  /\ Item \in todo /\ Item \in Items
           /\ phase' = "store" /\ pages' = pages + 1
           /\ UNCHANGED <<provider, market, oddShelf, discoverAll, shelfPlace, todo, cursor,
                          cursors, taken, atStart, manifest, run, durable>>
           /\ given' = given \cup pending'
           /\ \E rows \in SUBSET ToSet(listing[Item]) :
                 seen' = seen \cup rows /\ pending' = (rows \ seen) \cap Wanted
           /\ seen' \subseteq Reviews
           /\ \/ total' = None
              \/ total' = Len(listing[Item])
              \/ total' = total /\ Len(listing[Item]) <= total
           /\ total' \in 0 .. Cardinality(Reviews) \cup {None}
           /\ answer' \in [more : BOOLEAN, next : Nat \cup {None}]
<1>1. Item \in todo /\ Item \in Items
    BY FirstIsOf DEF ShelfOK, Item
<1>2. cursor \in Nat
    BY BeyondIsNat DEF ItemOK
<1>3. ToSet(RowsAt(cursor)) \in SUBSET ToSet(listing[Item])
    BY <1>1, <1>2, RowsAreShown
<1>4. ToSet(listing[Item]) \subseteq Reviews /\ Len(listing[Item]) \in 0 .. Cardinality(Reviews)
    BY <1>1, ShownIsFinite
<1>5. seen' = seen \cup ToSet(RowsAt(cursor))
      /\ pending' = (ToSet(RowsAt(cursor)) \ seen) \cap Wanted
    BY DEF Receive, Unseen
<1>6. seen' \subseteq Reviews
    BY <1>3, <1>4, <1>5 DEF ItemOK
<1>7. /\ \/ total' = None
         \/ total' = Len(listing[Item])
         \/ total' = total /\ Len(listing[Item]) <= total
      /\ total' \in 0 .. Cardinality(Reviews) \cup {None}
  <2>1. total' = LargestTotal
    BY DEF Receive
  <2>2. CASE ~totals
    BY <2>1, <2>2 DEF LargestTotal
  <2>3. CASE totals /\ (total = None \/ Len(listing[Item]) > total)
    BY <1>4, <2>1, <2>3 DEF LargestTotal
  <2>4. CASE totals /\ ~(total = None \/ Len(listing[Item]) > total)
    <3>1. total' = total /\ total \in 0 .. Cardinality(Reviews) /\ ~(Len(listing[Item]) > total)
      BY <2>1, <2>4 DEF LargestTotal, ItemOK
    <3> QED
      BY <1>4, <3>1, BeyondIsNat
  <2> QED
    BY <2>2, <2>3, <2>4
<1>8. answer' \in [more : BOOLEAN, next : Nat \cup {None}]
  <2>1. answer' = [more |-> MoreToCome(more, RowsAt(cursor)), next |-> next]
    BY DEF Receive
  <2>2. MoreToCome(more, RowsAt(cursor)) \in BOOLEAN
    <3>1. /\ (more = TRUE) \in BOOLEAN /\ (Cardinality(seen') < total') \in BOOLEAN
          /\ (Len(RowsAt(cursor)) >= PageSize) \in BOOLEAN
      OBVIOUS
    <3> QED
      BY <3>1, Zenon DEF MoreToCome
  <2> QED
    BY <2>1, <2>2
<1> QED
    BY <1>1, <1>3, <1>5, <1>6, <1>7, <1>8 DEF Receive, Counted

LEMMA HonestAndOdd ==
    ASSUME RequestPage, ItemOK, ProviderOK
    PROVE  /\ phase = "review" /\ todo # {} /\ odd' \in 0 .. MaxOdd
           /\ \E more, next : next \in Nat \cup {None} /\ Receive(more, next)
<1>1. cursor + 1 \in Nat
    BY BeyondIsNat DEF ItemOK
<1>2. 0 .. Beyond \subseteq Nat
    BY BeyondIsNat
<1> QED
    BY <1>1, <1>2, SyncBoundsAssumption DEF RequestPage, ProviderOK

LEMMA ProviderStep ==
    ASSUME TypeOK, [Next]_vars
    PROVE  ProviderOK'
<1> USE DEF provider, market
<1>1. ProviderOK
    BY DEF TypeOK
<1>2. CASE UNCHANGED <<provider, market, odd, oddShelf>>
    BY <1>1, <1>2 DEF ProviderOK
<1>3. CASE UNCHANGED <<provider, listing, changes, odd>> /\ deleted' = FALSE /\ oddShelf' = FALSE
    BY <1>1, <1>3 DEF ProviderOK
<1>4. CASE UNCHANGED <<provider, market, oddShelf>> /\ odd' \in 0 .. MaxOdd
    BY <1>1, <1>4 DEF ProviderOK
<1>5. CASE DiscoverPage
    BY <1>1, <1>5, DiscoverPages DEF ProviderOK, TypeOK
<1>6. CASE RequestPage
  <2>1. odd' \in 0 .. MaxOdd /\ UNCHANGED <<provider, market, oddShelf>>
    BY <1>1, <1>6, HonestAndOdd DEF TypeOK, Receive
  <2> QED
    BY <1>4, <2>1
<1>7. CASE AddReview
  <2>1. PICK r \in Reviews \ Shown :
           /\ changes < MaxChanges /\ changes' = changes + 1
           /\ listing' = [listing EXCEPT ![ItemOf[r]] =
                             IF newestFirst THEN <<r>> \o @ ELSE Append(@, r)]
           /\ UNCHANGED <<provider, deleted, odd, oddShelf>>
    BY <1>7 DEF AddReview
  <2> DEFINE i == ItemOf[r]
  <2>2. i \in Items /\ r \in About(i)
    BY ReviewsAssumption DEF About
  <2>3. listing[i] \in Seq(About(i)) /\ IsInjective(listing[i]) /\ r \notin ToSet(listing[i])
    BY <1>1, <2>1, <2>2 DEF ProviderOK, Shown
  <2>4. /\ Append(listing[i], r) \in Seq(About(i)) /\ IsInjective(Append(listing[i], r))
        /\ <<r>> \o listing[i] \in Seq(About(i)) /\ IsInjective(<<r>> \o listing[i])
    BY <2>2, <2>3, ListChanges
  <2>5. \/ listing' = [listing EXCEPT ![i] = <<r>> \o listing[i]]
        \/ listing' = [listing EXCEPT ![i] = Append(listing[i], r)]
    BY <1>1, <2>1, <2>2 DEF ProviderOK
  <2> HIDE DEF i
  <2>6. DOMAIN listing' = Items
        /\ \A p \in Items : listing'[p] \in Seq(About(p)) /\ IsInjective(listing'[p])
    BY <1>1, <2>2, <2>4, <2>5 DEF ProviderOK
  <2>7. changes' \in 0 .. MaxChanges
    BY <1>1, <2>1, SyncBoundsAssumption DEF ProviderOK
  <2> QED
    BY <1>1, <2>1, <2>6, <2>7 DEF ProviderOK
<1>8. CASE RemoveReview
  <2>9. PICK i \in Items : \E n \in DOMAIN listing[i] :
           /\ changes < MaxChanges /\ changes' = changes + 1 /\ deleted' = TRUE
           /\ listing' = [listing EXCEPT ![i] = RemoveAt(@, n)]
           /\ UNCHANGED <<provider, odd, oddShelf>>
    BY <1>8 DEF RemoveReview
  <2>1. PICK n \in DOMAIN listing[i] :
           /\ changes < MaxChanges /\ changes' = changes + 1 /\ deleted' = TRUE
           /\ listing' = [listing EXCEPT ![i] = RemoveAt(@, n)]
           /\ UNCHANGED <<provider, odd, oddShelf>>
    BY <2>9
  <2>2. listing[i] \in Seq(About(i)) /\ IsInjective(listing[i])
    BY <1>1 DEF ProviderOK
  <2>3. RemoveAt(listing[i], n) \in Seq(About(i)) /\ IsInjective(RemoveAt(listing[i], n))
    BY <2>2, ListChanges
  <2>4. listing' = [listing EXCEPT ![i] = RemoveAt(listing[i], n)]
    BY <2>1
  <2>5. DOMAIN listing' = Items
        /\ \A p \in Items : listing'[p] \in Seq(About(p)) /\ IsInjective(listing'[p])
    BY <1>1, <2>3, <2>4 DEF ProviderOK
  <2>6. changes' \in 0 .. MaxChanges
    BY <1>1, <2>1, SyncBoundsAssumption DEF ProviderOK
  <2> QED
    BY <1>1, <2>1, <2>5, <2>6 DEF ProviderOK
<1>9. ASSUME NEW all, NEW ids, Begin(all, ids) PROVE ProviderOK'
  <2>1. UNCHANGED <<provider, listing, changes, odd>> /\ deleted' = FALSE /\ oddShelf' = FALSE
    BY <1>9 DEF Begin
  <2> QED
    BY <1>3, <2>1
<1>10. CASE RecordCheckpoint \/ Cut
  <2>1. UNCHANGED <<provider, listing, changes, odd>> /\ deleted' = FALSE /\ oddShelf' = FALSE
    BY <1>10 DEF RecordCheckpoint, Cut, Forget
  <2> QED
    BY <1>3, <2>1
<1>11. CASE BeginBusy \/ RequestFails \/ StoreReview \/ StoreFails \/ TurnPage
            \/ CollectionEnds \/ UNCHANGED vars
  <2>1. UNCHANGED <<provider, market, odd, oddShelf>>
    BY <1>11 DEF BeginBusy, RequestFails, StoreReview, StoreFails, CollectionFails, TurnPage,
                 CollectionEnds, vars
  <2> QED
    BY <1>2, <2>1
<1> QED
    BY <1>5, <1>6, <1>7, <1>8, <1>9, <1>10, <1>11 DEF Next, SyncStep

LEMMA ShelfStep ==
    ASSUME TypeOK, [Next]_vars
    PROVE  ShelfOK'
<1> USE DEF provider, shelfPlace
<1>1. ShelfOK /\ ProviderOK
    BY DEF TypeOK
<1>2. ASSUME UNCHANGED platform PROVE Lists' = Lists
    BY <1>2 DEF Lists
<1>3. Len(Lists) \in Nat \ {0}
    BY <1>1, ListsShape DEF ProviderOK
<1>4. UNCHANGED <<platform, discoverAll, shelfPlace, todo>>
      /\ phase' \in {"idle", "discover", "review", "store", "record"} => ShelfOK'
    BY <1>1, <1>2 DEF ShelfOK
<1>5. ASSUME UNCHANGED platform, discoverAll' \in BOOLEAN, todo' \subseteq Items,
             phase' \in {"idle", "discover", "review", "store", "record"},
             shelf' = 1, offset' = 0, offsets' = {}, whole' = TRUE
      PROVE  ShelfOK'
  <2>1. 1 \in 1 .. Len(Lists) /\ IsFiniteSet({})
    BY <1>3, FS_EmptySet
  <2> QED
    BY <1>2, <1>5, <2>1 DEF ShelfOK
<1>6. CASE DiscoverPage
  <2>1. /\ UNCHANGED <<provider, discoverAll>> /\ todo' \subseteq Items
        /\ \/ \E complete \in BOOLEAN : ShelfEnds(complete)
           \/ \E next \in Nat : NextShelfPage(next)
    BY <1>1, <1>6, DiscoverPages
  <2>2. Lists' = Lists
    BY <1>2, <2>1
  <2>3. ASSUME NEW complete \in BOOLEAN, ShelfEnds(complete) PROVE ShelfOK'
    <3>1. whole' \in BOOLEAN /\ offset' = 0 /\ offsets' = {}
      BY <1>1, <2>3 DEF ShelfEnds, ShelfOK
    <3>2. (shelf' = shelf + 1 /\ shelf < Len(Lists) /\ phase' = phase) \/ (shelf' = 1 /\ phase' = "review")
      BY <2>3 DEF ShelfEnds
    <3>3. shelf' \in 1 .. Len(Lists)
      BY <1>1, <1>3, <3>2 DEF ShelfOK
    <3> QED
      BY <1>1, <2>1, <2>2, <3>1, <3>2, <3>3, FS_EmptySet DEF ShelfOK
  <2>4. ASSUME NEW next \in Nat, NextShelfPage(next) PROVE ShelfOK'
    <3>1. IsFiniteSet(offsets \cup {next})
      BY <1>1, FS_AddElement DEF ShelfOK
    <3> QED
      BY <1>1, <2>1, <2>2, <2>4, <3>1 DEF ShelfOK, NextShelfPage
  <2> QED
    BY <2>1, <2>3, <2>4
<1>7. ASSUME NEW all \in BOOLEAN, NEW ids \in SUBSET Items, Begin(all, ids) PROVE ShelfOK'
  <2>1. /\ UNCHANGED platform /\ discoverAll' = all /\ todo' = ids
        /\ phase' = IF all THEN "discover" ELSE "review"
        /\ shelf' = 1 /\ offset' = 0 /\ offsets' = {} /\ whole' = TRUE
    BY <1>7 DEF Begin
  <2> QED
    BY <1>5, <2>1
<1>8. CASE RecordCheckpoint \/ Cut
  <2>1. /\ UNCHANGED platform /\ discoverAll' = FALSE /\ todo' = {} /\ phase' = "idle"
        /\ shelf' = 1 /\ offset' = 0 /\ offsets' = {} /\ whole' = TRUE
    BY <1>8 DEF RecordCheckpoint, Cut, Forget
  <2> QED
    BY <1>5, <2>1
<1>9. CASE BeginBusy
  <2>1. UNCHANGED <<platform, shelfPlace, todo>> /\ discoverAll' = TRUE /\ phase' = "record"
    BY <1>9 DEF BeginBusy
  <2> QED
    BY <1>1, <1>2, <2>1 DEF ShelfOK
<1>10. CASE RequestFails \/ StoreFails \/ CollectionEnds
  <2>1. UNCHANGED <<platform, discoverAll, shelfPlace, todo>> /\ phase' = "record"
    BY <1>10 DEF RequestFails, StoreFails, CollectionFails, CollectionEnds
  <2> QED
    BY <1>4, <2>1
<1>11. CASE RequestPage
  <2>1. UNCHANGED <<platform, discoverAll, shelfPlace, todo>> /\ phase' = "store"
    BY <1>11 DEF RequestPage, Receive
  <2> QED
    BY <1>4, <2>1
<1>12. CASE TurnPage
  <2>1. UNCHANGED <<platform, discoverAll, shelfPlace>> /\ phase' = "review"
        /\ (todo' = todo \ {Item} \/ todo' = todo)
    BY <1>12 DEF TurnPage, FinishItem
  <2> QED
    BY <1>1, <1>2, <2>1 DEF ShelfOK
<1>13. CASE StoreReview \/ AddReview \/ RemoveReview \/ UNCHANGED vars
  <2>1. UNCHANGED <<platform, discoverAll, shelfPlace, todo, phase>>
    BY <1>13 DEF StoreReview, AddReview, RemoveReview, vars
  <2> QED
    BY <1>1, <1>4, <2>1 DEF ShelfOK
<1> QED
    BY <1>6, <1>7, <1>8, <1>9, <1>10, <1>11, <1>12, <1>13,
       CallsAssumption DEF Next, SyncStep

\* The place in the reviews of a product, and what it implies.
LEMMA PlaceStep ==
    ASSUME TypeOK, PlaceInv, [Next]_vars
    PROVE  ItemOK' /\ PlaceInv'
<1> USE DEF shelfPlace, itemPlace, observed
<1>1. ItemOK /\ ShelfOK /\ ProviderOK
    BY DEF TypeOK
<1>2. Shown \subseteq Reviews
    BY <1>1, ShownIsFinite DEF Shown
<1>3. IsFiniteSet({}) /\ Cardinality({}) = 0 /\ MaxPages \in Nat \ {0}
    BY FS_EmptySet, PagingAssumption
<1>4. CASE DiscoverPage
  <2>1. phase = "discover" /\ UNCHANGED <<itemPlace, pending, observed, run>>
        /\ (phase' = "discover" \/ phase' = "review")
    BY <1>1, <1>4, DiscoverPages DEF ShelfEnds, NextShelfPage
  <2>2. ItemOK'
    BY <1>1, <2>1 DEF ItemOK
  <2>3. PlaceInv'
    <3>1. cursor = 0 /\ cursors = {} /\ pages = 0 /\ seen = {} /\ total = None /\ taken = <<>>
          /\ pending = {} /\ atStart \subseteq Reviews
      BY <2>1 DEF PlaceInv
    <3>2. pages < MaxPages /\ Cardinality(cursors) <= pages
      BY <1>3, <3>1
    <3> QED
      BY <2>1, <3>1, <3>2 DEF PlaceInv
  <2> QED
    BY <2>2, <2>3
<1>5. CASE RequestPage
  <2>1. PICK more, next : next \in Nat \cup {None} /\ Receive(more, next)
    BY <1>1, <1>5, HonestAndOdd
  <2>2. phase = "review" /\ todo # {}
    BY <1>5 DEF RequestPage
  <2>3. /\ phase' = "store" /\ pages' = pages + 1 /\ UNCHANGED <<cursor, cursors, taken, atStart, run>>
        /\ given' = given \cup pending'
        /\ pending' \subseteq Wanted \cap seen' /\ seen' \subseteq Reviews
        /\ total' \in 0 .. Cardinality(Reviews) \cup {None}
        /\ answer' \in [more : BOOLEAN, next : Nat \cup {None}]
    BY <1>1, <2>1, <2>2, ReceivedPage
  <2>4. pages \in 0 .. MaxPages /\ pages < MaxPages /\ Cardinality(cursors) <= pages
    BY <1>1, <2>2 DEF PlaceInv, ItemOK
  <2>5. Cardinality(cursors) \in Nat /\ IsFiniteSet(cursors)
    BY <1>1, FS_CardinalityType DEF ItemOK
  <2>6. pages' \in 0 .. MaxPages /\ Cardinality(cursors) < pages'
    BY <1>3, <2>3, <2>4, <2>5
  <2>7. ItemOK'
    BY <1>1, <2>3, <2>6 DEF ItemOK
  <2>8. PlaceInv'
    BY <2>3, <2>6 DEF PlaceInv
  <2> QED
    BY <2>7, <2>8
<1>6. CASE RequestFails \/ StoreFails
  <2>1. phase' = "record" /\ run' # "completed" /\ pending' = {} /\ UNCHANGED <<itemPlace, observed>>
    BY <1>6 DEF RequestFails, StoreFails, CollectionFails, Closes
  <2> QED
    BY <1>1, <2>1 DEF ItemOK, PlaceInv
<1>7. CASE StoreReview
  <2>1. phase = "store" /\ phase' = "store" /\ UNCHANGED <<itemPlace, atStart, given>> /\ pending' \subseteq pending
    BY <1>7 DEF StoreReview
  <2> QED
    BY <1>1, <2>1 DEF ItemOK, PlaceInv
<1>8. CASE TurnPage
  <2>1. phase = "store" /\ pending = {} /\ UNCHANGED <<pending, observed, run>>
    BY <1>8 DEF TurnPage
  <2>2. ASSUME NEW complete, FinishItem(complete) PROVE ItemOK' /\ PlaceInv'
    <3>1. FreshItem /\ phase' = "review"
      BY <2>2 DEF FinishItem
    <3>2. ItemOK'
      BY <1>1, <2>1, <3>1, FreshIsOK DEF ItemOK
    <3>3. PlaceInv'
      BY <1>3, <2>1, <3>1 DEF PlaceInv, FreshItem
    <3> QED
      BY <3>2, <3>3
  <2>3. CASE /\ answer.more /\ Moves(NextPage) /\ PagesLeft
             /\ cursor' = IF NextPage < Beyond THEN NextPage ELSE Beyond
             /\ cursors' = cursors \cup {NextPage}
             /\ answer' = NoAnswer /\ phase' = "review"
             /\ UNCHANGED <<pages, seen, total, todo, manifest>>
    <3>1. NextPage \in Nat
      BY <1>1, <2>3, BeyondIsNat DEF ItemOK, NextPage, Moves
    <3>2. cursor' \in 0 .. Beyond
      BY <2>3, <3>1, BeyondIsNat
    <3>3. IsFiniteSet(cursors) /\ Cardinality(cursors) \in Nat
      BY <1>1, FS_CardinalityType DEF ItemOK
    <3>4. IsFiniteSet(cursors') /\ Cardinality(cursors') <= Cardinality(cursors) + 1
          /\ Cardinality(cursors') \in Nat
      BY <2>3, <3>3, FS_AddElement
    <3>5. pages \in 0 .. MaxPages /\ pages < MaxPages /\ Cardinality(cursors) < pages
      BY <1>1, <2>1, <2>3 DEF PlaceInv, ItemOK, PagesLeft
    <3>6. Cardinality(cursors') <= pages /\ Cardinality(cursors') < MaxPages
      BY <1>3, <3>3, <3>4, <3>5
    <3>7. answer' \in [more : BOOLEAN, next : Nat \cup {None}]
      BY <2>3 DEF NoAnswer
    <3>8. ItemOK'
      BY <1>1, <2>1, <2>3, <3>2, <3>4, <3>6, <3>7 DEF ItemOK
    <3>9. PlaceInv'
      BY <2>1, <2>3, <3>5, <3>6 DEF PlaceInv
    <3> QED
      BY <3>8, <3>9
  <2> QED
    BY <1>8, <2>2, <2>3 DEF TurnPage
<1>9. CASE CollectionEnds
  <2>1. phase = "review" /\ todo = {} /\ phase' = "record"
        /\ UNCHANGED <<itemPlace, pending, observed, todo>>
    BY <1>9 DEF CollectionEnds
  <2> QED
    BY <1>1, <2>1 DEF ItemOK, PlaceInv
<1>10. CASE RecordCheckpoint \/ Cut
  <2>1. FreshItem /\ pending' = {} /\ taken' = <<>> /\ atStart' = {} /\ given' = {} /\ phase' = "idle"
    BY <1>10 DEF RecordCheckpoint, Cut, Forget
  <2>2. ItemOK'
    BY <2>1, FreshIsOK
  <2> QED
    BY <2>1, <2>2 DEF FreshItem, PlaceInv
<1>11. CASE BeginBusy
  <2>1. phase = "idle" /\ phase' = "record" /\ run' = "other" /\ UNCHANGED <<itemPlace, pending, observed>>
    BY <1>11 DEF BeginBusy
  <2> QED
    BY <1>1, <2>1 DEF ItemOK, PlaceInv
<1>12. ASSUME NEW all, NEW ids, Begin(all, ids) PROVE ItemOK' /\ PlaceInv'
  <2>1. /\ phase = "idle" /\ (phase' = "discover" \/ phase' = "review")
        /\ FreshItem /\ taken' = <<>> /\ atStart' = Shown \cap Wanted /\ pending' = pending
        /\ given' = {}
    BY <1>12 DEF Begin
  <2>2. pending' = {}
    BY <2>1 DEF PlaceInv
  <2>3. ItemOK'
    BY <2>1, <2>2, FreshIsOK
  <2>4. PlaceInv'
    BY <1>2, <1>3, <2>1, <2>2 DEF PlaceInv, FreshItem
  <2> QED
    BY <2>3, <2>4
<1>13. CASE AddReview \/ RemoveReview \/ UNCHANGED vars
  <2>1. UNCHANGED <<phase, run, todo, itemPlace, pending, observed>>
    BY <1>13 DEF AddReview, RemoveReview, vars
  <2> QED
    BY <1>1, <2>1 DEF ItemOK, PlaceInv
<1> QED
    BY <1>4, <1>5, <1>6, <1>7, <1>8, <1>9, <1>10, <1>11, <1>12, <1>13 DEF Next, SyncStep

LEMMA RecordStep ==
    ASSUME TypeOK, ManifestInv, [Next]_vars
    PROVE  RecordOK'
<1> USE DEF durable
<1>1. RecordOK /\ ShelfOK /\ ItemOK
    BY DEF TypeOK
<1>2. manifest.items \in ItemResults /\ manifest.discovered \in BOOLEAN
    BY <1>1 DEF RecordOK, ItemResults
<1>3. UNCHANGED <<manifest, run, durable>> => RecordOK'
    BY <1>1 DEF RecordOK
<1>4. ASSUME NEW found \in BOOLEAN, NEW items \in ItemResults,
             manifest' = [discovered |-> found, items |-> items],
             run' \in {"none", "running", "other", "completed", "partial", "failed"},
             stored' \subseteq Wanted, checkpoint' \in BOOLEAN \cup {None}, syncs' \in 0 .. MaxSyncs
      PROVE  RecordOK'
    BY <1>4 DEF RecordOK, ItemResults
<1>5. CASE DiscoverPage
  <2>1. /\ UNCHANGED <<run, durable>> /\ todo' \subseteq Items
        /\ \/ \E complete \in BOOLEAN : ShelfEnds(complete)
           \/ UNCHANGED manifest
    BY <1>1, <1>5, DiscoverPages DEF NextShelfPage, TypeOK
  <2>2. ASSUME NEW complete \in BOOLEAN, ShelfEnds(complete),
               manifest' = [discovered |-> whole', items |-> Open(<<>>, todo')]
        PROVE  RecordOK'
    <3>1. whole' \in BOOLEAN
      BY <1>1, <2>2 DEF ShelfEnds, ShelfOK
    <3>2. Open(<<>>, todo') \in ItemResults
      BY <2>1, NoResults, OpenResults
    <3> QED
      BY <1>1, <1>4, <2>1, <2>2, <3>1, <3>2 DEF RecordOK
  <2> QED
    BY <1>3, <2>1, <2>2 DEF ShelfEnds
<1>6. CASE RequestPage \/ AddReview \/ RemoveReview \/ UNCHANGED vars
  <2>1. UNCHANGED <<manifest, run, durable>>
    BY <1>6 DEF RequestPage, Receive, AddReview, RemoveReview, vars
  <2> QED
    BY <1>3, <2>1
<1>7. CASE RequestFails \/ StoreFails \/ CollectionEnds
  <2>1. UNCHANGED <<manifest, durable>> /\ run' \in {"completed", "partial", "failed", "running"}
    BY <1>7 DEF RequestFails, StoreFails, CollectionFails, CollectionEnds, Closes
  <2> QED
    BY <1>1, <2>1 DEF RecordOK
<1>8. CASE StoreReview
  <2>1. \E r \in pending : stored' = stored \cup {r} /\ UNCHANGED <<manifest, run, checkpoint, syncs>>
    BY <1>8 DEF StoreReview
  <2> QED
    BY <1>1, <2>1 DEF RecordOK, ItemOK
<1>9. CASE TurnPage
  <2>1. UNCHANGED <<run, durable>>
    BY <1>9 DEF TurnPage
  <2>2. ASSUME NEW complete, FinishItem(complete) PROVE RecordOK'
    <3>1. Item \in Items
      BY <1>1, <1>9, FirstIsOf DEF TurnPage, ManifestInv, OpenInv, Item, ShelfOK
    <3>2. Reconciliation(complete) \in Results
      BY DEF Reconciliation, Results
    <3>3. PICK marked \in ItemResults : marked = Marked(manifest.items, Item, Reconciliation(complete))
      BY <1>2, <3>1, <3>2, MarkedResults
    <3>4. Open(marked, todo \ {Item}) \in ItemResults
      BY <1>1, OpenResults DEF ShelfOK
    <3>5. manifest' = [discovered |-> manifest.discovered, items |-> Open(marked, todo \ {Item})]
      BY <2>2, <3>3 DEF FinishItem, ManifestInv, ShapeInv
    <3> QED
      BY <1>1, <1>2, <1>4, <2>1, <3>4, <3>5 DEF RecordOK
  <2> QED
    BY <1>3, <1>9, <2>1, <2>2 DEF TurnPage
<1>10. CASE RecordCheckpoint \/ Cut
  <2>1. /\ manifest' = [discovered |-> FALSE, items |-> <<>>] /\ run' = "none"
        /\ UNCHANGED <<stored, syncs>> /\ (checkpoint' = SourceComplete \/ UNCHANGED checkpoint)
    BY <1>10 DEF RecordCheckpoint, Cut, Forget, NoManifest
  <2>2. SourceComplete \in BOOLEAN
    BY DEF SourceComplete
  <2> QED
    BY <1>1, <1>4, <2>1, <2>2, NoResults DEF RecordOK
<1>11. CASE BeginBusy
  <2>1. /\ manifest' = [discovered |-> FALSE, items |-> <<>>] /\ run' = "other"
        /\ UNCHANGED <<stored, checkpoint>> /\ syncs' = syncs + 1 /\ syncs < MaxSyncs
    BY <1>11 DEF BeginBusy, NoManifest
  <2>2. syncs' \in 0 .. MaxSyncs
    BY <1>1, <2>1, SyncBoundsAssumption DEF RecordOK
  <2> QED
    BY <1>1, <1>4, <2>1, <2>2, NoResults DEF RecordOK
<1>12. ASSUME NEW all \in BOOLEAN, NEW ids \in SUBSET Items, Begin(all, ids) PROVE RecordOK'
  <2>1. /\ manifest' = [discovered |-> FALSE, items |-> IF all THEN <<>> ELSE Open(<<>>, ids)]
        /\ run' = "running"
        /\ UNCHANGED <<stored, checkpoint>> /\ syncs' = syncs + 1 /\ syncs < MaxSyncs
    BY <1>12 DEF Begin, NoManifest
  <2>2. syncs' \in 0 .. MaxSyncs
    BY <1>1, <2>1, SyncBoundsAssumption DEF RecordOK
  <2>3. Open(<<>>, ids) \in ItemResults
    BY NoResults, OpenResults
  <2>4. PICK items \in ItemResults : items = IF all THEN <<>> ELSE Open(<<>>, ids)
    BY <2>3, NoResults
  <2> QED
    BY <1>1, <1>4, <2>1, <2>2, <2>4 DEF RecordOK
<1> QED
    BY <1>5, <1>6, <1>7, <1>8, <1>9, <1>10, <1>11, <1>12, CallsAssumption DEF Next, SyncStep

-----------------------------------------------------------------------------
(* Steps of the other parts. *)

LEMMA EmptyList == <<>> \in Seq(Reviews) /\ ToSet(<<>>) = {} /\ IsInjective(<<>>)
<1>1. <<>> \in Seq(Reviews) /\ DOMAIN <<>> = {}
    OBVIOUS
<1> QED
    BY <1>1 DEF ToSet, IsInjective

\* A page is turned, or the product is finished and the next one is begun.
LEMMA TurnOrFinish ==
    ASSUME TurnPage, ManifestInv, TypeOK
    PROVE  /\ phase = "store" /\ pending = {} /\ todo # {} /\ Item \in todo /\ Item \in Items
           /\ phase' = "review"
           /\ UNCHANGED <<provider, market, odd, oddShelf, discoverAll, shelfPlace, pending,
                          observed, run, durable>>
           /\ \/ \E complete \in BOOLEAN : FinishItem(complete)
              \/ UNCHANGED <<seen, total, todo, manifest>>
<1>1. phase = "store" /\ todo # {}
    BY DEF TurnPage, ManifestInv, OpenInv
<1>2. Item \in todo /\ Item \in Items
    BY <1>1, FirstIsOf DEF Item, TypeOK, ShelfOK
<1> QED
    BY <1>1, <1>2 DEF TurnPage, FinishItem

LEMMA TakenStep ==
    ASSUME TypeOK, ManifestInv, PlaceInv, TakenInv, [Next]_vars
    PROVE  TakenInv'
<1> USE DEF Reading, shelfPlace, itemPlace, observed
<1>1. ItemOK /\ ShelfOK /\ ProviderOK
    BY DEF TypeOK
<1>2. CASE UNCHANGED <<phase, todo, seen, pending, taken>>
    BY <1>2 DEF TakenInv, Item
<1>3. CASE DiscoverPage
  <2>1. taken = <<>> /\ seen = {} /\ UNCHANGED <<taken, seen, pending>>
    BY <1>1, <1>3, DiscoverPages DEF PlaceInv
  <2> QED
    BY <2>1, EmptyList DEF TakenInv
<1>4. CASE RequestPage
  <2>1. PICK more, next : next \in Nat \cup {None} /\ Receive(more, next)
    BY <1>1, <1>4, HonestAndOdd
  <2>2. phase = "review" /\ todo # {}
    BY <1>4 DEF RequestPage
  <2>3. Item \in todo /\ Item \in Items /\ phase' = "store" /\ UNCHANGED <<todo, taken>>
    BY <1>1, <2>1, <2>2, ReceivedPage
  <2>4. PICK rows \in SUBSET ToSet(listing[Item]) :
           seen' = seen \cup rows /\ pending' = (rows \ seen) \cap Wanted
    BY <1>1, <2>1, <2>2, ReceivedPage
  <2>5. Item' = Item
    BY <2>3 DEF Item
  <2>6. rows \subseteq About(Item)
    BY <1>1, <2>3, ShownIsFinite
  <2>7. \A r \in ToSet(taken) : r \notin pending'
    BY <2>2, <2>3, <2>4, <2>6 DEF TakenInv, About
  <2>8. \A r \in ToSet(taken) : ItemOf[r] \in todo => ItemOf[r] = Item /\ r \in seen'
    BY <2>2, <2>4 DEF TakenInv
  <2>9. seen' \subseteq About(Item)
    BY <2>2, <2>4, <2>6 DEF TakenInv
  <2> QED
    BY <2>3, <2>5, <2>7, <2>8, <2>9 DEF TakenInv
<1>5. CASE RequestFails \/ StoreFails
  <2>1. phase' = "record" /\ pending' = {} /\ UNCHANGED taken
    BY <1>5 DEF RequestFails, StoreFails, CollectionFails
  <2> QED
    BY <2>1 DEF TakenInv
<1>6. CASE StoreReview
  <2>1. PICK r \in pending :
           /\ phase = "store" /\ taken' = Append(taken, r) /\ pending' = pending \ {r}
           /\ UNCHANGED <<phase, todo, seen>>
    BY <1>6 DEF StoreReview
  <2>2. r \in Reviews /\ r \notin ToSet(taken) /\ taken \in Seq(Reviews) /\ IsInjective(taken) /\ r \in seen
    BY <1>1, <2>1 DEF TakenInv, ItemOK
  <2>3. taken' \in Seq(Reviews) /\ IsInjective(taken') /\ ToSet(taken') = ToSet(taken) \cup {r}
    BY <2>1, <2>2, ListChanges
  <2>4. todo # {}
    BY <2>1 DEF ManifestInv, OpenInv
  <2>5. ItemOf[r] = Item /\ seen \subseteq About(Item)
    BY <2>1, <2>2, <2>4 DEF TakenInv, About
  <2>6. Item' = Item
    BY <2>1 DEF Item
  <2>7. \A q \in ToSet(taken') : q \notin pending'
    BY <2>1, <2>3 DEF TakenInv
  <2>8. \A q \in ToSet(taken') : ItemOf[q] \in todo => ItemOf[q] = Item /\ q \in seen
    BY <2>1, <2>2, <2>3, <2>5 DEF TakenInv
  <2> QED
    BY <2>1, <2>3, <2>5, <2>6, <2>7, <2>8 DEF TakenInv
<1>7. CASE TurnPage
  <2>1. phase = "store" /\ pending = {} /\ UNCHANGED <<pending, taken>> /\ todo # {}
    BY <1>7, TurnOrFinish
  <2>2. CASE UNCHANGED <<seen, todo>>
    BY <2>1, <2>2 DEF TakenInv, Item
  <2>3. CASE seen' = {} /\ todo' = todo \ {Item}
    BY <2>1, <2>3 DEF TakenInv
  <2> QED
    BY <1>7, <2>2, <2>3, TurnOrFinish DEF FinishItem, FreshItem
<1>8. CASE CollectionEnds \/ BeginBusy
  <2>1. phase' = "record" /\ UNCHANGED <<pending, taken>>
    BY <1>8 DEF CollectionEnds, BeginBusy
  <2> QED
    BY <2>1 DEF TakenInv
<1>9. CASE RecordCheckpoint \/ Cut
  <2>1. taken' = <<>> /\ seen' = {}
    BY <1>9 DEF RecordCheckpoint, Cut, Forget, FreshItem
  <2> QED
    BY <2>1, EmptyList DEF TakenInv
<1>10. ASSUME NEW all, NEW ids, Begin(all, ids) PROVE TakenInv'
  <2>1. taken' = <<>> /\ seen' = {}
    BY <1>10 DEF Begin, FreshItem
  <2> QED
    BY <2>1, EmptyList DEF TakenInv
<1>11. CASE AddReview \/ RemoveReview \/ UNCHANGED vars
  <2>1. UNCHANGED <<phase, todo, seen, pending, taken>>
    BY <1>11 DEF AddReview, RemoveReview, vars
  <2> QED
    BY <1>2, <2>1
<1> QED
    BY <1>3, <1>4, <1>5, <1>6, <1>7, <1>8, <1>9, <1>10, <1>11 DEF Next, SyncStep

LEMMA StoredStep ==
    ASSUME TypeOK, ManifestInv, PlaceInv, StoredInv, [Next]_vars
    PROVE  StoredInv'
<1> USE DEF Reading, shelfPlace, itemPlace, observed, durable
<1>1. ItemOK /\ ShelfOK /\ ProviderOK
    BY DEF TypeOK
<1>2. CASE UNCHANGED <<phase, todo, seen, pending, stored>>
    BY <1>2 DEF StoredInv
<1>3. CASE seen' = {}
    BY <1>3 DEF StoredInv
<1>4. CASE phase' = "record"
    BY <1>4 DEF StoredInv
<1>5. CASE DiscoverPage
  <2>1. seen' = {}
    BY <1>1, <1>5, DiscoverPages DEF PlaceInv
  <2> QED
    BY <1>3, <2>1
<1>6. CASE RequestPage
  <2>1. PICK more, next : next \in Nat \cup {None} /\ Receive(more, next)
    BY <1>1, <1>6, HonestAndOdd
  <2>2. phase = "review" /\ todo # {} /\ pending = {}
    BY <1>6 DEF RequestPage, PlaceInv
  <2>3. UNCHANGED stored /\ \E rows : seen' = seen \cup rows /\ pending' = (rows \ seen) \cap Wanted
    BY <1>1, <2>1, <2>2, ReceivedPage
  <2> QED
    BY <2>2, <2>3 DEF StoredInv
<1>7. CASE StoreReview
  <2>1. \E r \in pending :
           stored' = stored \cup {r} /\ pending' = pending \ {r} /\ UNCHANGED <<phase, todo, seen>>
    BY <1>7 DEF StoreReview
  <2> QED
    BY <2>1 DEF StoredInv
<1>8. CASE TurnPage
  <2>1. phase = "store" /\ UNCHANGED <<pending, stored>>
    BY <1>8, TurnOrFinish
  <2>2. CASE UNCHANGED <<seen, todo>>
    BY <2>1, <2>2 DEF StoredInv
  <2> QED
    BY <1>3, <1>8, <2>2, TurnOrFinish DEF FinishItem, FreshItem
<1>9. CASE RequestFails \/ StoreFails \/ CollectionEnds \/ BeginBusy
  <2>1. phase' = "record"
    BY <1>9 DEF RequestFails, StoreFails, CollectionFails, CollectionEnds, BeginBusy
  <2> QED
    BY <1>4, <2>1
<1>10. CASE RecordCheckpoint \/ Cut
    BY <1>3, <1>10 DEF RecordCheckpoint, Cut, Forget, FreshItem
<1>11. ASSUME NEW all, NEW ids, Begin(all, ids) PROVE StoredInv'
    BY <1>3, <1>11 DEF Begin, FreshItem
<1>12. CASE AddReview \/ RemoveReview \/ UNCHANGED vars
  <2>1. UNCHANGED <<phase, todo, seen, pending, stored>>
    BY <1>12 DEF AddReview, RemoveReview, vars
  <2> QED
    BY <1>2, <2>1
<1> QED
    BY <1>5, <1>6, <1>7, <1>8, <1>9, <1>10, <1>11, <1>12 DEF Next, SyncStep

\* An added review takes no other away.
LEMMA AddedReview ==
    ASSUME ProviderOK, AddReview
    PROVE  /\ \A i \in Items : ToSet(listing[i]) \subseteq ToSet(listing'[i])
           /\ UNCHANGED <<deleted, oddShelf, phase, todo, seen, total, atStart, manifest, stored>>
<1>1. PICK r \in Reviews \ Shown :
         listing' = [listing EXCEPT ![ItemOf[r]] = IF newestFirst THEN <<r>> \o @ ELSE Append(@, r)]
    BY DEF AddReview
<1> DEFINE i == ItemOf[r]
<1>2. i \in Items
    BY ReviewsAssumption
<1>3. listing[i] \in Seq(About(i)) /\ IsInjective(listing[i]) /\ DOMAIN listing = Items
    BY <1>2 DEF ProviderOK
<1>4. /\ ToSet(Append(listing[i], r)) = ToSet(listing[i]) \cup {r}
      /\ ToSet(<<r>> \o listing[i]) = ToSet(listing[i]) \cup {r}
    BY <1>3, ListChanges
<1>5. \/ listing' = [listing EXCEPT ![i] = <<r>> \o listing[i]]
      \/ listing' = [listing EXCEPT ![i] = Append(listing[i], r)]
    BY <1>1
<1> HIDE DEF i
<1>6. \A p \in Items : ToSet(listing[p]) \subseteq ToSet(listing'[p])
  <2> SUFFICES ASSUME NEW p \in Items PROVE ToSet(listing[p]) \subseteq ToSet(listing'[p])
    OBVIOUS
  <2>1. CASE p = i
    <3>1. listing'[p] = <<r>> \o listing[i] \/ listing'[p] = Append(listing[i], r)
      BY <1>2, <1>3, <1>5, <2>1
    <3> QED
      BY <1>4, <2>1, <3>1
  <2>2. CASE p # i
    <3>1. listing'[p] = listing[p]
      BY <1>3, <1>5, <2>2
    <3> QED
      BY <3>1
  <2> QED
    BY <2>1, <2>2
<1> QED
    BY <1>6 DEF AddReview, itemPlace, observed, durable

LEMMA StartStep ==
    ASSUME TypeOK, StartInv, PlaceInv, [Next]_vars
    PROVE  StartInv'
<1> USE DEF market, observed
<1>1. ProviderOK /\ ShelfOK
    BY DEF TypeOK
<1>2. CASE UNCHANGED <<deleted, atStart, listing>>
    BY <1>2 DEF StartInv
<1>3. CASE atStart' = {}
    BY <1>3 DEF StartInv
<1>4. ASSUME NEW all, NEW ids, Begin(all, ids) PROVE StartInv'
  <2>1. atStart' \subseteq Shown /\ listing' = listing
    BY <1>4 DEF Begin
  <2>2. \A r \in Shown : r \in ToSet(listing[ItemOf[r]])
    <3> SUFFICES ASSUME NEW i \in Items, NEW r \in ToSet(listing[i]) PROVE r \in ToSet(listing[ItemOf[r]])
      BY DEF Shown
    <3>1. r \in About(i)
      BY <1>1, ShownIsFinite
    <3> QED
      BY <3>1 DEF About
  <2> QED
    BY <2>1, <2>2 DEF StartInv
<1>5. CASE AddReview
  <2>1. \A r \in atStart : ItemOf[r] \in Items
    BY ReviewsAssumption DEF PlaceInv
  <2> QED
    BY <1>1, <1>5, <2>1, AddedReview DEF StartInv
<1>6. CASE RemoveReview
    BY <1>6 DEF RemoveReview, StartInv
<1>7. CASE DiscoverPage
    BY <1>1, <1>2, <1>7, DiscoverPages
<1>8. CASE RecordCheckpoint \/ Cut
    BY <1>3, <1>8 DEF RecordCheckpoint, Cut, Forget
<1>9. CASE RequestPage \/ RequestFails \/ StoreReview \/ StoreFails \/ TurnPage \/ CollectionEnds
           \/ BeginBusy \/ UNCHANGED vars
  <2>1. UNCHANGED <<deleted, atStart, listing>>
    BY <1>9 DEF RequestPage, Receive, RequestFails, StoreReview, StoreFails, CollectionFails, TurnPage,
                CollectionEnds, BeginBusy, vars
  <2> QED
    BY <1>2, <2>1
<1> QED
    BY <1>4, <1>5, <1>6, <1>7, <1>8, <1>9 DEF Next, SyncStep

LEMMA ReadStep ==
    ASSUME TypeOK, PlaceInv, StartInv, ReadInv, [Next]_vars
    PROVE  ReadInv'
<1> USE DEF Reading, market, itemPlace, observed
<1>1. ItemOK /\ ShelfOK /\ ProviderOK
    BY DEF TypeOK
<1>2. CASE UNCHANGED <<deleted, phase, todo, seen, total, listing, atStart>>
    BY <1>2 DEF ReadInv, CountsList, Item
<1>3. CASE seen' = {} /\ total' = None
    BY <1>3 DEF ReadInv
<1>4. CASE phase' = "record" \/ deleted' = TRUE
    BY <1>4 DEF ReadInv
<1>5. CASE DiscoverPage
  <2>1. seen' = {} /\ total' = None
    BY <1>1, <1>5, DiscoverPages DEF PlaceInv
  <2> QED
    BY <1>3, <2>1
<1>6. CASE RequestPage
  <2>1. PICK more, next : next \in Nat \cup {None} /\ Receive(more, next)
    BY <1>1, <1>6, HonestAndOdd
  <2>2. phase = "review" /\ todo # {}
    BY <1>6 DEF RequestPage
  <2>3. Item \in Items /\ UNCHANGED <<deleted, todo, listing, atStart>>
    BY <1>1, <2>1, <2>2, ReceivedPage
  <2>4. PICK i \in Items : i = Item
    BY <2>3
  <2>5. Item' = i
    BY <2>3, <2>4 DEF Item
  <2>6. \E rows \in SUBSET ToSet(listing[i]) : seen' = seen \cup rows
    BY <1>1, <2>1, <2>2, <2>4, ReceivedPage
  <2>7. total' = None \/ total' = Len(listing[i]) \/ (total' = total /\ Len(listing[i]) <= total)
    BY <1>1, <2>1, <2>2, <2>4, ReceivedPage
  <2> SUFFICES ASSUME ~deleted PROVE ReadInv'
    BY <2>3 DEF ReadInv
  <2>8. seen' \subseteq ToSet(listing[i])
    BY <2>2, <2>4, <2>6 DEF ReadInv
  <2>9. atStart \cap About(i) \subseteq ToSet(listing[i])
    BY DEF StartInv, About
  <2>10. IsFiniteSet(ToSet(listing[i])) /\ Cardinality(ToSet(listing[i])) = Len(listing[i])
         /\ Len(listing[i]) \in Nat
    BY <1>1, ShownIsFinite, BeyondIsNat
  <2>11. ASSUME total' # None
         PROVE  Cardinality(ToSet(listing[i])) = total'
    <3>1. CASE total' = Len(listing[i])
      BY <2>10, <3>1
    <3>2. CASE total' = total /\ Len(listing[i]) <= total
      <4>1. PICK L \in SUBSET ToSet(listing[i]) : Cardinality(L) = total
        BY <2>2, <2>4, <2>11, <3>2 DEF ReadInv, CountsList
      <4>2. Cardinality(L) <= Len(listing[i])
        BY <2>10, FS_Subset
      <4>3. total \in Nat
        BY <1>1, <2>11, <3>2, BeyondIsNat DEF ItemOK
      <4> QED
        BY <2>10, <3>2, <4>1, <4>2, <4>3
    <3> QED
      BY <2>7, <2>11, <3>1, <3>2
  <2>12. total' # None => \E L \in SUBSET ToSet(listing[i]) :
            seen' \subseteq L /\ Cardinality(L) = total' /\ atStart \cap About(i) \subseteq L
    BY <2>8, <2>9, <2>11
  <2> QED
    BY <2>3, <2>5, <2>8, <2>12 DEF ReadInv, CountsList
<1>7. CASE AddReview
  <2>1. UNCHANGED <<deleted, phase, todo, seen, total, atStart>>
        /\ \A i \in Items : ToSet(listing[i]) \subseteq ToSet(listing'[i])
    BY <1>1, <1>7, AddedReview
  <2> SUFFICES ASSUME ~deleted, phase \in {"review", "store"}, todo # {} PROVE ReadInv'
    BY <2>1 DEF ReadInv
  <2>2. Item \in Items
    BY <1>1, FirstIsOf DEF ShelfOK, Item
  <2>3. PICK i \in Items : i = Item /\ i = Item'
    BY <2>1, <2>2 DEF Item
  <2>4. seen \subseteq ToSet(listing'[i])
    BY <2>1, <2>3 DEF ReadInv
  <2>5. total # None => \E L \in SUBSET ToSet(listing'[i]) :
            seen \subseteq L /\ Cardinality(L) = total /\ atStart \cap About(i) \subseteq L
    <3>1. total # None => \E L \in SUBSET ToSet(listing[i]) :
            seen \subseteq L /\ Cardinality(L) = total /\ atStart \cap About(i) \subseteq L
      BY <2>3 DEF ReadInv, CountsList
    <3> QED
      BY <2>1, <3>1
  <2> QED
    BY <2>1, <2>3, <2>4, <2>5 DEF ReadInv, CountsList
<1>8. CASE RemoveReview
    BY <1>4, <1>8 DEF RemoveReview
<1>9. CASE TurnPage
  <2>1. phase = "store" /\ phase' = "review" /\ UNCHANGED <<deleted, listing, atStart>>
    BY <1>9 DEF TurnPage, FinishItem
  <2>2. CASE UNCHANGED <<seen, total, todo>>
    BY <2>1, <2>2 DEF ReadInv, CountsList, Item
  <2>3. (seen' = {} /\ total' = None) \/ UNCHANGED <<seen, total, todo>>
    BY <1>9 DEF TurnPage, FinishItem, FreshItem
  <2> QED
    BY <1>3, <2>2, <2>3
<1>10. CASE StoreReview
  <2>1. UNCHANGED <<deleted, phase, todo, seen, total, listing, atStart>>
    BY <1>10 DEF StoreReview
  <2> QED
    BY <1>2, <2>1
<1>11. CASE RequestFails \/ StoreFails \/ CollectionEnds \/ BeginBusy
  <2>1. phase' = "record"
    BY <1>11 DEF RequestFails, StoreFails, CollectionFails, CollectionEnds, BeginBusy
  <2> QED
    BY <1>4, <2>1
<1>12. CASE RecordCheckpoint \/ Cut
    BY <1>3, <1>12 DEF RecordCheckpoint, Cut, Forget, FreshItem
<1>13. ASSUME NEW all, NEW ids, Begin(all, ids) PROVE ReadInv'
    BY <1>3, <1>13 DEF Begin, FreshItem
<1>14. CASE UNCHANGED vars
    BY <1>2, <1>14 DEF vars
<1> QED
    BY <1>5, <1>6, <1>7, <1>8, <1>9, <1>10, <1>11, <1>12, <1>13, <1>14 DEF Next, SyncStep

\* A product that is finished as matched misses nothing: as many of its rows
\* were seen as its largest list had.
LEMMA FinishMatched ==
    ASSUME TypeOK, ManifestInv, StoredInv, ReadInv, MatchedInv, TurnPage
    PROVE  MatchedInv'
<1> USE DEF market, observed, durable
<1>1. ItemOK /\ ShelfOK /\ ProviderOK /\ RecordOK
    BY DEF TypeOK
<1>2. phase = "store" /\ pending = {} /\ todo # {} /\ Item \in Items
      /\ UNCHANGED <<deleted, atStart, stored>>
    BY TurnOrFinish
<1> SUFFICES ASSUME ~deleted PROVE MatchedInv'
    BY <1>2 DEF MatchedInv
<1>3. CASE UNCHANGED manifest
    BY <1>2, <1>3 DEF MatchedInv
<1>4. ASSUME NEW complete \in BOOLEAN, FinishItem(complete) PROVE MatchedInv'
  <2>1. PICK i \in Items : i = Item
    BY <1>2
  <2>2. manifest.items \in ItemResults /\ todo \ {i} \subseteq Items
    BY <1>1 DEF RecordOK, ItemResults, ShelfOK
  <2>3. PICK result \in Results : result = Reconciliation(complete)
    BY DEF Reconciliation, Results
  <2>4. PICK marked \in ItemResults : marked = Marked(manifest.items, i, result)
    BY <2>2, MarkedResults
  <2>5. /\ marked[i] = result /\ DOMAIN marked = DOMAIN manifest.items \cup {i}
        /\ \A p \in DOMAIN manifest.items : p # i => marked[p] = manifest.items[p]
    BY <2>4 DEF Marked
  <2>6. manifest'.items = Open(marked, todo \ {i})
    BY <1>4, <2>1, <2>3, <2>4 DEF FinishItem, ManifestInv, ShapeInv
  <2>7. \A p \in DOMAIN manifest'.items : manifest'.items[p] = "matched" =>
           p \in DOMAIN marked /\ marked[p] = "matched"
    BY <2>2, <2>6, OpenResults
  <2>8. ASSUME result = "matched" PROVE atStart \cap About(i) \subseteq stored
    <3>1. total # None /\ Cardinality(seen) = total
      BY <2>3, <2>8 DEF Reconciliation
    <3>2. seen \subseteq ToSet(listing[i])
      BY <1>2, <2>1 DEF ReadInv, Reading
    <3>3. PICK L \in SUBSET ToSet(listing[i]) :
             seen \subseteq L /\ Cardinality(L) = total /\ atStart \cap About(i) \subseteq L
      BY <1>2, <2>1, <3>1 DEF ReadInv, Reading, CountsList
    <3>4. IsFiniteSet(L)
      BY <1>1, ShownIsFinite, FS_Subset
    <3>5. seen = L
      BY <3>1, <3>3, <3>4, FS_Subset
    <3>6. seen \cap Wanted \subseteq stored
      BY <1>2 DEF StoredInv, Reading
    <3> QED
      BY <1>1, <3>3, <3>5, <3>6 DEF ItemOK
  <2>9. \A p \in DOMAIN marked : marked[p] = "matched" => atStart \cap About(p) \subseteq stored
    BY <2>5, <2>8 DEF MatchedInv
  <2> QED
    BY <1>2, <2>7, <2>9 DEF MatchedInv
<1> QED
    BY <1>3, <1>4, TurnOrFinish

LEMMA MatchedStep ==
    ASSUME TypeOK, ManifestInv, PlaceInv, StoredInv, ReadInv, MatchedInv, [Next]_vars
    PROVE  MatchedInv'
<1> USE DEF market, observed, durable
<1>1. ProviderOK /\ ShelfOK
    BY DEF TypeOK
<1>2. CASE UNCHANGED <<manifest, atStart>> /\ (deleted' = deleted \/ deleted' = TRUE)
           /\ stored \subseteq stored'
    BY <1>2 DEF MatchedInv
<1>3. ASSUME NEW ids, ids \subseteq Items, manifest'.items = Open(<<>>, ids) PROVE MatchedInv'
  <2>1. \A p \in DOMAIN manifest'.items : manifest'.items[p] # "matched"
    BY <1>3, NoResults, OpenResults
  <2> QED
    BY <2>1 DEF MatchedInv
<1>4. CASE DiscoverPage
  <2>1. UNCHANGED <<deleted, atStart, stored>> /\ todo' \subseteq Items
        /\ ((\E complete \in BOOLEAN : ShelfEnds(complete)) \/ UNCHANGED manifest)
    BY <1>1, <1>4, DiscoverPages DEF NextShelfPage
  <2>2. CASE UNCHANGED manifest
    BY <1>2, <2>1, <2>2
  <2>3. CASE manifest' = [discovered |-> whole', items |-> Open(<<>>, todo')]
    <3>1. manifest'.items = Open(<<>>, todo')
      BY <2>3
    <3> QED
      BY <1>3, <2>1, <3>1
  <2> QED
    BY <2>1, <2>2, <2>3 DEF ShelfEnds
<1>5. CASE manifest' = NoManifest
  <2>1. DOMAIN manifest'.items = {}
    BY <1>5, NoResults DEF NoManifest
  <2> QED
    BY <2>1 DEF MatchedInv
<1>6. CASE TurnPage
    BY <1>6, FinishMatched
<1>7. ASSUME NEW all, NEW ids \in SUBSET Items, Begin(all, ids) PROVE MatchedInv'
  <2>1. manifest'.items = IF all THEN <<>> ELSE Open(<<>>, ids)
    BY <1>7 DEF Begin, NoManifest
  <2>2. CASE all
    BY <2>1, <2>2, NoResults DEF MatchedInv
  <2> QED
    BY <1>3, <2>1, <2>2
<1>8. CASE BeginBusy \/ RecordCheckpoint \/ Cut
    BY <1>5, <1>8 DEF BeginBusy, RecordCheckpoint, Cut, Forget
<1>9. CASE RequestPage \/ RequestFails \/ StoreReview \/ StoreFails \/ CollectionEnds
           \/ AddReview \/ RemoveReview \/ UNCHANGED vars
  <2>1. UNCHANGED <<manifest, atStart>> /\ (deleted' = deleted \/ deleted' = TRUE)
        /\ stored \subseteq stored'
    BY <1>9 DEF RequestPage, Receive, RequestFails, StoreReview, StoreFails, CollectionFails,
                CollectionEnds, AddReview, RemoveReview, vars
  <2> QED
    BY <1>2, <2>1
<1> QED
    BY <1>4, <1>6, <1>7, <1>8, <1>9, CallsAssumption DEF Next, SyncStep

\* A page of the product list finds the products in its places.
LEMMA FoundMore ==
    ASSUME TypeOK, FoundInv, DiscoverPage, whole, ~oddShelf'
    PROVE  /\ ~oddShelf /\ FoundHere
           /\ \A s \in 1 .. shelf - 1 : ToSet(Lists[s]) \subseteq todo'
           /\ Len(Lists[shelf]) \in Nat /\ DOMAIN Lists[shelf] = 1 .. Len(Lists[shelf])
           /\ \A n \in 1 .. offset + ItemPage : n <= Len(Lists[shelf]) => Lists[shelf][n] \in todo'
<1>1. ShelfOK /\ ProviderOK
    BY DEF TypeOK
<1>2. phase = "discover" /\ (oddShelf' = oddShelf \/ oddShelf' = TRUE)
      /\ todo' = todo \cup ToSet(Page(Lists[shelf], offset, ItemPage))
    BY <1>1, DiscoverPages
<1>3. FoundHere /\ ~oddShelf
    BY <1>2 DEF FoundInv
<1>4. PICK list \in Seq(Items) : list = Lists[shelf]
    BY <1>1, ListsShape DEF ShelfOK, ProviderOK
<1>5. offset \in Nat /\ ItemPage \in Nat \ {0}
    BY <1>1, PagingAssumption DEF ShelfOK
<1>6. \A n \in offset + 1 .. offset + ItemPage :
         n <= Len(list) => list[n] \in ToSet(Page(list, offset, ItemPage))
    BY <1>5, PageRows
<1>7. \A n \in 1 .. offset : list[n] \in todo
    BY <1>3, <1>4 DEF FoundHere
<1>8. ASSUME NEW n \in 1 .. offset + ItemPage, n <= Len(list) PROVE list[n] \in todo'
  <2>1. n \in 1 .. offset \/ n \in offset + 1 .. offset + ItemPage
    BY <1>5, <1>8
  <2> QED
    BY <1>2, <1>4, <1>6, <1>7, <1>8, <2>1
<1>9. Len(list) \in Nat /\ DOMAIN list = 1 .. Len(list)
    OBVIOUS
<1> QED
    BY <1>2, <1>3, <1>4, <1>8, <1>9 DEF FoundHere

LEMMA DiscoverFound ==
    ASSUME TypeOK, ManifestInv, FoundInv, DiscoverPage
    PROVE  FoundInv'
<1> USE DEF Reading, provider
<1>1. ShelfOK /\ ProviderOK
    BY DEF TypeOK
<1>2. phase = "discover" /\ UNCHANGED platform
    BY <1>1, DiscoverPages
<1>3. Lists' = Lists
    BY <1>2 DEF Lists
<1>4. PICK list \in Seq(Items) : list = Lists[shelf]
    BY <1>1, ListsShape DEF ShelfOK, ProviderOK
<1>5. offset \in Nat /\ ItemPage \in Nat \ {0} /\ Len(list) \in Nat /\ DOMAIN list = 1 .. Len(list)
      /\ shelf \in 1 .. Len(Lists) /\ Len(Lists) \in Nat \ {0}
    BY <1>1, PagingAssumption, ListsShape DEF ShelfOK, ProviderOK
<1>6. ASSUME NEW complete \in BOOLEAN, ShelfEnds(complete),
             complete /\ ~oddShelf' /\ offset <= Len(Lists[shelf]) =>
                 offset + ItemPage >= Len(Lists[shelf])
      PROVE  FoundInv'
  <2>1. ASSUME whole', ~oddShelf'
        PROVE  \A s \in 1 .. shelf : ToSet(Lists[s]) \subseteq todo'
    <3>1. whole /\ complete
      BY <1>1, <1>6, <2>1 DEF ShelfEnds, ShelfOK
    <3>2. offset <= Len(list) /\ \A s \in 1 .. shelf - 1 : ToSet(Lists[s]) \subseteq todo'
      BY <1>4, <2>1, <3>1, FoundMore DEF FoundHere
    <3>3. offset + ItemPage >= Len(list)
      BY <1>4, <1>6, <2>1, <3>1, <3>2
    <3>4. \A n \in 1 .. offset + ItemPage : n <= Len(list) => list[n] \in todo'
      BY <1>4, <2>1, <3>1, FoundMore
    <3>5. \A n \in 1 .. Len(list) : list[n] \in todo'
      BY <1>5, <3>3, <3>4
    <3>6. ToSet(list) \subseteq todo'
      BY <1>5, <3>5 DEF ToSet
    <3>7. \A s \in 1 .. shelf : s = shelf \/ s \in 1 .. shelf - 1
      BY <1>5
    <3> QED
      BY <1>4, <3>2, <3>6, <3>7
  <2>2. CASE shelf < Len(Lists)
    <3>1. phase' = "discover" /\ shelf' = shelf + 1 /\ offset' = 0
      BY <1>2, <1>6, <2>2 DEF ShelfEnds
    <3>2. whole' /\ ~oddShelf' => FoundHere'
      <4> SUFFICES ASSUME whole', ~oddShelf' PROVE FoundHere'
        OBVIOUS
      <4>1. \A s \in 1 .. shelf' - 1 : ToSet(Lists'[s]) \subseteq todo'
        BY <1>3, <1>5, <2>1, <3>1
      <4>2. offset' <= Len(Lists'[shelf'])
        <5>1. shelf + 1 \in 1 .. Len(Lists)
          BY <1>5, <2>2
        <5>2. PICK next \in Seq(Items) : next = Lists[shelf + 1]
          BY <1>1, <5>1, ListsShape DEF ProviderOK
        <5> QED
          BY <1>3, <3>1, <5>2
      <4>3. \A n \in 1 .. offset' : FALSE
        BY <3>1
      <4> QED
        BY <4>1, <4>2, <4>3 DEF FoundHere
    <3> QED
      BY <3>1, <3>2 DEF FoundInv
  <2>3. CASE ~(shelf < Len(Lists))
    <3>1. phase' = "review" /\ manifest' = [discovered |-> whole', items |-> Open(<<>>, todo')]
      BY <1>6, <2>3 DEF ShelfEnds
    <3>2. shelf = Len(Lists)
      BY <1>5, <2>3
    <3>3. whole' /\ ~oddShelf' => Items \subseteq todo'
      BY <1>1, <2>1, <3>2, ListsShape DEF ProviderOK
    <3>4. manifest'.discovered = whole'
      BY <3>1
    <3> QED
      BY <3>1, <3>3, <3>4 DEF FoundInv
  <2> QED
    BY <2>2, <2>3
<1>7. ASSUME NEW next \in Nat, NextShelfPage(next),
             ~oddShelf' /\ offset <= Len(Lists[shelf]) =>
                 next <= Len(Lists[shelf]) /\ next <= offset + ItemPage
      PROVE  FoundInv'
  <2>1. phase' = "discover" /\ shelf' = shelf /\ offset' = next /\ whole' = whole
    BY <1>2, <1>7 DEF NextShelfPage
  <2>2. ASSUME whole, ~oddShelf' PROVE FoundHere'
    <3>1. offset <= Len(list) /\ \A s \in 1 .. shelf - 1 : ToSet(Lists[s]) \subseteq todo'
      BY <1>4, <2>2, FoundMore DEF FoundHere
    <3>2. next <= Len(list) /\ next <= offset + ItemPage
      BY <1>4, <1>7, <2>2, <3>1
    <3>3. \A n \in 1 .. offset + ItemPage : n <= Len(list) => list[n] \in todo'
      BY <1>4, <2>2, FoundMore
    <3>4. \A n \in 1 .. next : list[n] \in todo'
      BY <1>5, <3>2, <3>3
    <3> QED
      BY <1>3, <1>4, <2>1, <3>1, <3>2, <3>4 DEF FoundHere
  <2> QED
    BY <2>1, <2>2 DEF FoundInv
<1> QED
  <2>1. \/ \E complete \in BOOLEAN : ShelfEnds(complete)
              /\ (complete /\ ~oddShelf' /\ offset <= Len(Lists[shelf]) =>
                     offset + ItemPage >= Len(Lists[shelf]))
        \/ \E next \in Nat : NextShelfPage(next)
              /\ (~oddShelf' /\ offset <= Len(Lists[shelf]) =>
                     next <= Len(Lists[shelf]) /\ next <= offset + ItemPage)
    BY <1>1, DiscoverPages
  <2> QED
    BY <1>6, <1>7, <2>1

LEMMA FoundStep ==
    ASSUME TypeOK, ManifestInv, PlaceInv, FoundInv, [Next]_vars
    PROVE  FoundInv'
<1> USE DEF Reading, provider, shelfPlace
<1>1. ShelfOK /\ ProviderOK /\ RecordOK
    BY DEF TypeOK
<1>2. CASE UNCHANGED <<platform, oddShelf, phase, shelfPlace, todo, manifest, run>>
    BY <1>2 DEF FoundInv, FoundHere, Lists
<1>3. CASE phase' # "discover" /\ manifest'.discovered = FALSE
    BY <1>3 DEF FoundInv
<1>4. CASE phase' = "idle"
    BY <1>4 DEF FoundInv
<1>5. ASSUME NEW all, NEW ids, Begin(all, ids) PROVE FoundInv'
  <2>1. /\ phase' = IF all THEN "discover" ELSE "review"
        /\ shelf' = 1 /\ offset' = 0 /\ UNCHANGED platform
        /\ manifest'.discovered = FALSE
    BY <1>5 DEF Begin, NoManifest
  <2>2. Lists' = Lists
    BY <2>1 DEF Lists
  <2>4. PICK list \in Seq(Items) : list = Lists[1]
    BY <1>1, ListsShape DEF ProviderOK
  <2>5. FoundHere'
    <3>1. \A s \in 1 .. shelf' - 1 : FALSE
      BY <2>1
    <3>2. \A n \in 1 .. offset' : FALSE
      BY <2>1
    <3>3. offset' <= Len(Lists'[shelf'])
      BY <2>1, <2>2, <2>4
    <3> QED
      BY <3>1, <3>2, <3>3 DEF FoundHere
  <2> QED
    BY <2>1, <2>5 DEF FoundInv
<1>6. CASE DiscoverPage
    BY <1>6, DiscoverFound
<1>7. CASE TurnPage
  <2>1. phase = "store" /\ phase' = "review" /\ Item \in Items /\ UNCHANGED <<oddShelf, run>>
    BY <1>7, TurnOrFinish DEF TurnPage
  <2>2. CASE UNCHANGED <<todo, manifest>>
    BY <2>1, <2>2 DEF FoundInv
  <2>3. ASSUME NEW complete, FinishItem(complete) PROVE FoundInv'
    <3>1. PICK i \in Items : i = Item
      BY <2>1
    <3>2. PICK result \in Results : result = Reconciliation(complete)
      BY DEF Reconciliation, Results
    <3>3. manifest.items \in ItemResults /\ todo \ {i} \subseteq Items
      BY <1>1 DEF RecordOK, ItemResults, ShelfOK
    <3>4. PICK marked \in ItemResults : marked = Marked(manifest.items, i, result)
      BY <3>3, MarkedResults
    <3>7. DOMAIN marked = DOMAIN manifest.items \cup {i}
      BY <3>4 DEF Marked
    <3>5. /\ manifest'.items = Open(marked, todo \ {i}) /\ manifest'.discovered = manifest.discovered
          /\ todo' = todo \ {i}
      BY <2>3, <3>1, <3>2, <3>4 DEF FinishItem, ManifestInv, ShapeInv
    <3>6. DOMAIN marked \subseteq DOMAIN manifest'.items
      BY <3>3, <3>5, OpenResults
    <3> QED
      BY <2>1, <3>1, <3>5, <3>6, <3>7 DEF FoundInv
  <2> QED
    BY <1>7, <2>2, <2>3 DEF TurnPage
<1>8. CASE CollectionEnds
  <2>1. phase = "review" /\ phase' = "record" /\ UNCHANGED <<oddShelf, todo, manifest>>
    BY <1>8 DEF CollectionEnds
  <2> QED
    BY <2>1 DEF FoundInv
<1>9. CASE RequestFails \/ StoreFails
  <2>1. phase' = "record" /\ (phase = "discover" \/ Reading)
        /\ UNCHANGED <<oddShelf, todo, manifest>>
    BY <1>9 DEF RequestFails, StoreFails, CollectionFails
  <2>2. phase = "discover" => manifest.discovered = FALSE
    BY DEF ManifestInv, DiscoveryInv
  <2> QED
    BY <2>1, <2>2 DEF FoundInv
<1>10. CASE BeginBusy
    BY <1>3, <1>10 DEF BeginBusy, NoManifest
<1>11. CASE RecordCheckpoint \/ Cut
    BY <1>4, <1>11 DEF RecordCheckpoint, Cut, Forget
<1>12. CASE RequestPage
  <2>1. phase = "review" /\ phase' = "store" /\ UNCHANGED <<oddShelf, todo, manifest>>
    BY <1>12 DEF RequestPage, Receive
  <2> QED
    BY <2>1 DEF FoundInv
<1>13. CASE StoreReview \/ AddReview \/ RemoveReview \/ UNCHANGED vars
  <2>1. UNCHANGED <<platform, oddShelf, phase, shelfPlace, todo, manifest, run>>
    BY <1>13 DEF StoreReview, AddReview, RemoveReview, vars
  <2> QED
    BY <1>2, <2>1
<1> QED
    BY <1>5, <1>6, <1>7, <1>8, <1>9, <1>10, <1>11, <1>12, <1>13 DEF Next, SyncStep

-----------------------------------------------------------------------------

LEMMA SyncInit == Init => SyncInv
<1> SUFFICES ASSUME Init PROVE SyncInv
    OBVIOUS
<1>1. ManifestInv
    BY ManifestInit
<1>2. /\ phase = "idle" /\ todo = {} /\ pending = {} /\ atStart = {} /\ taken = <<>>
      /\ seen = {} /\ total = None /\ cursors = {} /\ pages = 0 /\ cursor = 0
      /\ manifest = [discovered |-> FALSE, items |-> <<>>]
    BY DEF Init, NoManifest
<1>3. ProviderOK
  <2>1. /\ platform \in Platforms /\ newestFirst \in BOOLEAN /\ totals \in BOOLEAN
        /\ changes = 0 /\ deleted = FALSE /\ odd = 0 /\ oddShelf = FALSE
        /\ listing = [i \in Items |-> FirstReviews[i]]
    BY ProductsAssumption DEF Init
  <2>2. 0 \in 0 .. MaxChanges /\ 0 \in 0 .. MaxOdd
    BY SyncBoundsAssumption
  <2>3. DOMAIN listing = Items
        /\ \A i \in Items : listing[i] \in Seq(About(i)) /\ IsInjective(listing[i])
    BY <2>1, ReviewsAssumption
  <2> QED
    BY <2>1, <2>2, <2>3 DEF ProviderOK
<1>4. ShelfOK
  <2>1. 1 \in 1 .. Len(Lists)
    BY <1>3, ListsShape DEF ProviderOK
  <2> QED
    BY <1>2, <2>1, FS_EmptySet DEF Init, ShelfOK
<1>5. ItemOK
  <2>1. IsFiniteSet({}) /\ Cardinality({}) = 0
    BY FS_EmptySet
  <2>2. answer \in [more : BOOLEAN, next : Nat \cup {None}] /\ given = {}
    BY DEF Init, NoAnswer
  <2> QED
    BY <1>2, <2>1, <2>2, BeyondIsNat, PagingAssumption DEF ItemOK
<1>6. RecordOK
  <2>1. run = "none" /\ stored = {} /\ checkpoint = None /\ syncs = 0
    BY DEF Init
  <2>2. 0 \in 0 .. MaxSyncs
    BY SyncBoundsAssumption
  <2> QED
    BY <1>2, <2>1, <2>2, NoResults DEF RecordOK, ItemResults
<1>7. PlaceInv /\ TakenInv /\ StoredInv /\ ReadInv /\ StartInv
    BY <1>2, EmptyList DEF PlaceInv, TakenInv, StoredInv, ReadInv, StartInv, Reading
<1>8. MatchedInv
  <2>1. DOMAIN manifest.items = {}
    BY <1>2, NoResults
  <2> QED
    BY <2>1 DEF MatchedInv
<1>9. FoundInv
    BY <1>2 DEF FoundInv, Reading
<1> QED
    BY <1>1, <1>3, <1>4, <1>5, <1>6, <1>7, <1>8, <1>9 DEF SyncInv, TypeOK

LEMMA SyncInvStep == SyncInv /\ [Next]_vars => SyncInv'
<1> SUFFICES ASSUME SyncInv, [Next]_vars PROVE SyncInv'
    OBVIOUS
<1>1. /\ TypeOK /\ ManifestInv /\ PlaceInv /\ TakenInv /\ StoredInv /\ ReadInv
      /\ StartInv /\ MatchedInv /\ FoundInv
    BY DEF SyncInv
<1>2. TypeOK'
    BY <1>1, ProviderStep, ShelfStep, PlaceStep, RecordStep DEF TypeOK
<1>3. ManifestInv' /\ PlaceInv' /\ TakenInv' /\ StoredInv'
    BY <1>1, ManifestStep, PlaceStep, TakenStep, StoredStep
<1>4. ReadInv' /\ StartInv' /\ MatchedInv' /\ FoundInv'
    BY <1>1, ReadStep, StartStep, MatchedStep, FoundStep
<1> QED
    BY <1>2, <1>3, <1>4 DEF SyncInv

LEMMA SyncInvHolds == SyncInv => CompletenessIsTrue
<1> SUFFICES ASSUME SyncInv PROVE CompletenessIsTrue
    OBVIOUS
<1>1. TypeOK /\ TakenOnce
    BY DEF SyncInv, TakenInv, TakenOnce
<1>2. ASSUME phase = "record", SourceComplete, ~deleted, ~oddShelf
      PROVE  atStart \subseteq stored
  <2>1. manifest.discovered
        /\ \A i \in DOMAIN manifest.items : manifest.items[i] = "matched"
    BY <1>2 DEF SourceComplete
  <2>3. todo = {}
    BY <1>2, <2>1 DEF SyncInv, ManifestInv, RecordInv
  <2>4. Items \subseteq DOMAIN manifest.items
    BY <1>2, <2>1, <2>3 DEF SyncInv, FoundInv
  <2>5. \A i \in Items : atStart \cap About(i) \subseteq stored
    BY <1>2, <2>1, <2>4 DEF SyncInv, MatchedInv
  <2>6. \A r \in atStart : ItemOf[r] \in Items /\ r \in About(ItemOf[r])
    BY ReviewsAssumption DEF SyncInv, PlaceInv, About
  <2> QED
    BY <2>5, <2>6
<1> QED
    BY <1>1, <1>2 DEF CompletenessIsTrue, CompleteMissesNothing

\* What is recorded as complete is complete: a sync that saw every product
\* and counted its reviews stored each wanted review that was shown when it
\* began, whatever was added meanwhile and whatever the review pages claimed.
THEOREM CompleteIsTrue == Spec => []CompletenessIsTrue
    BY SyncInit, SyncInvStep, SyncInvHolds, PTL DEF Spec

-----------------------------------------------------------------------------
(* A quiet source that answers truly. *)

Quiet == totals /\ changes = 0 /\ odd = 0

\* The first n rows of a list.
Before(list, n) == {list[k] : k \in {m \in 1 .. Len(list) : m <= n}}

\* Nothing was changed.
UnchangedInv ==
    /\ changes = 0 => \A i \in Items : listing[i] = FirstReviews[i]
    /\ odd = 0 => ~oddShelf

\* Every page of a shelf but the last is full, and said so.
ShelfPlaceInv == Quiet /\ phase = "discover" =>
    /\ whole
    /\ offset = Cardinality(offsets) * ItemPage
    /\ offsets \subseteq 0 .. offset

\* The pages were read one by one, and all that was on them was seen.
PageInv == Quiet /\ Reading /\ todo # {} =>
    /\ cursors \subseteq 0 .. cursor
    /\ phase = "review" =>
          /\ pages = cursor
          /\ seen = Before(listing[Item], cursor * PageSize)
          /\ total = None \/ total = Len(listing[Item])
    /\ phase = "store" =>
          /\ pages = cursor + 1
          /\ seen = Before(listing[Item], (cursor + 1) * PageSize)
          /\ total = Len(listing[Item])
          /\ answer.next = cursor + 1
          /\ answer.more <=> (cursor + 1) * PageSize < Len(listing[Item])

\* Whatever was finished matched.
FinishedInv == Quiet /\ (Reading \/ (phase = "record" /\ run = "completed")) =>
    /\ discoverAll => manifest.discovered
    /\ \A i \in DOMAIN manifest.items :
          manifest.items[i] = "matched" \/ (Reading /\ todo # {} /\ i = Item)

QuietInv == UnchangedInv /\ ShelfPlaceInv /\ PageInv /\ FinishedInv

LEMMA BeforeGrows ==
    ASSUME NEW S, NEW list \in Seq(S), NEW from \in Nat, NEW size \in Nat \ {0}
    PROVE  /\ Before(list, from) \cup ToSet(Page(list, from, size)) = Before(list, from + size)
           /\ Before(list, 0) = {}
<1>1. Len(list) \in Nat
    OBVIOUS
<1>2. \A x \in Before(list, from) : x \in Before(list, from + size)
    BY <1>1 DEF Before
<1>3. \A x \in ToSet(Page(list, from, size)) : x \in Before(list, from + size)
  <2>1. ASSUME NEW n \in from + 1 .. from + size, n <= Len(list)
        PROVE  list[n] \in Before(list, from + size)
    <3>1. n \in {m \in 1 .. Len(list) : m <= from + size}
      BY <1>1, <2>1
    <3> QED
      BY <3>1 DEF Before
  <2>2. \A x \in ToSet(Page(list, from, size)) :
           \E n \in from + 1 .. from + size : n <= Len(list) /\ x = list[n]
    BY PageRows
  <2> QED
    BY <2>1, <2>2
<1>4. ASSUME NEW k \in 1 .. Len(list), k <= from + size
      PROVE  list[k] \in Before(list, from) \cup ToSet(Page(list, from, size))
  <2>1. CASE k <= from
    BY <2>1 DEF Before
  <2>2. CASE ~(k <= from)
    <3>1. k \in from + 1 .. from + size /\ k <= Len(list)
      BY <1>1, <1>4, <2>2
    <3> QED
      BY <3>1, PageRows
  <2> QED
    BY <2>1, <2>2
<1>5. \A x \in Before(list, from + size) : x \in Before(list, from) \cup ToSet(Page(list, from, size))
    BY <1>4 DEF Before
<1>6. {m \in 1 .. Len(list) : m <= 0} = {}
    BY <1>1
<1>7. Before(list, 0) = {}
    BY <1>6 DEF Before
<1> QED
    BY <1>2, <1>3, <1>5, <1>7

\* The first rows are all of them exactly when the list has no more.
LEMMA BeforeCounts ==
    ASSUME NEW S, NEW list \in Seq(S), IsInjective(list), NEW n \in Nat
    PROVE  /\ n >= Len(list) => Cardinality(Before(list, n)) = Len(list)
           /\ n < Len(list) => Cardinality(Before(list, n)) < Len(list)
<1>1. Len(list) \in Nat /\ DOMAIN list = 1 .. Len(list)
    OBVIOUS
<1>2. IsFiniteSet(ToSet(list)) /\ Cardinality(ToSet(list)) = Len(list)
    BY RowsCounted
<1>3. Before(list, n) \in SUBSET ToSet(list)
    BY <1>1 DEF Before, ToSet
<1>4. ASSUME n >= Len(list) PROVE Before(list, n) = ToSet(list)
  <2>1. \A k \in 1 .. Len(list) : k <= n
    BY <1>1, <1>4
  <2> QED
    BY <1>1, <1>3, <2>1 DEF Before, ToSet
<1>5. ASSUME n < Len(list) PROVE Cardinality(Before(list, n)) < Len(list)
  <2>1. n + 1 \in DOMAIN list /\ ~(n + 1 <= n)
    BY <1>1, <1>5
  <2>2. list[n + 1] \in ToSet(list)
    BY <2>1 DEF ToSet
  <2>3. list[n + 1] \notin Before(list, n)
    <3> SUFFICES ASSUME NEW k \in 1 .. Len(list), k <= n, list[k] = list[n + 1] PROVE FALSE
      BY DEF Before
    <3>1. k = n + 1
      BY <1>1, <2>1 DEF IsInjective
    <3> QED
      BY <2>1, <3>1
  <2>4. Before(list, n) # ToSet(list)
    BY <2>2, <2>3
  <2>5. /\ Cardinality(Before(list, n)) <= Len(list)
        /\ Len(list) = Cardinality(Before(list, n)) => ToSet(list) = Before(list, n)
        /\ IsFiniteSet(Before(list, n))
    BY <1>2, <1>3, FS_Subset
  <2>6. Cardinality(Before(list, n)) \in Nat
    BY <2>5, FS_CardinalityType
  <2> QED
    BY <1>1, <2>4, <2>5, <2>6
<1> QED
    BY <1>2, <1>4, <1>5

\* Products, in pages.
LEMMA Multiples ==
    /\ \A a \in Nat, p \in Nat \ {0} : a * p \in Nat /\ (a + 1) * p = a * p + p
    /\ \A a, b \in Nat, p \in Nat \ {0} : a * p < b * p => a < b
<1>1. ASSUME NEW a \in Nat, NEW p \in Nat \ {0} PROVE a * p \in Nat /\ (a + 1) * p = a * p + p
    OBVIOUS
<1>2. ASSUME NEW a \in Nat, NEW b \in Nat, NEW p \in Nat \ {0}, a * p < b * p PROVE a < b
    BY <1>2
<1> QED
    BY <1>1, <1>2

\* A page that has rows is before the pages that are counted as one.
LEMMA WithinBeyond ==
    ASSUME NEW c \in Nat, c * PageSize < Cardinality(Reviews)
    PROVE  c < Beyond
<1>1. PageSize \in Nat \ {0} /\ Cardinality(Reviews) \in Nat
    BY PagingAssumption, BeyondIsNat
<1>2. PICK C \in Nat, p \in Nat \ {0} : C = Cardinality(Reviews) /\ p = PageSize
    BY <1>1
<1>3. C \div p \in Nat /\ c <= C \div p
    BY <1>2
<1> QED
    BY <1>2, <1>3 DEF Beyond

LEMMA UnchangedStep ==
    ASSUME TypeOK, UnchangedInv, [Next]_vars
    PROVE  UnchangedInv'
<1> USE DEF market
<1>1. ProviderOK /\ ShelfOK /\ ItemOK
    BY DEF TypeOK
<1>2. CASE UNCHANGED <<listing, changes>> /\ odd' = odd /\ (oddShelf' = oddShelf \/ oddShelf' = FALSE)
    BY <1>2 DEF UnchangedInv
<1>3. CASE UNCHANGED <<listing, changes>> /\ odd' # 0
    BY <1>3 DEF UnchangedInv
<1>4. CASE AddReview \/ RemoveReview
  <2>1. changes' = changes + 1 /\ changes \in Nat /\ UNCHANGED <<odd, oddShelf>>
    <3>1. changes \in Nat
      BY <1>1, SyncBoundsAssumption DEF ProviderOK
    <3> QED
      BY <1>4, <3>1 DEF AddReview, RemoveReview
  <2> QED
    BY <2>1 DEF UnchangedInv
<1>5. odd \in Nat
    BY <1>1, SyncBoundsAssumption DEF ProviderOK
<1>6. CASE DiscoverPage
  <2>1. UNCHANGED <<listing, changes>>
    BY <1>1, <1>6, DiscoverPages
  <2>2. UNCHANGED <<odd, oddShelf>> \/ odd' = odd + 1
    BY <1>6 DEF DiscoverPage
  <2>3. CASE UNCHANGED <<odd, oddShelf>>
    BY <1>2, <2>1, <2>3
  <2>4. CASE odd' = odd + 1
    <3>1. odd' # 0
      BY <1>5, <2>4
    <3> QED
      BY <1>3, <2>1, <3>1
  <2> QED
    BY <2>2, <2>3, <2>4
<1>7. CASE RequestPage
  <2>1. UNCHANGED <<listing, changes, oddShelf>> /\ (odd' = odd \/ odd' = odd + 1)
    BY <1>7 DEF RequestPage, Receive
  <2> QED
    BY <1>2, <1>3, <1>5, <2>1
<1>8. CASE RequestFails \/ StoreFails \/ StoreReview \/ TurnPage \/ CollectionEnds
           \/ BeginBusy \/ UNCHANGED vars
  <2>1. UNCHANGED <<listing, changes, odd, oddShelf>>
    BY <1>8 DEF RequestFails, StoreFails, CollectionFails, StoreReview, TurnPage, CollectionEnds,
                BeginBusy, vars
  <2> QED
    BY <1>2, <2>1
<1>9. CASE RecordCheckpoint \/ Cut
    BY <1>2, <1>9 DEF RecordCheckpoint, Cut, Forget
<1>10. ASSUME NEW all, NEW ids, Begin(all, ids) PROVE UnchangedInv'
    BY <1>2, <1>10 DEF Begin
<1> QED
    BY <1>4, <1>6, <1>7, <1>8, <1>9, <1>10 DEF Next, SyncStep

\* What is quiet now was quiet before.
LEMMA QuietBefore ==
    ASSUME TypeOK, [Next]_vars, Quiet'
    PROVE  Quiet
<1> USE DEF Quiet, market, provider
<1>1. ProviderOK /\ ShelfOK /\ odd \in Nat /\ changes \in Nat
    BY SyncBoundsAssumption DEF TypeOK, ProviderOK
<1>2. UNCHANGED totals /\ (changes' = changes \/ changes' = changes + 1)
      /\ (odd' = odd \/ odd' = odd + 1)
  <2>1. CASE DiscoverPage
    BY <1>1, <2>1 DEF DiscoverPage
  <2>2. CASE RequestPage
    BY <2>2 DEF RequestPage, Receive
  <2>3. CASE RequestFails \/ StoreFails \/ StoreReview \/ TurnPage \/ CollectionEnds
    BY <2>3 DEF RequestFails, StoreFails, CollectionFails, StoreReview, TurnPage, CollectionEnds
  <2>4. CASE BeginBusy \/ RecordCheckpoint \/ Cut \/ UNCHANGED vars
    BY <2>4 DEF BeginBusy, RecordCheckpoint, Cut, vars
  <2>5. CASE AddReview \/ RemoveReview
    BY <2>5 DEF AddReview, RemoveReview
  <2>6. ASSUME NEW all, NEW ids, Begin(all, ids)
        PROVE  UNCHANGED <<totals, changes, odd>>
    BY <2>6 DEF Begin
  <2> QED
    BY <2>1, <2>2, <2>3, <2>4, <2>5, <2>6 DEF Next, SyncStep
<1> QED
    BY <1>1, <1>2

\* A quiet provider's page of products is followed by the next one, or ends
\* the shelf; the pages do not run out before.
LEMMA QuietShelf ==
    ASSUME PagesSuffice, TypeOK, FoundInv, UnchangedInv, ShelfPlaceInv, DiscoverPage, Quiet, Quiet'
    PROVE  ShelfEnds(TRUE) \/ NextShelfPage(offset + ItemPage)
<1>1. ShelfOK /\ ProviderOK
    BY DEF TypeOK
<1>2. phase = "discover"
    BY DEF DiscoverPage
<1>3. offset <= Len(Lists[shelf]) /\ offset = Cardinality(offsets) * ItemPage
    BY <1>2 DEF FoundInv, FoundHere, UnchangedInv, ShelfPlaceInv, Quiet
<1>4. PICK list \in Seq(Items) : list = Lists[shelf]
    BY <1>1, ListsShape DEF ShelfOK, ProviderOK
<1>5. Len(list) <= MaxPages * ItemPage
  <2>1. CASE platform = "shopee"
    <3>1. shelf \in DOMAIN Shelves /\ list = Shelves[shelf]
      BY <1>1, <1>4, <2>1, ProductsAssumption DEF Lists, ShelfOK
    <3> QED
      BY <3>1 DEF PagesSuffice
  <2>2. CASE platform # "shopee"
    <3>1. Lists = <<Catalogue>>
      BY <2>2 DEF Lists
    <3>2. shelf = 1
      BY <1>1, <3>1 DEF ShelfOK
    <3>3. list = Catalogue
      BY <1>4, <3>1, <3>2
    <3> QED
      BY <3>3 DEF PagesSuffice
  <2> QED
    BY <2>1, <2>2
<1>6. /\ offset \in Nat /\ ItemPage \in Nat \ {0} /\ MaxPages \in Nat \ {0} /\ Len(list) \in Nat
      /\ Cardinality(offsets) \in Nat
    BY <1>1, PagingAssumption, FS_CardinalityType DEF ShelfOK
<1>7. offset + ItemPage < Len(list) => ShelfPagesLeft
  <2> SUFFICES ASSUME offset + ItemPage < Len(list) PROVE ShelfPagesLeft
    OBVIOUS
  <2>1. (Cardinality(offsets) + 1) * ItemPage = offset + ItemPage
    BY <1>3, <1>6, Multiples
  <2>2. MaxPages * ItemPage \in Nat
    BY <1>6, Multiples
  <2>3. (Cardinality(offsets) + 1) * ItemPage < MaxPages * ItemPage
    BY <1>5, <1>6, <2>1, <2>2
  <2>4. Cardinality(offsets) + 1 \in Nat
    BY <1>6
  <2> QED
    BY <1>6, <2>3, <2>4, Multiples DEF ShelfPagesLeft
<1> DEFINE ids == Page(list, offset, ItemPage)
<1>8. /\ Len(ids) \in Nat /\ offset + Len(ids) <= Len(list) /\ Len(ids) <= ItemPage
      /\ offset + ItemPage <= Len(list) => Len(ids) = ItemPage
    BY <1>3, <1>4, <1>6, PageRows
<1>9. \/ platform = "lazada" /\ LazadaShelfPage(ids)
      \/ ShopeeShelfPage(offset + ItemPage < Len(list), offset + ItemPage)
  <2>1. ~(odd' = odd + 1)
    BY DEF Quiet
  <2> QED
    BY <1>4, <2>1 DEF DiscoverPage
<1>10. CASE platform = "lazada" /\ LazadaShelfPage(ids)
  <2>1. \/ ShelfEnds(TRUE)
        \/ /\ ~(Len(ids) < ItemPage) /\ ~(offset + Len(ids) >= Len(list))
           /\ (ShelfPagesLeft => NextShelfPage(offset + Len(ids)))
    BY <1>4, <1>10 DEF LazadaShelfPage, Quiet
  <2> HIDE DEF ids
  <2>2. CASE /\ ~(Len(ids) < ItemPage) /\ ~(offset + Len(ids) >= Len(list))
             /\ (ShelfPagesLeft => NextShelfPage(offset + Len(ids)))
    <3>1. Len(ids) = ItemPage
      BY <1>6, <1>8, <2>2
    <3>2. offset + ItemPage < Len(list)
      BY <1>6, <2>2, <3>1
    <3> QED
      BY <1>7, <2>2, <3>1, <3>2
  <2> QED
    BY <2>1, <2>2
<1>11. CASE ShopeeShelfPage(offset + ItemPage < Len(list), offset + ItemPage)
  <2>1. CASE offset + ItemPage < Len(list)
    <3>1. (offset + ItemPage < Len(list)) = TRUE
      BY <2>1
    <3>2. ShopeeShelfPage(TRUE, offset + ItemPage)
      BY <1>11, <3>1
    <3>3. offset + ItemPage # None /\ offset + ItemPage > offset
      BY <1>6, PagingAssumption
    <3> QED
      BY <1>7, <2>1, <3>2, <3>3 DEF ShopeeShelfPage
  <2>2. CASE ~(offset + ItemPage < Len(list))
    <3>1. (offset + ItemPage < Len(list)) = FALSE
      BY <2>2
    <3>2. ShopeeShelfPage(FALSE, offset + ItemPage)
      BY <1>11, <3>1
    <3> QED
      BY <3>2 DEF ShopeeShelfPage
  <2> QED
    BY <2>1, <2>2
<1> QED
    BY <1>9, <1>10, <1>11

LEMMA ShelfPlaceStep ==
    ASSUME PagesSuffice, TypeOK, FoundInv, UnchangedInv, ShelfPlaceInv, [Next]_vars
    PROVE  ShelfPlaceInv'
<1> USE DEF shelfPlace
<1>1. ShelfOK /\ ProviderOK
    BY DEF TypeOK
<1> SUFFICES ASSUME Quiet', phase' = "discover" PROVE ShelfPlaceInv'
    BY DEF ShelfPlaceInv
<1>2. Quiet
    BY QuietBefore
<1>3. /\ IsFiniteSet({}) /\ Cardinality({}) = 0 /\ 0 * ItemPage = 0 /\ {} \subseteq 0 .. 0
    BY FS_EmptySet, PagingAssumption
<1>4. CASE UNCHANGED <<phase, shelfPlace>>
    BY <1>2, <1>4 DEF ShelfPlaceInv
<1>5. CASE whole' /\ offset' = 0 /\ offsets' = {}
    BY <1>3, <1>5 DEF ShelfPlaceInv
<1>6. CASE DiscoverPage
  <2>1. phase = "discover"
    BY <1>6 DEF DiscoverPage
  <2>2. whole /\ offset = Cardinality(offsets) * ItemPage /\ offsets \subseteq 0 .. offset
    BY <1>2, <2>1 DEF ShelfPlaceInv
  <2>3. CASE ShelfEnds(TRUE)
    BY <1>5, <2>2, <2>3 DEF ShelfEnds
  <2>4. CASE NextShelfPage(offset + ItemPage)
    <3>1. offset' = offset + ItemPage /\ offsets' = offsets \cup {offset + ItemPage} /\ whole' = whole
      BY <2>4 DEF NextShelfPage
    <3>2. offset \in Nat /\ ItemPage \in Nat \ {0} /\ IsFiniteSet(offsets) /\ Cardinality(offsets) \in Nat
      BY <1>1, PagingAssumption, FS_CardinalityType DEF ShelfOK
    <3>3. offset + ItemPage \notin offsets
      BY <2>2, <3>2
    <3>4. Cardinality(offsets') = Cardinality(offsets) + 1
      BY <3>1, <3>2, <3>3, FS_AddElement
    <3>5. (Cardinality(offsets) + 1) * ItemPage = offset + ItemPage
      BY <2>2, <3>2, Multiples
    <3>6. offsets' \subseteq 0 .. offset'
      <4>1. \A o \in 0 .. offset : o \in 0 .. offset + ItemPage
        BY <3>2
      <4>2. offset + ItemPage \in 0 .. offset + ItemPage
        BY <3>2
      <4> QED
        BY <2>2, <3>1, <4>1, <4>2
    <3> QED
      BY <2>2, <3>1, <3>4, <3>5, <3>6 DEF ShelfPlaceInv
  <2> QED
    BY <1>2, <1>6, <2>3, <2>4, QuietShelf
<1>7. ASSUME NEW all, NEW ids, Begin(all, ids) PROVE ShelfPlaceInv'
    BY <1>5, <1>7 DEF Begin
<1>8. CASE RequestPage \/ RequestFails \/ StoreFails \/ CollectionEnds \/ TurnPage \/ BeginBusy
           \/ RecordCheckpoint \/ Cut
  <2>1. phase' # "discover"
    BY <1>8 DEF RequestPage, Receive, RequestFails, StoreFails, CollectionFails, CollectionEnds,
                TurnPage, FinishItem, BeginBusy, RecordCheckpoint, Cut, Forget
  <2> QED
    BY <2>1
<1>9. CASE StoreReview \/ AddReview \/ RemoveReview \/ UNCHANGED vars
  <2>1. UNCHANGED <<phase, shelfPlace>>
    BY <1>9 DEF StoreReview, AddReview, RemoveReview, vars
  <2> QED
    BY <1>4, <2>1
<1> QED
    BY <1>6, <1>7, <1>8, <1>9 DEF Next, SyncStep

\* A quiet provider shows what it started with, which fits.
LEMMA QuietList ==
    ASSUME PagesSuffice, TypeOK, UnchangedInv, Quiet, todo # {}
    PROVE  \E list \in Seq(About(Item)) :
              /\ Item \in Items /\ list = listing[Item] /\ IsInjective(list)
              /\ Len(list) \in Nat /\ Len(list) <= MaxPages * PageSize
              /\ Len(list) <= Cardinality(Reviews)
<1>1. ProviderOK /\ ShelfOK
    BY DEF TypeOK
<1>2. Item \in Items
    BY <1>1, FirstIsOf DEF ShelfOK, Item
<1>3. PICK list \in Seq(About(Item)) : list = listing[Item] /\ IsInjective(list)
    BY <1>1, <1>2 DEF ProviderOK
<1>4. list = FirstReviews[Item]
    BY <1>2, <1>3 DEF UnchangedInv, Quiet
<1>5. Len(list) <= MaxPages * PageSize
    BY <1>2, <1>4 DEF PagesSuffice
<1>6. Len(list) \in Nat /\ Len(list) <= Cardinality(Reviews)
    BY <1>1, <1>2, <1>3, ShownIsFinite, BeyondIsNat
<1> QED
    BY <1>2, <1>3, <1>5, <1>6

\* A page of a quiet provider continues the rows before it, and tells truly
\* whether it was the last.
LEMMA QuietPage ==
    ASSUME PagesSuffice, TypeOK, UnchangedInv, PageInv, RequestPage, Quiet, Quiet'
    PROVE  PageInv'
<1>1. ProviderOK /\ ShelfOK /\ ItemOK
    BY DEF TypeOK
<1>2. phase = "review" /\ todo # {}
    BY DEF RequestPage
<1>3. PICK list \in Seq(About(Item)) :
         /\ Item \in Items /\ list = listing[Item] /\ IsInjective(list)
         /\ Len(list) \in Nat
    BY <1>2, QuietList
<1>4. cursor \in Nat /\ cursor * PageSize \in Nat /\ PageSize \in Nat \ {0}
      /\ (cursor + 1) * PageSize = cursor * PageSize + PageSize /\ (cursor + 1) * PageSize \in Nat
    BY <1>1, BeyondIsNat, PagingAssumption, Multiples DEF ItemOK
<1>5. PICK more \in HonestMore : Receive(more, cursor + 1)
  <2>1. ~(odd' = odd + 1)
    BY DEF Quiet
  <2> QED
    BY <2>1 DEF RequestPage
<1>6. cursors \subseteq 0 .. cursor /\ pages = cursor /\ seen = Before(list, cursor * PageSize)
      /\ (total = None \/ total = Len(list))
    BY <1>2, <1>3 DEF PageInv, Reading
<1>7. UNCHANGED <<listing, todo, cursor, cursors>> /\ phase' = "store" /\ pages' = cursor + 1
    BY <1>5, <1>6 DEF Receive, market, Counted
<1>8. Item' = Item
    BY <1>7 DEF Item
<1>9. seen' = Before(list, (cursor + 1) * PageSize)
  <2>1. seen' = seen \cup ToSet(Page(list, cursor * PageSize, PageSize))
    BY <1>3, <1>5 DEF Receive, RowsAt
  <2>2. PICK from \in Nat : from = cursor * PageSize
    BY <1>4
  <2>3. Before(list, from) \cup ToSet(Page(list, from, PageSize)) = Before(list, from + PageSize)
    <3>1. PICK S : list \in Seq(S)
      OBVIOUS
    <3>2. PageSize \in Nat \ {0}
      BY <1>4
    <3> QED
      BY <3>1, <3>2, BeforeGrows
  <2> QED
    BY <1>4, <1>6, <2>1, <2>2, <2>3
<1>10. total' = Len(list)
  <2>1. total' = LargestTotal /\ totals
    BY <1>5 DEF Receive, Quiet
  <2>2. ~(Len(list) > Len(list))
    BY <1>3
  <2> QED
    BY <1>3, <1>6, <2>1, <2>2 DEF LargestTotal
<1>11. answer' = [more |-> MoreToCome(more, RowsAt(cursor)), next |-> cursor + 1]
    BY <1>5 DEF Receive
<1>12. answer'.next = cursor + 1 /\ answer'.more = MoreToCome(more, RowsAt(cursor))
    BY <1>11
<1>13. MoreToCome(more, RowsAt(cursor)) <=> (cursor + 1) * PageSize < Len(list)
  <2>1. CASE more = LeftAfter(cursor)
    <3>1. more \in BOOLEAN /\ (more <=> (cursor + 1) * PageSize < Len(list))
      <4>1. LeftAfter(cursor) \in BOOLEAN
        BY DEF LeftAfter
      <4>2. LeftAfter(cursor) <=> (cursor + 1) * PageSize < Len(list)
        BY <1>3 DEF LeftAfter
      <4> QED
        BY <2>1, <4>1, <4>2, Zenon
    <3>2. more # None
      BY <3>1, PagingAssumption, Zenon
    <3>3. MoreToCome(more, RowsAt(cursor)) <=> (more = TRUE)
      BY <3>2, Zenon DEF MoreToCome
    <3> QED
      BY <3>1, <3>3, Zenon
  <2>2. CASE more = None /\ platform = "lazada"
    <3>1. total' # None
      BY <1>3, <1>10, PagingAssumption
    <3>2. MoreToCome(more, RowsAt(cursor)) <=> (Cardinality(seen') < total')
      BY <2>2, <3>1 DEF MoreToCome
    <3>3. PICK n \in Nat : n = (cursor + 1) * PageSize
      BY <1>4
    <3>4. /\ n >= Len(list) => Cardinality(Before(list, n)) = Len(list)
          /\ n < Len(list) => Cardinality(Before(list, n)) < Len(list)
      BY <1>3, BeforeCounts
    <3>5. n >= Len(list) \/ n < Len(list)
      BY <1>3
    <3>6. ~(Len(list) < Len(list))
      BY <1>3
    <3> QED
      BY <1>9, <1>10, <3>2, <3>3, <3>4, <3>5, <3>6
  <2> QED
    BY <2>1, <2>2 DEF HonestMore
<1> QED
    BY <1>3, <1>6, <1>7, <1>8, <1>9, <1>10, <1>12, <1>13 DEF PageInv, Reading

\* A page with more behind it is turned, as long as there may be pages.
LEMMA QuietTurn ==
    ASSUME PagesSuffice, TypeOK, ManifestInv, UnchangedInv, PageInv, TurnPage, Quiet
    PROVE  \/ /\ FinishItem(TRUE) /\ total # None /\ Cardinality(seen) = total
           \/ /\ cursor' = cursor + 1 /\ cursors' = cursors \cup {cursor + 1}
              /\ phase' = "review" /\ UNCHANGED <<pages, seen, total, todo, manifest>>
<1>1. ProviderOK /\ ShelfOK /\ ItemOK
    BY DEF TypeOK
<1>2. phase = "store" /\ todo # {}
    BY TurnOrFinish
<1>3. PICK list \in Seq(About(Item)) :
         /\ Item \in Items /\ list = listing[Item] /\ IsInjective(list)
         /\ Len(list) \in Nat /\ Len(list) <= MaxPages * PageSize
         /\ Len(list) <= Cardinality(Reviews)
    BY <1>2, QuietList
<1>4. /\ cursors \subseteq 0 .. cursor /\ pages = cursor + 1 /\ total = Len(list)
      /\ seen = Before(list, (cursor + 1) * PageSize) /\ answer.next = cursor + 1
      /\ (answer.more <=> (cursor + 1) * PageSize < Len(list))
    BY <1>2, <1>3 DEF PageInv, Reading
<1>5. cursor \in Nat /\ cursor + 1 \in Nat /\ (cursor + 1) * PageSize \in Nat
      /\ PageSize \in Nat \ {0} /\ MaxPages \in Nat \ {0} /\ MaxPages * PageSize \in Nat
      /\ Cardinality(Reviews) \in Nat
    BY <1>1, BeyondIsNat, PagingAssumption, Multiples DEF ItemOK
<1>6. cursor + 1 # None
    BY <1>5, PagingAssumption
<1>7. NextPage = cursor + 1
    BY <1>4, <1>6 DEF NextPage
<1>8. CASE ~answer.more
  <2>1. FinishItem(TRUE)
    BY <1>8 DEF TurnPage
  <2>2. PICK n \in Nat : n = (cursor + 1) * PageSize
    BY <1>5
  <2>3. n >= Len(list)
    BY <1>3, <1>4, <1>8, <2>2
  <2>4. Cardinality(Before(list, n)) = Len(list)
    BY <1>3, <2>3, BeforeCounts
  <2>5. total # None
    BY <1>3, <1>4, PagingAssumption
  <2> QED
    BY <1>4, <2>1, <2>2, <2>4, <2>5
<1>9. CASE answer.more
  <2>1. (cursor + 1) * PageSize < Len(list)
    BY <1>4, <1>9
  <2>2. cursor + 1 < Beyond
    <3>1. (cursor + 1) * PageSize < Cardinality(Reviews)
      BY <1>3, <1>5, <2>1
    <3> QED
      BY <1>5, <3>1, WithinBeyond
  <2>3. PagesLeft
    <3>1. (cursor + 1) * PageSize < MaxPages * PageSize
      BY <1>3, <1>5, <2>1
    <3> QED
      BY <1>4, <1>5, <3>1, Multiples DEF PagesLeft
  <2>4. cursor + 1 \notin cursors /\ cursor + 1 > cursor
    BY <1>4, <1>5
  <2>5. Moves(NextPage)
    BY <1>6, <1>7, <2>4 DEF Moves
  <2> QED
    BY <1>7, <1>9, <2>2, <2>3, <2>5 DEF TurnPage
<1> QED
    BY <1>8, <1>9

LEMMA PageStep ==
    ASSUME PagesSuffice, TypeOK, ManifestInv, PlaceInv, UnchangedInv, PageInv, [Next]_vars
    PROVE  PageInv'
<1> USE DEF Reading, market, itemPlace
<1>1. ShelfOK /\ ProviderOK /\ ItemOK
    BY DEF TypeOK
<1> SUFFICES ASSUME Quiet', phase' \in {"review", "store"}, todo' # {} PROVE PageInv'
    BY DEF PageInv
<1>2. Quiet
    BY QuietBefore
<1>3. CASE UNCHANGED <<phase, todo, listing, itemPlace>>
    BY <1>2, <1>3 DEF PageInv, Item
<1>4. ASSUME phase' = "review", cursor' = 0, cursors' = {}, pages' = 0, seen' = {}, total' = None
      PROVE  PageInv'
  <2>1. ShelfOK' /\ ProviderOK'
    BY ShelfStep, ProviderStep
  <2>2. Item' \in Items
    BY <2>1, FirstIsOf DEF ShelfOK, Item
  <2>6. PICK i \in Items : i = Item'
    BY <2>2
  <2>3. PICK list \in Seq(About(i)) : list = listing'[i]
    BY <2>1, <2>6 DEF ProviderOK
  <2>4. Before(list, 0) = {}
    <3>1. 0 \in Nat /\ 1 \in Nat \ {0}
      OBVIOUS
    <3> QED
      BY <3>1, BeforeGrows
  <2>5. 0 * PageSize = 0
    BY PagingAssumption
  <2> QED
    BY <1>4, <2>3, <2>4, <2>5, <2>6 DEF PageInv
<1>5. CASE DiscoverPage
  <2>1. phase = "discover" /\ UNCHANGED itemPlace
    BY <1>1, <1>5, DiscoverPages
  <2>2. cursor = 0 /\ cursors = {} /\ pages = 0 /\ seen = {} /\ total = None
    BY <2>1 DEF PlaceInv
  <2>3. phase' = "review"
    BY <1>5, <1>1, <2>1, DiscoverPages DEF ShelfEnds, NextShelfPage
  <2> QED
    BY <1>4, <2>1, <2>2, <2>3
<1>6. CASE RequestPage
    BY <1>2, <1>6, QuietPage
<1>7. CASE TurnPage
  <2>1. phase = "store" /\ todo # {} /\ phase' = "review" /\ UNCHANGED listing
    BY <1>7, TurnOrFinish
  <2>2. CASE FinishItem(TRUE)
    BY <1>4, <2>1, <2>2 DEF FinishItem, FreshItem
  <2>3. CASE /\ cursor' = cursor + 1 /\ cursors' = cursors \cup {cursor + 1}
             /\ UNCHANGED <<pages, seen, total, todo, manifest>>
    <3>1. Item' = Item
      BY <2>3 DEF Item
    <3>2. /\ cursors \subseteq 0 .. cursor /\ pages = cursor + 1 /\ total = Len(listing[Item])
          /\ seen = Before(listing[Item], (cursor + 1) * PageSize)
      BY <1>2, <2>1 DEF PageInv
    <3>3. cursor \in Nat
      BY <1>1, BeyondIsNat DEF ItemOK
    <3>4. cursors' \subseteq 0 .. cursor'
      <4>1. \A c \in 0 .. cursor : c \in 0 .. cursor + 1
        BY <3>3
      <4>2. cursor + 1 \in 0 .. cursor + 1
        BY <3>3
      <4> QED
        BY <2>3, <3>2, <4>1, <4>2
    <3> QED
      BY <2>1, <2>3, <3>1, <3>2, <3>4 DEF PageInv
  <2> QED
    BY <1>2, <1>7, <2>2, <2>3, QuietTurn
<1>8. CASE RequestFails \/ StoreFails \/ CollectionEnds \/ BeginBusy \/ RecordCheckpoint \/ Cut
  <2>1. phase' \notin {"review", "store"}
    BY <1>8 DEF RequestFails, StoreFails, CollectionFails, CollectionEnds, BeginBusy,
                RecordCheckpoint, Cut, Forget
  <2> QED
    BY <2>1
<1>9. ASSUME NEW all, NEW ids, Begin(all, ids) PROVE PageInv'
  <2>1. phase' = "review" /\ FreshItem
    BY <1>9 DEF Begin
  <2> QED
    BY <1>4, <2>1 DEF FreshItem
<1>10. CASE StoreReview \/ UNCHANGED vars
  <2>1. UNCHANGED <<phase, todo, listing, itemPlace>>
    BY <1>10 DEF StoreReview, vars
  <2> QED
    BY <1>3, <2>1
<1>11. CASE AddReview \/ RemoveReview
  <2>1. changes \in Nat /\ changes' = changes + 1
    <3>1. changes \in Nat
      BY <1>1, SyncBoundsAssumption DEF ProviderOK
    <3> QED
      BY <1>11, <3>1 DEF AddReview, RemoveReview
  <2> QED
    BY <2>1 DEF Quiet
<1> QED
    BY <1>5, <1>6, <1>7, <1>8, <1>9, <1>10, <1>11 DEF Next, SyncStep

\* A product that is opened is the next one to read.
LEMMA OpenedIsFirst ==
    ASSUME NEW items, NEW ids, NEW p \in DOMAIN Open(items, ids)
    PROVE  \/ ids # {} /\ p = First(ids)
           \/ p \in DOMAIN items /\ Open(items, ids)[p] = items[p]
    BY DEF Open, Marked

LEMMA FinishedStep ==
    ASSUME PagesSuffice, TypeOK, ManifestInv, PlaceInv, FoundInv, QuietInv, [Next]_vars
    PROVE  FinishedInv'
<1> USE DEF Reading
<1>1. ShelfOK /\ ProviderOK /\ RecordOK
    BY DEF TypeOK
<1>2. UnchangedInv /\ ShelfPlaceInv /\ PageInv /\ FinishedInv
    BY DEF QuietInv
<1> SUFFICES ASSUME Quiet' PROVE FinishedInv'
    BY DEF FinishedInv
<1>3. Quiet
    BY QuietBefore
<1>4. CASE UNCHANGED <<phase, run, todo, discoverAll, manifest>>
    BY <1>2, <1>3, <1>4 DEF FinishedInv, Item
<1>5. CASE phase' \in {"idle", "discover"} \/ (phase' = "record" /\ run' # "completed")
    BY <1>5 DEF FinishedInv
<1>6. CASE DiscoverPage
  <2>1. phase = "discover"
    BY <1>6 DEF DiscoverPage
  <2>2. whole
    BY <1>2, <1>3, <2>1 DEF ShelfPlaceInv
  <2>3. CASE ShelfEnds(TRUE)
    <3>1. \/ phase' = "discover"
          \/ phase' = "review" /\ manifest' = [discovered |-> whole', items |-> Open(<<>>, todo')]
      BY <2>1, <2>3 DEF ShelfEnds
    <3>2. CASE phase' = "review" /\ manifest' = [discovered |-> whole', items |-> Open(<<>>, todo')]
      <4>1. whole'
        BY <2>2, <2>3 DEF ShelfEnds
      <4>2. manifest'.discovered = whole' /\ manifest'.items = Open(<<>>, todo')
        BY <3>2
      <4>3. \A i \in DOMAIN manifest'.items : todo' # {} /\ i = First(todo')
        BY <4>2, OpenedIsFirst, NoResults
      <4> QED
        BY <3>2, <4>1, <4>2, <4>3 DEF FinishedInv, Item
    <3> QED
      BY <1>5, <3>1, <3>2
  <2>4. CASE NextShelfPage(offset + ItemPage)
    BY <1>5, <2>1, <2>4 DEF NextShelfPage
  <2> QED
    BY <1>2, <1>3, <1>6, <2>3, <2>4, QuietShelf
<1>7. CASE RequestPage
  <2>1. phase = "review" /\ phase' = "store" /\ UNCHANGED <<run, todo, discoverAll, manifest>>
    BY <1>7 DEF RequestPage, Receive
  <2> QED
    BY <1>2, <1>3, <2>1 DEF FinishedInv, Item
<1>8. CASE TurnPage
  <2>1. phase = "store" /\ phase' = "review" /\ todo # {} /\ Item \in Items
        /\ UNCHANGED <<run, discoverAll>>
    BY <1>8, TurnOrFinish DEF TurnPage
  <2>2. CASE FinishItem(TRUE) /\ total # None /\ Cardinality(seen) = total
    <3>1. PICK i \in Items : i = Item
      BY <2>1
    <3>2. Reconciliation(TRUE) = "matched"
      BY <2>2 DEF Reconciliation
    <3>3. manifest.items \in ItemResults /\ "matched" \in Results
      BY <1>1 DEF RecordOK, ItemResults, Results
    <3>4. PICK marked \in ItemResults : marked = Marked(manifest.items, i, "matched")
      BY <3>3, MarkedResults
    <3>5. /\ marked[i] = "matched" /\ DOMAIN marked = DOMAIN manifest.items \cup {i}
          /\ \A p \in DOMAIN manifest.items : p # i => marked[p] = manifest.items[p]
      BY <3>4 DEF Marked
    <3>6. \A p \in DOMAIN manifest.items : manifest.items[p] = "matched" \/ p = i
      BY <1>2, <1>3, <2>1, <3>1 DEF FinishedInv
    <3>7. \A p \in DOMAIN marked : marked[p] = "matched"
      BY <3>5, <3>6
    <3>8. /\ manifest'.items = Open(marked, todo') /\ manifest'.discovered = manifest.discovered
      BY <2>2, <3>1, <3>2, <3>4 DEF FinishItem, ManifestInv, ShapeInv
    <3>9. \A p \in DOMAIN manifest'.items :
             manifest'.items[p] = "matched" \/ (todo' # {} /\ p = First(todo'))
      BY <3>7, <3>8, OpenedIsFirst
    <3> QED
      BY <1>2, <1>3, <2>1, <3>8, <3>9 DEF FinishedInv, Item
  <2>3. CASE UNCHANGED <<todo, manifest>>
    BY <1>2, <1>3, <2>1, <2>3 DEF FinishedInv, Item
  <2> QED
    BY <1>2, <1>3, <1>8, <2>2, <2>3, QuietTurn
<1>9. CASE CollectionEnds
  <2>1. phase = "review" /\ todo = {} /\ phase' = "record" /\ UNCHANGED <<todo, discoverAll, manifest>>
    BY <1>9 DEF CollectionEnds
  <2> QED
    BY <1>2, <1>3, <2>1 DEF FinishedInv
<1>10. ASSUME NEW all \in BOOLEAN, NEW ids, Begin(all, ids) PROVE FinishedInv'
  <2>1. /\ phase' = IF all THEN "discover" ELSE "review"
        /\ discoverAll' = all /\ todo' = ids
        /\ ~all => manifest'.items = Open(<<>>, ids)
    BY <1>10 DEF Begin, NoManifest
  <2>3. ~all => \A i \in DOMAIN manifest'.items : todo' # {} /\ i = First(todo')
    BY <2>1, OpenedIsFirst, NoResults
  <2>4. CASE all
    BY <1>5, <2>1, <2>4
  <2>5. CASE ~all
    BY <2>1, <2>3, <2>5 DEF FinishedInv, Item
  <2> QED
    BY <2>4, <2>5
<1>11. CASE RequestFails \/ StoreFails \/ BeginBusy \/ RecordCheckpoint \/ Cut
  <2>1. phase' = "idle" \/ (phase' = "record" /\ run' # "completed")
    BY <1>11 DEF RequestFails, StoreFails, CollectionFails, Closes, BeginBusy, RecordCheckpoint, Cut, Forget
  <2> QED
    BY <1>5, <2>1
<1>12. CASE StoreReview \/ AddReview \/ RemoveReview \/ UNCHANGED vars
  <2>1. UNCHANGED <<phase, run, todo, discoverAll, manifest>>
    BY <1>12 DEF StoreReview, AddReview, RemoveReview, vars
  <2> QED
    BY <1>4, <2>1
<1> QED
    BY <1>6, <1>7, <1>8, <1>9, <1>10, <1>11, <1>12, CallsAssumption DEF Next, SyncStep

-----------------------------------------------------------------------------

\* Nothing is reported incomplete without a reason: where no list is longer
\* than the pages that may be read, a full sync of a quiet source is complete.
THEOREM QuietIsComplete ==
    ASSUME PagesSuffice PROVE Spec => []QuietSyncIsComplete
<1>1. Init => SyncInv /\ QuietInv
  <2>1. ASSUME Init PROVE QuietInv
    <3>1. phase = "idle" /\ oddShelf = FALSE /\ listing = [i \in Items |-> FirstReviews[i]]
      BY <2>1 DEF Init
    <3>2. UnchangedInv
      BY <3>1 DEF UnchangedInv
    <3> QED
      BY <3>1, <3>2 DEF QuietInv, ShelfPlaceInv, PageInv, FinishedInv, Reading
  <2> QED
    BY <2>1, SyncInit
<1>2. (SyncInv /\ QuietInv) /\ [Next]_vars => (SyncInv /\ QuietInv)'
  <2> SUFFICES ASSUME SyncInv, QuietInv, [Next]_vars PROVE SyncInv' /\ QuietInv'
    OBVIOUS
  <2>1. SyncInv'
    BY SyncInvStep
  <2>2. TypeOK /\ ManifestInv /\ PlaceInv /\ FoundInv
    BY DEF SyncInv
  <2>3. UnchangedInv' /\ ShelfPlaceInv' /\ PageInv' /\ FinishedInv'
    BY <2>2, UnchangedStep, ShelfPlaceStep, PageStep, FinishedStep DEF QuietInv
  <2> QED
    BY <2>1, <2>3 DEF QuietInv
<1>3. SyncInv /\ QuietInv => QuietSyncIsComplete
  <2> SUFFICES ASSUME SyncInv, QuietInv, phase = "record", run = "completed", discoverAll,
                      totals, changes = 0, odd = 0
               PROVE  SourceComplete
    BY DEF QuietSyncIsComplete
  <2>1. todo = {}
    BY DEF SyncInv, PlaceInv
  <2> QED
    BY <2>1 DEF QuietInv, FinishedInv, Quiet, Reading, SourceComplete
<1> QED
    BY <1>1, <1>2, <1>3, PTL DEF Spec
=============================================================================
