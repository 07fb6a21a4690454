------------------------- MODULE ListingSearchProofs -------------------------
(***************************************************************************)
(* What ListingSearch guarantees for any listings, searches and writes.    *)
(*                                                                         *)
(* All of it is said in terms of ranks: the number of results sorted       *)
(* before a listing.  Every ORDER BY ends with id, so a listing's rank is  *)
(* its place in whichever ordering Postgres takes, a page is a range of    *)
(* ranks, and a listing's rank grows only when others enter the result and *)
(* shrinks only when others leave it.                                      *)
(***************************************************************************)
EXTENDS ListingSearch, FiniteSetTheorems, SequenceTheorems, TLAPS

USE QueryAssumption, SearchAssumption

Unique(rows) == \A k, l \in rows : k.id = l.id => k = l

Sortable(g, sort, rows) == \A l \in rows : l.id \in Int /\ SortKey(g, sort, l) \in Int

RankIn(g, sort, rows, l) == Cardinality({k \in rows : Before(g, sort, k, l)})

----------------------------------------------------------------------------
\* Any two listings are told apart by the ordering.
LEMMA TotalOrder ==
    ASSUME NEW g, NEW sort, NEW rows, Sortable(g, sort, rows), Unique(rows),
           NEW x \in rows, NEW y \in rows
    PROVE  /\ ~(Before(g, sort, x, y) /\ Before(g, sort, y, x))
           /\ x # y => Before(g, sort, x, y) \/ Before(g, sort, y, x)
  BY DEF Before, TieBreak, Sortable, Unique

\* A listing's rank is its place in every ordering.
LEMMA PlaceIsRank ==
    ASSUME NEW g, NEW sort, NEW rows, IsFiniteSet(rows),
           Sortable(g, sort, rows), Unique(rows), NEW s \in Orderings(g, sort, rows)
    PROVE  /\ s \in [1..Cardinality(rows) -> rows]
           /\ \A l \in rows : \E i \in 1..Cardinality(rows) : s[i] = l
           /\ \A i \in 1..Cardinality(rows) : RankIn(g, sort, rows, s[i]) = i - 1
  <1> DEFINE n == Cardinality(rows)
  <1>1. n \in Nat
    BY FS_CardinalityType
  <1>2. /\ s \in [1..n -> rows]
        /\ \A i, j \in 1..n : i # j => s[i] # s[j]
        /\ \A i, j \in 1..n : i < j => ~Before(g, sort, s[j], s[i])
    BY DEF Orderings, SetToSeqs
  <1> HIDE DEF n
  <1>3. IsFiniteSet(1..n) /\ Cardinality(1..n) = n
    BY <1>1, FS_Interval
  <1>4. s \in Surjection(1..n, rows)
    <2>1. s \in Injection(1..n, rows)
      BY <1>2 DEF Injection, IsInjective
    <2> QED
      BY <1>3, <2>1, FS_Injection DEF n
  <1>5. \A l \in rows : \E i \in 1..n : s[i] = l
    BY <1>4 DEF Surjection
  <1>6. ASSUME NEW i \in 1..n
        PROVE  RankIn(g, sort, rows, s[i]) = i - 1
    <2> DEFINE before == {k \in rows : Before(g, sort, k, s[i])}
               b == [j \in 1..(i - 1) |-> s[j]]
    <2>1. \A j \in 1..n : s[j] \in before <=> j < i
      BY <1>1, <1>2, TotalOrder
    <2>2. \A k \in before : \E j \in 1..(i - 1) : s[j] = k
      BY <1>1, <1>5, <2>1
    <2>3. i - 1 \in Nat /\ \A j \in 1..(i - 1) : j \in 1..n /\ j < i
      BY <1>1
    <2>4. b \in [1..(i - 1) -> before]
      BY <2>1, <2>3
    <2>5. \A j, k \in 1..(i - 1) : b[j] = b[k] => j = k
      BY <1>2, <2>3
    <2>6. b \in Bijection(1..(i - 1), before)
      <3> HIDE DEF before
      <3>1. b \in Injection(1..(i - 1), before)
        BY <2>4, <2>5 DEF Injection, IsInjective
      <3>2. b \in Surjection(1..(i - 1), before)
        BY <2>2, <2>4 DEF Surjection
      <3> QED
        BY <3>1, <3>2 DEF Bijection
    <2>7. Cardinality(before) = i - 1
      <3> HIDE DEF before, b
      <3> QED
        BY <2>3, <2>6, FS_CountingElements DEF ExistsBijection
    <2> QED
      BY <2>7 DEF RankIn
  <1> QED
    BY <1>2, <1>5, <1>6 DEF n

\* Ranks begin at 0, and the last one is one less than the number of listings.
LEMMA RankRange ==
    ASSUME NEW g, NEW sort, NEW rows, IsFiniteSet(rows), NEW l
    PROVE  /\ RankIn(g, sort, rows, l) \in Nat
           /\ Sortable(g, sort, rows) /\ Unique(rows) /\ l \in rows
                => RankIn(g, sort, rows, l) < Cardinality(rows)
  <1> DEFINE before == {k \in rows : Before(g, sort, k, l)}
  <1>1. before \in SUBSET rows
    OBVIOUS
  <1>2. IsFiniteSet(before) /\ Cardinality(before) <= Cardinality(rows)
        /\ (Cardinality(rows) = Cardinality(before) => rows = before)
    BY <1>1, FS_Subset
  <1>3. Cardinality(before) \in Nat /\ Cardinality(rows) \in Nat
    BY <1>2, FS_CardinalityType
  <1>4. Sortable(g, sort, rows) /\ Unique(rows) /\ l \in rows => l \notin before
    BY TotalOrder
  <1> QED
    BY <1>2, <1>3, <1>4 DEF RankIn

\* A page is a range of ranks, in order.
LEMMA PageIsRange ==
    ASSUME NEW rows, NEW g, NEW sort, NEW limit \in Nat \ {0}, NEW offset \in Nat,
           IsFiniteSet(rows), Sortable(g, sort, Matching(rows, g)), Unique(Matching(rows, g)),
           NEW d \in SearchStatement(rows, g, sort, limit, offset)
    PROVE  /\ d \in Seq(Matching(rows, g))
           /\ d = <<>> <=> Cardinality(Matching(rows, g)) <= offset
           /\ d # <<>> => Len(d) = IF offset + limit < Cardinality(Matching(rows, g))
                                   THEN limit ELSE Cardinality(Matching(rows, g)) - offset
           /\ \A i \in 1..Len(d) : RankIn(g, sort, Matching(rows, g), d[i]) = offset + i - 1
           /\ ToSet(d) = {l \in Matching(rows, g) :
                             RankIn(g, sort, Matching(rows, g), l) \in offset .. offset + limit - 1}
  <1> DEFINE match == Matching(rows, g)
             n == Cardinality(match)
             end == IF offset + limit < n THEN offset + limit ELSE n
  <1>1. IsFiniteSet(match)
    BY FS_Subset DEF Matching
  <1>2. n \in Nat
    BY <1>1, FS_CardinalityType
  <1>3. PICK s \in Orderings(g, sort, match) : d = Slice(s, limit, offset)
    BY DEF SearchStatement
  <1> HIDE DEF match
  <1>4. /\ s \in [1..n -> match]
        /\ \A l \in match : \E i \in 1..n : s[i] = l
        /\ \A i \in 1..n : RankIn(g, sort, match, s[i]) = i - 1
    BY <1>1, PlaceIsRank DEF match
  <1> HIDE DEF n
  <1>5. Len(s) = n
    BY <1>2, <1>4
  <1>6. d = SubSeq(s, offset + 1, end)
    BY <1>3, <1>5 DEF Slice
  <1>7. end \in Int /\ end <= n
    BY <1>2
  <1>8. /\ d \in Seq(match)
        /\ Len(d) = IF offset + 1 <= end THEN end - offset ELSE 0
        /\ \A i \in 1..(end - offset) : d[i] = s[offset + i]
    <2>1. \A i \in offset + 1 .. end : s[i] \in match
      BY <1>2, <1>4, <1>7
    <2> HIDE DEF end
    <2>2. /\ d \in Seq(match)
          /\ Len(d) = IF offset + 1 <= end THEN end - (offset + 1) + 1 ELSE 0
          /\ \A i \in 1 .. end - (offset + 1) + 1 : d[i] = s[(offset + 1) + i - 1]
      BY <1>6, <1>7, <2>1, SubSeqProperties
    <2>3. ASSUME NEW i \in 1..(end - offset)
          PROVE  d[i] = s[offset + i]
      <3>1. i \in 1 .. end - (offset + 1) + 1 /\ (offset + 1) + i - 1 = offset + i
        BY <1>7
      <3> QED
        BY <2>2, <3>1
    <2> QED
      BY <1>7, <2>2, <2>3
  <1>9. \A i \in 1..Len(d) : /\ i \in 1..(end - offset)
                             /\ offset + i \in 1..n
    BY <1>2, <1>7, <1>8
  <1>10. ASSUME NEW i \in 1..Len(d)
         PROVE  RankIn(g, sort, match, d[i]) = offset + i - 1
    <2>1. d[i] = s[offset + i] /\ offset + i \in 1..n
      BY <1>8, <1>9
    <2>2. RankIn(g, sort, match, s[offset + i]) = (offset + i) - 1
      BY <1>4, <2>1
    <2> QED
      BY <2>1, <2>2
  <1>11. d = <<>> <=> n <= offset
    <2>1. d = <<>> <=> Len(d) = 0
      BY <1>8, EmptySeq
    <2> QED
      BY <1>2, <1>8, <2>1
  <1>12. d # <<>> => Len(d) = IF offset + limit < n THEN limit ELSE n - offset
    BY <1>2, <1>8, <1>11
  <1>13. ToSet(d) = {l \in match : RankIn(g, sort, match, l) \in offset .. offset + limit - 1}
    <2>1. DOMAIN d = 1..Len(d) /\ Len(d) \in Nat
      BY <1>8
    <2>2. \A i \in 1..Len(d) : /\ d[i] \in match
                               /\ offset + i - 1 \in offset .. offset + limit - 1
      BY <1>2, <1>8
    <2>3. ASSUME NEW l \in match, RankIn(g, sort, match, l) \in offset .. offset + limit - 1
          PROVE  \E i \in 1..Len(d) : d[i] = l
      <3>1. PICK k \in 1..n : s[k] = l
        BY <1>4
      <3>2. k - 1 \in offset .. offset + limit - 1
        BY <1>4, <2>3, <3>1
      <3>3. k - offset \in 1..(end - offset) /\ k - offset \in 1..Len(d)
        BY <1>2, <1>8, <3>2
      <3>4. d[k - offset] = s[offset + (k - offset)]
        BY <1>8, <3>3
      <3> QED
        BY <3>1, <3>3, <3>4
    <2> QED
      BY <1>10, <2>1, <2>2, <2>3 DEF ToSet
  <1> QED
    BY <1>8, <1>10, <1>11, <1>12, <1>13 DEF match, n

----------------------------------------------------------------------------
\* Parameters that were accepted: the OFFSET is a natural number, and there is a
\* point to sort by distance from.
LEMMA Accepted ==
    ASSUME NEW p \in Parameters, ValidSearch(p)
    PROVE  /\ p.page \in Nat \ {0} /\ p.page_size \in Nat \ {0}
           /\ Offset(p) \in Nat
           /\ p.sort = "distance" => Filters(p).geo \in Point
  <1>1. p.page \in Nat \ {0} /\ p.page_size \in Nat \ {0}
    BY DEF Parameters, ValidSearch, ValidPage
  <1>2. Offset(p) \in Nat
    <2>1. \A a, b \in Nat : a * b \in Nat
      OBVIOUS
    <2>2. p.page - 1 \in Nat
      BY <1>1
    <2> QED
      BY <1>1, <2>1, <2>2 DEF Offset
  <1>3. p.sort = "distance" => Filters(p).geo \in Point
    BY DEF Parameters, Optional, ValidSearch, ValidCombinations, Filters, Point
  <1> QED
    BY <1>1, <1>2, <1>3

LEMMA NextParameters ==
    ASSUME NEW p \in Parameters
    PROVE  [p EXCEPT !.page = @ + 1] \in Parameters
  <1>1. p.page + 1 \in Int
    BY DEF Parameters
  <1> QED
    BY <1>1, Zenon DEF Parameters

LEMMA ListingTyped ==
    ASSUME NEW l \in Listings
    PROVE  /\ l.id \in Id /\ l.id \in Int /\ l.created_at \in Int /\ l.price \in Int
           /\ l.lat \in Int /\ l.lng \in Int
  BY DEF Listings, Listing

LEMMA ListingMade ==
    ASSUME NEW id \in Id, NEW s \in Stamp, NEW c \in Contents
    PROVE  /\ Listing(id, s, c) \in Listings
           /\ Listing(id, s, c).id = id /\ Listing(id, s, c).created_at = s
  <1>1. Listing(id, s, c) \in Listings
    BY DEF Listings
  <1> QED
    BY <1>1 DEF Listing

\* Every result can be sorted.
LEMMA ResultsSortable ==
    ASSUME NEW p \in Parameters, ValidSearch(p), NEW rows, rows \subseteq Listings
    PROVE  Sortable(Filters(p), p.sort, rows)
  <1> SUFFICES ASSUME NEW l \in rows
               PROVE  l.id \in Int /\ SortKey(Filters(p), p.sort, l) \in Int
    BY DEF Sortable
  <1>1. l.id \in Int /\ l.created_at \in Int /\ l.price \in Int /\ l.lat \in Int /\ l.lng \in Int
    BY ListingTyped
  <1>2. p.sort \in {"distance", "price_asc", "price_desc", "newest"}
    BY DEF Parameters
  <1>3. CASE p.sort = "distance"
    <2>1. Filters(p).geo \in Point
      BY <1>3, Accepted
    <2>2. Distance(l, Filters(p).geo) \in Int
      <3> DEFINE geo == Filters(p).geo
      <3> HIDE DEF geo
      <3>1. geo.lat \in Int /\ geo.lng \in Int
        BY <2>1 DEF Point, geo
      <3> QED
        BY <1>1, <3>1 DEF Distance, geo
    <2> QED
      BY <1>1, <1>3, <2>2 DEF SortKey
  <1>4. CASE p.sort # "distance"
    BY <1>1, <1>2, <1>4 DEF SortKey
  <1> QED
    BY <1>3, <1>4

\* Rows with ids of their own are no more than there are ids.
LEMMA RowsFinite ==
    ASSUME NEW rows, rows \subseteq Listings, Unique(rows)
    PROVE  /\ IsFiniteSet(rows)
           /\ Cardinality(rows) \in 0..Cardinality(Id)
           /\ Cardinality(IdsOf(rows)) = Cardinality(rows)
  <1> DEFINE idOf == [l \in rows |-> l.id]
  <1>1. idOf \in Injection(rows, Id)
    BY ListingTyped DEF Unique, Injection, IsInjective
  <1>2. IsFiniteSet(rows) /\ Cardinality(rows) <= Cardinality(Id)
    BY <1>1, FS_Injection
  <1>3. Cardinality(rows) \in Nat /\ Cardinality(Id) \in Nat
    BY <1>2, FS_CardinalityType
  <1>4. idOf \in Bijection(rows, IdsOf(rows))
    BY DEF IdsOf, Unique, Bijection, Injection, Surjection, IsInjective
  <1>5. Cardinality(IdsOf(rows)) = Cardinality(rows)
    BY <1>2, <1>4, FS_Bijection DEF ExistsBijection
  <1> QED
    BY <1>2, <1>3, <1>5

----------------------------------------------------------------------------
(***************************************************************************)
(* The inductive invariant: listings have ids of their own, what was       *)
(* accepted stays acceptable from page to page, and a page is fetched only *)
(* if it is not past the count.                                            *)
(***************************************************************************)
AtWork == pc \in {"asked", "counted", "answered"}

IInv ==
    /\ TypeOK
    /\ Unique(listings)
    /\ params \in Parameters
    /\ AtWork => ValidSearch(params)
    /\ data \in Seq(Listings) /\ seen \in Seq(Listings)
    /\ pc = "counted" => Offset(params) < total

LEMMA InSeq ==
    ASSUME NEW s \in Seq(Listings)
    PROVE  ToSet(s) \subseteq Listings /\ Len(s) \in Nat /\ DOMAIN s = 1..Len(s)
  BY DEF ToSet

LEMMA InitIInv == Init => IInv
  <1> SUFFICES ASSUME Init PROVE IInv
    OBVIOUS
  <1>1. PICK ids \in SUBSET Id :
             \E stamp \in [ids -> Stamp], contents \in [ids -> Contents] :
                listings = {Listing(id, stamp[id], contents[id]) : id \in ids}
    BY DEF Init
  <1>3. PICK stamp \in [ids -> Stamp], contents \in [ids -> Contents] :
             listings = {Listing(id, stamp[id], contents[id]) : id \in ids}
    BY <1>1
  <1>2. \A id \in ids : /\ Listing(id, stamp[id], contents[id]) \in Listings
                        /\ Listing(id, stamp[id], contents[id]).id = id
    BY ListingMade
  <1>4. listings \subseteq Listings /\ Unique(listings)
    BY <1>2, <1>3 DEF Unique
  <1>5. Cardinality(IdsOf(listings)) = Cardinality(listings)
    BY <1>4, RowsFinite
  <1>6. params \in Parameters
    BY DEF Init, ListParams, Parameters, Optional
  <1>7. data \in Seq(Listings) /\ seen \in Seq(Listings)
    BY DEF Init
  <1>8. 0 \in 0..Cardinality(Id)
    BY FS_CardinalityType
  <1>9. TypeOK
    <2>1. ToSet(data) \cup ToSet(seen) \subseteq Listings
      BY <1>7, InSeq
    <2>2. total \in 0..Cardinality(Id) /\ writes \in 0..MaxWrites
      BY <1>8 DEF Init
    <2>3. /\ pc = "idle" /\ first = 1 /\ origin = {} /\ effects = {} /\ steady = FALSE
      BY DEF Init
    <2> QED
      BY <1>4, <1>5, <2>1, <2>2, <2>3 DEF TypeOK
  <1> QED
    BY <1>4, <1>6, <1>7, <1>9 DEF Init, IInv, AtWork

\* What is known of the result while a request is under way.
LEMMA ResultFacts ==
    ASSUME IInv, AtWork
    PROVE  /\ Results \subseteq Listings /\ IsFiniteSet(Results) /\ Unique(Results)
           /\ Sortable(f, params.sort, Results)
           /\ Cardinality(Results) \in 0..Cardinality(Id) /\ Cardinality(Id) \in Nat
  <1>1. Results \subseteq Listings /\ Unique(Results)
    BY DEF IInv, TypeOK, Results, Matching, Unique
  <1>2. Sortable(f, params.sort, Results)
    BY <1>1, ResultsSortable DEF IInv, f
  <1> QED
    BY <1>1, <1>2, RowsFinite, FS_CardinalityType

LEMMA AskStep ==
    ASSUME IInv, Ask
    PROVE  IInv'
  <1> USE DEF Ask, history
  <1>1. PICK p \in Search :
          /\ params' = p
          /\ \/ /\ ~ValidSearch(p)
                /\ pc' = "refused"
                /\ UNCHANGED history
             \/ /\ ValidSearch(p)
                /\ pc' = "asked"
                /\ first' = p.page
                /\ origin' = IdsOf(Matching(listings, Filters(p)))
    OBVIOUS
  <1>2. p \in Parameters
    OBVIOUS
  <1>3. ValidSearch(p) => p.page \in Nat
    BY <1>2, Accepted
  <1>4. IdsOf(Matching(listings, Filters(p))) \subseteq Id
    BY ListingTyped DEF IdsOf, Matching, IInv, TypeOK
  <1>5. TypeOK'
    BY <1>1, <1>3, <1>4 DEF IInv, TypeOK, IdsOf
  <1> QED
    BY <1>1, <1>2, <1>5 DEF IInv, AtWork

LEMMA CountStep ==
    ASSUME IInv, Count
    PROVE  IInv'
  <1> USE DEF Count, history
  <1>1. AtWork
    BY DEF AtWork
  <1>2. Cardinality(Results) \in 0..Cardinality(Id) /\ Cardinality(Id) \in Nat
    BY <1>1, ResultFacts
  <1>3. Offset(params) \in Nat
    BY <1>1, Accepted DEF IInv
  <1>4. <<>> \in Seq(Listings) /\ ToSet(<<>>) = {}
    BY DEF ToSet
  <1>5. TypeOK'
    BY <1>2, <1>4 DEF IInv, TypeOK, IdsOf
  <1>6. pc' = "counted" => Offset(params) < total'
    BY <1>2, <1>3
  <1> QED
    BY <1>1, <1>4, <1>5, <1>6 DEF IInv, AtWork, Offset

LEMMA FetchedPage ==
    ASSUME IInv, Fetch
    PROVE  /\ data' \in Seq(Results)
           /\ data' = <<>> <=> Cardinality(Results) <= Offset(params)
           /\ data' # <<>> => Len(data') = IF Offset(params) + params.page_size < Cardinality(Results)
                                           THEN params.page_size
                                           ELSE Cardinality(Results) - Offset(params)
           /\ \A i \in 1..Len(data') : Rank(data'[i]) = Offset(params) + i - 1
           /\ ToSet(data') = {l \in Results : Rank(l) \in Offset(params)
                                                 .. Offset(params) + params.page_size - 1}
           /\ data' \in Seq(Listings) /\ seen' \in Seq(Listings)
  <1>1. AtWork
    BY DEF AtWork, Fetch
  <1>2. Offset(params) \in Nat /\ params.page_size \in Nat \ {0}
    BY <1>1, Accepted DEF IInv
  <1>3. IsFiniteSet(listings)
    BY RowsFinite DEF IInv, TypeOK
  <1>4. \A l : Rank(l) = RankIn(f, params.sort, Results, l)
    BY DEF Rank, RankIn
  <1>5. /\ data' \in Seq(Results)
        /\ data' = <<>> <=> Cardinality(Results) <= Offset(params)
        /\ data' # <<>> => Len(data') = IF Offset(params) + params.page_size < Cardinality(Results)
                                        THEN params.page_size
                                        ELSE Cardinality(Results) - Offset(params)
        /\ \A i \in 1..Len(data') :
              RankIn(f, params.sort, Results, data'[i]) = Offset(params) + i - 1
        /\ ToSet(data') = {l \in Results : RankIn(f, params.sort, Results, l)
                               \in Offset(params) .. Offset(params) + params.page_size - 1}
    <2>1. data' \in SearchStatement(listings, f, params.sort, params.page_size, Offset(params))
      BY DEF Fetch
    <2>2. /\ Sortable(f, params.sort, Matching(listings, f))
          /\ Unique(Matching(listings, f))
      BY <1>1, ResultFacts DEF Results
    <2> HIDE DEF f
    <2> QED
      BY <1>2, <1>3, <2>1, <2>2, PageIsRange DEF Results
  <1>6. data' \in Seq(Listings)
    BY <1>1, <1>5, ResultFacts, SeqMonotonic
  <1>7. seen' \in Seq(Listings)
    BY <1>6, ConcatProperties DEF Fetch, IInv
  <1> QED
    BY <1>4, <1>5, <1>6, <1>7

LEMMA FetchStep ==
    ASSUME IInv, Fetch
    PROVE  IInv'
  <1>1. data' \in Seq(Listings) /\ seen' \in Seq(Listings)
    BY FetchedPage
  <1>2. ToSet(data)' \cup ToSet(seen)' \subseteq Listings
    BY <1>1, InSeq DEF ToSet
  <1>3. /\ pc = "counted" /\ pc' = "answered"
        /\ UNCHANGED <<listings, params, total, first, origin, effects, steady, writes>>
    BY DEF Fetch, history
  <1>4. TypeOK'
    BY <1>2, <1>3 DEF IInv, TypeOK, IdsOf
  <1> QED
    BY <1>1, <1>3, <1>4 DEF IInv, AtWork

LEMMA ClientStep ==
    ASSUME IInv, Retry \/ NextPage
    PROVE  IInv'
  <1> USE DEF history
  <1>1. UNCHANGED <<listings, total, data, seen, first, origin, effects, steady, writes>>
    BY DEF Retry, NextPage
  <1>2. TypeOK'
    BY <1>1 DEF IInv, TypeOK, IdsOf, ToSet, Retry, NextPage
  <1>3. params' \in Parameters /\ (AtWork' => ValidSearch(params)')
    <2>1. CASE params' = params /\ pc' \in {"asked", "done"} /\ AtWork
      BY <2>1 DEF IInv, ValidSearch, ValidPage, ValidCombinations
    <2>2. CASE params' = [params EXCEPT !.page = @ + 1] /\ AtWork
      <3>1. params' \in Parameters
        BY <2>2, NextParameters DEF IInv
      <3>2. /\ params'.page = params.page + 1 /\ params'.page_size = params.page_size
            /\ params'.lat = params.lat /\ params'.lng = params.lng
            /\ params'.radius_km = params.radius_km /\ params'.sort = params.sort
            /\ params'.min_price = params.min_price /\ params'.max_price = params.max_price
            /\ params'.min_bedrooms = params.min_bedrooms
            /\ params'.max_bedrooms = params.max_bedrooms
        BY <2>2 DEF IInv, Parameters
      <3>3. ValidSearch(params) /\ params.page \in Int
        BY <2>2 DEF IInv, Parameters
      <3>4. ValidPage(params') /\ ValidCombinations(params')
        <4>1. ValidPage(params) /\ ValidCombinations(params)
          BY <3>3 DEF ValidSearch
        <4>2. ValidPage(params')
          BY <3>2, <3>3, <4>1 DEF ValidPage
        <4>3. ValidCombinations(params')
          BY <3>2, <4>1 DEF ValidCombinations
        <4> QED
          BY <4>2, <4>3
      <3>5. ValidSearch(params')
        BY <3>2, <3>3, <3>4 DEF ValidSearch
      <3> QED
        BY <3>1, <3>5
    <2>3. \/ params' = params /\ pc' \in {"asked", "done"} /\ AtWork
          \/ params' = [params EXCEPT !.page = @ + 1] /\ AtWork
      BY DEF Retry, NextPage, AtWork
    <2> QED
      BY <2>1, <2>2, <2>3
  <1> QED
    BY <1>1, <1>2, <1>3 DEF IInv, Retry, NextPage

LEMMA WriteStep ==
    ASSUME IInv, Create \/ Change \/ Delete
    PROVE  IInv' /\ AtWork /\ Write(listings')
  <1>1. /\ Write(listings')
        /\ listings' \subseteq Listings /\ Unique(listings')
    <2>1. CASE Create
      <3>1. PICK id \in Id \ IdsOf(listings), s \in Stamp, c \in Contents :
              Write(listings \cup {Listing(id, s, c)})
        BY <2>1 DEF Create
      <3>2. listings' = listings \cup {Listing(id, s, c)}
        BY <3>1 DEF Write
      <3>3. Listing(id, s, c) \in Listings /\ Listing(id, s, c).id = id
        BY ListingMade
      <3>4. \A l \in listings : l.id # id
        BY DEF IdsOf
      <3> QED
        BY <3>1, <3>2, <3>3, <3>4 DEF IInv, TypeOK, Unique
    <2>2. CASE Change
      <3>1. PICK l \in listings, c \in Contents :
              Write((listings \ {l}) \cup {Listing(l.id, l.created_at, c)})
        BY <2>2 DEF Change
      <3>2. listings' = (listings \ {l}) \cup {Listing(l.id, l.created_at, c)}
        BY <3>1 DEF Write
      <3>3. PICK id \in Id, s \in Stamp, d \in Contents : l = Listing(id, s, d)
        BY DEF IInv, TypeOK, Listings
      <3>4. l.id = id /\ l.created_at = s
        BY <3>3, ListingMade
      <3>5. Listing(l.id, l.created_at, c) \in Listings /\ Listing(l.id, l.created_at, c).id = l.id
        BY <3>4, ListingMade
      <3> QED
        BY <3>1, <3>2, <3>5 DEF IInv, TypeOK, Unique
    <2>3. CASE Delete
      <3>1. PICK l \in listings : Write(listings \ {l})
        BY <2>3 DEF Delete
      <3>2. listings' = listings \ {l}
        BY <3>1 DEF Write
      <3> QED
        BY <3>1, <3>2 DEF IInv, TypeOK, Unique
    <2> QED
      BY <2>1, <2>2, <2>3
  <1>2. /\ AtWork /\ writes' = writes + 1 /\ writes < MaxWrites
        /\ UNCHANGED <<pc, params, total, data, seen, first, origin>>
    BY <1>1 DEF Write, AtWork, request, history
  <1>3. Cardinality(IdsOf(listings))' = Cardinality(listings)'
    BY <1>1, RowsFinite DEF IdsOf
  <1>4. effects' \subseteq {"enters", "leaves"} /\ steady' \in BOOLEAN
    BY <1>1 DEF Write, Effect, IInv, TypeOK
  <1>5. TypeOK'
    BY <1>1, <1>2, <1>3, <1>4 DEF IInv, TypeOK, ToSet
  <1> QED
    BY <1>1, <1>2, <1>5 DEF IInv, AtWork, Unique

LEMMA NextIInv == IInv /\ [Next]_vars => IInv'
  <1>1. IInv /\ UNCHANGED vars => IInv'
    BY DEF vars, request, history, IInv, TypeOK, IdsOf, ToSet, AtWork
  <1> QED
    BY <1>1, AskStep, CountStep, FetchStep, ClientStep, WriteStep DEF Next

----------------------------------------------------------------------------
\* Listings keep ids of their own, and a client its accepted parameters.
THEOREM SearchInvariance == Spec => []IInv
  BY InitIInv, NextIInv, PTL DEF Spec

\* Every variable keeps its type, whatever is written meanwhile.
THEOREM SearchTypeCorrect == Spec => []TypeOK
  BY SearchInvariance, PTL DEF IInv

\* Whatever page is asked for, Postgres accepts the OFFSET and can sort.
THEOREM SoundStatements == Spec => []StatementIsSound
  <1>1. IInv => StatementIsSound
    <2> SUFFICES ASSUME IInv, pc = "counted" PROVE StatementIsSound
      BY DEF StatementIsSound
    <2>1. Offset(params) \in Nat /\ (params.sort = "distance" => f.geo \in Point)
      BY Accepted DEF IInv, AtWork, f
    <2>2. Offset(params) < total /\ total \in 0..Cardinality(Id)
      BY DEF IInv, TypeOK
    <2>3. Cardinality(Id) \in Nat
      BY FS_CardinalityType
    <2> QED
      BY <2>1, <2>2, <2>3 DEF StatementIsSound
  <1> QED
    BY <1>1, SearchInvariance, PTL

----------------------------------------------------------------------------
(***************************************************************************)
(* A page whose count saw the same result is exact.                        *)
(***************************************************************************)
\* math.ceil: the pages that are past the end are those after the last one.
LEMMA PagesPastTheEnd ==
    ASSUME NEW n \in Nat, NEW b \in Nat \ {0}, NEW p \in Nat \ {0}
    PROVE  p > TotalPages(n, b) <=> n <= (p - 1) * b
  <1> DEFINE q == (n + b - 1) \div b
  <1>1. q \in Int /\ b * q <= n + b - 1 /\ n + b - 1 < b * q + b
    <2> DEFINE r == (n + b - 1) % b
    <2>1. q \in Int /\ r \in 0..(b - 1) /\ n + b - 1 = b * q + r
      OBVIOUS
    <2> HIDE DEF q, r
    <2>2. b * q \in Int
      BY <2>1
    <2> QED
      BY <2>1, <2>2
  <1> HIDE DEF q
  <1>2. ASSUME NEW i \in Int, NEW j \in Int, i <= j
        PROVE  b * i <= b * j
    <2>1. j - i \in Nat
      BY <1>2
    <2>2. b * (j - i) >= 0
      BY <2>1
    <2>3. b * (j - i) = b * j - b * i
      OBVIOUS
    <2>4. b * i \in Int /\ b * j \in Int
      OBVIOUS
    <2> QED
      BY <2>2, <2>3, <2>4
  <1>3. b * (p - 1) = (p - 1) * b /\ b * q \in Int /\ b * (p - 1) \in Int
    BY <1>1
  <1>4. ASSUME p > q PROVE n <= b * (p - 1)
    <2>1. b * q <= b * (p - 1)
      BY <1>1, <1>2, <1>4
    <2> QED
      BY <1>1, <1>3, <2>1
  <1>5. ASSUME p <= q PROVE b * (p - 1) < n
    <2>1. b * p <= b * q
      BY <1>1, <1>2, <1>5
    <2>2. b * (p - 1) = b * p - b /\ b * p \in Int
      OBVIOUS
    <2> QED
      BY <1>1, <1>3, <2>1, <2>2
  <1>6. p > q \/ p <= q
    BY <1>1
  <1> QED
    BY <1>1, <1>3, <1>4, <1>5, <1>6 DEF TotalPages, q

\* Writes that do not touch the result leave every rank as it is.
LEMMA SameResults ==
    ASSUME UNCHANGED params, Results' = Results
    PROVE  \A l : Rank(l)' = Rank(l)
  BY DEF Rank, f

Exact ==
    LET low == (params.page - 1) * params.page_size
    IN  /\ total = Cardinality(Results)
        /\ ToSet(data) = {l \in Results : Rank(l) \in low .. low + params.page_size - 1}
        /\ \A i \in DOMAIN data : Rank(data[i]) = low + i - 1
        /\ data = <<>> <=> params.page > TotalPages(total, params.page_size)

Counted == pc = "counted" /\ steady => total = Cardinality(Results)

\* A page past the end is answered from the count.
LEMMA CountIsExact ==
    ASSUME IInv, Count
    PROVE  Counted' /\ SteadyAnswerIsExact'
  <1> USE DEF Count, history
  <1>1. AtWork
    BY DEF AtWork
  <1>2. /\ Offset(params) \in Nat /\ params.page \in Nat \ {0}
        /\ params.page_size \in Nat \ {0}
    BY <1>1, Accepted DEF IInv
  <1>3. IsFiniteSet(Results) /\ Cardinality(Results) \in Nat
    BY <1>1, ResultFacts
  <1>4. Results' = Results /\ \A l : Rank(l)' = Rank(l)
    <2>1. Results' = Results
      BY DEF Results, f
    <2> QED
      BY <2>1, SameResults
  <1>5. total' = Cardinality(Results)'
    BY <1>4
  <1>6. ASSUME pc' = "answered" PROVE Exact'
    <2>1. Cardinality(Results) <= Offset(params)
      BY <1>2, <1>3, <1>6
    <2>2. \A l \in Results : Rank(l) \in Nat /\ Rank(l) < Cardinality(Results)
      BY <1>1, <1>3, ResultFacts, RankRange DEF Rank, RankIn
    <2>3. ToSet(data') = {} /\ DOMAIN data' = {}
      BY DEF ToSet
    <2>4. \A l \in Results : Rank(l) \notin Offset(params) .. Offset(params) + params.page_size - 1
      BY <1>2, <1>3, <2>1, <2>2
    <2>5. params.page > TotalPages(total', params.page_size)
      BY <1>2, <1>3, <2>1, PagesPastTheEnd DEF Offset
    <2> QED
      BY <1>4, <1>5, <2>3, <2>4, <2>5 DEF Exact, Offset
  <1> QED
    BY <1>5, <1>6 DEF Counted, SteadyAnswerIsExact, Exact

LEMMA FetchIsExact ==
    ASSUME IInv, Counted, Fetch
    PROVE  Counted' /\ SteadyAnswerIsExact'
  <1>1. AtWork
    BY DEF AtWork, Fetch
  <1>2. /\ Offset(params) \in Nat /\ params.page \in Nat \ {0}
        /\ params.page_size \in Nat \ {0}
    BY <1>1, Accepted DEF IInv
  <1>3. IsFiniteSet(Results) /\ Cardinality(Results) \in Nat
    BY <1>1, ResultFacts
  <1>4. /\ UNCHANGED <<params, total, steady>> /\ pc = "counted" /\ pc' = "answered"
        /\ Results' = Results /\ \A l : Rank(l)' = Rank(l)
    <2>1. UNCHANGED params /\ Results' = Results
      BY DEF Fetch, Results, f
    <2> QED
      BY <2>1, SameResults DEF Fetch
  <1>5. ASSUME steady PROVE Exact'
    <2>1. total' = Cardinality(Results)'
      BY <1>4, <1>5 DEF Counted
    <2>2. DOMAIN data' = 1..Len(data')
      BY FetchedPage, InSeq
    <2>3. \A i \in DOMAIN data' : Rank(data'[i]) = Offset(params) + i - 1
      BY <2>2, FetchedPage
    <2>4. data' = <<>> <=> params.page > TotalPages(total', params.page_size)
      BY <1>2, <1>3, <1>4, <2>1, FetchedPage, PagesPastTheEnd DEF Offset
    <2>5. ToSet(data') = {l \in Results : Rank(l) \in Offset(params)
                                             .. Offset(params) + params.page_size - 1}
      BY FetchedPage
    <2> QED
      BY <1>4, <2>1, <2>3, <2>4, <2>5 DEF Exact, Offset
  <1> QED
    BY <1>4, <1>5 DEF Counted, SteadyAnswerIsExact, Exact

LEMMA WriteKeepsExact ==
    ASSUME Counted, SteadyAnswerIsExact, Write(listings')
    PROVE  Counted' /\ SteadyAnswerIsExact'
  <1> SUFFICES ASSUME steady' PROVE Counted' /\ SteadyAnswerIsExact'
    BY DEF Counted, SteadyAnswerIsExact
  <1>1. /\ UNCHANGED <<pc, params, total, data>> /\ steady
        /\ Results' = Results /\ \A l : Rank(l)' = Rank(l)
    <2>1. /\ UNCHANGED <<pc, params, total, data>> /\ steady
          /\ Results' = Results
      BY DEF Write, Results, f, request
    <2> QED
      BY <2>1, SameResults
  <1> QED
    BY <1>1 DEF Counted, SteadyAnswerIsExact

\* If no write touches the result between a COUNT and its page, the answer is that
\* of one atomic search, with the exact total.
THEOREM ExactPages == Spec => []SteadyAnswerIsExact
  <1>1. Init => Counted /\ SteadyAnswerIsExact
    BY DEF Init, Counted, SteadyAnswerIsExact
  <1>2. IInv /\ Counted /\ SteadyAnswerIsExact /\ [Next]_vars => (Counted /\ SteadyAnswerIsExact)'
    <2> SUFFICES ASSUME IInv, Counted, SteadyAnswerIsExact, [Next]_vars
                 PROVE  (Counted /\ SteadyAnswerIsExact)'
      OBVIOUS
    <2>1. CASE Count
      BY <2>1, CountIsExact
    <2>2. CASE Fetch
      BY <2>2, FetchIsExact
    <2>3. CASE Ask \/ Retry \/ NextPage
      BY <2>3 DEF Ask, Retry, NextPage, Counted, SteadyAnswerIsExact
    <2>4. CASE Create \/ Change \/ Delete
      BY <2>4, WriteStep, WriteKeepsExact
    <2>5. CASE UNCHANGED vars
      BY <2>5 DEF vars, request, Counted, SteadyAnswerIsExact, Results, Rank, f
    <2> QED
      BY <2>1, <2>2, <2>3, <2>4, <2>5 DEF Next
  <1> QED
    BY <1>1, <1>2, SearchInvariance, PTL DEF Spec

----------------------------------------------------------------------------
(***************************************************************************)
(* Walks from page to page.  What matters of a listing is its id and its   *)
(* sort key; as long as no result leaves, ranks only grow, so what was     *)
(* there and has not been seen is still ahead; as long as none enters,     *)
(* ranks only shrink, so what has been seen is behind.                     *)
(***************************************************************************)
KeysIn(g, sort, rows) == {<<l.id, SortKey(g, sort, l)>> : l \in rows}

LEMMA RankGrows ==
    ASSUME NEW g, NEW sort, NEW rows, NEW more, IsFiniteSet(more), Unique(rows),
           KeysIn(g, sort, rows) \subseteq KeysIn(g, sort, more),
           NEW x, NEW y, x.id = y.id, SortKey(g, sort, x) = SortKey(g, sort, y)
    PROVE  /\ RankIn(g, sort, rows, x) <= RankIn(g, sort, more, y)
           /\ RankIn(g, sort, rows, x) \in Nat
  <1> DEFINE A == {k \in rows : Before(g, sort, k, x)}
             B == {k \in more : Before(g, sort, k, y)}
             h == [k \in A |-> CHOOSE m \in B : m.id = k.id]
  <1>1. ASSUME NEW k \in A
        PROVE  \E m \in B : m.id = k.id
    <2>1. <<k.id, SortKey(g, sort, k)>> \in KeysIn(g, sort, more)
      BY DEF KeysIn
    <2>2. PICK m \in more : m.id = k.id /\ SortKey(g, sort, m) = SortKey(g, sort, k)
      BY <2>1 DEF KeysIn
    <2>3. TieBreak(sort, m) = TieBreak(sort, k) /\ TieBreak(sort, x) = TieBreak(sort, y)
      BY <2>2 DEF TieBreak
    <2>4. Before(g, sort, m, y)
      BY <2>2, <2>3 DEF Before
    <2> QED
      BY <2>2, <2>4
  <1>2. h \in [A -> B] /\ \A k \in A : h[k].id = k.id
    <2> HIDE DEF A, B
    <2> QED
      BY <1>1
  <1>3. h \in Injection(A, B)
    <2>1. \A k, l \in A : h[k] = h[l] => k = l
      BY <1>2 DEF Unique
    <2> QED
      BY <1>2, <2>1 DEF Injection, IsInjective
  <1>4. IsFiniteSet(B)
    BY FS_Subset
  <1>5. /\ IsFiniteSet(A) /\ Cardinality(A) <= Cardinality(B)
    <2> HIDE DEF A, B, h
    <2> QED
      BY <1>3, <1>4, FS_Injection
  <1>6. Cardinality(A) \in Nat
    BY <1>5, FS_CardinalityType
  <1> QED
    BY <1>5, <1>6 DEF RankIn

NextOffset == IF pc = "answered" THEN Offset(params) + params.page_size ELSE Offset(params)

NothingHidden ==
    first = 1 /\ "leaves" \notin effects =>
        /\ AtWork => \A id \in origin : \E l \in Results :
                        l.id = id /\ (id \in SeenIds \/ Rank(l) >= NextOffset)
        /\ pc = "answered" /\ data = <<>> => origin \subseteq SeenIds
        /\ pc = "done" => origin \subseteq SeenIds

NothingRepeated ==
    "enters" \notin effects =>
        /\ \A i, j \in DOMAIN seen : seen[i].id = seen[j].id => i = j
        /\ AtWork => \A i \in DOMAIN seen, l \in Results :
                        l.id = seen[i].id => Rank(l) < NextOffset

NothingMoved ==
    first = 1 /\ effects = {} =>
        /\ AtWork \/ pc = "done" => IdsOf(Results) = origin
        /\ \A i \in DOMAIN seen : seen[i].id \in origin /\ Rank(seen[i]) = i - 1
        /\ AtWork => Len(seen) = IF NextOffset < Cardinality(Results)
                                 THEN NextOffset ELSE Cardinality(Results)

NothingYet == pc \in {"idle", "refused"} => seen = <<>>

Walk == NothingHidden /\ NothingRepeated /\ NothingMoved /\ NothingYet

\* Numbers and ranks while a request is under way.
LEMMA WalkFacts ==
    ASSUME IInv, AtWork
    PROVE  /\ Offset(params) \in Nat /\ params.page_size \in Nat \ {0} /\ NextOffset \in Nat
           /\ Cardinality(Results) \in Nat
           /\ \A l : Rank(l) \in Nat
           /\ \A l \in Results : Rank(l) < Cardinality(Results)
           /\ Len(seen) \in Nat /\ DOMAIN seen = 1..Len(seen)
  <1>1. /\ Offset(params) \in Nat /\ params.page_size \in Nat \ {0} /\ NextOffset \in Nat
    BY Accepted DEF IInv, NextOffset
  <1>2. IsFiniteSet(Results) /\ Cardinality(Results) \in Nat
    BY ResultFacts
  <1>3. ASSUME NEW l PROVE Rank(l) \in Nat
    <2>1. RankIn(f, params.sort, Results, l) \in Nat
      BY <1>2, RankRange
    <2> QED
      BY <2>1 DEF Rank, RankIn
  <1>4. \A l \in Results : Rank(l) < Cardinality(Results)
    BY <1>2, ResultFacts, RankRange DEF Rank, RankIn
  <1> QED
    BY <1>1, <1>2, <1>3, <1>4, InSeq DEF IInv

LEMMA InitWalk == Init => Walk
  BY DEF Init, Walk, NothingHidden, NothingRepeated, NothingMoved, NothingYet, AtWork

LEMMA AskWalk ==
    ASSUME IInv, Walk, Ask
    PROVE  Walk'
  <1> USE DEF Ask, history
  <1>1. PICK p \in Search :
          /\ params' = p
          /\ \/ /\ ~ValidSearch(p)
                /\ pc' = "refused"
                /\ UNCHANGED history
             \/ /\ ValidSearch(p)
                /\ pc' = "asked"
                /\ first' = p.page
                /\ origin' = IdsOf(Matching(listings, Filters(p)))
    OBVIOUS
  <1>2. seen = <<>> /\ seen' = <<>> /\ DOMAIN seen' = {} /\ Len(seen') = 0
    BY DEF Walk, NothingYet
  <1>3. IInv'
    BY AskStep
  <1>4. CASE pc' = "refused"
    BY <1>2, <1>4 DEF Walk, NothingHidden, NothingRepeated, NothingMoved, NothingYet, AtWork
  <1>5. CASE pc' = "asked"
    <2>1. origin' = IdsOf(Results)'
      BY <1>1, <1>5 DEF Results, f, IdsOf
    <2>2. first' = 1 => NextOffset' = 0
      <3>1. first' = params'.page /\ params'.page_size \in Nat
        BY <1>1, <1>5, Accepted
      <3>2. (1 - 1) * params'.page_size = 0
        BY <3>1
      <3> QED
        BY <1>5, <3>1, <3>2 DEF NextOffset, Offset
    <2>3. AtWork'
      BY <1>5 DEF AtWork
    <2>4. (\A l : Rank(l) \in Nat)' /\ Cardinality(Results)' \in Nat
      <3>1. IsFiniteSet(Results')
        BY <1>3, RowsFinite, FS_Subset DEF IInv, TypeOK, Results, Matching
      <3>2. Cardinality(Results') \in Nat
        BY <3>1, FS_CardinalityType
      <3>3. ASSUME NEW l PROVE RankIn(f', params'.sort, Results', l) \in Nat
        BY <3>1, RankRange
      <3> QED
        BY <3>2, <3>3 DEF Rank, RankIn
    <2>5. NothingHidden'
      BY <1>5, <2>1, <2>2, <2>4 DEF NothingHidden, IdsOf
    <2>6. NothingRepeated'
      BY <1>2 DEF NothingRepeated
    <2>7. NothingMoved'
      BY <1>2, <1>5, <2>1, <2>2, <2>4 DEF NothingMoved
    <2> QED
      BY <1>5, <2>5, <2>6, <2>7 DEF Walk, NothingYet
  <1> QED
    BY <1>1, <1>4, <1>5

\* The results and their ranks, after a step of the client.
LEMMA ClientLeaves ==
    ASSUME IInv, Count \/ Fetch \/ Retry \/ NextPage
    PROVE  /\ AtWork
           /\ Results' = Results
           /\ \A l : Rank(l)' = Rank(l)
           /\ UNCHANGED <<listings, first, origin, effects>>
  <1>1. AtWork /\ UNCHANGED <<listings, first, origin, effects>>
    BY DEF AtWork, Count, Fetch, Retry, NextPage, history
  <1>2. Filters(params)' = Filters(params) /\ params'.sort = params.sort
    <2>1. CASE params' = params
      BY <2>1 DEF Filters
    <2>2. CASE params' = [params EXCEPT !.page = @ + 1]
      <3>1. params \in Parameters
        BY DEF IInv
      <3>2. /\ params'.listing_type = params.listing_type
            /\ params'.lat = params.lat /\ params'.lng = params.lng
            /\ params'.radius_km = params.radius_km /\ params'.sort = params.sort
            /\ params'.min_price = params.min_price /\ params'.max_price = params.max_price
            /\ params'.min_bedrooms = params.min_bedrooms
            /\ params'.max_bedrooms = params.max_bedrooms
        BY <2>2, <3>1 DEF Parameters
      <3> QED
        BY <3>2 DEF Filters
    <2> QED
      BY <2>1, <2>2 DEF Count, Fetch, Retry, NextPage
  <1>3. Results' = Results
    BY <1>1, <1>2 DEF Results, f
  <1>4. \A l : Rank(l)' = Rank(l)
    BY <1>2, <1>3 DEF Rank, f
  <1> QED
    BY <1>1, <1>3, <1>4

\* Going on: to the page after this one, or to this one again.
LEMMA GoOnWalk ==
    ASSUME IInv, Walk, Retry \/ NextPage
    PROVE  Walk'
  <1>1. /\ AtWork /\ Results' = Results /\ \A l : Rank(l)' = Rank(l)
        /\ UNCHANGED <<first, origin, effects>>
    BY ClientLeaves
  <1>2. UNCHANGED <<data, seen>>
    BY DEF Retry, NextPage
  <1>3. /\ IdsOf(Results)' = IdsOf(Results) /\ SeenIds' = SeenIds
    BY <1>1, <1>2 DEF IdsOf, SeenIds, ToSet
  <1>4. CASE pc' = "asked"
    <2>1. NextOffset' = NextOffset /\ AtWork'
      <3>1. CASE Retry
        BY <3>1 DEF Retry, NextOffset, Offset, AtWork
      <3>2. CASE NextPage
        <4>1. params' = [params EXCEPT !.page = @ + 1] /\ params \in Parameters /\ pc = "answered"
          BY <1>4, <3>2 DEF NextPage, IInv
        <4>2. params'.page = params.page + 1 /\ params'.page_size = params.page_size
              /\ params.page \in Int /\ params.page_size \in Int
          BY <4>1 DEF Parameters
        <4>3. ((params.page + 1) - 1) * params.page_size
                = (params.page - 1) * params.page_size + params.page_size
          BY <4>2
        <4> QED
          BY <1>4, <4>1, <4>2, <4>3 DEF NextOffset, Offset, AtWork
      <3> QED
        BY <3>1, <3>2
    <2>2. NothingHidden'
      BY <1>1, <1>2, <1>3, <1>4, <2>1 DEF Walk, NothingHidden
    <2>3. NothingRepeated'
      BY <1>1, <1>2, <2>1 DEF Walk, NothingRepeated
    <2>4. NothingMoved'
      BY <1>1, <1>2, <1>3, <1>4, <2>1 DEF Walk, NothingMoved
    <2> QED
      BY <1>4, <2>2, <2>3, <2>4 DEF Walk, NothingYet
  <1>5. CASE pc' = "done"
    <2>1. pc = "answered" /\ data = <<>> /\ ~AtWork'
      BY <1>5 DEF Retry, NextPage, AtWork
    <2>2. NothingHidden'
      BY <1>1, <1>3, <1>5, <2>1 DEF Walk, NothingHidden
    <2>3. NothingRepeated'
      BY <1>1, <1>2, <2>1 DEF Walk, NothingRepeated
    <2>4. NothingMoved'
      BY <1>1, <1>2, <1>3, <2>1 DEF Walk, NothingMoved
    <2> QED
      BY <1>5, <2>2, <2>3, <2>4 DEF Walk, NothingYet
  <1> QED
    BY <1>4, <1>5 DEF Retry, NextPage

LEMMA CountWalk ==
    ASSUME IInv, Walk, Count
    PROVE  Walk'
  <1>1. /\ AtWork /\ Results' = Results /\ \A l : Rank(l)' = Rank(l)
        /\ UNCHANGED <<first, origin, effects>>
    BY ClientLeaves
  <1>2. UNCHANGED <<params, seen>> /\ pc = "asked" /\ pc' \in {"counted", "answered"}
    BY DEF Count
  <1>3. /\ IdsOf(Results)' = IdsOf(Results) /\ SeenIds' = SeenIds /\ AtWork'
    BY <1>1, <1>2 DEF IdsOf, SeenIds, ToSet, AtWork
  <1>4. /\ Offset(params) \in Nat /\ params.page_size \in Nat \ {0} /\ NextOffset = Offset(params)
        /\ Cardinality(Results) \in Nat
        /\ \A l \in Results : Rank(l) \in Nat /\ Rank(l) < Cardinality(Results)
    BY <1>1, <1>2, WalkFacts DEF NextOffset
  <1>5. pc' = "answered" => Cardinality(Results) <= Offset(params)
    BY <1>4 DEF Count
  <1>6. NextOffset' = IF pc' = "answered" THEN Offset(params) + params.page_size
                      ELSE Offset(params)
    BY <1>2 DEF NextOffset, Offset
  <1>7. NothingHidden'
    <2> SUFFICES ASSUME first = 1, "leaves" \notin effects PROVE NothingHidden'
      BY <1>1 DEF NothingHidden
    <2>1. \A id \in origin : \E l \in Results :
             l.id = id /\ (id \in SeenIds \/ Rank(l) >= Offset(params))
      BY <1>1, <1>4 DEF Walk, NothingHidden
    <2>2. pc' = "answered" => \A l \in Results : ~(Rank(l) >= Offset(params))
      BY <1>4, <1>5
    <2>3. pc' = "answered" => origin \subseteq SeenIds
      BY <2>1, <2>2
    <2>4. \A id \in origin : \E l \in Results :
             l.id = id /\ (id \in SeenIds \/ Rank(l) >= NextOffset')
      BY <1>2, <1>6, <2>1, <2>3
    <2> QED
      BY <1>1, <1>2, <1>3, <2>3, <2>4 DEF NothingHidden
  <1>8. NothingRepeated'
    <2> SUFFICES ASSUME "enters" \notin effects PROVE NothingRepeated'
      BY <1>1 DEF NothingRepeated
    <2>1. \A i \in DOMAIN seen, l \in Results : l.id = seen[i].id => Rank(l) < Offset(params)
      BY <1>1, <1>4 DEF Walk, NothingRepeated
    <2>2. \A i \in DOMAIN seen, l \in Results : l.id = seen[i].id => Rank(l) < NextOffset'
      BY <1>4, <1>6, <2>1
    <2> QED
      BY <1>1, <1>2, <2>2 DEF Walk, NothingRepeated
  <1>9. NothingMoved'
    <2> SUFFICES ASSUME first = 1, effects = {} PROVE NothingMoved'
      BY <1>1 DEF NothingMoved
    <2>1. Len(seen) = IF Offset(params) < Cardinality(Results)
                      THEN Offset(params) ELSE Cardinality(Results)
      BY <1>1, <1>4 DEF Walk, NothingMoved
    <2>2. Len(seen) = IF NextOffset' < Cardinality(Results)
                      THEN NextOffset' ELSE Cardinality(Results)
      BY <1>4, <1>5, <1>6, <2>1
    <2> QED
      BY <1>1, <1>2, <1>3, <2>2 DEF Walk, NothingMoved
  <1> QED
    BY <1>2, <1>7, <1>8, <1>9 DEF Walk, NothingYet

LEMMA FetchWalk ==
    ASSUME IInv, Walk, Fetch
    PROVE  Walk'
  <1>1. /\ AtWork /\ Results' = Results /\ \A l : Rank(l)' = Rank(l)
        /\ UNCHANGED <<first, origin, effects>>
    BY ClientLeaves
  <1>2. UNCHANGED params /\ pc = "counted" /\ pc' = "answered" /\ seen' = seen \o data'
    BY DEF Fetch
  <1>3. /\ IdsOf(Results)' = IdsOf(Results) /\ AtWork'
    BY <1>1, <1>2 DEF IdsOf, AtWork
  <1> DEFINE o == Offset(params)
             m == params.page_size
             n == Cardinality(Results)
  <1>4. /\ o \in Nat /\ m \in Nat \ {0} /\ NextOffset = o /\ n \in Nat
        /\ \A l \in Results : Rank(l) \in Nat /\ Rank(l) < n
        /\ Len(seen) \in Nat /\ DOMAIN seen = 1..Len(seen)
    BY <1>1, <1>2, WalkFacts DEF NextOffset
  <1>5. NextOffset' = o + m
    BY <1>2 DEF NextOffset, Offset
  <1>6. /\ data' = <<>> <=> n <= o
        /\ data' # <<>> => Len(data') = IF o + m < n THEN m ELSE n - o
        /\ \A i \in 1..Len(data') : Rank(data'[i]) = o + i - 1
        /\ ToSet(data') = {l \in Results : Rank(l) \in o .. o + m - 1}
        /\ data' \in Seq(Listings) /\ seen' \in Seq(Listings)
    BY FetchedPage
  <1>7. Len(data') \in Nat /\ DOMAIN data' = 1..Len(data')
        /\ \A i \in 1..Len(data') : data'[i] \in Results
    BY <1>6 DEF ToSet
  <1>8. /\ Len(seen') = Len(seen) + Len(data') /\ DOMAIN seen' = 1..(Len(seen) + Len(data'))
        /\ \A i \in 1..(Len(seen) + Len(data')) :
              seen'[i] = IF i <= Len(seen) THEN seen[i] ELSE data'[i - Len(seen)]
    <2>1. seen \in Seq(Listings)
      BY DEF IInv
    <2> QED
      BY <1>2, <1>6, <2>1, ConcatProperties, InSeq
  <1> HIDE DEF o, m, n
  <1>9. SeenIds' = SeenIds \cup IdsOf(ToSet(data'))
    <2>1. SeenIds' = {seen'[i].id : i \in 1..(Len(seen) + Len(data'))}
      BY <1>8 DEF SeenIds, IdsOf, ToSet
    <2>2. SeenIds = {seen[i].id : i \in 1..Len(seen)}
      BY <1>4 DEF SeenIds, IdsOf, ToSet
    <2>3. IdsOf(ToSet(data')) = {data'[i].id : i \in 1..Len(data')}
      BY <1>7 DEF IdsOf, ToSet
    <2>4. \A i \in 1..Len(seen) : /\ i \in 1..(Len(seen) + Len(data'))
                                  /\ seen'[i] = seen[i]
      BY <1>4, <1>7, <1>8
    <2>5. ASSUME NEW i \in 1..Len(data')
          PROVE  /\ Len(seen) + i \in 1..(Len(seen) + Len(data'))
                 /\ seen'[Len(seen) + i] = data'[i]
      <3>1. Len(seen) + i \in 1..(Len(seen) + Len(data')) /\ ~(Len(seen) + i <= Len(seen))
            /\ (Len(seen) + i) - Len(seen) = i
        BY <1>4, <1>7
      <3> QED
        BY <1>8, <3>1
    <2>6. \A i \in 1..(Len(seen) + Len(data')) :
             i \in 1..Len(seen) \/ i - Len(seen) \in 1..Len(data')
      BY <1>4, <1>7
    <2>7. \A i \in 1..(Len(seen) + Len(data')) :
             \/ i \in 1..Len(seen) /\ seen'[i] = seen[i]
             \/ i - Len(seen) \in 1..Len(data') /\ seen'[i] = data'[i - Len(seen)]
      BY <1>4, <1>7, <1>8
    <2>8. \A x \in SeenIds' : x \in SeenIds \/ x \in IdsOf(ToSet(data'))
      BY <2>1, <2>2, <2>3, <2>7
    <2>9. \A x \in SeenIds : x \in SeenIds'
      BY <2>1, <2>2, <2>4
    <2>10. \A x \in IdsOf(ToSet(data')) : x \in SeenIds'
      BY <2>1, <2>3, <2>5
    <2> QED
      BY <2>8, <2>9, <2>10
  <1>10. NothingHidden'
    <2> SUFFICES ASSUME first = 1, "leaves" \notin effects PROVE NothingHidden'
      BY <1>1 DEF NothingHidden
    <2>1. ASSUME NEW id \in origin
          PROVE  \E l \in Results : l.id = id /\ (id \in SeenIds' \/ Rank(l) >= o + m)
      <3>1. PICK l \in Results : l.id = id /\ (id \in SeenIds \/ Rank(l) >= o)
        BY <1>1, <1>4 DEF Walk, NothingHidden
      <3>2. CASE Rank(l) \in o .. o + m - 1
        <4>1. id \in IdsOf(ToSet(data'))
          BY <1>6, <3>1, <3>2 DEF IdsOf
        <4> QED
          BY <1>9, <3>1, <4>1
      <3>3. CASE ~(Rank(l) \in o .. o + m - 1)
        <4>1. id \in SeenIds \/ Rank(l) >= o + m
          BY <1>4, <3>1, <3>3
        <4> QED
          BY <1>9, <3>1, <4>1
      <3> QED
        BY <3>2, <3>3
    <2>2. data' = <<>> => origin \subseteq SeenIds'
      <3> SUFFICES ASSUME data' = <<>>, NEW id \in origin PROVE id \in SeenIds'
        OBVIOUS
      <3>1. PICK l \in Results : l.id = id /\ (id \in SeenIds' \/ Rank(l) >= o + m)
        BY <2>1
      <3>2. ~(Rank(l) >= o + m)
        BY <1>4, <1>6
      <3> QED
        BY <3>1, <3>2
    <2> QED
      BY <1>1, <1>2, <1>5, <2>1, <2>2 DEF NothingHidden
  <1>11. NothingRepeated'
    <2> SUFFICES ASSUME "enters" \notin effects PROVE NothingRepeated'
      BY <1>1 DEF NothingRepeated
    <2>1. /\ \A i, j \in 1..Len(seen) : seen[i].id = seen[j].id => i = j
          /\ \A i \in 1..Len(seen), l \in Results : l.id = seen[i].id => Rank(l) < o
      BY <1>1, <1>4 DEF Walk, NothingRepeated
    <2>2. \A i \in 1..Len(seen), j \in 1..Len(data') : seen[i].id # data'[j].id
      <3> SUFFICES ASSUME NEW i \in 1..Len(seen), NEW j \in 1..Len(data'),
                          seen[i].id = data'[j].id
                   PROVE  FALSE
        OBVIOUS
      <3>1. Rank(data'[j]) < o
        BY <1>7, <2>1
      <3>2. Rank(data'[j]) = o + j - 1
        BY <1>6
      <3> QED
        BY <1>4, <3>1, <3>2
    <2>3. \A i, j \in 1..Len(data') : data'[i].id = data'[j].id => i = j
      <3>1. Unique(Results)
        BY <1>1, ResultFacts
      <3>2. ASSUME NEW i \in 1..Len(data'), NEW j \in 1..Len(data'), data'[i].id = data'[j].id
            PROVE  i = j
        <4>1. data'[i] = data'[j]
          BY <1>7, <3>1, <3>2 DEF Unique
        <4>2. o + i - 1 = o + j - 1
          BY <1>6, <4>1
        <4> QED
          BY <1>4, <4>2
      <3> QED
        BY <3>2
    <2>4. ASSUME NEW i \in DOMAIN seen', NEW j \in DOMAIN seen', seen'[i].id = seen'[j].id
          PROVE  i = j
      <3>1. /\ \/ i \in 1..Len(seen) /\ seen'[i] = seen[i]
               \/ i - Len(seen) \in 1..Len(data') /\ seen'[i] = data'[i - Len(seen)]
            /\ \/ j \in 1..Len(seen) /\ seen'[j] = seen[j]
               \/ j - Len(seen) \in 1..Len(data') /\ seen'[j] = data'[j - Len(seen)]
            /\ i \in Int /\ j \in Int
        BY <1>4, <1>7, <1>8
      <3>2. \/ i = j
            \/ i - Len(seen) = j - Len(seen)
        BY <2>1, <2>2, <2>3, <2>4, <3>1
      <3> QED
        BY <1>4, <3>1, <3>2
    <2>5. ASSUME NEW i \in DOMAIN seen', NEW l \in Results, l.id = seen'[i].id
          PROVE  Rank(l) < o + m
      <3>1. \/ i \in 1..Len(seen) /\ seen'[i] = seen[i]
            \/ i - Len(seen) \in 1..Len(data') /\ seen'[i] = data'[i - Len(seen)]
        BY <1>4, <1>7, <1>8
      <3>2. CASE i \in 1..Len(seen) /\ seen'[i] = seen[i]
        BY <1>4, <2>1, <2>5, <3>2
      <3>3. CASE i - Len(seen) \in 1..Len(data') /\ seen'[i] = data'[i - Len(seen)]
        <4>1. l = data'[i - Len(seen)]
          BY <1>1, <1>7, <2>5, <3>3, ResultFacts DEF Unique
        <4>2. l \in ToSet(data')
          BY <1>7, <3>3, <4>1 DEF ToSet
        <4> QED
          BY <1>4, <1>6, <4>2
      <3> QED
        BY <3>1, <3>2, <3>3
    <2> QED
      BY <1>1, <1>5, <2>4, <2>5 DEF NothingRepeated
  <1>12. NothingMoved'
    <2> SUFFICES ASSUME first = 1, effects = {} PROVE NothingMoved'
      BY <1>1 DEF NothingMoved
    <2>1. /\ Len(seen) = IF o < n THEN o ELSE n
          /\ \A i \in 1..Len(seen) : seen[i].id \in origin /\ Rank(seen[i]) = i - 1
          /\ IdsOf(Results) = origin
      BY <1>1, <1>4 DEF Walk, NothingMoved, n
    <2>2. data' = <<>> => Len(data') = 0
      OBVIOUS
    <2>3. Len(seen') = IF o + m < n THEN o + m ELSE n
      <3>1. Len(seen') = Len(seen) + Len(data')
        BY <1>8
      <3>2. CASE n <= o
        BY <1>4, <1>6, <2>1, <2>2, <3>1, <3>2
      <3>3. CASE ~(n <= o)
        <4>1. Len(data') = IF o + m < n THEN m ELSE n - o
          BY <1>6, <3>3
        <4>2. Len(seen) = o
          BY <1>4, <2>1, <3>3
        <4> QED
          BY <1>4, <3>1, <3>3, <4>1, <4>2
      <3> QED
        BY <3>2, <3>3
    <2>4. ASSUME NEW i \in DOMAIN seen'
          PROVE  seen'[i].id \in origin /\ Rank(seen'[i]) = i - 1
      <3>1. \/ i \in 1..Len(seen) /\ seen'[i] = seen[i]
            \/ i - Len(seen) \in 1..Len(data') /\ seen'[i] = data'[i - Len(seen)]
        BY <1>4, <1>7, <1>8
      <3>2. CASE i \in 1..Len(seen) /\ seen'[i] = seen[i]
        BY <2>1, <3>2
      <3>3. CASE i - Len(seen) \in 1..Len(data') /\ seen'[i] = data'[i - Len(seen)]
        <4>1. seen'[i].id \in origin
          BY <1>7, <2>1, <3>3 DEF IdsOf
        <4>2. Rank(seen'[i]) = o + (i - Len(seen)) - 1
          BY <1>6, <3>3
        <4>3. Len(seen) = o
          BY <1>4, <1>6, <2>1, <2>2, <3>3
        <4>4. i \in Int
          BY <1>8
        <4> QED
          BY <1>4, <4>1, <4>2, <4>3, <4>4
      <3> QED
        BY <3>1, <3>2, <3>3
    <2> QED
      BY <1>1, <1>2, <1>3, <1>5, <2>1, <2>3, <2>4 DEF NothingMoved, n
  <1> QED
    BY <1>2, <1>10, <1>11, <1>12 DEF Walk, NothingYet

LEMMA WriteWalk ==
    ASSUME IInv, Walk, Create \/ Change \/ Delete
    PROVE  Walk'
  <1>1. IInv' /\ AtWork /\ Write(listings')
    BY WriteStep
  <1>2. UNCHANGED <<pc, params, total, data, seen, first, origin>>
    BY <1>1 DEF Write, request, history
  <1>3. /\ AtWork' /\ NextOffset' = NextOffset /\ f' = f /\ SeenIds' = SeenIds
    BY <1>1, <1>2 DEF AtWork, NextOffset, Offset, f, SeenIds, IdsOf, ToSet
  <1> DEFINE new == Results'
             Keys(rows) == KeysIn(f, params.sort, rows)
  <1>4. new = Matching(listings', f)
    BY <1>3 DEF Results
  <1>5. /\ "leaves" \notin effects' => "leaves" \notin effects /\ Keys(Results) \subseteq Keys(new)
        /\ "enters" \notin effects' => "enters" \notin effects /\ Keys(new) \subseteq Keys(Results)
    BY <1>1, <1>4 DEF Write, Effect, KeysIn, Results
  <1>6. /\ IsFiniteSet(Results) /\ Unique(Results) /\ Cardinality(Results) \in Nat
        /\ Results \subseteq Listings
    BY <1>1, ResultFacts
  <1>7. /\ IsFiniteSet(new) /\ Unique(new) /\ Cardinality(new) \in Nat /\ new \subseteq Listings
    <2>1. new \subseteq Listings /\ Unique(new)
      BY <1>1, <1>4 DEF IInv, TypeOK, Matching, Unique
    <2> QED
      BY <2>1, RowsFinite, FS_CardinalityType
  <1>8. \A l : /\ Rank(l) = RankIn(f, params.sort, Results, l)
               /\ Rank(l)' = RankIn(f, params.sort, new, l)
    BY <1>2, <1>3 DEF Rank, RankIn
  <1>9. NextOffset \in Nat
    BY <1>1, WalkFacts
  <1>10. IdsOf(Results)' = IdsOf(new)
    BY DEF IdsOf
  <1> HIDE DEF new
  <1>11. ASSUME "leaves" \notin effects', NEW l \in Results
         PROVE  \E k \in new : k.id = l.id /\ Rank(l) <= Rank(k)'
                               /\ Rank(l) \in Nat /\ Rank(k)' \in Nat
    <2>1. PICK k \in new : k.id = l.id /\ SortKey(f, params.sort, k) = SortKey(f, params.sort, l)
      <3>1. <<l.id, SortKey(f, params.sort, l)>> \in Keys(Results)
        BY DEF KeysIn
      <3>2. <<l.id, SortKey(f, params.sort, l)>> \in Keys(new)
        BY <1>5, <1>11, <3>1
      <3> QED
        BY <3>2 DEF KeysIn
    <2>2. /\ RankIn(f, params.sort, Results, l) <= RankIn(f, params.sort, new, k)
          /\ RankIn(f, params.sort, Results, l) \in Nat
      BY <1>5, <1>6, <1>7, <1>11, <2>1, RankGrows
    <2>3. RankIn(f, params.sort, new, k) \in Nat
      BY <1>7, RankRange
    <2> QED
      BY <1>8, <2>1, <2>2, <2>3
  <1>12. ASSUME "enters" \notin effects', NEW k \in new
         PROVE  \E l \in Results : l.id = k.id /\ Rank(k)' <= Rank(l)
                                   /\ Rank(l) \in Nat /\ Rank(k)' \in Nat
    <2>1. PICK l \in Results :
             l.id = k.id /\ SortKey(f, params.sort, l) = SortKey(f, params.sort, k)
      <3>1. <<k.id, SortKey(f, params.sort, k)>> \in Keys(new)
        BY DEF KeysIn
      <3>2. <<k.id, SortKey(f, params.sort, k)>> \in Keys(Results)
        BY <1>5, <1>12, <3>1
      <3> QED
        BY <3>2 DEF KeysIn
    <2>2. /\ RankIn(f, params.sort, new, k) <= RankIn(f, params.sort, Results, l)
          /\ RankIn(f, params.sort, new, k) \in Nat
      BY <1>5, <1>6, <1>7, <1>12, <2>1, RankGrows
    <2>3. RankIn(f, params.sort, Results, l) \in Nat
      BY <1>6, RankRange
    <2> QED
      BY <1>8, <2>1, <2>2, <2>3
  <1>13. NothingHidden'
    <2> SUFFICES ASSUME first = 1, "leaves" \notin effects' PROVE NothingHidden'
      BY <1>2 DEF NothingHidden
    <2>1. ASSUME NEW id \in origin
          PROVE  \E k \in new : k.id = id /\ (id \in SeenIds \/ Rank(k)' >= NextOffset)
      <3>1. PICK l \in Results : l.id = id /\ (id \in SeenIds \/ Rank(l) >= NextOffset)
        BY <1>1, <1>5 DEF Walk, NothingHidden
      <3>2. PICK k \in new : k.id = l.id /\ Rank(l) <= Rank(k)' /\ Rank(l) \in Nat /\ Rank(k)' \in Nat
        BY <1>11
      <3> QED
        BY <1>9, <3>1, <3>2
    <2>2. /\ pc = "answered" /\ data = <<>> => origin \subseteq SeenIds
          /\ pc = "done" => origin \subseteq SeenIds
      BY <1>5 DEF Walk, NothingHidden
    <2> QED
      BY <1>2, <1>3, <2>1, <2>2 DEF NothingHidden, new
  <1>14. NothingRepeated'
    <2> SUFFICES ASSUME "enters" \notin effects' PROVE NothingRepeated'
      BY DEF NothingRepeated
    <2>1. /\ \A i, j \in DOMAIN seen : seen[i].id = seen[j].id => i = j
          /\ \A i \in DOMAIN seen, l \in Results : l.id = seen[i].id => Rank(l) < NextOffset
      BY <1>1, <1>5 DEF Walk, NothingRepeated
    <2>2. ASSUME NEW i \in DOMAIN seen, NEW k \in new, k.id = seen[i].id
          PROVE  Rank(k)' < NextOffset
      <3>1. PICK l \in Results : l.id = k.id /\ Rank(k)' <= Rank(l) /\ Rank(l) \in Nat /\ Rank(k)' \in Nat
        BY <1>12
      <3>2. Rank(l) < NextOffset
        BY <2>1, <2>2, <3>1
      <3> QED
        BY <1>9, <3>1, <3>2
    <2> QED
      BY <1>2, <1>3, <2>1, <2>2 DEF NothingRepeated, new
  <1>15. NothingMoved'
    <2> SUFFICES ASSUME first = 1, effects' = {} PROVE NothingMoved'
      BY <1>2 DEF NothingMoved
    <2>1. effects = {} /\ Keys(new) = Keys(Results)
      BY <1>1, <1>5 DEF Write
    <2>2. IdsOf(new) = IdsOf(Results)
      <3>1. \A l \in Results : \E k \in new : k.id = l.id
        BY <1>11
      <3>2. \A k \in new : \E l \in Results : l.id = k.id
        BY <1>12
      <3> QED
        BY <3>1, <3>2 DEF IdsOf
    <2>3. Cardinality(new) = Cardinality(Results)
      BY <1>6, <1>7, <2>2, RowsFinite
    <2>4. ASSUME NEW x PROVE Rank(x)' = Rank(x)
      <3>1. /\ RankIn(f, params.sort, new, x) <= RankIn(f, params.sort, Results, x)
            /\ RankIn(f, params.sort, new, x) \in Nat
        BY <1>6, <1>7, <2>1, RankGrows
      <3>2. /\ RankIn(f, params.sort, Results, x) <= RankIn(f, params.sort, new, x)
            /\ RankIn(f, params.sort, Results, x) \in Nat
        BY <1>6, <1>7, <2>1, RankGrows
      <3> QED
        BY <1>8, <3>1, <3>2
    <2>5. /\ IdsOf(Results) = origin
          /\ \A i \in DOMAIN seen : seen[i].id \in origin /\ Rank(seen[i]) = i - 1
          /\ Len(seen) = IF NextOffset < Cardinality(Results)
                         THEN NextOffset ELSE Cardinality(Results)
      BY <1>1, <2>1 DEF Walk, NothingMoved
    <2> QED
      BY <1>2, <1>3, <1>10, <2>2, <2>3, <2>4, <2>5 DEF NothingMoved, new
  <1>16. NothingYet'
    BY <1>1, <1>2 DEF NothingYet, AtWork
  <1> QED
    BY <1>13, <1>14, <1>15, <1>16 DEF Walk

LEMMA NextWalk == IInv /\ Walk /\ [Next]_vars => Walk'
  <1>1. ASSUME Walk, UNCHANGED vars PROVE Walk'
    <2>1. UNCHANGED <<pc, params, data, seen, first, origin, effects>> /\ Results' = Results
      BY <1>1 DEF vars, request, history, Results, f
    <2>2. /\ \A l : Rank(l)' = Rank(l)
          /\ AtWork' = AtWork /\ NextOffset' = NextOffset /\ SeenIds' = SeenIds
          /\ IdsOf(Results)' = IdsOf(Results)
      BY <2>1, SameResults DEF AtWork, NextOffset, Offset, SeenIds, IdsOf, ToSet
    <2>3. NothingHidden' /\ NothingYet'
      BY <1>1, <2>1, <2>2 DEF Walk, NothingHidden, NothingYet
    <2>4. NothingRepeated'
      BY <1>1, <2>1, <2>2 DEF Walk, NothingRepeated
    <2>5. NothingMoved'
      BY <1>1, <2>1, <2>2 DEF Walk, NothingMoved
    <2> QED
      BY <2>3, <2>4, <2>5 DEF Walk
  <1> QED
    BY <1>1, AskWalk, CountWalk, FetchWalk, GoOnWalk, WriteWalk DEF Next

LEMMA WalkInvariance == Spec => []Walk
  BY SearchInvariance, InitWalk, NextWalk, PTL DEF Spec

\* A walk from the first page to an empty one misses nothing that was there at the
\* start, as long as nothing leaves the result.
THEOREM AdditionsSafe == Spec => []AdditionsHideNothing
  <1>1. Walk => AdditionsHideNothing
    BY DEF Walk, NothingHidden, AdditionsHideNothing, Walked
  <1> QED
    BY <1>1, WalkInvariance, PTL

\* It shows nothing twice, as long as nothing enters the result.
THEOREM RemovalsSafe == Spec => []RemovalsRepeatNothing
  <1>1. ASSUME IInv, Walk PROVE RemovalsRepeatNothing
    <2> SUFFICES ASSUME "enters" \notin effects PROVE Cardinality(SeenIds) = Len(seen)
      BY DEF RemovalsRepeatNothing
    <2> DEFINE n == Len(seen)
               idOf == [i \in 1..n |-> seen[i].id]
    <2>1. n \in Nat /\ DOMAIN seen = 1..n
      BY <1>1, InSeq DEF IInv
    <2>2. \A i, j \in 1..n : seen[i].id = seen[j].id => i = j
      BY <1>1, <2>1 DEF Walk, NothingRepeated
    <2>3. SeenIds = {seen[i].id : i \in 1..n}
      BY <2>1 DEF SeenIds, IdsOf, ToSet
    <2>4. idOf \in Bijection(1..n, SeenIds)
      BY <2>2, <2>3 DEF Bijection, Injection, Surjection, IsInjective
    <2> HIDE DEF n, idOf
    <2>5. Cardinality(SeenIds) = n
      BY <2>1, <2>4, FS_CountingElements DEF ExistsBijection
    <2> QED
      BY <2>5 DEF n
  <1> QED
    BY <1>1, SearchInvariance, WalkInvariance, PTL

\* While nothing happens to the result, the pages of a walk put together are the
\* result, in order.
THEOREM QuietWalks == Spec => []QuietPagesAddUp
  <1>1. ASSUME IInv, Walk PROVE QuietPagesAddUp
    <2> SUFFICES ASSUME pc = "done", first = 1, effects = {}
                 PROVE  /\ SeenIds = IdsOf(Results)
                        /\ \A i \in DOMAIN seen : Rank(seen[i]) = i - 1
      BY DEF QuietPagesAddUp, Walked
    <2>1. /\ IdsOf(Results) = origin
          /\ \A i \in DOMAIN seen : seen[i].id \in origin /\ Rank(seen[i]) = i - 1
      BY <1>1 DEF Walk, NothingMoved
    <2>2. origin \subseteq SeenIds
      BY <1>1 DEF Walk, NothingHidden
    <2>3. SeenIds \subseteq origin
      BY <2>1 DEF SeenIds, IdsOf, ToSet
    <2> QED
      BY <2>1, <2>2, <2>3
  <1> QED
    BY <1>1, SearchInvariance, WalkInvariance, PTL
=============================================================================
