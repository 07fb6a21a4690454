---------------------------- MODULE SearchQuery ----------------------------
(***************************************************************************)
(* GET /listings and GET /listings/search as pure definitions: which       *)
(* parameters are accepted, and what the SQL built from them can return.   *)
(*                                                                         *)
(* Amounts are whole kobo.  Coordinates are whole degrees and distance is  *)
(* measured along them: all the program relies on is that Postgres uses    *)
(* one metric to select, to show and to sort.                              *)
(***************************************************************************)
EXTENDS Integers, FiniteSets, SequencesExt

CONSTANTS
    None,          \* a parameter that was not given
    MaxPrice,      \* the largest amount of 15 digits, in kobo
    MaxRadius,     \* settings.max_radius_km
    MaxPageSize    \* settings.max_page_size

Point == [lat : Int, lng : Int, radius_km : Int]

ASSUME QueryAssumption ==
    /\ None \notin Int \cup Point
    /\ MaxPrice \in Nat
    /\ MaxRadius \in Nat \ {0}
    /\ MaxPageSize \in Nat \ {0}

MAX_BEDROOMS == 50

\* What reaches the validators: every parameter is absent or of its type.
ListingType == {"rent", "sale", "shortlet"}
Optional(S) == {None} \cup S

Parameters ==
    [listing_type : Optional(ListingType),
     min_price : Optional(Int), max_price : Optional(Int),
     min_bedrooms : Optional(Int), max_bedrooms : Optional(Int),
     lat : Optional(Int), lng : Optional(Int), radius_km : Optional(Int),
     sort : {"distance", "price_asc", "price_desc", "newest"},
     page : Int, page_size : Int]

\* Mutants of Offset: pages counted from zero; pages that overlap.
OffsetFromZero(p) == p.page * p.page_size
OffsetOverlapping(p) == (p.page - 1) * (p.page_size - 1)

Offset(p) == (p.page - 1) * p.page_size

\* PageParams: there is no upper bound on page.
ValidPage(p) == p.page >= 1 /\ p.page_size \in 1..MaxPageSize

\* lat, lng and radius_km come together; sort=distance needs them; a range is
\* not upside down.
ValidCombinations(p) ==
    LET geo == {p.lat, p.lng, p.radius_km}
        InOrder(min, max) == None \notin {min, max} => min <= max
    IN  /\ None \in geo => geo = {None}
        /\ p.sort = "distance" => None \notin geo
        /\ InOrder(p.min_price, p.max_price)
        /\ InOrder(p.min_bedrooms, p.max_bedrooms)

\* SearchParams: every parameter that is given is in its range.
ValidSearch(p) ==
    /\ ValidPage(p)
    /\ {p.min_price, p.max_price} \subseteq Optional(0..MaxPrice)
    /\ {p.min_bedrooms, p.max_bedrooms} \subseteq Optional(0..MAX_BEDROOMS)
    /\ p.lat \in Optional(-90..90)
    /\ p.lng \in Optional(-180..180)
    /\ p.radius_km \in Optional(1..MaxRadius)
    /\ ValidCombinations(p)

\* GET /listings/search: the parameters as filters.
Filters(p) ==
    [listing_type |-> p.listing_type,
     min_price |-> p.min_price, max_price |-> p.max_price,
     min_bedrooms |-> p.min_bedrooms, max_bedrooms |-> p.max_bedrooms,
     geo |-> IF None \in {p.lat, p.lng, p.radius_km} THEN None
             ELSE [lat |-> p.lat, lng |-> p.lng, radius_km |-> p.radius_km]]

\* GET /listings has page and page_size only: no filter, newest first.
ListParams(page, page_size) ==
    [listing_type |-> None, min_price |-> None, max_price |-> None,
     min_bedrooms |-> None, max_bedrooms |-> None,
     lat |-> None, lng |-> None, radius_km |-> None,
     sort |-> "newest", page |-> page, page_size |-> page_size]

\* External: ST_Distance between a listing and the point searched around.
Distance(listing, geo) ==
    LET Abs(n) == IF n < 0 THEN -n ELSE n
    IN  Abs(listing.lat - geo.lat) + Abs(listing.lng - geo.lng)

\* The WHERE clause; bounds are inclusive.
Matches(f, listing) ==
    /\ f.listing_type \in {None, listing.listing_type}
    /\ f.min_price # None => listing.price >= f.min_price
    /\ f.max_price # None => listing.price <= f.max_price
    /\ f.min_bedrooms # None => listing.bedrooms >= f.min_bedrooms
    /\ f.max_bedrooms # None => listing.bedrooms <= f.max_bedrooms
    /\ f.geo # None => Distance(listing, f.geo) <= f.geo.radius_km

Matching(listings, f) == {l \in listings : Matches(f, l)}

\* The ORDER BY clause: x is sorted before y.  Every ordering ends with id.
SortKey(f, sort, l) ==
    CASE sort = "distance" -> Distance(l, f.geo)
      [] sort = "price_asc" -> l.price
      [] sort = "price_desc" -> -l.price
      [] sort = "newest" -> -l.created_at

\* Mutant of TieBreak: no ordering ends with id.
TieBreakMissing(sort, l) == 0

TieBreak(sort, l) == IF sort = "newest" THEN -l.id ELSE l.id

Before(f, sort, x, y) ==
    \/ SortKey(f, sort, x) < SortKey(f, sort, y)
    \/ /\ SortKey(f, sort, x) = SortKey(f, sort, y)
       /\ TieBreak(sort, x) < TieBreak(sort, y)

\* Sorting returns the rows in some order that never puts y after x when y is
\* before x: rows the ordering does not tell apart come in any order.
Orderings(f, sort, rows) ==
    {s \in SetToSeqs(rows) :
       \A i, j \in DOMAIN s : i < j => ~Before(f, sort, s[j], s[i])}

\* LIMIT and OFFSET.
Slice(s, limit, offset) ==
    SubSeq(s, offset + 1, IF offset + limit < Len(s) THEN offset + limit ELSE Len(s))

\* The pages the search statement can return.
SearchStatement(listings, f, sort, limit, offset) ==
    {Slice(s, limit, offset) : s \in Orderings(f, sort, Matching(listings, f))}

\* Paginated.build: math.ceil(total / page_size).
TotalPages(total, page_size) == (total + page_size - 1) \div page_size
=============================================================================
