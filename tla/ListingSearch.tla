--------------------------- MODULE ListingSearch ---------------------------
(***************************************************************************)
(* A client that pages through a search, or through the whole list, while  *)
(* listings are created, changed and deleted.                              *)
(*                                                                         *)
(* Every page is one request, and every request is two statements: a COUNT *)
(* and then, unless the offset is past the count, the page itself.  Under  *)
(* READ COMMITTED each statement sees what is committed when it starts, so *)
(* writes come between two pages and between a page and its count.  Writes *)
(* are atomic here, which is what ListingCrud establishes; other readers   *)
(* do not matter to this one.                                              *)
(***************************************************************************)
EXTENDS SearchQuery

CONSTANTS
    Id,           \* listing ids, integers: only their order matters
    Contents,     \* what a listing can hold besides its id and created_at
    Stamp,        \* the values of created_at
    Search,       \* the parameters clients send to either endpoint
    MaxWrites,    \* bound on the writes committed while the client is at work
    MaxOffset     \* the largest OFFSET Postgres accepts (2^63 - 1)

ASSUME SearchAssumption ==
    /\ Id \subseteq Int /\ IsFiniteSet(Id)
    /\ Stamp \subseteq Nat
    /\ MaxWrites \in Nat
    /\ MaxOffset \in Nat /\ Cardinality(Id) <= MaxOffset
    /\ Search \subseteq Parameters
    /\ Contents \subseteq [listing_type : ListingType, price : Int, bedrooms : Int,
                           lat : Int, lng : Int]

Listing(id, stamp, c) ==
    [id |-> id, created_at |-> stamp, listing_type |-> c.listing_type,
     price |-> c.price, bedrooms |-> c.bedrooms, lat |-> c.lat, lng |-> c.lng]

Listings == {Listing(id, s, c) : id \in Id, s \in Stamp, c \in Contents}

VARIABLES
    listings,   \* the committed listings
    pc,         \* where the client's request is
    params,     \* its parameters
    total,      \* what its COUNT returned
    data,       \* the page it was answered
    seen,       \* all listings of the pages so far, in the order they came
    first,      \* history: the page the client began at
    origin,     \* history: the ids that matched when it began
    effects,    \* history: what writes have done to the result since then
    steady,     \* history: no write has touched the result since the COUNT
    writes      \* the number of writes

history == <<first, origin>>
request == <<pc, params, total, data, seen>>
vars == <<listings, request, history, effects, steady, writes>>

f == Filters(params)
Results == Matching(listings, f)
IdsOf(rows) == {l.id : l \in rows}

Init ==
    /\ \E ids \in SUBSET Id :
          \E stamp \in [ids -> Stamp], contents \in [ids -> Contents] :
             listings = {Listing(id, stamp[id], contents[id]) : id \in ids}
    /\ pc = "idle"
    /\ params = ListParams(1, 1)
    /\ total = 0
    /\ data = <<>>
    /\ seen = <<>>
    /\ first = 1
    /\ origin = {}
    /\ effects = {}
    /\ steady = FALSE
    /\ writes = 0

----------------------------------------------------------------------------
\* The client asks for a page; parameters that do not validate are refused.
Ask ==
    /\ pc = "idle"
    /\ \E p \in Search :
          /\ params' = p
          /\ \/ /\ ~ValidSearch(p)
                /\ pc' = "refused"
                /\ UNCHANGED history
             \/ /\ ValidSearch(p)
                /\ pc' = "asked"
                /\ first' = p.page
                /\ origin' = IdsOf(Matching(listings, Filters(p)))
    /\ UNCHANGED <<listings, total, data, seen, effects, steady, writes>>

\* Mutants of Count: the last page taken for past the end; no early return.
CountDroppingLastPage ==
    /\ pc = "asked"
    /\ total' = Cardinality(Results)
    /\ pc' = IF total' = 0 \/ Offset(params) + params.page_size >= total'
             THEN "answered" ELSE "counted"
    /\ data' = <<>>
    /\ steady' = TRUE
    /\ UNCHANGED <<listings, params, seen, history, effects, writes>>

CountThenFetch ==
    /\ pc = "asked"
    /\ total' = Cardinality(Results)
    /\ pc' = "counted"
    /\ data' = <<>>
    /\ steady' = TRUE
    /\ UNCHANGED <<listings, params, seen, history, effects, writes>>

\* The first statement.  A page past the end is answered from the count alone.
Count ==
    /\ pc = "asked"
    /\ total' = Cardinality(Results)
    /\ pc' = IF total' = 0 \/ Offset(params) >= total' THEN "answered" ELSE "counted"
    /\ data' = <<>>
    /\ steady' = TRUE
    /\ UNCHANGED <<listings, params, seen, history, effects, writes>>

\* The second statement, and the answer.
Fetch ==
    /\ pc = "counted"
    /\ data' \in SearchStatement(listings, f, params.sort, params.page_size, Offset(params))
    /\ seen' = seen \o data'
    /\ pc' = "answered"
    /\ UNCHANGED <<listings, params, total, history, effects, steady, writes>>

\* A statement fails, the client is told 500 and asks for the same page again.
Retry ==
    /\ pc = "counted"
    /\ pc' = "asked"
    /\ UNCHANGED <<listings, params, total, data, seen, history, effects, steady, writes>>

\* The client goes on to the next page, until it gets an empty one.
NextPage ==
    /\ pc = "answered"
    /\ IF data = <<>>
       THEN pc' = "done" /\ UNCHANGED params
       ELSE pc' = "asked" /\ params' = [params EXCEPT !.page = @ + 1]
    /\ UNCHANGED <<listings, total, data, seen, history, effects, steady, writes>>

\* What a write does to the client's result: a listing may enter it, leave it,
\* or, if its place in the order changes, do both.
Effect(old, new) ==
    LET In(rows) == {<<l.id, SortKey(f, params.sort, l)>> : l \in Matching(rows, f)}
    IN  (IF In(new) \subseteq In(old) THEN {} ELSE {"enters"})
          \cup (IF In(old) \subseteq In(new) THEN {} ELSE {"leaves"})

Write(new) ==
    /\ pc \in {"asked", "counted", "answered"}
    /\ writes < MaxWrites
    /\ writes' = writes + 1
    /\ listings' = new
    /\ effects' = effects \cup Effect(listings, new)
    /\ steady' = (steady /\ Matching(new, f) = Results)
    /\ UNCHANGED <<request, history>>

\* A POST commits.  Its created_at is when its transaction began, which may be
\* before listings that are already there were created.
Create ==
    \E id \in Id \ IdsOf(listings), s \in Stamp, c \in Contents :
       Write(listings \cup {Listing(id, s, c)})

\* Mutant of Change: the changed row is inserted beside the old one.
ChangeACopy ==
    \E l \in listings, c \in Contents :
       Write(listings \cup {Listing(l.id, l.created_at, c)})

\* A PATCH commits; it cannot change id or created_at.
Change ==
    \E l \in listings, c \in Contents :
       Write((listings \ {l}) \cup {Listing(l.id, l.created_at, c)})

Delete == \E l \in listings : Write(listings \ {l})

Next == Ask \/ Count \/ Fetch \/ Retry \/ NextPage \/ Create \/ Change \/ Delete

Spec == Init /\ [][Next]_vars

----------------------------------------------------------------------------
\* Every variable has its type, listings have ids of their own, and a page is
\* fetched only when there is something to fetch.
TypeOK ==
    /\ listings \subseteq Listings
    /\ Cardinality(IdsOf(listings)) = Cardinality(listings)
    /\ pc \in {"idle", "refused", "asked", "counted", "answered", "done"}
    /\ total \in 0..Cardinality(Id)
    /\ ToSet(data) \cup ToSet(seen)
          \subseteq Listings
    /\ first \in Nat /\ origin \subseteq Id
    /\ effects \subseteq {"enters", "leaves"}
    /\ steady \in BOOLEAN
    /\ writes \in 0..MaxWrites

\* Whatever page a client names, the statement that is sent has an OFFSET
\* Postgres accepts and an ordering that can be computed: search_statement
\* never raises "sort=distance requires a point".
StatementIsSound ==
    pc = "counted" =>
       /\ Offset(params) \in 0..MaxOffset
       /\ params.sort = "distance" => f.geo # None

\* The number of results sorted before a listing.
Rank(l) == Cardinality({k \in Results : Before(f, params.sort, k, l)})

\* If no write came between a COUNT and its page, the answer is that of one
\* atomic search: the listings whose ranks are on the page, in order, with the
\* exact total; and only the pages after the last one are empty.
SteadyAnswerIsExact ==
    pc = "answered" /\ steady =>
       LET low == (params.page - 1) * params.page_size
       IN  /\ total = Cardinality(Results)
           /\ ToSet(data) = {l \in Results : Rank(l) \in low .. low + params.page_size - 1}
           /\ \A i \in DOMAIN data : Rank(data[i]) = low + i - 1
           /\ data = <<>> <=> params.page > TotalPages(total, params.page_size)

\* The client began at page 1 and has come to an empty page.
Walked == pc = "done" /\ first = 1
SeenIds == IdsOf(ToSet(seen))

\* While listings are only added to the result, paging through all of it misses
\* nothing that was there at the start.
AdditionsHideNothing ==
    Walked /\ "leaves" \notin effects => origin \subseteq SeenIds

\* While listings are only taken from the result, none is shown twice.
RemovalsRepeatNothing ==
    Walked /\ "enters" \notin effects => Cardinality(SeenIds) = Len(seen)

\* While nothing happens to the result (writes elsewhere do not matter), the
\* pages put together are the result, in order: "pages are stable".
QuietPagesAddUp ==
    Walked /\ effects = {} =>
       /\ SeenIds = IdsOf(Results)
       /\ \A i \in DOMAIN seen : Rank(seen[i]) = i - 1

\* README: a page comes with "an exact total from a count over the same
\* filters", so what is on it is within the total.
PageAgreesWithTotal ==
    pc = "answered" => Offset(params) + Len(data) <= total
=============================================================================
