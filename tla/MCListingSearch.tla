-------------------------- MODULE MCListingSearch --------------------------
(***************************************************************************)
(* Small instances of ListingSearch for TLC: three listings at most, a few *)
(* contents with equal prices and equal stamps (so that ties happen), and  *)
(* searches of each endpoint and each sort order.                          *)
(***************************************************************************)
EXTENDS ListingSearch

House(type, price, bedrooms, lat, lng) ==
    [listing_type |-> type, price |-> price, bedrooms |-> bedrooms,
     lat |-> lat, lng |-> lng]

Loft == House("rent", 1, 1, 1, 1)
Villa == House("sale", 2, 3, 0, 0)

MCContents == {Loft, Villa}
MCId == 1..3
MCStamp == {0, 1}

All(sort, page, page_size) == [ListParams(page, page_size) EXCEPT !.sort = sort]
Cheap(sort, page, page_size) == [All(sort, page, page_size) EXCEPT !.max_price = 1]
Near(radius_km, sort, page, page_size) ==
    [All(sort, page, page_size) EXCEPT !.lat = 0, !.lng = 0, !.radius_km = radius_km]

\* Walks in every order, with and without filters; one page, near or far past
\* the end; and parameters that are refused.
MCSearch ==
    {ListParams(1, 1), ListParams(1, 2), Cheap("newest", 1, 1),
     All("price_asc", 1, 1), Cheap("price_desc", 1, 2), Near(2, "distance", 1, 1),
     ListParams(2, 2), ListParams(1000, 2),
     [Near(1, "price_asc", 1, 2) EXCEPT !.listing_type = "sale", !.min_bedrooms = 2],
     [All("price_desc", 1, 2) EXCEPT !.min_price = 2, !.max_bedrooms = 3],
     ListParams(0, 1), ListParams(1, 3), All("distance", 1, 1),
     [Near(1, "distance", 1, 2) EXCEPT !.lng = None],
     Near(3, "newest", 1, 2),
     [All("price_desc", 1, 2) EXCEPT !.min_price = 2, !.max_price = 1],
     [All("price_desc", 1, 2) EXCEPT !.min_bedrooms = 2, !.max_bedrooms = 1],
     [All("price_asc", 1, 2) EXCEPT !.max_price = MaxPrice + 1],
     [All("price_asc", 1, 2) EXCEPT !.max_bedrooms = MAX_BEDROOMS + 1],
     [Near(2, "distance", 1, 2) EXCEPT !.lat = 91]}

MCOneSearch == {ListParams(1, 2)}
=============================================================================
