--------------------------- MODULE MCListingCrud ---------------------------
(***************************************************************************)
(* Small instances of ListingCrud for TLC.  One required and one nullable  *)
(* column; PATCH bodies that touch different columns (so that a lost       *)
(* update shows), clear one, and are refused.                              *)
(***************************************************************************)
EXTENDS ListingCrud, TLC

CONSTANTS price, city, v1, v2, id1

MCColumn == {price, city}
MCRequired == {price}
MCValue == {v1, v2}

Fields(p, c) == price :> p @@ city :> c

\* A complete body, and one without its required field.
MCCreateBody == {Fields(v1, Unset), Fields(Unset, v1)}

\* Set the price, clear the city, send nothing, send price: null.
MCPatchBody ==
    {Fields(v2, Unset), Fields(Unset, Null), Fields(Unset, Unset), Fields(Null, v2)}

\* The writing bodies alone.
MCGoodCreateBody == {Fields(v1, Unset)}
MCGoodPatchBody == {Fields(v2, Unset), Fields(Unset, Null)}

\* One listing at the start; the other ids are free.
MCInitial == [id \in Id |-> IF id = id1 THEN Fields(v1, v1) ELSE Absent]

RequestSymmetry == Permutations(Request)
IdSymmetry == Permutations(Id \ {id1})
Symmetry == RequestSymmetry \cup IdSymmetry
=============================================================================
