-------------------------- MODULE MCConnectionPool --------------------------
(***************************************************************************)
(* A small instance of ConnectionPool: one request more than there are     *)
(* connections, so that the pool can be full.  As requests differ by their *)
(* kind only, each mixture of kinds need be tried in one order only; the   *)
(* three with one kind alone are left out.                                 *)
(***************************************************************************)
EXTENDS ConnectionPool

Rank == [read |-> 1, write |-> 2, probe |-> 3]

MCKinds ==
    {k \in [Request -> DOMAIN Rank] :
        /\ \A r, q \in Request : r < q => Rank[k[r]] <= Rank[k[q]]
        /\ \E r, q \in Request : k[r] # k[q]}
=============================================================================
