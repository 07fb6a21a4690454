-------------------------- MODULE MCRequestPipeline -------------------------
(***************************************************************************)
(* A small instance of RequestPipeline: two requests can mix up their ids, *)
(* be told to use the same one, come without a valid one, or be told to    *)
(* use the one that was minted for the other.                              *)
(***************************************************************************)
EXTENDS RequestPipeline

CONSTANTS r1, r2, trace, unsafe

MCRequest == {r1, r2}
MCCallerId == {r1, trace, unsafe}
MCValidId == {r1, trace}
=============================================================================
