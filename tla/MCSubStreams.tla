---------------------------- MODULE MCSubStreams ----------------------------
(***************************************************************************)
(* Model checking of SubStreams. Requesters are interchangeable.           *)
(***************************************************************************)
EXTENDS SubStreams, TLC

ReqSymmetry == Permutations(Reqs)
=============================================================================
