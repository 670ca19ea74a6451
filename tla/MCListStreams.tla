--------------------------- MODULE MCListStreams ---------------------------
(***************************************************************************)
(* Model checking of ListStreams. Requesters and their rids are            *)
(* interchangeable.                                                        *)
(***************************************************************************)
EXTENDS ListStreams, TLC

ReqSymmetry == Permutations(Reqs) \cup Permutations(Rids)
=============================================================================
