------------------------------ MODULE MCUpstream -----------------------------
(***************************************************************************)
(* Model checking of Upstream.                                             *)
(***************************************************************************)
EXTENDS Upstream
=============================================================================
