--------------------------- MODULE MCJsonStorage ---------------------------
(***************************************************************************)
(* Model checking of JsonStorage with two keys (stores.cfg). Liveness is   *)
(* checked with the invariants, so no symmetry is declared.                *)
(***************************************************************************)
EXTENDS JsonStorage
=============================================================================
