-------------------------- MODULE MCInvokeStreams --------------------------
(***************************************************************************)
(* Model checking of InvokeStreams. Rids are interchangeable; links are    *)
(* not, because only some are of this SDK.                                 *)
(***************************************************************************)
EXTENDS InvokeStreams, TLC

RidSymmetry == Permutations(Rids)
=============================================================================
