--------------------------- MODULE MCSubDelivery ---------------------------
(***************************************************************************)
(* Model checking of SubDelivery. The paths are interchangeable; the sids  *)
(* are not, because broker_load_qos_storage gives sid 0 a meaning.         *)
(***************************************************************************)
EXTENDS SubDelivery, TLC

PathSymmetry == Permutations(Paths)

\* The histories owed and got are read by no action, and by no property of the
\* run that looks at the states through this view.
WithoutHistory ==
  <<link, live, sids, [p \in Paths |-> [sub[p] EXCEPT !.owed = {}, !.got = {}]],
    freed, store, file, value, written, wire, acked, ackUpTo>>
=============================================================================
