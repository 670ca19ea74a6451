------------------------------- MODULE MCLinks -------------------------------
(***************************************************************************)
(* Model checking of Links: two dslinks with the same prefix whose hashes  *)
(* begin differently.                                                      *)
(***************************************************************************)
EXTENDS Links, TLC

CONSTANTS a, b, p, p_, pa, pb, once, any

TwoDsIds == (a :> <<p, p_, pa>>) @@ (b :> <<p, p_, pb>>)
OwnTokens == (a :> once) @@ (b :> any)
OnceAndAny == (once :> 1) @@ (any :> Unlimited)
=============================================================================
