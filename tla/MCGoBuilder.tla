---------------------------- MODULE MCGoBuilder ----------------------------
(* GoBuilder with three callers, two of which want the same package. *)
EXTENDS GoBuilder, TLC

CONSTANTS b1, b2, b3

Wanted == (b1 :> "server") @@ (b2 :> "server") @@ (b3 :> "client")
=============================================================================
