----------------------------- MODULE MCTrading -----------------------------
(* Trading for TLC: two symbols, each with one strategy. *)
EXTENDS Trading, TLC

CONSTANTS s1, s2, a, b, unknown

OneEach == a :> s1 @@ b :> s2
=============================================================================
