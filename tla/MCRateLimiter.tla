--------------------------- MODULE MCRateLimiter ---------------------------
(***************************************************************************)
(* RateLimiter for TLC: two requests of different size, limits on three of *)
(* the six tiers.                                                          *)
(***************************************************************************)
EXTENDS RateLimiter, TLC

CONSTANTS r1, r2

MCRequests == {r1, r2}
MCEstimate == (r1 :> 1) @@ (r2 :> 2)
MCLimit == <<2, 0, 0, 2, 1, 0>>
=============================================================================
