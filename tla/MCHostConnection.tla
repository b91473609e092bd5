-------------------------- MODULE MCHostConnection --------------------------
(* One host, two addresses with a key each, two requests in flight.          *)
EXTENDS HostConnection, TLC

CONSTANTS a1, a2, c1, c2, k1, k2, p1, p2

Keys == a1 :> k1 @@ a2 :> k2
Workers == Permutations({p1, p2})
=============================================================================
