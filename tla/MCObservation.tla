--------------------------- MODULE MCObservation ---------------------------
(* Two hosts; all three kinds of run compete for the first one. *)
EXTENDS Observation

CONSTANTS h1, h2, m1, m2, s1, d1, del1

MCHostOf == m1 :> h1 @@ s1 :> h1 @@ d1 :> h1 @@ m2 :> h2
MCHostOfLive == m1 :> h1 @@ s1 :> h1 @@ d1 :> h2
MCScope  == del1 :> {h1}
=============================================================================
