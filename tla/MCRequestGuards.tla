--------------------------- MODULE MCRequestGuards ---------------------------
(* Model-checking instance of RequestGuards: a request and two retries with *)
(* the same key, the second one from another address.                       *)
EXTENDS RequestGuards, TLC

CONSTANTS r1, r2, r3, c1, c2, k1, noKey, noRequest

MCRequest == {r1, r2, r3}
MCClient == {c1, c2}
MCKey == {k1}
MCClientOf == r1 :> c1 @@ r2 :> c1 @@ r3 :> c2
MCKeyOf == r1 :> k1 @@ r2 :> k1 @@ r3 :> k1
MCFaults == {"redis", "crash", "ttl"}
=============================================================================
