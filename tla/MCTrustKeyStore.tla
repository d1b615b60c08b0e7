--------------------------- MODULE MCTrustKeyStore ---------------------------
(* Instances of TrustKeyStore for TLC. *)
EXTENDS TrustKeyStore, TLC

CONSTANTS i1, i2, k1, k2, rs, es

MCIssuers == {i1, i2}
MCKids == {k1, k2}
MCAlgs == {rs, es}
Jwk(k, a, l, n) == [kid |-> k, alg |-> a, loads |-> l, n |-> n]

\* Two keys under one kid, one under the other, one that does not load, one
\* without a kid.
MCJwks == {Jwk(k1, rs, TRUE, 1), Jwk(k1, es, TRUE, 2), Jwk(k2, rs, TRUE, 3),
           Jwk(k2, rs, FALSE, 4), Jwk(NoKid, rs, TRUE, 5)}

=============================================================================
