---------------------------- MODULE MCJwtVerifier ----------------------------
(* An instance of JwtVerifier for TLC. *)
EXTENDS JwtVerifier, TLC

CONSTANTS i1, i2, k1, rs, es, p1, p2, a1, a2

MCIssuers == {i1, i2}
MCKids == {k1}
MCAlgs == {rs, es}
MCProcs == {p1, p2}
Jwk(k, a, l, n) == [kid |-> k, alg |-> a, loads |-> l, n |-> n]

\* Three JWKs with one kid: two that load, with different algs, and one that
\* does not; and one without a kid.
J1 == Jwk(k1, rs, TRUE, 1)
J2 == Jwk(k1, es, TRUE, 2)
J3 == Jwk(k1, rs, FALSE, 3)
J4 == Jwk(NoKid, rs, TRUE, 4)
MCJwks == {J1, J2, J3, J4}

Good(i, j) == [form |-> "ok", nbf |-> 1, exp |-> 2, iss |-> i, aud |-> {a1},
               kid |-> j.kid, alg |-> j.alg, signer |-> j]

\* Tokens signed with either key for either issuer, and one that fails at each
\* check of Verify.
MCTokens ==
    {Good(i, j) : i \in MCIssuers, j \in {J1, J2}} \union
    {[Good(i1, J1) EXCEPT !.form = "too_large"],
     [Good(i1, J1) EXCEPT !.form = "malformed"],
     [Good(i1, J1) EXCEPT !.exp = 0],
     [Good(i1, J1) EXCEPT !.aud = {}],
     [Good(i1, J1) EXCEPT !.kid = NoKid],
     [Good(i1, J1) EXCEPT !.alg = es],
     [Good(i1, J1) EXCEPT !.signer = NoJwk]}
MCAudiences == {{a1, a2}}
MCTimes == 1 .. 2
Sym == Permutations(MCProcs)

=============================================================================
