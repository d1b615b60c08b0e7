------------------------------ MODULE MCJwtJwks ------------------------------
(* An instance of JwtJwks for TLC. *)
EXTENDS JwtJwks, TLC

CONSTANTS p1, p2, k1, k2, known, foreign, a1, es

MCProcs == {p1, p2}
MCKids == {k1, k2}
MCIssuers == {known, foreign}
MCInputIssuers == {known}
MCKeyOf == [k \in MCKids |-> [kid |-> k, alg |-> es]]

\* A good token that expires one unit after Verify reads the clock.
Good == [form |-> "ok", nbf |-> 0, exp |-> 1, iss |-> known, aud |-> {a1},
         kid |-> k1, alg |-> es, signer |-> MCKeyOf[k1]]

\* It, an expired one, one of a foreign issuer and one signed by nobody.
MCTokens == {Good, [Good EXCEPT !.exp = 0], [Good EXCEPT !.iss = foreign],
             [Good EXCEPT !.signer = NoJwk]}
MCAudiences == {{a1}}
Sym == Permutations(MCProcs)

=============================================================================
