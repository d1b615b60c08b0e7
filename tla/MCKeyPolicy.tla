----------------------------- MODULE MCKeyPolicy -----------------------------
(* An instance of KeyPolicy for TLC. *)
EXTENDS KeyPolicy

Doc(kty, pair, crv, alg, ops) ==
    [kty |-> kty, pair |-> pair, point |-> pair, crv |-> crv, sound |-> TRUE, size |-> 16,
     x5c |-> NoAlg, alg |-> alg, ops |-> ops]

\* A public RSA JWK without alg and operations but with a certificate, sound or
\* not, and one for two uses; private ones that sign, that do both, and with an EC
\* alg; private EC JWKs with another key's point, on the curve and off it, a public one,
\* and an oct JWK.
MCInputJwks ==
    {[Doc("rsaPublic", 11, NoCurve, NoAlg, {}) EXCEPT !.x5c = "RS256"],
     [Doc("rsaPublic", 12, NoCurve, NoAlg, {}) EXCEPT !.x5c = "PS384", !.sound = FALSE],
     Doc("rsaPublic", 13, NoCurve, "RS256", {"encrypt", "verify"}),
     Doc("rsaPrivate", 14, NoCurve, "RS256", {"sign"}),
     Doc("rsaPrivate", 15, NoCurve, "ES256", {"sign", "decrypt", "wrapKey"}),
     [Doc("ecPrivate", 16, "P-256", "ES256", {"sign"}) EXCEPT !.point = 18],
     [Doc("ecPrivate", 17, "P-384", "ES256", {"sign"}) EXCEPT !.point = 18],
     Doc("ecPublic", 18, "P-256", "ES256", {}),
     Doc("oct", 19, NoCurve, "A128GCM", {"encrypt"})}
MCRequiredOps == {{}, {"sign"}}
MCInputAlgs == {"PS256", "ES256", "RSA-OAEP", "A256GCM"}
MCInputOps == {"sign", "verify", "decrypt"}
MCInputBits == {1024, 2048, 15360}

=============================================================================
