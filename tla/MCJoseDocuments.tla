--------------------------- MODULE MCJoseDocuments ---------------------------
(***************************************************************************)
(* JoseDocuments with two key pairs, k1 and k2.  The issuer loads or       *)
(* imports keys of k1; the other documents and tokens are of k2, or try to *)
(* pass for k1's.                                                          *)
(***************************************************************************)
EXTENDS JoseDocuments

Cert(kty, pair) ==
    [kty |-> kty, pub |-> pair, crv |-> IF kty = "EC" THEN "P-256" ELSE "", sha1 |-> pair]

\* A private RSA document, and what differs from it.
RsaDoc == [kty |-> "RSA", large |-> FALSE, crv |-> "", pub |-> "k1", d |-> "k1",
           primes |-> "k1", alg |-> "PS", kid |-> <<"a">>, ops |-> <<"sign">>,
           x5c |-> <<>>, x5t |-> "absent"]
EcDoc == [RsaDoc EXCEPT !.kty = "EC", !.primes = "absent", !.alg = "ES"]
PublicRsa == [RsaDoc EXCEPT !.d = "absent", !.primes = "absent", !.ops = <<"verify">>]

MCInputDocs ==
    {RsaDoc,
     [RsaDoc EXCEPT !.primes = "absent"],             \* no public half
     [RsaDoc EXCEPT !.d = "zero"],                    \* public
     [RsaDoc EXCEPT !.alg = "ES"],                    \* verifies nothing
     [RsaDoc EXCEPT !.x5c = <<Cert("RSA", "k1")>>, !.x5t = "k2"],
     [RsaDoc EXCEPT !.large = TRUE], [RsaDoc EXCEPT !.kty = "OKP"],
     [RsaDoc EXCEPT !.ops = <<"sign", "sign">>],
     EcDoc, [EcDoc EXCEPT !.pub = "k2"],              \* x and y are not d's
     [EcDoc EXCEPT !.kid = <<>>, !.x5c = <<Cert("EC", "k1")>>, !.x5t = "k1"],
     [EcDoc EXCEPT !.pub = "malformed"],
     [RsaDoc EXCEPT !.kty = "oct", !.d = "absent", !.primes = "absent", !.alg = "A256GCM"]}

\* Others' documents: another key with the same kid, and two that are refused: one
\* with the certificate of another key, and one that is too large.
MCForeignDocs ==
    {[PublicRsa EXCEPT !.pub = "k2"],
     [PublicRsa EXCEPT !.pub = "k2", !.kid = <<"b">>, !.x5c = <<Cert("RSA", "k1")>>],
     [PublicRsa EXCEPT !.pub = "k2", !.kid = <<"b">>, !.large = TRUE]}

MCImports ==
    {[kty |-> "RSA", pair |-> "k1", ops |-> <<"sign">>, certs |-> <<>>],
     [kty |-> "EC", pair |-> "k1", ops |-> <<"sign", "verify">>, certs |-> <<Cert("EC", "k1")>>],
     [kty |-> "EC", pair |-> "k1", ops |-> <<"sign">>, certs |-> <<Cert("EC", "k2")>>]}

MCInputOps == {<<"sign", "wrapKey", "unwrapKey">>}
MCInputCerts == {<<Cert("EC", "k1")>>}

Claims == [NoClaims EXCEPT !.aud = <<"ours">>, !.nilAud = FALSE, !.exp = 2]

Arguments(claims) == [claims |-> claims, encodes |-> TRUE, large |-> FALSE]

MCInputClaims ==
    {Arguments(Claims), [Arguments(Claims) EXCEPT !.large = TRUE],
     [Arguments(Claims) EXCEPT !.encodes = FALSE],
     Arguments([Claims EXCEPT !.aud = <<"other", "ours">>, !.nbf = 1, !.untyped = {"role"}]),
     Arguments([Claims EXCEPT !.untyped = {"exp"}]),
     Arguments([Claims EXCEPT !.aud = <<>>, !.exp = 0]),
     Arguments([Claims EXCEPT !.aud = <<>>, !.nilAud = TRUE])}

Payload == MarshalClaims([Claims EXCEPT !.iss = Issuer]).doc

MCPayloads ==
    {[Payload EXCEPT !.iss = NoIssuer],
     [Payload EXCEPT !.aud = [json |-> "bad", v |-> <<"ours">>]],
     [Payload EXCEPT !.json = "null"], [Payload EXCEPT !.json = "bad"]}

\* Tokens of k2 in the name of the issuer and its kid, and with headers that
\* Jwt.Verify refuses.
Header == [NoHeader EXCEPT !.alg = "PS", !.kid = <<"a">>, !.typ = "JWT"]

Foreign(header) ==
    LET t == [large |-> FALSE, parts |-> 3, header |-> Encoded(header),
              payload |-> Encoded(Payload), sig |-> Encoded(NoSignature)]
    IN  [t EXCEPT !.sig = Encoded([by |-> "k2", over |-> Signed(t)])]

MCForeignTokens ==
    {Foreign(Header), Foreign([Header EXCEPT !.crit = TRUE]),
     Foreign([Header EXCEPT !.json = "null"])}

=============================================================================
