------------------------------ MODULE JwtCodec ------------------------------
(***************************************************************************)
(* Compact JWTs: JwtSignerImpl.Sign (jwt_signer.go), Jwt, JwtClaims, Jws   *)
(* and Audiences (jose/jwt.go, jose/jws.go), and LoadJws (helpers.go), as  *)
(* operators.                                                              *)
(*                                                                         *)
(* A token is its three segments; a segment is a value and the form of its *)
(* base64url: "canonical", "variant" (other characters that decode to the  *)
(* same octets: stray trailing bits, line breaks) or "bad".  A signature   *)
(* names the key that made it and the two segments, as written, that it    *)
(* covers.  The value of a header or payload says with json whether it is  *)
(* an "object", "null", or does not decode ("bad").  Claims that behave    *)
(* alike are represented by one: iss for iat, jti and sub.  A time that is *)
(* absent is 0.                                                            *)
(***************************************************************************)
EXTENDS Integers, Sequences

CONSTANTS NoIssuer, NoSignature

reservedJwtClaims == {"iss", "iat", "jti", "sub", "aud", "exp", "nbf"}

NoHeader == [json |-> "object", alg |-> "", kid |-> <<>>, typ |-> "", cty |-> "", crit |-> FALSE]
NoClaims == [iss |-> NoIssuer, aud |-> <<>>, nilAud |-> TRUE, exp |-> 0, nbf |-> 0, untyped |-> {}]
NoJwt == [header |-> NoHeader, claims |-> NoClaims, signature |-> NoSignature]
NoBody == <<>>

-----------------------------------------------------------------------------
(* Claims.                                                                 *)

\* Mutant: the first audience alone.
FirstAud(c) == [json |-> "string", v |-> IF c.aud = <<>> THEN <<>> ELSE <<Head(c.aud)>>]

\* Audiences.MarshalJSON: one audience is a string, none at all is null.
MarshalAud(c) ==
    [json |-> IF Len(c.aud) = 1 THEN "string" ELSE IF c.nilAud THEN "null" ELSE "list",
     v |-> c.aud]

\* JwtClaims.MarshalJSON: typed claims win by refusing their names to the others.
MarshalClaims(c) ==
    [ok |-> c.untyped \intersect reservedJwtClaims = {},
     doc |-> [json |-> "object", iss |-> c.iss, aud |-> MarshalAud(c),
              exp |-> c.exp, nbf |-> c.nbf, untyped |-> c.untyped]]

\* Audiences.UnmarshalJSON appends the strings before the first item that is none.
UnmarshalAud(c, aud) == [c EXCEPT !.aud = @ \o aud.v, !.nilAud = @ /\ aud.v = <<>>]

\* JwtClaims.UnmarshalJSON into c: only members that are there are assigned; an aud
\* that is no string or list of strings ends it.
UnmarshalClaims(c, doc) ==
    LET c1 == UnmarshalAud([c EXCEPT !.iss = IF doc.iss = NoIssuer THEN @ ELSE doc.iss], doc.aud)
        c2 == [c1 EXCEPT !.exp = IF doc.exp = 0 THEN @ ELSE doc.exp,
                         !.nbf = IF doc.nbf = 0 THEN @ ELSE doc.nbf,
                         !.untyped = doc.untyped]
    IN  CASE doc.json = "bad" -> [ok |-> FALSE, claims |-> c]
          [] doc.json = "null" -> [ok |-> TRUE, claims |-> c]
          [] doc.json = "object" /\ doc.aud.json \in {"null", "bad"} ->
                [ok |-> FALSE, claims |-> c1]
          [] doc.json = "object" /\ doc.aud.json \in {"absent", "string", "list"} ->
                [ok |-> TRUE, claims |-> c2]

-----------------------------------------------------------------------------
(* JWS and JWT.                                                            *)

Encoding(val, form) == [val |-> val, form |-> form]
Encoded(val) == Encoding(val, "canonical")
Signed(t) == <<t.header, t.payload>>

\* Mutant: RawURLEncoding alone.
LaxB64(seg) == seg.form # "bad"

strictCompactB64(seg) == seg.form = "canonical"

\* A header is decoded into h: members that are absent stay.
UnmarshalHeader(h, doc) ==
    IF doc.json = "null" THEN h
    ELSE [f \in DOMAIN doc |-> IF doc[f] = NoHeader[f] THEN h[f] ELSE doc[f]]

\* Jws.Unmarshal into the header and claims of a Jwt; what was decoded before an
\* error stays.  The body is what the signature covers, as it is written.
UnmarshalJws(jwt, t) ==
    LET c == UnmarshalClaims(jwt.claims, t.payload.val)
        withHeader == [jwt EXCEPT !.header = UnmarshalHeader(@, t.header.val)]
        decoded == [withHeader EXCEPT !.claims = c.claims]
        fail(why, left) == [err |-> why, jwt |-> left, body |-> NoBody]
    IN  IF t.large THEN fail("too_large", jwt)
        ELSE IF t.parts # 3 \/ t.header.form = "bad" \/ t.header.val.json = "bad"
        THEN fail("malformed", jwt)
        ELSE IF t.payload.form = "bad" THEN fail("malformed", withHeader)
        ELSE IF ~c.ok \/ ~strictCompactB64(t.sig) THEN fail("malformed", decoded)
        ELSE [err |-> "ok", jwt |-> [decoded EXCEPT !.signature = t.sig.val], body |-> Signed(t)]

\* Jwt.Verify
VerifyJwt(jwt) ==
    /\ jwt.header.typ = "JWT" /\ jwt.header.cty \in {"", "JWT"}
    /\ ~jwt.header.crit
    /\ jwt.claims.untyped \intersect reservedJwtClaims = {}

\* Mutant: what the Jwt held before stays.
NotReset(jwt) == jwt

Reset(jwt) == NoJwt

\* Jwt.Unmarshal
UnmarshalJwt(jwt, t) ==
    LET r == UnmarshalJws(Reset(jwt), t)
    IN  IF r.err = "ok" /\ ~VerifyJwt(r.jwt)
        THEN [err |-> "malformed", jwt |-> r.jwt, body |-> NoBody]
        ELSE r

LoadsJws(t) ==
    /\ t.parts = 3 /\ t.header.val.json # "bad"
    /\ \A seg \in {t.header, t.payload, t.sig} : seg.form # "bad"

\* Mutant: the payload is what the decoded segments would be written as.
LoadJwsAnew(t) ==
    [ok |-> LoadsJws(t), header |-> UnmarshalHeader(NoHeader, t.header.val),
     payload |-> <<Encoded(t.header.val), Encoded(t.payload.val)>>, signature |-> t.sig.val]

\* LoadJws: any base64url, no bound, and the claims are not looked into.  The payload is
\* what the signature covers, as it is written.
LoadJws(t) ==
    [ok |-> LoadsJws(t), header |-> UnmarshalHeader(NoHeader, t.header.val),
     payload |-> Signed(t), signature |-> t.sig.val]

\* Jwt.MarshalBody and MarshalJws: the token of jwt with its signature, if it can
\* be written.
MarshalJwt(jwt, large) ==
    [ok |-> VerifyJwt(jwt) /\ MarshalClaims(jwt.claims).ok,
     token |-> [large |-> large, parts |-> 3, header |-> Encoded(jwt.header),
                payload |-> Encoded(MarshalClaims(jwt.claims).doc),
                sig |-> Encoded(jwt.signature)]]

\* JwtSignerImpl.Sign by the key of a JWK: claims.untyped are the names of the
\* untyped claims, encodes whether all their values can be written.
Sign(issuer, jwk, claims, encodes, large) ==
    LET header == [NoHeader EXCEPT !.alg = jwk.alg, !.kid = jwk.kid, !.typ = "JWT"]
        unsigned == MarshalJwt([header |-> header, claims |-> [claims EXCEPT !.iss = issuer],
                                signature |-> NoSignature], large)
    IN  [ok |-> encodes /\ unsigned.ok,
         token |-> [unsigned.token EXCEPT !.sig =
                        Encoded([by |-> jwk.d, over |-> Signed(unsigned.token)])]]

=============================================================================
