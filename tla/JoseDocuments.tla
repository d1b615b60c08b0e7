---------------------------- MODULE JoseDocuments ----------------------------
(***************************************************************************)
(* Documents between an issuer and its verifier.  The issuer loads or      *)
(* imports a private JWK, changes it, publishes its public half in a key   *)
(* set and signs tokens with it.  The verifier reads the set, into a new   *)
(* Jwks or into the one it has, parses tokens into a Jwt that it uses      *)
(* again, and verifies them.  On the way tokens are altered, and others    *)
(* who hold a key write tokens of their own.                               *)
(***************************************************************************)
EXTENDS JwtCodec, FiniteSets

CONSTANTS
    InputDocs,     \* JWK documents that the issuer loads
    ForeignDocs,   \* documents that others put into the set
    Imports,       \* arguments of JwkFromPrivateKey: kty, pair, ops, certs
    InputOps,      \* lists of operations that the issuer sets
    InputCerts,    \* chains of certificates that the issuer sets
    Issuer,        \* whom the signer names
    InputClaims,   \* arguments of Sign: claims, encodes, large
    ForeignTokens, \* tokens that others write
    Payloads,      \* claims that are put in the place of others
    Audience,      \* the audiences that the verifier accepts
    Now,           \* the verifier's clock
    MaxKeys,       \* bound on the keys of a Jwks
    MaxCerts,      \* bound on a chain of certificates
    MaxSteps,      \* bound on the steps of a behaviour
    MaxKeyOps, NoToken

\* A token is five fields, and its signature's segment two, whatever they hold.
IsToken(t) ==
    /\ t.large \in BOOLEAN
    /\ t = [large |-> t.large, parts |-> t.parts, header |-> t.header, payload |-> t.payload,
            sig |-> Encoding(t.sig.val, t.sig.form)]

\* No JWK: there is no such type.
NoJwk == [kty |-> "none"]

Jwk == INSTANCE JwkCodec
INSTANCE JwtChecks WITH NoKid <- <<>>

IsSeq(s) == s \in Seq({s[i] : i \in DOMAIN s})

\* EC keys are on one curve.
IsCert(c) == c.kty = "EC" => c.crv = "P-256"

\* Certificates that a client has are not malformed, as those of a document may be.
IsChain(certs) ==
    IsSeq(certs) /\ \A i \in DOMAIN certs : IsCert(certs[i]) /\ certs[i].sha1 # Jwk!Malformed

ASSUME DocumentsAssumption ==
    /\ \A doc \in InputDocs :
        IsSeq(doc.ops) /\ IsSeq(doc.x5c) /\ \A i \in DOMAIN doc.x5c : IsCert(doc.x5c[i])
    /\ \A doc \in ForeignDocs : doc.large \in BOOLEAN
    /\ \A a \in Imports :
        /\ a.kty \in {"RSA", "EC"} /\ a.pair \notin {Jwk!Absent, Jwk!Malformed, Jwk!Zero}
        /\ IsSeq(a.ops) /\ IsChain(a.certs)
    /\ \A ops \in InputOps : IsSeq(ops)
    /\ \A certs \in InputCerts : IsChain(certs)
    /\ MaxKeys \in Nat /\ MaxKeys >= 2

\* Claims as JwtClaims holds them: audiences that are nil are none.
IsClaims(c) ==
    /\ c = [iss |-> c.iss, aud |-> c.aud, nilAud |-> c.nilAud, exp |-> c.exp, nbf |-> c.nbf,
            untyped |-> c.untyped]
    /\ IsSeq(c.aud) /\ c.nilAud \in BOOLEAN /\ (c.nilAud => c.aud = <<>>)
    /\ c.exp \in Int /\ c.nbf \in Int

\* The issuer's key as it gets it.
FirstKeys ==
    {Jwk!Decoded(doc) : doc \in InputDocs}
        \union {Jwk!JwkFromPrivateKey(a.kty, a.pair, a.ops, a.certs) : a \in Imports}

\* What Sign makes is a signature.
ASSUME TokensAssumption ==
    /\ \A t \in ForeignTokens : IsToken(t)
    /\ \A a \in InputClaims :
        /\ a.large \in BOOLEAN /\ IsClaims(a.claims)
        /\ \A j \in FirstKeys :
            Sign(Issuer, j, a.claims, a.encodes, a.large).token.sig.val # NoSignature
    /\ Now \in Int

VARIABLES
    own,      \* the issuer's JWK, or NoJwk
    page,     \* the published key set: a sequence of documents
    jwks,     \* the verifier's Jwks
    wire,     \* the token on its way, or NoToken
    jwt,      \* the verifier's Jwt
    given,    \* history: the token last parsed into it, or NoToken
    seen,     \* history: the token last accepted and the chain of the key that
              \* verified it, or NoToken
    imported, \* history: own is as JwkFromPrivateKey made it
    current,  \* history: jwks was read anew from a page that own was written to
    asked,    \* history: the claims that Sign was given for wire, which is as it
              \* left own's signer, or NoToken
    steps     \* steps so far

keyVars == <<own, page, jwks, imported, current>>
tokenVars == <<wire, jwt, given, seen, asked>>
vars == <<keyVars, tokenVars, steps>>

Init ==
    /\ own = NoJwk /\ page = <<>> /\ jwks = <<>>
    /\ wire = NoToken /\ jwt = NoJwt /\ given = NoToken /\ seen = NoToken
    /\ imported = FALSE /\ current = FALSE /\ asked = NoToken
    /\ steps = 0

Step == steps < MaxSteps /\ steps' = steps + 1

-----------------------------------------------------------------------------
(* The issuer's key.                                                       *)

\* The issuer has the JWK j.
Holds(j, new) ==
    /\ Step
    /\ own' = j
    /\ imported' = new
    /\ current' = FALSE /\ asked' = NoToken
    /\ UNCHANGED <<page, jwks, wire, jwt, given, seen>>

\* The issuer gets one key in a behaviour, as a document or as a crypto.Signer.
LoadJwk(doc) ==
    /\ own = NoJwk /\ Jwk!UnmarshalJwk(doc).ok
    /\ Holds(Jwk!UnmarshalJwk(doc).jwk, FALSE)

Import(a) ==
    /\ own = NoJwk
    /\ Holds(Jwk!JwkFromPrivateKey(a.kty, a.pair, a.ops, a.certs), TRUE)

SetOps(ops) == own # NoJwk /\ Holds([own EXCEPT !.ops = ops], FALSE)

\* SetX5C appends to the chain that is there.
SetX5C(certs) ==
    /\ own # NoJwk /\ Len(own.x5c) + Len(certs) <= MaxCerts
    /\ Holds([own EXCEPT !.x5c = @ \o certs], FALSE)

\* The public JWK of the issuer: own, if UnmarshalJwk found no private number.  A
\* secret key has none.
PublicHalf(j) ==
    IF j.private THEN Jwk!PublicFromPrivate(j) ELSE [ok |-> j.kty # "oct", jwk |-> j]

\* What the issuer writes of it.
PublicDoc(j) == Jwk!MarshalJSON(PublicHalf(j).jwk)

\* The issuer writes a new set, with others' documents before its own.  Deriving the
\* public half may change x and y of the private one.
Publish(others) ==
    /\ Step
    /\ own # NoJwk
    /\ PublicHalf(own).ok /\ PublicDoc(own).ok
    /\ page' = Append(others, PublicDoc(own).doc)
    /\ own' = Jwk!AfterPublicFromPrivate(own)
    /\ current' = FALSE
    /\ UNCHANGED <<jwks, imported, tokenVars>>

\* The verifier reads the set into a new Jwks, and keeps the old if that fails.
ReadSet ==
    LET r == Jwk!UnmarshalJwks(<<>>, page)
    IN  /\ Step
        /\ page # <<>> /\ r.ok
        /\ jwks' = r.keys
        /\ current' = (own # NoJwk /\ page[Len(page)] = PublicDoc(own).doc)
        /\ UNCHANGED <<own, page, imported, tokenVars>>

\* It reads the set into the Jwks it has.
ReadSetAgain ==
    LET r == Jwk!UnmarshalJwks(jwks, page)
    IN  /\ Step
        /\ page # <<>> /\ Len(r.keys) <= MaxKeys
        /\ jwks' = r.keys
        /\ current' = FALSE
        /\ UNCHANGED <<own, page, imported, tokenVars>>

-----------------------------------------------------------------------------
(* Tokens.                                                                 *)

\* NewSigningKey accepts the JWK, and crypto/ecdsa its point.
CanSign(j) ==
    /\ j.private /\ j.alg \in {"PS", "ES"}
    /\ \E i \in DOMAIN j.ops : j.ops[i] = "sign"
    /\ j.kty = "RSA" => j.pub = j.d /\ j.primes = j.d
    /\ j.kty = "EC" => j.alg = "ES" /\ j.pub # Jwk!Zero

SignToken(a) ==
    LET r == Sign(Issuer, own, a.claims, a.encodes, a.large)
    IN  /\ Step
        /\ own # NoJwk /\ CanSign(own) /\ r.ok
        /\ wire' = r.token
        /\ asked' = a.claims
        /\ UNCHANGED <<keyVars, jwt, given, seen>>

\* Somebody sends a token t of their own.
ForeignToken(t) ==
    /\ Step
    /\ wire' = t
    /\ asked' = NoToken
    /\ UNCHANGED <<keyVars, jwt, given, seen>>

\* A segment is written with other characters, or so that it does not decode;
\* the payload is replaced; the signature is cut off.
Altered(t) ==
    {[t EXCEPT ![s].form = f] : s \in {"header", "payload", "sig"}, f \in {"variant", "bad"}}
    \union {[t EXCEPT !.payload.val = v] : v \in Payloads}
    \union {[t EXCEPT !.parts = 2]}

Whole(t) == t.parts = 3 /\ \A s \in {"header", "payload", "sig"} : t[s].form = "canonical"

Alter ==
    /\ Step
    /\ wire # NoToken /\ Whole(wire)
    /\ wire' \in Altered(wire) \ {wire}
    /\ asked' = NoToken
    /\ UNCHANGED <<keyVars, jwt, given, seen>>

\* Jwt.Unmarshal into the Jwt that was used before.
Parse ==
    /\ Step
    /\ wire # NoToken
    /\ jwt' = UnmarshalJwt(jwt, wire).jwt
    /\ given' = wire
    /\ UNCHANGED <<keyVars, wire, seen, asked>>

\* The Jwt is written again, with the signature it came with.
Rewrite ==
    LET r == MarshalJwt(jwt, FALSE)
    IN  /\ Step
        /\ r.ok
        /\ wire' = r.token
        /\ asked' = NoToken
        /\ UNCHANGED <<keyVars, jwt, given, seen>>

\* NewVerificationKey accepts the JWK; that it takes a missing alg from the first
\* certificate is in KeyPolicy, and here an RSA key without alg verifies nothing.
CanVerify(j) ==
    /\ ~j.private
    /\ j.ops = <<>> \/ \E i \in DOMAIN j.ops : j.ops[i] = "verify"
    /\ \/ j.kty = "RSA" /\ j.alg = "PS" /\ j.pub # Jwk!Zero
       \/ j.kty = "EC" /\ j.alg = "ES"

\* A TrustKeyStore to which the keys of the set were added for the issuer keeps
\* the first of a kid, and Get yields it if it is usable, or NoJwk.
KeyFor(iss, kid) ==
    LET at == {i \in DOMAIN jwks : iss = Issuer /\ jwks[i].kid = kid}
        first == CHOOSE i \in at : \A h \in at : i <= h
    IN  IF at = {} \/ ~CanVerify(jwks[first]) THEN NoJwk ELSE jwks[first]

\* The signature over body verifies under j.
Verifies(j, body, signature) ==
    signature # NoSignature /\ signature.by = j.pub /\ signature.over = body

\* JwtVerifierImpl.Verify of t with the keys of the set, and the key it takes.
Verdict(t) ==
    LET r == UnmarshalJwt(NoJwt, t)
        key == KeyFor(r.jwt.claims.iss, r.jwt.header.kid)
        parsed == [form |-> r.err, nbf |-> r.jwt.claims.nbf, exp |-> r.jwt.claims.exp,
                   aud |-> {r.jwt.claims.aud[i] : i \in DOMAIN r.jwt.claims.aud},
                   kid |-> r.jwt.header.kid, alg |-> r.jwt.header.alg,
                   signer |-> IF key # NoJwk /\ Verifies(key, r.body, r.jwt.signature)
                             THEN key ELSE NoJwk]
        first == TokenCheck(parsed, Audience, Now)
    IN  [result |-> IF first = "ok" THEN KeyCheck(key, parsed) ELSE first, key |-> key]

Verify ==
    /\ Step
    /\ wire # NoToken /\ Verdict(wire).result = "accepted"
    /\ seen' = [token |-> wire, x5c |-> Verdict(wire).key.x5c]
    /\ UNCHANGED <<keyVars, wire, jwt, given, asked>>

Next ==
    \/ \E doc \in InputDocs : LoadJwk(doc)
    \/ \E a \in Imports : Import(a)
    \/ \E ops \in InputOps : SetOps(ops)
    \/ \E certs \in InputCerts : SetX5C(certs)
    \/ \E others \in {<<>>} \union {<<doc>> : doc \in ForeignDocs} : Publish(others)
    \/ ReadSet \/ ReadSetAgain
    \/ \E a \in InputClaims : SignToken(a)
    \/ \E t \in ForeignTokens : ForeignToken(t)
    \/ Alter \/ Parse \/ Rewrite \/ Verify

Spec == Init /\ [][Next]_vars

-----------------------------------------------------------------------------
(* Properties.                                                             *)

\* A JWK that UnmarshalJwk or JwkFromPrivateKey can return: a public one has no
\* private number, the primes included.
IsJwk(j) ==
    /\ j.kty \in {"RSA", "EC", "oct"}
    /\ j.private <=> j.d # Jwk!Zero
    /\ ~j.private => j.primes = Jwk!Zero

\* TypeOK: the issuer and the verifier hold JWKs that UnmarshalJwk (jose/jwk.go)
\* can return, so that a public JWK keeps nothing of a private document, and a
\* Jwt has a signature only if it has been parsed.
TypeOK ==
    /\ own # NoJwk => IsJwk(own)
    /\ Len(jwks) <= MaxKeys /\ \A i \in DOMAIN jwks : IsJwk(jwks[i])
    /\ \A i \in DOMAIN page : page[i].large \in BOOLEAN
    /\ jwt.signature # NoSignature => given # NoToken
    /\ imported \in BOOLEAN /\ current \in BOOLEAN

\* SignedIsAccepted: a token as it left JwtSignerImpl.Sign (jwt_signer.go) is
\* accepted by JwtVerifierImpl.Verify with a key set read from what the signing
\* key's owner published, if it has a kid that only this key has, an alg of its
\* type, an audience the verifier accepts, is in its time and within
\* MaxCompactSize.  So the public half that PublicFromPrivate (helpers.go) makes
\* verifies what the private one signs.
SignedIsAccepted ==
    /\ asked # NoToken /\ current
    /\ own.kty = "RSA" => own.alg = "PS"
    /\ own.kid # <<>> /\ Cardinality({i \in DOMAIN jwks : jwks[i].kid = own.kid}) = 1
    /\ ~wire.large
    /\ asked.nbf <= Now /\ Now < asked.exp
    /\ {asked.aud[i] : i \in DOMAIN asked.aud} \intersect Audience # {}
    => Verdict(wire).result = "accepted"

\* ClaimsSurvive: Jwt.Unmarshal (jose/jwt.go) reads from a signed token the claims
\* that Sign was given and the signer's issuer, unless there was no list of
\* audiences: none is written as null, which Audiences.UnmarshalJSON refuses.
ClaimsSurvive ==
    asked # NoToken /\ ~wire.large =>
        LET r == UnmarshalJwt(NoJwt, wire)
        IN  /\ r.err = "ok" <=> ~(asked.nilAud /\ asked.aud = <<>>)
            /\ r.err = "ok" => [r.jwt.claims EXCEPT !.nilAud = asked.nilAud]
                                    = [asked EXCEPT !.iss = Issuer]

\* OneSerialisation: an accepted token is the only one with its signature that is
\* accepted, however its segments are written; strictCompactB64 (jose/jws.go)
\* refuses what the signature does not cover, its own encoding.
OneSerialisation ==
    /\ seen # NoToken /\ wire # NoToken
    /\ wire.sig.val = seen.token.sig.val /\ Verdict(wire).result = "accepted"
    => wire = seen.token

\* NothingStale: a Jwt that is used again holds, after Jwt.Unmarshal
\* (jose/jwt.go), what a new one would: nothing of the tokens before, whether the
\* last one was refused, and where, or not.
NothingStale == given # NoToken => jwt = UnmarshalJwt(NoJwt, given).jwt

\* LoadersAgree: of what Jwt.Unmarshal (jose/jwt.go) accepts, LoadJws (helpers.go)
\* returns the same header, signed octets and signature.  LoadJws also reads what
\* Jwt.Unmarshal refuses; but whoever verifies what it returns, under any key of the
\* set, gets for a signature that the verifier has accepted exactly the header and
\* the octets that it accepted.
LoadersAgree ==
    LET l == LoadJws(wire)
        r == UnmarshalJwt(NoJwt, wire)
        s == UnmarshalJwt(NoJwt, seen.token)
    IN  /\ wire # NoToken /\ r.err = "ok" =>
                /\ l.ok /\ l.header = r.jwt.header
                /\ l.payload = r.body /\ l.signature = r.jwt.signature
        /\ /\ wire # NoToken /\ seen # NoToken /\ l.ok /\ l.signature = s.jwt.signature
           /\ \E i \in DOMAIN jwks : Verifies(jwks[i], l.payload, l.signature)
           => l.header = s.jwt.header /\ l.payload = s.body

\* CertificateVouches: the chain that comes with the key which verified a token
\* certifies the key that signed it, whatever certificates the issuer or others
\* put into their documents (checkX5CMatchesKey, jose/jwk.go).
CertificateVouches ==
    seen # NoToken /\ seen.x5c # <<>> => seen.x5c[1].pub = seen.token.sig.val.by

\* PublishedIsReadable: the public half of a JWK, written by MarshalJSON, is read
\* back as the same JWK (jose/jwk.go, helpers.go), if the operations all have an
\* inverse, the JWK agrees with its certificate, and the certificate is for the
\* point of d; and CalculateKeyID of what is read is the kid that
\* JwkFromPrivateKey gave.
PublishedIsReadable ==
    /\ own # NoJwk /\ PublicHalf(own).ok /\ PublicDoc(own).ok
    /\ Jwk!CheckConsistency(own) /\ Jwk!checkX5CMatchesKey(own)
    /\ own.private => /\ \A i \in DOMAIN own.ops : own.ops[i] \in DOMAIN Jwk!Inverses
                      /\ own.x5c = <<>> \/ own.pub = own.d
    => LET r == Jwk!UnmarshalJwk(PublicDoc(own).doc)
       IN  /\ r.ok /\ r.jwk = PublicHalf(own).jwk
           /\ imported => Jwk!CalculateKeyID(r.jwk) = own.kid

=============================================================================
