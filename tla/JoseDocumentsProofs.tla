------------------------- MODULE JoseDocumentsProofs -------------------------
(***************************************************************************)
(* The issuer and its verifier, for every set of keys, documents, tokens   *)
(* and claims: the verifier's Jwt over any sequence of tokens, and the key *)
(* that an issuer publishes against the tokens that it signs.              *)
(***************************************************************************)
EXTENDS JoseDocuments, TLAPS, WellFoundedInduction, FiniteSetTheorems

\* Jwt.Unmarshal reads the same from a token whatever the Jwt held before.
LEMMA UnmarshalForgets ==
    ASSUME NEW before, NEW t
    PROVE  UnmarshalJwt(before, t) = UnmarshalJwt(NoJwt, t)
  BY DEF UnmarshalJwt, Reset

\* Only Parse touches the verifier's Jwt.
LEMMA OnlyParseTouches ==
    ASSUME [Next]_vars
    PROVE  Parse \/ UNCHANGED <<jwt, given>>
  BY DEF Next, vars, keyVars, tokenVars, LoadJwk, Import, SetOps, SetX5C, Holds, Publish,
         ReadSet, ReadSetAgain, SignToken, ForeignToken, Alter, Rewrite, Verify

\* A Jwt that is parsed into again and again holds nothing of an earlier token,
\* refused or not (NothingStale).
THEOREM NothingStaleTheorem == Spec => []NothingStale
  <1>1. Init => NothingStale
    BY DEF Init, NothingStale
  <1>2. ASSUME NothingStale, [Next]_vars PROVE NothingStale'
    <2>1. CASE Parse
      BY <2>1, UnmarshalForgets DEF Parse, NothingStale
    <2>2. CASE UNCHANGED <<jwt, given>>
      BY <1>2, <2>2 DEF NothingStale
    <2> QED
      BY <1>2, <2>1, <2>2, OnlyParseTouches
  <1> QED
    BY <1>1, <1>2, PTL DEF Spec

\* What Jwt.Unmarshal accepts has three segments, and a canonical signature that
\* it hands out unchanged, as it does the two other segments.
LEMMA UnmarshalStrict ==
    ASSUME NEW t, UnmarshalJwt(NoJwt, t).err = "ok"
    PROVE  /\ ~t.large /\ t.parts = 3 /\ t.sig.form = "canonical"
           /\ t.header.form # "bad" /\ t.header.val.json # "bad" /\ t.payload.form # "bad"
           /\ UnmarshalJwt(NoJwt, t).jwt.signature = t.sig.val
           /\ UnmarshalJwt(NoJwt, t).jwt.header = UnmarshalHeader(NoHeader, t.header.val)
           /\ UnmarshalJwt(NoJwt, t).body = Signed(t)
  <1> DEFINE r == UnmarshalJws(NoJwt, t)
  <1>1. r.err = "ok" /\ UnmarshalJwt(NoJwt, t) = r
    BY DEF UnmarshalJwt, Reset
  <1> DEFINE h == [NoJwt EXCEPT !.header = UnmarshalHeader(@, t.header.val)]
             c == UnmarshalClaims(NoJwt.claims, t.payload.val)
             d == [h EXCEPT !.claims = c.claims]
  <1>2. /\ ~t.large /\ t.parts = 3 /\ t.sig.form = "canonical"
        /\ t.header.form # "bad" /\ t.header.val.json # "bad" /\ t.payload.form # "bad"
        /\ r.jwt = [d EXCEPT !.signature = t.sig.val] /\ r.body = Signed(t)
    BY <1>1 DEF UnmarshalJws, strictCompactB64
  <1>3. /\ [d EXCEPT !.signature = t.sig.val].signature = t.sig.val
        /\ [d EXCEPT !.signature = t.sig.val].header = UnmarshalHeader(NoHeader, t.header.val)
    BY DEF NoJwt
  <1> QED
    BY <1>1, <1>2, <1>3

-----------------------------------------------------------------------------
(***************************************************************************)
(* OneSerialisation: an accepted token is determined by its signature,     *)
(* which covers the first two segments as they are written and whose own   *)
(* segment is canonical.  The invariant keeps this of the token accepted   *)
(* last, whatever happens to the keys afterwards.                          *)
(***************************************************************************)
Determined(t) ==
    /\ ~t.large /\ t.parts = 3 /\ t.sig.form = "canonical"
    /\ t.sig.val.over = Signed(t)

SerialInv ==
    /\ wire # NoToken => IsToken(wire)
    /\ seen # NoToken => /\ IsToken(seen.token) /\ Determined(seen.token)
                         /\ UnmarshalJwt(NoJwt, seen.token).err = "ok"

\* An accepted token parses, and its signature verifies under the key that the
\* store has for its issuer and kid.
LEMMA AcceptedMeans ==
    ASSUME NEW t, Verdict(t).result = "accepted"
    PROVE  LET r == UnmarshalJwt(NoJwt, t)
               k == KeyFor(r.jwt.claims.iss, r.jwt.header.kid)
           IN  /\ r.err = "ok" /\ k # NoJwk /\ Verifies(k, r.body, r.jwt.signature)
               /\ Verdict(t).key = k
  <1> DEFINE r == UnmarshalJwt(NoJwt, t)
             k == KeyFor(r.jwt.claims.iss, r.jwt.header.kid)
             s == IF k # NoJwk /\ Verifies(k, r.body, r.jwt.signature) THEN k ELSE NoJwk
             parsed == [form |-> r.err, nbf |-> r.jwt.claims.nbf, exp |-> r.jwt.claims.exp,
                        aud |-> {r.jwt.claims.aud[i] : i \in DOMAIN r.jwt.claims.aud},
                        kid |-> r.jwt.header.kid, alg |-> r.jwt.header.alg, signer |-> s]
             first == TokenCheck(parsed, Audience, Now)
  <1>1. /\ Verdict(t).result = IF first = "ok" THEN KeyCheck(k, parsed) ELSE first
        /\ Verdict(t).key = k
    BY DEF Verdict
  <1>2. parsed.form = r.err /\ parsed.signer = s
    OBVIOUS
  <1>3. r.err # "accepted"
    BY DEF UnmarshalJwt, UnmarshalJws
  <1> HIDE DEF parsed
  <1>4. first # "accepted"
    BY <1>2, <1>3 DEF TokenCheck
  <1>5. first = "ok" /\ KeyCheck(k, parsed) = "accepted"
    BY <1>1, <1>4
  <1>6. r.err = "ok" /\ k # NoJwk /\ Verifies(k, r.body, r.jwt.signature)
    BY <1>2, <1>5 DEF TokenCheck, KeyCheck
  <1> QED
    BY <1>1, <1>6

\* JwtVerifierImpl.Verify accepts only such tokens.
LEMMA AcceptedIsDetermined ==
    ASSUME NEW t, Verdict(t).result = "accepted"
    PROVE  Determined(t) /\ UnmarshalJwt(NoJwt, t).err = "ok"
  BY AcceptedMeans, UnmarshalStrict DEF Determined, Verifies

\* An altered token is a token.
LEMMA AlteredIsToken ==
    ASSUME NEW t, IsToken(t), NEW u \in Altered(t)
    PROVE  IsToken(u)
  BY DEF Altered, IsToken, Encoding

\* What Sign and MarshalJws write is a token.
LEMMA WrittenIsToken ==
    ASSUME NEW j, NEW large \in BOOLEAN, NEW issuer, NEW key, NEW claims, NEW encodes
    PROVE  /\ IsToken(MarshalJwt(j, large).token)
           /\ IsToken(Sign(issuer, key, claims, encodes, large).token)
  BY DEF MarshalJwt, Sign, IsToken, Encoded, Encoding

\* Every step keeps this of the token on its way and of the one accepted last
\* (JwtVerifierImpl.Verify, Jwt.Unmarshal).
LEMMA SerialInvariant == Spec => []SerialInv
  <1>1. Init => SerialInv
    BY DEF Init, SerialInv
  <1>2. ASSUME SerialInv, [Next]_vars PROVE SerialInv'
    <2>1. ASSUME NEW a \in InputClaims, SignToken(a) PROVE SerialInv'
      BY <1>2, <2>1, WrittenIsToken, TokensAssumption DEF SignToken, SerialInv
    <2>2. ASSUME NEW t \in ForeignTokens, ForeignToken(t) PROVE SerialInv'
      BY <1>2, <2>2, TokensAssumption DEF ForeignToken, SerialInv
    <2>3. CASE Alter
      BY <1>2, <2>3, AlteredIsToken DEF Alter, SerialInv
    <2>4. CASE Rewrite
      BY <1>2, <2>4, WrittenIsToken DEF Rewrite, SerialInv
    <2>5. CASE Verify
      BY <1>2, <2>5, AcceptedIsDetermined DEF Verify, SerialInv
    <2>6. CASE UNCHANGED <<wire, seen>>
      BY <1>2, <2>6 DEF SerialInv
    <2> QED
      BY <1>2, <2>1, <2>2, <2>3, <2>4, <2>5, <2>6
         DEF Next, vars, keyVars, tokenVars, LoadJwk, Import, SetOps, SetX5C, Holds, Publish,
             ReadSet, ReadSetAgain, Parse
  <1> QED
    BY <1>1, <1>2, PTL DEF Spec

\* An accepted token is the only one with its signature that is accepted
\* (OneSerialisation).
THEOREM OneSerialisationTheorem == Spec => []OneSerialisation
  <1>1. SerialInv => OneSerialisation
    BY AcceptedIsDetermined DEF SerialInv, OneSerialisation, Determined, IsToken, Signed
  <1> QED
    BY <1>1, SerialInvariant, PTL

(***************************************************************************)
(* LoadersAgree: LoadJws returns of a token that Jwt.Unmarshal accepts the *)
(* same header, octets and signature, and if what it returns of any other  *)
(* verifies with a signature that the verifier has accepted, the header    *)
(* and octets are those that were accepted with it.                        *)
(***************************************************************************)
THEOREM LoadersAgreeTheorem == Spec => []LoadersAgree
  <1>1. ASSUME SerialInv PROVE LoadersAgree
    <2> DEFINE l == LoadJws(wire)
               r == UnmarshalJwt(NoJwt, wire)
               s == UnmarshalJwt(NoJwt, seen.token)
    <2>1. /\ l.header = UnmarshalHeader(NoHeader, wire.header.val)
          /\ l.payload = <<wire.header, wire.payload>> /\ l.signature = wire.sig.val
      BY DEF LoadJws, Signed
    <2>2. ASSUME r.err = "ok"
          PROVE  /\ l.ok /\ l.header = r.jwt.header
                 /\ l.payload = r.body /\ l.signature = r.jwt.signature
      <3>1. LoadsJws(wire)
        BY <2>2, UnmarshalStrict DEF LoadsJws
      <3> QED
        BY <2>2, <3>1, UnmarshalStrict DEF LoadJws
    <2>3. ASSUME seen # NoToken, l.signature = s.jwt.signature,
                 NEW i \in DOMAIN jwks, Verifies(jwks[i], l.payload, l.signature)
          PROVE  l.header = s.jwt.header /\ l.payload = s.body
      <3>1. /\ seen.token.sig.val.over = <<seen.token.header, seen.token.payload>>
            /\ s.err = "ok"
        BY <1>1, <2>3 DEF SerialInv, Determined, Signed
      <3>2. /\ s.jwt.signature = seen.token.sig.val
            /\ s.jwt.header = UnmarshalHeader(NoHeader, seen.token.header.val)
            /\ s.body = <<seen.token.header, seen.token.payload>>
        BY <3>1, UnmarshalStrict DEF Signed
      <3> HIDE DEF l, s
      <3>3. l.payload = <<seen.token.header, seen.token.payload>>
        BY <2>3, <3>1, <3>2 DEF Verifies
      <3>4. wire.header = seen.token.header
        BY <2>1, <3>3
      <3> QED
        BY <2>1, <3>2, <3>3, <3>4
    <2> HIDE DEF l, r, s
    <2> QED
      BY <2>2, <2>3 DEF LoadersAgree, l, r, s
  <1> QED
    BY <1>1, SerialInvariant, PTL

-----------------------------------------------------------------------------
(***************************************************************************)
(* Keys.  A JWK that an issuer can have: UnmarshalJwk or JwkFromPrivateKey *)
(* made it, and the issuer changed its operations, its certificates or,    *)
(* with PublicFromPrivate, its point.                                      *)
(***************************************************************************)
IsOwn(j) ==
    /\ j = [kty |-> j.kty, private |-> j.private, crv |-> j.crv, pub |-> j.pub, d |-> j.d,
            primes |-> j.primes, alg |-> j.alg, kid |-> j.kid, ops |-> j.ops,
            x5c |-> j.x5c, x5t |-> j.x5t]
    /\ j.private \in BOOLEAN /\ IsJwk(j) /\ (j.kty = "oct" => ~j.private)
    /\ {j.pub, j.d} \intersect {Jwk!Absent, Jwk!Malformed} = {}
    /\ IsSeq(j.ops) /\ IsChain(j.x5c)
    /\ \E k \in FirstKeys : j.alg = k.alg /\ j.kid = k.kid /\ j.d = k.d

\* Every key of the verifier was read from a document.
IsRead(j) == IsJwk(j) /\ Jwk!checkX5CMatchesKey(j)

OwnInv ==
    own # NoJwk =>
        /\ IsOwn(own)
        /\ imported => own.private /\ own.pub = own.d /\ own.kid = <<own.kty, own.d>>

JwksInv ==
    /\ IsSeq(jwks) /\ Len(jwks) <= MaxKeys /\ \A i \in DOMAIN jwks : IsRead(jwks[i])
    /\ IsSeq(page) /\ Len(page) <= 2 /\ \A i \in DOMAIN page : page[i].large \in BOOLEAN
    /\ imported \in BOOLEAN /\ current \in BOOLEAN
    /\ current => /\ own # NoJwk /\ jwks # <<>>
                  /\ jwks[Len(jwks)] = Jwk!Decoded(PublicDoc(own).doc)

\* The token on its way is what Sign made of the claims it was asked for.
AskedInv ==
    asked # NoToken =>
        \E a \in InputClaims :
            LET r == Sign(Issuer, own, a.claims, a.encodes, a.large)
            IN  /\ asked = a.claims /\ own # NoJwk /\ CanSign(own)
                /\ r.ok /\ wire = r.token

DocumentsInv ==
    /\ OwnInv /\ JwksInv /\ AskedInv
    /\ jwt.signature # NoSignature => given # NoToken
    /\ CertificateVouches

\* A set of numbers has a smallest one.
LEMMA Smallest ==
    ASSUME NEW S \in SUBSET Nat, S # {}
    PROVE  \E n \in S : \A m \in S : n <= m
  <1> DEFINE R == {ss \in Nat \X Nat : ss[1] < ss[2]}
  <1>1. IsWellFoundedOn(R, Nat)
    BY NatLessThanWellFounded DEF OpToRel
  <1> HIDE DEF R
  <1>2. PICK n \in S : \A m \in S : ~ (<<m, n>> \in R)
    BY <1>1, WFMin
  <1>3. \A m \in S : ~(m < n)
    BY <1>2 DEF R
  <1> QED
    BY <1>3

\* Sequences: what IsSeq says, and what keeps it.
LEMMA IsSeqFacts ==
    ASSUME NEW s, IsSeq(s)
    PROVE  Len(s) \in Nat /\ DOMAIN s = 1 .. Len(s)
  BY DEF IsSeq

\* A sequence of whatever is one.
LEMMA SeqIsSeq ==
    ASSUME NEW S, NEW s \in Seq(S)
    PROVE  IsSeq(s)
  <1>1. \A i \in 1 .. Len(s) : s[i] \in {s[j] : j \in DOMAIN s}
    OBVIOUS
  <1> QED
    BY <1>1 DEF IsSeq

\* So is what two make, item by item.
LEMMA ConcatIsSeq ==
    ASSUME NEW s, NEW t, IsSeq(s), IsSeq(t)
    PROVE  /\ IsSeq(s \o t) /\ Len(s \o t) = Len(s) + Len(t)
           /\ \A i \in DOMAIN (s \o t) :
                (s \o t)[i] = IF i <= Len(s) THEN s[i] ELSE t[i - Len(s)]
           /\ \A i \in DOMAIN (s \o t) : i <= Len(s) => i \in DOMAIN s
           /\ \A i \in DOMAIN (s \o t) : i > Len(s) => i - Len(s) \in DOMAIN t
  <1> DEFINE S == {s[i] : i \in DOMAIN s} \union {t[i] : i \in DOMAIN t}
  <1>1. s \in Seq(S) /\ t \in Seq(S)
    BY DEF IsSeq
  <1> HIDE DEF S
  <1>2. s \o t \in Seq(S) /\ Len(s \o t) = Len(s) + Len(t)
    BY <1>1
  <1>3. Len(s) \in Nat /\ Len(t) \in Nat /\ DOMAIN s = 1 .. Len(s) /\ DOMAIN t = 1 .. Len(t)
    BY <1>1
  <1>4. IsSeq(s \o t) /\ DOMAIN (s \o t) = 1 .. (Len(s) + Len(t))
    <2>1. IsSeq(s \o t)
      BY <1>2, SeqIsSeq
    <2> QED
      BY <1>2, <2>1, IsSeqFacts
  <1>5. \A i \in DOMAIN (s \o t) :
            (s \o t)[i] = IF i <= Len(s) THEN s[i] ELSE t[i - Len(s)]
    BY <1>1, <1>3, <1>4
  <1> QED
    BY <1>2, <1>3, <1>4, <1>5

\* The documents of a set that are read are the first ones.
LEMMA AcceptedIsPrefix ==
    ASSUME NEW docs, IsSeq(docs)
    PROVE  \E k \in 0 .. Len(docs) : Jwk!Accepted(docs) = 1 .. k
  <1> DEFINE A == Jwk!Accepted(docs)
             B == (1 .. Len(docs)) \ A
  <1>1. Len(docs) \in Nat /\ DOMAIN docs = 1 .. Len(docs)
    BY IsSeqFacts
  <1>2. A \subseteq 1 .. Len(docs) /\ \A i \in A : \A h \in 1 .. i : h \in A
    BY <1>1 DEF Jwk!Accepted
  <1> HIDE DEF A
  <1>3. ASSUME B = {} PROVE A = 1 .. Len(docs)
    BY <1>1, <1>2, <1>3
  <1>4. ASSUME B # {} PROVE \E k \in 0 .. Len(docs) : A = 1 .. k
    <2>1. PICK b \in B : \A m \in B : b <= m
      <3>1. B \subseteq Nat
        BY <1>1
      <3> HIDE DEF B
      <3> QED
        BY <1>4, <3>1, Smallest
    <2>2. b \in 1 .. Len(docs) /\ b \notin A /\ \A m \in 1 .. Len(docs) : m \notin A => b <= m
      BY <2>1
    <2>3. \A i \in A : i \in 1 .. (b - 1)
      BY <1>1, <1>2, <2>2
    <2>4. \A i \in 1 .. (b - 1) : i \in A
      BY <1>1, <2>2
    <2>5. A = 1 .. (b - 1)
      BY <2>3, <2>4, Zenon
    <2>6. b - 1 \in 0 .. Len(docs)
      BY <1>1, <2>2
    <2> QED
      BY <2>5, <2>6
  <1> QED
    BY <1>1, <1>3, <1>4 DEF A

\* An interval from 1 determines its end.
LEMMA SameInterval ==
    ASSUME NEW m \in Nat, NEW n \in Nat, 1 .. m = 1 .. n
    PROVE  m = n
  <1>1. m > 0 => m \in 1 .. n
    OBVIOUS
  <1>2. n > 0 => n \in 1 .. m
    OBVIOUS
  <1> QED
    BY <1>1, <1>2

\* Jwks.UnmarshalJSON adds keys that were read from documents to those there are.
LEMMA UnmarshalJwksReads ==
    ASSUME NEW keys, NEW docs, IsSeq(keys), IsSeq(docs), \A i \in DOMAIN keys : IsRead(keys[i])
    PROVE  LET r == Jwk!UnmarshalJwks(keys, docs)
           IN  /\ IsSeq(r.keys) /\ \A i \in DOMAIN r.keys : IsRead(r.keys[i])
               /\ Len(r.keys) <= Len(keys) + Len(docs)
               /\ r.ok => /\ Len(r.keys) = Len(keys) + Len(docs)
                          /\ docs # <<>> =>
                                r.keys[Len(r.keys)] = Jwk!Decoded(docs[Len(docs)])
  <1>1. PICK k \in 0 .. Len(docs) : Jwk!Accepted(docs) = 1 .. k
    BY AcceptedIsPrefix
  <1> DEFINE new == [i \in 1 .. k |-> Jwk!UnmarshalJwk(docs[i]).jwk]
             r == Jwk!UnmarshalJwks(keys, docs)
  <1>2. Len(docs) \in Nat /\ DOMAIN docs = 1 .. Len(docs)
    BY IsSeqFacts
  <1>3. r.keys = keys \o new /\ (r.ok <=> 1 .. k = 1 .. Len(docs))
    BY <1>1, <1>2 DEF Jwk!UnmarshalJwks
  <1>4. new \in Seq({Jwk!UnmarshalJwk(docs[i]).jwk : i \in 1 .. k}) /\ Len(new) = k
    BY <1>2
  <1>5. \A i \in 1 .. k : new[i] = Jwk!Decoded(docs[i])
    BY DEF Jwk!UnmarshalJwk
  <1>6. \A i \in 1 .. k : Jwk!Readable(docs[i])
    BY <1>1, <1>2 DEF Jwk!Accepted, Jwk!UnmarshalJwk
  <1>7. \A i \in 1 .. k : IsRead(new[i])
    <2> TAKE i \in 1 .. k
    <2>1. Jwk!Readable(docs[i])
      BY <1>6
    <2>2. IsJwk(Jwk!Decoded(docs[i]))
      BY <2>1 DEF Jwk!Readable, Jwk!Decoded, Jwk!Primes, IsJwk
    <2> QED
      BY <1>5, <2>1, <2>2 DEF Jwk!Readable, IsRead
  <1>8. IsSeq(new)
    BY <1>4, SeqIsSeq
  <1> HIDE DEF new
  <1>9. Len(keys) \in Nat /\ DOMAIN keys = 1 .. Len(keys)
    BY IsSeqFacts
  <1>10. IsSeq(keys \o new) /\ Len(keys \o new) = Len(keys) + k
    BY <1>4, <1>8, ConcatIsSeq
  <1>11. \A i \in DOMAIN (keys \o new) : IsRead((keys \o new)[i])
    BY <1>4, <1>7, <1>8, <1>9, ConcatIsSeq, IsSeqFacts
  <1>12. ASSUME 1 .. k = 1 .. Len(docs) PROVE k = Len(docs)
    <2>1. k \in Nat
      BY <1>2
    <2> QED
      BY <1>2, <1>12, <2>1, SameInterval
  <1>13. k = Len(docs) /\ docs # <<>> =>
            (keys \o new)[Len(keys) + k] = Jwk!Decoded(docs[Len(docs)])
    <2> SUFFICES ASSUME k = Len(docs), docs # <<>>
                 PROVE  (keys \o new)[Len(keys) + k] = Jwk!Decoded(docs[Len(docs)])
      OBVIOUS
    <2>1. Len(docs) > 0
      BY <1>2 DEF IsSeq
    <2>2. Len(keys) + k \in DOMAIN (keys \o new) /\ ~(Len(keys) + k <= Len(keys))
      BY <1>2, <1>9, <1>10, <2>1, IsSeqFacts
    <2>3. (keys \o new)[Len(keys) + k] = new[k]
      BY <1>2, <1>8, <1>9, <2>2, ConcatIsSeq
    <2> QED
      BY <1>2, <1>5, <2>1, <2>3
  <1> DEFINE all == keys \o new
  <1> HIDE DEF all
  <1>14. r.ok => k = Len(docs)
    BY <1>3, <1>12
  <1>15. /\ r.keys = all /\ IsSeq(all) /\ Len(all) = Len(keys) + k
         /\ \A i \in DOMAIN all : IsRead(all[i])
         /\ k = Len(docs) /\ docs # <<>> => all[Len(keys) + k] = Jwk!Decoded(docs[Len(docs)])
    BY <1>3, <1>10, <1>11, <1>13 DEF all
  <1>16. Len(keys) + k <= Len(keys) + Len(docs)
    BY <1>1, <1>2, <1>9
  <1> HIDE DEF r
  <1>17. /\ IsSeq(r.keys) /\ \A i \in DOMAIN r.keys : IsRead(r.keys[i])
         /\ Len(r.keys) <= Len(keys) + Len(docs)
         /\ r.ok => /\ Len(r.keys) = Len(keys) + Len(docs)
                    /\ docs # <<>> => r.keys[Len(r.keys)] = Jwk!Decoded(docs[Len(docs)])
    BY <1>14, <1>15, <1>16
  <1> QED
    BY <1>17 DEF r

\* UnmarshalJwk makes a JWK that the issuer can have.
LEMMA DecodedIsOwn ==
    ASSUME NEW doc \in InputDocs, Jwk!UnmarshalJwk(doc).ok
    PROVE  IsOwn(Jwk!Decoded(doc))
  <1> DEFINE j == Jwk!Decoded(doc)
             private == Jwk!Number(doc, "d") # Jwk!Zero
  <1>1. Jwk!Readable(doc)
    BY DEF Jwk!UnmarshalJwk
  <1>2. j = [kty |-> doc.kty, private |-> private, crv |-> doc.crv,
             pub |-> Jwk!Number(doc, "pub"), d |-> Jwk!Number(doc, "d"),
             primes |-> Jwk!Primes(doc, private), alg |-> doc.alg, kid |-> doc.kid,
             ops |-> doc.ops, x5c |-> doc.x5c, x5t |-> doc.x5t]
    BY DEF Jwk!Decoded
  <1>3. /\ doc.kty \in {"RSA", "EC", "oct"}
        /\ \A m \in Jwk!Members(doc.kty) : doc[m] # Jwk!Malformed
        /\ \A i \in DOMAIN doc.x5c : doc.x5c[i].sha1 # Jwk!Malformed
    BY <1>1 DEF Jwk!Readable
  <1>4. /\ {Jwk!Number(doc, "pub"), Jwk!Number(doc, "d")}
                \intersect {Jwk!Absent, Jwk!Malformed} = {}
        /\ doc.kty = "oct" => Jwk!Number(doc, "d") = Jwk!Zero
    BY <1>3 DEF Jwk!Number, Jwk!Members, Jwk!Absent, Jwk!Malformed, Jwk!Zero
  <1>5. IsSeq(doc.ops) /\ IsChain(doc.x5c)
    BY <1>3, DocumentsAssumption DEF IsChain
  <1>6. j \in FirstKeys
    BY DEF FirstKeys
  <1> HIDE DEF j
  <1>7. IsJwk(j)
    BY <1>2, <1>3 DEF IsJwk, Jwk!Primes
  <1>8. j.private \in BOOLEAN /\ (j.kty = "oct" => ~j.private)
    BY <1>2, <1>4
  <1>9. IsOwn(j)
    BY <1>2, <1>4, <1>5, <1>6, <1>7, <1>8 DEF IsOwn
  <1> QED
    BY <1>9 DEF j

\* So does JwkFromPrivateKey, and its kid is that of the public half.
LEMMA ImportedIsOwn ==
    ASSUME NEW a \in Imports
    PROVE  LET j == Jwk!JwkFromPrivateKey(a.kty, a.pair, a.ops, a.certs)
           IN  IsOwn(j) /\ j.private /\ j.pub = j.d /\ j.kid = <<j.kty, j.d>>
  <1> DEFINE j == Jwk!JwkFromPrivateKey(a.kty, a.pair, a.ops, a.certs)
  <1>1. j = [kty |-> a.kty, private |-> TRUE, crv |-> IF a.kty = "EC" THEN "P-256" ELSE "",
             pub |-> a.pair, d |-> a.pair,
             primes |-> IF a.kty = "RSA" THEN a.pair ELSE Jwk!Zero,
             alg |-> Jwk!AlgFor(a.kty, a.ops), kid |-> <<a.kty, a.pair>>, ops |-> a.ops,
             x5c |-> a.certs, x5t |-> Jwk!Absent]
    <2> DEFINE j0 == [kty |-> a.kty, private |-> TRUE,
                      crv |-> IF a.kty = "EC" THEN "P-256" ELSE "",
                      pub |-> a.pair, d |-> a.pair,
                      primes |-> IF a.kty = "RSA" THEN a.pair ELSE Jwk!Zero,
                      alg |-> Jwk!AlgFor(a.kty, a.ops), kid |-> Jwk!NoKid, ops |-> a.ops,
                      x5c |-> a.certs, x5t |-> Jwk!Absent]
               kid == Jwk!CalculateKeyID(Jwk!PublicFromPrivate(j0).jwk)
    <2>1. j = [j0 EXCEPT !.kid = kid]
      BY DEF Jwk!JwkFromPrivateKey
    <2>2. kid = <<a.kty, a.pair>>
      <3>1. Jwk!DerivedPoint(j0) = a.pair
        BY DEF Jwk!DerivedPoint
      <3>2. /\ Jwk!PublicFromPrivate(j0).jwk.kty = a.kty
            /\ Jwk!PublicFromPrivate(j0).jwk.pub = a.pair
        BY <3>1 DEF Jwk!PublicFromPrivate
      <3> QED
        BY <3>2 DEF Jwk!CalculateKeyID
    <2> HIDE DEF kid
    <2> QED
      BY <2>1, <2>2
  <1>2. /\ a.kty \in {"RSA", "EC"} /\ a.pair \notin {Jwk!Absent, Jwk!Malformed, Jwk!Zero}
        /\ IsSeq(a.ops) /\ IsChain(a.certs)
    BY DocumentsAssumption
  <1>3. j \in FirstKeys
    BY DEF FirstKeys
  <1> HIDE DEF j
  <1>4. IsJwk(j)
    BY <1>1, <1>2 DEF IsJwk
  <1>5. IsOwn(j) /\ j.private /\ j.pub = j.d /\ j.kid = <<j.kty, j.d>>
    BY <1>1, <1>2, <1>3, <1>4 DEF IsOwn
  <1> QED
    BY <1>5 DEF j

\* What the setters and PublicFromPrivate leave is such a JWK again.
LEMMA ChangedIsOwn ==
    ASSUME NEW j, IsOwn(j)
    PROVE  /\ \A ops : IsSeq(ops) => IsOwn([j EXCEPT !.ops = ops])
           /\ \A certs : IsChain(certs) => IsOwn([j EXCEPT !.x5c = j.x5c \o certs])
           /\ LET after == Jwk!AfterPublicFromPrivate(j)
              IN  /\ IsOwn(after) /\ after.private = j.private /\ after.kty = j.kty
                  /\ after.d = j.d /\ after.alg = j.alg /\ after.kid = j.kid
                  /\ after.ops = j.ops
                  /\ after.primes = j.primes /\ (j.pub = j.d => after = j)
                  /\ after.pub = IF after = j THEN j.pub ELSE j.d
                  /\ after # j => j.kty = "EC" /\ j.private
  <1>1. ASSUME NEW ops, IsSeq(ops) PROVE IsOwn([j EXCEPT !.ops = ops])
    BY <1>1 DEF IsOwn, IsJwk
  <1>2. ASSUME NEW certs, IsChain(certs) PROVE IsOwn([j EXCEPT !.x5c = j.x5c \o certs])
    <2> DEFINE chain == j.x5c \o certs
    <2>1. IsChain(chain)
      BY <1>2, ConcatIsSeq DEF IsOwn, IsChain
    <2> HIDE DEF chain
    <2>2. IsOwn([j EXCEPT !.x5c = chain])
      BY <2>1 DEF IsOwn, IsJwk
    <2> QED
      BY <2>2 DEF chain
  <1>3. CASE j.kty = "EC" /\ j.private /\ j.pub # Jwk!Zero
    <2> DEFINE after == [j EXCEPT !.pub = j.d]
    <2>1. Jwk!AfterPublicFromPrivate(j) = after
      BY <1>3 DEF Jwk!AfterPublicFromPrivate, Jwk!DerivedPoint
    <2>2. IsOwn(after)
      BY DEF IsOwn, IsJwk
    <2>3. /\ after.private = j.private /\ after.kty = j.kty /\ after.d = j.d
          /\ after.alg = j.alg /\ after.kid = j.kid /\ after.primes = j.primes
          /\ after.pub = j.d /\ after.ops = j.ops
      BY DEF IsOwn
    <2>4. j.pub = j.d => after = j
      BY DEF IsOwn
    <2> HIDE DEF after
    <2> QED
      BY <1>1, <1>2, <1>3, <2>1, <2>2, <2>3, <2>4
  <1>4. CASE ~(j.kty = "EC" /\ j.private /\ j.pub # Jwk!Zero)
    <2>1. Jwk!AfterPublicFromPrivate(j) = j
      BY <1>4 DEF Jwk!AfterPublicFromPrivate
    <2> QED
      BY <1>1, <1>2, <2>1
  <1> QED
    BY <1>3, <1>4

\* The public half of the issuer's JWK, member by member.
LEMMA PublicHalfShape ==
    ASSUME NEW j, IsOwn(j), PublicHalf(j).ok
    PROVE  LET p == PublicHalf(j).jwk
           IN  /\ p = [kty |-> j.kty, private |-> FALSE, crv |-> p.crv, pub |-> p.pub,
                       d |-> Jwk!Zero, primes |-> Jwk!Zero, alg |-> j.alg, kid |-> j.kid,
                       ops |-> p.ops, x5c |-> j.x5c, x5t |-> p.x5t]
               /\ p.kty \in {"RSA", "EC"}
               /\ p.pub = IF j.private /\ j.kty = "EC" THEN j.d ELSE j.pub
               /\ j.private =>
                    /\ p.ops = [i \in DOMAIN j.ops |-> Jwk!inverseOps(j.ops[i])]
                    /\ p.x5t = Jwk!Absent
                    /\ p.crv = IF j.kty = "EC" THEN "P-256" ELSE j.crv
               /\ ~j.private => p = j
  <1> DEFINE p == PublicHalf(j).jwk
             ops == [i \in DOMAIN j.ops |-> Jwk!inverseOps(j.ops[i])]
             crv == IF j.kty = "EC" THEN "P-256" ELSE j.crv
  <1>1. CASE j.private
    <2>1. p = [j EXCEPT !.private = FALSE, !.pub = Jwk!DerivedPoint(j), !.d = Jwk!Zero,
                        !.primes = Jwk!Zero, !.crv = crv, !.ops = ops, !.x5t = Jwk!Absent]
      BY <1>1 DEF PublicHalf, Jwk!PublicFromPrivate, IsOwn
    <2>2. j = [kty |-> j.kty, private |-> j.private, crv |-> j.crv, pub |-> j.pub, d |-> j.d,
               primes |-> j.primes, alg |-> j.alg, kid |-> j.kid, ops |-> j.ops,
               x5c |-> j.x5c, x5t |-> j.x5t]
      BY DEF IsOwn
    <2> HIDE DEF p, ops, crv
    <2>3. p = [kty |-> j.kty, private |-> FALSE, crv |-> crv, pub |-> Jwk!DerivedPoint(j),
               d |-> Jwk!Zero, primes |-> Jwk!Zero, alg |-> j.alg, kid |-> j.kid,
               ops |-> ops, x5c |-> j.x5c, x5t |-> Jwk!Absent]
      BY <2>1, <2>2
    <2>4. j.kty \in {"RSA", "EC"}
      BY <1>1 DEF IsOwn, IsJwk
    <2> QED
      BY <1>1, <2>3, <2>4 DEF p, ops, crv, Jwk!DerivedPoint
  <1>2. CASE ~j.private
    <2>1. p = j /\ j.kty # "oct"
      BY <1>2 DEF PublicHalf
    <2>2. j.d = Jwk!Zero /\ j.primes = Jwk!Zero /\ j.kty \in {"RSA", "EC"} /\ j.private = FALSE
      BY <1>2, <2>1 DEF IsOwn, IsJwk
    <2>3. j = [kty |-> j.kty, private |-> j.private, crv |-> j.crv, pub |-> j.pub, d |-> j.d,
               primes |-> j.primes, alg |-> j.alg, kid |-> j.kid, ops |-> j.ops,
               x5c |-> j.x5c, x5t |-> j.x5t]
      BY DEF IsOwn
    <2> HIDE DEF p
    <2> QED
      BY <1>2, <2>1, <2>2, <2>3 DEF p
  <1> QED
    BY <1>1, <1>2

\* Its type, its numbers and what it takes over.
LEMMA PublicHalfFields ==
    ASSUME NEW j, IsOwn(j), PublicHalf(j).ok
    PROVE  LET p == PublicHalf(j).jwk
           IN  /\ p.kty = j.kty /\ j.kty \in {"RSA", "EC"} /\ p.private = FALSE
               /\ p.pub = IF j.private /\ j.kty = "EC" THEN j.d ELSE j.pub
               /\ p.alg = j.alg /\ p.kid = j.kid /\ p.x5c = j.x5c
               /\ j.private => p.crv = IF j.kty = "EC" THEN "P-256" ELSE j.crv
               /\ ~j.private => p = j
  <1> DEFINE p == PublicHalf(j).jwk
  <1>1. /\ p = [kty |-> j.kty, private |-> FALSE, crv |-> p.crv, pub |-> p.pub,
                d |-> Jwk!Zero, primes |-> Jwk!Zero, alg |-> j.alg, kid |-> j.kid,
                ops |-> p.ops, x5c |-> j.x5c, x5t |-> p.x5t]
        /\ p.kty \in {"RSA", "EC"}
    BY PublicHalfShape
  <1>2. p.pub = IF j.private /\ j.kty = "EC" THEN j.d ELSE j.pub
    BY PublicHalfShape
  <1>3. j.private => p.crv = IF j.kty = "EC" THEN "P-256" ELSE j.crv
    BY PublicHalfShape
  <1>4. ~j.private => p = j
    BY DEF PublicHalf
  <1> HIDE DEF p
  <1>5. /\ p.kty = j.kty /\ j.kty \in {"RSA", "EC"} /\ p.private = FALSE
        /\ p.alg = j.alg /\ p.kid = j.kid /\ p.x5c = j.x5c
    BY <1>1
  <1> QED
    BY <1>2, <1>3, <1>4, <1>5 DEF p

\* What MarshalJSON writes of it is decoded as it was.
LEMMA PublishedDecodes ==
    ASSUME NEW j, IsOwn(j), PublicHalf(j).ok, PublicDoc(j).ok
    PROVE  LET doc == PublicDoc(j).doc
           IN  /\ Jwk!Decoded(doc) = PublicHalf(j).jwk
               /\ doc.large = FALSE /\ doc.kty = j.kty
               /\ doc.pub \notin {Jwk!Absent, Jwk!Malformed, Jwk!Zero}
               /\ doc.d = Jwk!Absent /\ doc.primes = Jwk!Absent
               /\ doc.x5c = j.x5c /\ doc.x5t # Jwk!Malformed
  <1> DEFINE p == PublicHalf(j).jwk
             doc == PublicDoc(j).doc
  <1>1. /\ p = [kty |-> j.kty, private |-> FALSE, crv |-> p.crv, pub |-> p.pub,
                d |-> Jwk!Zero, primes |-> Jwk!Zero, alg |-> j.alg, kid |-> j.kid,
                ops |-> p.ops, x5c |-> j.x5c, x5t |-> p.x5t]
        /\ p.kty \in {"RSA", "EC"}
        /\ p.pub = IF j.private /\ j.kty = "EC" THEN j.d ELSE j.pub
    BY PublicHalfShape
  <1>2. p.pub \notin {Jwk!Absent, Jwk!Malformed}
    BY <1>1 DEF IsOwn
  <1> HIDE DEF p
  <1>3. Jwk!Written(p) = {"pub"}
    BY <1>1 DEF Jwk!Written
  <1>4. p.pub # Jwk!Zero /\ p.x5t # Jwk!Malformed
    BY <1>3 DEF PublicDoc, Jwk!MarshalJSON, p
  <1>5. doc = [kty |-> p.kty, large |-> FALSE, crv |-> p.crv, pub |-> p.pub,
               d |-> Jwk!Absent, primes |-> Jwk!Absent, alg |-> p.alg,
               kid |-> p.kid, ops |-> p.ops, x5c |-> p.x5c, x5t |-> p.x5t]
    BY <1>3 DEF PublicDoc, Jwk!MarshalJSON, p
  <1> HIDE DEF doc
  <1>6. /\ Jwk!Number(doc, "pub") = p.pub /\ Jwk!Number(doc, "d") = Jwk!Zero
        /\ Jwk!Number(doc, "primes") = Jwk!Zero
    BY <1>1, <1>2, <1>5 DEF Jwk!Number, Jwk!Members, Jwk!Absent, Jwk!Zero
  <1>7. Jwk!Decoded(doc) = p
    <2>1. (Jwk!Number(doc, "d") # Jwk!Zero) = FALSE
      BY <1>6
    <2>2. Jwk!Decoded(doc) =
            [kty |-> doc.kty, private |-> FALSE, crv |-> doc.crv,
             pub |-> p.pub, d |-> Jwk!Zero, primes |-> Jwk!Zero,
             alg |-> doc.alg, kid |-> doc.kid, ops |-> doc.ops,
             x5c |-> doc.x5c, x5t |-> doc.x5t]
      BY <1>6, <2>1, Zenon DEF Jwk!Decoded, Jwk!Primes
    <2>3. /\ doc.kty = j.kty /\ doc.crv = p.crv /\ doc.alg = j.alg /\ doc.kid = j.kid
          /\ doc.ops = p.ops /\ doc.x5c = j.x5c /\ doc.x5t = p.x5t
      BY <1>1, <1>5
    <2> QED
      BY <1>1, <2>2, <2>3, Zenon
  <1>8. /\ doc.large = FALSE /\ doc.kty = j.kty
        /\ doc.pub \notin {Jwk!Absent, Jwk!Malformed, Jwk!Zero}
        /\ doc.d = Jwk!Absent /\ doc.primes = Jwk!Absent
        /\ doc.x5c = j.x5c /\ doc.x5t # Jwk!Malformed
    BY <1>1, <1>2, <1>4, <1>5
  <1> QED
    BY <1>7, <1>8 DEF p, doc

\* The key that the store has for a kid is one of the set that can verify.
LEMMA KeyForIsRead ==
    ASSUME JwksInv, NEW iss, NEW kid, KeyFor(iss, kid) # NoJwk
    PROVE  IsRead(KeyFor(iss, kid)) /\ CanVerify(KeyFor(iss, kid))
  <1> DEFINE at == {i \in DOMAIN jwks : iss = Issuer /\ jwks[i].kid = kid}
             first == CHOOSE i \in at : \A h \in at : i <= h
  <1>1. at # {} /\ CanVerify(jwks[first]) /\ KeyFor(iss, kid) = jwks[first]
    BY DEF KeyFor
  <1>2. at \subseteq Nat /\ at \subseteq DOMAIN jwks
    BY IsSeqFacts DEF JwksInv
  <1> HIDE DEF at
  <1>3. first \in at
    BY <1>1, <1>2, Smallest
  <1> HIDE DEF first
  <1> QED
    BY <1>1, <1>2, <1>3 DEF JwksInv

\* A token is accepted with a key whose certificate, if there is one, is for the
\* key that signed it.
LEMMA AcceptedIsVouched ==
    ASSUME JwksInv, NEW t, Verdict(t).result = "accepted"
    PROVE  LET x5c == Verdict(t).key.x5c
           IN  x5c # <<>> => x5c[1].pub = t.sig.val.by
  <1> DEFINE r == UnmarshalJwt(NoJwt, t)
             k == KeyFor(r.jwt.claims.iss, r.jwt.header.kid)
  <1>1. /\ k # NoJwk /\ Verifies(k, r.body, r.jwt.signature) /\ Verdict(t).key = k
        /\ r.jwt.signature = t.sig.val
    BY AcceptedMeans, UnmarshalStrict
  <1>2. IsRead(k) /\ CanVerify(k)
    BY <1>1, KeyForIsRead
  <1> HIDE DEF k, r
  <1> QED
    BY <1>1, <1>2 DEF IsRead, CanVerify, Verifies, Jwk!checkX5CMatchesKey

\* No two operations have the same inverse, so that the operations of the public
\* half are not repeated.
LEMMA InverseOpsInjective ==
    ASSUME NEW a \in DOMAIN Jwk!Inverses, NEW b \in DOMAIN Jwk!Inverses,
           Jwk!inverseOps(a) = Jwk!inverseOps(b)
    PROVE  a = b
  BY DEF Jwk!inverseOps, Jwk!Inverses

\* The public half is consistent if the private one is.
LEMMA PublicHalfConsistent ==
    ASSUME NEW j, IsOwn(j), PublicHalf(j).ok, Jwk!CheckConsistency(j),
           j.private => \A i \in DOMAIN j.ops : j.ops[i] \in DOMAIN Jwk!Inverses
    PROVE  Jwk!CheckConsistency(PublicHalf(j).jwk)
  <1> DEFINE p == PublicHalf(j).jwk
  <1>1. ASSUME j.private PROVE Jwk!CheckConsistency(p)
    <2>1. p.ops = [i \in DOMAIN j.ops |-> Jwk!inverseOps(j.ops[i])] /\ p.x5t = Jwk!Absent
      BY <1>1, PublicHalfShape
    <2>2. Len(j.ops) \in Nat /\ DOMAIN j.ops = 1 .. Len(j.ops)
      BY IsSeqFacts DEF IsOwn
    <2> HIDE DEF p
    <2>3. DOMAIN p.ops = 1 .. Len(j.ops) /\ Len(p.ops) = Len(j.ops)
      BY <2>1, <2>2
    <2>4. \A a, b \in DOMAIN p.ops : p.ops[a] = p.ops[b] => a = b
      BY <1>1, <2>1, <2>2, <2>3, InverseOpsInjective DEF Jwk!CheckConsistency
    <2> QED
      BY <2>1, <2>3, <2>4 DEF Jwk!CheckConsistency
  <1>2. ASSUME ~j.private PROVE Jwk!CheckConsistency(p)
    BY <1>2 DEF PublicHalf
  <1> QED
    BY <1>1, <1>2

\* Its certificate is for its numbers, if it is for those of d.
LEMMA PublicHalfCertified ==
    ASSUME NEW j, IsOwn(j), PublicHalf(j).ok, Jwk!checkX5CMatchesKey(j),
           j.private => j.x5c = <<>> \/ j.pub = j.d
    PROVE  Jwk!checkX5CMatchesKey(PublicHalf(j).jwk)
  <1> DEFINE p == PublicHalf(j).jwk
  <1>1. /\ p.kty = j.kty /\ p.x5c = j.x5c /\ p.kty \in {"RSA", "EC"}
        /\ p.pub = IF j.private /\ j.kty = "EC" THEN j.d ELSE j.pub
        /\ j.private => p.crv = IF j.kty = "EC" THEN "P-256" ELSE j.crv
        /\ ~j.private => p = j
    BY PublicHalfFields
  <1>2. j.x5c # <<>> => 1 \in DOMAIN j.x5c
    BY DEF IsOwn, IsChain, IsSeq
  <1>3. j.x5c # <<>> => IsCert(j.x5c[1])
    BY <1>2 DEF IsOwn, IsChain
  <1> HIDE DEF p
  <1>4. Jwk!checkX5CMatchesKey(p)
    BY <1>1, <1>3 DEF Jwk!checkX5CMatchesKey, IsCert
  <1> QED
    BY <1>4 DEF p

\* What the issuer publishes of such a JWK, UnmarshalJwk accepts and reads back.
LEMMA OwnIsReadable ==
    ASSUME OwnInv
    PROVE  PublishedIsReadable
  <1> DEFINE doc == PublicDoc(own).doc
             p == PublicHalf(own).jwk
  <1> SUFFICES ASSUME own # NoJwk, PublicHalf(own).ok, PublicDoc(own).ok,
                      Jwk!CheckConsistency(own), Jwk!checkX5CMatchesKey(own),
                      own.private =>
                        /\ \A i \in DOMAIN own.ops : own.ops[i] \in DOMAIN Jwk!Inverses
                        /\ own.x5c = <<>> \/ own.pub = own.d
               PROVE  /\ Jwk!UnmarshalJwk(doc).ok /\ Jwk!UnmarshalJwk(doc).jwk = p
                      /\ imported => Jwk!CalculateKeyID(Jwk!UnmarshalJwk(doc).jwk) = own.kid
    BY DEF PublishedIsReadable
  <1>1. IsOwn(own)
    BY DEF OwnInv
  <1>2. /\ Jwk!Decoded(doc) = p
        /\ doc.large = FALSE /\ doc.kty = own.kty
        /\ doc.pub \notin {Jwk!Absent, Jwk!Malformed, Jwk!Zero}
        /\ doc.d = Jwk!Absent /\ doc.primes = Jwk!Absent
        /\ doc.x5c = own.x5c /\ doc.x5t # Jwk!Malformed
    BY <1>1, PublishedDecodes
  <1>3. Jwk!CheckConsistency(p) /\ Jwk!checkX5CMatchesKey(p)
    BY <1>1, PublicHalfConsistent, PublicHalfCertified
  <1>4. /\ p.kty = own.kty /\ p.kty \in {"RSA", "EC"}
        /\ p.pub = IF own.private /\ own.kty = "EC" THEN own.d ELSE own.pub
    BY <1>1, PublicHalfFields
  <1>5. \A i \in DOMAIN own.x5c : own.x5c[i].sha1 # Jwk!Malformed
    BY <1>1 DEF IsOwn, IsChain
  <1> HIDE DEF doc, p
  <1>6. \A m \in Jwk!Members(doc.kty) : doc[m] # Jwk!Malformed
    BY <1>2, <1>4 DEF Jwk!Members, Jwk!Absent, Jwk!Malformed
  <1>7. Jwk!Readable(doc)
    BY <1>2, <1>3, <1>4, <1>5, <1>6 DEF Jwk!Readable
  <1>8. imported => Jwk!CalculateKeyID(p) = own.kid
    BY <1>4 DEF OwnInv, Jwk!CalculateKeyID
  <1> QED
    BY <1>2, <1>7, <1>8 DEF Jwk!UnmarshalJwk

-----------------------------------------------------------------------------
(* Tokens that Sign made.                                                  *)

\* What Sign writes, segment by segment.
LEMMA SignedToken ==
    ASSUME NEW j, NEW c, NEW encodes, NEW large, Sign(Issuer, j, c, encodes, large).ok
    PROVE  LET t == Sign(Issuer, j, c, encodes, large).token
               header == [json |-> "object", alg |-> j.alg, kid |-> j.kid, typ |-> "JWT",
                          cty |-> "", crit |-> FALSE]
               named == [c EXCEPT !.iss = Issuer]
           IN  /\ t = [large |-> large, parts |-> 3, header |-> Encoded(header),
                       payload |-> Encoded(MarshalClaims(named).doc),
                       sig |-> Encoded([by |-> j.d, over |-> Signed(t)])]
               /\ named.untyped \intersect reservedJwtClaims = {}
  <1> DEFINE t == Sign(Issuer, j, c, encodes, large).token
             header == [json |-> "object", alg |-> j.alg, kid |-> j.kid, typ |-> "JWT",
                        cty |-> "", crit |-> FALSE]
             written == [NoHeader EXCEPT !.alg = j.alg, !.kid = j.kid, !.typ = "JWT"]
             named == [c EXCEPT !.iss = Issuer]
             doc == MarshalClaims(named).doc
             unsigned == MarshalJwt([header |-> written, claims |-> named,
                                     signature |-> NoSignature], large)
  <1>1. written = header
    <2>1. written = [NoHeader EXCEPT !.alg = j.alg, !.kid = j.kid, !.typ = "JWT"]
      OBVIOUS
    <2> HIDE DEF written
    <2> QED
      BY <2>1 DEF NoHeader
  <1>2. t = [unsigned.token EXCEPT !.sig =
                Encoded([by |-> j.d, over |-> Signed(unsigned.token)])] /\ unsigned.ok
    BY Zenon DEF Sign
  <1> HIDE DEF written, named
  <1>3. /\ unsigned.token = [large |-> large, parts |-> 3, header |-> Encoded(written),
                             payload |-> Encoded(doc), sig |-> Encoded(NoSignature)]
        /\ MarshalClaims(named).ok
    BY <1>2 DEF MarshalJwt
  <1> HIDE DEF unsigned, doc, header
  <1>4. t = [large |-> large, parts |-> 3, header |-> Encoded(header), payload |-> Encoded(doc),
             sig |-> Encoded([by |-> j.d, over |-> <<Encoded(header), Encoded(doc)>>])]
    BY <1>1, <1>2, <1>3 DEF Signed
  <1> HIDE DEF t
  <1>5. t = [large |-> large, parts |-> 3, header |-> Encoded(header), payload |-> Encoded(doc),
             sig |-> Encoded([by |-> j.d, over |-> Signed(t)])]
    BY <1>4 DEF Signed
  <1>6. named.untyped \intersect reservedJwtClaims = {}
    BY <1>3 DEF MarshalClaims
  <1> QED
    BY <1>5, <1>6 DEF t, header, named, doc

\* Reading claims that were written: a list of audiences that is nil is refused.
LEMMA ClaimsAreRead ==
    ASSUME NEW c, IsClaims(c)
    PROVE  LET r == UnmarshalClaims(NoClaims, MarshalClaims(c).doc)
           IN  /\ r.ok <=> ~c.nilAud
               /\ r.ok => r.claims = [iss |-> c.iss, aud |-> c.aud, nilAud |-> c.aud = <<>>,
                                      exp |-> c.exp, nbf |-> c.nbf, untyped |-> c.untyped]
  <1> DEFINE doc == MarshalClaims(c).doc
             r == UnmarshalClaims(NoClaims, doc)
             v == c.aud
  <1>1. doc = [json |-> "object", iss |-> c.iss, aud |-> MarshalAud(c),
               exp |-> c.exp, nbf |-> c.nbf, untyped |-> c.untyped]
    BY DEF MarshalClaims
  <1>2. /\ MarshalAud(c).v = v
        /\ MarshalAud(c).json \in {"null", "string", "list"}
        /\ MarshalAud(c).json = "null" <=> c.nilAud
    BY DEF MarshalAud, IsClaims
  <1>3. <<>> \o v = v
    BY DEF IsClaims, IsSeq
  <1> DEFINE c1 == [iss |-> c.iss, aud |-> v, nilAud |-> v = <<>>, exp |-> 0, nbf |-> 0,
                     untyped |-> {}]
  <1> HIDE DEF doc, v
  <1>5. UnmarshalAud([NoClaims EXCEPT !.iss = IF doc.iss = NoIssuer THEN @ ELSE doc.iss], doc.aud)
            = c1
    <2> DEFINE c0 == [NoClaims EXCEPT !.iss = IF doc.iss = NoIssuer THEN @ ELSE doc.iss]
    <2>0. c0 = [NoClaims EXCEPT !.iss = IF doc.iss = NoIssuer THEN NoIssuer ELSE doc.iss]
      BY DEF NoClaims
    <2>1. c0 = [iss |-> c.iss, aud |-> <<>>, nilAud |-> TRUE, exp |-> 0, nbf |-> 0,
                untyped |-> {}]
      <3> HIDE DEF c0
      <3> QED
        BY <1>1, <2>0 DEF NoClaims
    <2>2. doc.aud.v = v
      BY <1>1, <1>2
    <2> HIDE DEF c0
    <2>3. UnmarshalAud(c0, doc.aud) = [c0 EXCEPT !.aud = v, !.nilAud = (v = <<>>)]
      BY <1>3, <2>1, <2>2 DEF UnmarshalAud
    <2>4. UnmarshalAud(c0, doc.aud) = c1
      BY <2>1, <2>3
    <2> QED
      BY <2>4 DEF c0
  <1>6. doc.json = "object" /\ doc.aud.json \in {"null", "string", "list"}
    BY <1>1, <1>2
  <1> DEFINE c2 == [c1 EXCEPT !.exp = IF doc.exp = 0 THEN @ ELSE doc.exp,
                              !.nbf = IF doc.nbf = 0 THEN @ ELSE doc.nbf,
                              !.untyped = doc.untyped]
  <1>7. c2 = [c1 EXCEPT !.exp = c.exp, !.nbf = c.nbf, !.untyped = c.untyped]
    BY <1>1
  <1>8. /\ r.ok <=> doc.aud.json # "null"
        /\ doc.aud.json # "null" => r.claims = c2
    BY <1>5, <1>6 DEF UnmarshalClaims
  <1>9. doc.aud.json = "null" <=> c.nilAud
    BY <1>1, <1>2
  <1> HIDE DEF c2
  <1>10. c2 = [iss |-> c.iss, aud |-> v, nilAud |-> v = <<>>, exp |-> c.exp, nbf |-> c.nbf,
               untyped |-> c.untyped]
    BY <1>7
  <1> QED
    BY <1>8, <1>9, <1>10 DEF v, doc

\* The claims that are read are those of c, of the issuer.
ReadAs(claims, c) ==
    claims = [iss |-> Issuer, aud |-> c.aud, nilAud |-> claims.nilAud, exp |-> c.exp,
              nbf |-> c.nbf, untyped |-> c.untyped]

\* What Jwt.Unmarshal reads of a token that Sign made.
LEMMA SignedIsRead ==
    ASSUME NEW j, NEW c, NEW encodes, IsClaims(c), Sign(Issuer, j, c, encodes, FALSE).ok
    PROVE  LET t == Sign(Issuer, j, c, encodes, FALSE).token
               r == UnmarshalJwt(NoJwt, t)
           IN  /\ r.err = "ok" <=> ~c.nilAud
               /\ r.err = "ok" =>
                    /\ ReadAs(r.jwt.claims, c)
                    /\ r.jwt.header.kid = j.kid /\ r.jwt.header.alg = j.alg
  <1> DEFINE t == Sign(Issuer, j, c, encodes, FALSE).token
             header == [json |-> "object", alg |-> j.alg, kid |-> j.kid, typ |-> "JWT",
                        cty |-> "", crit |-> FALSE]
             named == [c EXCEPT !.iss = Issuer]
             doc == MarshalClaims(named).doc
             q == UnmarshalClaims(NoClaims, doc)
             read == [iss |-> Issuer, aud |-> c.aud, nilAud |-> c.aud = <<>>,
                      exp |-> c.exp, nbf |-> c.nbf, untyped |-> c.untyped]
  <1>1. /\ t = [large |-> FALSE, parts |-> 3, header |-> Encoded(header), payload |-> Encoded(doc),
                sig |-> Encoded([by |-> j.d, over |-> Signed(t)])]
        /\ named.untyped \intersect reservedJwtClaims = {}
    BY SignedToken
  <1>2. named = [iss |-> Issuer, aud |-> c.aud, nilAud |-> c.nilAud, exp |-> c.exp, nbf |-> c.nbf,
                 untyped |-> c.untyped]
    <2>1. named = [c EXCEPT !.iss = Issuer]
      OBVIOUS
    <2> HIDE DEF named
    <2> QED
      BY <2>1 DEF IsClaims
  <1> HIDE DEF named
  <1>3. IsClaims(named)
    BY <1>2 DEF IsClaims
  <1>4. (q.ok <=> ~named.nilAud) /\ (q.ok => q.claims = [iss |-> named.iss, aud |-> named.aud,
              nilAud |-> named.aud = <<>>, exp |-> named.exp, nbf |-> named.nbf,
              untyped |-> named.untyped])
    BY <1>3, ClaimsAreRead
  <1>5. (q.ok <=> ~c.nilAud) /\ (q.ok => q.claims = read)
    BY <1>2, <1>4
  <1> HIDE DEF q, t
  <1>6. UnmarshalHeader(NoHeader, header) = header
    BY DEF UnmarshalHeader, NoHeader
  <1> HIDE DEF doc, header
  <1> DEFINE s == [by |-> j.d, over |-> Signed(t)]
             withHeader == [NoJwt EXCEPT !.header = UnmarshalHeader(@, t.header.val)]
             decoded == [withHeader EXCEPT !.claims = q.claims]
             jws == [decoded EXCEPT !.signature = t.sig.val]
  <1> HIDE DEF s
  <1>7. /\ ~t.large /\ t.parts = 3 /\ t.header.form = "canonical" /\ t.header.val = header
        /\ t.payload.form = "canonical" /\ t.payload.val = doc
        /\ t.sig.form = "canonical"
    BY <1>1 DEF Encoded, Encoding, s
  <1>8. /\ header.json = "object" /\ header.kid = j.kid /\ header.alg = j.alg
        /\ header.typ = "JWT" /\ header.cty = "" /\ ~header.crit
    BY DEF header
  <1>9. jws.header = header /\ jws.claims = q.claims
    BY <1>6, <1>7 DEF NoJwt
  <1> HIDE DEF jws
  <1>10. UnmarshalJws(NoJwt, t).err = IF q.ok THEN "ok" ELSE "malformed"
    BY <1>7, <1>8 DEF UnmarshalJws, strictCompactB64, q, NoJwt
  <1>11. q.ok => UnmarshalJws(NoJwt, t).jwt = jws
    BY <1>7, <1>8 DEF UnmarshalJws, strictCompactB64, q, NoJwt, jws
  <1>12. q.ok => VerifyJwt(jws)
    <2>1. q.ok => jws.claims.untyped \intersect reservedJwtClaims = {}
      BY <1>1, <1>2, <1>5, <1>9
    <2> QED
      BY <1>8, <1>9, <2>1 DEF VerifyJwt
  <1>13. UnmarshalJwt(NoJwt, t).err = IF q.ok THEN "ok" ELSE "malformed"
    BY <1>10, <1>11, <1>12 DEF UnmarshalJwt, Reset
  <1>14. q.ok => UnmarshalJwt(NoJwt, t).jwt = jws
    BY <1>10, <1>11, <1>12 DEF UnmarshalJwt, Reset
  <1> DEFINE claims == UnmarshalJwt(NoJwt, t).jwt.claims
  <1>15. q.ok => ReadAs(claims, c)
    <2>1. q.ok => claims = read
      BY <1>5, <1>9, <1>14
    <2>2. read.nilAud = (c.aud = <<>>)
      OBVIOUS
    <2> HIDE DEF claims
    <2> QED
      BY <2>1, <2>2, Zenon DEF ReadAs
  <1>16. q.ok => UnmarshalJwt(NoJwt, t).jwt.header = header
    BY <1>9, <1>14
  <1> HIDE DEF claims
  <1> QED
    BY <1>5, <1>8, <1>13, <1>15, <1>16 DEF t, claims

\* A token on its way that Sign made, and what it was asked for.
LEMMA AskedToken ==
    ASSUME AskedInv, asked # NoToken, ~wire.large
    PROVE  \E a \in InputClaims :
              /\ asked = a.claims /\ IsClaims(asked) /\ own # NoJwk /\ CanSign(own)
              /\ Sign(Issuer, own, asked, a.encodes, FALSE).ok
              /\ wire = Sign(Issuer, own, asked, a.encodes, FALSE).token
  <1>1. PICK a \in InputClaims :
            /\ asked = a.claims /\ own # NoJwk /\ CanSign(own)
            /\ Sign(Issuer, own, a.claims, a.encodes, a.large).ok
            /\ wire = Sign(Issuer, own, a.claims, a.encodes, a.large).token
    BY DEF AskedInv
  <1>2. wire.large = a.large
    BY <1>1 DEF Sign, MarshalJwt
  <1>3. a.large = FALSE /\ IsClaims(a.claims)
    BY <1>2, TokensAssumption
  <1> QED
    BY <1>1, <1>3

\* A token that Sign made is read as the claims it was given.
LEMMA AskedSurvives ==
    ASSUME AskedInv
    PROVE  ClaimsSurvive
  <1> DEFINE r == UnmarshalJwt(NoJwt, wire)
  <1> SUFFICES ASSUME asked # NoToken, ~wire.large
               PROVE  /\ r.err = "ok" <=> ~(asked.nilAud /\ asked.aud = <<>>)
                      /\ r.err = "ok" => [r.jwt.claims EXCEPT !.nilAud = asked.nilAud]
                                              = [asked EXCEPT !.iss = Issuer]
    BY DEF ClaimsSurvive
  <1>1. PICK a \in InputClaims :
              /\ asked = a.claims /\ IsClaims(asked) /\ own # NoJwk /\ CanSign(own)
              /\ Sign(Issuer, own, asked, a.encodes, FALSE).ok
              /\ wire = Sign(Issuer, own, asked, a.encodes, FALSE).token
    BY AskedToken
  <1>2. /\ r.err = "ok" <=> ~asked.nilAud
        /\ r.err = "ok" => ReadAs(r.jwt.claims, asked)
    BY <1>1, SignedIsRead
  <1>3. asked.nilAud => asked.aud = <<>>
    BY <1>1 DEF IsClaims
  <1> DEFINE left == [r.jwt.claims EXCEPT !.nilAud = asked.nilAud]
             right == [asked EXCEPT !.iss = Issuer]
  <1>4. left = [r.jwt.claims EXCEPT !.nilAud = asked.nilAud]
    OBVIOUS
  <1>5. right = [asked EXCEPT !.iss = Issuer]
    OBVIOUS
  <1> HIDE DEF r, left, right
  <1>6. right = [iss |-> Issuer, aud |-> asked.aud, nilAud |-> asked.nilAud, exp |-> asked.exp,
                 nbf |-> asked.nbf, untyped |-> asked.untyped]
    BY <1>1, <1>5 DEF IsClaims
  <1>7. r.err = "ok" => left = [iss |-> Issuer, aud |-> asked.aud, nilAud |-> asked.nilAud,
                                exp |-> asked.exp, nbf |-> asked.nbf,
                                untyped |-> asked.untyped]
    BY <1>2, <1>4 DEF ReadAs
  <1> QED
    BY <1>2, <1>3, <1>4, <1>5, <1>6, <1>7

\* A JWK that can sign has a public half, which can be written, verifies and has the
\* numbers that the signature is by.
LEMMA SignerHasPublicHalf ==
    ASSUME NEW j, IsOwn(j), CanSign(j), j.kty = "RSA" => j.alg = "PS"
    PROVE  /\ PublicHalf(j).ok /\ PublicDoc(j).ok
           /\ CanVerify(PublicHalf(j).jwk) /\ PublicHalf(j).jwk.pub = j.d
  <1> DEFINE p == PublicHalf(j).jwk
  <1>1. /\ j.private /\ j.d # Jwk!Zero /\ j.kty \in {"RSA", "EC"}
        /\ j.kty = "RSA" => j.pub = j.d /\ j.primes = j.d
        /\ j.kty = "EC" => j.alg = "ES"
    BY DEF IsOwn, IsJwk, CanSign
  <1>2. PublicHalf(j).ok
    BY <1>1 DEF PublicHalf, Jwk!PublicFromPrivate
  <1>3. /\ p.kty = j.kty /\ p.private = FALSE /\ p.alg = j.alg
        /\ p.pub = IF j.private /\ j.kty = "EC" THEN j.d ELSE j.pub
    BY <1>2, PublicHalfFields
  <1>4. p.ops = [i \in DOMAIN j.ops |-> Jwk!inverseOps(j.ops[i])] /\ p.x5t = Jwk!Absent
    BY <1>1, <1>2, PublicHalfShape
  <1>5. PublicDoc(j) = Jwk!MarshalJSON(p)
    BY DEF PublicDoc
  <1> HIDE DEF p
  <1>6. p.pub = j.d
    BY <1>1, <1>3
  <1>7. PublicDoc(j).ok
    <2>1. Jwk!Written(p) = {"pub"}
      BY <1>3 DEF Jwk!Written
    <2>2. (\A m \in Jwk!Written(p) : p[m] # Jwk!Zero) /\ p.x5t # Jwk!Malformed
      BY <1>1, <1>4, <1>6, <2>1 DEF Jwk!Absent, Jwk!Malformed
    <2> QED
      <3>1. Jwk!MarshalJSON(p).ok
                <=> (\A m \in Jwk!Written(p) : p[m] # Jwk!Zero) /\ p.x5t # Jwk!Malformed
        BY DEF Jwk!MarshalJSON
      <3> QED
        BY <1>5, <2>2, <3>1, Zenon
  <1>8. \E i \in DOMAIN p.ops : p.ops[i] = "verify"
    <2>1. PICK i \in DOMAIN j.ops : j.ops[i] = "sign"
      BY DEF CanSign
    <2>2. Jwk!inverseOps("sign") = "verify"
      BY DEF Jwk!inverseOps, Jwk!Inverses
    <2> QED
      BY <1>4, <2>1, <2>2
  <1>9. CanVerify(p)
    BY <1>1, <1>3, <1>6, <1>8 DEF CanVerify, CanSign
  <1> QED
    BY <1>2, <1>6, <1>7, <1>9 DEF p

\* The signature does not depend on what the issuer can change of its JWK.
LEMMA SignatureIsOne ==
    ASSUME NEW j, IsOwn(j), NEW a \in InputClaims
    PROVE  Sign(Issuer, j, a.claims, a.encodes, a.large).token.sig.val # NoSignature
  <1>1. PICK k \in FirstKeys : j.alg = k.alg /\ j.kid = k.kid /\ j.d = k.d
    BY DEF IsOwn
  <1>2. Sign(Issuer, j, a.claims, a.encodes, a.large) = Sign(Issuer, k, a.claims, a.encodes, a.large)
    BY <1>1 DEF Sign
  <1> QED
    BY <1>2, TokensAssumption

\* The store has the public half of own for its kid, if no other key has it.
LEMMA KeyForOwn ==
    ASSUME OwnInv, JwksInv, current, CanSign(own), own.kty = "RSA" => own.alg = "PS",
           Cardinality({i \in DOMAIN jwks : jwks[i].kid = own.kid}) = 1
    PROVE  KeyFor(Issuer, own.kid) = PublicHalf(own).jwk
  <1> DEFINE p == PublicHalf(own).jwk
             n == Len(jwks)
             at == {i \in DOMAIN jwks : jwks[i].kid = own.kid}
             first == CHOOSE i \in at : \A h \in at : i <= h
  <1>1. own # NoJwk /\ IsOwn(own)
    BY DEF OwnInv, JwksInv
  <1>2. PublicHalf(own).ok /\ PublicDoc(own).ok /\ CanVerify(p)
    BY <1>1, SignerHasPublicHalf
  <1>3. jwks[n] = p
    BY <1>1, <1>2, PublishedDecodes DEF JwksInv
  <1>4. p.kid = own.kid
    BY <1>1, <1>2, PublicHalfFields
  <1>5. n \in Nat /\ n \in DOMAIN jwks
    <2>1. IsSeq(jwks) /\ jwks # <<>>
      BY DEF JwksInv
    <2> QED
      BY <2>1 DEF IsSeq
  <1>6. n \in at /\ Cardinality(at) = 1
    BY <1>3, <1>4, <1>5
  <1>7. IsFiniteSet(at)
    <2>1. DOMAIN jwks = 1 .. n
      BY IsSeqFacts DEF JwksInv
    <2>2. IsFiniteSet(1 .. n)
      BY <1>5, FS_Interval
    <2> QED
      BY <2>1, <2>2, FS_Subset
  <1>8. {i \in DOMAIN jwks : Issuer = Issuer /\ jwks[i].kid = own.kid} = at
    OBVIOUS
  <1>9. KeyFor(Issuer, own.kid) =
            IF at = {} \/ ~CanVerify(jwks[first]) THEN NoJwk ELSE jwks[first]
    BY <1>8 DEF KeyFor
  <1> HIDE DEF at, p
  <1>10. at = {n}
    BY <1>6, <1>7, FS_Singleton
  <1>11. first = n
    BY <1>5, <1>10
  <1> HIDE DEF first
  <1> QED
    BY <1>2, <1>3, <1>9, <1>10, <1>11 DEF p

\* A token that Sign made passes every check of Verify, in the code's order.
LEMMA AskedIsAccepted ==
    ASSUME OwnInv, JwksInv, AskedInv
    PROVE  SignedIsAccepted
  <1> DEFINE r == UnmarshalJwt(NoJwt, wire)
             key == KeyFor(r.jwt.claims.iss, r.jwt.header.kid)
             p == PublicHalf(own).jwk
             auds == {r.jwt.claims.aud[i] : i \in DOMAIN r.jwt.claims.aud}
             parsed == [form |-> r.err, nbf |-> r.jwt.claims.nbf, exp |-> r.jwt.claims.exp,
                        aud |-> auds,
                        kid |-> r.jwt.header.kid, alg |-> r.jwt.header.alg,
                        signer |-> IF key # NoJwk /\ Verifies(key, r.body, r.jwt.signature)
                                   THEN key ELSE NoJwk]
  <1> SUFFICES ASSUME asked # NoToken, current, own.kty = "RSA" => own.alg = "PS",
                      own.kid # <<>>,
                      Cardinality({i \in DOMAIN jwks : jwks[i].kid = own.kid}) = 1,
                      ~wire.large, asked.nbf <= Now, Now < asked.exp,
                      {asked.aud[i] : i \in DOMAIN asked.aud} \intersect Audience # {}
               PROVE  Verdict(wire).result = "accepted"
    BY DEF SignedIsAccepted
  <1>1. PICK a \in InputClaims :
              /\ asked = a.claims /\ IsClaims(asked) /\ own # NoJwk /\ CanSign(own)
              /\ Sign(Issuer, own, asked, a.encodes, FALSE).ok
              /\ wire = Sign(Issuer, own, asked, a.encodes, FALSE).token
    BY AskedToken
  <1>2. ~asked.nilAud
    BY <1>1 DEF IsClaims
  <1>3. /\ r.err = "ok" /\ ReadAs(r.jwt.claims, asked)
        /\ r.jwt.header.kid = own.kid /\ r.jwt.header.alg = own.alg
    <2> DEFINE t == Sign(Issuer, own, asked, a.encodes, FALSE).token
               q == UnmarshalJwt(NoJwt, t)
    <2>1. /\ q.err = "ok" <=> ~asked.nilAud
          /\ q.err = "ok" => /\ ReadAs(q.jwt.claims, asked)
                             /\ q.jwt.header.kid = own.kid /\ q.jwt.header.alg = own.alg
      BY <1>1, SignedIsRead
    <2>2. q = r
      BY <1>1
    <2> HIDE DEF q, r
    <2> QED
      BY <1>2, <2>1, <2>2
  <1>4. IsOwn(own)
    BY <1>1 DEF OwnInv
  <1>5. PublicHalf(own).ok /\ p.pub = own.d
    BY <1>1, <1>4, SignerHasPublicHalf
  <1>6. p.alg = own.alg /\ p.kty \in {"RSA", "EC"}
    BY <1>4, <1>5, PublicHalfFields
  <1> HIDE DEF r, p
  <1>7. p # NoJwk
    <2>1. NoJwk.kty = "none"
      BY DEF NoJwk
    <2> QED
      BY <1>6, <2>1
  <1>8. /\ r.jwt.claims.iss = Issuer /\ r.jwt.claims.aud = asked.aud
        /\ r.jwt.claims.nbf = asked.nbf /\ r.jwt.claims.exp = asked.exp
    BY <1>3 DEF ReadAs
  <1>9. key = p
    BY <1>1, <1>3, <1>8, KeyForOwn DEF p
  <1>10. Verifies(p, r.body, r.jwt.signature)
    <2>1. PICK b \in InputClaims :
            /\ Sign(Issuer, own, b.claims, b.encodes, b.large).ok
            /\ wire = Sign(Issuer, own, b.claims, b.encodes, b.large).token
      BY DEF AskedInv
    <2>2. wire.sig.val # NoSignature
      BY <1>4, <2>1, SignatureIsOne
    <2>3. wire.sig = Encoded([by |-> own.d, over |-> Signed(wire)])
      BY <2>1 DEF Sign, Signed, MarshalJwt
    <2>4. wire.sig.val.by = own.d /\ wire.sig.val.over = Signed(wire)
      BY <2>3 DEF Encoded, Encoding
    <2>5. r.body = Signed(wire) /\ r.jwt.signature = wire.sig.val
      BY <1>3, UnmarshalStrict DEF r
    <2> QED
      BY <1>5, <2>2, <2>4, <2>5 DEF Verifies
  <1> HIDE DEF key
  <1>11. /\ parsed.form = "ok" /\ parsed.nbf = asked.nbf /\ parsed.exp = asked.exp
         /\ parsed.aud = {asked.aud[i] : i \in DOMAIN asked.aud}
         /\ parsed.kid = own.kid /\ parsed.alg = own.alg /\ parsed.signer = p
    BY <1>3, <1>7, <1>8, <1>9, <1>10
  <1>12. Verdict(wire).result =
            IF TokenCheck(parsed, Audience, Now) = "ok" THEN KeyCheck(key, parsed)
            ELSE TokenCheck(parsed, Audience, Now)
    BY DEF Verdict, key, r
  <1> HIDE DEF parsed
  <1>13. TokenCheck(parsed, Audience, Now) = "ok"
    <2>1. asked.nbf \in Int /\ asked.exp \in Int /\ Now \in Int
      BY <1>1, TokensAssumption DEF IsClaims
    <2> QED
      BY <1>11, <2>1 DEF TokenCheck
  <1>14. KeyCheck(key, parsed) = "accepted"
    BY <1>6, <1>7, <1>9, <1>11 DEF KeyCheck
  <1> QED
    BY <1>12, <1>13, <1>14

-----------------------------------------------------------------------------
(* The invariant is kept.                                                  *)

\* The issuer's JWK stays one it can have: five actions touch it.
LEMMA OwnInvStep ==
    ASSUME OwnInv, [Next]_vars
    PROVE  OwnInv'
  <1>1. ASSUME NEW doc \in InputDocs, LoadJwk(doc) PROVE OwnInv'
    <2>1. own' = Jwk!Decoded(doc) /\ imported' = FALSE /\ IsOwn(Jwk!Decoded(doc))
      BY <1>1, DecodedIsOwn DEF LoadJwk, Holds, Jwk!UnmarshalJwk
    <2> QED
      BY <2>1 DEF OwnInv
  <1>2. ASSUME NEW a \in Imports, Import(a) PROVE OwnInv'
    <2> DEFINE j == Jwk!JwkFromPrivateKey(a.kty, a.pair, a.ops, a.certs)
    <2>1. own' = j
      BY <1>2 DEF Import, Holds
    <2>2. IsOwn(j) /\ j.private /\ j.pub = j.d /\ j.kid = <<j.kty, j.d>>
      BY ImportedIsOwn
    <2> HIDE DEF j
    <2> QED
      BY <2>1, <2>2 DEF OwnInv
  <1>3. ASSUME NEW ops \in InputOps, SetOps(ops) PROVE OwnInv'
    <2>1. IsOwn(own) /\ IsSeq(ops) /\ own' = [own EXCEPT !.ops = ops] /\ imported' = FALSE
      BY <1>3, DocumentsAssumption DEF SetOps, Holds, OwnInv
    <2>2. IsOwn([own EXCEPT !.ops = ops])
      BY <2>1, ChangedIsOwn
    <2> QED
      BY <2>1, <2>2 DEF OwnInv
  <1>4. ASSUME NEW certs \in InputCerts, SetX5C(certs) PROVE OwnInv'
    <2>1. /\ IsOwn(own) /\ IsChain(certs) /\ imported' = FALSE
          /\ own' = [own EXCEPT !.x5c = own.x5c \o certs]
      BY <1>4, DocumentsAssumption DEF SetX5C, Holds, OwnInv
    <2>2. IsOwn([own EXCEPT !.x5c = own.x5c \o certs])
      BY <2>1, ChangedIsOwn
    <2> QED
      BY <2>1, <2>2 DEF OwnInv
  <1>5. ASSUME NEW others, Publish(others) PROVE OwnInv'
    <2> DEFINE after == Jwk!AfterPublicFromPrivate(own)
    <2>1. own # NoJwk /\ own' = after /\ imported' = imported /\ IsOwn(own)
      BY <1>5 DEF Publish, OwnInv
    <2>2. IsOwn(after) /\ (own.pub = own.d => after = own)
      BY <2>1, ChangedIsOwn
    <2> HIDE DEF after
    <2> QED
      BY <2>1, <2>2 DEF OwnInv
  <1>6. CASE UNCHANGED <<own, imported>>
    BY <1>6 DEF OwnInv
  <1> QED
    BY <1>1, <1>2, <1>3, <1>4, <1>5, <1>6
       DEF Next, vars, keyVars, tokenVars, ReadSet, ReadSetAgain, SignToken, ForeignToken, Alter,
           Parse, Rewrite, Verify

\* The verifier's keys were read from documents, the last from own's if it is current.
LEMMA JwksInvStep ==
    ASSUME OwnInv, JwksInv, [Next]_vars
    PROVE  JwksInv'
  <1>1. ASSUME NEW j, NEW new \in BOOLEAN, Holds(j, new) PROVE JwksInv'
    BY <1>1 DEF Holds, JwksInv
  <1>2. ASSUME NEW others \in {<<>>} \union {<<doc>> : doc \in ForeignDocs}, Publish(others)
        PROVE  JwksInv'
    <2> DEFINE new == PublicDoc(own).doc
    <2>1. /\ page' = Append(others, new) /\ current' = FALSE /\ jwks' = jwks
          /\ imported' = imported
      BY <1>2 DEF Publish, tokenVars
    <2>2. new.large = FALSE
      BY <1>2, PublishedDecodes DEF Publish, OwnInv
    <2> HIDE DEF new
    <2>3. IsSeq(page') /\ Len(page') <= 2 /\ \A i \in DOMAIN page' : page'[i].large \in BOOLEAN
      <3> DEFINE D == ForeignDocs \union {new}
      <3>1. \A doc \in D : doc.large \in BOOLEAN
        BY <2>2, DocumentsAssumption
      <3>2. others \in Seq(D) /\ Len(others) <= 1
        <4>1. CASE others = <<>>
          BY <4>1
        <4>2. ASSUME NEW doc \in D, others = <<doc>> PROVE others \in Seq(D) /\ Len(others) <= 1
          BY <4>2
        <4> QED
          BY <4>1, <4>2
      <3> HIDE DEF D
      <3>3. new \in D
        BY DEF D
      <3>4. page' \in Seq(D) /\ Len(page') = Len(others) + 1
        BY <2>1, <3>2, <3>3
      <3>5. \A i \in DOMAIN page' : page'[i] \in D
        BY <3>4
      <3>6. Len(page') <= 2
        BY <3>2, <3>4
      <3> QED
        BY <3>1, <3>4, <3>5, <3>6, SeqIsSeq
    <2> QED
      BY <2>1, <2>3 DEF JwksInv
  <1>3. CASE ReadSet
    <2> DEFINE r == Jwk!UnmarshalJwks(<<>>, page)
    <2>1. /\ page # <<>> /\ r.ok /\ jwks' = r.keys /\ own' = own /\ page' = page
          /\ imported' = imported
      BY <1>3 DEF ReadSet
    <2>2. current' <=> own # NoJwk /\ page[Len(page)] = PublicDoc(own).doc
      BY <1>3 DEF ReadSet
    <2>3. current' \in BOOLEAN
      BY <1>3 DEF ReadSet
    <2>4. IsSeq(<<>>) /\ Len(<<>>) = 0 /\ \A i \in DOMAIN <<>> : IsRead(<<>>[i])
      BY DEF IsSeq
    <2>5. /\ IsSeq(r.keys) /\ \A i \in DOMAIN r.keys : IsRead(r.keys[i])
          /\ Len(r.keys) = Len(<<>>) + Len(page)
          /\ r.keys[Len(r.keys)] = Jwk!Decoded(page[Len(page)])
      BY <2>1, <2>4, UnmarshalJwksReads DEF JwksInv
    <2>6. Len(page) \in Nat /\ Len(page) # 0
      BY <2>1 DEF JwksInv, IsSeq
    <2> HIDE DEF r
    <2>7. r.keys # <<>> /\ Len(r.keys) <= MaxKeys
      BY <2>4, <2>5, <2>6, DocumentsAssumption DEF JwksInv
    <2> QED
      BY <2>1, <2>2, <2>3, <2>5, <2>7 DEF JwksInv
  <1>4. CASE ReadSetAgain
    <2> DEFINE r == Jwk!UnmarshalJwks(jwks, page)
    <2>1. /\ jwks' = r.keys /\ Len(r.keys) <= MaxKeys /\ page' = page /\ current' = FALSE
          /\ imported' = imported
      BY <1>4 DEF ReadSetAgain
    <2>2. IsSeq(r.keys) /\ \A i \in DOMAIN r.keys : IsRead(r.keys[i])
      BY UnmarshalJwksReads DEF JwksInv
    <2> HIDE DEF r
    <2> QED
      BY <2>1, <2>2 DEF JwksInv
  <1>5. CASE UNCHANGED keyVars
    BY <1>5 DEF JwksInv, keyVars
  <1> QED
    BY <1>1, <1>2, <1>3, <1>4, <1>5
       DEF Next, vars, LoadJwk, Import, SetOps, SetX5C, SignToken, ForeignToken, Alter, Parse,
           Rewrite, Verify

\* The token stays what Sign makes of it: Publish changes only x and y of own.
LEMMA AskedInvStep ==
    ASSUME OwnInv, AskedInv, [Next]_vars
    PROVE  AskedInv'
  <1>1. ASSUME NEW others, Publish(others) PROVE AskedInv'
    <2> DEFINE after == Jwk!AfterPublicFromPrivate(own)
    <2>1. own # NoJwk /\ own' = after /\ wire' = wire /\ asked' = asked /\ IsOwn(own)
      BY <1>1 DEF Publish, tokenVars, OwnInv
    <2>2. /\ IsOwn(after) /\ after.private = own.private /\ after.kty = own.kty
          /\ after.d = own.d /\ after.alg = own.alg /\ after.kid = own.kid
          /\ after.ops = own.ops /\ after.primes = own.primes
          /\ after.pub = IF after = own THEN own.pub ELSE own.d
          /\ after # own => own.kty = "EC" /\ own.private
      BY <2>1, ChangedIsOwn
    <2> HIDE DEF after
    <2>3. SUFFICES ASSUME asked # NoToken PROVE AskedInv'
      BY <2>1 DEF AskedInv
    <2>4. PICK a \in InputClaims :
              /\ asked = a.claims /\ CanSign(own)
              /\ Sign(Issuer, own, a.claims, a.encodes, a.large).ok
              /\ wire = Sign(Issuer, own, a.claims, a.encodes, a.large).token
      BY <2>3 DEF AskedInv
    <2>5. own.private => own.d # Jwk!Zero
      BY <2>1 DEF IsOwn, IsJwk
    <2>6. CanSign(after)
      BY <2>2, <2>4, <2>5 DEF CanSign
    <2>7. Sign(Issuer, after, a.claims, a.encodes, a.large)
            = Sign(Issuer, own, a.claims, a.encodes, a.large)
      BY <2>2 DEF Sign
    <2>8. after # NoJwk
      <3>1. after.kty \in {"RSA", "EC", "oct"} /\ NoJwk.kty = "none"
        BY <2>2 DEF IsOwn, IsJwk, NoJwk
      <3> QED
        BY <3>1
    <2> QED
      BY <2>1, <2>4, <2>6, <2>7, <2>8 DEF AskedInv
  <1>2. ASSUME NEW a \in InputClaims, SignToken(a) PROVE AskedInv'
    BY <1>2 DEF SignToken, keyVars, AskedInv
  <1>3. CASE asked' = NoToken
    BY <1>3 DEF AskedInv
  <1>4. CASE UNCHANGED <<own, wire, asked>>
    BY <1>4 DEF AskedInv
  <1> QED
    BY <1>1, <1>2, <1>3, <1>4
       DEF Next, vars, keyVars, tokenVars, LoadJwk, Import, SetOps, SetX5C, Holds, ReadSet,
           ReadSetAgain, ForeignToken, Alter, Parse, Rewrite, Verify

\* The invariant holds of every behaviour.
THEOREM DocumentsInvariant == Spec => []DocumentsInv
  <1>1. Init => DocumentsInv
    <2> SUFFICES ASSUME Init PROVE DocumentsInv
      OBVIOUS
    <2>1. IsSeq(<<>>) /\ Len(<<>>) = 0 /\ DOMAIN <<>> = {}
      BY DEF IsSeq
    <2>2. JwksInv
      <3>1. jwks = <<>> /\ page = <<>> /\ imported = FALSE /\ current = FALSE
        BY DEF Init
      <3>2. 0 <= MaxKeys
        BY DocumentsAssumption
      <3>3. /\ IsSeq(jwks) /\ Len(jwks) = 0 /\ DOMAIN jwks = {}
            /\ IsSeq(page) /\ Len(page) = 0 /\ DOMAIN page = {}
        BY <2>1, <3>1, Zenon
      <3>4. Len(jwks) <= MaxKeys /\ Len(page) <= 2
        BY <3>2, <3>3
      <3>5. current = FALSE /\ imported \in BOOLEAN
        BY <3>1
      <3> QED
        BY <3>3, <3>4, <3>5, Zenon DEF JwksInv
    <2>3. ~(jwt.signature # NoSignature)
      BY DEF Init, NoJwt
    <2> QED
      BY <2>2, <2>3 DEF Init, DocumentsInv, OwnInv, AskedInv, CertificateVouches
  <1>2. ASSUME DocumentsInv, [Next]_vars PROVE DocumentsInv'
    <2>1. OwnInv' /\ JwksInv' /\ AskedInv'
      BY <1>2, OwnInvStep, JwksInvStep, AskedInvStep DEF DocumentsInv
    <2>2. (jwt.signature # NoSignature => given # NoToken)'
      <3>1. CASE Parse
        BY <3>1 DEF Parse
      <3>2. CASE UNCHANGED <<jwt, given>>
        BY <1>2, <3>2 DEF DocumentsInv
      <3> QED
        BY <1>2, <3>1, <3>2, OnlyParseTouches
    <2>3. CertificateVouches'
      <3>1. CASE Verify
        <4> DEFINE key == Verdict(wire).key
        <4>1. seen' = [token |-> wire, x5c |-> key.x5c] /\ Verdict(wire).result = "accepted"
          BY <3>1 DEF Verify
        <4>2. key.x5c # <<>> => key.x5c[1].pub = wire.sig.val.by
          BY <1>2, <4>1, AcceptedIsVouched DEF DocumentsInv
        <4> HIDE DEF key
        <4> QED
          BY <4>1, <4>2 DEF CertificateVouches
      <3>2. CASE UNCHANGED seen
        BY <1>2, <3>2 DEF DocumentsInv, CertificateVouches
      <3> QED
        BY <1>2, <3>1, <3>2
           DEF Next, vars, keyVars, tokenVars, LoadJwk, Import, SetOps, SetX5C, Holds, Publish,
               ReadSet, ReadSetAgain, SignToken, ForeignToken, Alter, Parse, Rewrite
    <2> QED
      BY <2>1, <2>2, <2>3 DEF DocumentsInv
  <1> QED
    BY <1>1, <1>2, PTL DEF Spec

\* The issuer's and the verifier's JWKs are such as UnmarshalJwk can return (TypeOK).
THEOREM TypeOKTheorem == Spec => []TypeOK
  <1>1. DocumentsInv => TypeOK
    BY DEF DocumentsInv, OwnInv, JwksInv, IsOwn, IsRead, TypeOK
  <1> QED
    BY <1>1, DocumentsInvariant, PTL

\* What Sign made is accepted with the key set that its owner published, for every
\* key, certificate and operation (SignedIsAccepted).
THEOREM SignedIsAcceptedTheorem == Spec => []SignedIsAccepted
  <1>1. DocumentsInv => SignedIsAccepted
    BY AskedIsAccepted DEF DocumentsInv
  <1> QED
    BY <1>1, DocumentsInvariant, PTL

\* A signed token carries the claims that Sign was given (ClaimsSurvive).
THEOREM ClaimsSurviveTheorem == Spec => []ClaimsSurvive
  <1>1. DocumentsInv => ClaimsSurvive
    BY AskedSurvives DEF DocumentsInv
  <1> QED
    BY <1>1, DocumentsInvariant, PTL

\* A certificate that comes with the verifying key is for the key that signed
\* (CertificateVouches).
THEOREM CertificateVouchesTheorem == Spec => []CertificateVouches
  <1>1. DocumentsInv => CertificateVouches
    BY DEF DocumentsInv
  <1> QED
    BY <1>1, DocumentsInvariant, PTL

\* What the issuer publishes is read back as the public half (PublishedIsReadable).
THEOREM PublishedIsReadableTheorem == Spec => []PublishedIsReadable
  <1>1. DocumentsInv => PublishedIsReadable
    BY OwnIsReadable DEF DocumentsInv
  <1> QED
    BY <1>1, DocumentsInvariant, PTL

=============================================================================
