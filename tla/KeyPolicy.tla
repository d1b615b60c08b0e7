------------------------------ MODULE KeyPolicy ------------------------------
(***************************************************************************)
(* Keys and the JWKs they are made from: signing, verification, decryption *)
(* and encryption keys (signer.go, ecdsa_signer.go, verifier.go,           *)
(* ecdsa_verifier.go, rsa_private.go, rsa_public.go), the cryptor's        *)
(* construction (aes_gcm_cryptor.go), the conversions of helpers.go and    *)
(* the generators.  A key is to do what its JWK allowed when it was made,  *)
(* whatever is done to the JWK, or to a list of operations, afterwards.    *)
(*                                                                         *)
(* In Go a list of operations is a slice: two JWKs may have the same one,  *)
(* and whoever holds it may write to it.  So lists, JWKs and keys are      *)
(* objects, and refer to each other by their number.  A list is the set of *)
(* its operations; nil and the empty list are not told apart, as the code  *)
(* does not.  The numbers inside a JWK are fixed: pair names the key pair, *)
(* point the pair that "x" and "y" of an EC JWK are the point of, and crv  *)
(* the curve they lie on (an RSA or oct key has none).  What               *)
(* PublicFromPrivate does to x and y of a private JWK is in JwkCodec.      *)
(***************************************************************************)
EXTENDS Naturals, Sequences

CONSTANTS
    InputJwks,    \* JWKs that clients load
    RequiredOps,  \* sets of operations that callers require
    InputAlgs,    \* algs that clients set and generators are asked for
    InputOps,     \* operations that clients write into lists
    InputBits,    \* sizes of RSA keys that clients import
    MaxJwks, MaxKeys, \* bounds on the objects
    MaxChanges        \* bound on what clients change

KeyOps == {"sign", "verify", "encrypt", "decrypt", "wrapKey", "unwrapKey"}

\* The JWKs are given with the sets of their operations.
ASSUME PolicyAssumption ==
    /\ \A v \in InputJwks :
        /\ v = [kty |-> v.kty, pair |-> v.pair, point |-> v.point, crv |-> v.crv,
                sound |-> v.sound, size |-> v.size, x5c |-> v.x5c, alg |-> v.alg, ops |-> v.ops]
        /\ v.ops \subseteq KeyOps
    /\ \A ops \in RequiredOps : ops \subseteq KeyOps
    /\ InputOps \subseteq KeyOps
    /\ MaxChanges \in Nat

VARIABLES
    lists,  \* the slices: sets of operations
    jwks,   \* the JWKs: kty, pair, point, crv, sound, size, x5c, alg, ops (a list)
    keys,   \* the keys: kind, jwk, pair, crv, alg, ops (a list), and history
    held,   \* JWKs in the hands of clients
    changes, \* what clients have changed so far
    intact  \* history: nobody has written to the package's list

clientVars == <<changes, intact>>
vars == <<lists, jwks, keys, held, clientVars>>

\* validVerificationOps, and a list of the client's own.
Shared == 1
Own == 2

RsAlgs == {"RS256", "RS384", "RS512"}
pssAlgs == {"PS256", "PS384", "PS512"}
EcAlgs == {"ES256", "ES384", "ES512"}
OaepAlgs == {"RSA-OAEP", "RSA-OAEP-256"}
RsaAlgs == RsAlgs \union pssAlgs
SigningAlgs == RsaAlgs \union EcAlgs
NoAlg == "none"

Digest(alg) == CASE alg \in {"RS256", "PS256", "ES256"} -> "SHA256"
                 [] alg \in {"RS384", "PS384", "ES384"} -> "SHA384"
                 [] alg \in {"RS512", "PS512", "ES512"} -> "SHA512"

\* The curve of algToOptsMap.
Curve(alg) == CASE alg = "ES256" -> "P-256" [] alg = "ES384" -> "P-384"
                [] alg = "ES512" -> "P-521"
NoCurve == "none"

MinRsaModulusBits == 2048

\* Bytes of the keys of symmetricAlgs.
symmetricAlgs == [A128GCM |-> 16, A192GCM |-> 24, A256GCM |-> 32]

\* An operation that the map does not have yields the empty string.
inverseOps(op) == CASE op = "encrypt" -> "decrypt" [] op = "decrypt" -> "encrypt"
                    [] op = "sign" -> "verify" [] op = "verify" -> "sign"
                    [] OTHER -> "none"

\* len(required) > 0 && !isSubset(ops, required) is an error.
Allows(ops, required) == required \subseteq ops

-----------------------------------------------------------------------------
(* Objects.  The operations below take a heap h = [lists, jwks, keys] and   *)
(* return the heap they leave.                                             *)

Heap == [lists |-> lists, jwks |-> jwks, keys |-> keys]
JwkOps(h, j) == h.lists[h.jwks[j].ops]

NewList(h, ops) ==
    [heap |-> [h EXCEPT !.lists = Append(@, ops)], ref |-> Len(h.lists) + 1]

\* Mutant: the slice itself.
sameOps(h, r) == [heap |-> h, ref |-> r]

cloneOps(h, r) == NewList(h, h.lists[r])

AddJwk(h, jwk) == [h EXCEPT !.jwks = Append(@, jwk)]
LastJwk(h) == Len(h.jwks)

\* Mutant: the alg is read from the JWK.
JwkAlgorithm(h, k) == h.jwks[k.jwk].alg

Algorithm(h, k) == k.alg

\* What each method of a key lets through: pairs of a method and an operation
\* that a caller may request of it.
Admitted(h, k) ==
    LET Of(method, valid) == {<<method, op>> : op \in valid \intersect h.lists[k.ops]}
    IN  CASE k.kind \in {"signer", "ecSigner"} -> Of("Sign", {"sign"})
          [] k.kind = "rsaPrivate" -> Of("Sign", {"sign"}) \union Of("Decrypt", {"decrypt"})
          [] k.kind = "ecPublic" -> Of("Verify", h.lists[Shared])
          [] k.kind = "rsaPublic" ->
                Of("Verify", h.lists[Shared]) \union Of("Encrypt", {"encrypt"})
          [] k.kind = "aead" -> Of("Seal", {"encrypt"}) \union Of("Open", {"decrypt"})

Behaviour(h, k) == [admits |-> Admitted(h, k), alg |-> Algorithm(h, k)]

\* The JWK of k still says what k captured.
Agrees(h, k) == h.jwks[k.jwk].alg = k.alg /\ JwkOps(h, k.jwk) = h.lists[k.ops]

(***************************************************************************)
(* A new key of JWK j with a copy of the list r.  History: built is what   *)
(* it did when it was new, from the key it was derived from (0: none), and *)
(* agrees whether that key's JWK still said what the key had captured.     *)
(***************************************************************************)
AddKey(h, kind, j, crv, r, alg, from) ==
    LET c == cloneOps(h, r)
        policy == [kind |-> kind, jwk |-> j, ops |-> c.ref, alg |-> alg]
    IN  [c.heap EXCEPT !.keys = Append(@,
            [kind |-> kind, jwk |-> j, pair |-> h.jwks[j].pair, crv |-> crv,
             ops |-> c.ref, alg |-> alg, built |-> Behaviour(c.heap, policy),
             from |-> from, agrees |-> from # 0 /\ Agrees(h, h.keys[from])])]

-----------------------------------------------------------------------------
(* Signing and verifying.                                                  *)

\* rsa.PrivateKey.Sign and RsaPublicKeyImpl.Verify: PSS if the options say so,
\* PKCS #1 v1.5 with any other.
RsaScheme(alg) == <<IF alg \in pssAlgs THEN "PSS" ELSE "PKCS1", Digest(alg)>>

Signature(k, scheme) ==
    [out |-> "signature", pair |-> k.pair, crv |-> k.crv, scheme |-> scheme]
Refused == [out |-> "error"]
Panic == [out |-> "panic"]

RsaSign(h, k, requested) ==
    IF <<"Sign", requested>> \notin Admitted(h, k) \/ Algorithm(h, k) \notin SigningAlgs
    THEN Refused ELSE Signature(k, RsaScheme(Algorithm(h, k)))

\* A decryption key signs in the same way.
RsaPrivateSign(h, k, requested) == RsaSign(h, k, requested)

\* crypto/ecdsa.Sign refuses a key whose point is not on its curve, which is the alg's;
\* it does not ask whether the point is the scalar's.
EcdsaSign(h, k, requested) ==
    LET alg == Algorithm(h, k)
    IN  IF <<"Sign", requested>> \notin Admitted(h, k) \/ alg \notin SigningAlgs THEN Refused
        ELSE IF alg \notin EcAlgs THEN Panic
        ELSE IF Curve(alg) # k.crv THEN Refused
        ELSE Signature(k, <<"ECDSA", Digest(alg)>>)

Sign(h, k, requested) ==
    CASE k.kind = "signer" -> RsaSign(h, k, requested)
      [] k.kind = "rsaPrivate" -> RsaPrivateSign(h, k, requested)
      [] k.kind = "ecSigner" -> EcdsaSign(h, k, requested)

Made(k, sig, scheme) == sig.pair = k.pair /\ sig.crv = k.crv /\ sig.scheme = scheme
Verdict(valid) == IF valid THEN "valid" ELSE "invalid"

RsaVerify(h, k, operation, sig) ==
    Verdict(/\ <<"Verify", operation>> \in Admitted(h, k)
            /\ Algorithm(h, k) \in SigningAlgs
            /\ Made(k, sig, RsaScheme(Algorithm(h, k))))

\* A point that is not on the curve of the alg verifies nothing.
EcdsaVerify(h, k, operation, sig) ==
    LET alg == Algorithm(h, k)
    IN  IF <<"Verify", operation>> \notin Admitted(h, k) THEN "invalid"
        ELSE IF alg \notin EcAlgs THEN "panic"
        ELSE Verdict(Curve(alg) = k.crv /\ Made(k, sig, <<"ECDSA", Digest(alg)>>))

Verify(h, k, operation, sig) ==
    IF k.kind = "rsaPublic" THEN RsaVerify(h, k, operation, sig)
    ELSE EcdsaVerify(h, k, operation, sig)

Decrypt(h, k, requested) == <<"Decrypt", requested>> \in Admitted(h, k)
Encrypt(h, k, requested) == <<"Encrypt", requested>> \in Admitted(h, k)

-----------------------------------------------------------------------------
(* Loading and constructing.  An error leaves the heap as the code does.   *)

\* Mutant: the alg is not checked.
LoadAnyAlg(h, j, required) ==
    /\ Allows(JwkOps(h, j), required)
    /\ h.jwks[j].kty = "rsaPrivate" /\ h.jwks[j].sound

LoadPrivateKey(h, j, required) ==
    LET v == h.jwks[j]
    IN  /\ v.alg \in SigningAlgs \union OaepAlgs
        /\ Allows(JwkOps(h, j), required)
        /\ \/ v.kty = "rsaPrivate" /\ v.sound
           \/ v.kty = "ecPrivate" /\ v.alg \in EcAlgs

LoadPublicKey(h, j, required) ==
    LET v == h.jwks[j]
    IN  /\ v.alg \in SigningAlgs \union OaepAlgs
        /\ Allows(JwkOps(h, j), required)
        /\ \/ v.kty = "rsaPublic" /\ v.sound
           \/ v.kty = "ecPublic" /\ v.alg \in EcAlgs

NewSigningKey(h, j, required) ==
    LET v == h.jwks[j]
    IN  IF "sign" \notin JwkOps(h, j) \/ v.alg \notin SigningAlgs
           \/ ~LoadPrivateKey(h, j, required) THEN h
        ELSE IF v.kty = "rsaPrivate" THEN AddKey(h, "signer", j, NoCurve, v.ops, v.alg, 0)
        ELSE AddKey(h, "ecSigner", j, v.crv, v.ops, v.alg, 0)

NewRsaDecryptionKey(h, j) ==
    IF LoadPrivateKey(h, j, {"decrypt"}) /\ h.jwks[j].kty = "rsaPrivate"
    THEN AddKey(h, "rsaPrivate", j, NoCurve, h.jwks[j].ops, h.jwks[j].alg, 0) ELSE h

NewRsaPublicKeyImpl(h, j) ==
    IF LoadPublicKey(h, j, {}) /\ h.jwks[j].kty = "rsaPublic"
    THEN AddKey(h, "rsaPublic", j, NoCurve, h.jwks[j].ops, h.jwks[j].alg, 0) ELSE h

LoadSymmetricAEAD(h, j, required) ==
    LET v == h.jwks[j]
    IN  /\ v.alg \in DOMAIN symmetricAlgs
        /\ Allows(JwkOps(h, j), required)
        /\ v.kty = "oct" /\ v.size = symmetricAlgs[v.alg]

NewAesGcmCryptorFromJwk(h, j, required) ==
    IF {"encrypt", "decrypt"} \intersect JwkOps(h, j) # {} /\ LoadSymmetricAEAD(h, j, required)
    THEN AddKey(h, "aead", j, NoCurve, h.jwks[j].ops, h.jwks[j].alg, 0) ELSE h

\* Mutant: a list of the JWK's own is not looked at.
DefaultOps(h, j) == [heap |-> h, ref |-> Shared]

\* The operations of a verification key: the package's list if the JWK has none.
VerificationOps(h, j) ==
    IF JwkOps(h, j) = {} THEN [heap |-> h, ref |-> Shared]
    ELSE NewList(h, h.lists[Shared] \intersect JwkOps(h, j))

(***************************************************************************)
(* An RSA JWK without an alg gets the one of its certificate, even if an   *)
(* error follows, and its operations become those of the key.              *)
(***************************************************************************)
NewVerificationKey(h, j, from) ==
    LET v == h.jwks[j]
        ops == VerificationOps(h, j)
        alg == IF v.alg = NoAlg THEN v.x5c ELSE v.alg
        labelled == [ops.heap EXCEPT !.jwks[j].alg = alg]
    IN  IF ops.heap.lists[ops.ref] = {} THEN h
        ELSE CASE v.kty = "rsaPublic" ->
                    IF alg \notin RsaAlgs \/ ~v.sound THEN [h EXCEPT !.jwks[j].alg = alg]
                    ELSE AddKey([labelled EXCEPT !.jwks[j].ops = ops.ref],
                                "rsaPublic", j, NoCurve, ops.ref, alg, from)
               [] v.kty = "ecPublic" ->
                    IF v.alg \notin EcAlgs THEN h
                    ELSE AddKey(ops.heap, "ecPublic", j, v.crv, ops.ref, v.alg, from)
               [] OTHER -> h

-----------------------------------------------------------------------------
(* Conversions.                                                            *)

\* Mutant: the point is copied from the members "x" and "y".
CopiedPoint(v) == v.point

\* The point of a private EC JWK is derived from its scalar.
DerivedPoint(v) == v.pair

\* The JWK is one that a private key was made from, so no number is missing.
PublicFromPrivate(h, j) ==
    LET v == h.jwks[j]
        ops == NewList(h, {inverseOps(op) : op \in JwkOps(h, j)})
    IN  IF v.kty = "ecPrivate" /\ v.alg \notin EcAlgs THEN h
        ELSE AddJwk(ops.heap, [v EXCEPT
                !.kty = IF v.kty = "rsaPrivate" THEN "rsaPublic" ELSE "ecPublic",
                !.pair = DerivedPoint(v), !.point = DerivedPoint(v),
                !.crv = IF v.kty = "ecPrivate" THEN Curve(v.alg) ELSE NoCurve,
                !.ops = ops.ref])

\* g if it has a key more than h; an error leaves nothing behind.
OrNothing(h, g) == IF Len(g.keys) > Len(h.keys) THEN g ELSE h

\* publicKey, the Verifier and the Encryptor of the decryption key numbered i:
\* NewVerificationKey is not asked.
publicKey(h, i) ==
    LET p == PublicFromPrivate(h, h.keys[i].jwk)
        j == LastJwk(p)
    IN  AddKey(p, "rsaPublic", j, NoCurve, p.jwks[j].ops, p.jwks[j].alg, i)

\* Verifier of the signing key numbered i, from its JWK as it is now.
Verifier(h, i) ==
    LET p == PublicFromPrivate(h, h.keys[i].jwk)
    IN  IF p = h THEN h ELSE OrNothing(h, NewVerificationKey(p, LastJwk(p), i))

rsaBitsToAlg(bitLen) ==
    IF bitLen >= 15360 THEN "PS512" ELSE IF bitLen >= 7680 THEN "PS384" ELSE "PS256"

rsaAlgFromOps(bitLen, ops) ==
    IF ops \intersect {"encrypt", "decrypt"} # {} THEN "RSA-OAEP" ELSE rsaBitsToAlg(bitLen)

ecBitsToAlg(crv) == CHOOSE a \in EcAlgs : Curve(a) = crv

\* The loaders refuse an RSA key below MinRsaModulusBits.
JwkOf(h, kty, pair, point, crv, alg, bitLen, r, x5c) ==
    AddJwk(h, [kty |-> kty, pair |-> pair, point |-> point, crv |-> crv,
               sound |-> kty = "ecPrivate" \/ bitLen >= MinRsaModulusBits, size |-> 0,
               x5c |-> x5c, alg |-> alg, ops |-> r])

\* JWKs of crypto keys; the caller's list r becomes theirs.
JwkFromPrivateKey(h, kty, pair, crv, bitLen, r, x5c) ==
    JwkOf(h, kty, pair, pair, crv,
          IF kty = "rsaPrivate" THEN rsaAlgFromOps(bitLen, h.lists[r]) ELSE ecBitsToAlg(crv),
          bitLen, r, x5c)

JwkFromPublicKey(h, pair, bitLen, r, x5c) ==
    JwkOf(h, "rsaPublic", pair, pair, NoCurve, rsaAlgFromOps(bitLen, h.lists[r]), bitLen, r,
          x5c)

JwkFromSymmetric(h, pair, alg) ==
    LET ops == NewList(h, {"encrypt", "decrypt", "sign", "verify"})
    IN  AddJwk(ops.heap, [kty |-> "oct", pair |-> pair, point |-> pair, crv |-> NoCurve,
                          sound |-> TRUE, size |-> symmetricAlgs[alg], x5c |-> NoAlg, alg |-> alg,
                          ops |-> ops.ref])

FreshPair(h) == LastJwk(h) + 1

-----------------------------------------------------------------------------
(* Generators, given the client's own list.                                *)

Relabelled(h, alg) == [h EXCEPT !.jwks[LastJwk(h)].alg = alg]

\* The alg chosen for the size is overwritten, so the size does not matter.
generateRsaKey(h, alg) ==
    LET c == cloneOps(h, Own)
    IN  Relabelled(JwkFromPrivateKey(c.heap, "rsaPrivate", FreshPair(h), NoCurve,
                                     MinRsaModulusBits, c.ref, NoAlg), alg)

GenerateRsaSigning(h, alg) ==
    LET g == generateRsaKey(h, alg)
    IN  IF alg \in RsaAlgs THEN OrNothing(h, NewSigningKey(g, LastJwk(g), h.lists[Own])) ELSE h

GenerateRsaDecryption(h, alg) ==
    LET g == generateRsaKey(h, alg)
    IN  IF alg \in OaepAlgs
        THEN AddKey(g, "rsaPrivate", LastJwk(g), NoCurve, Own, alg, 0) ELSE h

GenerateEcdsa(h, alg) ==
    LET c == cloneOps(h, Own)
        g == Relabelled(JwkFromPrivateKey(c.heap, "ecPrivate", FreshPair(h), Curve(alg),
                                          0, c.ref, NoAlg), alg)
    IN  IF alg \in EcAlgs THEN OrNothing(h, NewSigningKey(g, LastJwk(g), h.lists[Own])) ELSE h

GenerateAead(h, alg) ==
    LET c == cloneOps(h, Own)
        s == JwkFromSymmetric(c.heap, FreshPair(h), alg)
        g == [s EXCEPT !.jwks[LastJwk(s)].ops = c.ref]
    IN  IF alg \in DOMAIN symmetricAlgs
        THEN OrNothing(h, NewAesGcmCryptorFromJwk(g, LastJwk(g), h.lists[Own])) ELSE h

-----------------------------------------------------------------------------
(* The state machine: clients and the library in one process.              *)

Become(h) ==
    /\ Len(h.jwks) <= MaxJwks /\ Len(h.keys) <= MaxKeys
    /\ lists' = h.lists /\ jwks' = h.jwks /\ keys' = h.keys
    /\ UNCHANGED clientVars

\* The client holds the JWK that h has and the present heap has not.
Hold(h) == held' = held \union (DOMAIN h.jwks \ DOMAIN jwks)

Init ==
    /\ lists \in {<<{"verify"}, ops>> : ops \in RequiredOps}
    /\ jwks = <<>> /\ keys = <<>> /\ held = {}
    /\ changes = 0 /\ intact = TRUE

\* A JWK is read from a document that parses and is consistent.
LoadJwk(jwk, required) ==
    LET ops == NewList(Heap, jwk.ops)
        h == AddJwk(ops.heap, [jwk EXCEPT !.ops = ops.ref])
    IN  Allows(jwk.ops, required) /\ Become(h) /\ Hold(h)

\* A JWK is made from a key of the crypto packages; its list is the client's.
ImportKey(kty, bitLen, alg) ==
    LET pair == FreshPair(Heap)
        h == CASE kty = "rsaPrivate" ->
                    JwkFromPrivateKey(Heap, kty, pair, NoCurve, bitLen, Own, NoAlg)
               [] kty = "ecPrivate" ->
                    JwkFromPrivateKey(Heap, kty, pair, Curve(alg), 0, Own, NoAlg)
               [] kty = "oct" -> JwkFromSymmetric(Heap, pair, alg)
    IN  /\ kty = "ecPrivate" => alg \in EcAlgs
        /\ kty = "oct" => alg \in DOMAIN symmetricAlgs
        /\ Become(h) /\ Hold(h)

Change == changes < MaxChanges /\ changes' = changes + 1

SetAlg(j, alg) ==
    /\ j \in held /\ Change
    /\ jwks' = [jwks EXCEPT ![j].alg = alg]
    /\ UNCHANGED <<lists, keys, held, intact>>

\* The client gives a JWK its own list.
SetOps(j) ==
    /\ j \in held /\ Change
    /\ jwks' = [jwks EXCEPT ![j].ops = Own]
    /\ UNCHANGED <<lists, keys, held, intact>>

\* The client overwrites an operation in a list it can reach.
WriteOps(r, old, new) ==
    /\ r \in {Own} \union {jwks[j].ops : j \in held}
    /\ old \in lists[r] /\ new \notin lists[r] /\ Change
    /\ lists' = [lists EXCEPT ![r] = (@ \ {old}) \union {new}]
    /\ intact' = (intact /\ r # Shared)
    /\ UNCHANGED <<jwks, keys, held>>

\* A key is constructed from a JWK.
Construct(j, required) ==
    /\ j \in held
    /\ \/ Become(NewSigningKey(Heap, j, required))
       \/ Become(NewVerificationKey(Heap, j, 0))
       \/ Become(NewRsaDecryptionKey(Heap, j))
       \/ Become(NewRsaPublicKeyImpl(Heap, j))
       \/ Become(NewAesGcmCryptorFromJwk(Heap, j, required))
    /\ UNCHANGED held

Generate(alg) ==
    \/ /\ \/ Become(GenerateRsaSigning(Heap, alg))
          \/ Become(GenerateRsaDecryption(Heap, alg))
          \/ Become(GenerateEcdsa(Heap, alg))
       /\ UNCHANGED held
    \/ LET h == GenerateAead(Heap, alg) IN Become(h) /\ Hold(h)

Derive(i) ==
    /\ \/ keys[i].kind \in {"signer", "ecSigner"} /\ Become(Verifier(Heap, i))
       \/ keys[i].kind = "rsaPrivate" /\ Become(publicKey(Heap, i))
    /\ UNCHANGED held

(***************************************************************************)
(* Jwk of a key hands out the JWK itself, except that an EC signing key    *)
(* builds one around the same list and an RSA public key one with a copy.  *)
(***************************************************************************)
EcSignerJwk(i) ==
    LET k == keys[i]
        v == jwks[k.jwk]
        h == JwkOf(Heap, "ecPrivate", k.pair, v.point, k.crv, ecBitsToAlg(Curve(k.alg)), 0,
                   v.ops, v.x5c)
    IN  k.kind = "ecSigner" /\ Become(h) /\ Hold(h)

RsaPublicJwk(i) ==
    LET k == keys[i]
        c == cloneOps(Heap, k.ops)
        h == Relabelled(JwkFromPublicKey(c.heap, k.pair, MinRsaModulusBits, c.ref,
                                         jwks[k.jwk].x5c), k.alg)
    IN  k.kind = "rsaPublic" /\ Become(h) /\ Hold(h)

Jwk(i) ==
    /\ keys[i].kind \in {"signer", "rsaPrivate", "ecPublic"}
    /\ held' = held \union {keys[i].jwk}
    /\ UNCHANGED <<lists, jwks, keys, clientVars>>

Next ==
    \/ \E jwk \in InputJwks, required \in RequiredOps : LoadJwk(jwk, required)
    \/ \E kty \in {"rsaPrivate", "ecPrivate", "oct"}, bitLen \in InputBits, alg \in InputAlgs :
            ImportKey(kty, bitLen, alg)
    \/ \E j \in held : SetOps(j) \/ \E alg \in InputAlgs : SetAlg(j, alg)
    \/ \E r \in DOMAIN lists, old, new \in InputOps : WriteOps(r, old, new)
    \/ \E j \in held, required \in RequiredOps : Construct(j, required)
    \/ \E alg \in InputAlgs : Generate(alg)
    \/ \E i \in DOMAIN keys : Derive(i) \/ Jwk(i) \/ EcSignerJwk(i) \/ RsaPublicJwk(i)

Spec == Init /\ [][Next]_vars

-----------------------------------------------------------------------------
Kinds == {"signer", "ecSigner", "rsaPrivate", "rsaPublic", "ecPublic", "aead"}

\* The algs that a key of each kind can have.  A public RSA key can have any: it
\* may have been derived after its private half's JWK was given another one.
KeyAlgs(kind) == CASE kind = "signer" -> SigningAlgs
                   [] kind \in {"ecSigner", "ecPublic"} -> EcAlgs
                   [] kind = "rsaPrivate" -> SigningAlgs \union OaepAlgs
                   [] kind = "aead" -> DOMAIN symmetricAlgs

\* Every reference is to an object, and every key has an alg of its kind.
TypeOK ==
    /\ \A r \in DOMAIN lists : lists[r] \subseteq KeyOps \union {"none"}
    /\ {Shared, Own} \subseteq DOMAIN lists
    /\ \A j \in DOMAIN jwks : jwks[j].ops \in DOMAIN lists
    /\ \A i \in DOMAIN keys :
        LET k == keys[i]
        IN  /\ k.kind \in Kinds /\ k.jwk \in DOMAIN jwks /\ k.ops \in DOMAIN lists
            /\ k.kind # "rsaPublic" => k.alg \in KeyAlgs(k.kind)
            /\ k.from \in 0 .. i - 1
    /\ held \subseteq DOMAIN jwks
    /\ changes \in 0 .. MaxChanges /\ intact \in BOOLEAN

(***************************************************************************)
(* A key's policy is fixed when it is made: what its methods let through,  *)
(* and its alg, stay as they were whatever clients do to its JWK, to the   *)
(* JWK's list or to a list they gave to a generator, as long as the list   *)
(* of the package is intact (cloneOps, and the fields ops and alg).        *)
(***************************************************************************)
PolicyIsFixed ==
    intact => \A i \in DOMAIN keys : Behaviour(Heap, keys[i]) = keys[i].built

(***************************************************************************)
(* The halves of a key agree: if a private key's JWK still said what the   *)
(* key had captured when its public key was derived, the public key        *)
(* verifies what the private one signs, and encrypts if it decrypts, also  *)
(* after the JWK has changed and even if the "x" and "y" of an EC JWK were *)
(* another key's (Verifier, Encryptor, PublicFromPrivate).  An RSA key     *)
(* whose alg is an EC one signs too; that its public half verifies this is *)
(* not asked for: a comment in RsaPublicKeyImpl.Verify says it does not.   *)
(***************************************************************************)
HalvesAgree ==
    intact => \A i \in DOMAIN keys : keys[i].agrees =>
        LET v == keys[i]
            s == keys[v.from]
            sig == Sign(Heap, s, "sign")
        IN  /\ sig.out = "signature" /\ (s.kind = "ecSigner" \/ s.alg \in RsaAlgs) =>
                    Verify(Heap, v, "verify", sig) = "valid"
            /\ Decrypt(Heap, s, "decrypt") => Encrypt(Heap, v, "encrypt")

(***************************************************************************)
(* No alg on a JWK makes a key panic: not one of another key type, not     *)
(* RSA-OAEP, not one that is set later (Sign, Verify, signerOptsForAlg).   *)
(***************************************************************************)
NeverPanics ==
    \A i \in DOMAIN keys : LET k == keys[i] IN
        /\ k.kind \in {"signer", "ecSigner", "rsaPrivate"} => Sign(Heap, k, "sign") # Panic
        /\ k.kind \in {"rsaPublic", "ecPublic"} =>
                Verify(Heap, k, "verify", Signature(k, <<"PKCS1", "SHA256">>)) # "panic"

(***************************************************************************)
(* Making a key never widens a JWK: no JWK of before gets an operation     *)
(* that it did not list if it listed any, or another alg than it had       *)
(* (NewVerificationKey is the one constructor that writes to its JWK).     *)
(***************************************************************************)
MakingNarrows ==
    [][Len(keys') > Len(keys) => \A j \in DOMAIN jwks :
        LET before == lists[jwks[j].ops]
        IN  /\ before # {} => lists'[jwks'[j].ops] \subseteq before
            /\ jwks[j].alg # NoAlg => jwks'[j].alg = jwks[j].alg]_vars

-----------------------------------------------------------------------------
(* What the comments say of the code; see the findings.                    *)

\* "later mutation of the source JWK cannot alter this key's behaviour"
\* (RsaPublicKeyImpl, ECVerificationKeyImpl).
JwkCannotAlterKey ==
    \A i \in DOMAIN keys : Behaviour(Heap, keys[i]) = keys[i].built

=============================================================================
