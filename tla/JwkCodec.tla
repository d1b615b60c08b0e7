------------------------------ MODULE JwkCodec ------------------------------
(***************************************************************************)
(* JWK and JWKS documents (jose/jwk.go, jose/jwks.go, jose/types.go) and   *)
(* the JWKs helpers.go makes, as operators from documents to JWKs and back.*)
(*                                                                         *)
(* A document is what JSON says: a member is Absent, Malformed (empty,     *)
(* null, not base64url, or above MaxBlobSize), Zero, or a number, named by *)
(* the key pair it belongs to.  pub stands for n and e, for x and y, or    *)
(* for k; primes for p, q, dp, dq and qi.  A certificate is the key it     *)
(* certifies and its digest.  A kid is a sequence, empty if there is none. *)
(* EC keys are on one curve; KeyPolicy has the others.                     *)
(***************************************************************************)
EXTENDS Naturals, Sequences

CONSTANT MaxKeyOps  \* maxKeyOps

Absent == "absent"
Malformed == "malformed"
Zero == "zero"
NoKid == <<>>

\* The members that each type of JWK has, and so decodes.
Members(kty) == CASE kty = "RSA" -> {"pub", "d", "primes"}
                  [] kty = "EC" -> {"pub", "d"}
                  [] OTHER -> {"pub"}

\* unmarshalJSONBlob into a number: what the JSON does not mention stays 0.
Number(doc, m) == IF m \notin Members(doc.kty) \/ doc[m] = Absent THEN Zero ELSE doc[m]

-----------------------------------------------------------------------------
\* The certificate's digest is that of x5t, if there are both; operations are
\* not repeated and not too many.
CheckConsistency(j) ==
    /\ Len(j.ops) <= MaxKeyOps
    /\ \A a, b \in DOMAIN j.ops : j.ops[a] = j.ops[b] => a = b
    /\ j.x5c # <<>> /\ j.x5t # Absent => j.x5c[1].sha1 = j.x5t

\* Mutant: any certificate will do.
NoX5CCheck(j) == TRUE

checkX5CMatchesKey(j) ==
    j.x5c # <<>> /\ j.kty # "oct" =>
        /\ j.x5c[1].kty = j.kty /\ j.x5c[1].pub = j.pub
        /\ j.kty = "EC" => j.crv \in {"", j.x5c[1].crv}

\* Mutant: the private type for every key.
AllPrimes(doc, private) == Number(doc, "primes")

Primes(doc, private) == IF private THEN Number(doc, "primes") ELSE Zero

\* The JWK a document describes, before it is checked.  Without a private
\* number it is a public JWK, and the primes are dropped.
Decoded(doc) ==
    LET private == Number(doc, "d") # Zero
    IN  [kty |-> doc.kty, private |-> private, crv |-> doc.crv,
         pub |-> Number(doc, "pub"), d |-> Number(doc, "d"),
         primes |-> Primes(doc, private),
         alg |-> doc.alg, kid |-> doc.kid, ops |-> doc.ops,
         x5c |-> doc.x5c, x5t |-> doc.x5t]

\* UnmarshalJwk accepts the document.
Readable(doc) ==
    /\ ~doc.large
    /\ doc.kty \in {"RSA", "EC", "oct"}
    /\ \A m \in Members(doc.kty) : doc[m] # Malformed
    /\ doc.x5t # Malformed
    /\ \A i \in DOMAIN doc.x5c : doc.x5c[i].sha1 # Malformed
    /\ CheckConsistency(Decoded(doc))
    /\ checkX5CMatchesKey(Decoded(doc))

UnmarshalJwk(doc) == [ok |-> Readable(doc), jwk |-> Decoded(doc)]

\* The documents of a set before the first that is refused; none if the set is
\* above MaxJwksSize.
Accepted(docs) ==
    {i \in DOMAIN docs : /\ \A h \in DOMAIN docs : ~docs[h].large
                         /\ \A h \in 1 .. i : UnmarshalJwk(docs[h]).ok}

\* Jwks.UnmarshalJSON appends to the keys that are there, up to the first error.
UnmarshalJwks(keys, docs) ==
    [ok |-> Accepted(docs) = DOMAIN docs,
     keys |-> keys \o [i \in Accepted(docs) |-> UnmarshalJwk(docs[i]).jwk]]

-----------------------------------------------------------------------------
\* The numbers that a JWK writes: a private one also its private numbers.
Written(j) == IF j.private THEN Members(j.kty) ELSE {"pub"}

\* MarshalJSON of j: marshalJSONBlob refuses an empty number, Fingerprint one
\* that is not 20 octets long; consistency is not checked.
MarshalJSON(j) ==
    LET member(m) == IF m \in Written(j) THEN j[m] ELSE Absent
    IN  [ok |-> (\A m \in Written(j) : j[m] # Zero) /\ j.x5t # Malformed,
         doc |-> [kty |-> j.kty, large |-> FALSE, crv |-> j.crv, pub |-> member("pub"),
                  d |-> member("d"), primes |-> member("primes"), alg |-> j.alg,
                  kid |-> j.kid, ops |-> j.ops, x5c |-> j.x5c, x5t |-> j.x5t]]

-----------------------------------------------------------------------------
(* helpers.go                                                              *)

\* CalculateKeyID digests the type and the public numbers, or k.
CalculateKeyID(j) == <<j.kty, j.pub>>

Inverses == [encrypt |-> "decrypt", decrypt |-> "encrypt", sign |-> "verify",
             verify |-> "sign"]

\* Mutant: verify is what either becomes.
VerifyOnly(op) == IF op \in {"sign", "verify"} THEN "verify" ELSE ""

\* inverseOps yields the empty string for an operation it does not have.
inverseOps(op) == IF op \in DOMAIN Inverses THEN Inverses[op] ELSE ""

\* Mutant: the point is copied and not derived.
CopiedPoint(j) == j.pub

\* The public numbers of the public half: an EC point is derived from d.
DerivedPoint(j) == IF j.kty = "EC" THEN j.d ELSE j.pub

\* PublicFromPrivate: x5c is copied, x5t is not.
PublicFromPrivate(j) ==
    [ok |-> /\ j.private /\ (j.kty = "EC" => j.alg = "ES")
            /\ j.kty = "RSA" => j.pub # Zero /\ j.primes # Zero,
     jwk |-> [j EXCEPT !.private = FALSE, !.pub = DerivedPoint(j), !.d = Zero, !.primes = Zero,
                       !.crv = IF j.kty = "EC" THEN "P-256" ELSE @,
                       !.ops = [i \in DOMAIN j.ops |-> inverseOps(j.ops[i])],
                       !.x5t = Absent]]

\* What PublicFromPrivate leaves of its argument: the public half starts as a copy of
\* the fields and so has the words of x and y in common with j, and the derived point
\* is written into them.
AfterPublicFromPrivate(j) ==
    IF j.kty = "EC" /\ j.private /\ j.pub # Zero THEN [j EXCEPT !.pub = DerivedPoint(j)] ELSE j

\* rsaAlgFromOps and ecBitsToAlg, as the family of the alg.
AlgFor(kty, ops) ==
    IF kty = "EC" THEN "ES"
    ELSE IF \E i \in DOMAIN ops : ops[i] \in {"encrypt", "decrypt"} THEN "RSA-OAEP"
    ELSE "PS"

\* JwkFromPrivateKey of the key pair: the kid is that of its public half.
JwkFromPrivateKey(kty, pair, ops, certs) ==
    LET j == [kty |-> kty, private |-> TRUE, crv |-> IF kty = "EC" THEN "P-256" ELSE "",
              pub |-> pair, d |-> pair, primes |-> IF kty = "RSA" THEN pair ELSE Zero,
              alg |-> AlgFor(kty, ops), kid |-> NoKid, ops |-> ops,
              x5c |-> certs, x5t |-> Absent]
    IN  [j EXCEPT !.kid = CalculateKeyID(PublicFromPrivate(j).jwk)]

=============================================================================
