--------------------------- MODULE JweKeyEncryption ---------------------------
(***************************************************************************)
(* RSA key encryption: JweRsaKeyEncryptionEncryptorImpl and                *)
(* JweRsaKeyEncryptionDecryptorImpl, over the decryption keys of           *)
(* rsa_private.go and of hsm/.  A fresh content encryption key (CEK) seals *)
(* the plaintext and is itself wrapped for the recipient with RSAES-OAEP.  *)
(*                                                                         *)
(* OAEP is symbolic: a wrapped key names the RSA key, the digest and the   *)
(* CEK.  A key is a record: rsa (or else EC), id (its modulus), kid, alg   *)
(* and ops.  A store is a record: a map from kids to keys, and hsm, TRUE   *)
(* if a token holds the keys, which may then fail to find one ("get") or   *)
(* to use it ("unwrap").                                                   *)
(***************************************************************************)
EXTENDS AesGcm

CONSTANTS
    ZeroHash,   \* crypto.Hash(0): take the digest from the header
    Substitute  \* a random CEK that nobody else has

-----------------------------------------------------------------------------
(* rsa_oaep_alg.go: the two algorithms of RFC 7518 and their digests. *)

OaepAlgs == {"RSA-OAEP", "RSA-OAEP-256"}
OaepHashFromAlg(alg) == IF alg = "RSA-OAEP" THEN "SHA1" ELSE "SHA256"
OaepAlgFromHash(hash) == IF hash = "SHA1" THEN "RSA-OAEP" ELSE "RSA-OAEP-256"
isRsaOaepAlg(alg) == alg \in OaepAlgs

-----------------------------------------------------------------------------
(* The encryptor. *)

\* NewJweRsaKeyEncryptionEncryptorImpl accepts the recipient's JWK: the public
\* half of k carries the inverse operations.
IsRecipient(k) == "decrypt" \in k.ops /\ k.rsa /\ isRsaOaepAlg(k.alg)

\* The JWK of the encryption key that RsaPrivateKeyImpl.Encryptor yields: its kid is
\* the one computed from the modulus, whatever the kid of k.
RsaEncryptorJwk(k) == [k EXCEPT !.kid = k.id]

\* AsymmetricDecryptionKey.Encryptor of hsm/ starts from the token's public key alone.
HsmEncryptorJwk(k) == [k EXCEPT !.kid = k.id, !.alg = "RSA-OAEP", !.ops = {"decrypt"}]

\* Mutant: the header names the key's alg, whatever digest wraps the CEK.
HeaderOfKey(k, hash, enc) ==
    [form |-> "ok", alg |-> k.alg, kid |-> k.kid, enc |-> enc, zip |-> FALSE,
     extra |-> FALSE]

makeJweProtectedHeader(k, hash, enc) ==
    [form |-> "ok", alg |-> OaepAlgFromHash(hash), kid |-> k.kid, enc |-> enc, zip |-> FALSE,
     extra |-> FALSE]

Wrap(k, hash, cek) == [id |-> k.id, hash |-> hash, cek |-> cek]

\* The JWE that a CEK, an IV and a header yield.
WrappedJwe(k, hash, header, m, cek, iv) ==
    LET sealed == AeadSeal(cek, iv, m, header)
    IN  [header |-> header, ek |-> Wrap(k, hash, cek), iv |-> iv,
         ct |-> sealed.ct, tag |-> sealed.tag]

\* Encrypt for the recipient k; rng: every read of the random source succeeds.
WrapEncrypt(k, m, hash, cek, iv, rng) ==
    LET header == makeJweProtectedHeader(k, hash, "A256GCM")
        cryptor == [kid |-> "", alg |-> "A256GCM", ops |-> {"encrypt"}, key |-> cek,
                    token |-> FALSE]
        sealed == Seal(cryptor, "encrypt", iv, m, header, NoNonce, FALSE)
    IN  IF hash \notin {"SHA1", "SHA256"} THEN Failure("algorithm")
        ELSE IF ~rng THEN Failure("rng")
        ELSE IF sealed.out # "ok" THEN sealed
        ELSE [out |-> "ok", jwe |-> WrappedJwe(k, hash, header, m, cek, iv)]

-----------------------------------------------------------------------------
(* The decryptor. *)

\* AsymmetricDecryptionKeyStoreImpl.Get: the key of that kid, or else the only
\* key there is.
StoreGet(keys, kid) ==
    IF kid \in DOMAIN keys THEN {keys[kid]}
    ELSE IF \E k \in DOMAIN keys : DOMAIN keys = {k} THEN {keys[k] : k \in DOMAIN keys}
    ELSE {}

\* The HSM's store finds only what it is asked for, if it is a key that decrypts and the
\* token does not fail.
HsmGet(keys, kid, fault) ==
    IF kid \in DOMAIN keys /\ keys[kid].rsa /\ fault # "get" THEN {keys[kid]} ELSE {}

Candidates(store, kid, fault) ==
    IF store.hsm THEN HsmGet(store.keys, kid, fault) ELSE StoreGet(store.keys, kid)

\* An HSM's key claims RSA-OAEP whatever it was made for.
KeyAlgorithm(hsm, k) == IF hsm THEN "RSA-OAEP" ELSE k.alg

\* RsaPrivateKeyImpl tests its operations before it decrypts, the HSM's key does
\* not but may fail.
RsaDecrypts(k) == isSubset(intersection({"decrypt"}, k.ops), {"decrypt"})
HsmDecrypts(fault) == fault # "unwrap"

Unwraps(hsm, k, hash, ek, fault) ==
    /\ ek.id = k.id /\ ek.hash = hash
    /\ IF hsm THEN HsmDecrypts(fault) ELSE RsaDecrypts(k)

\* encCekLength.
CekLength == [enc \in {"A128GCM", "A192GCM", "A256GCM"} |->
                IF enc = "A128GCM" THEN 16 ELSE IF enc = "A192GCM" THEN 24 ELSE 32]

\* Mutant: a CEK of another length is used as it is.
CekAnyLength(hsm, k, hash, jwe, fault) ==
    IF Unwraps(hsm, k, hash, jwe.ek, fault) THEN jwe.ek.cek ELSE Substitute

\* The CEK that Decrypt goes on with.
Cek(hsm, k, hash, jwe, fault) ==
    IF /\ Unwraps(hsm, k, hash, jwe.ek, fault)
       /\ jwe.ek.cek.size = CekLength[jwe.header.enc]
    THEN jwe.ek.cek ELSE Substitute

SupportedJweAlgs ==
    OaepAlgs \union {"dir", "A128GCM", "A192GCM", "A256GCM", "A256CBC"}

\* JweRfc7516Compact.Unmarshal, with the size bound that Decrypt tests before it.
CompactUnmarshal(jwe) ==
    IF jwe.ct.text.size > MaxCompactSize THEN "too_large"
    ELSE IF jwe.header.form # "ok" THEN jwe.header.form
    ELSE IF jwe.header.alg \notin SupportedJweAlgs THEN "algorithm"
    ELSE IF jwe.header.enc \notin DOMAIN CekLength \union {"A256CBC"} THEN "encryption"
    ELSE "ok"

\* Mutant: the additional data is the header written again, without what this
\* library does not know.
AADWritten(jwe) == [jwe.header EXCEPT !.extra = FALSE]

\* The header as received.
AAD(jwe) == jwe.header

\* What is left of Decrypt once the CEK is known; the additional data is
\* returned even when the tag is wrong.
WrapOpen(cek, jwe) ==
    LET opened == AeadOpen(cek, jwe.iv, jwe.ct, AAD(jwe), jwe.tag)
    IN  IF jwe.iv = WrongSize THEN Failure("nonce")
        ELSE IF jwe.tag = WrongSize THEN Failure("tag")
        ELSE Result(opened.out, opened.plaintext, AAD(jwe))

\* Mutant: a failure to unwrap the CEK is reported.
WrapDecryptAloud(store, jwe, oaepHash, fault) ==
    LET found == Candidates(store, jwe.header.kid, fault)
        key == CHOOSE k \in found : TRUE
        hash == IF oaepHash = ZeroHash THEN OaepHashFromAlg(jwe.header.alg) ELSE oaepHash
    IN  IF CompactUnmarshal(jwe) # "ok" THEN Failure(CompactUnmarshal(jwe))
        ELSE IF jwe.header.zip THEN Failure("zip")
        ELSE IF jwe.header.enc \notin DOMAIN CekLength THEN Failure("encryption")
        ELSE IF found = {} THEN Failure("no_key")
        ELSE IF \/ ~isRsaOaepAlg(jwe.header.alg)
                \/ ~isRsaOaepAlg(KeyAlgorithm(store.hsm, key))
             THEN Failure("algorithm")
        ELSE IF ~Unwraps(store.hsm, key, hash, jwe.ek, fault) THEN Failure("unwrap")
        ELSE WrapOpen(Cek(store.hsm, key, hash, jwe, fault), jwe)

\* Decrypt, check by check in the code's order.
WrapDecrypt(store, jwe, oaepHash, fault) ==
    LET found == Candidates(store, jwe.header.kid, fault)
        key == CHOOSE k \in found : TRUE
        hash == IF oaepHash = ZeroHash THEN OaepHashFromAlg(jwe.header.alg) ELSE oaepHash
    IN  IF CompactUnmarshal(jwe) # "ok" THEN Failure(CompactUnmarshal(jwe))
        ELSE IF jwe.header.zip THEN Failure("zip")
        ELSE IF jwe.header.enc \notin DOMAIN CekLength THEN Failure("encryption")
        ELSE IF found = {} THEN Failure("no_key")
        ELSE IF \/ ~isRsaOaepAlg(jwe.header.alg)
                \/ ~isRsaOaepAlg(KeyAlgorithm(store.hsm, key))
             THEN Failure("algorithm")
        ELSE WrapOpen(Cek(store.hsm, key, hash, jwe, fault), jwe)

=============================================================================
