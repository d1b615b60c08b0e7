-------------------------------- MODULE JweGcm --------------------------------
(***************************************************************************)
(* JWEs with AES-GCM on their way between a sender and a receiver that     *)
(* uses both kinds: direct encryption (JweDirectAead) and RSA key          *)
(* encryption (JweKeyEncryption).  Senders encrypt with this library,      *)
(* others send what this library would not, JWEs are altered on the way,   *)
(* and the receiver may give any of them to either decryptor, over key     *)
(* rings and stores that grow while in use.                                *)
(***************************************************************************)
EXTENDS JweDirectAead, JweKeyEncryption

CONSTANTS
    Cryptors,    \* AES-GCM cryptors of senders and receivers
    RsaKeys,     \* key pairs of receivers
    Plaintexts,  \* records with a text and a size
    Nonces, Aads,
    Ceks,        \* content encryption keys, records with an id and a size
    Hashes,      \* digests a caller may name
    NoJwe

(***************************************************************************)
(* Protected headers and tags.  A JWE made with a CEK has no additional    *)
(* data beside its header.                                                 *)
(***************************************************************************)
Kids == {c.kid : c \in Cryptors} \union {k.kid : k \in RsaKeys}
            \union {k.id : k \in RsaKeys} \union {NoKid}
Algs == SupportedJweAlgs \union {"other"}
Encs == GcmAlgs \union {"A256CBC", "", "other"}
Headers ==
    [form : {"ok", "malformed"}, alg : Algs, kid : Kids, enc : Encs, zip : BOOLEAN,
     aad : Aads \union {NoAad}, extra : BOOLEAN]
    \union [form : {"ok", "malformed"}, alg : Algs, kid : Kids, enc : Encs, zip : BOOLEAN,
            extra : BOOLEAN]
ContentKeys == {c.key : c \in Cryptors} \union Ceks
Tags == [key : ContentKeys, nonce : Nonces, text : Plaintexts, aad : Headers]

\* A value of the wrong length is none of the right one, CEKs are generated and
\* not taken from elsewhere, and the values that stand for nil are no others.
ASSUME GcmAssumption ==
    /\ \A m \in Plaintexts : m.size \in Nat
    /\ NoNonce \notin Nonces /\ WrongSize \notin Nonces \union Tags
    /\ Substitute \notin Ceks
    /\ \A c \in Cryptors : c.key \notin Ceks \union {Substitute}
    /\ ZeroHash \notin {"SHA1", "SHA256"}
    /\ \A k \in RsaKeys :
        k = [rsa |-> k.rsa, kid |-> k.kid, alg |-> k.alg, id |-> k.id, ops |-> k.ops]

VARIABLES
    ring,   \* the direct decryptor's keystore, by kid
    store,  \* the key store of the key encryption decryptor
    wire,   \* the JWE on its way, with what its sender put in, or NoJwe
    last    \* the last operation on it, and its result

vars == <<ring, store, wire, last>>

Faults == {"none", "get", "unwrap"}

-----------------------------------------------------------------------------
Idle == [op |-> "none", out |-> "none"]

Sent(by, mode, to, m, aad, jwe) ==
    [by |-> by, mode |-> mode, to |-> to, m |-> m, aad |-> aad, jwe |-> jwe, sent |-> jwe]

\* The map a caller builds, and keeps, for its store.
ByKid(S) == [k \in {key.kid : key \in S} |-> CHOOSE key \in S : key.kid = k]

Init ==
    /\ \E k \in RsaKeys, hsm \in BOOLEAN :
        (k.rsa \/ hsm) /\ store = [keys |-> ByKid({k}), hsm |-> hsm]
    /\ \E c, d \in Cryptors : ring = KeyRing(<<c, d>>)
    /\ wire = NoJwe
    /\ last = Idle

\* The owner of the map passed to NewAsymmetricDecryptionKeyStoreImpl adds a
\* key: the store shares the map.  With an HSM, the token gets one more key, of any type.
AddKey(k) ==
    /\ k.rsa \/ store.hsm
    /\ k.kid \notin DOMAIN store.keys
    /\ store' = [store EXCEPT !.keys =
                    [id \in DOMAIN @ \union {k.kid} |-> IF id = k.kid THEN k ELSE @[id]]]
    /\ last' = Idle
    /\ UNCHANGED <<ring, wire>>

-----------------------------------------------------------------------------
\* An Encrypt has returned r: either a JWE is on its way or an error is.
Encrypted(mode, to, m, aad, r) ==
    /\ wire' = IF r.out = "ok" THEN Sent("sender", mode, to, m, aad, r.jwe) ELSE NoJwe
    /\ last' = [op |-> "encrypt", out |-> r.out]
    /\ UNCHANGED <<ring, store>>

SendDirect(c, externalIV, m, aad, nonce, rng, fault) ==
    /\ wire = NoJwe
    /\ fault => c.token
    /\ \E own \in Nonces :
        Encrypted("direct", c, m, aad,
            DirectEncrypt([key |-> c, externalIV |-> externalIV], m, aad, nonce, rng, own, fault))

\* The JWKs that lead to the key k: its own public half, and what the Encryptor of
\* a key in the store yields.
Recipients(k) ==
    {k} \union {IF store.hsm THEN HsmEncryptorJwk(store.keys[kid])
                             ELSE RsaEncryptorJwk(store.keys[kid]) :
               kid \in {kid \in DOMAIN store.keys : store.keys[kid] = k}}

SendWrapped(k, to, m, hash, cek, iv, rng) ==
    /\ wire = NoJwe
    /\ IsRecipient(to) /\ cek.size = 32
    /\ Encrypted("wrapped", k, m, NoAad, WrapEncrypt(to, m, hash, cek, iv, rng))

(***************************************************************************)
(* Somebody else encrypts for k: before this library named the SHA-256     *)
(* variant, with members or an enc of its own, with a CEK that does not    *)
(* fit the enc, or with a header this library rejects.  JWEs too large to  *)
(* be parsed come from the senders above.                                  *)
(***************************************************************************)
ForeignHeaders(k) ==
    LET h == makeJweProtectedHeader(k, "SHA1", "A256GCM")
    IN  {h, [h EXCEPT !.extra = TRUE], [h EXCEPT !.enc = "A128GCM"],
         [h EXCEPT !.enc = "A256CBC"], [h EXCEPT !.enc = "other"],
         [h EXCEPT !.alg = "dir"], [h EXCEPT !.alg = "A256GCM"], [h EXCEPT !.alg = "other"],
         [h EXCEPT !.zip = TRUE], [h EXCEPT !.form = "malformed"]}

ForeignWrapped(k, h, hash, m, cek, iv) ==
    /\ wire = NoJwe /\ m.size <= MaxCompactSize
    /\ IsRecipient(k)
    /\ wire' = Sent("foreign", "wrapped", k, m, NoAad,
                    WrappedJwe(k, hash, h, m, cek, iv))
    /\ UNCHANGED <<ring, store>>
    /\ last' = Idle

ForeignDirect(c, h, m, iv) ==
    /\ wire = NoJwe /\ m.size <= MaxCompactSize
    /\ LET sealed == AeadSeal(c.key, iv, m, h)
       IN  wire' = Sent("foreign", "direct", c, m, h.aad,
                        [header |-> h, ek |-> NoEk, iv |-> iv,
                         ct |-> sealed.ct, tag |-> sealed.tag])
    /\ UNCHANGED <<ring, store>>
    /\ last' = Idle

ForeignDirectHeaders(c) ==
    LET h == DirectHeader(c.kid, gcmAlgToEnc(c.alg), NoAad)
    IN  {[h EXCEPT !.extra = TRUE], [h EXCEPT !.kid = NoKid], [h EXCEPT !.alg = "RSA-OAEP"],
         [h EXCEPT !.enc = "other"], [h EXCEPT !.zip = TRUE], [h EXCEPT !.form = "malformed"]}

\* Every way to wrap a CEK.
EncryptedKeys ==
    {Wrap(k, hash, cek) : k \in RsaKeys, hash \in {"SHA1", "SHA256"}, cek \in Ceks}
        \union {NoEk}

\* Changes to a JWE by somebody who does not know its key.
Damages(jwe) ==
    {[jwe EXCEPT !.header.extra = ~@], [jwe EXCEPT !.header.alg = "RSA-OAEP"],
     [jwe EXCEPT !.iv = WrongSize], [jwe EXCEPT !.tag = WrongSize],
     [jwe EXCEPT !.tag.aad = NoAad]}
        \union {[jwe EXCEPT !.iv = n] : n \in Nonces}
        \union {[jwe EXCEPT !.ct.text = m] : m \in Plaintexts}
        \union {[jwe EXCEPT !.ek = e] : e \in {e \in EncryptedKeys : e.cek # jwe.ek.cek}}

Damage ==
    /\ wire # NoJwe
    /\ wire.by = "sender"
    /\ \E jwe \in Damages(wire.jwe) \ {wire.jwe} :
        wire' = [wire EXCEPT !.jwe = jwe, !.by = "damaged"]
    /\ last' = Idle
    /\ UNCHANGED <<ring, store>>

\* The JWE is lost, or has been dealt with.
Drop ==
    /\ wire # NoJwe
    /\ wire' = NoJwe
    /\ last' = Idle
    /\ UNCHANGED <<ring, store>>

-----------------------------------------------------------------------------
Decrypted(mode, hash, fault, r) ==
    /\ last' = [op |-> "decrypt", mode |-> mode, hash |-> hash, fault |-> fault,
                out |-> r.out, plaintext |-> r.plaintext, aad |-> r.aad]
    /\ UNCHANGED <<ring, store, wire>>

DecryptDirect ==
    /\ wire # NoJwe
    /\ Decrypted("direct", ZeroHash, "none", DirectDecrypt(ring, wire.jwe))

DecryptWrapped(hash, fault) ==
    /\ wire # NoJwe
    /\ fault # "none" => store.hsm
    /\ Decrypted("wrapped", hash, fault, WrapDecrypt(store, wire.jwe, hash, fault))

Next ==
    \/ \E k \in RsaKeys : AddKey(k)
    \/ \E c \in Cryptors, m \in Plaintexts, n \in Nonces :
        \/ \E aad \in Aads, ext, rng, fault \in BOOLEAN :
            SendDirect(c, ext, m, aad, n, rng, fault)
        \/ \E h \in ForeignDirectHeaders(c) : ForeignDirect(c, h, m, n)
    \/ \E k \in RsaKeys, m \in Plaintexts, cek \in Ceks, n \in Nonces :
        \/ \E to \in Recipients(k), hash \in Hashes, rng \in BOOLEAN :
            SendWrapped(k, to, m, hash, cek, n, rng)
        \/ \E h \in ForeignHeaders(k), hash \in {"SHA1", "SHA256"} :
            ForeignWrapped(k, h, hash, m, cek, n)
    \/ Damage \/ Drop
    \/ DecryptDirect
    \/ \E hash \in Hashes \union {ZeroHash}, fault \in Faults : DecryptWrapped(hash, fault)

Spec == Init /\ [][Next]_vars

-----------------------------------------------------------------------------
Accepted(mode) == last.op = "decrypt" /\ last.mode = mode /\ last.out = "ok"

\* The direct decryptor has the key the JWE was made with, under a kid, may use it,
\* and the header says so.
DirectReadable(w) ==
    /\ w.mode = "direct" /\ last.mode = "direct"
    /\ w.jwe.header.kid = w.to.kid /\ w.to.kid # NoKid
    /\ w.jwe.header.alg = "dir" /\ w.jwe.header.enc = gcmAlgToEnc(w.to.alg)
    /\ w.to.kid \in DOMAIN ring /\ ring[w.to.kid] = w.to
    /\ "decrypt" \in w.to.ops /\ w.to.alg \in GcmAlgs

\* Asked for the kid in the header, the store finds the key the JWE was made for,
\* and can use it: with operations for it, or in a token.  The CEK fits the enc, and
\* the digest is the sender's: named by the caller, or by the header, which a sender
\* with this library may rely on.
WrapReadable(w) ==
    /\ w.mode = "wrapped" /\ last.mode = "wrapped"
    /\ isRsaOaepAlg(w.jwe.header.alg)
    /\ w.jwe.header.enc \in DOMAIN CekLength
    /\ w.jwe.ek.cek.size = CekLength[w.jwe.header.enc]
    /\ Candidates(store, w.jwe.header.kid, last.fault) = {w.to} /\ last.fault # "unwrap"
    /\ \/ last.hash = w.jwe.ek.hash
       \/ /\ last.hash = ZeroHash
          /\ w.by = "sender" \/ OaepHashFromAlg(w.jwe.header.alg) = w.jwe.ek.hash

(***************************************************************************)
(* What is encrypted the receiver gets back, plaintext and additional      *)
(* data: for every digest, with the nonce chosen by either end, with one   *)
(* key or several in the store, with header members this library does not  *)
(* know, and from senders that wrote RSA-OAEP over a key wrapped with      *)
(* SHA-256, given the digest (Encrypt and Decrypt of both kinds,           *)
(* AsymmetricDecryptionKeyStoreImpl.Get).  Oversized JWEs are not parsed.  *)
(***************************************************************************)
RoundTrip ==
    /\ wire # NoJwe /\ last.op = "decrypt"
    /\ wire.by # "damaged" /\ wire.m.size <= MaxCompactSize
    /\ wire.jwe.header.form = "ok" /\ ~wire.jwe.header.zip
    /\ DirectReadable(wire) \/ WrapReadable(wire)
    => last.out = "ok" /\ last.plaintext = wire.m
        /\ (wire.mode = "direct" => last.aad = wire.aad)

(***************************************************************************)
(* Nothing else gets through: whatever a decryptor accepts was encrypted   *)
(* as it stands, for that decryptor, and nothing of it was changed, header *)
(* members this library does not know included.  The one part that may     *)
(* change is the encrypted key of a direct JWE, which nobody reads         *)
(* (JweDirectDecryptorAeadImpl, JweRsaKeyEncryptionDecryptorImpl).         *)
(***************************************************************************)
AcceptedIsAuthentic ==
    \A mode \in {"direct", "wrapped"} : Accepted(mode) =>
        /\ wire.mode = mode /\ last.plaintext = wire.m
        /\ wire.jwe = [wire.sent EXCEPT !.ek = wire.jwe.ek]
        /\ mode = "wrapped" => wire.jwe.ek.cek = wire.sent.ek.cek

\* A CEK of another length than enc names never opens a JWE, although the AES it
\* selects would (encCekLength).
EncFitsCek ==
    Accepted("wrapped") => wire.jwe.ek.cek.size = CekLength[wire.jwe.header.enc]

(***************************************************************************)
(* A sender learns nothing from the unwrapping: had the JWE carried any    *)
(* other encrypted key, or had the token failed to unwrap it, Decrypt      *)
(* would have failed in the same way, unless one of the two is accepted    *)
(* (JweRsaKeyEncryptionDecryptorImpl.Decrypt).                             *)
(***************************************************************************)
UnwrapIsSilent ==
    last.op = "decrypt" /\ last.mode = "wrapped" /\ last.fault # "get" =>
        \A e \in EncryptedKeys, fault \in {"none", "unwrap"} :
            LET other == WrapDecrypt(store, [wire.jwe EXCEPT !.ek = e], last.hash, fault)
            IN  "ok" \in {other.out, last.out} \/ other.out = last.out

\* No JWE makes a decryptor panic: lengths are checked before AEAD.Open (Open,
\* JweRsaKeyEncryptionDecryptorImpl.Decrypt).
NeverPanics == last.out # "panic"

=============================================================================
