---------------------------- MODULE JweDirectAead ----------------------------
(***************************************************************************)
(* Direct encryption with AES-GCM: JweDirectEncryptorAead and              *)
(* JweDirectDecryptorAeadImpl.  Both are functions of their arguments and  *)
(* of the random source; JweGcm runs them.                                 *)
(*                                                                         *)
(* A JWE is a record: header, encrypted key, IV, ciphertext and tag.  The  *)
(* header is the additional data, as received; extra stands for members    *)
(* this library does not know.                                             *)
(***************************************************************************)
EXTENDS AesGcm, Sequences

CONSTANT NoKid

GcmAlgs == {"A128GCM", "A192GCM", "A256GCM"}

\* gcmAlgToEncMap; an alg that is not in the map yields the empty enc.
gcmAlgToEnc(alg) == IF alg \in GcmAlgs THEN alg ELSE ""

DirectHeader(kid, enc, aad) ==
    [form |-> "ok", alg |-> "dir", kid |-> kid, enc |-> enc, zip |-> FALSE, aad |-> aad,
     extra |-> FALSE]

\* The IV of the JWE; with externalIV it is cut off the end of the tag.
DirectIV(e, asked, sealed) == IF e.externalIV THEN sealed.appended ELSE asked

(***************************************************************************)
(* Encrypt.  e is the encryptor: its cryptor and externalIV.  rng: the     *)
(* random source works.  With externalIV a nonce is still generated after  *)
(* Seal, for its length, and a tag that is too short to end in one is      *)
(* refused.                                                                *)
(***************************************************************************)
DirectEncrypt(e, m, aad, nonce, rng, own, fault) ==
    LET header == DirectHeader(e.key.kid, gcmAlgToEnc(e.key.alg), aad)
        asked == IF e.externalIV THEN NoNonce ELSE nonce
        sealed == Seal(e.key, "encrypt", asked, m, header, own, fault)
    IN  IF ~e.externalIV /\ ~rng THEN Failure("rng")
        ELSE IF sealed.out # "ok" THEN sealed
        ELSE IF e.externalIV /\ ~rng THEN Failure("rng")
        ELSE IF e.externalIV /\ sealed.appended = NoNonce THEN Failure("tag")
        ELSE [out |-> "ok",
              jwe |-> [header |-> header, ek |-> NoEk, iv |-> DirectIV(e, asked, sealed),
                       ct |-> sealed.sealed.ct, tag |-> sealed.sealed.tag]]

\* NewJweDirectDecryptorAeadImpl: of two keys with one kid the later one stays.
KeyRing(list) ==
    [k \in {list[n].kid : n \in DOMAIN list} |->
        list[CHOOSE n \in DOMAIN list : list[n].kid = k
                /\ \A l \in DOMAIN list : list[l].kid = k => l <= n]]

\* Jwe.Unmarshal, with the size bound that Decrypt tests before it.
DirectUnmarshal(jwe) ==
    IF jwe.ct.text.size > MaxCompactSize THEN "too_large" ELSE jwe.header.form

\* Decrypt, check by check in the code's order.
DirectDecrypt(ring, jwe) ==
    LET h == jwe.header
        key == ring[h.kid]
        opened == Open(key, "decrypt", jwe.iv, jwe.ct, h, jwe.tag)
    IN  IF DirectUnmarshal(jwe) # "ok" THEN Failure(DirectUnmarshal(jwe))
        ELSE IF h.zip THEN Failure("zip")
        ELSE IF h.kid = NoKid THEN Failure("no_kid")
        ELSE IF h.kid \notin DOMAIN ring THEN Failure("unknown_key")
        ELSE IF key.alg \notin GcmAlgs THEN Failure("encryption")
        ELSE IF h.alg # "dir" \/ h.enc # gcmAlgToEnc(key.alg) THEN Failure("algorithm")
        ELSE IF opened.out # "ok" THEN opened
        ELSE Result("ok", opened.plaintext, h.aad)

=============================================================================
