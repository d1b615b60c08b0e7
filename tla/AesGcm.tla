-------------------------------- MODULE AesGcm --------------------------------
(***************************************************************************)
(* AesGcmCryptor (aes_gcm_cryptor.go), the authenticated cipher that both  *)
(* kinds of GCM JWE are built on.  It keeps no state of its own, so it is  *)
(* a set of operators.                                                     *)
(*                                                                         *)
(* GCM is symbolic: a ciphertext is the key, the nonce and the plaintext   *)
(* it was made from, a tag also the additional data.  A cryptor is a       *)
(* record: kid, alg, ops, key, and token, TRUE if a token does the work,   *)
(* which may fail and which chooses the nonce when it is given none.       *)
(***************************************************************************)
EXTENDS Naturals

CONSTANTS
    MaxPlaintextSize,  \* the bound of Seal and Open
    MaxCompactSize,    \* largest plaintext whose compact JWE decryptors parse
    NoNonce,           \* nil
    WrongSize,         \* a nonce, or a tag, of the wrong length
    NoText, NoAad      \* nil results

ASSUME SizesAssumption ==
    /\ MaxPlaintextSize \in Nat /\ MaxCompactSize \in Nat
    /\ MaxCompactSize <= MaxPlaintextSize
    /\ NoNonce # WrongSize

Result(out, plaintext, aad) == [out |-> out, plaintext |-> plaintext, aad |-> aad]
Failure(why) == Result(why, NoText, NoAad)

\* The encrypted key of a JWE that has none.
NoEk == [id |-> "none", hash |-> "none", cek |-> [id |-> "none", size |-> 0]]

\* The values in both lists, and whether one list has all values of another
\* that must not be empty.
intersection(first, second) == first \intersect second
isSubset(set, subset) == subset # {} /\ subset \subseteq set

-----------------------------------------------------------------------------
(* cipher.AEAD. *)

AeadSeal(key, nonce, m, aad) ==
    [ct |-> [key |-> key, nonce |-> nonce, text |-> m],
     tag |-> [key |-> key, nonce |-> nonce, text |-> m, aad |-> aad]]

\* Open panics on a nonce of the wrong length; anything else that was not
\* sealed as it stands fails.
AeadOpen(key, nonce, ct, aad, tag) ==
    IF nonce = WrongSize THEN Failure("panic")
    ELSE IF [ct |-> ct, tag |-> tag] = AeadSeal(key, nonce, ct.text, aad)
         THEN Result("ok", ct.text, NoAad)
         ELSE Failure("authentication")

-----------------------------------------------------------------------------
(* AesGcmCryptor. *)

(***************************************************************************)
(* Seal.  Given no nonce, the cryptor must have a token, whose nonce is    *)
(* own and is returned at the end of the tag; the standard library panics  *)
(* instead, which sealAEAD turns into an error, like a token's failure or  *)
(* output of the wrong length (fault).                                     *)
(***************************************************************************)
Seal(c, operation, nonce, m, aad, own, fault) ==
    IF ~isSubset(intersection({"encrypt"}, c.ops), {operation}) THEN Failure("operations")
    ELSE IF m.size > MaxPlaintextSize THEN Failure("too_large")
    ELSE IF nonce = WrongSize THEN Failure("nonce")
    ELSE IF fault \/ (nonce = NoNonce /\ ~c.token) THEN Failure("seal")
    ELSE [out |-> "ok", appended |-> IF nonce = NoNonce THEN own ELSE NoNonce,
          sealed |-> AeadSeal(c.key, IF nonce = NoNonce THEN own ELSE nonce, m, aad)]

\* Mutant: the nonce goes to the AEAD unchecked.
OpenUnchecked(c, operation, nonce, ct, aad, tag) ==
    IF ~isSubset(intersection({"decrypt"}, c.ops), {operation}) THEN Failure("operations")
    ELSE AeadOpen(c.key, nonce, ct, aad, tag)

Open(c, operation, nonce, ct, aad, tag) ==
    IF ~isSubset(intersection({"decrypt"}, c.ops), {operation}) THEN Failure("operations")
    ELSE IF ct.text.size > MaxPlaintextSize THEN Failure("too_large")
    ELSE IF nonce = WrongSize THEN Failure("nonce")
    ELSE IF tag = WrongSize THEN Failure("tag")
    ELSE AeadOpen(c.key, nonce, ct, aad, tag)

=============================================================================
