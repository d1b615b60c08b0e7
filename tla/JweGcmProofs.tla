----------------------------- MODULE JweGcmProofs -----------------------------
(***************************************************************************)
(* Both decryptors of GCM JWEs, for every set of keys, plaintexts, nonces  *)
(* and content encryption keys, and for every damaged or foreign JWE.      *)
(***************************************************************************)
EXTENDS JweGcm, TLAPS

\* The key that seals a JWE made for w.to.
SealingKey(w) == IF w.mode = "direct" THEN w.to.key ELSE w.sent.ek.cek

\* What is known of a JWE as it was made; hsm: a token holds the recipient's keys.
MadeInv(w, hsm) ==
    /\ w = [by |-> w.by, mode |-> w.mode, to |-> w.to, m |-> w.m, aad |-> w.aad,
            jwe |-> w.jwe, sent |-> w.sent]
    /\ w.mode \in {"direct", "wrapped"}
    /\ w.m \in Plaintexts
    /\ w.sent.iv \in Nonces /\ w.sent.header \in Headers
    /\ w.sent = [header |-> w.sent.header, ek |-> w.sent.ek, iv |-> w.sent.iv,
                 ct |-> AeadSeal(SealingKey(w), w.sent.iv, w.m, w.sent.header).ct,
                 tag |-> AeadSeal(SealingKey(w), w.sent.iv, w.m, w.sent.header).tag]
    /\ w.mode = "direct" =>
        w.to \in Cryptors /\ w.sent.ek = NoEk /\ w.aad = w.sent.header.aad
    /\ w.mode = "wrapped" =>
        /\ w.to \in RsaKeys
        /\ \E cek \in Ceks, hash \in {"SHA1", "SHA256"} : w.sent.ek = Wrap(w.to, hash, cek)
        /\ IsRecipient(w.to) \/ hsm
        /\ w.by = "sender" => OaepHashFromAlg(w.sent.header.alg) = w.sent.ek.hash

\* What has been done to it on the way.
WireInv(w, hsm) ==
    /\ MadeInv(w, hsm)
    /\ \/ w.by \in {"sender", "foreign"} /\ w.jwe = w.sent
       \/ w.by = "damaged" /\ w.jwe \in Damages(w.sent)

\* The result of the last decryption is that of the JWE on the wire.
LastInv ==
    /\ last.op # "decrypt" => last.out # "panic"
    /\ last.op = "decrypt" =>
        /\ wire # NoJwe /\ last.fault \in Faults
        /\ \/ /\ last.mode = "direct"
              /\ LET r == DirectDecrypt(ring, wire.jwe)
                 IN  last.out = r.out /\ last.plaintext = r.plaintext /\ last.aad = r.aad
           \/ /\ last.mode = "wrapped"
              /\ LET r == WrapDecrypt(store, wire.jwe, last.hash, last.fault)
                 IN  last.out = r.out /\ last.plaintext = r.plaintext

GcmInv ==
    /\ \A kid \in DOMAIN ring : ring[kid] \in Cryptors
    /\ store = [keys |-> store.keys, hsm |-> store.hsm]
    /\ \A kid \in DOMAIN store.keys : store.keys[kid] \in RsaKeys
    /\ wire # NoJwe => WireInv(wire, store.hsm)
    /\ LastInv

-----------------------------------------------------------------------------
(* The operators. *)

\* AEAD.Open accepts only what was sealed as it stands, and panics only on a
\* nonce of the wrong length.
LEMMA OpenedIsSealed ==
    ASSUME NEW key, NEW nonce, NEW ct, NEW aad, NEW tag
    PROVE  LET r == AeadOpen(key, nonce, ct, aad, tag)
           IN  /\ r.out \in {"ok", "authentication", "panic"}
               /\ r.out = "panic" => nonce = WrongSize
               /\ r.out = "ok" =>
                    /\ r.plaintext = ct.text
                    /\ ct = AeadSeal(key, nonce, ct.text, aad).ct
                    /\ tag = AeadSeal(key, nonce, ct.text, aad).tag
  BY DEF AeadOpen, AeadSeal, Failure, Result

\* What the direct decryptor accepts was sealed as it stands with a key of the
\* ring, and it panics only if parsing does.
LEMMA DirectAccepts ==
    ASSUME NEW jwe, jwe.header.form # "panic"
    PROVE  LET r == DirectDecrypt(ring, jwe)
           IN  /\ r.out # "panic"
               /\ r.out = "ok" =>
                    \E kid \in DOMAIN ring :
                        LET sealed == AeadSeal(ring[kid].key, jwe.iv, jwe.ct.text, jwe.header)
                        IN  /\ r.plaintext = jwe.ct.text
                            /\ jwe.ct = sealed.ct /\ jwe.tag = sealed.tag
  <1> DEFINE h == jwe.header
             key == ring[h.kid]
             aead == AeadOpen(key.key, jwe.iv, jwe.ct, h, jwe.tag)
             opened == Open(key, "decrypt", jwe.iv, jwe.ct, h, jwe.tag)
             r == DirectDecrypt(ring, jwe)
  <1>1. opened.out # "panic" /\ (opened.out = "ok" => opened = aead)
    BY OpenedIsSealed DEF Open, Failure, Result
  <1>2. /\ r.out # "panic"
        /\ r.out = "ok" => /\ h.kid \in DOMAIN ring /\ opened.out = "ok"
                           /\ r.plaintext = opened.plaintext
    <2> HIDE DEF opened
    <2>1. DirectUnmarshal(jwe) # "panic"
      BY DEF DirectUnmarshal
    <2> QED
      BY <1>1, <2>1 DEF DirectDecrypt, Failure, Result, opened
  <1> QED
    BY <1>1, <1>2, OpenedIsSealed

\* The checks of the key encryption decryptor before it unwraps anything, and
\* the key and the digest that it then takes.
FoundKey(jwe, fault) == CHOOSE k \in Candidates(store, jwe.header.kid, fault) : TRUE
WrapHash(jwe, hash) == IF hash = ZeroHash THEN OaepHashFromAlg(jwe.header.alg) ELSE hash
WrapCek(jwe, hash, fault) ==
    Cek(store.hsm, FoundKey(jwe, fault), WrapHash(jwe, hash), jwe, fault)
Unwrapping(jwe, fault) ==
    /\ CompactUnmarshal(jwe) = "ok" /\ ~jwe.header.zip
    /\ jwe.header.enc \in DOMAIN CekLength
    /\ Candidates(store, jwe.header.kid, fault) # {}
    /\ isRsaOaepAlg(jwe.header.alg)
    /\ isRsaOaepAlg(KeyAlgorithm(store.hsm, FoundKey(jwe, fault)))

\* Decrypt refuses before the unwrapping, for a reason that has nothing to do
\* with the encrypted key, or goes on to open the ciphertext.
LEMMA WrapDecryptStages ==
    ASSUME NEW jwe, NEW hash, NEW fault
    PROVE  LET r == WrapDecrypt(store, jwe, hash, fault)
           IN  /\ Unwrapping(jwe, fault) => r = WrapOpen(WrapCek(jwe, hash, fault), jwe)
               /\ ~Unwrapping(jwe, fault) /\ jwe.header.form # "panic" =>
                        r.out \notin {"ok", "panic"}
  <1>1. CompactUnmarshal(jwe) # "ok" /\ jwe.header.form # "panic"
            => CompactUnmarshal(jwe) # "panic"
    BY DEF CompactUnmarshal
  <1> QED
    BY <1>1 DEF WrapDecrypt, Unwrapping, FoundKey, WrapHash, WrapCek, Failure, Result

\* Once a CEK is there, a JWE with parts of the right length either opens or is
\* not authentic.
LEMMA WrapOpenOutcomes ==
    ASSUME NEW cek, NEW jwe
    PROVE  LET r == WrapOpen(cek, jwe)
               sealed == AeadSeal(cek, jwe.iv, jwe.ct.text, jwe.header)
           IN  /\ r.out = IF jwe.iv = WrongSize THEN "nonce"
                          ELSE IF jwe.tag = WrongSize THEN "tag"
                          ELSE IF jwe.ct = sealed.ct /\ jwe.tag = sealed.tag
                               THEN "ok" ELSE "authentication"
               /\ r.out = "ok" => r.plaintext = jwe.ct.text
  BY DEF WrapOpen, AeadOpen, AeadSeal, AAD, Failure, Result

\* What the key encryption decryptor accepts was sealed as it stands with the CEK
\* in its encrypted key, which fits its enc, or with the substitute.
LEMMA WrapAccepts ==
    ASSUME NEW jwe, NEW hash, NEW fault, jwe.header.form # "panic"
    PROVE  LET r == WrapDecrypt(store, jwe, hash, fault)
           IN  /\ r.out # "panic"
               /\ r.out = "ok" =>
                    \E cek \in {jwe.ek.cek, Substitute} :
                        LET sealed == AeadSeal(cek, jwe.iv, jwe.ct.text, jwe.header)
                        IN  /\ jwe.header.enc \in DOMAIN CekLength
                            /\ \/ cek = Substitute
                               \/ cek.size = CekLength[jwe.header.enc]
                            /\ r.plaintext = jwe.ct.text
                            /\ jwe.ct = sealed.ct /\ jwe.tag = sealed.tag
  <1> DEFINE r == WrapDecrypt(store, jwe, hash, fault)
             cek == WrapCek(jwe, hash, fault)
  <1>1. CASE ~Unwrapping(jwe, fault)
    BY <1>1, WrapDecryptStages
  <1>2. CASE Unwrapping(jwe, fault)
    <2>1. r = WrapOpen(cek, jwe)
      BY <1>2, WrapDecryptStages
    <2>2. /\ jwe.header.enc \in DOMAIN CekLength
          /\ \/ cek = Substitute
             \/ cek = jwe.ek.cek /\ cek.size = CekLength[jwe.header.enc]
      BY <1>2 DEF Unwrapping, WrapCek, Cek
    <2> HIDE DEF cek
    <2> QED
      BY <2>1, <2>2, WrapOpenOutcomes
  <1> QED
    BY <1>1, <1>2

\* Somebody who does not know the key changes the tag, or leaves it alone.
LEMMA DamageShape ==
    ASSUME NEW s, NEW jwe, jwe = s \/ jwe \in Damages(s),
           s = [header |-> s.header, ek |-> s.ek, iv |-> s.iv, ct |-> s.ct, tag |-> s.tag],
           s.ct = [key |-> s.ct.key, nonce |-> s.ct.nonce, text |-> s.ct.text],
           s.header \in Headers, s.ek \in EncryptedKeys
    PROVE  /\ jwe = [header |-> jwe.header, ek |-> jwe.ek, iv |-> jwe.iv, ct |-> jwe.ct,
                     tag |-> jwe.tag]
           /\ \/ jwe.tag = s.tag
              \/ jwe.header = s.header /\ jwe.ek = s.ek /\ jwe.iv = s.iv /\ jwe.ct = s.ct
           /\ jwe.header.form = s.header.form
           /\ jwe.ek \in EncryptedKeys
  BY DEF Damages, Headers

-----------------------------------------------------------------------------
(* What the invariant says of the JWE on the wire. *)

\* A JWE on the wire has the form it was made with, and an encrypted key that
\* somebody wrapped, or none.
LEMMA WireShape ==
    ASSUME NEW w, NEW hsm, WireInv(w, hsm)
    PROVE  /\ \/ w.jwe.tag = w.sent.tag
              \/ /\ w.jwe.header = w.sent.header /\ w.jwe.ek = w.sent.ek
                 /\ w.jwe.iv = w.sent.iv /\ w.jwe.ct = w.sent.ct
           /\ w.jwe = [header |-> w.jwe.header, ek |-> w.jwe.ek, iv |-> w.jwe.iv,
                       ct |-> w.jwe.ct, tag |-> w.jwe.tag]
           /\ w.jwe.header.form \in {"ok", "malformed"}
           /\ w.jwe.ek.cek \in Ceks \/ w.jwe.ek = NoEk
  <1> DEFINE s == w.sent
  <1>1. s = [header |-> s.header, ek |-> s.ek, iv |-> s.iv, ct |-> s.ct, tag |-> s.tag]
    BY DEF WireInv, MadeInv
  <1>2. s.ct = [key |-> s.ct.key, nonce |-> s.ct.nonce, text |-> s.ct.text]
    BY DEF WireInv, MadeInv, AeadSeal
  <1>3. s.ek \in EncryptedKeys
    BY DEF WireInv, MadeInv, EncryptedKeys
  <1>4. s.header \in Headers /\ s.header.form \in {"ok", "malformed"}
    BY DEF WireInv, MadeInv, Headers
  <1>5. w.jwe = s \/ w.jwe \in Damages(s)
    BY DEF WireInv
  <1>6. /\ w.jwe = [header |-> w.jwe.header, ek |-> w.jwe.ek, iv |-> w.jwe.iv,
                    ct |-> w.jwe.ct, tag |-> w.jwe.tag]
        /\ \/ w.jwe.tag = s.tag
           \/ w.jwe.header = s.header /\ w.jwe.ek = s.ek /\ w.jwe.iv = s.iv /\ w.jwe.ct = s.ct
        /\ w.jwe.header.form = s.header.form
        /\ w.jwe.ek \in EncryptedKeys
    BY <1>1, <1>2, <1>3, <1>4, <1>5, DamageShape
  <1>7. w.jwe.ek.cek \in Ceks \/ w.jwe.ek = NoEk
    BY <1>6 DEF EncryptedKeys, Wrap
  <1> QED
    BY <1>4, <1>6, <1>7

\* A JWE that opens as it stands under some key has all but its encrypted key as
\* it was sent, and that key is the one it was sealed with.
LEMMA OpensAsSent ==
    ASSUME NEW w, NEW hsm, WireInv(w, hsm), NEW key,
           w.jwe.ct = AeadSeal(key, w.jwe.iv, w.jwe.ct.text, w.jwe.header).ct,
           w.jwe.tag = AeadSeal(key, w.jwe.iv, w.jwe.ct.text, w.jwe.header).tag
    PROVE  /\ key = SealingKey(w) /\ w.jwe.ct.text = w.m
           /\ w.jwe = [w.sent EXCEPT !.ek = w.jwe.ek]
  <1> DEFINE s == w.sent
  <1>1. /\ s.ct = AeadSeal(SealingKey(w), s.iv, w.m, s.header).ct
        /\ s.tag = AeadSeal(SealingKey(w), s.iv, w.m, s.header).tag
        /\ s = [header |-> s.header, ek |-> s.ek, iv |-> s.iv, ct |-> s.ct, tag |-> s.tag]
    BY DEF WireInv, MadeInv
  <1>0. /\ w.jwe = [header |-> w.jwe.header, ek |-> w.jwe.ek, iv |-> w.jwe.iv,
                    ct |-> w.jwe.ct, tag |-> w.jwe.tag]
        /\ \/ w.jwe.tag = s.tag
           \/ /\ w.jwe.header = s.header /\ w.jwe.ek = s.ek
              /\ w.jwe.iv = s.iv /\ w.jwe.ct = s.ct
    BY WireShape
  <1>2. CASE w.jwe.tag = s.tag
    BY <1>0, <1>1, <1>2 DEF AeadSeal
  <1>3. CASE /\ w.jwe.header = s.header /\ w.jwe.ek = s.ek
             /\ w.jwe.iv = s.iv /\ w.jwe.ct = s.ct
    BY <1>0, <1>1, <1>3 DEF AeadSeal
  <1> QED
    BY <1>0, <1>2, <1>3

\* A CEK seals a wrapped JWE, and a cryptor's key a direct one.
LEMMA SealingKeys ==
    ASSUME NEW w, NEW hsm, WireInv(w, hsm)
    PROVE  \/ w.mode = "wrapped" /\ SealingKey(w) \in Ceks
           \/ w.mode = "direct" /\ SealingKey(w) \notin Ceks \union {Substitute}
  <1>1. CASE w.mode = "wrapped"
    <2>1. PICK cek \in Ceks, hash \in {"SHA1", "SHA256"} : w.sent.ek = Wrap(w.to, hash, cek)
      BY <1>1 DEF WireInv, MadeInv
    <2> QED
      BY <1>1, <2>1 DEF SealingKey, Wrap
  <1>2. CASE w.mode = "direct"
    <2>1. w.to \in Cryptors
      BY <1>2 DEF WireInv, MadeInv
    <2> QED
      BY <1>2, <2>1, GcmAssumption DEF SealingKey
  <1> QED
    BY <1>1, <1>2 DEF WireInv, MadeInv

\* Keys do not meet: a cryptor's key, a CEK and the substitute are different, and
\* no CEK of a length that enc can name is the one of an empty encrypted key.
LEMMA AcceptedMode ==
    ASSUME GcmInv, last.op = "decrypt", last.out = "ok"
    PROVE  /\ wire.mode = last.mode /\ last.plaintext = wire.m
           /\ wire.jwe = [wire.sent EXCEPT !.ek = wire.jwe.ek]
           /\ last.mode = "wrapped" =>
                /\ wire.jwe.ek.cek = wire.sent.ek.cek
                /\ wire.jwe.ek.cek.size = CekLength[wire.jwe.header.enc]
  <1>1. WireInv(wire, store.hsm) /\ wire.jwe.header.form # "panic"
    BY WireShape DEF GcmInv, LastInv
  <1>2. CASE last.mode = "direct"
    <2>1. /\ DirectDecrypt(ring, wire.jwe).out = "ok"
          /\ last.plaintext = DirectDecrypt(ring, wire.jwe).plaintext
      BY <1>2 DEF GcmInv, LastInv
    <2>2. PICK kid \in DOMAIN ring :
            LET sealed == AeadSeal(ring[kid].key, wire.jwe.iv, wire.jwe.ct.text,
                                   wire.jwe.header)
            IN  /\ last.plaintext = wire.jwe.ct.text
                /\ wire.jwe.ct = sealed.ct /\ wire.jwe.tag = sealed.tag
      BY <1>1, <2>1, DirectAccepts
    <2>3. /\ ring[kid].key = SealingKey(wire) /\ wire.jwe.ct.text = wire.m
          /\ wire.jwe = [wire.sent EXCEPT !.ek = wire.jwe.ek]
      BY <1>1, <2>2, OpensAsSent
    <2>4. wire.mode = "direct"
      <3>1. ring[kid].key \notin Ceks
        BY GcmAssumption DEF GcmInv
      <3> QED
        BY <1>1, <2>3, <3>1, SealingKeys
    <2> QED
      BY <1>2, <2>2, <2>3, <2>4
  <1>3. CASE last.mode = "wrapped"
    <2>1. /\ WrapDecrypt(store, wire.jwe, last.hash, last.fault).out = "ok"
          /\ last.plaintext = WrapDecrypt(store, wire.jwe, last.hash, last.fault).plaintext
      BY <1>3 DEF GcmInv, LastInv
    <2>2. PICK cek \in {wire.jwe.ek.cek, Substitute} :
            LET sealed == AeadSeal(cek, wire.jwe.iv, wire.jwe.ct.text, wire.jwe.header)
            IN  /\ wire.jwe.header.enc \in DOMAIN CekLength
                /\ cek = Substitute \/ cek.size = CekLength[wire.jwe.header.enc]
                /\ last.plaintext = wire.jwe.ct.text
                /\ wire.jwe.ct = sealed.ct /\ wire.jwe.tag = sealed.tag
      BY <1>1, <2>1, WrapAccepts
    <2>3. /\ cek = SealingKey(wire) /\ wire.jwe.ct.text = wire.m
          /\ wire.jwe = [wire.sent EXCEPT !.ek = wire.jwe.ek]
      BY <1>1, <2>2, OpensAsSent
    <2>4. cek = wire.jwe.ek.cek /\ cek.size = CekLength[wire.jwe.header.enc]
      BY <1>1, <2>2, <2>3, SealingKeys, GcmAssumption
    <2>5. wire.jwe.ek.cek \in Ceks
      <3>1. CekLength[wire.jwe.header.enc] # 0
        BY <2>2 DEF CekLength
      <3>2. NoEk.cek.size = 0
        BY DEF NoEk
      <3> QED
        BY <1>1, <2>4, <3>1, <3>2, WireShape
    <2>6. wire.mode = "wrapped"
      BY <1>1, <2>3, <2>4, <2>5, SealingKeys
    <2> QED
      BY <1>3, <2>2, <2>3, <2>4, <2>6 DEF SealingKey
  <1> QED
    BY <1>2, <1>3 DEF GcmInv, LastInv

\* Had the JWE another encrypted key, or had the token failed to unwrap it, the
\* outcome would have been the same unless one of the two is accepted.
LEMMA SameOutcome ==
    ASSUME NEW jwe, NEW other, NEW hash, NEW f \in {"none", "unwrap"},
           NEW g \in {"none", "unwrap"},
           other.header = jwe.header, other.iv = jwe.iv, other.ct = jwe.ct,
           other.tag = jwe.tag
    PROVE  LET r == WrapDecrypt(store, jwe, hash, f)
               q == WrapDecrypt(store, other, hash, g)
           IN  "ok" \in {q.out, r.out} \/ q.out = r.out
  <1> DEFINE r == WrapDecrypt(store, jwe, hash, f)
             q == WrapDecrypt(store, other, hash, g)
  <1>1. Candidates(store, other.header.kid, g) = Candidates(store, jwe.header.kid, f)
    BY DEF Candidates, HsmGet
  <1>2. CompactUnmarshal(other) = CompactUnmarshal(jwe)
    BY DEF CompactUnmarshal
  <1>3. Unwrapping(other, g) <=> Unwrapping(jwe, f)
    BY <1>1, <1>2 DEF Unwrapping, FoundKey
  <1>4. CASE Unwrapping(jwe, f)
    <2> DEFINE c == WrapCek(jwe, hash, f)
               d == WrapCek(other, hash, g)
    <2>1. r = WrapOpen(c, jwe) /\ q = WrapOpen(d, other)
      BY <1>3, <1>4, WrapDecryptStages
    <2> HIDE DEF c, d
    <2> QED
      BY <2>1, WrapOpenOutcomes
  <1>5. CASE ~Unwrapping(jwe, f)
    BY <1>1, <1>2, <1>5 DEF WrapDecrypt, Unwrapping, FoundKey
  <1> QED
    BY <1>4, <1>5

\* A JWE as it was made opens with the key it was sealed with.
LEMMA SentOpens ==
    ASSUME NEW w, NEW hsm, WireInv(w, hsm), w.jwe = w.sent
    PROVE  /\ AeadOpen(SealingKey(w), w.jwe.iv, w.jwe.ct, w.jwe.header, w.jwe.tag)
                = Result("ok", w.m, NoAad)
           /\ w.jwe.iv # WrongSize /\ w.jwe.tag # WrongSize /\ w.jwe.ct.text = w.m
           /\ w.m.size \in Nat
  <1> DEFINE s == w.sent
  <1>1. /\ s.ct = AeadSeal(SealingKey(w), s.iv, w.m, s.header).ct
        /\ s.tag = AeadSeal(SealingKey(w), s.iv, w.m, s.header).tag
        /\ s.iv \in Nonces /\ s.header \in Headers /\ w.m \in Plaintexts
    BY DEF WireInv, MadeInv
  <1>2. SealingKey(w) \in ContentKeys
    <2>1. w.mode = "direct" => w.to \in Cryptors
      BY DEF WireInv, MadeInv
    <2> QED
      BY <2>1, SealingKeys DEF ContentKeys, SealingKey
  <1>3. s.tag \in Tags
    BY <1>1, <1>2 DEF AeadSeal, Tags
  <1>4. s.iv # WrongSize /\ s.tag # WrongSize
    BY <1>1, <1>3, GcmAssumption
  <1>5. s.ct.text = w.m
    BY <1>1 DEF AeadSeal
  <1>6. [ct |-> s.ct, tag |-> s.tag] = AeadSeal(SealingKey(w), s.iv, s.ct.text, s.header)
    BY <1>1, <1>5 DEF AeadSeal
  <1> QED
    BY <1>1, <1>4, <1>5, <1>6, GcmAssumption DEF AeadOpen

\* The round trip through the direct decryptor.
LEMMA DirectRoundTrip ==
    ASSUME GcmInv, wire # NoJwe, wire.jwe = wire.sent, last.op = "decrypt",
           wire.m.size <= MaxCompactSize, wire.jwe.header.form = "ok", ~wire.jwe.header.zip,
           DirectReadable(wire)
    PROVE  last.out = "ok" /\ last.plaintext = wire.m /\ last.aad = wire.aad
  <1> DEFINE jwe == wire.jwe
             key == ring[jwe.header.kid]
             opened == Open(key, "decrypt", jwe.iv, jwe.ct, jwe.header, jwe.tag)
             r == DirectDecrypt(ring, jwe)
  <1>1. WireInv(wire, store.hsm) /\ wire.mode = "direct" /\ last.mode = "direct"
    BY DEF GcmInv, DirectReadable
  <1>2. key = wire.to /\ SealingKey(wire) = key.key /\ "decrypt" \in key.ops
    BY <1>1 DEF DirectReadable, SealingKey
  <1>3. opened = Result("ok", wire.m, NoAad)
    <2>1. isSubset(intersection({"decrypt"}, key.ops), {"decrypt"})
      BY <1>2 DEF isSubset, intersection
    <2>2. ~(jwe.ct.text.size > MaxPlaintextSize)
      BY <1>1, SentOpens, SizesAssumption
    <2> QED
      BY <1>1, <1>2, <2>1, <2>2, SentOpens DEF Open
  <1>4. DirectUnmarshal(jwe) = "ok"
    BY <1>1, SentOpens, SizesAssumption DEF DirectUnmarshal
  <1>5. r = Result("ok", wire.m, jwe.header.aad)
    BY <1>3, <1>4, SizesAssumption DEF DirectDecrypt, DirectReadable, Result
  <1>6. wire.aad = jwe.header.aad
    BY <1>1 DEF WireInv, MadeInv
  <1> QED
    BY <1>1, <1>5, <1>6 DEF GcmInv, LastInv, Result

\* The round trip through the key encryption decryptor.
LEMMA WrapRoundTrip ==
    ASSUME GcmInv, wire # NoJwe, wire.jwe = wire.sent, last.op = "decrypt",
           wire.m.size <= MaxCompactSize, wire.jwe.header.form = "ok", ~wire.jwe.header.zip,
           WrapReadable(wire)
    PROVE  last.out = "ok" /\ last.plaintext = wire.m
  <1> DEFINE jwe == wire.jwe
             cek == WrapCek(jwe, last.hash, last.fault)
  <1>1. WireInv(wire, store.hsm) /\ wire.mode = "wrapped" /\ last.mode = "wrapped"
    BY DEF GcmInv, WrapReadable
  <1>2. PICK c \in Ceks, hash \in {"SHA1", "SHA256"} : jwe.ek = Wrap(wire.to, hash, c)
    BY <1>1 DEF WireInv, MadeInv
  <1>3. jwe.ek.id = wire.to.id /\ jwe.ek.hash = hash /\ jwe.ek.cek = SealingKey(wire)
    BY <1>1, <1>2 DEF Wrap, SealingKey
  <1>4. FoundKey(jwe, last.fault) = wire.to
    BY DEF FoundKey, WrapReadable
  <1>5. IsRecipient(wire.to) \/ store.hsm
    BY <1>1 DEF WireInv, MadeInv
  <1>6. Unwrapping(jwe, last.fault)
    <2>1. CompactUnmarshal(jwe) = "ok"
      BY <1>1, SentOpens, SizesAssumption
         DEF CompactUnmarshal, WrapReadable, isRsaOaepAlg, SupportedJweAlgs
    <2>2. isRsaOaepAlg(KeyAlgorithm(store.hsm, wire.to))
      BY <1>5 DEF KeyAlgorithm, IsRecipient, isRsaOaepAlg, OaepAlgs
    <2> QED
      BY <1>4, <2>1, <2>2 DEF Unwrapping, WrapReadable
  <1>7. WrapHash(jwe, last.hash) = hash
    <2>1. wire.by = "sender" => OaepHashFromAlg(jwe.header.alg) = jwe.ek.hash
      BY <1>1 DEF WireInv, MadeInv
    <2> QED
      BY <1>3, <2>1, GcmAssumption DEF WrapReadable, WrapHash
  <1>8. Unwraps(store.hsm, wire.to, hash, jwe.ek, last.fault)
    BY <1>3, <1>5
       DEF Unwraps, WrapReadable, HsmDecrypts, RsaDecrypts, IsRecipient, isSubset, intersection
  <1>9. cek = SealingKey(wire)
    BY <1>3, <1>4, <1>7, <1>8 DEF WrapCek, Cek, WrapReadable
  <1> HIDE DEF cek
  <1>10. WrapOpen(cek, jwe) = Result("ok", wire.m, AAD(jwe))
    <2>1. /\ AeadOpen(cek, jwe.iv, jwe.ct, AAD(jwe), jwe.tag) = Result("ok", wire.m, NoAad)
          /\ jwe.iv # WrongSize /\ jwe.tag # WrongSize
      BY <1>1, <1>9, SentOpens DEF AAD
    <2> QED
      BY <2>1 DEF WrapOpen, Result
  <1> QED
    BY <1>1, <1>6, <1>10, WrapDecryptStages DEF GcmInv, LastInv, Result, cek

\* The five properties follow from the invariant.
LEMMA GcmInvImplies ==
    ASSUME GcmInv
    PROVE  RoundTrip /\ AcceptedIsAuthentic /\ EncFitsCek /\ UnwrapIsSilent /\ NeverPanics
  <1>1. RoundTrip
    <2> SUFFICES ASSUME wire # NoJwe, last.op = "decrypt", wire.by # "damaged",
                        wire.m.size <= MaxCompactSize, wire.jwe.header.form = "ok",
                        ~wire.jwe.header.zip, DirectReadable(wire) \/ WrapReadable(wire)
                 PROVE  /\ last.out = "ok" /\ last.plaintext = wire.m
                        /\ wire.mode = "direct" => last.aad = wire.aad
      BY DEF RoundTrip
    <2>1. wire.jwe = wire.sent
      BY DEF GcmInv, WireInv
    <2>2. WrapReadable(wire) => wire.mode # "direct"
      BY DEF WrapReadable
    <2> QED
      BY <2>1, <2>2, DirectRoundTrip, WrapRoundTrip
  <1>2. AcceptedIsAuthentic
    BY AcceptedMode DEF AcceptedIsAuthentic, Accepted
  <1>3. EncFitsCek
    BY AcceptedMode DEF EncFitsCek, Accepted
  <1>4. UnwrapIsSilent
    <2> SUFFICES ASSUME last.op = "decrypt", last.mode = "wrapped", last.fault # "get",
                        NEW e \in EncryptedKeys, NEW fault \in {"none", "unwrap"}
                 PROVE  LET other == WrapDecrypt(store, [wire.jwe EXCEPT !.ek = e],
                                                 last.hash, fault)
                        IN  "ok" \in {other.out, last.out} \/ other.out = last.out
      BY DEF UnwrapIsSilent
    <2> DEFINE o == [wire.jwe EXCEPT !.ek = e]
    <2>1. last.fault \in {"none", "unwrap"}
          /\ last.out = WrapDecrypt(store, wire.jwe, last.hash, last.fault).out
      BY DEF GcmInv, LastInv, Faults
    <2>2. /\ o.header = wire.jwe.header /\ o.iv = wire.jwe.iv /\ o.ct = wire.jwe.ct
          /\ o.tag = wire.jwe.tag
      BY WireShape DEF GcmInv, LastInv
    <2> HIDE DEF o
    <2>3. LET q == WrapDecrypt(store, o, last.hash, fault)
              r == WrapDecrypt(store, wire.jwe, last.hash, last.fault)
          IN  "ok" \in {q.out, r.out} \/ q.out = r.out
      BY <2>1, <2>2, SameOutcome
    <2> QED
      BY <2>1, <2>3 DEF o
  <1>5. NeverPanics
    <2>1. CASE last.op = "decrypt"
      <3>1. wire.jwe.header.form # "panic"
        BY <2>1, WireShape DEF GcmInv, LastInv
      <3> QED
        BY <2>1, <3>1, DirectAccepts, WrapAccepts DEF GcmInv, LastInv, NeverPanics
    <2> QED
      BY <2>1 DEF GcmInv, LastInv, NeverPanics
  <1> QED
    BY <1>1, <1>2, <1>3, <1>4, <1>5

-----------------------------------------------------------------------------
(* The invariant holds. *)

\* NewJweDirectDecryptorAeadImpl keeps only keys that it was given.
LEMMA RingOfTwo ==
    ASSUME NEW c \in Cryptors, NEW d \in Cryptors, NEW kid \in DOMAIN KeyRing(<<c, d>>)
    PROVE  KeyRing(<<c, d>>)[kid] \in Cryptors
  <1> DEFINE list == <<c, d>>
             Last(n) == list[n].kid = kid
                            /\ \A l \in DOMAIN list : list[l].kid = kid => l <= n
  <1>1. DOMAIN list = {1, 2} /\ list[1] = c /\ list[2] = d
    OBVIOUS
  <1> HIDE DEF list
  <1>2. \E n \in {1, 2} : list[n].kid = kid
    BY <1>1 DEF KeyRing, list
  <1>3. \E n \in DOMAIN list : Last(n)
    <2>1. CASE list[2].kid = kid
      BY <1>1, <2>1
    <2>2. CASE list[2].kid # kid
      BY <1>1, <1>2, <2>2
    <2> QED
      BY <2>1, <2>2
  <1>4. (CHOOSE n \in DOMAIN list : Last(n)) \in {1, 2}
    BY <1>1, <1>3
  <1>5. KeyRing(list)[kid] = list[CHOOSE n \in DOMAIN list : Last(n)]
    BY <1>1, <1>2 DEF KeyRing
  <1> QED
    BY <1>1, <1>4, <1>5 DEF list

\* At first nothing is on its way.
LEMMA GcmInit == Init => GcmInv
  <1> SUFFICES ASSUME Init PROVE GcmInv
    OBVIOUS
  <1>1. PICK k \in RsaKeys, hsm \in BOOLEAN : store = [keys |-> ByKid({k}), hsm |-> hsm]
    BY DEF Init
  <1>2. PICK c \in Cryptors, d \in Cryptors : ring = KeyRing(<<c, d>>)
    BY DEF Init
  <1>3. \A kid \in DOMAIN ring : ring[kid] \in Cryptors
    BY <1>2, RingOfTwo
  <1>4. \A kid \in DOMAIN store.keys : store.keys[kid] \in RsaKeys
    <2>1. store.keys = ByKid({k})
      BY <1>1
    <2>2. DOMAIN ByKid({k}) = {k.kid} /\ ByKid({k})[k.kid] = k
      BY DEF ByKid
    <2> QED
      BY <2>1, <2>2
  <1>5. LastInv
    BY DEF Init, Idle, LastInv
  <1> QED
    BY <1>1, <1>3, <1>4, <1>5 DEF Init, GcmInv

\* Each way to make a JWE yields one of which MadeInv holds.
LEMMA DirectIsMade ==
    ASSUME NEW c \in Cryptors, NEW h \in Headers, NEW m \in Plaintexts, NEW iv \in Nonces,
           NEW hsm, NEW by \in {"sender", "foreign"}, NEW jwe,
           jwe = [header |-> h, ek |-> NoEk, iv |-> iv,
                  ct |-> AeadSeal(c.key, iv, m, h).ct, tag |-> AeadSeal(c.key, iv, m, h).tag]
    PROVE  WireInv(Sent(by, "direct", c, m, h.aad, jwe), hsm)
  BY DEF WireInv, MadeInv, SealingKey, Sent

\* And for key encryption, whichever of its JWKs the sender took.
LEMMA WrappedIsMade ==
    ASSUME NEW k \in RsaKeys, NEW to, to.id = k.id, NEW h \in Headers, NEW m \in Plaintexts,
           NEW iv \in Nonces, NEW cek \in Ceks, NEW hash \in {"SHA1", "SHA256"}, NEW hsm,
           IsRecipient(k) \/ hsm,
           NEW by \in {"sender", "foreign"},
           by = "sender" => OaepHashFromAlg(h.alg) = hash
    PROVE  WireInv(Sent(by, "wrapped", k, m, NoAad, WrappedJwe(to, hash, h, m, cek, iv)), hsm)
  <1> DEFINE jwe == WrappedJwe(to, hash, h, m, cek, iv)
             w == Sent(by, "wrapped", k, m, NoAad, jwe)
  <1>1. jwe = [header |-> h, ek |-> Wrap(k, hash, cek), iv |-> iv,
               ct |-> AeadSeal(cek, iv, m, h).ct, tag |-> AeadSeal(cek, iv, m, h).tag]
    BY DEF WrappedJwe, Wrap
  <1>2. Wrap(k, hash, cek).cek = cek /\ Wrap(k, hash, cek).hash = hash
    BY DEF Wrap
  <1> HIDE DEF jwe
  <1>3. w = [by |-> by, mode |-> "wrapped", to |-> k, m |-> m, aad |-> NoAad, jwe |-> jwe,
             sent |-> jwe]
    BY DEF Sent
  <1> HIDE DEF w
  <1>4. SealingKey(w) = cek
    BY <1>1, <1>2, <1>3 DEF SealingKey
  <1>5. MadeInv(w, hsm)
    BY <1>1, <1>2, <1>3, <1>4 DEF MadeInv
  <1> QED
    BY <1>3, <1>5 DEF WireInv, w, jwe

\* The headers that senders and others write for direct encryption.
LEMMA DirectHeaders ==
    ASSUME NEW c \in Cryptors
    PROVE  /\ \A aad \in Aads : DirectHeader(c.kid, gcmAlgToEnc(c.alg), aad) \in Headers
           /\ ForeignDirectHeaders(c) \subseteq Headers
  <1>1. gcmAlgToEnc(c.alg) \in Encs /\ "other" \in Encs
    BY DEF gcmAlgToEnc, GcmAlgs, Encs
  <1>2. c.kid \in Kids /\ NoKid \in Kids
    BY DEF Kids
  <1>3. {"dir", "RSA-OAEP"} \subseteq Algs
    BY DEF Algs, SupportedJweAlgs, OaepAlgs
  <1>4. \A aad \in Aads : DirectHeader(c.kid, gcmAlgToEnc(c.alg), aad) \in Headers
    BY <1>1, <1>2, <1>3 DEF DirectHeader, Headers
  <1>5. ForeignDirectHeaders(c) \subseteq Headers
    BY <1>1, <1>2, <1>3 DEF ForeignDirectHeaders, DirectHeader, Headers
  <1> QED
    BY <1>4, <1>5

\* Those of key encryption.
LEMMA WrapHeaders ==
    ASSUME NEW k \in RsaKeys
    PROVE  /\ \A to, hash : to.kid \in {k.kid, k.id} =>
                makeJweProtectedHeader(to, hash, "A256GCM") \in Headers
           /\ ForeignHeaders(k) \subseteq Headers
  <1>1. {"A256GCM", "A128GCM", "A256CBC", "other"} \subseteq Encs
    BY DEF GcmAlgs, Encs
  <1>2. k.kid \in Kids /\ k.id \in Kids
    BY DEF Kids
  <1>3. /\ {"dir", "A256GCM", "RSA-OAEP", "RSA-OAEP-256", "other"} \subseteq Algs
        /\ \A hash : OaepAlgFromHash(hash) \in Algs
    BY DEF OaepAlgFromHash, Algs, SupportedJweAlgs, OaepAlgs
  <1>4. \A to, hash : to.kid \in {k.kid, k.id} =>
            makeJweProtectedHeader(to, hash, "A256GCM") \in Headers
    BY <1>1, <1>2, <1>3 DEF makeJweProtectedHeader, Headers
  <1>5. ForeignHeaders(k) \subseteq Headers
    <2> DEFINE h == makeJweProtectedHeader(k, "SHA1", "A256GCM")
    <2>1. h = [form |-> "ok", alg |-> "RSA-OAEP", kid |-> k.kid, enc |-> "A256GCM",
               zip |-> FALSE, extra |-> FALSE]
      BY DEF makeJweProtectedHeader, OaepAlgFromHash
    <2> SUFFICES ASSUME NEW g \in ForeignHeaders(k)
                 PROVE  g \in [form : {"ok", "malformed"}, alg : Algs, kid : Kids, enc : Encs,
                               zip : BOOLEAN, extra : BOOLEAN]
      BY DEF Headers
    <2>2. g \in {h, [h EXCEPT !.extra = TRUE], [h EXCEPT !.enc = "A128GCM"],
                 [h EXCEPT !.enc = "A256CBC"], [h EXCEPT !.enc = "other"],
                 [h EXCEPT !.alg = "dir"], [h EXCEPT !.alg = "A256GCM"],
                 [h EXCEPT !.alg = "other"], [h EXCEPT !.zip = TRUE],
                 [h EXCEPT !.form = "malformed"]}
      BY DEF ForeignHeaders
    <2> DEFINE R == [form : {"ok", "malformed"}, alg : Algs, kid : Kids, enc : Encs,
                     zip : BOOLEAN, extra : BOOLEAN]
    <2> HIDE DEF h
    <2>3. h \in R
      BY <1>1, <1>2, <1>3, <2>1
    <2>4. /\ [h EXCEPT !.extra = TRUE] \in R /\ [h EXCEPT !.zip = TRUE] \in R
          /\ [h EXCEPT !.form = "malformed"] \in R
      BY <2>3
    <2>5. \A enc \in Encs : [h EXCEPT !.enc = enc] \in R
      BY <2>3
    <2>6. \A alg \in Algs : [h EXCEPT !.alg = alg] \in R
      BY <2>3
    <2> QED
      BY <1>1, <1>3, <2>2, <2>3, <2>4, <2>5, <2>6
  <1> QED
    BY <1>4, <1>5

\* An operation that sends a JWE, or fails to, with the rest as it was.
LEMMA SendKeeps ==
    ASSUME GcmInv, UNCHANGED <<ring, store>>, wire' = NoJwe \/ WireInv(wire', store.hsm),
           last'.op # "decrypt", last'.out # "panic"
    PROVE  GcmInv'
  BY DEF GcmInv, LastInv

\* JweDirectEncryptorAead.Encrypt puts the nonce that was used into the JWE, and
\* nothing on the wire if it fails.
LEMMA SendDirectKeeps ==
    ASSUME GcmInv, NEW c \in Cryptors, NEW m \in Plaintexts, NEW n \in Nonces,
           NEW aad \in Aads, NEW ext \in BOOLEAN, NEW rng \in BOOLEAN, NEW fault \in BOOLEAN,
           SendDirect(c, ext, m, aad, n, rng, fault)
    PROVE  GcmInv'
  <1>1. PICK own \in Nonces :
            Encrypted("direct", c, m, aad,
                DirectEncrypt([key |-> c, externalIV |-> ext], m, aad, n, rng, own, fault))
    BY DEF SendDirect
  <1> DEFINE e == [key |-> c, externalIV |-> ext]
             r == DirectEncrypt(e, m, aad, n, rng, own, fault)
             h == DirectHeader(c.kid, gcmAlgToEnc(c.alg), aad)
             asked == IF ext THEN NoNonce ELSE n
             iv == IF ext THEN own ELSE n
             sealed == Seal(c, "encrypt", asked, m, h, own, fault)
  <1>2. asked = NoNonce <=> ext
    BY GcmAssumption
  <1>3. /\ sealed.out # "panic"
        /\ sealed.out = "ok" => /\ sealed.sealed = AeadSeal(c.key, iv, m, h)
                                /\ ext => sealed.appended = own
    BY <1>2 DEF Seal, Failure, Result
  <1>4. r.out # "panic" /\ (r.out = "ok" =>
            r.jwe = [header |-> h, ek |-> NoEk, iv |-> iv,
                     ct |-> AeadSeal(c.key, iv, m, h).ct,
                     tag |-> AeadSeal(c.key, iv, m, h).tag])
    <2>1. e.key = c /\ e.externalIV = ext
      OBVIOUS
    <2>2. DirectIV(e, asked, sealed) = IF ext THEN sealed.appended ELSE n
      BY <2>1 DEF DirectIV
    <2> HIDE DEF e, sealed, h, asked
    <2>3. r = IF ~ext /\ ~rng THEN Failure("rng")
              ELSE IF sealed.out # "ok" THEN sealed
              ELSE IF ext /\ ~rng THEN Failure("rng")
              ELSE IF ext /\ sealed.appended = NoNonce THEN Failure("tag")
              ELSE [out |-> "ok",
                    jwe |-> [header |-> h, ek |-> NoEk, iv |-> DirectIV(e, asked, sealed),
                             ct |-> sealed.sealed.ct, tag |-> sealed.sealed.tag]]
      BY <2>1 DEF DirectEncrypt, sealed, h, asked
    <2> HIDE DEF r
    <2> QED
      BY <1>3, <2>2, <2>3 DEF Failure, Result
  <1>5. h \in Headers /\ iv \in Nonces /\ h.aad = aad
    <2>1. h.aad = aad
      BY DEF DirectHeader
    <2>2. h \in Headers
      BY DirectHeaders
    <2> QED
      BY <2>1, <2>2
  <1> HIDE DEF r, h
  <1>6. r.out = "ok" => WireInv(Sent("sender", "direct", c, m, aad, r.jwe), store.hsm)
    BY <1>4, <1>5, DirectIsMade
  <1>7. /\ wire' = IF r.out = "ok" THEN Sent("sender", "direct", c, m, aad, r.jwe) ELSE NoJwe
        /\ last' = [op |-> "encrypt", out |-> r.out]
        /\ UNCHANGED <<ring, store>>
    BY <1>1 DEF Encrypted, r
  <1> QED
    BY <1>4, <1>6, <1>7, SendKeeps

\* JweRsaKeyEncryptionEncryptorImpl.Encrypt names the digest it wraps with.
LEMMA SendWrappedKeeps ==
    ASSUME GcmInv, NEW k \in RsaKeys, NEW m \in Plaintexts, NEW cek \in Ceks, NEW n \in Nonces,
           NEW to \in Recipients(k), NEW hash \in Hashes, NEW rng \in BOOLEAN,
           SendWrapped(k, to, m, hash, cek, n, rng)
    PROVE  GcmInv'
  <1> DEFINE r == WrapEncrypt(to, m, hash, cek, n, rng)
             h == makeJweProtectedHeader(to, hash, "A256GCM")
             w == Sent("sender", "wrapped", k, m, NoAad, r.jwe)
  <1>1. /\ IsRecipient(to)
        /\ wire' = IF r.out = "ok" THEN w ELSE NoJwe
        /\ last' = [op |-> "encrypt", out |-> r.out]
        /\ UNCHANGED <<ring, store>>
    BY DEF SendWrapped, Encrypted
  <1>2. r.out # "panic" /\ (r.out = "ok" =>
            hash \in {"SHA1", "SHA256"} /\ r.jwe = WrappedJwe(to, hash, h, m, cek, n))
    <2> DEFINE cryptor == [kid |-> "", alg |-> "A256GCM", ops |-> {"encrypt"}, key |-> cek,
                           token |-> FALSE]
               sealed == Seal(cryptor, "encrypt", n, m, h, NoNonce, FALSE)
    <2>1. sealed.out # "panic"
      BY DEF Seal, Failure, Result
    <2> HIDE DEF sealed
    <2> QED
      BY <2>1 DEF WrapEncrypt, Failure, Result, sealed
  <1>3. to.id = k.id /\ to.kid \in {k.kid, k.id} /\ (IsRecipient(k) \/ store.hsm)
    <2>1. k = [rsa |-> k.rsa, kid |-> k.kid, alg |-> k.alg, id |-> k.id, ops |-> k.ops]
      BY GcmAssumption
    <2>2. \/ to = k
          \/ store.hsm /\ to = HsmEncryptorJwk(k)
          \/ ~store.hsm /\ to = RsaEncryptorJwk(k)
      BY DEF Recipients
    <2>3. /\ HsmEncryptorJwk(k).id = k.id /\ HsmEncryptorJwk(k).kid = k.id
          /\ RsaEncryptorJwk(k).id = k.id /\ RsaEncryptorJwk(k).kid = k.id
          /\ RsaEncryptorJwk(k).ops = k.ops /\ RsaEncryptorJwk(k).rsa = k.rsa
          /\ RsaEncryptorJwk(k).alg = k.alg
      BY <2>1 DEF HsmEncryptorJwk, RsaEncryptorJwk
    <2> QED
      BY <1>1, <2>2, <2>3 DEF IsRecipient
  <1>4. h \in Headers
    BY <1>3, WrapHeaders
  <1>5. hash \in {"SHA1", "SHA256"} => OaepHashFromAlg(h.alg) = hash
    BY DEF makeJweProtectedHeader, OaepAlgFromHash, OaepHashFromAlg
  <1> HIDE DEF r, h
  <1>6. r.out = "ok" => WireInv(w, store.hsm)
    BY <1>2, <1>3, <1>4, <1>5, WrappedIsMade
  <1> QED
    BY <1>1, <1>2, <1>6, SendKeeps

\* Others seal what they send, too.
LEMMA ForeignKeeps ==
    ASSUME GcmInv, NEW m \in Plaintexts, NEW n \in Nonces,
           \/ \E c \in Cryptors : \E h \in ForeignDirectHeaders(c) : ForeignDirect(c, h, m, n)
           \/ \E k \in RsaKeys, cek \in Ceks :
                \E h \in ForeignHeaders(k), hash \in {"SHA1", "SHA256"} :
                    ForeignWrapped(k, h, hash, m, cek, n)
    PROVE  GcmInv'
  <1>1. ASSUME NEW c \in Cryptors, NEW h \in ForeignDirectHeaders(c), ForeignDirect(c, h, m, n)
        PROVE  GcmInv'
    <2>1. h \in Headers
      BY DirectHeaders
    <2>2. WireInv(wire', store.hsm)
      BY <1>1, <2>1, DirectIsMade DEF ForeignDirect
    <2> QED
      BY <1>1, <2>2, SendKeeps DEF ForeignDirect, Idle
  <1>2. ASSUME NEW k \in RsaKeys, NEW cek \in Ceks, NEW h \in ForeignHeaders(k),
               NEW hash \in {"SHA1", "SHA256"}, ForeignWrapped(k, h, hash, m, cek, n)
        PROVE  GcmInv'
    <2>1. h \in Headers
      BY WrapHeaders
    <2>2. WireInv(wire', store.hsm)
      BY <1>2, <2>1, WrappedIsMade DEF ForeignWrapped
    <2> QED
      BY <1>2, <2>2, SendKeeps DEF ForeignWrapped, Idle
  <1> QED
    BY <1>1, <1>2

\* Every step keeps the invariant.
LEMMA GcmStep == GcmInv /\ [Next]_vars => GcmInv'
  <1> SUFFICES ASSUME GcmInv, [Next]_vars PROVE GcmInv'
    OBVIOUS
  <1>1. ASSUME NEW k \in RsaKeys, AddKey(k) PROVE GcmInv'
    <2>1. /\ store' = [keys |-> store'.keys, hsm |-> store.hsm]
          /\ store'.keys = [id \in DOMAIN store.keys \union {k.kid} |->
                                IF id = k.kid THEN k ELSE store.keys[id]]
      BY <1>1 DEF AddKey, GcmInv
    <2>2. store'.hsm = store.hsm
      BY <2>1
    <2>3. \A kid \in DOMAIN store'.keys : store'.keys[kid] \in RsaKeys
      BY <2>1 DEF GcmInv
    <2>4. LastInv'
      BY <1>1 DEF AddKey, Idle, LastInv
    <2> QED
      BY <1>1, <2>1, <2>2, <2>3, <2>4 DEF AddKey, GcmInv
  <1>2. CASE Damage
    <2>1. PICK jwe \in Damages(wire.jwe) \ {wire.jwe} :
            wire' = [wire EXCEPT !.jwe = jwe, !.by = "damaged"]
      BY <1>2 DEF Damage
    <2>2. WireInv(wire, store.hsm) /\ wire.jwe = wire.sent
      BY <1>2 DEF Damage, GcmInv, WireInv
    <2>3. wire' = [by |-> "damaged", mode |-> wire.mode, to |-> wire.to, m |-> wire.m,
                   aad |-> wire.aad, jwe |-> jwe, sent |-> wire.sent]
      BY <2>1, <2>2 DEF WireInv, MadeInv
    <2>4. WireInv(wire', store.hsm)
      BY <2>1, <2>2, <2>3 DEF WireInv, MadeInv, SealingKey
    <2> QED
      BY <1>2, <2>4, SendKeeps DEF Damage, Idle
  <1>3. CASE Drop
    BY <1>3, SendKeeps DEF Drop, Idle
  <1>4. CASE DecryptDirect
    BY <1>4 DEF DecryptDirect, Decrypted, GcmInv, LastInv, Faults
  <1>5. ASSUME NEW hash, NEW fault \in Faults, DecryptWrapped(hash, fault) PROVE GcmInv'
    BY <1>5 DEF DecryptWrapped, Decrypted, GcmInv, LastInv
  <1>6. CASE UNCHANGED vars
    BY <1>6 DEF vars, GcmInv, LastInv
  <1> QED
    BY <1>1, <1>2, <1>3, <1>4, <1>5, <1>6, SendDirectKeeps, SendWrappedKeeps, ForeignKeeps
       DEF Next

\* The JWE on the wire is what was made, or differs from it as Damages says, and
\* the last result is that of the decryptor on it (GcmInv).
THEOREM GcmInvariant == Spec => []GcmInv
  BY GcmInit, GcmStep, PTL DEF Spec

\* What is encrypted the receiver gets back, plaintext and additional data, through
\* either decryptor (RoundTrip).
THEOREM RoundTripTheorem == Spec => []RoundTrip
  BY GcmInvariant, GcmInvImplies, PTL

\* Whatever a decryptor accepts was encrypted as it stands for that decryptor
\* (AcceptedIsAuthentic).
THEOREM AcceptedIsAuthenticTheorem == Spec => []AcceptedIsAuthentic
  BY GcmInvariant, GcmInvImplies, PTL

\* A CEK of another length than enc names never opens a JWE (EncFitsCek).
THEOREM EncFitsCekTheorem == Spec => []EncFitsCek
  BY GcmInvariant, GcmInvImplies, PTL

\* A sender learns nothing from the unwrapping of its encrypted key
\* (UnwrapIsSilent).
THEOREM UnwrapIsSilentTheorem == Spec => []UnwrapIsSilent
  BY GcmInvariant, GcmInvImplies, PTL

\* No JWE makes a decryptor panic (NeverPanics).
THEOREM NeverPanicsTheorem == Spec => []NeverPanics
  BY GcmInvariant, GcmInvImplies, PTL

=============================================================================
