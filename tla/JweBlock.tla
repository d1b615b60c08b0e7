------------------------------- MODULE JweBlock -------------------------------
(***************************************************************************)
(* Direct encryption with AES-CBC and HMAC: JweDirectEncryptorBlock,       *)
(* JweDirectDecryptorBlock, AesCbcCryptor and JweHmacVerifierImpl.         *)
(*                                                                         *)
(* A plaintext is a sequence of bytes; blocks are BlockSize bytes.  CBC is *)
(* symbolic: a ciphertext block is the IV its stream started from and the  *)
(* plaintext blocks encrypted since, the last one being its own.  The      *)
(* cipher.BlockMode inside a cryptor holds the last block it processed     *)
(* (its chaining value), across calls: nothing resets it.                  *)
(*                                                                         *)
(* A JWE carries the octets of its IV and of its ciphertext end to end and *)
(* the place of the boundary between them, which is where the '.' stands.  *)
(*                                                                         *)
(* An authentication tag is what was authenticated; only the holder of the *)
(* HMAC key makes tags, so a JWE altered on the way keeps its old tag.     *)
(***************************************************************************)
EXTENDS Integers, SequencesExt

CONSTANTS
    BlockSize,         \* aes.BlockSize
    MaxPlaintextSize,  \* the bound of Seal and Open
    MaxCiphertext,     \* octets of ciphertext that, after an IV of one block, fit
                       \* into jose.MaxCompactSize
    Plaintexts,        \* what senders encrypt: sequences of bytes other than 0
    IVs,               \* initialization vectors
    AadLength,         \* octets of the encoded protected header
    MaxJwes,           \* bound: JWEs on the wire
    NoIV

ASSUME SizesAssumption ==
    /\ BlockSize \in Nat \ {0} /\ AadLength \in Nat
    /\ MaxPlaintextSize \in Nat /\ MaxCiphertext \in Nat
    /\ BlockSize < MaxCiphertext /\ MaxCiphertext <= MaxPlaintextSize
    /\ NoIV \notin IVs
    /\ Plaintexts \subseteq Seq(0 .. 255)

VARIABLES
    enc,    \* the sender's encryptor: its iv field, chaining value, and use count
    dec,    \* the receiver's decryptor: its chaining value
    wire,   \* JWEs sent, altered or made elsewhere, with their plaintexts
    last,   \* the last Decrypt: its JWE, its result and its plaintext
    clean   \* history: the decryptor's IV while it has seen no authentic JWE, else NoIV

vars == <<enc, dec, wire, last, clean>>

-----------------------------------------------------------------------------
(* AesCbcCryptor over cipher.BlockMode. *)

\* CBC: the chaining value a stream starts from, and what a block b deciphers to
\* after the block c: garbage unless c is the block b was enciphered after.
Start(iv) == [iv |-> iv, text |-> <<>>]
Decipher(c, b) ==
    IF b.text # <<>> /\ c = [b EXCEPT !.text = Front(@)]
    THEN Last(b.text) ELSE [i \in 1 .. BlockSize |-> -1]

ZeroBlock == Start(NoIV)
ZeroBytes(n) == [i \in 1 .. n |-> 0]

\* trimSize: the plaintext padded with zeroes to whole blocks.
trimSize(input) ==
    IF Len(input) % BlockSize = 0 THEN input
    ELSE input \o ZeroBytes(BlockSize - (Len(input) % BlockSize))

\* Mutant: no room for the last, partial block.
WholeBlocks(inputLength) ==
    IF inputLength \div BlockSize > 0
    THEN (inputLength \div BlockSize) * BlockSize
    ELSE BlockSize

getDestinationSize(inputLength) ==
    IF inputLength \div BlockSize > 0
    THEN (inputLength \div BlockSize) * BlockSize + BlockSize
    ELSE BlockSize

BlocksOf(bytes) ==
    [i \in 1 .. Len(bytes) \div BlockSize |->
        SubSeq(bytes, (i - 1) * BlockSize + 1, i * BlockSize)]

\* CryptBlocks of an encrypter: the stream of ciphertext blocks from c.
Encipher(c, blocks) ==
    [i \in 1 .. Len(blocks) |-> [c EXCEPT !.text = @ \o SubSeq(blocks, 1, i)]]

\* Seal returns blocks and leaves a chaining value.  The destination may be one
\* block longer than what CryptBlocks writes; that block stays zero.
Seal(c, plaintext) ==
    LET out == Encipher(c, BlocksOf(trimSize(plaintext)))
        size == getDestinationSize(Len(plaintext)) \div BlockSize
    IN  IF Len(plaintext) > MaxPlaintextSize
        THEN [blocks |-> <<>>, chain |-> c]
        ELSE [blocks |-> [i \in 1 .. size |-> IF i <= Len(out) THEN out[i] ELSE ZeroBlock],
              chain |-> IF out = <<>> THEN c ELSE Last(out)]

\* Open returns bytes and leaves a chaining value.
Open(c, blocks) ==
    LET text(i) == Decipher(IF i = 1 THEN c ELSE blocks[i - 1], blocks[i])
        byte(k) == text(((k - 1) \div BlockSize) + 1)[((k - 1) % BlockSize) + 1]
        size == Len(blocks) * BlockSize
    IN  IF size > MaxPlaintextSize
        THEN [bytes |-> <<>>, chain |-> c]
        ELSE [bytes |-> [k \in 1 .. getDestinationSize(size) |-> IF k <= size THEN byte(k) ELSE 0],
              chain |-> IF blocks = <<>> THEN c ELSE Last(blocks)]

-----------------------------------------------------------------------------
(* JweHmacVerifierImpl. *)

computeAL == AadLength

\* Mutant: the IV is not authenticated.
HashWithoutIV(header, octets) ==
    [header |-> header, octets |-> [octets EXCEPT !.blocks = Tail(@)], al |-> computeAL]

\* The tag over header, IV, ciphertext and AL, one after the other: the AL tells where the
\* header ends, and nothing where the IV does.
ComputeHash(header, octets) == [header |-> header, octets |-> octets, al |-> computeAL]

VerifyCompact(jwe) == jwe.tag = ComputeHash(jwe.header, jwe.octets)

-----------------------------------------------------------------------------
(* Encrypting and decrypting. *)

NoLength == -1      \* no OtherAad in the header
ShortLength == -2   \* an OtherAad of fewer than 8 octets

\* A header as this library writes it, for a plaintext of n bytes.
Header(n) == [form |-> "ok", alg |-> "ours", kid |-> "ours", zip |-> FALSE, length |-> n]

\* An IV and the ciphertext after it, end to end; extra octets make no whole block.
Concatenated(iv, ciphertext, extra) == [blocks |-> <<Start(iv)>> \o ciphertext, extra |-> extra]

Jwe(header, octets) ==
    [header |-> header, octets |-> octets, ivLength |-> BlockSize,
     tag |-> ComputeHash(header, octets)]

Octets(jwe) == Len(jwe.octets.blocks) * BlockSize + jwe.octets.extra

\* len(jwe.Ciphertext) is not a multiple of the block size.
Misaligned(jwe) == (Octets(jwe) - jwe.ivLength) % BlockSize # 0

\* jwe.Ciphertext, of a JWE of whole blocks whose boundary lies between two of them.
CiphertextOf(jwe) ==
    SubSeq(jwe.octets.blocks, (jwe.ivLength \div BlockSize) + 1, Len(jwe.octets.blocks))

\* Mutant: a length above what was deciphered is taken for all of it.
CutShort(length, opened) ==
    [out |-> "ok", chain |-> opened.chain,
     plaintext |-> SubSeq(opened.bytes, 1, Min({length, Len(opened.bytes)}))]

\* The plaintext of the length that the header declares.
CutTo(length, opened) ==
    IF length > Len(opened.bytes)
    THEN [out |-> "too_long", plaintext |-> <<>>, chain |-> opened.chain]
    ELSE [out |-> "ok", plaintext |-> SubSeq(opened.bytes, 1, length), chain |-> opened.chain]

\* What Decrypt returns for jwe when the decryptor's chaining value is c.
DecryptResult(c, jwe) ==
    LET h == jwe.header
        opened == Open(c, CiphertextOf(jwe))
        fail(why, chain) == [out |-> why, plaintext |-> <<>>, chain |-> chain]
    IN  IF Len(jwe.octets.blocks) * BlockSize > BlockSize + MaxCiphertext THEN fail("too_large", c)
        ELSE IF h.form # "ok" THEN fail("unmarshal", c)
        ELSE IF h.alg # "ours" \/ h.kid # "ours" THEN fail("wrong_key", c)
        ELSE IF ~VerifyCompact(jwe) THEN fail("integrity", c)
        ELSE IF h.zip THEN fail("zip", c)
        ELSE IF Misaligned(jwe) THEN fail("misaligned", c)
        ELSE IF h.length \in {NoLength, ShortLength} THEN fail("no_length", opened.chain)
        ELSE CutTo(h.length, opened)

Sent(jwe, m, by) == [jwe |-> jwe, plaintext |-> m, by |-> by]

Init ==
    /\ \E iv \in IVs : enc = [iv |-> iv, chain |-> Start(iv), used |-> FALSE]
    /\ \E iv \in IVs : dec = Start(iv) /\ clean = iv
    /\ wire = <<>>
    /\ last = [by |-> "none"]

\* An encryptor per message, over a BlockMode created from its IV, as the
\* comment on JweDirectEncryptorBlock asks for.
NewEncryptor(iv) ==
    /\ enc' = [iv |-> iv, chain |-> Start(iv), used |-> FALSE]
    /\ UNCHANGED <<dec, wire, last, clean>>

Encrypt(m) ==
    /\ ~enc.used /\ Len(wire) < MaxJwes
    /\ LET sealed == Seal(enc.chain, m)
           jwe == Jwe(Header(Len(m)), Concatenated(enc.iv, sealed.blocks, 0))
       IN  /\ wire' = Append(wire, Sent(jwe, m, "sender"))
           /\ enc' = [enc EXCEPT !.chain = sealed.chain, !.used = TRUE]
    /\ UNCHANGED <<dec, last, clean>>

\* Another holder of the keys sends a header, or a ciphertext, that this library would
\* not write.
Foreign(h, m, extra) ==
    /\ Len(wire) < MaxJwes
    /\ LET octets == Concatenated(enc.iv, Seal(Start(enc.iv), m).blocks, extra)
       IN  wire' = Append(wire, Sent(Jwe(h, octets), m, "foreign"))
    /\ UNCHANGED <<enc, dec, last, clean>>

\* A JWE is damaged on the way: its header, its IV, its ciphertext, its tag, or the place
\* of the boundary between IV and ciphertext.
Damages(jwe) ==
    {[jwe EXCEPT !.header.length = @ + 1], [jwe EXCEPT !.octets.blocks[1] = ZeroBlock],
     [jwe EXCEPT !.octets.blocks = Append(@, ZeroBlock)], [jwe EXCEPT !.octets.extra = @ + 1],
     [jwe EXCEPT !.tag.header.length = @ + 1]}
    \union {[jwe EXCEPT !.ivLength = n] : n \in (0 .. Octets(jwe)) \ {jwe.ivLength}}

Damage(n) ==
    /\ wire[n].by = "sender"
    /\ \E jwe \in Damages(wire[n].jwe) :
        wire' = [wire EXCEPT ![n] = Sent(jwe, wire[n].plaintext, "damaged")]
    /\ UNCHANGED <<enc, dec, last, clean>>

NewDecryptor(iv) ==
    /\ dec' = Start(iv)
    /\ clean' = iv
    /\ UNCHANGED <<enc, wire, last>>

Decrypt(n) ==
    LET result == DecryptResult(dec, wire[n].jwe)
    IN  /\ dec' = result.chain
        /\ last' = [by |-> wire[n].by, jwe |-> wire[n].jwe, sent |-> wire[n].plaintext,
                    out |-> result.out, plaintext |-> result.plaintext, for |-> clean]
        /\ clean' = IF VerifyCompact(wire[n].jwe) THEN NoIV ELSE clean
        /\ UNCHANGED <<enc, wire>>

ForeignHeaders(m) ==
    {[Header(Len(m)) EXCEPT !.form = "malformed"], [Header(Len(m)) EXCEPT !.alg = "other"],
     [Header(Len(m)) EXCEPT !.kid = "other"], [Header(Len(m)) EXCEPT !.zip = TRUE],
     [Header(Len(m)) EXCEPT !.length = NoLength],
     [Header(Len(m)) EXCEPT !.length = ShortLength],
     [Header(Len(m)) EXCEPT !.length = @ + 2 * BlockSize + 1]}

Next ==
    \/ \E iv \in IVs : NewEncryptor(iv) \/ NewDecryptor(iv)
    \/ \E m \in Plaintexts : Encrypt(m)
    \/ \E m \in Plaintexts : \E h \in ForeignHeaders(m) : Foreign(h, m, 0)
    \/ \E m \in Plaintexts : Foreign(Header(Len(m)), m, 1)
    \/ \E n \in DOMAIN wire : Damage(n) \/ Decrypt(n)

Spec == Init /\ [][Next]_vars

-----------------------------------------------------------------------------
Errors == {"unmarshal", "wrong_key", "integrity", "zip", "misaligned", "no_length",
           "too_large", "too_long"}

\* The JWE of a plaintext m is within jose.MaxCompactSize.
Fits(m) == Len(m) <= MaxPlaintextSize /\ getDestinationSize(Len(m)) <= MaxCiphertext

(***************************************************************************)
(* A plaintext survives the journey: a decryptor built from a JWE's IV     *)
(* returns exactly what was encrypted, whatever the length and however     *)
(* many JWEs that fail the integrity check it was given before.  One that  *)
(* has another chaining value, from another IV or left by an earlier JWE,  *)
(* spoils the first block and nothing else (Encrypt, Seal, VerifyCompact,  *)
(* Open, Decrypt).                                                         *)
(***************************************************************************)
RoundTrip ==
    last.by = "sender" /\ Fits(last.sent) =>
        /\ last.out = "ok" /\ Len(last.plaintext) = Len(last.sent)
        /\ \A k \in 1 .. Len(last.sent) :
            k > BlockSize \/ Head(last.jwe.octets.blocks) = Start(last.for) =>
                last.plaintext[k] = last.sent[k]

(***************************************************************************)
(* Encrypt reports no error for a plaintext that is too large: above       *)
(* MaxPlaintextSize it sends no ciphertext at all, and below it a JWE      *)
(* above MaxCompactSize.  Decrypt then never makes a plaintext of it,      *)
(* although the tag is good and Open returns a block of zeroes for nothing *)
(* (Seal, Encrypt, Open, Decrypt).                                         *)
(***************************************************************************)
OversizeIsRefused ==
    last.by = "sender" /\ ~Fits(last.sent) => last.out \in {"too_large", "too_long"}

\* The boundary between IV and ciphertext was moved over whole blocks.
Moved(jwe) == jwe.ivLength # BlockSize /\ jwe.ivLength % BlockSize = 0

\* The one change on the way that Decrypt accepts is a boundary moved over whole blocks,
\* whatever the decryptor went through before: the tag catches every change to the octets
\* of header, IV, ciphertext and tag, and the check of the alignment every other boundary
\* (VerifyCompact, Decrypt).
DamagedIsRejected == last.by = "damaged" => last.out \in Errors \/ Moved(last.jwe)

-----------------------------------------------------------------------------
(* What the comments say of the code; see the findings.                    *)

\* "Decrypt and verify the given JWE returning the plaintext"
\* (JweDirectDecryptorBlock.Decrypt).
DecryptReturnsThePlaintext ==
    last.by \in {"sender", "damaged"} /\ last.out = "ok" => last.plaintext = last.sent

=============================================================================
