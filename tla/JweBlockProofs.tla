---------------------------- MODULE JweBlockProofs ----------------------------
(***************************************************************************)
(* Direct encryption with AES-CBC and HMAC, for every block size, every    *)
(* bound on sizes and every set of plaintexts and IVs.                     *)
(***************************************************************************)
EXTENDS JweBlock, SequenceTheorems, TLAPS

-----------------------------------------------------------------------------
(* Arithmetic of blocks.                                                   *)

\* What division by the block size yields.
LEMMA DivFacts ==
    ASSUME NEW n \in Nat
    PROVE  /\ n \div BlockSize \in Nat /\ n % BlockSize \in 0 .. BlockSize - 1
           /\ n = (n \div BlockSize) * BlockSize + (n % BlockSize)
  <1>1. n \div BlockSize \in Int /\ n \div BlockSize >= 0
    BY SizesAssumption
  <1>2. n % BlockSize \in 0 .. BlockSize - 1
    BY SizesAssumption
  <1>3. n = (n \div BlockSize) * BlockSize + (n % BlockSize)
    BY SizesAssumption
  <1> QED
    BY <1>1, <1>2, <1>3

\* Whole blocks are whole blocks.
LEMMA WholeFacts ==
    ASSUME NEW q \in Nat
    PROVE  q * BlockSize \in Nat /\ (q * BlockSize) \div BlockSize = q
  BY SizesAssumption

\* There are as many whole blocks as there are multiples of the size.
LEMMA BlockOf ==
    ASSUME NEW q \in Nat, NEW p \in Nat, NEW r \in 0 .. BlockSize - 1,
           q * BlockSize + r < p * BlockSize
    PROVE  q < p
  BY SizesAssumption

\* The destination has a block more than the whole blocks of the input.
LEMMA DestinationFacts ==
    ASSUME NEW n \in Nat
    PROVE  /\ getDestinationSize(n) = ((n \div BlockSize) + 1) * BlockSize
           /\ getDestinationSize(n) \div BlockSize = (n \div BlockSize) + 1
           /\ getDestinationSize(n) \in Nat /\ n < getDestinationSize(n)
  <1> DEFINE q == n \div BlockSize
  <1>1. q \in Nat /\ n % BlockSize \in 0 .. BlockSize - 1 /\ n = q * BlockSize + (n % BlockSize)
    BY DivFacts
  <1>2. getDestinationSize(n) = IF q > 0 THEN q * BlockSize + BlockSize ELSE BlockSize
    BY DEF getDestinationSize
  <1> HIDE DEF q
  <1>3. getDestinationSize(n) = (q + 1) * BlockSize
    BY <1>1, <1>2, SizesAssumption
  <1>4. n < (q + 1) * BlockSize
    BY <1>1, SizesAssumption
  <1>5. ((q + 1) * BlockSize) \div BlockSize = q + 1 /\ (q + 1) * BlockSize \in Nat
    BY <1>1, WholeFacts
  <1> QED
    BY <1>3, <1>4, <1>5 DEF q

-----------------------------------------------------------------------------
(* Sealing and opening.                                                    *)

Bytes == 0 .. 255
IsSeq(s) == s \in Seq({s[i] : i \in DOMAIN s})

\* Blocks of a padded plaintext.
Padded(m) == BlocksOf(trimSize(m))

\* The padded plaintext is whole blocks, no more than the destination has room for.
LEMMA TrimFacts ==
    ASSUME NEW m \in Seq(Bytes)
    PROVE  LET t == trimSize(m)
           IN  /\ t \in Seq(Bytes)
               /\ \E n \in Nat : /\ Len(t) = n * BlockSize /\ n <= (Len(m) \div BlockSize) + 1
                                 /\ Len(m) <= n * BlockSize
               /\ \A k \in 1 .. Len(m) : t[k] = m[k]
  <1> DEFINE q == Len(m) \div BlockSize
             r == Len(m) % BlockSize
             t == trimSize(m)
  <1>0. Len(m) \in Nat
    OBVIOUS
  <1>1. q \in Nat /\ r \in 0 .. BlockSize - 1 /\ Len(m) = q * BlockSize + r /\ Len(m) \in Nat
    BY <1>0, DivFacts
  <1>2. CASE r = 0
    <2>1. t = m
      BY <1>2 DEF trimSize
    <2>2. Len(t) = q * BlockSize /\ q <= q + 1 /\ Len(m) <= q * BlockSize
      BY <1>1, <1>2, <2>1, SizesAssumption
    <2> QED
      BY <1>1, <2>1, <2>2
  <1>3. CASE r # 0
    <2> DEFINE z == ZeroBytes(BlockSize - r)
    <2>1. t = m \o z
      BY <1>3 DEF trimSize
    <2>2. BlockSize - r \in Nat
      BY <1>1, SizesAssumption
    <2>3. z \in Seq(Bytes) /\ Len(z) = BlockSize - r
      BY <2>2 DEF ZeroBytes, Bytes
    <2> HIDE DEF z, t
    <2>4. t \in Seq(Bytes) /\ Len(t) = Len(m) + Len(z) /\ \A k \in 1 .. Len(m) : t[k] = m[k]
      <3>1. /\ m \o z \in Seq(Bytes) /\ Len(m \o z) = Len(m) + Len(z)
            /\ \A k \in 1 .. Len(m) + Len(z) :
                (m \o z)[k] = IF k <= Len(m) THEN m[k] ELSE z[k - Len(m)]
        BY <2>3, ConcatProperties
      <3>2. \A k \in 1 .. Len(m) : (m \o z)[k] = m[k]
        BY <2>3, <3>1
      <3> QED
        BY <2>1, <3>1, <3>2
    <2> HIDE DEF q, r
    <2>5. Len(t) = (q + 1) * BlockSize /\ Len(m) <= (q + 1) * BlockSize
      BY <1>1, <2>3, <2>4, SizesAssumption
    <2>6. q + 1 \in Nat /\ q + 1 <= q + 1
      BY <1>1
    <2> QED
      BY <2>4, <2>5, <2>6 DEF t, q
  <1> QED
    BY <1>2, <1>3

\* The blocks of a padded plaintext: byte k is in its block.
LEMMA PaddedFacts ==
    ASSUME NEW m \in Seq(Bytes)
    PROVE  /\ Padded(m) \in Seq(Seq(Bytes))
           /\ Len(Padded(m)) <= (Len(m) \div BlockSize) + 1
           /\ \A k \in 1 .. Len(m) :
                LET i == ((k - 1) \div BlockSize) + 1
                IN  /\ i \in 1 .. Len(Padded(m))
                    /\ Padded(m)[i][((k - 1) % BlockSize) + 1] = m[k]
  <1> DEFINE t == trimSize(m)
             b == Padded(m)
  <1>1. t \in Seq(Bytes) /\ \A k \in 1 .. Len(m) : t[k] = m[k]
    BY TrimFacts
  <1>2. PICK n \in Nat : /\ Len(t) = n * BlockSize /\ n <= (Len(m) \div BlockSize) + 1
                         /\ Len(m) <= n * BlockSize
    BY TrimFacts
  <1>3. Len(t) \div BlockSize = n
    BY <1>2, WholeFacts
  <1>4. b = [i \in 1 .. n |-> SubSeq(t, (i - 1) * BlockSize + 1, i * BlockSize)]
    BY <1>3 DEF Padded, BlocksOf
  <1> HIDE DEF t, b
  <1>5. ASSUME NEW i \in 1 .. n
        PROVE  LET s == SubSeq(t, (i - 1) * BlockSize + 1, i * BlockSize)
               IN  s \in Seq(Bytes) /\ Len(s) = BlockSize
                   /\ \A j \in 1 .. BlockSize : s[j] = t[(i - 1) * BlockSize + j]
    <2> DEFINE lo == (i - 1) * BlockSize
               hi == i * BlockSize
    <2>1. lo \in Nat /\ hi \in Nat /\ hi = lo + BlockSize /\ hi <= Len(t)
      BY <1>2, SizesAssumption
    <2> HIDE DEF lo, hi
    <2>2. lo + 1 \in 1 .. Len(t) /\ hi \in 1 .. Len(t)
      BY <1>1, <2>1, SizesAssumption
    <2>3. \A j \in lo + 1 .. hi : t[j] \in Bytes
      BY <1>1, <2>1, <2>2
    <2> DEFINE s == SubSeq(t, lo + 1, hi)
    <2>4. /\ s \in Seq(Bytes)
          /\ Len(s) = IF lo + 1 <= hi THEN hi - (lo + 1) + 1 ELSE 0
          /\ \A j \in 1 .. hi - (lo + 1) + 1 : s[j] = t[lo + 1 + j - 1]
      BY <2>1, <2>3, SubSeqProperties
    <2> HIDE DEF s
    <2>5. Len(s) = BlockSize /\ \A j \in 1 .. BlockSize : s[j] = t[lo + j]
      <3>1. hi - (lo + 1) + 1 = BlockSize /\ lo + 1 <= hi
        BY <2>1, SizesAssumption
      <3>2. Len(s) = BlockSize /\ \A j \in 1 .. BlockSize : s[j] = t[lo + 1 + j - 1]
        BY <2>4, <3>1
      <3>3. ASSUME NEW j \in 1 .. BlockSize PROVE s[j] = t[lo + j]
        <4>1. lo + 1 + j - 1 = lo + j
          BY <2>1, SizesAssumption
        <4> QED
          BY <3>2, <4>1
      <3> QED
        BY <3>2, <3>3
    <2>6. s = SubSeq(t, (i - 1) * BlockSize + 1, i * BlockSize)
      BY DEF s, lo, hi
    <2> QED
      BY <2>4, <2>5, <2>6 DEF lo
  <1>6. b \in Seq(Seq(Bytes)) /\ Len(b) = n /\ \A i \in 1 .. n : \A j \in 1 .. BlockSize :
            b[i][j] = t[(i - 1) * BlockSize + j]
    <2>1. \A i \in 1 .. n : b[i] \in Seq(Bytes) /\ \A j \in 1 .. BlockSize :
            b[i][j] = t[(i - 1) * BlockSize + j]
      BY <1>4, <1>5
    <2>2. b \in [1 .. n -> Seq(Bytes)]
      BY <1>4, <2>1
    <2>3. b \in Seq(Seq(Bytes)) /\ Len(b) = n
      BY <2>2
    <2> QED
      BY <2>1, <2>3
  <1>7. ASSUME NEW k \in 1 .. Len(m)
        PROVE  LET i == ((k - 1) \div BlockSize) + 1
               IN  i \in 1 .. n /\ b[i][((k - 1) % BlockSize) + 1] = m[k]
    <2> DEFINE q == (k - 1) \div BlockSize
               r == (k - 1) % BlockSize
    <2>1. k - 1 \in Nat /\ k \in Nat /\ Len(m) \in Nat
      OBVIOUS
    <2>2. q \in Nat /\ r \in 0 .. BlockSize - 1 /\ k - 1 = q * BlockSize + r
      BY <2>1, DivFacts
    <2> HIDE DEF q, r
    <2>3. q * BlockSize + r < n * BlockSize
      BY <1>2, <2>1, <2>2, WholeFacts
    <2>4. q < n
      BY <2>2, <2>3, BlockOf
    <2>5. q + 1 \in 1 .. n /\ r + 1 \in 1 .. BlockSize
      BY <2>2, <2>4, SizesAssumption
    <2>6. b[q + 1][r + 1] = t[((q + 1) - 1) * BlockSize + (r + 1)]
      BY <1>6, <2>5
    <2>7. ((q + 1) - 1) * BlockSize + (r + 1) = k
      BY <2>1, <2>2, SizesAssumption
    <2> QED
      BY <1>1, <1>7, <2>5, <2>6, <2>7 DEF q, r
  <1> QED
    BY <1>2, <1>6, <1>7 DEF b

\* The block of ciphertext after i blocks of plaintext.
Cipher(iv, text, i) == [iv |-> iv, text |-> SubSeq(text, 1, i)]

\* A stream starts from the IV.
LEMMA CipherStarts ==
    ASSUME NEW iv, NEW text
    PROVE  Cipher(iv, text, 0) = Start(iv)
  <1>1. SubSeq(text, 1, 0) = <<>>
    BY SubSeqEmpty
  <1> QED
    BY <1>1 DEF Cipher, Start

\* Each block of ciphertext deciphers after the one before it.
LEMMA DecipherFacts ==
    ASSUME NEW iv, NEW S, NEW text \in Seq(S), NEW i \in 1 .. Len(text)
    PROVE  Decipher(Cipher(iv, text, i - 1), Cipher(iv, text, i)) = text[i]
  <1> DEFINE b == Cipher(iv, text, i)
             c == Cipher(iv, text, i - 1)
             t == SubSeq(text, 1, i)
             u == SubSeq(text, 1, i - 1)
  <1>1. \A j \in 1 .. i : text[j] \in S
    OBVIOUS
  <1>2. t \in Seq(S) /\ Len(t) = i /\ \A j \in 1 .. i : t[j] = text[j]
    <2>1. i \in Int /\ 1 \in Int /\ 1 <= i /\ i - 1 + 1 = i
      OBVIOUS
    <2>2. t \in Seq(S) /\ Len(t) = i - 1 + 1 /\ \A j \in 1 .. i - 1 + 1 : t[j] = text[1 + j - 1]
      BY <1>1, <2>1, SubSeqProperties
    <2> QED
      BY <2>1, <2>2
  <1>3. u \in Seq(S) /\ Len(u) = i - 1 /\ \A j \in 1 .. i - 1 : u[j] = text[j]
    <2>1. i - 1 \in Int /\ (\A j \in 1 .. i - 1 : text[j] \in S) /\ i - 1 - 1 + 1 = i - 1
      BY <1>1
    <2>2. /\ u \in Seq(S) /\ Len(u) = IF 1 <= i - 1 THEN i - 1 - 1 + 1 ELSE 0
          /\ \A j \in 1 .. i - 1 - 1 + 1 : u[j] = text[1 + j - 1]
      BY <2>1, SubSeqProperties
    <2> QED
      BY <2>1, <2>2
  <1>4. Front(t) = u
    <2> DEFINE f == SubSeq(t, 1, Len(t) - 1)
    <2>1. f \in Seq(S) /\ Len(f) = i - 1 /\ \A j \in 1 .. i - 1 : f[j] = t[j]
      <3>1. /\ Len(t) - 1 \in Int /\ Len(t) - 1 = i - 1 /\ i - 1 - 1 + 1 = i - 1
            /\ \A j \in 1 .. Len(t) - 1 : t[j] \in S
        BY <1>1, <1>2
      <3>2. /\ f \in Seq(S) /\ Len(f) = IF 1 <= Len(t) - 1 THEN Len(t) - 1 - 1 + 1 ELSE 0
            /\ \A j \in 1 .. Len(t) - 1 - 1 + 1 : f[j] = t[1 + j - 1]
        BY <3>1, SubSeqProperties
      <3> HIDE DEF f, t
      <3> QED
        BY <3>1, <3>2
    <2> HIDE DEF f, t, u
    <2>2. \A j \in 1 .. Len(f) : f[j] = u[j]
      BY <1>2, <1>3, <2>1
    <2>3. f = u
      BY <1>3, <2>1, <2>2, SeqEqual
    <2> QED
      BY <2>3 DEF f, Front
  <1>5. Last(t) = text[i] /\ t # <<>>
    BY <1>2 DEF Last
  <1>6. b = [iv |-> iv, text |-> t] /\ c = [iv |-> iv, text |-> u]
    BY DEF Cipher
  <1> HIDE DEF t, u, b, c
  <1>7. b.text = t /\ [b EXCEPT !.text = Front(b.text)] = [iv |-> iv, text |-> Front(t)]
    BY <1>6
  <1>8. c = [b EXCEPT !.text = Front(b.text)]
    BY <1>4, <1>6, <1>7
  <1> QED
    BY <1>5, <1>7, <1>8 DEF Decipher, b, c

\* What Seal returns with a new BlockMode: the stream, in a destination of whole blocks.
LEMMA SealFacts ==
    ASSUME NEW iv, NEW m \in Seq(Bytes), Len(m) <= MaxPlaintextSize
    PROVE  LET b == Seal(Start(iv), m).blocks
           IN  /\ Len(b) = (Len(m) \div BlockSize) + 1 /\ Len(b) \in Nat
               /\ Len(b) * BlockSize = getDestinationSize(Len(m)) /\ IsSeq(b)
               /\ \A i \in 1 .. Len(Padded(m)) : b[i] = Cipher(iv, Padded(m), i)
  <1> DEFINE text == Padded(m)
             out == Encipher(Start(iv), text)
             size == getDestinationSize(Len(m)) \div BlockSize
             b == Seal(Start(iv), m).blocks
  <1>1. text \in Seq(Seq(Bytes)) /\ Len(text) <= (Len(m) \div BlockSize) + 1
    BY PaddedFacts
  <1>2. Len(m) \in Nat
    OBVIOUS
  <1>3. /\ size = (Len(m) \div BlockSize) + 1 /\ size \in Nat
        /\ size * BlockSize = getDestinationSize(Len(m))
    BY <1>2, DestinationFacts, DivFacts
  <1>4. b = [i \in 1 .. size |-> IF i <= Len(out) THEN out[i] ELSE ZeroBlock]
    BY <1>2, SizesAssumption DEF Seal, Padded
  <1>5. out = [i \in 1 .. Len(text) |-> [Start(iv) EXCEPT !.text = @ \o SubSeq(text, 1, i)]]
    BY DEF Encipher
  <1> HIDE DEF text, out, size, b
  <1>6. Len(text) \in Nat /\ Len(out) = Len(text)
    BY <1>1, <1>5
  <1>7. ASSUME NEW i \in 1 .. Len(text) PROVE out[i] = Cipher(iv, text, i)
    <2> DEFINE t == SubSeq(text, 1, i)
    <2>1. t \in Seq(Seq(Bytes))
      <3>1. i \in Int /\ 1 \in Int /\ \A j \in 1 .. i : text[j] \in Seq(Bytes)
        BY <1>1, <1>6
      <3> QED
        BY <3>1, SubSeqProperties
    <2> HIDE DEF t
    <2>2. <<>> \o t = t
      BY <2>1, ConcatEmptySeq
    <2> DEFINE c == Start(iv)
    <2>3. c = [iv |-> iv, text |-> <<>>]
      BY DEF Start
    <2> HIDE DEF c
    <2>4. [c EXCEPT !.text = c.text \o t] = [iv |-> iv, text |-> t]
      BY <2>2, <2>3
    <2> QED
      BY <1>5, <1>7, <2>4 DEF t, c, Cipher
  <1>8. \A i \in 1 .. Len(text) : i \in 1 .. size
    BY <1>1, <1>3, <1>6
  <1>9. \A i \in 1 .. Len(text) : b[i] = Cipher(iv, text, i)
    BY <1>4, <1>6, <1>7, <1>8
  <1>10. Len(b) = size /\ IsSeq(b)
    <2> DEFINE S == {b[i] : i \in DOMAIN b}
    <2>1. DOMAIN b = 1 .. size /\ b = [i \in 1 .. size |-> b[i]]
      BY <1>4
    <2>2. \A i \in 1 .. size : b[i] \in S
      BY <2>1
    <2>3. b \in Seq(S) /\ Len(b) = size
      <3> HIDE DEF S
      <3>1. b \in [1 .. size -> S]
        BY <2>1, <2>2
      <3> QED
        BY <1>3, <3>1
    <2> QED
      BY <2>3 DEF IsSeq
  <1> QED
    BY <1>3, <1>9, <1>10 DEF text, b

\* What a BlockMode makes of a stream: all of it, if it holds the IV of the stream, and
\* all but the first block if not.
LEMMA OpenSealed ==
    ASSUME NEW c, NEW iv, NEW m \in Seq(Bytes), Fits(m)
    PROVE  LET b == Seal(Start(iv), m).blocks
               o == SubSeq(Open(c, b).bytes, 1, Len(m))
           IN  /\ Len(Open(c, b).bytes) \in Nat /\ Len(m) <= Len(Open(c, b).bytes)
               /\ Len(o) = Len(m)
               /\ \A k \in 1 .. Len(m) : c = Start(iv) \/ k > BlockSize => o[k] = m[k]
  <1> DEFINE text == Padded(m)
             b == Seal(Start(iv), m).blocks
             size == Len(b) * BlockSize
             o == Open(c, b).bytes
             i(k) == ((k - 1) \div BlockSize) + 1
             j(k) == ((k - 1) % BlockSize) + 1
             after(n) == IF n = 1 THEN c ELSE b[n - 1]
  <1>1. Len(m) \in Nat /\ Len(m) <= MaxPlaintextSize /\ getDestinationSize(Len(m)) <= MaxCiphertext
    BY DEF Fits
  <1>2. /\ size = getDestinationSize(Len(m))
        /\ \A n \in 1 .. Len(text) : b[n] = Cipher(iv, text, n)
    BY <1>1, SealFacts
  <1>3. size \in Nat /\ Len(m) < size /\ ~(size > MaxPlaintextSize)
    <2> DEFINE d == getDestinationSize(Len(m))
    <2>1. d \in Nat /\ Len(m) < d /\ d <= MaxCiphertext /\ size = d
      BY <1>1, <1>2, DestinationFacts
    <2> HIDE DEF d, size
    <2> QED
      BY <2>1, SizesAssumption
  <1>4. getDestinationSize(size) \in Nat /\ size < getDestinationSize(size)
    BY <1>3, DestinationFacts
  <1>5. o = [k \in 1 .. getDestinationSize(size) |->
                IF k <= size THEN Decipher(after(i(k)), b[i(k)])[j(k)] ELSE 0]
    BY <1>3 DEF Open
  <1>6. text \in Seq(Seq(Bytes)) /\ \A k \in 1 .. Len(m) : i(k) \in 1 .. Len(text)
                                                        /\ text[i(k)][j(k)] = m[k]
    BY PaddedFacts
  <1> HIDE DEF b, o, text, size
  <1>7. ASSUME NEW k \in 1 .. Len(m), c = Start(iv) \/ k > BlockSize PROVE o[k] = m[k]
    <2>1. k \in 1 .. getDestinationSize(size) /\ k <= size
      BY <1>1, <1>3, <1>4
    <2> DEFINE n == i(k)
    <2>2. n \in 1 .. Len(text) /\ text[n][j(k)] = m[k]
      BY <1>6
    <2>3. o[k] = Decipher(after(n), b[n])[j(k)]
      BY <1>5, <2>1
    <2>9. c = Start(iv) \/ n # 1
      <3>1. CASE k > BlockSize
        <4>1. k - 1 \in Nat
          OBVIOUS
        <4>2. (k - 1) \div BlockSize \in Nat /\ (k - 1) % BlockSize \in 0 .. BlockSize - 1
              /\ k - 1 = ((k - 1) \div BlockSize) * BlockSize + ((k - 1) % BlockSize)
          BY <4>1, DivFacts
        <4>3. (k - 1) \div BlockSize # 0
          BY <3>1, <4>2, SizesAssumption
        <4> QED
          BY <4>2, <4>3
      <3> QED
        BY <1>7, <3>1
    <2> HIDE DEF n, i, j
    <2>4. after(n) = Cipher(iv, text, n - 1)
      <3>1. CASE n = 1
        BY <2>9, <3>1, CipherStarts
      <3>2. CASE n # 1
        <4>1. n - 1 \in 1 .. Len(text)
          BY <1>6, <2>2, <3>2
        <4> QED
          BY <1>2, <3>2, <4>1
      <3> QED
        BY <3>1, <3>2
    <2>5. b[n] = Cipher(iv, text, n)
      BY <1>2, <2>2
    <2>6. Decipher(Cipher(iv, text, n - 1), Cipher(iv, text, n)) = text[n]
      BY <1>6, <2>2, DecipherFacts
    <2> QED
      BY <2>2, <2>3, <2>4, <2>5, <2>6
  <1>8. Len(o) = getDestinationSize(size)
    BY <1>4, <1>5
  <1>9. /\ Len(SubSeq(o, 1, Len(m))) = Len(m)
        /\ \A k \in 1 .. Len(m) : SubSeq(o, 1, Len(m))[k] = o[k]
    <2> DEFINE s == SubSeq(o, 1, Len(m))
               S == {o[k] : k \in 1 .. Len(m)}
    <2>1. Len(m) \in Int /\ 1 \in Int /\ (\A k \in 1 .. Len(m) : o[k] \in S)
          /\ Len(m) - 1 + 1 = Len(m)
      BY <1>1
    <2> HIDE DEF S
    <2>2. /\ s \in Seq(S) /\ Len(s) = IF 1 <= Len(m) THEN Len(m) - 1 + 1 ELSE 0
          /\ \A k \in 1 .. Len(m) - 1 + 1 : s[k] = o[1 + k - 1]
      BY <2>1, SubSeqProperties
    <2> HIDE DEF s
    <2>3. Len(s) = Len(m) /\ \A k \in 1 .. Len(m) : s[k] = o[k]
      BY <1>1, <2>1, <2>2
    <2> QED
      BY <2>3 DEF s
  <1> QED
    BY <1>1, <1>3, <1>4, <1>7, <1>8, <1>9 DEF o, b

\* Nothing opens to a block of zeroes.
LEMMA OpenNothing ==
    ASSUME NEW c
    PROVE  Len(Open(c, <<>>).bytes) = BlockSize
  <1>1. Len(<<>>) * BlockSize = 0 /\ ~(0 > MaxPlaintextSize)
    BY SizesAssumption
  <1>2. getDestinationSize(0) = BlockSize
    BY SizesAssumption DEF getDestinationSize
  <1> DEFINE o == Open(c, <<>>).bytes
             i(k) == ((k - 1) \div BlockSize) + 1
             j(k) == ((k - 1) % BlockSize) + 1
             byte(k) == Decipher(IF i(k) = 1 THEN c ELSE <<>>[i(k) - 1], <<>>[i(k)])[j(k)]
  <1>3. o = [k \in 1 .. getDestinationSize(Len(<<>>) * BlockSize) |->
                IF k <= Len(<<>>) * BlockSize THEN byte(k) ELSE 0]
    BY <1>1 DEF Open
  <1> HIDE DEF o, byte
  <1>4. o = [k \in 1 .. BlockSize |-> IF k <= 0 THEN byte(k) ELSE 0]
    BY <1>1, <1>2, <1>3
  <1> QED
    BY <1>4, SizesAssumption DEF o

-----------------------------------------------------------------------------
(* JWEs.                                                                   *)

\* What Encrypt makes of m with a new BlockMode.
Sealed(iv, m) == Jwe(Header(Len(m)), Concatenated(iv, Seal(Start(iv), m).blocks, 0))

\* Seal returns a sequence of blocks, whatever the length.
LEMMA SealedBlocks ==
    ASSUME NEW iv, NEW m \in Seq(Bytes)
    PROVE  IsSeq(Seal(Start(iv), m).blocks)
  <1>1. CASE Len(m) <= MaxPlaintextSize
    BY <1>1, SealFacts
  <1>2. CASE Len(m) > MaxPlaintextSize
    <2>1. Seal(Start(iv), m).blocks = <<>>
      BY <1>2 DEF Seal
    <2> QED
      BY <2>1 DEF IsSeq
  <1> QED
    BY <1>1, <1>2, SizesAssumption

\* A block before others, and what is left without it.
LEMMA PrefixFacts ==
    ASSUME NEW a, NEW b, IsSeq(b)
    PROVE  LET s == <<a>> \o b
           IN  /\ IsSeq(s) /\ Len(b) \in Nat /\ Len(s) = Len(b) + 1
               /\ s[1] = a /\ Head(s) = a /\ SubSeq(s, 2, Len(s)) = b
  <1> DEFINE S == {b[i] : i \in DOMAIN b} \union {a}
             s == <<a>> \o b
             t == SubSeq(s, 2, Len(s))
  <1>1. b \in Seq(S) /\ <<a>> \in Seq(S) /\ Len(<<a>>) = 1 /\ <<a>>[1] = a
    BY DEF IsSeq
  <1> HIDE DEF S
  <1>2. /\ s \in Seq(S) /\ Len(s) = 1 + Len(b) /\ Len(b) \in Nat
        /\ \A k \in 1 .. 1 + Len(b) : s[k] = IF k <= 1 THEN a ELSE b[k - 1]
    <2>1. /\ s \in Seq(S) /\ Len(s) = Len(<<a>>) + Len(b)
          /\ \A k \in 1 .. Len(<<a>>) + Len(b) :
                s[k] = IF k <= Len(<<a>>) THEN <<a>>[k] ELSE b[k - Len(<<a>>)]
      BY <1>1, ConcatProperties
    <2>2. Len(b) \in Nat
      BY <1>1
    <2> HIDE DEF s
    <2>3. ASSUME NEW k \in 1 .. 1 + Len(b) PROVE s[k] = IF k <= 1 THEN a ELSE b[k - 1]
      <3>1. k <= 1 => k = 1
        OBVIOUS
      <3> QED
        BY <1>1, <2>1, <3>1
    <2> QED
      BY <1>1, <2>1, <2>2, <2>3
  <1> HIDE DEF s
  <1>3. s[1] = a /\ Head(s) = a
    <2>1. 1 \in 1 .. 1 + Len(b)
      BY <1>2
    <2> QED
      BY <1>2, <2>1
  <1>4. t = b
    <2>1. 2 \in Int /\ Len(s) \in Int /\ \A i \in 2 .. Len(s) : s[i] \in S
      BY <1>2
    <2>2. /\ t \in Seq(S) /\ Len(t) = IF 2 <= Len(s) THEN Len(s) - 2 + 1 ELSE 0
          /\ \A i \in 1 .. Len(s) - 2 + 1 : t[i] = s[2 + i - 1]
      BY <2>1, SubSeqProperties
    <2> HIDE DEF t
    <2>3. Len(t) = Len(b)
      BY <1>2, <2>2
    <2>4. ASSUME NEW i \in 1 .. Len(t) PROVE t[i] = b[i]
      <3>1. i \in 1 .. Len(s) - 2 + 1 /\ 2 + i - 1 \in 1 .. 1 + Len(b) /\ ~(2 + i - 1 <= 1)
            /\ 2 + i - 1 - 1 = i
        BY <1>2, <2>3
      <3>2. s[2 + i - 1] = b[2 + i - 1 - 1]
        BY <1>2, <3>1
      <3> QED
        BY <2>2, <3>1, <3>2
    <2> QED
      BY <1>1, <2>2, <2>3, <2>4, SeqEqual
  <1>5. IsSeq(s)
    <2> DEFINE R == {s[j] : j \in DOMAIN s}
    <2>1. DOMAIN s = 1 .. Len(s) /\ s = [i \in 1 .. Len(s) |-> s[i]] /\ Len(s) \in Nat
      BY <1>2
    <2>2. \A i \in 1 .. Len(s) : s[i] \in R
      BY <2>1
    <2>3. s \in Seq(R)
      <3> HIDE DEF R
      <3>1. s \in [1 .. Len(s) -> R]
        BY <2>1, <2>2
      <3> QED
        BY <2>1, <3>1
    <2> QED
      BY <2>3 DEF IsSeq
  <1> QED
    BY <1>2, <1>3, <1>4, <1>5 DEF s, t

\* The fields of a JWE, whose tag is good.
LEMMA SealedFields ==
    ASSUME NEW iv, NEW m
    PROVE  LET jwe == Sealed(iv, m)
               h == jwe.header
           IN  /\ jwe = [header |-> h, octets |-> jwe.octets, ivLength |-> BlockSize,
                         tag |-> jwe.tag]
               /\ h = [form |-> "ok", alg |-> "ours", kid |-> "ours", zip |-> FALSE,
                       length |-> Len(m)]
               /\ jwe.octets = [blocks |-> <<Start(iv)>> \o Seal(Start(iv), m).blocks, extra |-> 0]
               /\ jwe.tag = [header |-> h, octets |-> jwe.octets, al |-> computeAL]
               /\ VerifyCompact(jwe)
  <1> DEFINE jwe == Sealed(iv, m)
             h == Header(Len(m))
             o == Concatenated(iv, Seal(Start(iv), m).blocks, 0)
  <1>1. jwe = [header |-> h, octets |-> o, ivLength |-> BlockSize, tag |-> ComputeHash(h, o)]
    BY DEF Sealed, Jwe
  <1>2. h = [form |-> "ok", alg |-> "ours", kid |-> "ours", zip |-> FALSE, length |-> Len(m)]
    BY DEF Header
  <1>3. o = [blocks |-> <<Start(iv)>> \o Seal(Start(iv), m).blocks, extra |-> 0]
    BY DEF Concatenated
  <1> HIDE DEF jwe, h, o
  <1>4. jwe.header = h /\ jwe.octets = o /\ jwe.tag = ComputeHash(h, o)
    BY <1>1
  <1>5. VerifyCompact(jwe)
    BY <1>4 DEF VerifyCompact
  <1>6. jwe = [header |-> jwe.header, octets |-> jwe.octets, ivLength |-> BlockSize,
               tag |-> jwe.tag]
    BY <1>1, <1>4
  <1> QED
    BY <1>2, <1>3, <1>4, <1>5, <1>6 DEF ComputeHash, jwe

\* A JWE of whole blocks whose boundary is elsewhere.
Shifted(jwe) ==
    /\ Len(jwe.octets.blocks) \in Nat /\ jwe.octets.extra = 0
    /\ jwe.ivLength \in 0 .. Len(jwe.octets.blocks) * BlockSize /\ jwe.ivLength # BlockSize

\* A JWE with another header, IV, ciphertext or tag has not a good tag; the boundary is
\* the one thing that can change under the tag.
LEMMA DamageFacts ==
    ASSUME NEW iv \in IVs, NEW m \in Seq(Bytes), NEW d \in Damages(Sealed(iv, m))
    PROVE  ~VerifyCompact(d) \/ Shifted(d)
  <1> DEFINE jwe == Sealed(iv, m)
             h == jwe.header
             o == jwe.octets
             t == jwe.tag
             b == <<Start(iv)>> \o Seal(Start(iv), m).blocks
  <1>1. /\ jwe = [header |-> h, octets |-> o, ivLength |-> BlockSize, tag |-> t]
        /\ h = [form |-> "ok", alg |-> "ours", kid |-> "ours", zip |-> FALSE, length |-> Len(m)]
        /\ o = [blocks |-> b, extra |-> 0]
        /\ t = [header |-> h, octets |-> o, al |-> computeAL]
    BY SealedFields
  <1>2. IsSeq(b) /\ Len(b) \in Nat /\ Len(b) >= 1 /\ b[1] = Start(iv)
    <2> DEFINE c == Seal(Start(iv), m).blocks
    <2>1. IsSeq(c)
      BY SealedBlocks
    <2> HIDE DEF c
    <2>2. IsSeq(<<Start(iv)>> \o c) /\ Len(c) \in Nat /\ Len(<<Start(iv)>> \o c) = Len(c) + 1
          /\ (<<Start(iv)>> \o c)[1] = Start(iv)
      BY <2>1, PrefixFacts
    <2> QED
      BY <2>2 DEF c
  <1>3. Len(m) \in Nat /\ Start(iv) # ZeroBlock
    BY SizesAssumption DEF ZeroBlock, Start
  <1>4. \/ d = [jwe EXCEPT !.header.length = @ + 1]
        \/ d = [jwe EXCEPT !.octets.blocks[1] = ZeroBlock]
        \/ d = [jwe EXCEPT !.octets.blocks = Append(@, ZeroBlock)]
        \/ d = [jwe EXCEPT !.octets.extra = @ + 1]
        \/ d = [jwe EXCEPT !.tag.header.length = @ + 1]
        \/ \E n \in (0 .. Octets(jwe)) \ {jwe.ivLength} : d = [jwe EXCEPT !.ivLength = n]
    BY DEF Damages
  <1> HIDE DEF jwe, h, o, t, b
  <1>5. VerifyCompact(d) => d.tag.header = d.header /\ d.tag.octets = d.octets
    BY DEF VerifyCompact, ComputeHash
  <1>6. CASE d = [jwe EXCEPT !.header.length = @ + 1]
    <2>1. d.header.length = Len(m) + 1 /\ d.tag.header.length = Len(m)
      BY <1>1, <1>6
    <2> QED
      BY <1>3, <1>5, <2>1
  <1>7. CASE d = [jwe EXCEPT !.octets.blocks[1] = ZeroBlock]
    <2>1. d.octets.blocks = [b EXCEPT ![1] = ZeroBlock] /\ d.tag.octets.blocks = b
      BY <1>1, <1>7
    <2>2. [b EXCEPT ![1] = ZeroBlock] # b
      <3> DEFINE S == {b[i] : i \in DOMAIN b}
      <3>1. b \in Seq(S)
        BY <1>2 DEF IsSeq
      <3> HIDE DEF S
      <3>2. 1 \in DOMAIN b
        BY <1>2, <3>1
      <3>3. [b EXCEPT ![1] = ZeroBlock][1] = ZeroBlock
        BY <3>2
      <3> QED
        BY <1>2, <1>3, <3>3
    <2> QED
      BY <1>5, <2>1, <2>2
  <1>8. CASE d = [jwe EXCEPT !.octets.blocks = Append(@, ZeroBlock)]
    <2>1. d.octets.blocks = Append(b, ZeroBlock) /\ d.tag.octets.blocks = b
      BY <1>1, <1>8
    <2>2. Append(b, ZeroBlock) # b
      <3> DEFINE S == {b[i] : i \in DOMAIN b} \union {ZeroBlock}
      <3>1. b \in Seq(S) /\ ZeroBlock \in S
        BY <1>2 DEF IsSeq
      <3> HIDE DEF S
      <3>2. Len(Append(b, ZeroBlock)) = Len(b) + 1 /\ Len(b) \in Nat
        BY <3>1, AppendProperties
      <3> QED
        BY <3>2
    <2> QED
      BY <1>5, <2>1, <2>2
  <1>9. CASE d = [jwe EXCEPT !.octets.extra = @ + 1]
    <2>1. d.octets.extra = 1 /\ d.tag.octets.extra = 0
      BY <1>1, <1>9
    <2> QED
      BY <1>5, <2>1
  <1>10. CASE d = [jwe EXCEPT !.tag.header.length = @ + 1]
    <2>1. d.header.length = Len(m) /\ d.tag.header.length = Len(m) + 1
      BY <1>1, <1>10
    <2> QED
      BY <1>3, <1>5, <2>1
  <1>11. ASSUME NEW n \in (0 .. Octets(jwe)) \ {jwe.ivLength}, d = [jwe EXCEPT !.ivLength = n]
         PROVE  Shifted(d)
    <2>1. /\ jwe.octets.blocks = b /\ jwe.octets.extra = 0 /\ jwe.ivLength = BlockSize
          /\ d.octets.blocks = b /\ d.octets.extra = 0 /\ d.ivLength = n
      BY <1>1, <1>11
    <2>2. Octets(jwe) = Len(b) * BlockSize
      <3>1. Octets(jwe) = Len(b) * BlockSize + 0
        BY <2>1 DEF Octets
      <3> QED
        BY <1>2, <3>1, WholeFacts
    <2> QED
      BY <1>2, <1>11, <2>1, <2>2 DEF Shifted
  <1> QED
    BY <1>4, <1>6, <1>7, <1>8, <1>9, <1>10, <1>11

\* A boundary that does not lie between two blocks leaves a ciphertext that is not whole
\* blocks, and Decrypt says so if nothing else is wrong.
LEMMA ShiftedFacts ==
    ASSUME NEW c, NEW jwe, Shifted(jwe), DecryptResult(c, jwe).out \notin Errors
    PROVE  Moved(jwe)
  <1> DEFINE n == jwe.ivLength
             l == Len(jwe.octets.blocks)
             x == l * BlockSize - n
  <1>1. l \in Nat /\ n \in Nat /\ x \in Nat /\ n # BlockSize /\ Octets(jwe) = l * BlockSize
    <2>1. l \in Nat /\ l * BlockSize \in Nat
      BY WholeFacts DEF Shifted
    <2>2. Octets(jwe) = l * BlockSize + 0
      BY DEF Shifted, Octets
    <2> QED
      BY <2>1, <2>2 DEF Shifted
  <1>2. ~Misaligned(jwe)
    BY DEF DecryptResult, Errors
  <1>3. x % BlockSize = 0
    BY <1>1, <1>2 DEF Misaligned
  <1> DEFINE p == x \div BlockSize
             q == n \div BlockSize
             rest == n % BlockSize
  <1>4. p \in Nat /\ x = p * BlockSize
    <2>1. p \in Nat /\ x = p * BlockSize + (x % BlockSize)
      BY <1>1, DivFacts
    <2> HIDE DEF p, x
    <2> QED
      BY <1>3, <2>1, SizesAssumption
  <1>5. q \in Nat /\ rest \in 0 .. BlockSize - 1 /\ n = q * BlockSize + rest
    BY <1>1, DivFacts
  <1>6. l * BlockSize = p * BlockSize + q * BlockSize + rest
    <2> HIDE DEF p, q, rest, l, n
    <2> QED
      BY <1>1, <1>4, <1>5, SizesAssumption
  <1> HIDE DEF p, q, rest, l, n, x
  <1>7. rest = 0
    <2>1. l * BlockSize = (p + q) * BlockSize + rest
      BY <1>1, <1>4, <1>5, <1>6, SizesAssumption
    <2>2. ~((p + q) * BlockSize + 0 < l * BlockSize) \/ p + q < l
      BY <1>1, <1>4, <1>5, SizesAssumption, BlockOf
    <2>3. ~(l < p + q + 1) \/ ~(p + q < l)
      BY <1>1, <1>4, <1>5
    <2>4. p + q + 1 <= l => (p + q) * BlockSize + BlockSize <= l * BlockSize
      BY <1>1, <1>4, <1>5, SizesAssumption
    <2> DEFINE u == (p + q) * BlockSize
               v == l * BlockSize
    <2>5. u \in Nat /\ v \in Nat
      BY <1>1, <1>4, <1>5, WholeFacts
    <2>6. v = u + rest /\ (u < v => u + BlockSize <= v)
      BY <1>1, <1>4, <1>5, <2>1, <2>2, <2>4, <2>5
    <2> HIDE DEF u, v
    <2> QED
      BY <1>5, <2>5, <2>6, SizesAssumption
  <1> QED
    BY <1>1, <1>7 DEF rest, n, Moved

\* A JWE without a good tag is refused before the BlockMode is used.
LEMMA UnverifiedFacts ==
    ASSUME NEW c, NEW jwe, ~VerifyCompact(jwe)
    PROVE  DecryptResult(c, jwe).chain = c /\ DecryptResult(c, jwe).out \in Errors
  BY DEF DecryptResult, Errors

\* What Decrypt makes of the sender's JWE, whatever its BlockMode holds.
LEMMA SealedResult ==
    ASSUME NEW c, NEW iv, NEW m \in Seq(Bytes)
    PROVE  LET b == Seal(Start(iv), m).blocks
               result == DecryptResult(c, Sealed(iv, m))
           IN  /\ Len(b) * BlockSize > MaxCiphertext => result.out = "too_large"
               /\ ~(Len(b) * BlockSize > MaxCiphertext) => result = CutTo(Len(m), Open(c, b))
  <1> DEFINE b == Seal(Start(iv), m).blocks
             s == <<Start(iv)>> \o b
             jwe == Sealed(iv, m)
  <1>1. /\ jwe.octets.blocks = s /\ jwe.octets.extra = 0 /\ jwe.ivLength = BlockSize
        /\ VerifyCompact(jwe)
        /\ jwe.header.form = "ok" /\ jwe.header.alg = "ours" /\ jwe.header.kid = "ours"
        /\ jwe.header.zip = FALSE /\ jwe.header.length = Len(m)
    <2> DEFINE h == jwe.header
               o == jwe.octets
    <2>1. /\ h = [form |-> "ok", alg |-> "ours", kid |-> "ours", zip |-> FALSE,
                  length |-> Len(m)]
          /\ o = [blocks |-> s, extra |-> 0] /\ VerifyCompact(jwe)
          /\ jwe = [header |-> h, octets |-> o, ivLength |-> BlockSize, tag |-> jwe.tag]
      BY SealedFields
    <2> HIDE DEF h, o, s, jwe
    <2>2. /\ h.form = "ok" /\ h.alg = "ours" /\ h.kid = "ours" /\ h.zip = FALSE
          /\ h.length = Len(m) /\ o.blocks = s /\ o.extra = 0 /\ jwe.ivLength = BlockSize
      BY <2>1
    <2> QED
      BY <2>1, <2>2 DEF h, o
  <1>2. IsSeq(b)
    BY SealedBlocks
  <1> HIDE DEF b, jwe
  <1>3. Len(b) \in Nat /\ Len(s) = Len(b) + 1 /\ SubSeq(s, 2, Len(s)) = b
    BY <1>2, PrefixFacts
  <1> HIDE DEF s
  <1>4. Len(m) \in Nat /\ Len(m) \notin {NoLength, ShortLength}
    BY DEF NoLength, ShortLength
  <1> DEFINE x == Len(b) * BlockSize
  <1>5. x \in Nat /\ Len(s) * BlockSize = x + BlockSize /\ x % BlockSize = 0
    <2>1. Len(s) * BlockSize = x + BlockSize /\ x \in Nat
      BY <1>3, SizesAssumption
    <2>2. x \div BlockSize = Len(b)
      BY <1>3, WholeFacts
    <2>3. x = (x \div BlockSize) * BlockSize + (x % BlockSize) /\ x % BlockSize \in 0 .. BlockSize - 1
      BY <2>1, DivFacts
    <2>4. x = x + (x % BlockSize)
      BY <2>2, <2>3
    <2> HIDE DEF x
    <2> QED
      BY <2>1, <2>3, <2>4, SizesAssumption
  <1>6. CiphertextOf(jwe) = b
    <2>1. BlockSize \div BlockSize = 1
      BY SizesAssumption
    <2> QED
      BY <1>1, <1>3, <2>1 DEF CiphertextOf
  <1>7. ~Misaligned(jwe)
    <2>1. Octets(jwe) = x + BlockSize + 0
      BY <1>1, <1>5 DEF Octets
    <2> HIDE DEF x
    <2>2. Octets(jwe) - jwe.ivLength = x
      BY <1>1, <1>5, <2>1, SizesAssumption
    <2> QED
      BY <1>5, <2>2 DEF Misaligned
  <1>8. Len(jwe.octets.blocks) * BlockSize > BlockSize + MaxCiphertext <=> x > MaxCiphertext
    <2> HIDE DEF x
    <2> QED
      BY <1>1, <1>5, SizesAssumption
  <1> HIDE DEF x
  <1>9. x > MaxCiphertext => DecryptResult(c, jwe).out = "too_large"
    BY <1>8 DEF DecryptResult
  <1>10. ~(x > MaxCiphertext) => DecryptResult(c, jwe) = CutTo(Len(m), Open(c, b))
    BY <1>1, <1>4, <1>6, <1>7, <1>8 DEF DecryptResult
  <1> QED
    BY <1>9, <1>10 DEF b, jwe, x

\* A plaintext that is too large is refused, however it is too large.
LEMMA OversizeFacts ==
    ASSUME NEW c, NEW iv, NEW m \in Seq(Bytes), ~Fits(m)
    PROVE  DecryptResult(c, Sealed(iv, m)).out \in {"too_large", "too_long"}
  <1> DEFINE b == Seal(Start(iv), m).blocks
             result == DecryptResult(c, Sealed(iv, m))
  <1>0. Len(m) \in Nat
    OBVIOUS
  <1>1. /\ Len(b) * BlockSize > MaxCiphertext => result.out = "too_large"
        /\ ~(Len(b) * BlockSize > MaxCiphertext) => result = CutTo(Len(m), Open(c, b))
    BY SealedResult
  <1>2. CASE Len(m) <= MaxPlaintextSize
    <2>1. Len(b) * BlockSize = getDestinationSize(Len(m)) /\ getDestinationSize(Len(m)) \in Nat
      BY <1>0, <1>2, SealFacts, DestinationFacts
    <2>2. getDestinationSize(Len(m)) > MaxCiphertext
      BY <1>2, <2>1, SizesAssumption DEF Fits
    <2> HIDE DEF b, result
    <2> QED
      BY <1>1, <2>1, <2>2 DEF result
  <1>3. CASE ~(Len(m) <= MaxPlaintextSize)
    <2>1. b = <<>>
      BY <1>0, <1>3, SizesAssumption DEF Seal
    <2>2. Len(Open(c, b).bytes) = BlockSize
      BY <2>1, OpenNothing
    <2>3. ~(Len(b) * BlockSize > MaxCiphertext)
      BY <2>1, SizesAssumption
    <2>4. Len(m) > BlockSize
      BY <1>0, <1>3, SizesAssumption
    <2> HIDE DEF b, result
    <2>5. result.out = "too_long"
      BY <1>1, <2>2, <2>3, <2>4 DEF CutTo
    <2> QED
      BY <2>5 DEF result
  <1> QED
    BY <1>2, <1>3

\* A plaintext that fits comes back, but for its first block if the BlockMode does not
\* hold its IV.
LEMMA RoundTripFacts ==
    ASSUME NEW c, NEW iv, NEW m \in Seq(Bytes), Fits(m)
    PROVE  LET result == DecryptResult(c, Sealed(iv, m))
           IN  /\ result.out = "ok" /\ Len(result.plaintext) = Len(m)
               /\ \A k \in 1 .. Len(m) :
                    k > BlockSize \/ c = Start(iv) => result.plaintext[k] = m[k]
  <1> DEFINE b == Seal(Start(iv), m).blocks
             o == Open(c, b)
             s == SubSeq(o.bytes, 1, Len(m))
             result == DecryptResult(c, Sealed(iv, m))
  <1>1. Len(m) \in Nat /\ Len(m) <= MaxPlaintextSize /\ getDestinationSize(Len(m)) <= MaxCiphertext
    BY DEF Fits
  <1>2. Len(b) * BlockSize = getDestinationSize(Len(m))
    BY <1>1, SealFacts
  <1>3. ~(getDestinationSize(Len(m)) > MaxCiphertext)
    BY <1>1, DestinationFacts, SizesAssumption
  <1>4. ~(Len(b) * BlockSize > MaxCiphertext)
    BY <1>2, <1>3
  <1>5. result = CutTo(Len(m), o)
    BY <1>4, SealedResult
  <1>6. /\ Len(o.bytes) \in Nat /\ Len(m) <= Len(o.bytes) /\ Len(s) = Len(m)
        /\ \A k \in 1 .. Len(m) : c = Start(iv) \/ k > BlockSize => s[k] = m[k]
    BY OpenSealed
  <1> HIDE DEF b, o, result
  <1>7. ~(Len(m) > Len(o.bytes))
    BY <1>1, <1>6
  <1>8. result.out = "ok" /\ result.plaintext = s
    BY <1>5, <1>7 DEF CutTo
  <1> HIDE DEF s
  <1> QED
    BY <1>6, <1>8 DEF result

-----------------------------------------------------------------------------
(* Sequences.                                                              *)

\* Append adds one item at the end.
LEMMA AppendFacts ==
    ASSUME NEW s, NEW e, IsSeq(s)
    PROVE  /\ IsSeq(Append(s, e)) /\ Len(Append(s, e)) = Len(s) + 1
           /\ DOMAIN Append(s, e) = DOMAIN s \union {Len(s) + 1}
           /\ Len(s) + 1 \notin DOMAIN s
           /\ \A i \in DOMAIN s : Append(s, e)[i] = s[i]
           /\ Append(s, e)[Len(s) + 1] = e
  <1> DEFINE S == {s[i] : i \in DOMAIN s} \union {e}
             t == Append(s, e)
  <1>1. s \in Seq(S) /\ e \in S
    BY DEF IsSeq
  <1> HIDE DEF S
  <1>2. Len(s) \in Nat /\ DOMAIN s = 1 .. Len(s)
    BY <1>1
  <1>3. t \in Seq(S) /\ Len(t) = Len(s) + 1
    BY <1>1
  <1>4. DOMAIN t = 1 .. (Len(s) + 1)
    BY <1>3
  <1>5. (\A i \in DOMAIN s : t[i] = s[i]) /\ t[Len(s) + 1] = e
    BY <1>1, <1>2
  <1>6. DOMAIN t = DOMAIN s \union {Len(s) + 1} /\ Len(s) + 1 \notin DOMAIN s
    BY <1>2, <1>4
  <1>7. IsSeq(t)
    <2> HIDE DEF t
    <2>1. \A i \in 1 .. Len(t) : t[i] \in {t[j] : j \in DOMAIN t}
      BY <1>3
    <2> QED
      BY <1>3, <2>1 DEF IsSeq
  <1> QED
    BY <1>3, <1>5, <1>6, <1>7

Replace(s, n, e) == [s EXCEPT ![n] = e]

\* Replacing an item keeps the others and the length.
LEMMA ReplaceFacts ==
    ASSUME NEW s, NEW e, IsSeq(s), NEW n \in DOMAIN s
    PROVE  LET t == Replace(s, n, e)
           IN  /\ IsSeq(t) /\ Len(t) = Len(s) /\ DOMAIN t = DOMAIN s
               /\ t[n] = e /\ \A i \in DOMAIN s : i # n => t[i] = s[i]
  <1> DEFINE S == {s[i] : i \in DOMAIN s} \union {e}
             t == Replace(s, n, e)
  <1>1. s \in Seq(S) /\ e \in S
    BY DEF IsSeq
  <1> HIDE DEF S
  <1>2. t \in Seq(S) /\ Len(t) = Len(s) /\ DOMAIN t = DOMAIN s
    BY <1>1 DEF Replace
  <1>3. t[n] = e /\ \A i \in DOMAIN s : i # n => t[i] = s[i]
    BY <1>1 DEF Replace
  <1>4. IsSeq(t)
    <2> HIDE DEF t
    <2>1. \A i \in 1 .. Len(t) : t[i] \in {t[j] : j \in DOMAIN t}
      BY <1>2
    <2> QED
      BY <1>2, <2>1 DEF IsSeq
  <1> QED
    BY <1>2, <1>3, <1>4

-----------------------------------------------------------------------------
(* The inductive invariant.                                                *)

\* The sender's JWEs are what it sealed; a damaged one has not a good tag, or the
\* boundary elsewhere.
EntryInv(e) ==
    /\ e.by = "sender" => /\ e.plaintext \in Plaintexts
                          /\ \E iv \in IVs : e.jwe = Sealed(iv, e.plaintext)
    /\ e.by = "damaged" => ~VerifyCompact(e.jwe) \/ Shifted(e.jwe)

WireInv == IsSeq(wire) /\ \A n \in DOMAIN wire : EntryInv(wire[n])

\* An encryptor that was not used holds its IV in its BlockMode.
EncInv ==
    /\ enc.iv \in IVs
    /\ enc = [iv |-> enc.iv, chain |-> enc.chain, used |-> enc.used]
    /\ ~enc.used => enc.chain = Start(enc.iv)

\* A decryptor that saw no authentic JWE holds its IV in its BlockMode.
DecInv == clean # NoIV => dec = Start(clean)

LastInv == RoundTrip /\ OversizeIsRefused /\ DamagedIsRejected

BlockInv == WireInv /\ EncInv /\ DecInv /\ LastInv

\* Initially nothing was sent and both BlockModes hold their IVs.
LEMMA InitInv == Init => BlockInv
  <1> SUFFICES ASSUME Init PROVE BlockInv
    OBVIOUS
  <1>1. WireInv
    BY DEF Init, WireInv, IsSeq
  <1>2. EncInv
    <2>1. PICK iv \in IVs : enc = [iv |-> iv, chain |-> Start(iv), used |-> FALSE]
      BY DEF Init
    <2> QED
      BY <2>1 DEF EncInv
  <1>3. DecInv
    BY DEF Init, DecInv
  <1>4. last.by = "none"
    BY DEF Init
  <1>5. LastInv
    BY <1>4 DEF LastInv, RoundTrip, OversizeIsRefused, DamagedIsRejected
  <1> QED
    BY <1>1, <1>2, <1>3, <1>5 DEF BlockInv

\* What was decrypted last is judged by itself.
LEMMA LastKept == LastInv /\ last' = last => LastInv'
  BY DEF LastInv, RoundTrip, OversizeIsRefused, DamagedIsRejected

\* One more JWE on the wire.
LEMMA AddedKept ==
    ASSUME WireInv, NEW e, EntryInv(e), wire' = Append(wire, e)
    PROVE  WireInv'
  <1> DEFINE w == Append(wire, e)
  <1>1. /\ IsSeq(w) /\ DOMAIN w = DOMAIN wire \union {Len(wire) + 1}
        /\ (\A n \in DOMAIN wire : w[n] = wire[n]) /\ w[Len(wire) + 1] = e
    BY AppendFacts DEF WireInv
  <1>2. wire' = w
    OBVIOUS
  <1> HIDE DEF w
  <1>3. \A n \in DOMAIN w : EntryInv(w[n])
    BY <1>1 DEF WireInv
  <1> QED
    BY <1>1, <1>2, <1>3 DEF WireInv

\* One JWE on the wire changed.
LEMMA ReplacedKept ==
    ASSUME WireInv, NEW e, EntryInv(e), NEW n \in DOMAIN wire, wire' = Replace(wire, n, e)
    PROVE  WireInv'
  <1> DEFINE w == Replace(wire, n, e)
  <1>1. /\ IsSeq(w) /\ DOMAIN w = DOMAIN wire /\ w[n] = e
        /\ \A i \in DOMAIN wire : i # n => w[i] = wire[i]
    BY ReplaceFacts DEF WireInv
  <1>2. wire' = w
    OBVIOUS
  <1> HIDE DEF w
  <1>3. \A i \in DOMAIN w : EntryInv(w[i])
    BY <1>1 DEF WireInv
  <1> QED
    BY <1>1, <1>2, <1>3 DEF WireInv

\* A new encryptor holds its IV in its BlockMode.
LEMMA NewEncryptorStep ==
    ASSUME BlockInv, NEW iv \in IVs, NewEncryptor(iv)
    PROVE  BlockInv'
  <1>1. enc' = [iv |-> iv, chain |-> Start(iv), used |-> FALSE] /\ UNCHANGED <<dec, wire, last, clean>>
    BY DEF NewEncryptor
  <1>2. EncInv'
    BY <1>1 DEF EncInv
  <1>3. WireInv' /\ DecInv'
    BY <1>1 DEF BlockInv, WireInv, DecInv
  <1> QED
    BY <1>1, <1>2, <1>3, LastKept DEF BlockInv

\* So does a new decryptor.
LEMMA NewDecryptorStep ==
    ASSUME BlockInv, NEW iv \in IVs, NewDecryptor(iv)
    PROVE  BlockInv'
  <1>1. dec' = Start(iv) /\ clean' = iv /\ UNCHANGED <<enc, wire, last>>
    BY DEF NewDecryptor
  <1>2. DecInv'
    BY <1>1 DEF DecInv
  <1>3. WireInv' /\ EncInv'
    BY <1>1 DEF BlockInv, WireInv, EncInv
  <1> QED
    BY <1>1, <1>2, <1>3, LastKept DEF BlockInv

\* An encryptor that was not used seals what a new BlockMode would.
LEMMA EncryptStep ==
    ASSUME BlockInv, NEW m \in Plaintexts, Encrypt(m)
    PROVE  BlockInv'
  <1> DEFINE sealed == Seal(enc.chain, m)
             jwe == Jwe(Header(Len(m)), Concatenated(enc.iv, sealed.blocks, 0))
             e == Sent(jwe, m, "sender")
  <1>1. /\ ~enc.used /\ wire' = Append(wire, e)
        /\ enc' = [enc EXCEPT !.chain = sealed.chain, !.used = TRUE]
        /\ UNCHANGED <<dec, last, clean>>
    BY DEF Encrypt
  <1>2. jwe = Sealed(enc.iv, m) /\ enc.iv \in IVs
    BY <1>1 DEF BlockInv, EncInv, Sealed
  <1>3. e.by = "sender" /\ e.plaintext = m /\ e.jwe = jwe
    BY DEF Sent
  <1> HIDE DEF jwe, e, sealed
  <1>4. EntryInv(e)
    BY <1>2, <1>3 DEF EntryInv
  <1>5. WireInv'
    BY <1>1, <1>4, AddedKept DEF BlockInv
  <1>6. EncInv'
    <2>1. enc = [iv |-> enc.iv, chain |-> enc.chain, used |-> enc.used]
      BY DEF BlockInv, EncInv
    <2>2. enc' = [iv |-> enc.iv, chain |-> sealed.chain, used |-> TRUE]
      BY <1>1, <2>1
    <2> QED
      BY <1>2, <2>2 DEF EncInv
  <1>7. DecInv'
    BY <1>1 DEF BlockInv, DecInv
  <1> QED
    BY <1>1, <1>5, <1>6, <1>7, LastKept DEF BlockInv

\* Of what other holders of the keys send nothing is assumed.
LEMMA ForeignStep ==
    ASSUME BlockInv, NEW h, NEW m, NEW extra, Foreign(h, m, extra)
    PROVE  BlockInv'
  <1> DEFINE o == Concatenated(enc.iv, Seal(Start(enc.iv), m).blocks, extra)
             e == Sent(Jwe(h, o), m, "foreign")
  <1>1. wire' = Append(wire, e) /\ UNCHANGED <<enc, dec, last, clean>>
    BY DEF Foreign
  <1>2. e.by = "foreign"
    BY DEF Sent
  <1> HIDE DEF e
  <1>3. EntryInv(e)
    BY <1>2 DEF EntryInv
  <1>4. WireInv'
    BY <1>1, <1>3, AddedKept DEF BlockInv
  <1>5. EncInv' /\ DecInv'
    BY <1>1 DEF BlockInv, EncInv, DecInv
  <1> QED
    BY <1>1, <1>4, <1>5, LastKept DEF BlockInv

\* Damage leaves a JWE without a good tag, or moves the boundary.
LEMMA DamageStep ==
    ASSUME BlockInv, NEW n \in DOMAIN wire, Damage(n)
    PROVE  BlockInv'
  <1>1. PICK jwe \in Damages(wire[n].jwe) :
            wire' = [wire EXCEPT ![n] = Sent(jwe, wire[n].plaintext, "damaged")]
    BY DEF Damage
  <1>2. wire[n].by = "sender" /\ UNCHANGED <<enc, dec, last, clean>>
    BY DEF Damage
  <1>3. wire[n].plaintext \in Plaintexts /\ \E iv \in IVs : wire[n].jwe = Sealed(iv, wire[n].plaintext)
    BY <1>2 DEF BlockInv, WireInv, EntryInv
  <1>4. ~VerifyCompact(jwe) \/ Shifted(jwe)
    <2>1. PICK iv \in IVs : wire[n].jwe = Sealed(iv, wire[n].plaintext)
      BY <1>3
    <2>2. wire[n].plaintext \in Seq(Bytes)
      BY <1>3, SizesAssumption DEF Bytes
    <2>3. jwe \in Damages(Sealed(iv, wire[n].plaintext))
      BY <2>1
    <2> QED
      BY <2>2, <2>3, DamageFacts
  <1> DEFINE e == Sent(jwe, wire[n].plaintext, "damaged")
  <1>5. e.by = "damaged" /\ e.jwe = jwe
    BY DEF Sent
  <1>6. wire' = Replace(wire, n, e)
    BY <1>1 DEF Replace
  <1> HIDE DEF e
  <1>7. EntryInv(e)
    BY <1>4, <1>5 DEF EntryInv
  <1>8. WireInv'
    BY <1>6, <1>7, ReplacedKept DEF BlockInv
  <1>9. EncInv' /\ DecInv'
    BY <1>2 DEF BlockInv, EncInv, DecInv
  <1> QED
    BY <1>2, <1>8, <1>9, LastKept DEF BlockInv

\* Decrypt moves the BlockMode only for a JWE with a good tag.
LEMMA DecryptStep ==
    ASSUME BlockInv, NEW n \in DOMAIN wire, Decrypt(n)
    PROVE  BlockInv'
  <1> DEFINE e == wire[n]
             result == DecryptResult(dec, e.jwe)
  <1>1. /\ dec' = result.chain /\ clean' = (IF VerifyCompact(e.jwe) THEN NoIV ELSE clean)
        /\ UNCHANGED <<enc, wire>>
    BY DEF Decrypt
  <1>2. last' = [by |-> e.by, jwe |-> e.jwe, sent |-> e.plaintext,
                 out |-> result.out, plaintext |-> result.plaintext, for |-> clean]
    BY DEF Decrypt
  <1>3. EntryInv(e)
    BY DEF BlockInv, WireInv
  <1>4. /\ last'.by = e.by /\ last'.jwe = e.jwe /\ last'.sent = e.plaintext
        /\ last'.out = result.out /\ last'.plaintext = result.plaintext /\ last'.for = clean
    BY <1>2
  <1> HIDE DEF e
  <1>5. DecInv'
    <2>1. CASE VerifyCompact(e.jwe)
      BY <1>1, <2>1 DEF DecInv
    <2>2. CASE ~VerifyCompact(e.jwe)
      <3>1. result.chain = dec
        BY <2>2, UnverifiedFacts
      <3> QED
        BY <1>1, <2>2, <3>1 DEF BlockInv, DecInv
    <2> QED
      BY <2>1, <2>2
  <1>6. DamagedIsRejected'
    <2>1. e.by = "damaged" => result.out \in Errors \/ Moved(e.jwe)
      BY <1>3, UnverifiedFacts, ShiftedFacts DEF EntryInv
    <2> HIDE DEF result
    <2> QED
      BY <1>4, <2>1 DEF DamagedIsRejected, Errors, Moved
  <1>7. ASSUME e.by = "sender"
        PROVE  /\ ~Fits(e.plaintext) => result.out \in {"too_large", "too_long"}
               /\ Fits(e.plaintext) =>
                    /\ result.out = "ok" /\ Len(result.plaintext) = Len(e.plaintext)
                    /\ \A k \in 1 .. Len(e.plaintext) :
                        k > BlockSize \/ Head(e.jwe.octets.blocks) = Start(clean) =>
                            result.plaintext[k] = e.plaintext[k]
    <2>1. PICK iv \in IVs : e.jwe = Sealed(iv, e.plaintext)
      BY <1>3, <1>7 DEF EntryInv
    <2>2. e.plaintext \in Seq(Bytes)
      BY <1>3, <1>7, SizesAssumption DEF EntryInv, Bytes
    <2>3. ~Fits(e.plaintext) => result.out \in {"too_large", "too_long"}
      BY <2>1, <2>2, OversizeFacts
    <2>4. ASSUME Fits(e.plaintext)
          PROVE  /\ result.out = "ok" /\ Len(result.plaintext) = Len(e.plaintext)
                 /\ \A k \in 1 .. Len(e.plaintext) :
                     k > BlockSize \/ dec = Start(iv) => result.plaintext[k] = e.plaintext[k]
      BY <2>1, <2>2, <2>4, RoundTripFacts
    <2>5. Head(e.jwe.octets.blocks) = Start(clean) => dec = Start(iv)
      <3> DEFINE jwe == Sealed(iv, e.plaintext)
                 b == Seal(Start(iv), e.plaintext).blocks
      <3>1. jwe.octets = [blocks |-> <<Start(iv)>> \o b, extra |-> 0] /\ IsSeq(b)
        BY <2>2, SealedFields, SealedBlocks
      <3> HIDE DEF jwe, b
      <3>2. Head(jwe.octets.blocks) = Start(iv)
        BY <3>1, PrefixFacts
      <3>3. Start(iv) = Start(clean) => iv = clean
        BY DEF Start
      <3>4. Head(e.jwe.octets.blocks) = Start(iv)
        BY <2>1, <3>2 DEF jwe
      <3> QED
        BY <3>3, <3>4, SizesAssumption DEF BlockInv, DecInv
    <2> HIDE DEF result
    <2> QED
      BY <2>3, <2>4, <2>5
  <1> HIDE DEF result
  <1>8. RoundTrip' /\ OversizeIsRefused'
    <2>1. RoundTrip'
      BY <1>4, <1>7 DEF RoundTrip, Fits
    <2>2. OversizeIsRefused'
      BY <1>4, <1>7 DEF OversizeIsRefused, Fits
    <2> QED
      BY <2>1, <2>2
  <1>9. WireInv' /\ EncInv'
    BY <1>1 DEF BlockInv, WireInv, EncInv
  <1> QED
    BY <1>5, <1>6, <1>8, <1>9 DEF BlockInv, LastInv

-----------------------------------------------------------------------------
(* The theorems.                                                           *)

\* Every step of encryptor, decryptor and wire keeps the invariant (JweDirectEncryptorBlock,
\* JweDirectDecryptorBlock, AesCbcCryptor, JweHmacVerifierImpl).
THEOREM BlockInvariant == Spec => []BlockInv
  <1>1. BlockInv /\ [Next]_vars => BlockInv'
    <2> SUFFICES ASSUME BlockInv, [Next]_vars PROVE BlockInv'
      OBVIOUS
    <2>1. CASE UNCHANGED vars
      <3>1. UNCHANGED <<enc, dec, wire, last, clean>>
        BY <2>1 DEF vars
      <3>2. WireInv' /\ EncInv' /\ DecInv'
        BY <3>1 DEF BlockInv, WireInv, EncInv, DecInv
      <3> QED
        BY <3>1, <3>2, LastKept DEF BlockInv
    <2>2. CASE \E iv \in IVs : NewEncryptor(iv) \/ NewDecryptor(iv)
      BY <2>2, NewEncryptorStep, NewDecryptorStep
    <2>3. CASE \E m \in Plaintexts : Encrypt(m)
      BY <2>3, EncryptStep
    <2>4. CASE \E m \in Plaintexts : \E h \in ForeignHeaders(m) : Foreign(h, m, 0)
      BY <2>4, ForeignStep
    <2>5. CASE \E m \in Plaintexts : Foreign(Header(Len(m)), m, 1)
      BY <2>5, ForeignStep
    <2>6. CASE \E n \in DOMAIN wire : Damage(n) \/ Decrypt(n)
      BY <2>6, DamageStep, DecryptStep
    <2> QED
      BY <2>1, <2>2, <2>3, <2>4, <2>5, <2>6 DEF Next
  <1> QED
    BY <1>1, InitInv, PTL DEF Spec

\* A plaintext survives the journey, for every block size and every length: a decryptor
\* built from a JWE's IV returns exactly what was encrypted, and any other one all but the
\* first block (Seal, Open, Decrypt).
THEOREM RoundTripTheorem == Spec => []RoundTrip
  <1>1. BlockInv => RoundTrip
    BY DEF BlockInv, LastInv
  <1> QED
    BY <1>1, BlockInvariant, PTL

\* No plaintext that is too large is ever decrypted, although Encrypt reports no error
\* and the tag is good (Seal, Open, Decrypt).
THEOREM OversizeIsRefusedTheorem == Spec => []OversizeIsRefused
  <1>1. BlockInv => OversizeIsRefused
    BY DEF BlockInv, LastInv
  <1> QED
    BY <1>1, BlockInvariant, PTL

\* The one change on the way that Decrypt accepts is a boundary between IV and ciphertext
\* moved over whole blocks, whatever the decryptor went through before (Decrypt,
\* VerifyCompact).
THEOREM DamagedIsRejectedTheorem == Spec => []DamagedIsRejected
  <1>1. BlockInv => DamagedIsRejected
    BY DEF BlockInv, LastInv
  <1> QED
    BY <1>1, BlockInvariant, PTL

=============================================================================
