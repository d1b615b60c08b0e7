------------------------------- MODULE MCJweGcm -------------------------------
(* An instance of JweGcm for TLC. *)
EXTENDS JweGcm, TLC

CONSTANTS n1, n2

Cryptor(kid, alg, key, ops, token) ==
    [kid |-> kid, alg |-> alg, key |-> [id |-> key, size |-> 32], ops |-> ops, token |-> token]
Both == {"encrypt", "decrypt"}

\* A plain cryptor, a token's with the same kid, and one whose alg is
\* not GCM.
MCCryptors ==
    {Cryptor("k1", "A256GCM", "s1", Both, FALSE), Cryptor("k1", "A256GCM", "s2", Both, TRUE),
     Cryptor("k2", "A256CBC", "s3", Both, FALSE)}

RsaKey(kid, alg, id, ops) == [rsa |-> TRUE, kid |-> kid, alg |-> alg, id |-> id, ops |-> ops]

\* Recipients with either OAEP alg, one of them under its computed kid, a signing key, and
\* an EC key that only a token holds.
MCRsaKeys ==
    {RsaKey("r1", "RSA-OAEP", "m1", {"decrypt"}), RsaKey("m2", "RSA-OAEP-256", "m2", {"decrypt"}),
     RsaKey("r3", "RS256", "m3", {"sign"}),
     [RsaKey("r3", "ES256", "m3", {"sign"}) EXCEPT !.rsa = FALSE]}

\* One that fits, one whose JWE is too large to parse, one too large to seal.
MCPlaintexts == {[text |-> "a", size |-> 1], [text |-> "b", size |-> 2],
                 [text |-> "c", size |-> 3]}
MCNonces == {n1, n2}
MCAads == {NoAad, "aad"}
MCCeks == {[id |-> "c1", size |-> 32], [id |-> "c2", size |-> 16]}
MCHashes == {"SHA1", "SHA256", "SHA384"}
MCSubstitute == [id |-> "substitute", size |-> 32]
Sym == Permutations(MCNonces)

=============================================================================
