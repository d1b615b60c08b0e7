-------------------------- MODULE MCHmacShaCryptor --------------------------
(* An instance of HmacShaCryptor for TLC. *)
EXTENDS HmacShaCryptor, TLC

CONSTANTS p1, p2, p3, x1, x2

MCProcs == {p1, p2, p3}
MCInputs == {x1, x2}
Sym == Permutations(MCProcs) \union Permutations(MCInputs)

=============================================================================
