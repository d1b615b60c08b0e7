------------------------------ MODULE MCJweBlock ------------------------------
(* Instances of JweBlock for TLC. *)
EXTENDS JweBlock, TLC

CONSTANTS iv1, iv2

MCIVs == {iv1, iv2}
OneIV == {iv1}

\* Lengths 0, less than a block, one block and more than one; one whose JWE is too
\* large, and one that is too large itself.
MCPlaintexts == {<<>>, <<1>>, <<1, 2>>, <<1, 2, 3>>, <<1, 2, 3, 4>>, <<1, 2, 3, 4, 5>>}
Short == {<<1>>, <<1, 2>>}
Sym == Permutations(MCIVs)

=============================================================================
