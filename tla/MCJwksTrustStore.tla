-------------------------- MODULE MCJwksTrustStore --------------------------
(* Instances of JwksTrustStore for TLC. *)
EXTENDS JwksRefinement

CONSTANTS p1, p2, k1, known, foreign

TwoProcs == {p1, p2}
OneKid == {k1}
MCIssuers == {known, foreign}
MCInputIssuers == {known}

=============================================================================
