------------------------------ MODULE JwtChecks ------------------------------
(***************************************************************************)
(* The checks of JwtVerifierImpl.Verify (jwt_verifier.go) on a parsed      *)
(* token, in the code's order.  A token is a record: whether it parses     *)
(* (form), its claims and header, and the JWK whose private half produced  *)
(* its signature (NoJwk: nobody's, or a signature over other octets).      *)
(***************************************************************************)
EXTENDS Integers

CONSTANTS NoKid, NoJwk

\* The first check before store.Get that t fails, or "ok".
TokenCheck(t, auds, now) ==
    IF t.form # "ok" THEN t.form
    ELSE IF t.nbf > now \/ t.exp <= now THEN "timeframe"
    ELSE IF t.aud \intersect auds = {} THEN "audience"
    ELSE IF t.kid = NoKid THEN "no_kid"
    ELSE "ok"

\* The checks with the key that store.Get returned: alg first, then the
\* signature, which verifies only under the key that made it.
KeyCheck(j, t) ==
    IF j = NoJwk THEN "unknown_key"
    ELSE IF j.alg # t.alg THEN "algorithm"
    ELSE IF t.signer # j THEN "signature"
    ELSE "accepted"

=============================================================================
