----------------------------- MODULE JwtVerifier -----------------------------
(***************************************************************************)
(* JwtVerifierImpl.Verify (jwt_verifier.go) over the trust store of        *)
(* keystore.go.  Goroutines verify tokens while others add and remove      *)
(* keys.  Verify runs in three steps, since only Get is under the store's  *)
(* lock: the checks on the token alone, store.Get, and the checks with the *)
(* key that Get handed out.                                                *)
(*                                                                         *)
(* The checks themselves are those of JwtChecks.                           *)
(***************************************************************************)
EXTENDS TrustKeyStore

CONSTANTS
    Procs,      \* goroutines that call Verify
    Tokens,     \* tokens they are given
    Audiences,  \* sets of audiences they accept
    Times,      \* readings of the clock
    NoToken

ASSUME TokensAssumption ==
    /\ NoToken \notin Tokens /\ Times \subseteq Nat
    /\ \A t \in Tokens :
        /\ t.form \in {"too_large", "malformed", "ok"}
        /\ t.nbf \in Nat /\ t.exp \in Nat
        /\ t.iss \in Issuers /\ t.kid \in Kids \union {NoKid} /\ t.alg \in Algs
        /\ t.signer \in Jwks \union {NoJwk}

VARIABLES
    vpc,      \* "idle", "get" or "check": where each goroutine is in Verify
    token,    \* the token it verifies
    key,      \* the key Get returned, or NoJwk for nil
    verdict,  \* what its last Verify returned
    late      \* history: Remove had returned true for its issuer and kid
              \* when its Verify began

verifierVars == <<vpc, token, key, verdict, late>>
verifyVars == <<vars, verifierVars>>

Verdicts == {"none", "accepted", "too_large", "malformed", "timeframe", "audience",
             "no_kid", "unknown_key", "algorithm", "signature"}

INSTANCE JwtChecks

-----------------------------------------------------------------------------
VerifyInit ==
    /\ Init
    /\ vpc = [p \in Procs |-> "idle"]
    /\ token = [p \in Procs |-> NoToken]
    /\ key = [p \in Procs |-> NoJwk]
    /\ verdict = [p \in Procs |-> "none"]
    /\ late = [p \in Procs |-> FALSE]

\* Verify returns v; a rejected token and the key are forgotten.
Return(p, v) ==
    /\ vpc' = [vpc EXCEPT ![p] = "idle"]
    /\ verdict' = [verdict EXCEPT ![p] = v]
    /\ key' = [key EXCEPT ![p] = NoJwk]
    /\ token' = IF v = "accepted" THEN token ELSE [token EXCEPT ![p] = NoToken]
    /\ late' = IF v = "accepted" THEN late ELSE [late EXCEPT ![p] = FALSE]

\* Verify up to the call of store.Get; now is read here, once.
Begin(p, t, auds, now) ==
    /\ vpc[p] = "idle"
    /\ IF TokenCheck(t, auds, now) = "ok"
       THEN /\ vpc' = [vpc EXCEPT ![p] = "get"]
            /\ token' = [token EXCEPT ![p] = t]
            /\ verdict' = [verdict EXCEPT ![p] = "none"]
            /\ late' = [late EXCEPT ![p] = <<t.iss, t.kid>> \in removed]
            /\ UNCHANGED key
       ELSE Return(p, TokenCheck(t, auds, now))
    /\ UNCHANGED vars

\* store.Get; any error of it is dropped and the key is nil.
GetKey(p) ==
    /\ vpc[p] = "get"
    /\ Get(token[p].iss, token[p].kid)
    /\ key' = [key EXCEPT ![p] =
                IF GetResult(token[p].iss, token[p].kid) = "key"
                THEN Found(token[p].iss, token[p].kid) ELSE NoJwk]
    /\ vpc' = [vpc EXCEPT ![p] = "check"]
    /\ UNCHANGED <<token, verdict, late>>

Finish(p) ==
    /\ vpc[p] = "check"
    /\ Return(p, KeyCheck(key[p], token[p]))
    /\ UNCHANGED vars

VerifyNext ==
    \/ /\ \/ \E i \in Issuers, j \in Jwks : Add(i, j)
          \/ \E i \in Issuers, k \in Kids : Remove(i, k)
       /\ UNCHANGED verifierVars
    \/ \E p \in Procs :
        \/ \E t \in Tokens, auds \in Audiences, now \in Times : Begin(p, t, auds, now)
        \/ GetKey(p) \/ Finish(p)

VerifySpec == VerifyInit /\ [][VerifyNext]_verifyVars

-----------------------------------------------------------------------------
VerifyTypeOK ==
    /\ TypeOK
    /\ vpc \in [Procs -> {"idle", "get", "check"}]
    /\ token \in [Procs -> Tokens \union {NoToken}]
    /\ key \in [Procs -> Jwks \union {NoJwk}]
    /\ verdict \in [Procs -> Verdicts]
    /\ late \in [Procs -> BOOLEAN]

\* p's last Verify accepted its token.
Accepted(p) == vpc[p] = "idle" /\ verdict[p] = "accepted"

(***************************************************************************)
(* Removal takes effect: a Verify that began after Remove(iss, kid) had    *)
(* returned true never accepts a token of that issuer and kid, whatever    *)
(* was added meanwhile (Verify, Remove, Get).                              *)
(***************************************************************************)
RemovedIsRejected ==
    \A p \in Procs : Accepted(p) => ~late[p]

(***************************************************************************)
(* Trust does not cross issuers: an accepted token was signed by the key   *)
(* stored for its own issuer and kid, even when another issuer's key has   *)
(* the same kid, and whatever was added since (Verify, Get, Add).  Once    *)
(* that kid is removed nothing is stored to compare with.                  *)
(***************************************************************************)
AcceptedByIssuersKey ==
    \A p \in Procs : Accepted(p) =>
        \/ keys[token[p].iss][token[p].kid] = token[p].signer
        \/ <<token[p].iss, token[p].kid>> \in revoked

=============================================================================
