---------------------------- MODULE TrustKeyStore ----------------------------
(***************************************************************************)
(* The in-memory trust store of keystore.go.  Add, Remove and Get hold mtx *)
(* from their first access to the maps to their return, so each is one     *)
(* step; clients interleave between the steps and keep the verification    *)
(* keys that Get hands out for as long as they like.                       *)
(*                                                                         *)
(* A JWK is a value with a kid, an alg and a verdict of NewVerificationKey *)
(* on it; two JWKs may carry the same kid.                                 *)
(***************************************************************************)
EXTENDS Naturals, FiniteSets

CONSTANTS
    Issuers, Kids, Algs,
    Jwks,      \* JWKs clients may add
    NoKid,     \* the empty kid
    NoJwk      \* a missing map entry, or the nil key

ASSUME JwksAssumption ==
    /\ NoKid \notin Kids
    /\ NoJwk \notin Jwks
    /\ \A j \in Jwks : j.kid \in Kids \union {NoKid}
    /\ \A j \in Jwks : j.alg \in Algs /\ j.loads \in BOOLEAN

VARIABLES
    known,    \* issuers with an entry in store.keys
    keys,     \* store.keys[issuer][kid], or NoJwk
    revoked,  \* pairs <<issuer, kid>> recorded in store.revoked
    held,     \* verification keys that Get handed out, with the issuer asked for
    last,     \* the last operation and its result
    removed,  \* history: pairs for which Remove returned true
    added     \* history: pairs whose latest Add or Remove is a successful Add

storeVars == <<known, keys, revoked>>
historyVars == <<removed, added>>
vars == <<storeVars, held, last, historyVars>>

Pairs == Issuers \X Kids
Results == {"ok", "invalid_key", "true", "false", "key", "unknown", "error"}
Operation(op, i, k, out) == [op |-> op, issuer |-> i, kid |-> k, out |-> out]

-----------------------------------------------------------------------------
(***************************************************************************)
(* NewTrustKeyStore and NewTrustKeyStoreFromFile add one JWK for each      *)
(* issuer of root; a JWK that cannot be added, or a file that cannot be    *)
(* read or parsed, yields an error and no store.                           *)
(***************************************************************************)
NewTrustKeyStore(root) ==
    /\ \A i \in DOMAIN root : root[i].kid # NoKid
    /\ known = DOMAIN root
    /\ keys = [i \in Issuers |-> [k \in Kids |->
                IF i \in DOMAIN root /\ root[i].kid = k THEN root[i] ELSE NoJwk]]
    /\ revoked = {}
    /\ added = {<<i, root[i].kid>> : i \in DOMAIN root}

Init ==
    /\ \E I \in SUBSET Issuers : \E root \in [I -> Jwks] : NewTrustKeyStore(root)
    /\ held = {}
    /\ last = Operation("none", "none", NoKid, "ok")
    /\ removed = {}

-----------------------------------------------------------------------------
\* Mutant: a later key replaces an earlier one.
StoredOver(i, j) == [keys EXCEPT ![i][j.kid] = j]

\* The keys after adding j for i: the first key of a kid stays.
Stored(i, j) == IF keys[i][j.kid] = NoJwk THEN [keys EXCEPT ![i][j.kid] = j] ELSE keys

Add(i, j) ==
    IF j.kid = NoKid
    THEN /\ last' = Operation("add", i, NoKid, "invalid_key")
         /\ UNCHANGED <<storeVars, held, historyVars>>
    ELSE /\ known' = known \union {i}
         /\ keys' = Stored(i, j)
         /\ last' = Operation("add", i, j.kid, "ok")
         /\ added' = added \union {<<i, j.kid>>}
         /\ UNCHANGED <<revoked, held, removed>>

\* Mutant: the removal is not recorded.
Unrecorded(i, k) == revoked

Recorded(i, k) == revoked \union {<<i, k>>}

Remove(i, k) ==
    IF i \notin known
    THEN /\ last' = Operation("remove", i, k, "false")
         /\ UNCHANGED <<storeVars, held, historyVars>>
    ELSE /\ keys' = [keys EXCEPT ![i][k] = NoJwk]
         /\ revoked' = Recorded(i, k)
         /\ last' = Operation("remove", i, k, "true")
         /\ removed' = removed \union {<<i, k>>}
         /\ added' = added \ {<<i, k>>}
         /\ UNCHANGED <<known, held>>

\* Mutant: the issuer is not looked at.
FoundAnywhere(i, k) ==
    LET all == {keys[a][k] : a \in Issuers} \ {NoJwk}
    IN  IF <<i, k>> \in revoked \/ all = {} THEN NoJwk ELSE CHOOSE j \in all : TRUE

\* The key Get finds, and the result it returns.
Found(i, k) == IF <<i, k>> \in revoked THEN NoJwk ELSE keys[i][k]

\* Mutant: a nil key without an error.
NilKey(i, k) == IF <<i, k>> \in revoked THEN "unknown" ELSE "key"

GetResult(i, k) ==
    IF Found(i, k) = NoJwk THEN "unknown"
    ELSE IF Found(i, k).loads THEN "key" ELSE "error"

Get(i, k) ==
    /\ last' = Operation("get", i, k, GetResult(i, k))
    /\ held' = IF GetResult(i, k) = "key"
               THEN held \union {[issuer |-> i, jwk |-> Found(i, k)]} ELSE held
    /\ UNCHANGED <<storeVars, historyVars>>

Next ==
    \/ \E i \in Issuers, j \in Jwks : Add(i, j)
    \/ \E i \in Issuers, k \in Kids : Remove(i, k) \/ Get(i, k)

Spec == Init /\ [][Next]_vars

-----------------------------------------------------------------------------
TypeOK ==
    /\ known \in SUBSET Issuers
    /\ keys \in [Issuers -> [Kids -> Jwks \union {NoJwk}]]
    /\ revoked \in SUBSET Pairs
    /\ held \in SUBSET [issuer : Issuers, jwk : Jwks]
    /\ last.out \in Results
    /\ removed \in SUBSET Pairs /\ added \in SUBSET Pairs

\* Once Remove(issuer, kid) has returned true no Get hands that kid out again,
\* whatever is added, removed or looked up in between (Get, Remove).
RemovedIsUnknown ==
    last.op = "get" /\ <<last.issuer, last.kid>> \in removed => last.out = "unknown"

(***************************************************************************)
(* An issuer's kid names one key for the life of the store: every          *)
(* verification key ever handed out for it wraps the same JWK.  Add keeps  *)
(* the first key, and a removed kid never comes back with another.         *)
(***************************************************************************)
KidNamesOneKey ==
    \A v, w \in held : v.issuer = w.issuer /\ v.jwk.kid = w.jwk.kid => v.jwk = w.jwk

-----------------------------------------------------------------------------
(* What the comments say of the code; see the findings.                    *)

\* "the revocation is sticky until the key is explicitly re-added" (Get).
ReAddedIsTrusted ==
    last.op = "get" /\ <<last.issuer, last.kid>> \in added => last.out # "unknown"

=============================================================================
