-------------------------- MODULE JwtVerifierProofs --------------------------
(* Machine-checked proofs about TrustKeyStore and about Verify over it, for *)
(* every set of goroutines, tokens, issuers, kids and JWKs.                 *)
EXTENDS JwtVerifier, TLAPS

-----------------------------------------------------------------------------
(* The trust store. *)

USE DEF Pairs, Results, Operation

(***************************************************************************)
(* The inductive invariant: the recorded revocations are the removals, a   *)
(* stored JWK is stored under its own kid, and a key that was handed out   *)
(* is still the stored one unless its kid has been revoked since.          *)
(***************************************************************************)
StoredUnderItsKid ==
    \A i \in Issuers, k \in Kids : keys[i][k] # NoJwk => keys[i][k].kid = k

HeldIsStored ==
    \A v \in held : /\ v.jwk.kid \in Kids
                    /\ \/ <<v.issuer, v.jwk.kid>> \in revoked
                       \/ keys[v.issuer][v.jwk.kid] = v.jwk

TrustInv ==
    /\ TypeOK
    /\ removed = revoked
    /\ StoredUnderItsKid /\ HeldIsStored /\ KidNamesOneKey /\ RemovedIsUnknown

\* A new store satisfies the invariant.
LEMMA TrustInit == Init => TrustInv
  <1> SUFFICES ASSUME Init PROVE TrustInv
    OBVIOUS
  <1>0. PICK I \in SUBSET Issuers : \E root \in [I -> Jwks] : NewTrustKeyStore(root)
    BY DEF Init
  <1>1. PICK root \in [I -> Jwks] : NewTrustKeyStore(root)
    BY <1>0
  <1>2. DOMAIN root = I /\ \A i \in I : root[i] \in Jwks /\ root[i].kid \in Kids
    BY <1>1, JwksAssumption DEF NewTrustKeyStore
  <1>3. keys \in [Issuers -> [Kids -> Jwks \union {NoJwk}]] /\ StoredUnderItsKid
    BY <1>1, <1>2 DEF NewTrustKeyStore, StoredUnderItsKid
  <1>4. TypeOK
    BY <1>1, <1>2, <1>3 DEF Init, NewTrustKeyStore, TypeOK
  <1> QED
    BY <1>1, <1>3, <1>4
       DEF Init, NewTrustKeyStore, TrustInv, HeldIsStored, KidNamesOneKey, RemovedIsUnknown

\* Add, Remove and Get preserve the invariant.
LEMMA TrustPreserved == TrustInv /\ [Next]_vars => TrustInv'
  <1> SUFFICES ASSUME TrustInv, [Next]_vars PROVE TrustInv'
    OBVIOUS
  <1> USE DEF TrustInv, TypeOK, storeVars, historyVars
  <1>1. ASSUME NEW i \in Issuers, NEW j \in Jwks, Add(i, j) PROVE TrustInv'
    <2>1. CASE j.kid = NoKid
      BY <1>1, <2>1
         DEF Add, Stored, StoredUnderItsKid, HeldIsStored, KidNamesOneKey, RemovedIsUnknown
    <2>2. CASE j.kid # NoKid
      <3>1. j.kid \in Kids
        BY <2>2, JwksAssumption
      <3>2. keys' \in [Issuers -> [Kids -> Jwks \union {NoJwk}]] /\ TypeOK'
        BY <1>1, <2>2, <3>1 DEF Add, Stored
      <3>3. StoredUnderItsKid'
        BY <1>1, <2>2, <3>1 DEF Add, Stored, StoredUnderItsKid
      <3>4. HeldIsStored'
        <4>1. \A a \in Issuers, b \in Kids :
                keys[a][b] # NoJwk => keys'[a][b] = keys[a][b]
          BY <1>1, <2>2, <3>1 DEF Add, Stored
        <4>2. \A v \in held : v.issuer \in Issuers /\ v.jwk # NoJwk
          BY JwksAssumption
        <4>3. held' = held /\ revoked' = revoked
          BY <1>1, <2>2 DEF Add, Stored
        <4> QED
          BY <4>1, <4>2, <4>3 DEF HeldIsStored
      <3> QED
        BY <1>1, <2>2, <3>2, <3>3, <3>4 DEF Add, Stored, KidNamesOneKey, RemovedIsUnknown
    <2> QED
      BY <2>1, <2>2
  <1>2. ASSUME NEW i \in Issuers, NEW k \in Kids, Remove(i, k) PROVE TrustInv'
    <2>1. CASE i \notin known
      BY <1>2, <2>1
         DEF Remove, Recorded, StoredUnderItsKid, HeldIsStored, KidNamesOneKey, RemovedIsUnknown
    <2>2. CASE i \in known
      <3>1. TypeOK'
        BY <1>2, <2>2 DEF Remove, Recorded
      <3>2. StoredUnderItsKid'
        BY <1>2, <2>2 DEF Remove, Recorded, StoredUnderItsKid
      <3>3. HeldIsStored'
        <4>1. \A a \in Issuers, b \in Kids :
                <<a, b>> \in revoked' \/ keys'[a][b] = keys[a][b]
          BY <1>2, <2>2 DEF Remove, Recorded
        <4>2. \A v \in held : v.issuer \in Issuers
          OBVIOUS
        <4>3. held' = held /\ revoked \subseteq revoked'
          BY <1>2, <2>2 DEF Remove, Recorded
        <4> QED
          BY <4>1, <4>2, <4>3 DEF HeldIsStored
      <3>4. KidNamesOneKey' /\ RemovedIsUnknown'
        BY <1>2, <2>2 DEF Remove, Recorded, KidNamesOneKey, RemovedIsUnknown
      <3>5. removed' = revoked'
        BY <1>2, <2>2 DEF Remove, Recorded
      <3> QED
        BY <3>1, <3>2, <3>3, <3>4, <3>5
    <2> QED
      BY <2>1, <2>2
  <1>3. ASSUME NEW i \in Issuers, NEW k \in Kids, Get(i, k) PROVE TrustInv'
    <2>1. CASE GetResult(i, k) # "key"
      BY <1>3, <2>1
         DEF Get, GetResult, Found, StoredUnderItsKid, HeldIsStored, KidNamesOneKey,
             RemovedIsUnknown
    <2>2. CASE GetResult(i, k) = "key"
      <3>1. /\ <<i, k>> \notin revoked
            /\ keys[i][k] \in Jwks /\ keys[i][k].kid = k
            /\ Found(i, k) = keys[i][k]
        BY <2>2 DEF GetResult, Found, StoredUnderItsKid
      <3>2. held' = held \union {[issuer |-> i, jwk |-> keys[i][k]]}
        BY <1>3, <2>2, <3>1 DEF Get
      <3>3. TypeOK'
        BY <1>3, <2>2, <3>1, <3>2 DEF Get
      <3>4. HeldIsStored' /\ StoredUnderItsKid'
        BY <1>3, <3>1, <3>2 DEF Get, HeldIsStored, StoredUnderItsKid
      <3>5. KidNamesOneKey'
        BY <3>1, <3>2 DEF HeldIsStored, KidNamesOneKey
      <3>6. RemovedIsUnknown'
        BY <1>3, <3>1 DEF Get, RemovedIsUnknown
      <3> QED
        BY <1>3, <3>3, <3>4, <3>5, <3>6 DEF Get
    <2> QED
      BY <2>1, <2>2
  <1>4. CASE UNCHANGED vars
    BY <1>4 DEF vars, StoredUnderItsKid, HeldIsStored, KidNamesOneKey, RemovedIsUnknown
  <1> QED
    BY <1>1, <1>2, <1>3, <1>4 DEF Next

\* The invariant holds in every behaviour of the store and its clients.
THEOREM TrustInvariant == Spec => []TrustInv
  BY TrustInit, TrustPreserved, PTL DEF Spec

\* Once Remove has returned true, Get never hands out that issuer's kid again
\* (RemovedIsUnknown).
THEOREM RemovedIsUnknownTheorem == Spec => []RemovedIsUnknown
  <1>1. TrustInv => RemovedIsUnknown
    BY DEF TrustInv
  <1> QED
    BY <1>1, TrustInvariant, PTL

\* All verification keys ever handed out for one issuer and kid wrap one JWK
\* (KidNamesOneKey).
THEOREM KidNamesOneKeyTheorem == Spec => []KidNamesOneKey
  <1>1. TrustInv => KidNamesOneKey
    BY DEF TrustInv
  <1> QED
    BY <1>1, TrustInvariant, PTL

-----------------------------------------------------------------------------
(* Verify. *)

(***************************************************************************)
(* The inductive invariant: a goroutine inside Verify has a token with a   *)
(* kid; one whose token's kid had been removed when it began is given no   *)
(* key; and the key it was given, or accepted by, is still the stored one  *)
(* unless its kid has been revoked since.                                  *)
(***************************************************************************)
\* The token of p has the kid of key j, which is stored, or was until revoked.
Backed(p, j) ==
    \/ <<token[p].iss, token[p].kid>> \in revoked
    \/ keys[token[p].iss][token[p].kid] = j

HasToken(p) == token[p] \in Tokens /\ token[p].kid \in Kids

\* What holds of p inside Verify, and of p once it has accepted.
Busy(p) ==
    vpc[p] # "idle" =>
        /\ HasToken(p)
        /\ verdict[p] = "none"
        /\ late[p] => <<token[p].iss, token[p].kid>> \in removed
        /\ vpc[p] = "check" /\ key[p] # NoJwk => ~late[p] /\ Backed(p, key[p])

Vouched(p) ==
    Accepted(p) =>
        /\ HasToken(p)
        /\ ~late[p]
        /\ token[p].signer # NoJwk /\ Backed(p, token[p].signer)

BusyInv == \A p \in Procs : Busy(p)

AcceptedInv == \A p \in Procs : Vouched(p)

VerifyInv == TrustInv /\ VerifyTypeOK /\ BusyInv /\ AcceptedInv

\* The store's part of a step of Verify is a step of the store.
LEMMA VerifyUsesStore ==
    ASSUME VerifyInv, [VerifyNext]_verifyVars
    PROVE  [Next]_vars
  <1>1. ASSUME NEW p \in Procs, GetKey(p) PROVE Next
    <2>1. token[p].iss \in Issuers /\ token[p].kid \in Kids
      BY <1>1, TokensAssumption DEF VerifyInv, BusyInv, Busy, HasToken, GetKey
    <2> QED
      BY <1>1, <2>1 DEF GetKey, Next
  <1> QED
    BY <1>1 DEF VerifyNext, verifyVars, Begin, Finish, Next

\* The store forgets no revocation, and keeps or revokes a key.
LEMMA StoreKeeps ==
    ASSUME TrustInv, [Next]_vars
    PROVE  /\ revoked \subseteq revoked' /\ removed \subseteq removed'
           /\ \A i \in Issuers, k \in Kids :
                keys[i][k] # NoJwk => <<i, k>> \in revoked' \/ keys'[i][k] = keys[i][k]
  <1> USE DEF TrustInv, TypeOK, storeVars, historyVars
  <1> DEFINE Kept == /\ revoked \subseteq revoked' /\ removed \subseteq removed'
                     /\ \A i \in Issuers, k \in Kids :
                          keys[i][k] # NoJwk => \/ <<i, k>> \in revoked'
                                                \/ keys'[i][k] = keys[i][k]
  <1>1. ASSUME NEW i \in Issuers, NEW j \in Jwks, Add(i, j) PROVE Kept
    BY <1>1, JwksAssumption DEF Add, Stored
  <1>2. ASSUME NEW i \in Issuers, NEW k \in Kids, Remove(i, k) PROVE Kept
    BY <1>2 DEF Remove, Recorded
  <1>3. ASSUME NEW i \in Issuers, NEW k \in Kids, Get(i, k) PROVE Kept
    BY <1>3 DEF Get
  <1>4. ASSUME UNCHANGED vars PROVE Kept
    BY <1>4 DEF vars
  <1> QED
    BY <1>1, <1>2, <1>3, <1>4 DEF Next

\* What backs a token goes on backing it while the goroutine keeps it.
LEMMA BackedKept ==
    ASSUME VerifyInv, [VerifyNext]_verifyVars, NEW p \in Procs, NEW j,
           HasToken(p), Backed(p, j), j # NoJwk, token'[p] = token[p]
    PROVE  Backed(p, j)'
  <1>1. token[p].iss \in Issuers /\ token[p].kid \in Kids
    BY TokensAssumption DEF HasToken
  <1> QED
    BY <1>1, VerifyUsesStore, StoreKeeps DEF Backed, VerifyInv

\* Every check yields one of the verdicts (JwtChecks).
LEMMA CheckTypes ==
    ASSUME NEW t \in Tokens, NEW auds, NEW now, NEW j
    PROVE  /\ TokenCheck(t, auds, now) \in (Verdicts \ {"none", "accepted"}) \union {"ok"}
           /\ KeyCheck(j, t) \in Verdicts \ {"none"}
           /\ TokenCheck(t, auds, now) = "ok" => t.kid \in Kids
           /\ KeyCheck(j, t) = "accepted" => j # NoJwk /\ t.signer = j
  BY TokensAssumption DEF TokenCheck, KeyCheck, Verdicts

\* Goroutines that take no step keep what holds of them, whatever the store does.
LEMMA Bystander ==
    ASSUME VerifyInv, [VerifyNext]_verifyVars, NEW q \in Procs,
           vpc'[q] = vpc[q], token'[q] = token[q], key'[q] = key[q],
           verdict'[q] = verdict[q], late'[q] = late[q]
    PROVE  Busy(q)' /\ Vouched(q)'
  <1>1. Busy(q) /\ Vouched(q)
    BY DEF VerifyInv, BusyInv, AcceptedInv
  <1>2. removed \subseteq removed'
    BY VerifyUsesStore, StoreKeeps DEF VerifyInv
  <1>3. Busy(q)'
    BY <1>1, <1>2, BackedKept DEF Busy, HasToken
  <1>4. Vouched(q)'
    BY <1>1, BackedKept DEF Vouched, Accepted, HasToken
  <1> QED
    BY <1>3, <1>4

\* A goroutine whose Verify has just begun or returned.
LEMMA BeginPreserves ==
    ASSUME VerifyInv, [VerifyNext]_verifyVars, NEW p \in Procs, NEW t \in Tokens,
           NEW auds, NEW now, Begin(p, t, auds, now)
    PROVE  VerifyTypeOK' /\ BusyInv' /\ AcceptedInv'
  <1> USE DEF VerifyInv, VerifyTypeOK
  <1>1. TypeOK'
    BY VerifyUsesStore, TrustPreserved DEF TrustInv
  <1>2. CASE TokenCheck(t, auds, now) = "ok"
    <2> DEFINE gone == <<t.iss, t.kid>> \in removed
    <2>0. gone \in BOOLEAN
      <3>1. CASE gone
        BY <3>1
      <3>2. CASE ~gone
        BY <3>2
      <3> QED
        BY <3>1, <3>2
    <2>a. /\ vpc' = [vpc EXCEPT ![p] = "get"] /\ token' = [token EXCEPT ![p] = t]
          /\ verdict' = [verdict EXCEPT ![p] = "none"] /\ late' = [late EXCEPT ![p] = gone]
          /\ key' = key
          /\ UNCHANGED removed
      BY <1>2 DEF Begin, vars, historyVars
    <2>b. gone => <<t.iss, t.kid>> \in removed
      OBVIOUS
    <2> HIDE DEF gone
    <2>1. VerifyTypeOK'
      BY <1>1, <2>0, <2>a DEF Verdicts
    <2>2. Busy(p)' /\ Vouched(p)'
      BY <1>2, <2>0, <2>a, <2>b, CheckTypes DEF Busy, Vouched, Accepted, HasToken
    <2>3. ASSUME NEW q \in Procs \ {p} PROVE Busy(q)' /\ Vouched(q)'
      BY <1>2, <2>3, Bystander DEF Begin
    <2> QED
      BY <2>1, <2>2, <2>3 DEF BusyInv, AcceptedInv
  <1>3. CASE TokenCheck(t, auds, now) # "ok"
    <2>1. TokenCheck(t, auds, now) \in Verdicts \ {"none", "accepted"}
      BY <1>3, CheckTypes
    <2>2. Return(p, TokenCheck(t, auds, now))
      BY <1>3 DEF Begin
    <2>3. VerifyTypeOK'
      BY <1>1, <2>1, <2>2 DEF Return
    <2>4. Busy(p)' /\ Vouched(p)'
      BY <2>1, <2>2 DEF Return, Busy, Vouched, Accepted
    <2>5. ASSUME NEW q \in Procs \ {p} PROVE Busy(q)' /\ Vouched(q)'
      BY <2>1, <2>2, <2>5, Bystander DEF Return
    <2> QED
      BY <2>3, <2>4, <2>5 DEF BusyInv, AcceptedInv
  <1> QED
    BY <1>2, <1>3

\* A key is found only if its kid was never removed, and it is the stored one.
LEMMA GetKeyPreserves ==
    ASSUME VerifyInv, [VerifyNext]_verifyVars, NEW p \in Procs, GetKey(p)
    PROVE  VerifyTypeOK' /\ BusyInv' /\ AcceptedInv'
  <1> USE DEF VerifyInv, VerifyTypeOK
  <1> DEFINE i == token[p].iss
             k == token[p].kid
             j == IF GetResult(i, k) = "key" THEN Found(i, k) ELSE NoJwk
  <1>1. TypeOK'
    BY VerifyUsesStore, TrustPreserved DEF TrustInv
  <1>2. HasToken(p) /\ verdict[p] = "none" /\ (late[p] => <<i, k>> \in removed)
    BY DEF GetKey, BusyInv, Busy
  <1>3. i \in Issuers /\ k \in Kids
    BY <1>2, TokensAssumption DEF HasToken
  <1>4. j \in Jwks \union {NoJwk} /\ (j # NoJwk => <<i, k>> \notin revoked /\ j = keys[i][k])
    BY <1>3 DEF Found, GetResult, TypeOK
  <1>5. /\ vpc' = [vpc EXCEPT ![p] = "check"] /\ key' = [key EXCEPT ![p] = j]
        /\ UNCHANGED <<token, verdict, late>>
        /\ UNCHANGED <<keys, revoked, removed>>
    BY DEF GetKey, Get, storeVars, historyVars
  <1> HIDE DEF j
  <1>6. VerifyTypeOK'
    BY <1>1, <1>4, <1>5
  <1>7. Busy(p)' /\ Vouched(p)'
    BY <1>2, <1>4, <1>5 DEF Busy, Vouched, Accepted, HasToken, Backed, TrustInv
  <1>8. ASSUME NEW q \in Procs \ {p} PROVE Busy(q)' /\ Vouched(q)'
    BY <1>5, <1>8, Bystander
  <1> QED
    BY <1>6, <1>7, <1>8 DEF BusyInv, AcceptedInv

\* A token is accepted only by the key that Get handed out for it.
LEMMA FinishPreserves ==
    ASSUME VerifyInv, [VerifyNext]_verifyVars, NEW p \in Procs, Finish(p)
    PROVE  VerifyTypeOK' /\ BusyInv' /\ AcceptedInv'
  <1> USE DEF VerifyInv, VerifyTypeOK
  <1> DEFINE v == KeyCheck(key[p], token[p])
  <1>1. TypeOK'
    BY VerifyUsesStore, TrustPreserved DEF TrustInv
  <1>2. HasToken(p) /\ (key[p] # NoJwk => ~late[p] /\ Backed(p, key[p]))
    BY DEF Finish, BusyInv, Busy
  <1>3. /\ v \in Verdicts
        /\ v = "accepted" => key[p] # NoJwk /\ token[p].signer = key[p]
    BY <1>2, CheckTypes DEF HasToken
  <1>4. Return(p, v) /\ UNCHANGED <<keys, revoked>>
    BY DEF Finish, vars, storeVars
  <1> HIDE DEF v
  <1>5. VerifyTypeOK'
    BY <1>1, <1>3, <1>4 DEF Return
  <1>6. Busy(p)' /\ Vouched(p)'
    BY <1>2, <1>3, <1>4 DEF Return, Busy, Vouched, Accepted, HasToken, Backed
  <1>7. ASSUME NEW q \in Procs \ {p} PROVE Busy(q)' /\ Vouched(q)'
    BY <1>4, <1>7, Bystander DEF Return
  <1> QED
    BY <1>5, <1>6, <1>7 DEF BusyInv, AcceptedInv

\* The invariant holds in every behaviour of the verifiers and the store.
THEOREM VerifyInvariant == VerifySpec => []VerifyInv
  <1>1. VerifyInit => VerifyInv
    BY TrustInit DEF VerifyInit, VerifyInv, TrustInv, VerifyTypeOK, Verdicts, BusyInv, Busy,
                     AcceptedInv, Vouched, Accepted
  <1>2. ASSUME VerifyInv, [VerifyNext]_verifyVars PROVE VerifyInv'
    <2>1. TrustInv'
      BY <1>2, VerifyUsesStore, TrustPreserved DEF VerifyInv
    <2>2. CASE UNCHANGED verifierVars
      <3>1. VerifyTypeOK'
        BY <1>2, <2>1, <2>2 DEF VerifyInv, VerifyTypeOK, TrustInv, verifierVars
      <3>2. ASSUME NEW q \in Procs PROVE Busy(q)' /\ Vouched(q)'
        BY <1>2, <2>2, <3>2, Bystander DEF verifierVars
      <3> QED
        BY <2>1, <3>1, <3>2 DEF VerifyInv, BusyInv, AcceptedInv
    <2>3. ASSUME NEW p \in Procs, NEW t \in Tokens, NEW auds \in Audiences,
                 NEW now \in Times, Begin(p, t, auds, now)
          PROVE  VerifyInv'
      BY <1>2, <2>1, <2>3, BeginPreserves DEF VerifyInv
    <2>4. ASSUME NEW p \in Procs, GetKey(p) PROVE VerifyInv'
      BY <1>2, <2>1, <2>4, GetKeyPreserves DEF VerifyInv
    <2>5. ASSUME NEW p \in Procs, Finish(p) PROVE VerifyInv'
      BY <1>2, <2>1, <2>5, FinishPreserves DEF VerifyInv
    <2> QED
      BY <1>2, <2>2, <2>3, <2>4, <2>5 DEF VerifyNext, verifyVars
  <1> QED
    BY <1>1, <1>2, PTL DEF VerifySpec

\* Every step of Verify keeps its state within its types (VerifyTypeOK).
THEOREM VerifyTypeCorrect == VerifySpec => []VerifyTypeOK
  <1>1. VerifyInv => VerifyTypeOK
    BY DEF VerifyInv
  <1> QED
    BY <1>1, VerifyInvariant, PTL

\* A Verify begun after Remove returned true never accepts a token of that
\* issuer and kid, for any number of goroutines (RemovedIsRejected).
THEOREM RemovedIsRejectedTheorem == VerifySpec => []RemovedIsRejected
  <1>1. VerifyInv => RemovedIsRejected
    BY DEF VerifyInv, AcceptedInv, Vouched, RemovedIsRejected
  <1> QED
    BY <1>1, VerifyInvariant, PTL

\* An accepted token was signed by the key stored for its own issuer and kid
\* (AcceptedByIssuersKey).
THEOREM AcceptedByIssuersKeyTheorem == VerifySpec => []AcceptedByIssuersKey
  <1>1. VerifyInv => AcceptedByIssuersKey
    BY DEF VerifyInv, AcceptedInv, Vouched, Backed, AcceptedByIssuersKey
  <1> QED
    BY <1>1, VerifyInvariant, PTL

=============================================================================
