---------------------------- MODULE JwtJwksProofs ----------------------------
(* Verify over the JWKS trust store, for every set of goroutines, tokens,   *)
(* issuers and kids and every choice of the intervals.                      *)
EXTENDS JwtJwks, JwksTrustStoreProofs

-----------------------------------------------------------------------------
(* The inductive invariant.                                                *)

VerifyTypeOK ==
    /\ token \in [Procs -> Tokens \union {NoToken}]
    /\ left \in [Procs -> Int]
    /\ grace \in [Procs -> 0 .. Horizon + 1]
    /\ calmAge \in [Kids -> Ages]
    /\ raced \in SUBSET Procs

\* A goroutine is inside Get for the kid of the token it verifies.
TokenInv ==
    \A p \in Procs :
        /\ token[p] = NoToken => pc[p] = "idle"
        /\ token[p] # NoToken => token[p].kid \in Kids /\ kid[p] = token[p].kid

\* What the last attempt was, of the store alone.
AttemptInv ==
    /\ issuers \in {{}, InputIssuers}
    /\ outcome = "none" => attemptAge = Never
    /\ outcome = "pending" => \E q \in Procs : pc[q] = "fetch"
    /\ Prompt => \A p \in Procs : pc[p] = "final" =>
        outcome = "ok" /\ fetchedAge = 0 /\ attemptAge \in 0 .. RefreshTime

\* Nothing that a fetch of k depends on has changed for calmAge[k], and an attempt
\* that failed began before that.
CalmInv ==
    \A k \in Kids :
        /\ calmAge[k] > 0 => Calm(k)
        /\ calmAge[k] <= changedAge[k]
        /\ \A j \in Kids \ Loadable : calmAge[k] <= changedAge[j]
        /\ outcome = "failed" => attemptAge # Never /\ calmAge[k] <= attemptAge

\* p is past Get.
Returned(p) == token[p] # NoToken /\ pc[p] = "idle"

\* The key that Get returned is no older now than it was then.
PublishedInv ==
    Prompt /\ RefreshInterval > 0 =>
        \A p \in Procs : Returned(p) /\ answer[p] = "key" =>
            PublishedWithin(kid[p], RefreshInterval + RefreshTime)

\* left stops at -Horizon.
FloorInv == \A p \in Procs : left[p] >= -Horizon

\* Somebody's request is in flight.
InFlight == \E q \in Procs : pc[q] = "fetch"

\* The time that p has lost fits in its grace; in flight, that of this request is still
\* to come; between requests there is time for another one, or nobody may begin one.
Timely(p) ==
    /\ left[p] + grace[p] > 0
    /\ pc[p] \in {"lookup", "refresh"} => left[p] + grace[p] > RefreshTime
    /\ pc[p] \in {"lock", "recheck"} /\ ~InFlight =>
        left[p] + grace[p] > RefreshTime \/ CoolingDown
    /\ pc[p] \in {"lock", "fetch"} /\ InFlight =>
        left[p] + grace[p] + attemptAge > RefreshTime

TimeInv ==
    Prompt => \A p \in Procs : token[p] # NoToken => grace[p] = Horizon + 1 \/ Timely(p)

\* Why p, with token t, may be without a key.
Cause(p, t) ==
    \/ t.iss \notin InputIssuers
    \/ p \in raced
    \/ calmAge[t.kid] < MinRefreshInterval
    \/ calmAge[t.kid] <= RefreshTime

CauseInv ==
    Prompt /\ (RefreshInterval = 0 \/ RefreshInterval >= MinRefreshInterval) =>
        \A p \in Procs : Returned(p) /\ answer[p] # "key" => Cause(p, token[p])

VerifyInv ==
    /\ StoreInv /\ AgeInv /\ VerifyTypeOK /\ TokenInv /\ AttemptInv /\ CalmInv
    /\ PublishedInv /\ FloorInv /\ TimeInv /\ CauseInv

USE ConstantsAssumption DEF Never, Ages, NoBody, PCs, Answers, Outcomes

-----------------------------------------------------------------------------
(* Steps of Verify are steps of the store.                                 *)

\* A token that passes the checks before Get has a kid, and time left.
LEMMA CheckedToken ==
    ASSUME NEW t \in Tokens, NEW auds, TokenCheck(t, auds, 0) = "ok"
    PROVE  t.kid \in Kids /\ t.iss \in Issuers /\ t.exp \in Int /\ t.exp > 0 /\ t # NoToken
  BY TokensAssumption DEF TokenCheck

\* Whatever a goroutine in Verify, the endpoint or the clock does, the store does a
\* step of its own or nothing (Verify, Get).
LEMMA VerifyUsesStore ==
    ASSUME VerifyNext
    PROVE  [Next]_vars
  <1>1. CASE Endpoint
    BY <1>1 DEF Endpoint, Next
  <1>2. CASE VerifyTick
    BY <1>2 DEF VerifyTick, Next
  <1>3. ASSUME NEW p \in Procs, NEW t \in Tokens, NEW auds \in Audiences, Begin(p, t, auds)
        PROVE  Next
    <2>1. t.iss \in Issuers /\ t.kid \in Kids /\ Call(p, t.iss, t.kid)
      BY <1>3, CheckedToken DEF Begin
    <2> QED
      BY <2>1 DEF Next
  <1>4. ASSUME NEW p \in Procs, VerifyLookup(p) \/ GetStep(p) \/ EndRequest(p) PROVE Next
    BY <1>4 DEF VerifyLookup, GetStep, EndRequest, Next
  <1>5. ASSUME NEW p \in Procs, Finish(p) PROVE UNCHANGED vars
    BY <1>5 DEF Finish
  <1> QED
    BY <1>1, <1>2, <1>3, <1>4, <1>5 DEF VerifyNext

\* Types.
LEMMA VerifyTypePreserved ==
    ASSUME StoreInv, VerifyTypeOK, VerifyNext
    PROVE  VerifyTypeOK'
  <1> USE DEF VerifyTypeOK
  <1>1. CASE Endpoint
    BY <1>1 DEF Endpoint, Calmed
  <1>2. CASE VerifyTick
    BY <1>2 DEF VerifyTick, Older
  <1>3. ASSUME NEW p \in Procs, NEW t \in Tokens, NEW auds \in Audiences, Begin(p, t, auds)
        PROVE  VerifyTypeOK'
    BY <1>3, CheckedToken DEF Begin
  <1>4. ASSUME NEW p \in Procs, VerifyLookup(p) PROVE VerifyTypeOK'
    BY <1>4 DEF VerifyLookup
  <1>5. ASSUME NEW p \in Procs, GetStep(p) PROVE VerifyTypeOK'
    BY <1>5 DEF GetStep, verifierVars
  <1>6. ASSUME NEW p \in Procs, Finish(p) PROVE VerifyTypeOK'
    BY <1>6 DEF Finish
  <1>7. ASSUME NEW p \in Procs, EndRequest(p) PROVE VerifyTypeOK'
    BY <1>7 DEF EndRequest, Capped
  <1> QED
    BY <1>1, <1>2, <1>3, <1>4, <1>5, <1>6, <1>7 DEF VerifyNext

\* What a step of Get changes of the goroutines.
LEMMA GetStepPc ==
    ASSUME StoreInv, NEW p \in Procs, VerifyLookup(p) \/ GetStep(p) \/ EndRequest(p)
    PROVE  /\ pc[p] # "idle" /\ kid' = kid /\ token' = token /\ left' = left
           /\ calmAge' = calmAge
           /\ \A q \in Procs : q # p => pc'[q] = pc[q] /\ answer'[q] = answer[q]
  BY DEF VerifyLookup, GetStep, EndRequest, verifierVars, Lookup, LockFetchMu, Recheck, BeginRefresh,
         Respond, FetchFail, Install, FinalLookup, Return, StoreInv, TypeOK, storeVars, procVars

\* What a change of the endpoint leaves alone.
LEMMA EndpointFrame ==
    ASSUME Endpoint
    PROVE  /\ UNCHANGED <<storeVars, procVars, sampleAge, bodyAge, outcome, joined>>
           /\ UNCHANGED <<token, left, grace, raced>>
  BY DEF Endpoint, Publish, Withdraw, ToggleEndpoint, storeVars, procVars, historyVars

\* A goroutine verifies the token whose kid it asked for.
LEMMA TokenPreserved ==
    ASSUME StoreInv, VerifyTypeOK, TokenInv, VerifyNext
    PROVE  TokenInv'
  <1> USE DEF VerifyTypeOK, TokenInv, StoreInv, TypeOK
  <1>1. CASE Endpoint
    BY <1>1, EndpointFrame DEF procVars
  <1>2. CASE VerifyTick
    BY <1>2 DEF VerifyTick, Tick, procVars
  <1>3. ASSUME NEW p \in Procs, NEW t \in Tokens, NEW auds \in Audiences, Begin(p, t, auds)
        PROVE  TokenInv'
    BY <1>3, CheckedToken DEF Begin, Call
  <1>4. ASSUME NEW p \in Procs, VerifyLookup(p) \/ GetStep(p) \/ EndRequest(p) PROVE TokenInv'
    BY <1>4, GetStepPc
  <1>5. ASSUME NEW p \in Procs, Finish(p) PROVE TokenInv'
    BY <1>5 DEF Finish, vars, procVars
  <1> QED
    BY <1>1, <1>2, <1>3, <1>4, <1>5 DEF VerifyNext

-----------------------------------------------------------------------------
(* Attempts and calm.                                                      *)

\* What is known of the last attempt.
LEMMA AttemptPreserved ==
    ASSUME StoreInv, AttemptInv, [Next]_vars
    PROVE  AttemptInv'
  <1> USE DEF AttemptInv, StoreInv, TypeOK, MutexInv, InFetchMu, RequestInv, storeVars,
              procVars, endpointVars, historyVars
  <1>1. ASSUME NEW k \in Kids, Publish(k) \/ Withdraw(k) PROVE AttemptInv'
    BY <1>1 DEF Publish, Withdraw
  <1>2. CASE ToggleEndpoint
    BY <1>2 DEF ToggleEndpoint
  <1>3. CASE Tick
    BY <1>3 DEF Tick, Older, Waiting
  <1>4. ASSUME NEW p \in Procs, NEW iss \in Issuers, NEW k \in Kids, Call(p, iss, k)
        PROVE  AttemptInv'
    BY <1>4 DEF Call, KnownIssuers
  <1>5. ASSUME NEW p \in Procs, Lookup(p) PROVE AttemptInv'
    BY <1>5 DEF Lookup, Return
  <1>6. ASSUME NEW p \in Procs, LockFetchMu(p) PROVE AttemptInv'
    BY <1>6 DEF LockFetchMu
  <1>7. ASSUME NEW p \in Procs, Recheck(p) PROVE AttemptInv'
    BY <1>7 DEF Recheck, Return
  <1>8. ASSUME NEW p \in Procs, BeginRefresh(p) PROVE AttemptInv'
    BY <1>8 DEF BeginRefresh
  <1>9. ASSUME NEW p \in Procs, Respond(p) PROVE AttemptInv'
    BY <1>9 DEF Respond
  <1>10. ASSUME NEW p \in Procs, FetchFail(p) PROVE AttemptInv'
    BY <1>10 DEF FetchFail, Return
  <1>11. ASSUME NEW p \in Procs, Install(p) PROVE AttemptInv'
    BY <1>11 DEF Install
  <1>12. ASSUME NEW p \in Procs, FinalLookup(p) PROVE AttemptInv'
    BY <1>12 DEF FinalLookup, Return
  <1>13. CASE UNCHANGED vars
    BY <1>13 DEF vars
  <1> QED
    BY <1>1, <1>2, <1>3, <1>4, <1>5, <1>6, <1>7, <1>8, <1>9, <1>10, <1>11,
       <1>12, <1>13 DEF Next

\* A set that the endpoint sampled during the calm loads; one that was installed
\* from an attempt begun in it has the kid.
LEMMA CalmFacts ==
    ASSUME StoreInv, VerifyTypeOK, CalmInv, NEW k \in Kids
    PROVE  /\ \A p \in Procs : body[p] # NoBody /\ calmAge[k] > bodyAge[p] => Loads(p)
           /\ outcome = "ok" /\ calmAge[k] > attemptAge => k \in keys
  <1> USE DEF StoreInv, TypeOK, VerifyTypeOK, CalmInv
  <1>1. ASSUME NEW p \in Procs, body[p] # NoBody, calmAge[k] > bodyAge[p] PROVE Loads(p)
    <2>1. Calm(k) /\ body[p] \in SUBSET Kids
      BY <1>1
    <2>2. ASSUME NEW j \in body[p], j \notin Loadable PROVE FALSE
      <3>1. PublishedWithin(j, bodyAge[p])
        BY <1>1, <2>1, <2>2 DEF BodyInv, SampledWithin
      <3>2. j \notin upstream /\ calmAge[k] <= changedAge[j]
        BY <2>1, <2>2 DEF Calm
      <3> QED
        BY <1>1, <2>1, <3>1, <3>2 DEF PublishedWithin
    <2> QED
      BY <2>2 DEF Loads
  <1>2. ASSUME outcome = "ok", calmAge[k] > attemptAge, k \notin keys PROVE FALSE
    <2>1. sampleAge # Never /\ sampleAge <= attemptAge
      BY <1>2 DEF OutcomeInv
    <2>2. Calm(k)
      BY <1>2, <2>1
    <2>3. AbsentWithin(k, sampleAge)
      BY <1>2, <2>1 DEF CacheInv, SampledWithin
    <2> QED
      BY <1>2, <2>1, <2>2, <2>3 DEF AbsentWithin, Calm
  <1> QED
    BY <1>1, <1>2

\* An attempt that fails began before the calm.
LEMMA FailFacts ==
    ASSUME StoreInv, VerifyTypeOK, CalmInv, NEW k \in Kids, NEW p \in Procs, FetchFail(p)
    PROVE  attemptAge \in 0 .. RefreshTime /\ calmAge[k] <= attemptAge
  <1> USE DEF StoreInv, TypeOK, VerifyTypeOK
  <1>1. attemptAge \in 0 .. RefreshTime
    BY DEF FetchFail, RequestInv
  <1>2. CASE ~up
    BY <1>1, <1>2 DEF CalmInv, Calm
  <1>3. CASE body[p] # NoBody /\ ~Loads(p)
    <2>1. bodyAge[p] <= attemptAge
      BY <1>3 DEF RequestInv
    <2>2. ~(calmAge[k] > bodyAge[p])
      BY <1>3, CalmFacts
    <2> QED
      BY <1>1, <2>1, <2>2
  <1> QED
    BY <1>1, <1>2, <1>3 DEF FetchFail

\* Every step keeps the account of the calm.
LEMMA CalmPreserved ==
    ASSUME StoreInv, VerifyTypeOK, CalmInv, VerifyNext
    PROVE  CalmInv'
  <1> USE DEF StoreInv, TypeOK, VerifyTypeOK
  <1>1. CASE Endpoint
    <2> SUFFICES ASSUME NEW k \in Kids
                 PROVE  /\ calmAge'[k] > 0 => Calm(k)'
                        /\ calmAge'[k] <= changedAge'[k]
                        /\ \A j \in Kids \ Loadable : calmAge'[k] <= changedAge'[j]
                        /\ outcome' = "failed" => attemptAge' # Never /\ calmAge'[k] <= attemptAge'
      BY DEF CalmInv
    <2>1. calmAge'[k] = IF Calm(k) /\ Calm(k)' THEN calmAge[k] ELSE 0
      BY <1>1 DEF Endpoint, Calmed
    <2>2. UNCHANGED <<attemptAge, outcome>>
      BY <1>1, EndpointFrame DEF storeVars
    <2>3. changedAge' \in [Kids -> Ages]
      BY <1>1 DEF Endpoint, Publish, Withdraw, ToggleEndpoint, historyVars
    <2>4. CASE ~(Calm(k) /\ Calm(k)')
      BY <2>1, <2>2, <2>3, <2>4 DEF CalmInv
    <2>5. CASE Calm(k) /\ Calm(k)'
      <3>1. ASSUME NEW j \in Kids, j = k \/ j \notin Loadable PROVE changedAge'[j] = changedAge[j]
        <4>1. /\ k \in upstream /\ upstream \subseteq Loadable
              /\ k \in upstream' /\ upstream' \subseteq Loadable
          BY <2>5 DEF Calm
        <4>2. CASE ToggleEndpoint
          BY <4>2 DEF ToggleEndpoint, historyVars
        <4>3. ASSUME NEW i \in Kids, Publish(i) \/ Withdraw(i) PROVE changedAge'[j] = changedAge[j]
          <5>1. i # k /\ i \in Loadable
            BY <4>1, <4>3 DEF Publish, Withdraw
          <5> QED
            BY <3>1, <4>3, <5>1 DEF Publish, Withdraw
        <4> QED
          BY <1>1, <4>2, <4>3 DEF Endpoint
      <3> QED
        BY <2>1, <2>2, <2>5, <3>1 DEF CalmInv
    <2> QED
      BY <2>4, <2>5
  <1>2. CASE VerifyTick
    <2>1. UNCHANGED <<upstream, up, outcome>>
      BY <1>2 DEF VerifyTick, Tick, endpointVars
    <2>2. \A k \in Kids : Calm(k)' <=> Calm(k)
      BY <2>1 DEF Calm
    <2>3. /\ calmAge' = [k \in Kids |-> IF Calm(k) THEN Older(calmAge[k]) ELSE 0]
          /\ changedAge' = [k \in Kids |-> Older(changedAge[k])]
          /\ attemptAge' = Older(attemptAge)
      BY <1>2 DEF VerifyTick, Tick
    <2>4. ASSUME NEW k \in Kids
          PROVE  /\ calmAge'[k] > 0 => Calm(k)'
                 /\ calmAge'[k] <= changedAge'[k]
                 /\ \A j \in Kids \ Loadable : calmAge'[k] <= changedAge'[j]
                 /\ outcome' = "failed" => attemptAge' # Never /\ calmAge'[k] <= attemptAge'
      <3>1. calmAge'[k] = IF Calm(k) THEN Older(calmAge[k]) ELSE 0
        BY <2>3
      <3>2. ASSUME NEW j \in Kids, calmAge[k] <= changedAge[j] PROVE calmAge'[k] <= changedAge'[j]
        BY <2>3, <3>1, <3>2 DEF Older
      <3>3. ASSUME outcome' = "failed" PROVE attemptAge' # Never /\ calmAge'[k] <= attemptAge'
        <4>1. attemptAge # Never /\ calmAge[k] <= attemptAge
          BY <2>1, <3>3 DEF CalmInv
        <4>2. attemptAge \in Ages /\ calmAge[k] \in Ages /\ attemptAge' = Older(attemptAge)
          BY <2>3, <4>1
        <4> QED
          BY <3>1, <4>1, <4>2 DEF Older
      <3>4. calmAge'[k] > 0 => Calm(k)'
        BY <2>2, <3>1
      <3> QED
        BY <3>2, <3>3, <3>4 DEF CalmInv
    <2> QED
      BY <2>4 DEF CalmInv
  <1>3. ASSUME NEW p \in Procs, NEW t \in Tokens, NEW auds \in Audiences, Begin(p, t, auds)
        PROVE  CalmInv'
    BY <1>3 DEF Begin, Call, CalmInv, Calm, endpointVars, historyVars
  <1>4. ASSUME NEW p \in Procs, VerifyLookup(p) \/ GetStep(p) \/ EndRequest(p) PROVE CalmInv'
    <2>1. calmAge' = calmAge
      BY <1>4, GetStepPc
    <2>2. UNCHANGED <<upstream, up, changedAge>>
      BY <1>4 DEF VerifyLookup, GetStep, EndRequest, Lookup, LockFetchMu, Recheck, BeginRefresh, Respond,
                  FetchFail, Install, FinalLookup, endpointVars, historyVars
    <2>3. ASSUME NEW k \in Kids
          PROVE  outcome' = "failed" => attemptAge' # Never /\ calmAge[k] <= attemptAge'
      <3>1. CASE FetchFail(p)
        <4>1. attemptAge \in 0 .. RefreshTime /\ calmAge[k] <= attemptAge
          BY <3>1, FailFacts
        <4>2. attemptAge' = attemptAge
          BY <3>1 DEF FetchFail, storeVars
        <4> QED
          BY <4>1, <4>2
      <3>2. CASE BeginRefresh(p) \/ Install(p)
        BY <3>2 DEF BeginRefresh, Install
      <3>3. CASE Lookup(p) \/ LockFetchMu(p) \/ Recheck(p) \/ Respond(p) \/ FinalLookup(p)
        <4>1. UNCHANGED <<outcome, attemptAge>>
          BY <3>3 DEF Lookup, LockFetchMu, Recheck, Respond, FinalLookup, storeVars, historyVars
        <4> QED
          BY <4>1 DEF CalmInv
      <3> QED
        BY <1>4, <3>1, <3>2, <3>3 DEF VerifyLookup, GetStep, EndRequest
    <2> QED
      BY <2>1, <2>2, <2>3 DEF CalmInv, Calm
  <1>5. ASSUME NEW p \in Procs, Finish(p) PROVE CalmInv'
    BY <1>5 DEF Finish, CalmInv, Calm, vars, storeVars, endpointVars, historyVars
  <1> QED
    BY <1>1, <1>2, <1>3, <1>4, <1>5 DEF VerifyNext

-----------------------------------------------------------------------------
(* What Get returns to Verify.                                             *)

\* Which step of Get returns, and why.
LEMMA GetReturnsBy ==
    ASSUME StoreInv, NEW p \in Procs, VerifyLookup(p) \/ GetStep(p) \/ EndRequest(p), pc'[p] = "idle"
    PROVE  \/ Lookup(p) /\ VerifyLookup(p) /\ answer'[p] = LookupResult(kid[p])
           \/ Recheck(p) /\ answer'[p] = LookupResult(kid[p])
           \/ FetchFail(p) /\ answer'[p] = "error"
           \/ FinalLookup(p) /\ answer'[p] = IF LookupResult(kid[p]) = "fetch" THEN "unknown"
                                             ELSE LookupResult(kid[p])
  <1> USE DEF StoreInv, TypeOK
  <1>1. CASE VerifyLookup(p)
    BY <1>1 DEF VerifyLookup, Lookup, Return
  <1>2. CASE LockFetchMu(p) \/ BeginRefresh(p) \/ Respond(p) \/ Install(p)
    BY <1>2 DEF LockFetchMu, BeginRefresh, Respond, Install
  <1>3. CASE Recheck(p)
    BY <1>3 DEF Recheck, Return
  <1>4. CASE FetchFail(p)
    BY <1>4 DEF FetchFail, Return
  <1>5. CASE FinalLookup(p)
    BY <1>5 DEF FinalLookup, Return
  <1> QED
    BY <1>1, <1>2, <1>3, <1>4, <1>5 DEF GetStep, EndRequest

\* A key that lookup answers was published lately.
LEMMA KeyIsPublished ==
    ASSUME StoreInv, RefreshInterval > 0, NEW k \in Kids, LookupResult(k) = "key"
    PROVE  PublishedWithin(k, RefreshInterval + RefreshTime)
  <1>1. k \in keys /\ Fresh
    BY DEF LookupResult
  <1>2. sampleAge # Never /\ sampleAge <= RefreshInterval + RefreshTime
    BY <1>1 DEF Fresh, StoreInv, TypeOK, CacheInv
  <1>3. PublishedWithin(k, sampleAge)
    BY <1>1, <1>2 DEF StoreInv, TypeOK, CacheInv, SampledWithin
  <1> QED
    BY <1>2, <1>3 DEF PublishedWithin, StoreInv, TypeOK

\* No time passes between Get and the end of Verify.
LEMMA PublishedPreserved ==
    ASSUME StoreInv, VerifyTypeOK, TokenInv, PublishedInv, VerifyNext
    PROVE  PublishedInv'
  <1> SUFFICES ASSUME Prompt, RefreshInterval > 0, NEW q \in Procs,
                      Returned(q)', answer'[q] = "key"
               PROVE  PublishedWithin(kid[q], RefreshInterval + RefreshTime)'
    BY DEF PublishedInv
  <1> USE DEF StoreInv, TypeOK, VerifyTypeOK, Returned
  <1>1. CASE Endpoint
    <2>1. UNCHANGED <<token, pc, answer, kid>>
      BY <1>1, EndpointFrame DEF procVars
    <2>2. PublishedWithin(kid[q], RefreshInterval + RefreshTime)
      BY <2>1 DEF PublishedInv
    <2> QED
      BY <1>1, <2>1, <2>2
         DEF PublishedWithin, Endpoint, Publish, Withdraw, ToggleEndpoint, historyVars
  <1>2. CASE VerifyTick
    BY <1>2 DEF VerifyTick, Tick, procVars
  <1>3. ASSUME NEW p \in Procs, NEW t \in Tokens, NEW auds \in Audiences, Begin(p, t, auds)
        PROVE  PublishedWithin(kid[q], RefreshInterval + RefreshTime)'
    <2>1. q # p
      BY <1>3 DEF Begin, Call
    <2>2. kid'[q] = kid[q] /\ Returned(q) /\ answer[q] = "key" /\ UNCHANGED <<upstream, changedAge>>
      BY <1>3, <2>1 DEF Begin, Call, endpointVars, historyVars
    <2> QED
      BY <2>2 DEF PublishedInv, PublishedWithin
  <1>4. ASSUME NEW p \in Procs, VerifyLookup(p) \/ GetStep(p) \/ EndRequest(p)
        PROVE  PublishedWithin(kid[q], RefreshInterval + RefreshTime)'
    <2>1. UNCHANGED <<upstream, changedAge, kid, token>>
      BY <1>4, GetStepPc DEF VerifyLookup, GetStep, EndRequest, Lookup, LockFetchMu, Recheck, BeginRefresh,
                  Respond, FetchFail, Install, FinalLookup, endpointVars, historyVars
    <2>2. PublishedWithin(kid[q], RefreshInterval + RefreshTime)
      <3>1. CASE q # p
        BY <1>4, <2>1, <3>1, GetStepPc DEF PublishedInv
      <3>2. CASE q = p
        <4>1. LookupResult(kid[q]) = "key"
          BY <1>4, <3>2, GetReturnsBy
        <4> QED
          BY <4>1, KeyIsPublished
      <3> QED
        BY <3>1, <3>2
    <2> QED
      BY <2>1, <2>2 DEF PublishedWithin
  <1>5. ASSUME NEW p \in Procs, Finish(p)
        PROVE  PublishedWithin(kid[q], RefreshInterval + RefreshTime)'
    BY <1>5 DEF Finish, vars, procVars, endpointVars, historyVars, PublishedInv, PublishedWithin
  <1> QED
    BY <1>1, <1>2, <1>3, <1>4, <1>5 DEF VerifyNext

\* The time left stops at the horizon.
LEMMA FloorPreserved ==
    ASSUME VerifyTypeOK, FloorInv, VerifyNext
    PROVE  FloorInv'
  <1> USE DEF VerifyTypeOK, FloorInv
  <1>1. CASE VerifyTick
    BY <1>1 DEF VerifyTick
  <1>2. ASSUME NEW p \in Procs, NEW t \in Tokens, NEW auds \in Audiences, Begin(p, t, auds)
        PROVE  FloorInv'
    BY <1>2, CheckedToken DEF Begin
  <1>3. ASSUME NEW p \in Procs, Finish(p) PROVE FloorInv'
    BY <1>3 DEF Finish
  <1>4. ASSUME NEW p \in Procs, VerifyLookup(p) \/ GetStep(p) \/ EndRequest(p)
        PROVE  FloorInv'
    BY <1>4 DEF VerifyLookup, GetStep, EndRequest, verifierVars
  <1>5. CASE Endpoint
    BY <1>5 DEF Endpoint
  <1> QED
    BY <1>1, <1>2, <1>3, <1>4, <1>5 DEF VerifyNext

\* Whoever waits loses no more time than its grace.
LEMMA TimePreserved ==
    ASSUME StoreInv, VerifyTypeOK, TokenInv, TimeInv, VerifyNext
    PROVE  TimeInv'
  <1> SUFFICES ASSUME Prompt, NEW p \in Procs, token'[p] # NoToken, grace'[p] # Horizon + 1
               PROVE  Timely(p)'
    BY DEF TimeInv
  <1>0. token[p] # NoToken /\ grace[p] # Horizon + 1 => Timely(p)
    BY DEF TimeInv
  <1> USE DEF StoreInv, TypeOK, VerifyTypeOK
  <1>1. left[p] \in Int /\ grace[p] \in Int /\ attemptAge \in Int
    OBVIOUS
  <1>2. CASE Endpoint
    <2>1. UNCHANGED <<pc, attemptAge, token, left, grace>>
      BY <1>2, EndpointFrame DEF storeVars, procVars
    <2> QED
      BY <1>0, <2>1 DEF Timely, InFlight, CoolingDown
  <1>3. CASE VerifyTick
    <2>1. UNCHANGED <<pc, token, grace>> /\ attemptAge' = Older(attemptAge)
      BY <1>3 DEF VerifyTick, Tick, procVars
    <2>2. pc[p] # "idle" /\ \A q \in Procs : Waiting(q)
      BY <1>3, <2>1 DEF VerifyTick, Tick
    <2>3. PICK q \in Procs : pc[q] = "fetch"
      BY <2>2 DEF Waiting, MutexInv, InFetchMu
    <2>4. pc[p] \in {"lock", "fetch"} /\ attemptAge \in 0 .. RefreshTime /\ attemptAge < RefreshTime
      BY <1>3, <2>2, <2>3 DEF Waiting, RequestInv, VerifyTick, Tick, RefreshHasTime
    <2>5. attemptAge' = attemptAge + 1
      BY <2>1, <2>4 DEF Older
    <2>6. left[p] + grace[p] + attemptAge > RefreshTime
      BY <1>0, <2>1, <2>3, <2>4 DEF Timely, InFlight
    <2>7. left'[p] \in {left[p], left[p] - 1}
      BY <1>3 DEF VerifyTick
    <2>8. left'[p] + grace[p] + attemptAge' > RefreshTime /\ left'[p] + grace[p] > 0
      BY <1>1, <2>4, <2>5, <2>6, <2>7
    <2> QED
      BY <2>1, <2>3, <2>4, <2>8 DEF Timely, InFlight
  <1>4. ASSUME NEW q \in Procs, NEW t \in Tokens, NEW auds \in Audiences, Begin(q, t, auds)
        PROVE  Timely(p)'
    <2>1. pc[q] = "idle" /\ pc'[q] \in {"idle", "lookup"} /\ UNCHANGED attemptAge
      BY <1>4 DEF Begin, Call
    <2>2. \A r \in Procs : r # q => pc'[r] = pc[r]
      BY <1>4 DEF Begin, Call
    <2>3. InFlight' <=> InFlight
      BY <2>1, <2>2 DEF InFlight
    <2>4. CASE p = q
      <3>1. left'[p] = t.exp /\ t.exp \in Int /\ t.exp > 0 /\ grace'[p] = RefreshTime
        BY <1>4, <2>4, CheckedToken DEF Begin
      <3> QED
        BY <2>1, <2>4, <3>1 DEF Timely
    <2>5. CASE p # q
      <3>1. token'[p] = token[p] /\ left'[p] = left[p] /\ grace'[p] = grace[p] /\ pc'[p] = pc[p]
        BY <1>4, <2>2, <2>5 DEF Begin
      <3> QED
        BY <1>0, <2>1, <2>3, <3>1 DEF Timely, CoolingDown
    <2> QED
      BY <2>4, <2>5
  <1>5. ASSUME NEW q \in Procs, VerifyLookup(q) \/ GetStep(q) PROVE Timely(p)'
    <2>1. UNCHANGED <<token, left, grace>> /\ \A r \in Procs : r # q => pc'[r] = pc[r]
      BY <1>5, GetStepPc DEF VerifyLookup, GetStep, verifierVars
    <2>2. Timely(p)
      BY <1>0, <2>1
    <2> USE DEF Timely, InFlight, CoolingDown, MutexInv, InFetchMu, RequestInv
    <2>3. CASE Lookup(q)
      <3>1. pc[q] = "lookup" /\ pc'[q] \in {"idle", "lock"} /\ UNCHANGED attemptAge
        BY <2>3 DEF Lookup, Return, storeVars
      <3> QED
        BY <1>1, <2>1, <2>2, <3>1
    <2>4. CASE LockFetchMu(q)
      <3>1. pc[q] = "lock" /\ pc'[q] = "recheck" /\ fetchMu = NoProc /\ UNCHANGED attemptAge
        BY <2>4 DEF LockFetchMu, storeVars
      <3> QED
        BY <1>1, <2>1, <2>2, <3>1
    <2>5. CASE Recheck(q)
      <3>1. /\ pc[q] = "recheck" /\ UNCHANGED attemptAge
            /\ pc'[q] # "idle" => pc'[q] = "refresh" /\ ~CoolingDown
        BY <2>5 DEF Recheck, Return, LookupResult, storeVars
      <3> QED
        BY <1>1, <2>1, <2>2, <3>1
    <2>6. CASE BeginRefresh(q)
      <3>1. pc[q] = "refresh" /\ pc'[q] = "fetch" /\ attemptAge' = 0 /\ ~CoolingDown
        BY <2>6 DEF BeginRefresh, SpacingInv
      <3> QED
        BY <1>1, <2>1, <2>2, <3>1
    <2>7. CASE Respond(q)
      <3>1. UNCHANGED <<pc, attemptAge>>
        BY <2>7 DEF Respond, storeVars
      <3> QED
        BY <2>1, <2>2, <3>1
    <2>8. CASE FinalLookup(q)
      <3>1. pc[q] = "final" /\ pc'[q] = "idle" /\ UNCHANGED attemptAge
        BY <2>8 DEF FinalLookup, Return, storeVars
      <3> QED
        BY <1>1, <2>1, <2>2, <3>1
    <2> QED
      BY <1>5, <2>3, <2>4, <2>5, <2>6, <2>7, <2>8 DEF VerifyLookup, GetStep
  <1>6. ASSUME NEW q \in Procs, EndRequest(q) PROVE Timely(p)'
    <2>1. /\ UNCHANGED <<token, left, attemptAge>> /\ pc[q] = "fetch" /\ pc'[q] \in {"idle", "final"}
          /\ \A r \in Procs : r # q => pc'[r] = pc[r]
      BY <1>6 DEF EndRequest, FetchFail, Install, Return, storeVars
    <2>2. /\ attemptAge \in 0 .. RefreshTime
          /\ \A r \in Procs : r # q => pc[r] \notin InFetchMu
      BY <2>1 DEF RequestInv, MutexInv, InFetchMu
    <2>3. InFlight /\ ~InFlight'
      BY <2>1, <2>2 DEF InFlight, InFetchMu
    <2>4. CASE pc[p] = "lock" /\ attemptAge >= MinRefreshInterval
      <3>1. grace'[p] = Capped(grace[p] + RefreshTime)
        BY <1>6, <2>4 DEF EndRequest, WaitingForFetchMu
      <3>2. grace'[p] = grace[p] + RefreshTime /\ grace[p] # Horizon + 1
        BY <1>1, <3>1 DEF Capped
      <3>3. left[p] + grace[p] > 0
        BY <1>0, <2>1, <3>2 DEF Timely
      <3> QED
        BY <1>1, <2>1, <2>3, <2>4, <3>2, <3>3 DEF Timely
    <2>5. CASE ~(pc[p] = "lock" /\ attemptAge >= MinRefreshInterval)
      <3>1. grace'[p] = grace[p] /\ Timely(p)
        BY <1>0, <1>6, <2>1, <2>5 DEF EndRequest, WaitingForFetchMu
      <3> QED
        BY <1>1, <2>1, <2>2, <2>3, <2>5, <3>1 DEF Timely, CoolingDown, InFetchMu
    <2> QED
      BY <2>4, <2>5
  <1>7. ASSUME NEW q \in Procs, Finish(q) PROVE Timely(p)'
    <2>1. UNCHANGED <<pc, attemptAge>>
      BY <1>7 DEF Finish, vars, procVars, storeVars
    <2>2. p # q /\ token'[p] = token[p] /\ left'[p] = left[p] /\ grace'[p] = grace[p]
      BY <1>7 DEF Finish
    <2> QED
      BY <1>0, <2>1, <2>2 DEF Timely, InFlight, CoolingDown
  <1> QED
    BY <1>2, <1>3, <1>4, <1>5, <1>6, <1>7 DEF VerifyNext

\* A lookup outside a request that has no key to give has a cause.
LEMMA LookupHasACause ==
    ASSUME StoreInv, AgeInv, VerifyTypeOK, AttemptInv, CalmInv, NEW k \in Kids,
           RefreshInterval = 0 \/ RefreshInterval >= MinRefreshInterval,
           \A q \in Procs : pc[q] # "fetch",
           LookupResult(k) \notin {"key", "fetch"}
    PROVE  calmAge[k] < MinRefreshInterval
  <1> USE DEF StoreInv, TypeOK, AgeInv, VerifyTypeOK
  <1>1. CoolingDown /\ ~(k \in keys /\ Fresh)
    BY DEF LookupResult
  <1>2. attemptAge \in Ages /\ attemptAge < MinRefreshInterval
    BY <1>1 DEF CoolingDown
  <1>3. outcome \in {"ok", "failed"}
    BY <1>2 DEF AttemptInv
  <1>4. CASE outcome = "failed"
    BY <1>2, <1>4 DEF CalmInv
  <1>5. CASE outcome = "ok"
    <2>1. CASE calmAge[k] > attemptAge
      <3>1. k \in keys
        BY <1>5, <2>1, CalmFacts
      <3>2. fetchedAge # Never /\ fetchedAge <= attemptAge
        BY <1>2, <1>5 DEF OutcomeInv, CacheInv
      <3>3. Fresh
        BY <1>2, <3>2 DEF Fresh
      <3> QED
        BY <1>1, <3>1, <3>3
    <2>2. CASE ~(calmAge[k] > attemptAge)
      BY <1>2, <2>2
    <2> QED
      BY <2>1, <2>2
  <1> QED
    BY <1>3, <1>4, <1>5

\* A Get that returns no key has a cause, and keeps it until Verify ends.
LEMMA CausePreserved ==
    ASSUME StoreInv, AgeInv, VerifyTypeOK, TokenInv, AttemptInv, CalmInv, CauseInv, VerifyNext
    PROVE  CauseInv'
  <1> SUFFICES ASSUME Prompt, RefreshInterval = 0 \/ RefreshInterval >= MinRefreshInterval,
                      NEW p \in Procs, Returned(p)', answer'[p] # "key"
               PROVE  Cause(p, token[p])'
    BY DEF CauseInv
  <1>0. Returned(p) /\ answer[p] # "key" => Cause(p, token[p])
    BY DEF CauseInv
  <1> USE DEF StoreInv, TypeOK, VerifyTypeOK, Returned
  <1>1. CASE Endpoint
    <2>1. UNCHANGED <<token, pc, answer, kid, raced>>
      BY <1>1, EndpointFrame DEF procVars
    <2>2. token[p].kid \in Kids /\ Cause(p, token[p])
      BY <1>0, <2>1 DEF TokenInv
    <2>3. calmAge'[token[p].kid] \in {calmAge[token[p].kid], 0}
      BY <1>1, <2>2 DEF Endpoint, Calmed
    <2> QED
      BY <2>1, <2>2, <2>3 DEF Cause
  <1>2. CASE VerifyTick
    BY <1>2 DEF VerifyTick, Tick, procVars
  <1>3. ASSUME NEW q \in Procs, NEW t \in Tokens, NEW auds \in Audiences, Begin(q, t, auds)
        PROVE  Cause(p, token[p])'
    <2>1. UNCHANGED <<calmAge, raced>>
      BY <1>3 DEF Begin
    <2>2. CASE p = q
      <3>1. token'[p] = t
        BY <1>3, <2>2 DEF Begin
      <3>2. t.iss \notin KnownIssuers
        BY <1>3, <2>2 DEF Begin, Call
      <3>3. t.iss \notin InputIssuers
        BY <3>2 DEF KnownIssuers, AttemptInv
      <3> QED
        BY <3>1, <3>3 DEF Cause
    <2>3. CASE p # q
      <3>1. token'[p] = token[p] /\ Returned(p) /\ answer'[p] = answer[p]
        BY <1>3, <2>3 DEF Begin, Call
      <3> QED
        BY <1>0, <2>1, <3>1 DEF Cause
    <2> QED
      BY <2>2, <2>3
  <1>4. ASSUME NEW q \in Procs, VerifyLookup(q) \/ GetStep(q) \/ EndRequest(q) PROVE Cause(p, token[p])'
    <2>1. UNCHANGED <<token, kid, calmAge>> /\ raced \subseteq raced'
      BY <1>4, GetStepPc DEF VerifyLookup, GetStep, EndRequest, verifierVars
    <2>2. CASE p # q
      <3>1. Cause(p, token[p])
        BY <1>0, <1>4, <2>1, <2>2, GetStepPc
      <3> QED
        BY <2>1, <3>1 DEF Cause
    <2>3. CASE p = q
      <3> DEFINE k == kid[p]
      <3>1. k \in Kids /\ k = token[p].kid /\ token'[p] = token[p] /\ calmAge' = calmAge
        BY <2>1 DEF TokenInv
      <3>2. SUFFICES p \in raced' \/ calmAge[k] < MinRefreshInterval \/ calmAge[k] <= RefreshTime
        BY <3>1 DEF Cause
      <3> HIDE DEF k
      <3>3. CASE VerifyLookup(p) /\ Lookup(p) /\ answer'[p] = LookupResult(k)
        <4>1. LookupResult(k) \notin {"key", "fetch"}
          <5>1. LookupResult(k) # "fetch"
            BY <3>3 DEF Lookup, k
          <5> QED
            BY <3>3, <5>1
        <4>2. CASE \E r \in Procs : pc[r] = "fetch"
          BY <3>3, <4>2 DEF VerifyLookup
        <4>3. CASE \A r \in Procs : pc[r] # "fetch"
          BY <3>1, <4>1, <4>3, LookupHasACause
        <4> QED
          BY <4>2, <4>3
      <3>4. CASE Recheck(p) /\ answer'[p] = LookupResult(k)
        <4>1. LookupResult(k) \notin {"key", "fetch"}
          <5>1. LookupResult(k) # "fetch"
            BY <3>4 DEF Recheck, k
          <5> QED
            BY <3>4, <5>1
        <4>2. \A r \in Procs : pc[r] # "fetch"
          BY <3>4 DEF Recheck, MutexInv, InFetchMu
        <4> QED
          BY <3>1, <4>1, <4>2, LookupHasACause
      <3>5. CASE FetchFail(p)
        <4>1. attemptAge \in 0 .. RefreshTime /\ calmAge[k] <= attemptAge
          BY <3>1, <3>5, FailFacts
        <4> QED
          BY <3>1, <4>1
      <3>6. CASE FinalLookup(p) /\ answer'[p] = IF LookupResult(k) = "fetch" THEN "unknown"
                                                ELSE LookupResult(k)
        <4>1. outcome = "ok" /\ fetchedAge = 0 /\ attemptAge \in 0 .. RefreshTime
          BY <3>6 DEF FinalLookup, AttemptInv
        <4>2. Fresh /\ LookupResult(k) # "key"
          BY <3>6, <4>1 DEF Fresh
        <4>3. k \notin keys
          BY <4>2 DEF LookupResult
        <4>4. ~(calmAge[k] > attemptAge)
          BY <3>1, <4>1, <4>3, CalmFacts
        <4> QED
          BY <3>1, <4>1, <4>4
      <3> QED
        BY <1>4, <2>3, <3>3, <3>4, <3>5, <3>6, GetReturnsBy DEF k
    <2> QED
      BY <2>2, <2>3
  <1>5. ASSUME NEW q \in Procs, Finish(q) PROVE Cause(p, token[p])'
    <2>1. UNCHANGED <<pc, answer, calmAge>> /\ p # q /\ token'[p] = token[p]
      BY <1>5 DEF Finish, vars, procVars
    <2>2. p \in raced => p \in raced'
      BY <1>5, <2>1 DEF Finish
    <2> QED
      BY <1>0, <2>1, <2>2 DEF Cause
  <1> QED
    BY <1>1, <1>2, <1>3, <1>4, <1>5 DEF VerifyNext

-----------------------------------------------------------------------------
(* The theorems.                                                           *)

\* Initially nobody verifies, and the store has made no attempt.
LEMMA VerifyInitInv == VerifyInit => VerifyInv
  <1> SUFFICES ASSUME VerifyInit PROVE VerifyInv
    OBVIOUS
  <1>1. TypeOK
    BY DEF VerifyInit, Init, TypeOK
  <1>2. StoreInv
    BY <1>1 DEF VerifyInit, Init, StoreInv, MutexInv, RequestInv, BodyInv, CacheInv, SpacingInv,
                OutcomeInv, InFetchMu
  <1>3. AgeInv /\ VerifyTypeOK /\ TokenInv /\ AttemptInv
    BY DEF VerifyInit, Init, AgeInv, VerifyTypeOK, TokenInv, AttemptInv
  <1>4. CalmInv
    BY DEF VerifyInit, Init, CalmInv
  <1>5. PublishedInv /\ FloorInv /\ TimeInv /\ CauseInv
    BY DEF VerifyInit, Init, PublishedInv, FloorInv, TimeInv, CauseInv, Returned
  <1> QED
    BY <1>2, <1>3, <1>4, <1>5 DEF VerifyInv

\* Verifiers, the store, the endpoint and the clock keep the invariant, however their
\* steps interleave (Verify, Get).
THEOREM VerifyInvariant == VerifySpec => []VerifyInv
  <1>1. ASSUME VerifyInv, VerifyNext PROVE VerifyInv'
    <2>1. StoreInv' /\ AgeInv' /\ AttemptInv'
      BY <1>1, VerifyUsesStore, StorePreserved, AgePreserved, AttemptPreserved DEF VerifyInv
    <2>2. VerifyTypeOK' /\ TokenInv' /\ CalmInv'
      BY <1>1, VerifyTypePreserved, TokenPreserved, CalmPreserved DEF VerifyInv
    <2>3. PublishedInv' /\ FloorInv' /\ TimeInv' /\ CauseInv'
      BY <1>1, PublishedPreserved, FloorPreserved, TimePreserved, CausePreserved DEF VerifyInv
    <2> QED
      BY <2>1, <2>2, <2>3 DEF VerifyInv
  <1>2. ASSUME VerifyInv, UNCHANGED verifyVars PROVE VerifyInv'
    <2>1. UNCHANGED vars /\ UNCHANGED <<token, left, grace, calmAge, raced>>
      BY <1>2 DEF verifyVars, verifierVars
    <2>2. StoreInv' /\ AgeInv' /\ AttemptInv'
      BY <1>2, <2>1, StorePreserved, AgePreserved, AttemptPreserved DEF VerifyInv
    <2>3. /\ UNCHANGED <<issuers, keys, fetchedAge, attemptAge, fetchMu, pc, kid, answer, body>>
          /\ UNCHANGED <<upstream, up, changedAge, sampleAge, bodyAge, outcome, joined>>
      BY <2>1 DEF vars, storeVars, procVars, endpointVars, historyVars
    <2>4. VerifyTypeOK' /\ TokenInv' /\ CalmInv'
      BY <1>2, <2>1, <2>3 DEF VerifyInv, VerifyTypeOK, TokenInv, CalmInv, Calm
    <2>5. PublishedInv' /\ FloorInv' /\ TimeInv' /\ CauseInv'
      BY <1>2, <2>1, <2>3 DEF VerifyInv, PublishedInv, FloorInv, TimeInv, Timely, InFlight, CoolingDown,
                              CauseInv, Cause, Returned, PublishedWithin
    <2> QED
      BY <2>2, <2>4, <2>5 DEF VerifyInv
  <1> QED
    BY <1>1, <1>2, VerifyInitInv, PTL DEF VerifySpec

\* Only Finish ends a Verify.
LEMMA ConcludesBy ==
    ASSUME VerifyInv, [VerifyNext]_verifyVars, NEW p \in Procs, NEW v, Concludes(p, v)
    PROVE  Returned(p) /\ KeyCheck(ReturnedKey(p), token[p]) = v
  <1> USE DEF VerifyInv, VerifyTypeOK
  <1>1. token[p] # NoToken /\ token'[p] = NoToken /\ Verdict(p) = v
    BY DEF Concludes
  <1>2. token' # token
    BY <1>1
  <1>3. ~Endpoint /\ ~VerifyTick /\ ~UNCHANGED verifyVars
    BY <1>2 DEF Endpoint, VerifyTick, verifyVars, verifierVars
  <1>4. ASSUME NEW q \in Procs PROVE ~VerifyLookup(q) /\ ~GetStep(q) /\ ~EndRequest(q)
    BY <1>2 DEF VerifyLookup, GetStep, EndRequest, verifierVars
  <1>5. ASSUME NEW q \in Procs, NEW t \in Tokens, NEW auds \in Audiences PROVE ~Begin(q, t, auds)
    BY <1>1, TokensAssumption DEF Begin
  <1>6. PICK q \in Procs : Finish(q)
    BY <1>3, <1>4, <1>5 DEF VerifyNext
  <1>7. q = p
    BY <1>1, <1>6 DEF Finish
  <1> QED
    BY <1>1, <1>6, <1>7 DEF Finish, Returned, Verdict

\* A token is accepted only with a key that Get returned, and refused as of an unknown
\* key only without one.
LEMMA VerdictFacts ==
    ASSUME VerifyInv, NEW p \in Procs, Returned(p)
    PROVE  /\ KeyCheck(ReturnedKey(p), token[p]) = "accepted" => answer[p] = "key"
           /\ KeyCheck(ReturnedKey(p), token[p]) = "unknown_key" => answer[p] # "key"
  <1>1. kid[p] \in Kids /\ KeyOf[kid[p]] # NoJwk
    BY TokensAssumption DEF VerifyInv, TokenInv, Returned
  <1>2. KeyCheck(NoJwk, token[p]) = "unknown_key"
    BY DEF KeyCheck
  <1>3. KeyCheck(KeyOf[kid[p]], token[p]) # "unknown_key"
    BY <1>1 DEF KeyCheck
  <1> QED
    BY <1>2, <1>3 DEF ReturnedKey

\* An accepted token has not been expired for longer than one request and one more for each
\* that its goroutine waited for and that outlasted the cool-down (AcceptedInTime).
THEOREM AcceptedInTimeTheorem == VerifySpec => AcceptedInTime
  <1>1. VerifyInv /\ [VerifyNext]_verifyVars =>
          [Prompt =>
              \A p \in Procs : Concludes(p, "accepted") => left[p] + grace[p] > 0]_verifyVars
    <2> SUFFICES ASSUME VerifyInv, [VerifyNext]_verifyVars, Prompt,
                        NEW p \in Procs, Concludes(p, "accepted")
                 PROVE  left[p] + grace[p] > 0
      OBVIOUS
    <2>1. token[p] # NoToken
      BY ConcludesBy DEF Returned
    <2>2. left[p] \in Int /\ left[p] >= -Horizon /\ grace[p] \in 0 .. Horizon + 1
      BY DEF VerifyInv, VerifyTypeOK, FloorInv
    <2> QED
      BY <2>1, <2>2 DEF VerifyInv, TimeInv, Timely
  <1> QED
    BY <1>1, VerifyInvariant, PTL DEF VerifySpec, AcceptedInTime

\* No token is accepted with a key that left the endpoint's set more than the refresh
\* interval plus one request before (AcceptedIsPublished).
THEOREM AcceptedIsPublishedTheorem == VerifySpec => AcceptedIsPublished
  <1>1. VerifyInv /\ [VerifyNext]_verifyVars =>
          [Prompt /\ RefreshInterval > 0 =>
              \A p \in Procs : Concludes(p, "accepted") =>
                  PublishedWithin(token[p].kid, RefreshInterval + RefreshTime)]_verifyVars
    <2> SUFFICES ASSUME VerifyInv, [VerifyNext]_verifyVars, Prompt, RefreshInterval > 0,
                        NEW p \in Procs, Concludes(p, "accepted")
                 PROVE  PublishedWithin(token[p].kid, RefreshInterval + RefreshTime)
      OBVIOUS
    <2>1. Returned(p) /\ answer[p] = "key"
      BY ConcludesBy, VerdictFacts
    <2>2. kid[p] = token[p].kid
      BY <2>1 DEF VerifyInv, TokenInv, Returned
    <2> QED
      BY <2>1, <2>2 DEF VerifyInv, PublishedInv
  <1> QED
    BY <1>1, VerifyInvariant, PTL DEF VerifySpec, AcceptedIsPublished

\* A token of a known issuer is refused for want of a key only within the cool-down of an
\* attempt made before the endpoint was in order, or if its lookup met a request in flight
\* (UnknownKeyHasACause).
THEOREM UnknownKeyHasACauseTheorem == VerifySpec => UnknownKeyHasACause
  <1>1. VerifyInv /\ [VerifyNext]_verifyVars =>
          [Prompt /\ (RefreshInterval = 0 \/ RefreshInterval >= MinRefreshInterval) =>
              \A p \in Procs : Concludes(p, "unknown_key") =>
                  \/ token[p].iss \notin InputIssuers
                  \/ p \in raced
                  \/ calmAge[token[p].kid] < MinRefreshInterval
                  \/ calmAge[token[p].kid] <= RefreshTime]_verifyVars
    <2> SUFFICES ASSUME VerifyInv, [VerifyNext]_verifyVars, Prompt,
                        RefreshInterval = 0 \/ RefreshInterval >= MinRefreshInterval,
                        NEW p \in Procs, Concludes(p, "unknown_key")
                 PROVE  Cause(p, token[p])
      BY DEF Cause
    <2>1. Returned(p) /\ answer[p] # "key"
      BY ConcludesBy, VerdictFacts
    <2> QED
      BY <2>1 DEF VerifyInv, CauseInv
  <1> QED
    BY <1>1, VerifyInvariant, PTL DEF VerifySpec, UnknownKeyHasACause

=============================================================================
