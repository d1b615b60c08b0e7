------------------------ MODULE JwksTrustStoreProofs ------------------------
(* Machine-checked proofs about JwksTrustStore, and that it implements      *)
(* SnapshotStore, for every set of goroutines and kids and every choice of  *)
(* the intervals.                                                           *)
EXTENDS JwksRefinement, TLAPS

-----------------------------------------------------------------------------
(* Type correctness. *)

USE ConstantsAssumption DEF Never, Ages, NoBody, PCs, Answers, Outcomes

\* What lookup yields is an answer of Get, or "fetch" (lookup).
LEMMA LookupResultType ==
    ASSUME NEW k
    PROVE  LookupResult(k) \in {"key", "stale", "unknown", "fetch"}
  BY DEF LookupResult

\* Every step of the store, the endpoint and the clock preserves the types.
LEMMA TypePreserved == TypeOK /\ [Next]_vars => TypeOK'
  <1> SUFFICES ASSUME TypeOK, [Next]_vars PROVE TypeOK'
    OBVIOUS
  <1> USE DEF TypeOK, storeVars, procVars, endpointVars, historyVars
  <1>1. ASSUME NEW k \in Kids, Publish(k) \/ Withdraw(k) PROVE TypeOK'
    BY <1>1 DEF Publish, Withdraw
  <1>2. CASE ToggleEndpoint
    BY <1>2 DEF ToggleEndpoint
  <1>3. CASE Tick
    BY <1>3 DEF Tick, Older
  <1>4. ASSUME NEW p \in Procs, NEW iss \in Issuers, NEW k \in Kids, Call(p, iss, k)
        PROVE  TypeOK'
    BY <1>4 DEF Call, KnownIssuers
  <1>5. ASSUME NEW p \in Procs, Lookup(p) PROVE TypeOK'
    BY <1>5, LookupResultType DEF Lookup, Return
  <1>6. ASSUME NEW p \in Procs, LockFetchMu(p) PROVE TypeOK'
    BY <1>6 DEF LockFetchMu
  <1>7. ASSUME NEW p \in Procs, Recheck(p) PROVE TypeOK'
    BY <1>7, LookupResultType DEF Recheck, Return
  <1>8. ASSUME NEW p \in Procs, BeginRefresh(p) PROVE TypeOK'
    BY <1>8 DEF BeginRefresh
  <1>9. ASSUME NEW p \in Procs, Respond(p) PROVE TypeOK'
    BY <1>9 DEF Respond
  <1>10. ASSUME NEW p \in Procs, FetchFail(p) PROVE TypeOK'
    BY <1>10 DEF FetchFail, Return, WaitingForFetchMu
  <1>11. ASSUME NEW p \in Procs, Install(p) PROVE TypeOK'
    BY <1>11 DEF Install, Loads, Replacement, WaitingForFetchMu
  <1>12. ASSUME NEW p \in Procs, FinalLookup(p) PROVE TypeOK'
    BY <1>12, LookupResultType DEF FinalLookup, Return
  <1>13. CASE UNCHANGED vars
    BY <1>13 DEF vars
  <1> QED
    BY <1>1, <1>2, <1>3, <1>4, <1>5, <1>6, <1>7, <1>8, <1>9, <1>10, <1>11,
       <1>12, <1>13 DEF Next

\* The store's fields, the goroutines' program counters and the endpoint keep
\* their types in every behaviour.
THEOREM TypeCorrect == Spec => []TypeOK
  <1>1. Init => TypeOK
    BY DEF Init, TypeOK
  <1> QED
    BY <1>1, TypePreserved, PTL DEF Spec

-----------------------------------------------------------------------------
(* The inductive invariant. *)

\* The parts of StoreInv below the types.
Core == MutexInv /\ RequestInv /\ BodyInv /\ CacheInv /\ SpacingInv /\ OutcomeInv

\* A set the endpoint published at an instant of the last d units of time still
\* is one after a kid is published or withdrawn.
LEMMA SampleKept ==
    ASSUME TypeOK, NEW k \in Kids, Publish(k) \/ Withdraw(k),
           NEW S, NEW d \in Ages, SampledWithin(S, d)
    PROVE  SampledWithin(S, d)'
  BY DEF Publish, Withdraw, SampledWithin, PublishedWithin, AbsentWithin, TypeOK

\* Every step preserves the invariant.
LEMMA StorePreserved == StoreInv /\ [Next]_vars => StoreInv'
  <1> SUFFICES ASSUME TypeOK, TypeOK', Core, [Next]_vars PROVE Core'
    BY TypePreserved DEF StoreInv, Core
  <1> USE DEF storeVars, procVars, endpointVars, historyVars, InFetchMu, Core, TypeOK
  <1>1. ASSUME NEW k \in Kids, Publish(k) \/ Withdraw(k) PROVE Core'
    <2> USE <1>1 DEF Publish, Withdraw
    <2>1. BodyInv'
      BY SampleKept DEF BodyInv
    <2>2. CacheInv'
      BY SampleKept DEF CacheInv
    <2> QED
      BY <2>1, <2>2 DEF MutexInv, RequestInv, SpacingInv, OutcomeInv
  <1>2. CASE ToggleEndpoint
    <2> USE <1>2 DEF ToggleEndpoint
    <2> QED
      BY DEF MutexInv, RequestInv, BodyInv, CacheInv, SpacingInv, OutcomeInv,
             SampledWithin, PublishedWithin, AbsentWithin
  <1>3. CASE Tick
    <2> USE <1>3 DEF Tick, RefreshHasTime, Older
    <2>1. RequestInv'
      BY DEF RequestInv
    <2>2. BodyInv'
      BY DEF BodyInv, SampledWithin, PublishedWithin, AbsentWithin
    <2>3. CacheInv'
      BY DEF CacheInv, SampledWithin, PublishedWithin, AbsentWithin
    <2>4. SpacingInv'
      BY DEF SpacingInv
    <2>5. OutcomeInv'
      BY DEF OutcomeInv
    <2> QED
      BY <2>1, <2>2, <2>3, <2>4, <2>5 DEF MutexInv
  <1>4. ASSUME NEW p \in Procs, NEW iss \in Issuers, NEW k \in Kids, Call(p, iss, k)
        PROVE  Core'
    <2> USE <1>4 DEF Call
    <2>1. MutexInv'
      BY DEF MutexInv
    <2> QED
      BY <2>1 DEF RequestInv, BodyInv, CacheInv, SpacingInv, OutcomeInv,
             SampledWithin, PublishedWithin, AbsentWithin
  <1>5. ASSUME NEW p \in Procs, Lookup(p) PROVE Core'
    <2> USE <1>5 DEF Lookup, Return
    <2>1. MutexInv'
      BY DEF MutexInv
    <2> QED
      BY <2>1 DEF RequestInv, BodyInv, CacheInv, SpacingInv, OutcomeInv,
             SampledWithin, PublishedWithin, AbsentWithin
  <1>6. ASSUME NEW p \in Procs, LockFetchMu(p) PROVE Core'
    <2> USE <1>6 DEF LockFetchMu
    <2>1. MutexInv'
      BY DEF MutexInv
    <2> QED
      BY <2>1 DEF RequestInv, BodyInv, CacheInv, SpacingInv, OutcomeInv,
             SampledWithin, PublishedWithin, AbsentWithin
  <1>7. ASSUME NEW p \in Procs, Recheck(p) PROVE Core'
    <2> USE <1>7 DEF Recheck, Return
    <2>1. MutexInv'
      BY DEF MutexInv
    <2>2. SpacingInv'
      BY DEF SpacingInv, LookupResult, CoolingDown, Fresh
    <2> QED
      BY <2>1, <2>2 DEF RequestInv, BodyInv, CacheInv, OutcomeInv,
             SampledWithin, PublishedWithin, AbsentWithin
  <1>8. ASSUME NEW p \in Procs, BeginRefresh(p) PROVE Core'
    <2> USE <1>8 DEF BeginRefresh
    <2>1. MutexInv'
      BY DEF MutexInv
    <2>2. RequestInv'
      BY DEF RequestInv, MutexInv
    <2>3. SpacingInv'
      BY DEF SpacingInv, MutexInv
    <2>4. OutcomeInv'
      BY DEF OutcomeInv
    <2> QED
      BY <2>1, <2>2, <2>3, <2>4 DEF BodyInv, CacheInv,
             SampledWithin, PublishedWithin, AbsentWithin
  <1>9. ASSUME NEW p \in Procs, Respond(p) PROVE Core'
    <2> USE <1>9 DEF Respond
    <2>1. RequestInv'
      BY DEF RequestInv
    <2>2. BodyInv'
      BY DEF BodyInv, SampledWithin, PublishedWithin, AbsentWithin
    <2> QED
      BY <2>1, <2>2 DEF MutexInv, CacheInv, SpacingInv, OutcomeInv,
             SampledWithin, PublishedWithin, AbsentWithin
  <1>10. ASSUME NEW p \in Procs, FetchFail(p) PROVE Core'
    <2> USE <1>10 DEF FetchFail, Return
    <2>1. MutexInv'
      BY DEF MutexInv
    <2>2. RequestInv'
      BY DEF RequestInv, MutexInv
    <2>3. BodyInv'
      BY DEF BodyInv, SampledWithin, PublishedWithin, AbsentWithin
    <2>4. OutcomeInv'
      BY DEF OutcomeInv
    <2> QED
      BY <2>1, <2>2, <2>3, <2>4 DEF CacheInv, SpacingInv,
             SampledWithin, PublishedWithin, AbsentWithin
  <1>11. ASSUME NEW p \in Procs, Install(p) PROVE Core'
    <2> USE <1>11 DEF Install, Loads, Replacement
    <2>1. MutexInv'
      BY DEF MutexInv
    <2>2. RequestInv'
      BY DEF RequestInv, MutexInv
    <2>3. BodyInv'
      BY DEF BodyInv, SampledWithin, PublishedWithin, AbsentWithin
    <2>4. CacheInv'
      BY DEF CacheInv, RequestInv, BodyInv, SampledWithin, PublishedWithin, AbsentWithin
    <2>5. OutcomeInv'
      BY DEF OutcomeInv, RequestInv
    <2> QED
      BY <2>1, <2>2, <2>3, <2>4, <2>5 DEF SpacingInv
  <1>12. ASSUME NEW p \in Procs, FinalLookup(p) PROVE Core'
    <2> USE <1>12 DEF FinalLookup, Return
    <2>1. MutexInv'
      BY DEF MutexInv
    <2> QED
      BY <2>1 DEF RequestInv, BodyInv, CacheInv, SpacingInv, OutcomeInv,
             SampledWithin, PublishedWithin, AbsentWithin
  <1>13. CASE UNCHANGED vars
    BY <1>13 DEF vars, MutexInv, RequestInv, BodyInv, CacheInv, SpacingInv, OutcomeInv,
                 SampledWithin, PublishedWithin, AbsentWithin
  <1> QED
    BY <1>1, <1>2, <1>3, <1>4, <1>5, <1>6, <1>7, <1>8, <1>9, <1>10, <1>11,
       <1>12, <1>13 DEF Next

\* The inductive invariant holds in every behaviour.
THEOREM StoreInvariant == Spec => []StoreInv
  <1>1. Init => StoreInv
    <2> SUFFICES ASSUME Init PROVE StoreInv
      OBVIOUS
    <2>1. TypeOK
      BY DEF Init, TypeOK
    <2> QED
      BY <2>1 DEF Init, StoreInv, MutexInv, RequestInv, BodyInv, CacheInv, SpacingInv,
                  OutcomeInv, InFetchMu
  <1> QED
    BY <1>1, StorePreserved, PTL DEF Spec

-----------------------------------------------------------------------------
(* What steps never do. *)

\* Only the three lookups and a failed refresh return from Get.
LEMMA ReturnsBy ==
    ASSUME StoreInv, [Next]_vars, NEW p \in Procs, pc[p] # "idle", pc'[p] = "idle"
    PROVE  Lookup(p) \/ Recheck(p) \/ FetchFail(p) \/ FinalLookup(p)
  <1> USE DEF StoreInv, TypeOK, storeVars, procVars
  <1>1. ~UNCHANGED vars
    BY DEF vars
  <1>2. ~ToggleEndpoint /\ ~Tick /\ \A k \in Kids : ~Publish(k) /\ ~Withdraw(k)
    BY DEF ToggleEndpoint, Tick, Publish, Withdraw
  <1>3. ASSUME NEW q \in Procs, q # p
        PROVE  /\ \A iss \in Issuers, k \in Kids : ~Call(q, iss, k)
               /\ ~Lookup(q) /\ ~LockFetchMu(q) /\ ~Recheck(q) /\ ~BeginRefresh(q)
               /\ ~Respond(q) /\ ~FetchFail(q) /\ ~Install(q) /\ ~FinalLookup(q)
    BY <1>3 DEF Call, Lookup, LockFetchMu, Recheck, BeginRefresh, Respond, FetchFail,
                Install, FinalLookup, Return
  <1>4. /\ \A iss \in Issuers, k \in Kids : ~Call(p, iss, k)
        /\ ~LockFetchMu(p) /\ ~BeginRefresh(p) /\ ~Respond(p) /\ ~Install(p)
    BY DEF Call, LockFetchMu, BeginRefresh, Respond, Install
  <1> QED
    BY <1>1, <1>2, <1>3, <1>4 DEF Next

\* Get never returns a key that left the endpoint's set more than the refresh
\* interval plus one request ago (WithdrawnKeysExpire).
THEOREM WithdrawnKeysExpireTheorem == Spec => WithdrawnKeysExpire
  <1>1. ASSUME StoreInv, [Next]_vars, RefreshInterval > 0,
               NEW p \in Procs, Returns(p, "key")
        PROVE  PublishedWithin(kid[p], RefreshInterval + RefreshTime)
    <2>1. LookupResult(kid[p]) = "key"
      BY <1>1, ReturnsBy
         DEF Returns, Lookup, Recheck, FetchFail, FinalLookup, Return, StoreInv, TypeOK
    <2>2. kid[p] \in keys /\ Fresh
      BY <2>1 DEF LookupResult
    <2>3. sampleAge # Never /\ sampleAge <= RefreshInterval + RefreshTime
      BY <1>1, <2>2 DEF Fresh, StoreInv, TypeOK, CacheInv
    <2>4. PublishedWithin(kid[p], sampleAge)
      BY <1>1, <2>2, <2>3 DEF StoreInv, TypeOK, CacheInv, SampledWithin
    <2> QED
      BY <1>1, <2>3, <2>4 DEF PublishedWithin, StoreInv, TypeOK
  <1>2. StoreInv /\ [Next]_vars =>
          [RefreshInterval > 0 =>
              \A p \in Procs : Returns(p, "key") =>
                  PublishedWithin(kid[p], RefreshInterval + RefreshTime)]_vars
    BY <1>1
  <1> QED
    BY <1>2, StoreInvariant, PTL DEF Spec, WithdrawnKeysExpire

\* When the last attempt succeeded, a kid reported unknown was absent from the
\* endpoint at some instant since that attempt began (UnknownIsRecent).
THEOREM UnknownIsRecentTheorem == Spec => UnknownIsRecent
  <1>1. ASSUME StoreInv, [Next]_vars, NEW p \in Procs, Returns(p, "unknown"),
               outcome = "ok"
        PROVE  AbsentWithin(kid[p], attemptAge) \/ (pc[p] = "final" /\ ~Fresh)
    <2>1. \/ LookupResult(kid[p]) = "unknown"
          \/ pc[p] = "final" /\ LookupResult(kid[p]) = "fetch"
      BY <1>1, ReturnsBy
         DEF Returns, Lookup, Recheck, FetchFail, FinalLookup, Return, StoreInv, TypeOK
    <2>2. kid[p] \notin keys \/ (pc[p] = "final" /\ ~Fresh)
      BY <2>1 DEF LookupResult
    <2>3. sampleAge # Never /\ sampleAge <= attemptAge
      BY <1>1 DEF StoreInv, OutcomeInv
    <2>4. CASE kid[p] \notin keys
      <3>1. AbsentWithin(kid[p], sampleAge)
        BY <1>1, <2>3, <2>4 DEF StoreInv, TypeOK, CacheInv, SampledWithin
      <3> QED
        BY <1>1, <2>3, <3>1 DEF AbsentWithin, StoreInv, TypeOK
    <2> QED
      BY <2>2, <2>4
  <1>2. StoreInv /\ [Next]_vars =>
          [\A p \in Procs : Returns(p, "unknown") /\ outcome = "ok" =>
              \/ AbsentWithin(kid[p], attemptAge)
              \/ pc[p] = "final" /\ ~Fresh]_vars
    BY <1>1
  <1> QED
    BY <1>2, StoreInvariant, PTL DEF Spec, UnknownIsRecent

\* Attempts to fetch are at least the minimum refresh interval apart
\* (AttemptsAreSpaced).
THEOREM AttemptsAreSpacedTheorem == Spec => AttemptsAreSpaced
  <1>1. StoreInv /\ [Next]_vars =>
          [\A p \in Procs : pc[p] = "refresh" /\ pc'[p] = "fetch" =>
              attemptAge = Never \/ attemptAge >= MinRefreshInterval]_vars
    BY DEF StoreInv, SpacingInv
  <1> QED
    BY <1>1, StoreInvariant, PTL DEF Spec, AttemptsAreSpaced

\* What refresh installs is never an older sample than what it replaces
\* (CacheNeverRegresses).
THEOREM CacheNeverRegressesTheorem == Spec => CacheNeverRegresses
  <1>1. ASSUME StoreInv, [Next]_vars, NEW p \in Procs,
               pc[p] = "fetch", pc'[p] = "final"
        PROVE  Install(p)
    <2> USE <1>1 DEF StoreInv, TypeOK, storeVars, procVars
    <2>1. ~UNCHANGED vars
      BY DEF vars
    <2>2. ~ToggleEndpoint /\ ~Tick /\ \A k \in Kids : ~Publish(k) /\ ~Withdraw(k)
      BY DEF ToggleEndpoint, Tick, Publish, Withdraw
    <2>3. ASSUME NEW q \in Procs
          PROVE  /\ \A iss \in Issuers, k \in Kids : ~Call(q, iss, k)
                 /\ ~Lookup(q) /\ ~LockFetchMu(q) /\ ~Recheck(q) /\ ~BeginRefresh(q)
                 /\ ~Respond(q) /\ ~FetchFail(q) /\ ~FinalLookup(q)
                 /\ Install(q) => q = p
      BY DEF Call, Lookup, LockFetchMu, Recheck, BeginRefresh, Respond, FetchFail,
             Install, FinalLookup, Return
    <2> QED
      BY <2>1, <2>2, <2>3 DEF Next
  <1>2. ASSUME StoreInv, NEW p \in Procs, Install(p)
        PROVE  sampleAge = Never \/ sampleAge' <= sampleAge
    BY <1>2 DEF StoreInv, TypeOK, RequestInv, Install
  <1>3. StoreInv /\ [Next]_vars =>
          [\A p \in Procs : pc[p] = "fetch" /\ pc'[p] = "final" =>
              sampleAge = Never \/ sampleAge' <= sampleAge]_vars
    BY <1>1, <1>2
  <1> QED
    BY <1>3, StoreInvariant, PTL DEF Spec, CacheNeverRegresses

-----------------------------------------------------------------------------
(* One request serves those who waited for it. *)

\* Who is about to send a request has no fresh key.
WantInv == \A p \in Procs : pc[p] = "refresh" => kid[p] \notin keys \/ ~Fresh

\* When nobody is delayed, the fetch that somebody waited for is over only now, until
\* the next one begins.
SharingInv ==
    Prompt => \A p \in joined :
        /\ pc[p] \notin {"idle", "lookup"}
        /\ pc[p] \in {"lock", "recheck", "refresh"} /\ (\A q \in Procs : pc[q] # "fetch") =>
            /\ attemptAge \in 0 .. RefreshTime
            /\ outcome \in {"ok", "failed"}
            /\ outcome = "ok" => fetchedAge = 0

\* Every step preserves both (Get).
LEMMA SharingPreserved ==
    ASSUME StoreInv, WantInv, SharingInv, [Next]_vars
    PROVE  WantInv' /\ SharingInv'
  <1> USE DEF WantInv, SharingInv, Fresh, StoreInv, TypeOK, MutexInv, InFetchMu, storeVars,
              procVars, endpointVars, historyVars
  <1>1. ASSUME NEW k \in Kids, Publish(k) \/ Withdraw(k) PROVE WantInv' /\ SharingInv'
    BY <1>1 DEF Publish, Withdraw
  <1>2. CASE ToggleEndpoint
    BY <1>2 DEF ToggleEndpoint
  <1>3. CASE Tick
    <2>1. WantInv'
      BY <1>3 DEF Tick, Older
    <2>2. ASSUME Prompt, NEW p \in joined, pc[p] \in {"lock", "recheck", "refresh"}
          PROVE  \E q \in Procs : pc[q] = "fetch"
      BY <1>3, <2>2 DEF Tick, Waiting
    <2> QED
      BY <1>3, <2>1, <2>2 DEF Tick
  <1>4. ASSUME NEW p \in Procs, NEW iss \in Issuers, NEW k \in Kids, Call(p, iss, k)
        PROVE  WantInv' /\ SharingInv'
    BY <1>4 DEF Call
  <1>5. ASSUME NEW p \in Procs, Lookup(p) PROVE WantInv' /\ SharingInv'
    BY <1>5 DEF Lookup, Return
  <1>6. ASSUME NEW p \in Procs, LockFetchMu(p) PROVE WantInv' /\ SharingInv'
    BY <1>6 DEF LockFetchMu
  <1>7. ASSUME NEW p \in Procs, Recheck(p) PROVE WantInv' /\ SharingInv'
    BY <1>7 DEF Recheck, Return, LookupResult
  <1>8. ASSUME NEW p \in Procs, BeginRefresh(p) PROVE WantInv' /\ SharingInv'
    BY <1>8 DEF BeginRefresh
  <1>9. ASSUME NEW p \in Procs, Respond(p) PROVE WantInv' /\ SharingInv'
    BY <1>9 DEF Respond
  <1>10. ASSUME NEW p \in Procs, FetchFail(p) PROVE WantInv' /\ SharingInv'
    BY <1>10 DEF FetchFail, Return, WaitingForFetchMu, RequestInv
  <1>11. ASSUME NEW p \in Procs, Install(p) PROVE WantInv' /\ SharingInv'
    BY <1>11 DEF Install, WaitingForFetchMu, RequestInv
  <1>12. ASSUME NEW p \in Procs, FinalLookup(p) PROVE WantInv' /\ SharingInv'
    BY <1>12 DEF FinalLookup, Return
  <1>13. CASE UNCHANGED vars
    BY <1>13 DEF vars
  <1> QED
    BY <1>1, <1>2, <1>3, <1>4, <1>5, <1>6, <1>7, <1>8, <1>9, <1>10, <1>11,
       <1>12, <1>13 DEF Next

\* A goroutine that waited through a fetch sends a request of its own only for want of a
\* fresh key, and, unless it was delayed, only if that fetch did not bring its kid and
\* lasted for the cool-down (WaitersShareFetch).
THEOREM WaitersShareFetchTheorem == Spec => WaitersShareFetch
  <1>1. Init => WantInv /\ SharingInv
    BY DEF Init, WantInv, SharingInv
  <1>2. StoreInv /\ WantInv /\ SharingInv /\ [Next]_vars =>
          [\A p \in joined : pc[p] = "refresh" /\ pc'[p] = "fetch" =>
              /\ kid[p] \notin keys \/ ~Fresh
              /\ Prompt => /\ outcome = "failed" \/ kid[p] \notin keys
                           /\ attemptAge \in MinRefreshInterval .. RefreshTime]_vars
    <2> SUFFICES ASSUME StoreInv, WantInv, SharingInv, NEW p \in joined, pc[p] = "refresh"
                 PROVE  /\ kid[p] \notin keys \/ ~Fresh
                        /\ Prompt => /\ outcome = "failed" \/ kid[p] \notin keys
                                     /\ attemptAge \in MinRefreshInterval .. RefreshTime
      OBVIOUS
    <2>1. p \in Procs /\ (kid[p] \notin keys \/ ~Fresh)
      BY DEF StoreInv, TypeOK, WantInv
    <2>2. ASSUME Prompt
          PROVE  /\ attemptAge \in 0 .. RefreshTime
                 /\ outcome \in {"ok", "failed"}
                 /\ outcome = "ok" => fetchedAge = 0
      BY <2>1, <2>2 DEF SharingInv, StoreInv, TypeOK, MutexInv, InFetchMu
    <2>3. attemptAge = Never \/ attemptAge >= MinRefreshInterval
      BY <2>1 DEF StoreInv, SpacingInv
    <2> QED
      BY <2>1, <2>2, <2>3 DEF Fresh
  <1> QED
    BY <1>1, <1>2, SharingPreserved, StoreInvariant, PTL DEF Spec, WaitersShareFetch

-----------------------------------------------------------------------------
(* JwksTrustStore implements SnapshotStore. *)

\* Besides StoreInv: nothing is sampled after it is installed, and a goroutine
\* without a body has no age for it.
AgeInv ==
    /\ sampleAge # Never => fetchedAge <= sampleAge
    /\ \A p \in Procs : body[p] = NoBody => bodyAge[p] = 0

\* Every step preserves it.
LEMMA AgePreserved == ASSUME StoreInv, AgeInv, [Next]_vars PROVE AgeInv'
  <1> USE DEF StoreInv, TypeOK, AgeInv, storeVars, procVars, endpointVars, historyVars
  <1>1. ASSUME NEW k \in Kids, Publish(k) \/ Withdraw(k) PROVE AgeInv'
    BY <1>1 DEF Publish, Withdraw
  <1>2. CASE ToggleEndpoint
    BY <1>2 DEF ToggleEndpoint
  <1>3. CASE Tick
    BY <1>3 DEF Tick, Older, CacheInv
  <1>4. ASSUME NEW p \in Procs, NEW iss \in Issuers, NEW k \in Kids, Call(p, iss, k)
        PROVE  AgeInv'
    BY <1>4 DEF Call
  <1>5. ASSUME NEW p \in Procs, Lookup(p) \/ LockFetchMu(p) \/ Recheck(p)
                                \/ BeginRefresh(p) \/ FinalLookup(p)
        PROVE  AgeInv'
    BY <1>5 DEF Lookup, LockFetchMu, Recheck, BeginRefresh, FinalLookup
  <1>6. ASSUME NEW p \in Procs, Respond(p) \/ FetchFail(p) PROVE AgeInv'
    BY <1>6 DEF Respond, FetchFail
  <1>7. ASSUME NEW p \in Procs, Install(p) PROVE AgeInv'
    BY <1>7 DEF Install
  <1>8. CASE UNCHANGED vars
    BY <1>8 DEF vars
  <1> QED
    BY <1>1, <1>2, <1>3, <1>4, <1>5, <1>6, <1>7, <1>8 DEF Next

\* What lookup answers, the snapshot entitles to; so does "unknown" for a key that
\* expired between refresh and the last lookup (lookup, Get).
LEMMA LookupIsEntitled ==
    ASSUME StoreInv, AgeInv, NEW k \in Kids
    PROVE  /\ LookupResult(k) # "fetch" => LookupResult(k) \in Abstract!Entitled(k)
           /\ LookupResult(k) = "fetch" => "unknown" \in Abstract!Entitled(k)
  <1> USE DEF StoreInv, TypeOK, AgeInv, CacheInv
  <1>1. k \in keys => sampleAge # Never /\ fetchedAge # Never
    OBVIOUS
  <1>2. sampleAge # Never /\ ~Fresh => Abstract!Expired
    BY DEF Fresh, Abstract!Expired
  <1>3. k \in keys /\ Fresh => "key" \in Abstract!Entitled(k)
    BY <1>1 DEF Fresh, Abstract!Entitled
  <1>4. k \in keys /\ ~Fresh => {"stale", "unknown"} \subseteq Abstract!Entitled(k)
    BY <1>1, <1>2 DEF Abstract!Entitled
  <1>5. k \notin keys => "unknown" \in Abstract!Entitled(k)
    BY DEF Abstract!Entitled
  <1> QED
    BY <1>3, <1>4, <1>5 DEF LookupResult

-----------------------------------------------------------------------------
(* Steps. *)

\* Who holds a body is the goroutine with fetchMu, so that Incoming is that body,
\* and there is no other (refresh).
LEMMA OneBody ==
    ASSUME StoreInv, AgeInv, NEW p \in Procs
    PROVE  /\ body[p] # NoBody => fetchMu = p
           /\ fetchMu = p => Incoming = body[p] /\ IncomingAge = bodyAge[p]
           /\ fetchMu # p => body[p] = NoBody /\ bodyAge[p] = 0
           /\ pc[p] # "fetch" => body[p] = NoBody /\ bodyAge[p] = 0
  BY DEF StoreInv, TypeOK, AgeInv, MutexInv, RequestInv, InFetchMu, Incoming, IncomingAge

\* A goroutine that returns what it is entitled to, and has no body, answers.
LEMMA ReturnAnswers ==
    ASSUME StoreInv, AgeInv, NEW p \in Procs, NEW a \in Abstract!Entitled(kid[p]),
           pc[p] \notin {"idle", "fetch"}, Return(p, a),
           UNCHANGED <<keys, kid, body, upstream, sampleAge, bodyAge>>
    PROVE  Abstract!Answer(p)
  <1> USE DEF StoreInv, TypeOK, Return
  <1>1. Asked[p] = kid[p] /\ Asked[p] # NoKid
    BY DEF Asked
  <1>2. Asked' = [Asked EXCEPT ![p] = NoKid]
    BY DEF Asked
  <1>3. Incoming' = Incoming /\ IncomingAge' = IncomingAge
    BY OneBody DEF Incoming, IncomingAge
  <1> QED
    BY <1>1, <1>2, <1>3 DEF Abstract!Answer

\* A step of a goroutine, the endpoint or the clock is one of the abstract store,
\* or leaves it alone.
LEMMA StepImplements ==
    ASSUME StoreInv, StoreInv', AgeInv, AgeInv', [Next]_vars
    PROVE  [Abstract!Next]_(Abstract!vars)
  <1> USE DEF StoreInv, TypeOK, storeVars, procVars, endpointVars, historyVars
  <1> DEFINE Stutter == UNCHANGED <<upstream, keys, sampleAge, Incoming, IncomingAge, Asked, answer>>
             Goal == Abstract!Next \/ Stutter
  <1>1. ASSUME NEW k \in Kids, Publish(k) \/ Withdraw(k) PROVE Goal
    <2>1. upstream' \in {upstream \union {k}, upstream \ {k}}
      BY <1>1 DEF Publish, Withdraw
    <2>2. UNCHANGED <<keys, sampleAge, Incoming, IncomingAge, Asked, answer>>
      BY <1>1 DEF Publish, Withdraw, Incoming, IncomingAge, Asked
    <2> QED
      BY <2>1, <2>2 DEF Abstract!Next, Abstract!Change
  <1>2. ASSUME ToggleEndpoint PROVE Goal
    <2>1. UNCHANGED <<upstream, keys, sampleAge, fetchMu, body, bodyAge, pc, kid, answer>>
      BY <1>2 DEF ToggleEndpoint
    <2> QED
      BY <2>1 DEF Incoming, IncomingAge, Asked
  <1>3. ASSUME Tick PROVE Goal
    <2>1. UNCHANGED <<upstream, keys, Incoming, Asked, answer>>
      BY <1>3 DEF Tick, Incoming, Asked
    <2>2. Incoming # NoBody => IncomingAge < RefreshTime
      BY <1>3 DEF Tick, RefreshHasTime, Incoming, IncomingAge, RequestInv
    <2>3. IncomingAge' = IF Incoming = NoBody THEN 0 ELSE Abstract!Older(IncomingAge)
      BY <1>3 DEF Tick, Incoming, IncomingAge, Older, Abstract!Older, Abstract!Never
    <2>4. sampleAge' = Abstract!Older(sampleAge)
      BY <1>3 DEF Tick, Older, Abstract!Older, Abstract!Never
    <2> QED
      BY <2>1, <2>2, <2>3, <2>4 DEF Abstract!Next, Abstract!Tick, Abstract!NoSet
  <1>4. ASSUME NEW p \in Procs, NEW iss \in Issuers, NEW k \in Kids, Call(p, iss, k)
        PROVE  Goal
    <2>1. UNCHANGED <<upstream, keys, sampleAge, Incoming, IncomingAge>>
      BY <1>4 DEF Call, Incoming, IncomingAge
    <2>2. Asked[p] = NoKid
      BY <1>4 DEF Call, Asked
    <2>3. CASE iss \in KnownIssuers
      <3>1. pc' = [pc EXCEPT ![p] = "lookup"] /\ kid' = [kid EXCEPT ![p] = k]
            /\ answer' = [answer EXCEPT ![p] = "none"]
        BY <1>4, <2>3 DEF Call
      <3>2. Asked' = [Asked EXCEPT ![p] = k]
        BY <3>1 DEF Asked
      <3> QED
        BY <2>1, <2>2, <3>1, <3>2 DEF Abstract!Next, Abstract!Ask
    <2>4. CASE iss \notin KnownIssuers
      <3>1. UNCHANGED Asked /\ answer' = [answer EXCEPT ![p] = "unknown"]
        BY <1>4, <2>4 DEF Call, Asked
      <3> QED
        BY <2>1, <2>2, <3>1 DEF Abstract!Next, Abstract!Refuse
    <2> QED
      BY <2>3, <2>4
  <1>5. ASSUME NEW p \in Procs, Lookup(p) PROVE Goal
    <2>1. CASE LookupResult(kid[p]) = "fetch"
      BY <1>5, <2>1 DEF Lookup, Incoming, IncomingAge, Asked
    <2>2. CASE LookupResult(kid[p]) # "fetch"
      <3>1. Abstract!Answer(p)
        BY <1>5, <2>2, LookupIsEntitled, ReturnAnswers DEF Lookup
      <3> QED
        BY <3>1 DEF Abstract!Next
    <2> QED
      BY <2>1, <2>2
  <1>6. ASSUME NEW p \in Procs, LockFetchMu(p) PROVE Goal
    <2>1. body[p] = NoBody /\ bodyAge[p] = 0
      BY <1>6, OneBody DEF LockFetchMu
    <2> QED
      BY <1>6, <2>1 DEF LockFetchMu, Incoming, IncomingAge, Asked
  <1>7. ASSUME NEW p \in Procs, Recheck(p) PROVE Goal
    <2>1. CASE LookupResult(kid[p]) = "fetch"
      BY <1>7, <2>1 DEF Recheck, Incoming, IncomingAge, Asked
    <2>2. CASE LookupResult(kid[p]) # "fetch"
      <3>1. Abstract!Answer(p)
        BY <1>7, <2>2, LookupIsEntitled, ReturnAnswers DEF Recheck
      <3> QED
        BY <3>1 DEF Abstract!Next
    <2> QED
      BY <2>1, <2>2
  <1>8. ASSUME NEW p \in Procs, BeginRefresh(p) PROVE Goal
    BY <1>8 DEF BeginRefresh, Incoming, IncomingAge, Asked
  <1>9. ASSUME NEW p \in Procs, Respond(p) PROVE Goal
    <2>1. fetchMu = p
      BY <1>9 DEF Respond, MutexInv, InFetchMu
    <2>2. Incoming = NoBody /\ Incoming' = upstream /\ IncomingAge' = 0
      BY <1>9, <2>1 DEF Respond, Incoming, IncomingAge
    <2>3. UNCHANGED <<upstream, keys, sampleAge, Asked, answer>>
      BY <1>9 DEF Respond, Asked
    <2> QED
      BY <2>2, <2>3 DEF Abstract!Next, Abstract!Sample, Abstract!NoSet
  <1>10. ASSUME NEW p \in Procs, FetchFail(p) PROVE Goal
    <2>1. fetchMu = p
      BY <1>10 DEF FetchFail, MutexInv, InFetchMu
    <2>2. Incoming' = NoBody /\ IncomingAge' = 0
      BY <1>10, <2>1 DEF FetchFail, Return, Incoming, IncomingAge
    <2>3. Asked[p] # NoKid /\ Asked' = [Asked EXCEPT ![p] = NoKid]
      <3>1. pc[p] = "fetch" /\ pc' = [pc EXCEPT ![p] = "idle"] /\ kid' = kid
        BY <1>10 DEF FetchFail, Return
      <3>2. Asked[p] # NoKid
        BY <3>1 DEF Asked
      <3>3. Asked' = [Asked EXCEPT ![p] = NoKid]
        BY <3>1 DEF Asked
      <3> QED
        BY <3>2, <3>3
    <2>4. UNCHANGED <<upstream, keys, sampleAge>> /\ answer' = [answer EXCEPT ![p] = "error"]
      BY <1>10 DEF FetchFail, Return
    <2> QED
      BY <2>2, <2>3, <2>4 DEF Abstract!Next, Abstract!Fail, Abstract!NoSet
  <1>11. ASSUME NEW p \in Procs, Install(p) PROVE Goal
    <2>1. fetchMu = p
      BY <1>11 DEF Install, MutexInv, InFetchMu
    <2>2. Incoming = body[p] /\ IncomingAge = bodyAge[p] /\ Incoming' = NoBody /\ IncomingAge' = 0
      BY <1>11, <2>1 DEF Install, Incoming, IncomingAge
    <2>3. sampleAge = Never \/ bodyAge[p] <= sampleAge
      BY <1>11 DEF Install, RequestInv
    <2>4. UNCHANGED <<upstream, Asked, answer>>
      BY <1>11 DEF Install, Asked
    <2>5. body[p] \subseteq Loadable /\ keys' = body[p] /\ sampleAge' = bodyAge[p]
      BY <1>11 DEF Install, Loads, Replacement
    <2> QED
      BY <2>2, <2>3, <2>4, <2>5 DEF Abstract!Next, Abstract!Adopt, Abstract!NoSet, Abstract!Never
  <1>12. ASSUME NEW p \in Procs, FinalLookup(p) PROVE Goal
    <2> DEFINE a == IF LookupResult(kid[p]) = "fetch" THEN "unknown" ELSE LookupResult(kid[p])
    <2>1. a \in Abstract!Entitled(kid[p])
      BY LookupIsEntitled
    <2>2. Abstract!Answer(p)
      BY <1>12, <2>1, ReturnAnswers DEF FinalLookup
    <2> QED
      BY <2>2 DEF Abstract!Next
  <1>13. ASSUME UNCHANGED vars PROVE Goal
    <2>1. UNCHANGED <<upstream, keys, sampleAge, fetchMu, body, bodyAge, pc, kid, answer>>
      BY <1>13 DEF vars
    <2> QED
      BY <2>1 DEF Incoming, IncomingAge, Asked
  <1>14. Goal
    <2> HIDE DEF Goal, StoreInv, TypeOK, storeVars, procVars, endpointVars, historyVars
    <2> QED
      BY <1>1, <1>2, <1>3, <1>4, <1>5, <1>6, <1>7, <1>8, <1>9, <1>10, <1>11,
         <1>12, <1>13 DEF Next
  <1> QED
    BY <1>14 DEF Abstract!vars

\* Goroutines, locks and requests together are one store that answers from whole,
\* ever newer and bounded-stale snapshots (ImplementsSnapshotStore).
THEOREM Refinement == Spec => ImplementsSnapshotStore
  <1>1. Init => AgeInv
    BY DEF Init, AgeInv
  <1>2. Spec => []AgeInv
    BY <1>1, StoreInvariant, AgePreserved, PTL DEF Spec
  <1>3. Init => Abstract!Init
    BY DEF Init, Abstract!Init, Abstract!Never, Abstract!NoSet, Incoming, IncomingAge, Asked
  <1> QED
    BY <1>2, <1>3, StoreInvariant, StepImplements, PTL
       DEF Spec, ImplementsSnapshotStore, Abstract!Spec

=============================================================================
