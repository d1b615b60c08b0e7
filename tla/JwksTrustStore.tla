--------------------------- MODULE JwksTrustStore ---------------------------
(***************************************************************************)
(* The caching trust store of jwks_truststore.go: goroutines call Get on   *)
(* one JwksTrustStore, whose key set is fetched from a JWKS endpoint that  *)
(* publishes and withdraws keys, goes down and comes back.                 *)
(*                                                                         *)
(* Time.  The code compares only differences of clock readings             *)
(* (now.Sub(fetchedAt), now.Sub(lastAttempt)), so each time stamp is kept  *)
(* as its age, which Tick advances; store.now() assigned to a field sets   *)
(* the field's age to 0.  Ages saturate at Horizon, beyond every value the *)
(* code and the properties tell apart, so time itself is unbounded.        *)
(*                                                                         *)
(* Atomicity.  lookup, knownIssuer and the two assignments of refresh run  *)
(* under store.mu, which is never held across a blocking call: each is one *)
(* step.  fetchMu is held over several steps and is a variable.            *)
(***************************************************************************)
EXTENDS Integers, FiniteSets

CONSTANTS
    Procs,              \* goroutines that call Get
    Kids,               \* key ids
    Loadable,           \* the kids whose JWK NewVerificationKey accepts
    Issuers,            \* issuers that tokens name
    InputIssuers,       \* the store's comma-separated issuer list, split
    RefreshInterval,    \* refreshInterval; 0 disables periodic re-fetching
    MinRefreshInterval, \* minRefreshInterval, the cool-down
    RefreshTime,        \* the longest that refresh takes, see RefreshHasTime
    Prompt,             \* TRUE: steps that wait for nobody take no time
    Horizon,            \* where ages saturate
    NoProc, NoKid

ASSUME ConstantsAssumption ==
    /\ Loadable \subseteq Kids
    /\ InputIssuers \subseteq Issuers /\ InputIssuers # {}
    /\ RefreshInterval \in Nat /\ MinRefreshInterval \in Nat
    /\ RefreshTime \in Nat \ {0}
    /\ Horizon \in Nat
    /\ Horizon > RefreshInterval + RefreshTime /\ Horizon >= MinRefreshInterval
    /\ Prompt \in BOOLEAN
    /\ NoProc \notin Procs
    /\ NoKid \notin Kids

VARIABLES
    (* the store *)
    issuers,     \* store.issuers; {} until the first Get splits the list
    keys,        \* kids of store.keys
    fetchedAge,  \* age of store.fetchedAt, or Never
    attemptAge,  \* age of store.lastAttempt, or Never
    fetchMu,     \* the goroutine that holds fetchMu, or NoProc
    (* the goroutines *)
    pc,          \* where each one is in Get
    kid,         \* the kid it asked for
    answer,      \* what its last Get returned
    body,        \* the key set its request's response carries, or NoBody
    (* the endpoint *)
    upstream,    \* the kids it publishes now
    up,          \* FALSE: any cause that makes a request fail
    (* history, read by the properties only *)
    changedAge,  \* time since each kid was last published or withdrawn
    sampleAge,   \* time since the endpoint sampled what keys holds, or Never
    bodyAge,     \* time since the endpoint sampled each body
    outcome,     \* of the last attempt
    joined       \* goroutines that waited for fetchMu until a fetch ended

storeVars == <<issuers, keys, fetchedAge, attemptAge>>
procVars == <<fetchMu, pc, kid, answer, body>>
endpointVars == <<upstream, up>>
historyVars == <<changedAge, sampleAge, bodyAge, outcome, joined>>
vars == <<storeVars, procVars, endpointVars, historyVars>>

-----------------------------------------------------------------------------
Never == -1
NoBody == {NoKid}
Ages == 0 .. Horizon
Older(age) == IF age = Never \/ age = Horizon THEN age ELSE age + 1

PCs == {"idle", "lookup", "lock", "recheck", "refresh", "fetch", "final"}
Answers == {"none", "key", "unknown", "stale", "error"}
Outcomes == {"none", "pending", "ok", "failed"}

Init ==
    /\ issuers = {}
    /\ keys = {}
    /\ fetchedAge = Never
    /\ attemptAge = Never
    /\ fetchMu = NoProc
    /\ pc = [p \in Procs |-> "idle"]
    /\ kid \in [Procs -> Kids]
    /\ answer = [p \in Procs |-> "none"]
    /\ body = [p \in Procs |-> NoBody]
    /\ upstream \in SUBSET Kids
    /\ up \in BOOLEAN
    /\ changedAge = [k \in Kids |-> Horizon]
    /\ sampleAge = Never
    /\ bodyAge = [p \in Procs |-> 0]
    /\ outcome = "none"
    /\ joined = {}

-----------------------------------------------------------------------------
(* The endpoint and the clock.                                             *)

Publish(k) ==
    /\ k \notin upstream
    /\ upstream' = upstream \union {k}
    /\ changedAge' = [changedAge EXCEPT ![k] = 0]
    /\ UNCHANGED <<storeVars, procVars, up, sampleAge, bodyAge, outcome, joined>>

Withdraw(k) ==
    /\ k \in upstream
    /\ upstream' = upstream \ {k}
    /\ changedAge' = [changedAge EXCEPT ![k] = 0]
    /\ UNCHANGED <<storeVars, procVars, up, sampleAge, bodyAge, outcome, joined>>

ToggleEndpoint ==
    /\ up' = ~up
    /\ UNCHANGED <<storeVars, procVars, upstream, historyVars>>

\* p waits: for a call, for the network, or for the goroutine with fetchMu.
Waiting(p) ==
    \/ pc[p] \in {"idle", "fetch"}
    \/ pc[p] = "lock" /\ fetchMu # NoProc

\* Mutant: a client without a Timeout.
NoTimeout == TRUE

\* A refresh takes at most RefreshTime from its first critical section to its second
\* or to its error: http.Client.Timeout bounds the request and its body, and RefreshTime
\* adds to that what delays the goroutine before, between and after them.
RefreshHasTime == \A p \in Procs : pc[p] = "fetch" => attemptAge < RefreshTime

Tick ==
    /\ RefreshHasTime
    /\ Prompt => \A p \in Procs : Waiting(p)
    /\ fetchedAge' = Older(fetchedAge)
    /\ attemptAge' = Older(attemptAge)
    /\ sampleAge' = Older(sampleAge)
    /\ changedAge' = [k \in Kids |-> Older(changedAge[k])]
    /\ bodyAge' = [p \in Procs |-> IF body[p] = NoBody THEN 0 ELSE Older(bodyAge[p])]
    /\ UNCHANGED <<issuers, keys, procVars, endpointVars, outcome, joined>>

-----------------------------------------------------------------------------
(* lookup: what the cache may answer, or "fetch" for done = false.         *)

Fresh ==
    /\ fetchedAge # Never
    /\ RefreshInterval = 0 \/ fetchedAge <= RefreshInterval

\* Mutant: the cool-down never ends.
CoolingDownForever == attemptAge # Never

CoolingDown == attemptAge # Never /\ attemptAge < MinRefreshInterval

LookupResult(k) ==
    CASE k \in keys /\ Fresh -> "key"
      [] k \in keys /\ ~Fresh /\ CoolingDown -> "stale"
      [] k \notin keys /\ CoolingDown -> "unknown"
      [] OTHER -> "fetch"

-----------------------------------------------------------------------------
(* Get.                                                                    *)

\* Mutant: a return path without the Unlock.
ReturnLocked(p, a) ==
    /\ pc' = [pc EXCEPT ![p] = "idle"]
    /\ answer' = [answer EXCEPT ![p] = a]
    /\ UNCHANGED fetchMu

\* Leave Get with answer a; the deferred Unlock runs if p holds fetchMu.
Return(p, a) ==
    /\ pc' = [pc EXCEPT ![p] = "idle"]
    /\ answer' = [answer EXCEPT ![p] = a]
    /\ fetchMu' = IF fetchMu = p THEN NoProc ELSE fetchMu

KnownIssuers == IF issuers = {} THEN InputIssuers ELSE issuers

\* Get is called, up to and including knownIssuer.
Call(p, iss, k) ==
    /\ pc[p] = "idle"
    /\ issuers' = KnownIssuers
    /\ kid' = [kid EXCEPT ![p] = k]
    /\ IF iss \in KnownIssuers
       THEN /\ pc' = [pc EXCEPT ![p] = "lookup"]
            /\ answer' = [answer EXCEPT ![p] = "none"]
       ELSE /\ answer' = [answer EXCEPT ![p] = "unknown"]
            /\ UNCHANGED pc
    /\ UNCHANGED <<keys, fetchedAge, attemptAge, fetchMu, body, endpointVars, historyVars>>

\* The first lookup, before any fetch lock is taken.
Lookup(p) ==
    /\ pc[p] = "lookup"
    /\ IF LookupResult(kid[p]) = "fetch"
       THEN pc' = [pc EXCEPT ![p] = "lock"] /\ UNCHANGED <<answer, fetchMu>>
       ELSE Return(p, LookupResult(kid[p]))
    /\ UNCHANGED <<storeVars, kid, body, endpointVars, historyVars>>

\* Mutant: fetches are not serialised.
EnterUnlocked(p) ==
    /\ pc[p] = "lock"
    /\ fetchMu' = p
    /\ pc' = [pc EXCEPT ![p] = "recheck"]
    /\ UNCHANGED <<storeVars, kid, answer, body, endpointVars, historyVars>>

LockFetchMu(p) ==
    /\ pc[p] = "lock"
    /\ fetchMu = NoProc
    /\ fetchMu' = p
    /\ pc' = [pc EXCEPT ![p] = "recheck"]
    /\ UNCHANGED <<storeVars, kid, answer, body, endpointVars, historyVars>>

\* Mutant: no second lookup.
SkipRecheck(p) ==
    /\ pc[p] = "recheck"
    /\ pc' = [pc EXCEPT ![p] = "refresh"]
    /\ UNCHANGED <<storeVars, fetchMu, kid, answer, body, endpointVars, historyVars>>

\* The second lookup, under fetchMu.
Recheck(p) ==
    /\ pc[p] = "recheck"
    /\ IF LookupResult(kid[p]) = "fetch"
       THEN /\ pc' = [pc EXCEPT ![p] = "refresh"]
            /\ UNCHANGED <<answer, fetchMu, joined>>
       ELSE Return(p, LookupResult(kid[p])) /\ joined' = joined \ {p}
    /\ UNCHANGED <<storeVars, kid, body, endpointVars,
                   changedAge, sampleAge, bodyAge, outcome>>

\* refresh records the attempt, then sends the request.
BeginRefresh(p) ==
    /\ pc[p] = "refresh"
    /\ attemptAge' = 0
    /\ pc' = [pc EXCEPT ![p] = "fetch"]
    /\ outcome' = "pending"
    /\ UNCHANGED <<issuers, keys, fetchedAge, fetchMu, kid, answer, body,
                   endpointVars, changedAge, sampleAge, bodyAge, joined>>

\* The endpoint answers 200 with the set it publishes at this instant.
Respond(p) ==
    /\ pc[p] = "fetch" /\ body[p] = NoBody
    /\ up
    /\ body' = [body EXCEPT ![p] = upstream]
    /\ bodyAge' = [bodyAge EXCEPT ![p] = 0]
    /\ UNCHANGED <<storeVars, fetchMu, pc, kid, answer, endpointVars,
                   changedAge, sampleAge, outcome, joined>>

WaitingForFetchMu == {q \in Procs : pc[q] = "lock"}

\* NewVerificationKey accepts every key of the body.
Loads(p) == body[p] \subseteq Loadable

\* Mutants: the fetched set is merged into the cached one, or never assigned.
Merged(p) == keys \union body[p]
Unassigned(p) == keys

\* The set that takes the place of store.keys.
Replacement(p) == body[p]

\* refresh fails: no response, a status other than 200, a body that does not
\* decode, or one key of it that NewVerificationKey rejects.
FetchFail(p) ==
    /\ pc[p] = "fetch"
    /\ \/ ~up
       \/ body[p] # NoBody /\ ~Loads(p)
    /\ Return(p, "error")
    /\ body' = [body EXCEPT ![p] = NoBody]
    /\ bodyAge' = [bodyAge EXCEPT ![p] = 0]
    /\ outcome' = "failed"
    /\ joined' = (joined \ {p}) \union WaitingForFetchMu
    /\ UNCHANGED <<storeVars, kid, endpointVars, changedAge, sampleAge>>

\* refresh replaces the cached set.
Install(p) ==
    /\ pc[p] = "fetch"
    /\ body[p] # NoBody /\ Loads(p)
    /\ keys' = Replacement(p)
    /\ fetchedAge' = 0
    /\ sampleAge' = bodyAge[p]
    /\ pc' = [pc EXCEPT ![p] = "final"]
    /\ body' = [body EXCEPT ![p] = NoBody]
    /\ bodyAge' = [bodyAge EXCEPT ![p] = 0]
    /\ outcome' = "ok"
    /\ joined' = joined \union WaitingForFetchMu
    /\ UNCHANGED <<issuers, attemptAge, fetchMu, kid, answer, endpointVars, changedAge>>

\* The lookup after a successful refresh: Get ignores its done result.
FinalLookup(p) ==
    /\ pc[p] = "final"
    /\ Return(p, IF LookupResult(kid[p]) = "fetch" THEN "unknown"
                                                   ELSE LookupResult(kid[p]))
    /\ joined' = joined \ {p}
    /\ UNCHANGED <<storeVars, kid, body, endpointVars,
                   changedAge, sampleAge, bodyAge, outcome>>

-----------------------------------------------------------------------------
FetchStep(p) == Respond(p) \/ FetchFail(p) \/ Install(p)

LocalStep(p) == Lookup(p) \/ Recheck(p) \/ BeginRefresh(p) \/ FinalLookup(p)

Next ==
    \/ \E k \in Kids : Publish(k) \/ Withdraw(k)
    \/ ToggleEndpoint
    \/ Tick
    \/ \E p \in Procs :
        \/ \E iss \in Issuers, k \in Kids : Call(p, iss, k)
        \/ Lookup(p) \/ LockFetchMu(p) \/ Recheck(p) \/ BeginRefresh(p)
        \/ Respond(p) \/ FetchFail(p) \/ Install(p) \/ FinalLookup(p)

Spec == Init /\ [][Next]_vars

(***************************************************************************)
(* Goroutines are scheduled; a request ends, since http.Client.Timeout     *)
(* ends it if nothing else does; sync.Mutex hands over to a goroutine that *)
(* has waited for long (its starvation mode), so acquiring fetchMu is      *)
(* strongly fair; time passes.  Nothing makes anyone call Get, and the     *)
(* endpoint owes nothing.                                                  *)
(***************************************************************************)
Fairness ==
    /\ WF_vars(Tick)
    /\ \A p \in Procs :
        /\ WF_vars(LocalStep(p))
        /\ WF_vars(FetchStep(p))
        /\ SF_vars(LockFetchMu(p))

FairSpec == Spec /\ Fairness

-----------------------------------------------------------------------------
(* Safety.                                                                 *)

TypeOK ==
    /\ issuers \in SUBSET InputIssuers
    /\ keys \in SUBSET Loadable
    /\ fetchedAge \in Ages \union {Never}
    /\ attemptAge \in Ages \union {Never}
    /\ fetchMu \in Procs \union {NoProc}
    /\ pc \in [Procs -> PCs]
    /\ kid \in [Procs -> Kids]
    /\ answer \in [Procs -> Answers]
    /\ body \in [Procs -> (SUBSET Kids) \union {NoBody}]
    /\ upstream \in SUBSET Kids
    /\ up \in BOOLEAN
    /\ changedAge \in [Kids -> Ages]
    /\ sampleAge \in Ages \union {Never}
    /\ bodyAge \in [Procs -> Ages]
    /\ outcome \in Outcomes
    /\ joined \in SUBSET Procs

\* p returns from Get, past the issuer check, with answer a.
Returns(p, a) == pc[p] # "idle" /\ pc'[p] = "idle" /\ answer'[p] = a

\* k is published now, or was at some instant of the last d units of time.
PublishedWithin(k, d) == k \in upstream \/ changedAge[k] <= d

\* k is not published now, or was not at some instant of the last d units.
AbsentWithin(k, d) == k \notin upstream \/ changedAge[k] <= d

(***************************************************************************)
(* Upstream removals take effect: with periodic re-fetching on, Get never  *)
(* returns a key that left the endpoint's set more than RefreshInterval    *)
(* plus one request before, whatever failed and whoever waited meanwhile   *)
(* (lookup, refresh).                                                      *)
(***************************************************************************)
WithdrawnKeysExpire ==
    [][RefreshInterval > 0 =>
        \A p \in Procs : Returns(p, "key") =>
            PublishedWithin(kid[p], RefreshInterval + RefreshTime)]_vars

(***************************************************************************)
(* "unknown" is never the fault of an old cache: when the last attempt     *)
(* succeeded, a kid reported unknown was absent from the endpoint at some  *)
(* instant since that attempt began.  The exception is a goroutine that    *)
(* sleeps through RefreshInterval between its own fetch and its last       *)
(* lookup (lookup, Get).                                                   *)
(***************************************************************************)
UnknownIsRecent ==
    [][\A p \in Procs : Returns(p, "unknown") /\ outcome = "ok" =>
            \/ AbsentWithin(kid[p], attemptAge)
            \/ pc[p] = "final" /\ ~Fresh]_vars

(***************************************************************************)
(* The rate limit: two attempts are at least MinRefreshInterval apart,     *)
(* although lookup decides and refresh records the attempt in different    *)
(* critical sections.                                                      *)
(***************************************************************************)
AttemptsAreSpaced ==
    [][\A p \in Procs : pc[p] = "refresh" /\ pc'[p] = "fetch" =>
            attemptAge = Never \/ attemptAge >= MinRefreshInterval]_vars

(***************************************************************************)
(* The cache never goes back in time: what refresh installs was sampled by *)
(* the endpoint no earlier than what it replaces, because fetchMu keeps    *)
(* requests from overlapping.                                              *)
(***************************************************************************)
CacheNeverRegresses ==
    [][\A p \in Procs : pc[p] = "fetch" /\ pc'[p] = "final" =>
            sampleAge = Never \/ sampleAge' <= sampleAge]_vars

(***************************************************************************)
(* One request serves those who waited for it, as far as the code keeps    *)
(* that promise (fetchMu, Get): a goroutine that waited for fetchMu until  *)
(* a fetch ended sends a request of its own only for want of a fresh key,  *)
(* and, unless it was delayed, only if the fetch it waited for failed or   *)
(* did not bring its kid, and lasted for the cool-down or longer.          *)
(***************************************************************************)
WaitersShareFetch ==
    [][\A p \in joined : pc[p] = "refresh" /\ pc'[p] = "fetch" =>
        /\ kid[p] \notin keys \/ ~Fresh
        /\ Prompt => /\ outcome = "failed" \/ kid[p] \notin keys
                     /\ attemptAge \in MinRefreshInterval .. RefreshTime]_vars

(***************************************************************************)
(* What the comment on fetchMu says of every choice of the intervals:      *)
(* "concurrent lookups needing one make a single request and the rest      *)
(* re-check the cache once it lands", so that nobody who waited for a      *)
(* request that landed goes on to send one.                                *)
(***************************************************************************)
OneRequestServesAll == \A p \in joined : pc[p] = "refresh" => outcome # "ok"

(***************************************************************************)
(* Why the safety properties hold: the inductive invariant.                *)
(***************************************************************************)

InFetchMu == {"recheck", "refresh", "fetch", "final"}

\* fetchMu protects the code between its Lock and its Unlock.
MutexInv == \A p \in Procs : fetchMu = p <=> pc[p] \in InFetchMu

\* A request is in flight only for p in "fetch", and no longer than RefreshTime.
RequestInv ==
    \A p \in Procs :
        /\ pc[p] = "fetch" =>
            /\ attemptAge \in 0 .. RefreshTime
            /\ outcome = "pending"
            /\ sampleAge # Never => attemptAge <= sampleAge
        /\ body[p] # NoBody => pc[p] = "fetch" /\ bodyAge[p] <= attemptAge

\* The set S was what the endpoint published at one instant within d.
SampledWithin(S, d) ==
    \A k \in Kids : IF k \in S THEN PublishedWithin(k, d) ELSE AbsentWithin(k, d)

BodyInv ==
    \A p \in Procs : body[p] # NoBody => SampledWithin(body[p], bodyAge[p])

CacheInv ==
    /\ sampleAge = Never => fetchedAge = Never /\ keys = {}
    /\ sampleAge # Never =>
        /\ fetchedAge # Never
        /\ sampleAge <= fetchedAge + RefreshTime
        /\ SampledWithin(keys, sampleAge)

\* Between deciding to fetch and recording the attempt nothing is recorded.
SpacingInv ==
    \A p \in Procs : pc[p] = "refresh" =>
        attemptAge = Never \/ attemptAge >= MinRefreshInterval

OutcomeInv ==
    outcome = "ok" => sampleAge # Never /\ sampleAge <= attemptAge

\* The inductive invariant of the store: fetchMu serialises requests, and
\* what they bring back is as old as the ages say (Get, lookup, refresh).
StoreInv ==
    /\ TypeOK
    /\ MutexInv /\ RequestInv /\ BodyInv /\ CacheInv /\ SpacingInv /\ OutcomeInv

-----------------------------------------------------------------------------
(* Liveness.                                                               *)

\* Every Get returns, whatever the endpoint does.
GetReturns == \A p \in Procs : pc[p] # "idle" ~> pc[p] = "idle"

(***************************************************************************)
(* Recovery: if the endpoint stays up, keeps publishing k and only keys    *)
(* that load, and lookups for k keep coming, the cache ends up holding k   *)
(* for good, although failed attempts keep starting cool-downs.            *)
(***************************************************************************)
CacheConverges ==
    \A k \in Kids :
        (/\ <>[](up /\ k \in upstream /\ upstream \subseteq Loadable)
         /\ []<>(\E p \in Procs : pc[p] = "lookup" /\ kid[p] = k))
        => <>[](k \in keys)

=============================================================================
