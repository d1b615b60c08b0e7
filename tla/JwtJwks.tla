------------------------------- MODULE JwtJwks -------------------------------
(***************************************************************************)
(* JwtVerifierImpl.Verify over the JWKS trust store.  Verify reads the     *)
(* clock, checks the token, and then calls a Get that may wait for a       *)
(* request, its own or another goroutine's, before the key is checked.     *)
(*                                                                         *)
(* The times in a token are relative to the clock reading of its Verify,   *)
(* so every Verify reads 0.  KeyOf gives the key an endpoint publishes     *)
(* under a kid.                                                            *)
(***************************************************************************)
EXTENDS JwksRefinement

CONSTANTS Tokens, Audiences, KeyOf, NoJwk, NoToken

ASSUME TokensAssumption ==
    /\ DOMAIN KeyOf = Kids /\ \A k \in Kids : KeyOf[k] # NoJwk
    /\ NoToken \notin Tokens
    /\ \A t \in Tokens :
        /\ t.nbf \in Int /\ t.exp \in Int
        /\ t.iss \in Issuers /\ t.kid \in Kids \union {NoKid}

VARIABLES
    token,     \* the token each goroutine verifies, or NoToken
    left,      \* history: time left until that token expires
    grace,     \* history: the time that Get may have taken of it
    calmAge,   \* history: for how long fetches have been able to bring each kid
    raced      \* history: goroutines whose first lookup met a request in flight

verifierVars == <<token, left, grace, calmAge, raced>>
verifyVars == <<vars, verifierVars>>

INSTANCE JwtChecks

-----------------------------------------------------------------------------
VerifyInit ==
    /\ Init
    /\ token = [p \in Procs |-> NoToken]
    /\ left = [p \in Procs |-> 0]
    /\ grace = [p \in Procs |-> 0]
    /\ calmAge = [k \in Kids |-> 0]
    /\ raced = {}

\* A fetch begun now would succeed and bring k.
Calm(k) == up /\ k \in upstream /\ upstream \subseteq Loadable

\* calmAge starts anew with every disturbance.
Calmed == calmAge' = [k \in Kids |-> IF Calm(k) /\ Calm(k)' THEN calmAge[k] ELSE 0]

\* Verify up to its call of Get, which Call begins.  A token that fails a check
\* before that is returned with its error and changes nothing.
Begin(p, t, auds) ==
    /\ token[p] = NoToken
    /\ TokenCheck(t, auds, 0) = "ok"
    /\ Call(p, t.iss, t.kid)
    /\ token' = [token EXCEPT ![p] = t]
    /\ left' = [left EXCEPT ![p] = t.exp]
    /\ grace' = [grace EXCEPT ![p] = RefreshTime]
    /\ UNCHANGED <<calmAge, raced>>

\* The key that Get returned: nil with every answer but "key", whatever the error.
ReturnedKey(p) == IF answer[p] = "key" THEN KeyOf[kid[p]] ELSE NoJwk

\* What Verify returns once Get has.
Verdict(p) == KeyCheck(ReturnedKey(p), token[p])

Finish(p) ==
    /\ token[p] # NoToken /\ pc[p] = "idle"
    /\ token' = [token EXCEPT ![p] = NoToken]
    /\ left' = [left EXCEPT ![p] = 0]
    /\ grace' = [grace EXCEPT ![p] = 0]
    /\ raced' = raced \ {p}
    /\ UNCHANGED <<vars, calmAge>>

\* The first lookup of Get, and whether a request was in flight then.
VerifyLookup(p) ==
    /\ Lookup(p)
    /\ raced' = IF \E q \in Procs : pc[q] = "fetch" THEN raced \union {p} ELSE raced
    /\ UNCHANGED <<token, left, grace, calmAge>>

\* The steps of Get that end no request.
GetStep(p) ==
    /\ \/ LockFetchMu(p) \/ Recheck(p) \/ BeginRefresh(p) \/ Respond(p) \/ FinalLookup(p)
    /\ UNCHANGED verifierVars

\* Time beyond Horizon is not told apart.
Capped(time) == IF time > Horizon THEN Horizon + 1 ELSE time

\* A request ends.  If it outlasted the cool-down, whoever waited for it may have to
\* wait for another one.
EndRequest(p) ==
    /\ FetchFail(p) \/ Install(p)
    /\ grace' = [q \in Procs |->
                    IF q \in WaitingForFetchMu /\ attemptAge >= MinRefreshInterval
                    THEN Capped(grace[q] + RefreshTime) ELSE grace[q]]
    /\ UNCHANGED <<token, left, calmAge, raced>>

Endpoint ==
    /\ (\E k \in Kids : Publish(k) \/ Withdraw(k)) \/ ToggleEndpoint
    /\ Calmed
    /\ UNCHANGED <<token, left, grace, raced>>

VerifyTick ==
    /\ Prompt => \A p \in Procs : pc[p] = "idle" => token[p] = NoToken
    /\ Tick
    /\ left' = [p \in Procs |-> IF token[p] = NoToken \/ left[p] = -Horizon
                                THEN left[p] ELSE left[p] - 1]
    /\ calmAge' = [k \in Kids |-> IF Calm(k) THEN Older(calmAge[k]) ELSE 0]
    /\ UNCHANGED <<token, grace, raced>>

VerifyNext ==
    \/ Endpoint \/ VerifyTick
    \/ \E p \in Procs :
        \/ \E t \in Tokens, auds \in Audiences : Begin(p, t, auds)
        \/ VerifyLookup(p) \/ GetStep(p) \/ EndRequest(p) \/ Finish(p)

VerifySpec == VerifyInit /\ [][VerifyNext]_verifyVars

-----------------------------------------------------------------------------
\* Verify of p, past Get, returns v.
Concludes(p, v) == token[p] # NoToken /\ token'[p] = NoToken /\ Verdict(p) = v

(***************************************************************************)
(* The clock is read before Get, which may wait: an accepted token has     *)
(* still not been expired for longer than one request, and one more for    *)
(* each request its goroutine waited for that outlasted the cool-down,     *)
(* however many goroutines wait for each other (Verify, Get).              *)
(***************************************************************************)
AcceptedInTime ==
    [][Prompt =>
        \A p \in Procs : Concludes(p, "accepted") => left[p] + grace[p] > 0]_verifyVars

(***************************************************************************)
(* A withdrawn key is not accepted: no token is accepted with a key that   *)
(* left the endpoint's set more than RefreshInterval plus one request      *)
(* before, however long the goroutine waited in Get (Verify, Get).         *)
(***************************************************************************)
AcceptedIsPublished ==
    [][Prompt /\ RefreshInterval > 0 =>
        \A p \in Procs : Concludes(p, "accepted") =>
            PublishedWithin(token[p].kid, RefreshInterval + RefreshTime)]_verifyVars

(***************************************************************************)
(* ErrUnknownKey hides every error of the store, but it has a cause: while *)
(* the endpoint is up and publishes the kid and keys that load, a token of *)
(* a known issuer is refused for want of a key only within the cool-down   *)
(* of an attempt made before that, or if its lookup met a request in       *)
(* flight (Verify, lookup, refresh).                                       *)
(***************************************************************************)
UnknownKeyHasACause ==
    [][Prompt /\ (RefreshInterval = 0 \/ RefreshInterval >= MinRefreshInterval) =>
        \A p \in Procs : Concludes(p, "unknown_key") =>
            \/ token[p].iss \notin InputIssuers
            \/ p \in raced
            \/ calmAge[token[p].kid] < MinRefreshInterval
            \/ calmAge[token[p].kid] <= RefreshTime]_verifyVars

=============================================================================
