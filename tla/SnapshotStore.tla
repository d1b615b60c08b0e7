---------------------------- MODULE SnapshotStore ----------------------------
(***************************************************************************)
(* What JwksTrustStore promises its callers, without goroutines, locks,    *)
(* cool-downs or requests: a store that holds one whole snapshot of the    *)
(* registry, replaces it only by a later one, and answers from it alone.   *)
(* A snapshot is adopted at most Latency after it was sampled, and serves  *)
(* keys until it is Lifetime older than that (0: for ever).  The store may *)
(* fail to answer at any time; it may not answer wrongly.                  *)
(***************************************************************************)
EXTENDS Integers

CONSTANTS Clients, Kids, Loadable, Lifetime, Latency, Horizon, NoKid

VARIABLES
    registry,     \* the kids published now
    snapshot,     \* the kids the store knows
    snapshotAge,  \* time since the registry was sampled for it, or Never
    incoming,     \* the sampled set that is on its way, or NoSet
    incomingAge,  \* time since it was sampled
    asked,        \* the kid each client waits for, or NoKid
    reply         \* the last answer to each client

vars == <<registry, snapshot, snapshotAge, incoming, incomingAge, asked, reply>>

Never == -1
NoSet == {NoKid}
Older(age) == IF age = Never \/ age = Horizon THEN age ELSE age + 1

Init ==
    /\ registry \in SUBSET Kids
    /\ snapshot = {} /\ snapshotAge = Never
    /\ incoming = NoSet /\ incomingAge = 0
    /\ asked = [c \in Clients |-> NoKid]
    /\ reply = [c \in Clients |-> "none"]

\* One kid is published or withdrawn.
Change ==
    /\ \E k \in Kids : registry' \in {registry \union {k}, registry \ {k}}
    /\ UNCHANGED <<snapshot, snapshotAge, incoming, incomingAge, asked, reply>>

Tick ==
    /\ incoming # NoSet => incomingAge < Latency
    /\ snapshotAge' = Older(snapshotAge)
    /\ incomingAge' = IF incoming = NoSet THEN 0 ELSE Older(incomingAge)
    /\ UNCHANGED <<registry, snapshot, incoming, asked, reply>>

Sample ==
    /\ incoming = NoSet
    /\ incoming' = registry
    /\ incomingAge' = 0
    /\ UNCHANGED <<registry, snapshot, snapshotAge, asked, reply>>

\* The set that was on its way becomes the snapshot, all of it or nothing.
Adopt ==
    /\ incoming \subseteq Loadable
    /\ snapshotAge = Never \/ incomingAge <= snapshotAge
    /\ snapshot' = incoming
    /\ snapshotAge' = incomingAge
    /\ incoming' = NoSet /\ incomingAge' = 0
    /\ UNCHANGED <<registry, asked, reply>>

Ask(c, k) ==
    /\ asked[c] = NoKid
    /\ asked' = [asked EXCEPT ![c] = k]
    /\ reply' = [reply EXCEPT ![c] = "none"]
    /\ UNCHANGED <<registry, snapshot, snapshotAge, incoming, incomingAge>>

\* A client that names a foreign issuer is refused at once.
Refuse(c) ==
    /\ asked[c] = NoKid
    /\ reply' = [reply EXCEPT ![c] = "unknown"]
    /\ UNCHANGED <<registry, snapshot, snapshotAge, incoming, incomingAge, asked>>

Expired == Lifetime > 0 /\ snapshotAge > Lifetime

\* What the snapshot entitles the store to say about k.
Entitled(k) ==
    (IF k \in snapshot /\ (Lifetime > 0 => snapshotAge <= Lifetime + Latency)
     THEN {"key"} ELSE {}) \union
    (IF k \notin snapshot \/ Expired THEN {"unknown"} ELSE {}) \union
    (IF k \in snapshot /\ Expired THEN {"stale"} ELSE {})

Answer(c) ==
    /\ asked[c] # NoKid
    /\ asked' = [asked EXCEPT ![c] = NoKid]
    /\ \E a \in Entitled(asked[c]) : reply' = [reply EXCEPT ![c] = a]
    /\ UNCHANGED <<registry, snapshot, snapshotAge, incoming, incomingAge>>

\* The client whose request brought the set on its way, or failed to, is told so.
Fail(c) ==
    /\ asked[c] # NoKid
    /\ asked' = [asked EXCEPT ![c] = NoKid]
    /\ reply' = [reply EXCEPT ![c] = "error"]
    /\ incoming' = NoSet /\ incomingAge' = 0
    /\ UNCHANGED <<registry, snapshot, snapshotAge>>

Next ==
    \/ Change \/ Tick \/ Sample \/ Adopt
    \/ \E c \in Clients :
        \/ \E k \in Kids : Ask(c, k)
        \/ Refuse(c) \/ Answer(c) \/ Fail(c)

Spec == Init /\ [][Next]_vars

=============================================================================
