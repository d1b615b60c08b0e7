--------------------------- MODULE JwksRefinement ---------------------------
(***************************************************************************)
(* JwksTrustStore implements SnapshotStore.  The snapshot is the cached    *)
(* set, aged from the instant the endpoint sampled it; what is on its way  *)
(* is the body of the one request in flight, that of the goroutine with    *)
(* fetchMu; a client waits while its goroutine is inside Get.              *)
(***************************************************************************)
EXTENDS JwksTrustStore

Incoming == IF fetchMu = NoProc THEN NoBody ELSE body[fetchMu]
IncomingAge == IF fetchMu = NoProc THEN 0 ELSE bodyAge[fetchMu]
Asked == [p \in Procs |-> IF pc[p] = "idle" THEN NoKid ELSE kid[p]]

Abstract == INSTANCE SnapshotStore WITH
    Clients <- Procs,
    Lifetime <- RefreshInterval,
    Latency <- RefreshTime,
    registry <- upstream,
    snapshot <- keys,
    snapshotAge <- sampleAge,
    incoming <- Incoming,
    incomingAge <- IncomingAge,
    asked <- Asked,
    reply <- answer

\* Goroutines, locks and requests together are one store that answers from
\* whole, ever newer and bounded-stale snapshots (Get, lookup, refresh).
ImplementsSnapshotStore == Abstract!Spec

=============================================================================
