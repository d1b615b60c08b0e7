\* Two goroutines that may pause anywhere, one kid; fairness of the goroutines, of
\* fetchMu, of requests and of time.
SPECIFICATION FairSpec
CONSTANTS
    p1 = p1  p2 = p2  k1 = k1  known = known  foreign = foreign
    Procs <- TwoProcs
    Kids <- OneKid
    Loadable = {k1}
    Issuers <- MCIssuers
    InputIssuers <- MCInputIssuers
    RefreshInterval = 1
    MinRefreshInterval = 1
    RefreshTime = 1
    Prompt = FALSE
    Horizon = 3
    NoProc = NoProc
    NoKid = NoKid
INVARIANT StoreInv
PROPERTIES WithdrawnKeysExpire UnknownIsRecent AttemptsAreSpaced CacheNeverRegresses
    ImplementsSnapshotStore GetReturns CacheConverges
