\* A cool-down as long as a request, as by default; nobody is delayed.
SPECIFICATION Spec
CONSTANTS
    p1 = p1  p2 = p2  k1 = k1  known = known  foreign = foreign
    Procs <- TwoProcs
    Kids <- OneKid
    Loadable = {k1}
    Issuers <- MCIssuers
    InputIssuers <- MCInputIssuers
    RefreshInterval = 2
    MinRefreshInterval = 1
    RefreshTime = 1
    Prompt = TRUE
    Horizon = 4
    NoProc = NoProc
    NoKid = NoKid
INVARIANT OneRequestServesAll
