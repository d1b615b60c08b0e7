\* Two goroutines verify; the cool-down is as long as a refresh, as by default.
SPECIFICATION VerifySpec
CONSTANTS
    p1 = p1  p2 = p2  k1 = k1  k2 = k2  known = known  foreign = foreign  a1 = a1  es = es
    Procs <- MCProcs
    Kids <- MCKids
    Loadable = {k1}
    Issuers <- MCIssuers
    InputIssuers <- MCInputIssuers
    KeyOf <- MCKeyOf
    Tokens <- MCTokens
    Audiences <- MCAudiences
    RefreshInterval = 1
    MinRefreshInterval = 1
    RefreshTime = 1
    Prompt = TRUE
    Horizon = 3
    NoProc = NoProc
    NoKid = NoKid
    NoJwk = NoJwk
    NoToken = NoToken
SYMMETRY Sym
PROPERTIES WaitersShareFetch AcceptedInTime AcceptedIsPublished UnknownKeyHasACause
