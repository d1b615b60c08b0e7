\* Two goroutines verify while keys that share a kid are added and removed.
SPECIFICATION VerifySpec
CONSTANTS
    i1 = i1  i2 = i2  k1 = k1  rs = rs  es = es  p1 = p1  p2 = p2  a1 = a1  a2 = a2
    Issuers <- MCIssuers
    Kids <- MCKids
    Algs <- MCAlgs
    Jwks <- MCJwks
    NoKid = NoKid
    NoJwk = NoJwk
    Procs <- MCProcs
    Tokens <- MCTokens
    Audiences <- MCAudiences
    Times <- MCTimes
    NoToken = NoToken
SYMMETRY Sym
INVARIANTS VerifyTypeOK RemovedIsUnknown KidNamesOneKey RemovedIsRejected AcceptedByIssuersKey
