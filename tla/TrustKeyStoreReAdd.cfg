\* Adding a kid again after its removal.
SPECIFICATION Spec
CONSTANTS
    i1 = i1  i2 = i2  k1 = k1  k2 = k2  rs = rs  es = es
    Issuers <- MCIssuers
    Kids <- MCKids
    Algs <- MCAlgs
    Jwks <- MCJwks
    NoKid = NoKid
    NoJwk = NoJwk
INVARIANT ReAddedIsTrusted
