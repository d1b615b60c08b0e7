\* Clients change JWKs and lists between the making and the use of keys.
SPECIFICATION Spec
CONSTANTS
    InputJwks <- MCInputJwks
    RequiredOps <- MCRequiredOps
    InputAlgs <- MCInputAlgs
    InputOps <- MCInputOps
    InputBits <- MCInputBits
    MaxJwks = 2
    MaxKeys = 2
    MaxChanges = 2
INVARIANTS TypeOK PolicyIsFixed HalvesAgree NeverPanics
PROPERTY MakingNarrows
