\* A JWK without operations is given the list of the package.
SPECIFICATION Spec
CONSTANTS
    InputJwks <- MCInputJwks
    RequiredOps <- MCRequiredOps
    InputAlgs <- MCInputAlgs
    InputOps <- MCInputOps
    InputBits <- MCInputBits
    MaxJwks = 2
    MaxKeys = 2
    MaxChanges = 2
INVARIANT JwkCannotAlterKey
