\* Lengths around the block boundary and the bounds, two JWEs, two IVs.
SPECIFICATION Spec
CONSTANTS
    iv1 = iv1  iv2 = iv2
    BlockSize = 2
    MaxPlaintextSize = 4
    MaxCiphertext = 4
    Plaintexts <- MCPlaintexts
    IVs <- MCIVs
    AadLength = 3
    MaxJwes = 2
    NoIV = NoIV
SYMMETRY Sym
INVARIANTS RoundTrip OversizeIsRefused DamagedIsRejected
