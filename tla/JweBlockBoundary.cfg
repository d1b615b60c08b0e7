\* JWEs of one IV, a boundary moved on the way, a decryptor that is given a second JWE.
SPECIFICATION Spec
CONSTANTS
    iv1 = iv1  iv2 = iv2
    BlockSize = 2
    MaxPlaintextSize = 4
    MaxCiphertext = 4
    Plaintexts <- Short
    IVs <- OneIV
    AadLength = 3
    MaxJwes = 2
    NoIV = NoIV
INVARIANT DecryptReturnsThePlaintext
