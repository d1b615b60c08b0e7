\* Both kinds of GCM JWE, software and token keys, damaged and foreign JWEs.
SPECIFICATION Spec
CONSTANTS
    n1 = n1  n2 = n2
    MaxPlaintextSize = 2
    MaxCompactSize = 1
    NoNonce = NoNonce
    WrongSize = WrongSize
    NoText = NoText
    NoAad = NoAad
    NoKid = NoKid
    ZeroHash = ZeroHash
    Substitute <- MCSubstitute
    Cryptors <- MCCryptors
    RsaKeys <- MCRsaKeys
    Plaintexts <- MCPlaintexts
    Nonces <- MCNonces
    Aads <- MCAads
    Ceks <- MCCeks
    Hashes <- MCHashes
    NoJwe = NoJwe
SYMMETRY Sym
INVARIANTS RoundTrip AcceptedIsAuthentic EncFitsCek UnwrapIsSilent NeverPanics
