SPECIFICATION Spec
CONSTANTS
    NoIssuer = NoIssuer
    NoSignature = NoSignature
    NoToken = NoToken
    InputDocs <- MCInputDocs
    ForeignDocs <- MCForeignDocs
    Imports <- MCImports
    InputOps <- MCInputOps
    InputCerts <- MCInputCerts
    Issuer = "issuer"
    InputClaims <- MCInputClaims
    ForeignTokens <- MCForeignTokens
    Payloads <- MCPayloads
    Audience = {"ours"}
    Now = 1
    MaxKeys = 2
    MaxCerts = 1
    MaxSteps = 6
    MaxKeyOps = 3
INVARIANTS
    TypeOK
    SignedIsAccepted
    ClaimsSurvive
    OneSerialisation
    NothingStale
    LoadersAgree
    CertificateVouches
    PublishedIsReadable
CHECK_DEADLOCK FALSE
