# A verification project for gose

gose is a Go library of JOSE operations: signed tokens (JWT/JWS), encrypted
documents (JWE), keys (JWK, JWKS), trust stores and HSM adapters. This directory
holds TLA+ modules that model its stateful and failure-prone parts, TLC
configurations that check them on small instances, and TLAPS proofs of the
properties that matter most, for every value of the constants.

Run everything from this directory:

    tlc -config JwksTrustStore.cfg MCJwksTrustStore
    tlapm JwksTrustStoreProofs.tla

## 1. Inventory

| Component | Source | State it keeps | Operations | What makes it correct |
|---|---|---|---|---|
| JWKS trust store | `jwks_truststore.go` | cached keys, `fetchedAt`, `lastAttempt`, `issuers`; locks `mu` and `fetchMu` | `Get` (lookup, lock, re-check, refresh, lookup); `Add`/`Remove` do nothing | a key withdrawn upstream stops being trusted in bounded time; requests are rate limited, and shared as far as the cool-down lasts; a newer set is never replaced by an older one; every `Get` returns |
| In-memory trust store | `keystore.go` | keys by issuer and kid, revocations; lock `mtx` | construction, `Add`, `Remove`, `Get` | a removal is final; a kid never comes to name another key |
| JWT verifier | `jwt_verifier.go` | none; uses a trust store | `Verify` | no token is accepted with a removed key, with another issuer's key, or long after it expired |
| JWE, direct, AES-CBC + HMAC | `jwe_direct_*_block.go`, `aes_cbc_cryptor.go`, `jwe_hmac_verifier.go` | the chaining value inside each `cipher.BlockMode` | `Encrypt`, `Decrypt`, `Seal`, `Open` | round trip at every length; no octet of a JWE can change unnoticed, though the boundary between IV and ciphertext can; a rejected JWE leaves the decryptor usable |
| HMAC cryptor | `hmac_sha_cryptor.go` | one shared `hash.Hash`, `destroyed`; lock `mu` | `Hash`, `Destroy` | a digest covers its caller's input only; no use after `Destroy` |
| JWE, direct, AES-GCM | `jwe_direct_*_aead.go`, `aes_gcm_cryptor.go` | none (a key ring by kid) | `Encrypt`, `Decrypt`, `Seal`, `Open` | round trip whoever chooses the nonce; no panic; no half-made JWE when a token fails |
| JWE, RSA key encryption | `jwe_key_encryption_*.go`, `rsa_oaep_alg.go`, `asymmetric_decryption_key_store.go`, `hsm/` | the key map, shared with its maker | `Encrypt`, `Decrypt`, `Get` | the header names the digest used; failures to unwrap the content key are silent; its length fits `enc` |
| Signing and verification keys | `signer.go`, `verifier.go`, `ecdsa_*.go`, `rsa_*.go` | the policy (operations, alg) captured from a JWK | constructors, `Sign`, `Verify`, `Encrypt`, `Decrypt` | a key does what its policy allows and nothing else, whatever happens to the JWK later |
| JWT signer | `jwt_signer.go` | none | `Sign` | a signed token is accepted by a verifier that has the published key, with the claims that were asked for |
| Key conversion and generation | `helpers.go`, `key_generator.go` | none | load, derive, generate | a derived key has the operations and the alg of its other half |
| JOSE documents | `jose/` | a `Jwt`, a JWK or a `Jwks` that is used again | marshal, unmarshal, setters, consistency of a JWK | a signature has one token; nothing of an earlier document stays; certificates are for the key they come with; what is published can be read |

How they interact. A JWT verifier calls `Get` of either trust store and then
`Verify` of the key it was handed; that key is a copy and consults nothing. The
JWKS store calls an HTTP endpoint and builds verification keys from its answer.
The CBC decryptor calls the HMAC verifier, which calls the HMAC cryptor, then the
CBC cryptor. The key encryption decryptor calls a key store, a private key in
memory or in a token, and AES-GCM. All calls are direct; nothing is persisted, so
there is no crash recovery. Documents connect the parties: an issuer's JWK becomes a
public JWK in a set, the set becomes verification keys, and tokens name one by its kid.

Where it is hard: goroutines that interleave between two lookups, a mutex and a
slow request; time stamps read in one critical section and used in another;
removal racing verification; cipher objects that carry state from one message to
the next; tokens that fail half way; limits that differ between the two ends.
`PROJECT.json` lists these hazards line by line, with the properties that cover
them.

## 2. The modules

| Module | Models | Instance |
|---|---|---|
| `JwksTrustStore` | `Get` of the JWKS store, the endpoint and the clock | `MCJwksTrustStore` |
| `SnapshotStore` | the abstract store: whole snapshots, each newer than the last, with bounded staleness | through `JwksRefinement` |
| `JwksRefinement` | the refinement mapping from `JwksTrustStore` to `SnapshotStore` | `MCJwksTrustStore` |
| `TrustKeyStore` | the in-memory trust store and the keys it hands out | `MCTrustKeyStore` |
| `JwtChecks` | the checks of `Verify` before and after its call of `Get`, as operators | through the next three |
| `JwtVerifier` | `Verify`, composed with `TrustKeyStore` (it extends it and interleaves its actions) | `MCJwtVerifier` |
| `JwtJwks` | `Verify`, composed with `JwksTrustStore` in the same way | `MCJwtJwks` |
| `JwkCodec` | JWK and JWKS documents, and the JWKs `helpers.go` makes, as operators | through `JoseDocuments` |
| `JwtCodec` | claims, headers, JWS and JWT, `LoadJws` and `Sign`, as operators | through `JoseDocuments` |
| `JoseDocuments` | an issuer, a key set, tokens on their way and a verifier, composed of the codecs and `JwtChecks` | `MCJoseDocuments` |
| `JweBlock` | CBC+HMAC encryption and decryption with the chaining values | `MCJweBlock` |
| `HmacShaCryptor` | `Hash` and `Destroy` | `MCHmacShaCryptor` |
| `KeyPolicy` | keys of every kind, the JWKs they are made from, and the lists of operations they share | `MCKeyPolicy` |
| `AesGcm` | `AesGcmCryptor`, as operators | through `JweGcm` |
| `JweDirectAead` | direct GCM encryption and decryption, as operators | through `JweGcm` |
| `JweKeyEncryption` | RSA key encryption and decryption, key stores, HSM keys, as operators | through `JweGcm` |
| `JweGcm` | the composition of the three: senders, the wire, a receiver with both decryptors | `MCJweGcm` |
| `JwksTrustStoreProofs` | the theorems about `JwksTrustStore` and `JwksRefinement` | |
| `JwtVerifierProofs` | those about `TrustKeyStore` and `JwtVerifier` | |
| the other `*Proofs` | the theorems about the module they are named after | |

### JwksTrustStore

`issuers`, `keys`, `fetchedAge` and `attemptAge` are the fields of
`JwksTrustStore`; `fetchMu` is the owner of that mutex; `pc`, `kid`, `answer` and
`body` are the locals of each goroutine in `Get`. `mu` is held only over straight
code, so each of its critical sections is one step: `Call` (with `knownIssuer`),
`Lookup`, `LockFetchMu`, `Recheck`, `BeginRefresh` (which records the attempt),
`Respond` (the endpoint samples its set), `FetchFail` or `Install`, and
`FinalLookup`. Time stamps are kept as ages, because the code only compares
differences; `Tick` ages them, and they saturate at `Horizon`, so behaviours are
unbounded in time. `RefreshTime` bounds a whole `refresh`, from its first critical
section to its second (`RefreshHasTime`, a guard of `Tick`). `http.Client.Timeout` bounds
only the request and the reading of its body; a goroutine that the scheduler delays before
or after that makes `RefreshTime` larger than the timeout, and every property that has a
`RefreshTime` in it has this meaning. Outside `refresh` a goroutine may sleep between any
two steps with `Prompt` FALSE; with TRUE steps that wait for nobody take no time. `changedAge`, `sampleAge`, `bodyAge`, `outcome` and `joined`
are history. A body with a key that `NewVerificationKey` rejects (`Loadable`)
fails the whole refresh, as in the code.

### SnapshotStore and JwksRefinement

`SnapshotStore` is what a caller may rely on, without goroutines, locks, cool-downs or
requests. The store holds one whole snapshot of the registry; another is sampled
(`Sample`), and adopted (`Adopt`) at most `Latency` later, if all of it loads and it is not
older than the one it replaces. `Entitled` says what may be answered about a kid: its key
while the snapshot is no older than `Lifetime + Latency`, unknown if the snapshot does not
have it or has expired, stale if it has expired. The mapping takes the cached keys, aged
from the instant the endpoint sampled them, for the snapshot, the body of the goroutine
that owns `fetchMu` for what is on its way, and a goroutine inside `Get` for a client that
waits.

### TrustKeyStore and JwtVerifier

Every method of the store holds `mtx` from its first access to its return and is
one action. `held` collects the keys handed out; `removed` and `added` are
history. `Verify` is three steps: `Begin` (size, parsing, time frame, audience,
kid, in the order of the code), `GetKey` (the store's `Get`) and `Finish` (alg,
then signature); `Add` and `Remove` interleave anywhere. A signature verifies only
under the key that made it.

### JwtJwks

`Begin` reads the clock, runs the checks of the token and calls `Get` of the JWKS store,
whose steps are the ones of `JwksTrustStore`; `Finish` runs the checks of the key. Times in
a token are relative to the clock reading of its `Verify`. `left` is the time until the
token expires, `grace` the time that `Get` may have taken of it (a request, and one more for
each request that a goroutine waited for and that outlasted the cool-down, which is why
`EndRequest` is apart from `GetStep`), `calmAge` how long fetches have been able to bring a
kid, `raced` which goroutines met a request in flight: all four are history.

### JwkCodec, JwtCodec, JoseDocuments

A JWK document is a record of members, each absent, malformed, zero or the number of a key
pair; a certificate is the key it certifies and its digest. A token is its three segments
with the form of their base64url (canonical, another spelling of the same octets, or bad);
a signature names its key and the two segments it covers, as they are written, and both
parsers return these octets with the decoded parts. Parsers take
the object they decode into, so what an earlier document or an error half way leaves there
is visible; writers say whether they fail. `JoseDocuments` is the state machine: the issuer
gets one key (`LoadJwk`, `Import`), changes it (`SetOps`, `SetX5C`), publishes its public
half and signs; the verifier reads the set into a new or a used `Jwks`, parses tokens into
one `Jwt`, writes it again, and verifies; tokens are altered on the way and others write
their own. Keys of a set have their own alg: that `NewVerificationKey` takes it from the first
certificate when there is none is in `KeyPolicy` only. `given`, `seen`, `imported`, `current` and `asked` are history.

### JweBlock

CBC is symbolic: a ciphertext block is the IV of its stream and the plaintext
blocks up to its own, and it deciphers to garbage after any other block. What is
concrete is the arithmetic: padding, destination sizes, the length header, the
extra zero block that `getDestinationSize` adds at a multiple of the block size. A JWE
carries the octets of IV and ciphertext end to end and the place of the boundary between
them, because that is what the tag is computed over: `ComputeHash` does not see the
boundary. `enc` and `dec` keep the chaining value, which nothing in the code resets. `Damage`
alters any part of a JWE, and moves the boundary to any octet; `MaxCiphertext` is what fits
`jose.MaxCompactSize`; `Foreign` is a holder of the same keys that writes other headers and
ciphertexts that are not whole blocks. `clean` remembers the IV a decryptor was built from until it sees a JWE with
a good tag.

### HmacShaCryptor

`Lock`, `Reset`, `Write` and `Sum` are separate steps, so the mutex is what makes
the properties true. `WriteFails` is the panic of `Hash` when the hash refuses the input, as
one in a token may. `Destroy` is two steps.

### KeyPolicy

Here sharing is the behaviour, so lists of operations, JWKs and keys are numbered
objects: `lists`, `jwks`, `keys`. List 1 is the package's `validVerificationOps`,
list 2 the client's own. Each function of the code is an operator from a heap to a
heap: `NewSigningKey`, `NewVerificationKey`, `NewRsaDecryptionKey`,
`NewRsaPublicKeyImpl`, `NewAesGcmCryptorFromJwk`, `PublicFromPrivate`, `Verifier`,
`publicKey`, `JwkFromPrivateKey`, the generators. `cloneOps` makes a list, `SetOps`
copies a reference. A signature is a pair, a curve and a scheme; `Sign` and `Verify`
change nothing and are evaluated by the properties in every state. Between any two
steps clients load or import JWKs, set their alg, give them a list, write to a list
they can reach, and ask a key for its JWK (`held`). The point of an EC JWK is apart from its
private number: it may be another key's, and then `PublicFromPrivate` derives the right one,
or on no curve of its own, and then `ecdsa.Sign` refuses. RSA keys of fewer than
`MinRsaModulusBits` can be imported, but the loaders refuse their JWKs. The numbers in a JWK do not
change, although keys keep pointers to them. `built`, `from`, `agrees` and `intact` are history; `changes` is bounded.

### AesGcm, JweDirectAead, JweKeyEncryption, JweGcm

These components are functions of their arguments, so each is a module of
operators, one per method, with every check in the order of the code. GCM and OAEP
are symbolic: a ciphertext or tag opens only with what it was made from.
`AeadOpen` does panic on a wrong nonce length, `sealAEAD` turns a token's panic
into an error, and tokens fail to find a key, to use it or to seal. `JweGcm` is the
state machine: one JWE at a time is sent (`SendDirect`, `SendWrapped`), made by
somebody else (`ForeignDirect`, `ForeignWrapped`), damaged, lost, and given to either
decryptor, while `AddKey` grows the map that the key store shares with its maker. Senders
take the recipient's public JWK, or that of the `Encryptor` of a key in the store, whose kid
is computed from the modulus.

## 3. The runs

| Run | Distinct states | What it shows |
|---|---|---|
| `jwks` | 72 thousand | two goroutines and a kid, pauses anywhere (in `refresh` within `RefreshTime`): `WithdrawnKeysExpire`, `UnknownIsRecent`, `AttemptsAreSpaced`, `CacheNeverRegresses`, the inductive invariant `StoreInv` (which has the type invariant as a part), the refinement `ImplementsSnapshotStore`, and `GetReturns` and `CacheConverges` under `FairSpec` |
| `jwks_sharing` | violation | with a cool-down as long as a request, one who waited for a request that landed sends another |
| `jwt_jwks` | 4.1 million | two goroutines verify over the JWKS store with a kid that loads and one that does not, cool-down as long as a request: `WaitersShareFetch`, `AcceptedInTime`, `AcceptedIsPublished`, `UnknownKeyHasACause` |
| `trust_store_readd` | violation | a re-added kid stays unknown |
| `jwt_verifier` | 1.0 million | `RemovedIsUnknown` and `KidNamesOneKey` of the store under verifiers, `RemovedIsRejected`, `AcceptedByIssuersKey` |
| `jwe_block` | 2.3 million | `RoundTrip`, `OversizeIsRefused`, `DamagedIsRejected` |
| `jwe_block_boundary` | violation | a JWE whose boundary was moved by a block, or a second JWE through one decryptor, yields a wrong plaintext without an error |
| `jwe_gcm` | 517 thousand | `RoundTrip`, `AcceptedIsAuthentic`, `EncFitsCek`, `UnwrapIsSilent`, `NeverPanics` |
| `key_policy` | 598 thousand | `PolicyIsFixed`, `HalvesAgree`, `NeverPanics`, `MakingNarrows` |
| `key_policy_shared` | violation | a write to a JWK that was given the package's list changes every verification key |
| `jose_documents` | 438 thousand | `SignedIsAccepted`, `ClaimsSurvive`, `OneSerialisation`, `NothingStale`, `LoadersAgree`, `CertificateVouches`, `PublishedIsReadable` |
| `hmac` | 573 | `DigestOfOwnInput`, `DestroyedIsUnusable` |

Each property of a passing run has a mutant in `PROJECT.json`: a plausible bug in
one definition under which TLC finds the property violated.

Bounds, and why they are enough.

- JWKS: all three intervals are 1 and `Horizon` 3, beyond their sum. With pauses anywhere
  this still has an expired set inside and outside the cool-down, a request as long as the
  cool-down, and answers on both sides of every boundary. Two goroutines suffice for a race
  between a lookup and a fetch. The one kid loads; a second one that does not is in
  `jwt_jwks`. The theorems have no such bounds.
- `JwtJwks`: two goroutines, one that fetches and one that waits, and two kids, of which one
  does not load; all three intervals 1, so that the cool-down is as long as a request, which
  is the default; steps that wait for nobody take no time (`Prompt`). Four tokens: one that
  expires one unit after `Verify` reads the clock, so that it may do so during a request,
  one that has expired, one of a foreign issuer, and one that nobody of the set has signed.
- Trust store and `JwtVerifier`: two issuers and one kid, so that they must share it;
  two keys under it, one that does not load and one without a kid; a token that fails
  at each check.
- Keys: two JWKs and two keys, so that a key and its derived half, or two keys of one
  JWK, exist together; two changes by clients, so that a list can be shared and then
  written to; JWKs with and without operations, alg and certificate, with an alg of
  another type, with another key's EC point and with one that is on no curve; moduli below
  the minimum, at it, and at the length where the alg changes.
- CBC: blocks of two bytes, lengths 0 to 3 (empty, partial, exact, exact and partial), and
  4 and 5 with both bounds at 4: a plaintext that `Seal` accepts but whose extra block makes
  a JWE too large to parse, and one that `Seal` refuses. The boundary is moved to every
  octet, between blocks and within them. Two JWEs, so that one can follow another.
- GCM: a plaintext that fits, one whose JWE is too large to be parsed and one too
  large to be sealed; software and token keys; two kids that collide; both OAEP
  algs, a signing key, an EC key in the token, content keys of two lengths. One JWE at a time is enough
  because neither decryptor keeps state.
- Documents: six steps (`MaxSteps`), enough to get, change and publish a key, read the set,
  sign and verify, or to verify two spellings of one token; two keys and one certificate
  (`MaxKeys`, `MaxCerts`), three operations (`MaxKeyOps`). One key of the issuer and one of
  others; documents with each member missing, zero, malformed or of another key. Only tokens
  that nobody has altered yet are altered.
- HMAC: three goroutines: a writer, an intruder, a destroyer.

Fairness (`JwksTrustStore!Fairness`). Weak fairness of the local steps: the Go
scheduler runs every runnable goroutine. Weak fairness of the steps of a request:
`http.Client.Timeout` ends it if nothing else does. Strong fairness of `LockFetchMu`:
a `sync.Mutex` in starvation mode hands over to the longest waiter. Weak fairness of
`Tick`: time passes. Nothing is assumed of callers or of the endpoint;
`CacheConverges` states its needs as hypotheses.

CHECK_DEADLOCK is on in every run but `jose_documents`, which ends after its bounded number
of steps: callers may always call again.

## 4. The proofs

Every safety property that a passing run checks is also a theorem, for every value of the
constants: arbitrary sets of goroutines, kids, issuers, keys, documents and plaintexts, and
arbitrary intervals and sizes, subject to the named assumptions of the modules.

| Assumption | What it says, and why the code justifies it |
|---|---|
| `ConstantsAssumption` (`JwksTrustStore`) | intervals are natural numbers and a refresh takes some time; the `No...` values are not members; ages saturate beyond every interval |
| `JwksAssumption` (`TrustKeyStore`), `ProcsAssumption` (`HmacShaCryptor`) | types of the constants |
| `TokensAssumption` (`JwtVerifier`, `JwtJwks`) | types of tokens; the endpoint's keys are keys |
| `DocumentsAssumption`, `TokensAssumption` (`JoseDocuments`) | documents, tokens and claims have the shape that JSON gives them; imported keys have a supported type and numbers; the chains a client has hold certificates, none malformed; a page has room for two keys; what `Sign` makes is a signature, never the value that stands for none |
| `PolicyAssumption` (`KeyPolicy`) | the shape of the documents that JWKs are loaded from; the operations in them, and the ones callers ask for, are of `KeyOps`; the bound on changes is a natural number |
| `SizesAssumption` (`AesGcm`, `JweBlock`) | sizes are natural numbers; a JWE that parses is no larger than what `Open` takes, and holds more than one block; plaintexts are bytes |
| `GcmAssumption` (`JweGcm`) | random values do not collide: content keys, the substituted one and direct keys differ |

TLC evaluates them in every run. The inductive invariants were checked by TLC on the runs'
instances before they were proved.

- `JwksTrustStoreProofs`. `StoreInv` is the inductive invariant. None of the
  properties is inductive alone: `AttemptsAreSpaced` needs that nobody records an
  attempt between the re-check and `BeginRefresh` (`SpacingInv`), which needs mutual
  exclusion (`MutexInv`); `WithdrawnKeysExpire` needs that a body in flight was
  sampled after the attempt began and that the attempt is no older than `RefreshTime`
  (`RequestInv`, `BodyInv`), so that the cached set is at most `RefreshTime` older
  than `fetchedAt` says (`CacheInv`). From it follow `TypeCorrect`,
  `WithdrawnKeysExpireTheorem`, `UnknownIsRecentTheorem`, `AttemptsAreSpacedTheorem`
  and `CacheNeverRegressesTheorem`. `WaitersShareFetchTheorem` has no
  hypotheses; the property says what is left of the sharing when the cool-down is short. It
  needs `WantInv` (who is about to send a request has no fresh key) and `SharingInv`: while
  nobody is delayed, the fetch that somebody waited for ended only now and began at most
  `RefreshTime` ago, until the next one begins.
  `Refinement`: every step of `JwksTrustStore` is a step of `SnapshotStore` under the
  mapping, or changes nothing of it. It needs `StoreInv` (only the owner of `fetchMu` has a
  body, and an answer's age is bounded) and `AgeInv`: a set is never sampled after it was
  installed, so that what the code calls expired by its own clock has expired by the age of
  the sample too.
- `JwtVerifierProofs`. `TrustInv` adds to the store's properties that a stored key has the
  kid it is stored under, and that every key ever handed out is still stored or its pair is
  revoked. From it follow `RemovedIsUnknownTheorem` and `KidNamesOneKeyTheorem`. `VerifyInv`
  is `TrustInv` with what each label of `Verify` knows: a goroutine that holds a key got it
  for the issuer and kid of its own token, and if the pair was removed before it began, it
  holds none. Steps of the store are steps of `TrustKeyStore` (`VerifyUsesStore`), so its
  invariant carries over. From it follow `VerifyTypeCorrect`, `RemovedIsRejectedTheorem` and
  `AcceptedByIssuersKeyTheorem`.
- `JwtJwksProofs`. Steps of `Verify` are steps of the store, so `StoreInv`, `AgeInv` and
  `SharingInv` carry over; `VerifyInv` adds three accounts. `TimeInv`: the time that a
  goroutine has lost fits in its `grace`; while a request is in flight the rest of that
  request does too; between requests there is time for another one, or the cool-down keeps
  everybody from beginning one. `FloorInv` keeps the saturated count of time meaningful.
  `PublishedInv`: no time passes between `Get` and the end of `Verify`. `CauseInv` rests on
  `CalmInv` (nothing that a fetch of a kid depends on has changed for `calmAge`, and a failed
  attempt began before that) and `AttemptInv` (what the outcome of the last attempt says):
  a cool-down that began after the calm did comes from an attempt that brought the kid.
  From it follow `AcceptedInTimeTheorem`, `AcceptedIsPublishedTheorem` and
  `UnknownKeyHasACauseTheorem`; their hypotheses on the intervals are in the properties.
- `JoseDocumentsProofs`. `NothingStaleTheorem` rests on `UnmarshalForgets`: what
  `Jwt.Unmarshal` makes does not depend on what the `Jwt` held. `OneSerialisationTheorem` is
  not inductive alone: `SerialInv` says that every token on its way or accepted has the shape
  of a token, and that an accepted one is determined by its signature, which covers the two
  other segments as they were written and is itself written canonically.
  `LoadersAgreeTheorem` follows from it: what `LoadJws` returns with an accepted signature
  verifies only if it is the octets that the signature covers, which are the accepted ones. The other theorems follow from
  `DocumentsInvariant`: the issuer's JWK was loaded or imported and changed only by its
  setters and `PublicFromPrivate`; every key of the verifier was read from a document, so its
  certificates passed `checkX5CMatchesKey`; an untouched token is what `Sign` makes with the
  issuer's key. Around it are lemmas on the codecs: what is read back from what a writer
  wrote.
- `JweGcmProofs`. `GcmInvariant`: the JWE on the wire is what a sender made for a cryptor or
  an RSA key, or differs from it as one of the damages does, and the last result is that of
  the decryptor on it. `RoundTripTheorem` follows the JWE through the checks of `Decrypt` in
  their order. `AcceptedIsAuthenticTheorem`: the tag was made by somebody who had the content
  key, over the header and ciphertext received; the content key is of the recipient's RSA key,
  of its cryptor, or the substituted one, which sealed nothing. `EncFitsCekTheorem`,
  `UnwrapIsSilentTheorem` and `NeverPanicsTheorem` need only the operators.
- `KeyPolicyProofs`. `KeyPolicyInvariant` has two parts. `HeapInv`: references are to objects
  that exist, and no key's list is a JWK's, the client's or the package's, so that nothing a
  client writes to is a list that a key reads. `PolicyInv`, while the package's list is as it
  was: each key behaves as it did when it was built, and a derived key that agreed with its
  origin still fits it (`Fits`: the same pair, alg and curve, and the inverse operations). Each function of the code is shown to keep both and to leave alone
  what it does not make (`Keeps`, `Extends`); functions that call others are composed from
  their lemmas. From it follow `TypeOKTheorem`, `PolicyIsFixedTheorem`,
  `MakingNarrowsTheorem`, `NeverPanicsTheorem` and `HalvesAgreeTheorem`.
- `JweBlockProofs`. First the arithmetic of blocks: padded text is whole blocks that the
  destination has room for (`TrimFacts`, `DestinationFacts`), byte k is in block
  (k - 1) div the block size (`PaddedFacts`), each block deciphers after the one before it
  (`DecipherFacts`), so that what a new `BlockMode` opens begins with the plaintext
  (`OpenSealed`). `BlockInv` then says that an unused encryptor and a decryptor that saw no
  authentic JWE hold their IVs, that the sender's JWEs are what a new `BlockMode` seals, and
  that damaged ones have not a good tag (`DamageFacts`) or are whole blocks with the boundary
  elsewhere (`Shifted`), which the check of the alignment refuses unless it was moved over
  whole blocks (`ShiftedFacts`). From it follow `RoundTripTheorem`,
  `OversizeIsRefusedTheorem` and `DamagedIsRejectedTheorem`.
- `HmacShaCryptorProofs`. `HashInv` is mutual exclusion together with what the hash
  holds at each label. From it follow `DigestOfOwnInputTheorem` and
  `DestroyedIsUnusableTheorem`.

Only model-checked: liveness (`GetReturns`, `CacheConverges`), because fairness and ENABLED
are outside the prover's reach, and that each of the four violations below is found.

## 5. Where the code and its comments disagree

Four runs expect a violation; `PROJECT.json` quotes the lines.

- `trust_store_readd`: a revocation survives a later `Add`. The comments also say that
  a removal reaches verifiers handed out before it; it does not (`RemovedIsRejected`
  is about `Verify` calls that begin later).
- `jwks_sharing`: the comment on `fetchMu` and the change log say that concurrent lookups
  share one request. The cool-down is counted from the start of an attempt and is by default
  as long as the HTTP timeout, so after a request that took that long the waiters send their
  own, one after the other, if theirs is a kid that it did not bring, or if it failed.
  `WaitersShareFetch` is what holds for any intervals.
- `jwe_block_boundary`: the tag is computed over header, IV and ciphertext end to end, and
  nobody checks the length of the IV. A boundary moved by whole blocks leaves the tag good,
  and `Decrypt` returns zeroes or garbage with a nil error. `DamagedIsRejected` is what holds:
  nothing else that is changed on the way is accepted. The same property fails for a second
  JWE through one decryptor, because the BlockMode's chaining value is never reset to the
  JWE's IV; `RoundTrip` says that this spoils the first block and nothing else.
- `key_policy_shared`: `NewVerificationKey` stores `validVerificationOps` itself in an
  RSA JWK that has no `key_ops`. `PolicyIsFixed` is what holds while nobody writes to
  that list.

Seen while modelling, without a run. In the JWKS store `lastAttempt` is set before the
request is sent, so lookups that arrive during it see a cool-down and are answered
unknown at once, although the comment says concurrent lookups share a fetch; for the
same reason a cached key of an expired set yields `ErrJwksStale` while its refresh is in
flight, although the comment says that the last attempt failed.
In the keys: the comment in `RsaPublicKeyImpl.Verify` (`rsa_public.go:92-97`) says that an
EC alg on an RSA key has no entry in `algToOptsMap` and is refused, but the map has entries
for the EC algs, and PKCS #1 v1.5 signatures verify under them, as `RsaVerify` of `KeyPolicy`
does; `HalvesAgree` asks nothing of such keys; `publicKey` and `Verifier` read the JWK's
present alg and operations, not the captured ones; `RsaPublicKeyImpl.Jwk` gives the JWK
a computed kid, whatever `Kid` says. In the JWEs: `computeAL` counts octets where its comment and
the interface say bits; the key encryption decryptor returns the additional data
together with an authentication error; the direct GCM decryptor does not require the
encrypted key to be empty; `Encrypt` of the CBC kind above `MaxPlaintextSize` returns a JWE
without its ciphertext and no error, because `Seal` has no error result, and encryptors and
the signer emit documents above `MaxCompactSize` that nobody parses, although `JweEncryptor`
is documented for arbitrary plaintexts (`interfaces.go`); `OversizeIsRefused` is what holds.
The JWK of an `Encryptor`, in memory or in a token, names the computed kid, so a JWE made
for it is found by a store of several keys, or by a token, only under that kid; a token
without a certificate may put a nil one into that JWK.

In the documents: `PublicFromPrivate` gives an empty operation for each one that has no
inverse, so a JWK with both `wrapKey` and `unwrapKey` is published with a duplicate and
refused by every reader; `JwkFromPrivateKey` does not compare the certificates with the key,
and a private EC JWK whose point or certificate disagrees with `d` loads, but what it
publishes does not (`PublishedIsReadable` has these as hypotheses). Audiences that are nil
are written as null, which `Audiences.UnmarshalJSON` refuses (`ClaimsSurvive`).
`Jwks.UnmarshalJSON` appends, so a used `Jwks` keeps withdrawn keys, and an error half way
leaves the keys before it; `SetX5C` appends too. `LoadJws` accepts other spellings of a
signature and has no size bound. A JWK without `n` parses and cannot be written.
`CalculateKeyID` refuses private JWKs. `PublicFromPrivate` copies the numbers of an EC JWK
as structs and then sets them, so it writes the derived point into the words of its
argument: a private JWK whose `x` and `y` were wrong has the right ones afterwards
(`AfterPublicFromPrivate`).

## 6. Not modelled

Base64, JSON, PEM and X.509 encoding and the primitives themselves (RSA, ECDSA, AES,
SHA) are library code: a parser is what it accepts, a primitive is symbolic. Logging
and error wording are left out. Certificates of HSM keys depend on what the token library
returns. `UnmarshalCustomClaim` and the setters of use, kid and x5t change one field that no
property here tells apart. `interfaces.go` and `errors.go` are declarations. Races between
goroutines that derive from one JWK at the same time are not modelled.

## 7. Plan

Left, in order of what they would show:

1. `WaitersShareFetch` for `VerifySpec`, as a theorem beside the one for the store alone
   (`SharingInv` is already a part of `JwtJwksProofs!VerifyInv`).
2. The RSA key with an EC alg as a run of its own, beside `key_policy_shared`.
3. What holds while `Prompt` is FALSE of the properties that now assume it, with the length
   of a pause as a parameter.
4. The alg that a key of a set takes from its certificate, in `JoseDocuments`; the setters of
   use, kid and x5t as actions of it.
