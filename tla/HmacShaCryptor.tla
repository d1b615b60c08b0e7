--------------------------- MODULE HmacShaCryptor ---------------------------
(***************************************************************************)
(* HmacShaCryptor (hmac_sha_cryptor.go): one stateful hash.Hash shared by  *)
(* goroutines that call Hash, and Destroy, which drops it.  The calls on   *)
(* the hash (Reset, Write, Sum) are steps of their own, so that what mu    *)
(* does is visible.                                                        *)
(***************************************************************************)
EXTENDS Naturals, Sequences

CONSTANTS
    Procs,   \* goroutines
    Inputs,  \* what they hash
    NoProc

ASSUME ProcsAssumption == NoProc \notin Procs

VARIABLES
    mu,         \* the goroutine that holds mu, or NoProc
    written,    \* what was written to hash since its last Reset
    present,    \* hash # nil
    destroyed,
    pc,         \* where each goroutine is in Hash or Destroy
    input,      \* the argument of its Hash
    digest,     \* what its last Hash returned: the inputs covered, or NoDigest
    late        \* history: Destroy had returned when its Hash began

hashVars == <<mu, written, present, destroyed>>
vars == <<hashVars, pc, input, digest, late>>

\* No digest covers nothing: Write comes before Sum.
NoDigest == <<>>

Init ==
    /\ mu = NoProc
    /\ written = <<>>
    /\ present = TRUE
    /\ destroyed = FALSE
    /\ pc = [p \in Procs |-> "idle"]
    /\ input \in [Procs -> Inputs]
    /\ digest = [p \in Procs |-> NoDigest]
    /\ late = [p \in Procs |-> FALSE]

-----------------------------------------------------------------------------
Goto(p, l) == pc' = [pc EXCEPT ![p] = l]

CallHash(p, x) ==
    /\ pc[p] = "idle"
    /\ input' = [input EXCEPT ![p] = x]
    /\ digest' = [digest EXCEPT ![p] = NoDigest]
    /\ late' = [late EXCEPT ![p] = ~present]
    /\ Goto(p, "lock")
    /\ UNCHANGED hashVars

\* Mutants: no mutual exclusion; no test of destroyed.
LockNothing(p) ==
    /\ pc[p] = "lock"
    /\ IF destroyed THEN Goto(p, "idle") /\ UNCHANGED mu
                    ELSE Goto(p, "reset") /\ mu' = p
    /\ UNCHANGED <<written, present, destroyed, input, digest, late>>

LockDestroyed(p) ==
    /\ pc[p] = "lock"
    /\ mu = NoProc
    /\ Goto(p, "reset") /\ mu' = p
    /\ UNCHANGED <<written, present, destroyed, input, digest, late>>

\* mu.Lock, then the test of destroyed; the panic unlocks on its way out.
Lock(p) ==
    /\ pc[p] = "lock"
    /\ mu = NoProc
    /\ IF destroyed THEN Goto(p, "idle") /\ UNCHANGED mu
                    ELSE Goto(p, "reset") /\ mu' = p
    /\ UNCHANGED <<written, present, destroyed, input, digest, late>>

Reset(p) ==
    /\ pc[p] = "reset"
    /\ written' = <<>>
    /\ Goto(p, "write")
    /\ UNCHANGED <<mu, present, destroyed, input, digest, late>>

Write(p) ==
    /\ pc[p] = "write"
    /\ written' = Append(written, input[p])
    /\ Goto(p, "sum")
    /\ UNCHANGED <<mu, present, destroyed, input, digest, late>>

\* Write fails, as that of a KeyedHash backed by a token may, with some or none of the
\* input taken: Hash panics, and unlocks on its way out.
WriteFails(p) ==
    /\ pc[p] = "write"
    /\ written' \in {written, Append(written, input[p])}
    /\ mu' = NoProc
    /\ Goto(p, "idle")
    /\ UNCHANGED <<present, destroyed, input, digest, late>>

\* Sum, and the deferred Unlock.
Sum(p) ==
    /\ pc[p] = "sum"
    /\ digest' = [digest EXCEPT ![p] = written]
    /\ mu' = NoProc
    /\ Goto(p, "idle")
    /\ UNCHANGED <<written, present, destroyed, input, late>>

\* Destroy: lock, set destroyed, drop the hash, unlock.
DestroyLock(p) ==
    /\ pc[p] = "idle" /\ mu = NoProc
    /\ mu' = p
    /\ destroyed' = TRUE
    /\ Goto(p, "destroy")
    /\ UNCHANGED <<written, present, input, digest, late>>

DestroyDrop(p) ==
    /\ pc[p] = "destroy"
    /\ present' = FALSE
    /\ written' = <<>>
    /\ mu' = NoProc
    /\ Goto(p, "idle")
    /\ UNCHANGED <<destroyed, input, digest, late>>

Next ==
    \E p \in Procs :
        \/ \E x \in Inputs : CallHash(p, x)
        \/ Lock(p) \/ Reset(p) \/ Write(p) \/ WriteFails(p) \/ Sum(p)
        \/ DestroyLock(p) \/ DestroyDrop(p)

Spec == Init /\ [][Next]_vars

-----------------------------------------------------------------------------
PCs == {"idle", "lock", "reset", "write", "sum", "destroy"}

\* The hash never holds more than one input.
Buffers == {<<>>} \union {<<x>> : x \in Inputs}

TypeOK ==
    /\ mu \in Procs \union {NoProc}
    /\ written \in Buffers
    /\ present \in BOOLEAN /\ destroyed \in BOOLEAN
    /\ pc \in [Procs -> PCs]
    /\ input \in [Procs -> Inputs]
    /\ digest \in [Procs -> Buffers]
    /\ late \in [Procs -> BOOLEAN]

\* A digest covers the caller's input and nothing else, however many calls of
\* Hash, on how many goroutines, share the hash (Hash).
DigestOfOwnInput ==
    \A p \in Procs : pc[p] = "idle" /\ digest[p] # NoDigest => digest[p] = <<input[p]>>

\* The hash is never used once Destroy has dropped it, and no Hash that began
\* after Destroy returned yields a digest (Hash, Destroy).
DestroyedIsUnusable ==
    /\ \A p \in Procs : pc[p] \in {"reset", "write", "sum"} => present
    /\ \A p \in Procs : late[p] => digest[p] = NoDigest

=============================================================================
