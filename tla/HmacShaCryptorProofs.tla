------------------------- MODULE HmacShaCryptorProofs -------------------------
(* Machine-checked proofs about HmacShaCryptor, for every set of goroutines. *)
EXTENDS HmacShaCryptor, TLAPS

USE ProcsAssumption DEF PCs, NoDigest, Buffers, Goto, hashVars

\* The goroutine that holds mu is the only one at work on the hash.
MuInv == \A p \in Procs : pc[p] \in {"reset", "write", "sum", "destroy"} => mu = p

\* What the hash has been given by the goroutine at work on it.
BufferInv ==
    \A p \in Procs : /\ pc[p] = "write" => written = <<>>
                     /\ pc[p] = "sum" => written = <<input[p]>>
                     /\ digest[p] \in {NoDigest, <<input[p]>>}

\* The hash is gone only once destroyed, and then nobody starts on it.
DestroyInv ==
    /\ ~present => destroyed
    /\ \A p \in Procs :
        /\ pc[p] \in {"reset", "write", "sum"} => present /\ ~destroyed /\ ~late[p]
        /\ pc[p] = "destroy" => destroyed
        /\ late[p] => ~present /\ digest[p] = NoDigest

HashInv == TypeOK /\ MuInv /\ BufferInv /\ DestroyInv

\* Appending to nothing gives a sequence of one.
LEMMA AppendToNothing == \A x : Append(<<>>, x) = <<x>>
  OBVIOUS

\* Every step of Hash and Destroy preserves the invariant.
LEMMA HashPreserved == HashInv /\ [Next]_vars => HashInv'
  <1> SUFFICES ASSUME HashInv, [Next]_vars PROVE HashInv'
    OBVIOUS
  <1> USE DEF HashInv, TypeOK, MuInv, BufferInv, DestroyInv
  <1>1. ASSUME NEW p \in Procs, NEW x \in Inputs, CallHash(p, x) PROVE HashInv'
    BY <1>1 DEF CallHash
  <1>2. ASSUME NEW p \in Procs, Lock(p) PROVE HashInv'
    BY <1>2 DEF Lock
  <1>3. ASSUME NEW p \in Procs, Reset(p) PROVE HashInv'
    BY <1>3 DEF Reset
  <1>4. ASSUME NEW p \in Procs, Write(p) PROVE HashInv'
    <2>0. written = <<>> /\ input[p] \in Inputs
      BY <1>4 DEF Write
    <2>1. written' = <<input[p]>> /\ written' \in Buffers
      BY <1>4, <2>0, AppendToNothing DEF Write
    <2>2. TypeOK'
      BY <1>4, <2>1 DEF Write
    <2> QED
      BY <1>4, <2>1, <2>2 DEF Write
  <1>5. ASSUME NEW p \in Procs, Sum(p) PROVE HashInv'
    BY <1>5 DEF Sum
  <1>6. ASSUME NEW p \in Procs, DestroyLock(p) PROVE HashInv'
    BY <1>6 DEF DestroyLock
  <1>7. ASSUME NEW p \in Procs, DestroyDrop(p) PROVE HashInv'
    <2>1. TypeOK'
      BY <1>7 DEF DestroyDrop
    <2>2. MuInv' /\ DestroyInv'
      BY <1>7 DEF DestroyDrop
    <2>3. BufferInv'
      BY <1>7 DEF DestroyDrop
    <2> QED
      BY <2>1, <2>2, <2>3
  <1>8. ASSUME NEW p \in Procs, WriteFails(p) PROVE HashInv'
    <2>1. written = <<>> /\ input[p] \in Inputs
      BY <1>8 DEF WriteFails
    <2>2. written' \in Buffers
      BY <1>8, <2>1, AppendToNothing DEF WriteFails
    <2>3. TypeOK'
      BY <1>8, <2>2 DEF WriteFails
    <2> QED
      BY <1>8, <2>3 DEF WriteFails
  <1>9. CASE UNCHANGED vars
    BY <1>9 DEF vars
  <1> QED
    BY <1>1, <1>2, <1>3, <1>4, <1>5, <1>6, <1>7, <1>8, <1>9 DEF Next

\* The invariant holds in every behaviour.
THEOREM HashInvariant == Spec => []HashInv
  <1>1. Init => HashInv
    BY DEF Init, HashInv, TypeOK, MuInv, BufferInv, DestroyInv
  <1> QED
    BY <1>1, HashPreserved, PTL DEF Spec

\* A digest covers the caller's input and nothing else (DigestOfOwnInput).
THEOREM DigestOfOwnInputTheorem == Spec => []DigestOfOwnInput
  <1>1. HashInv => DigestOfOwnInput
    BY DEF HashInv, BufferInv, DigestOfOwnInput
  <1> QED
    BY <1>1, HashInvariant, PTL

\* Nobody uses the hash once Destroy has dropped it, and no Hash that began
\* later yields a digest (DestroyedIsUnusable).
THEOREM DestroyedIsUnusableTheorem == Spec => []DestroyedIsUnusable
  <1>1. HashInv => DestroyedIsUnusable
    BY DEF HashInv, DestroyInv, DestroyedIsUnusable
  <1> QED
    BY <1>1, HashInvariant, PTL

=============================================================================
