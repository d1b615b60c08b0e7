--------------------------- MODULE KeyPolicyProofs ---------------------------
(***************************************************************************)
(* Keys and their JWKs, for every set of JWKs, algs and operations, and    *)
(* any number of objects and of changes by clients.  Every operation takes *)
(* a heap and leaves one; it keeps the invariant of heaps (HeapInv) and    *)
(* leaves the lists and keys that there were as they are (Extends).        *)
(***************************************************************************)
EXTENDS KeyPolicy, TLAPS

IsSeq(s) == s \in Seq({s[i] : i \in DOMAIN s})

IsJwk(v) ==
    v = [kty |-> v.kty, pair |-> v.pair, point |-> v.point, crv |-> v.crv, sound |-> v.sound,
         size |-> v.size, x5c |-> v.x5c, alg |-> v.alg, ops |-> v.ops]

\* The JWK and the curve that each kind of key has.
KindInv(k, v) ==
    /\ k.kind \in {"signer", "rsaPrivate"} => v.kty = "rsaPrivate"
    /\ k.kind = "ecSigner" => v.kty = "ecPrivate"
    /\ k.kind \in {"signer", "rsaPrivate", "rsaPublic"} => k.crv = NoCurve
    /\ k.kind # "rsaPublic" => k.alg \in KeyAlgs(k.kind)

\* A key's list is nobody else's: not the package's, not a client's, not a JWK's.
KeyInv(h, i) ==
    LET k == h.keys[i]
    IN  /\ k = [kind |-> k.kind, jwk |-> k.jwk, pair |-> k.pair, crv |-> k.crv, ops |-> k.ops,
                alg |-> k.alg, built |-> k.built, from |-> k.from, agrees |-> k.agrees]
        /\ k.kind \in Kinds /\ k.jwk \in DOMAIN h.jwks
        /\ k.ops \in DOMAIN h.lists /\ k.ops \notin {Shared, Own}
        /\ \A j \in DOMAIN h.jwks : h.jwks[j].ops # k.ops
        /\ k.from \in 0 .. i - 1 /\ (k.agrees => k.from # 0)
        /\ k.pair = h.jwks[k.jwk].pair /\ KindInv(k, h.jwks[k.jwk])

HeapInv(h) ==
    /\ h = [lists |-> h.lists, jwks |-> h.jwks, keys |-> h.keys]
    /\ IsSeq(h.lists) /\ IsSeq(h.jwks) /\ IsSeq(h.keys)
    /\ {Shared, Own} \subseteq DOMAIN h.lists
    /\ \A r \in DOMAIN h.lists : h.lists[r] \subseteq KeyOps \union {"none"}
    /\ \A j \in DOMAIN h.jwks : IsJwk(h.jwks[j]) /\ h.jwks[j].ops \in DOMAIN h.lists
    /\ \A i \in DOMAIN h.keys : KeyInv(h, i)

\* A public key v with operations vops is the other half of the private key s with sops.
Fits(s, sops, v, vops) ==
    /\ v.alg = s.alg /\ v.pair = s.pair
    /\ \/ s.kind = "signer" /\ v.kind = "rsaPublic" /\ vops = {"verify"}
       \/ s.kind = "ecSigner" /\ v.kind = "ecPublic" /\ v.crv = Curve(s.alg) /\ vops = {"verify"}
       \/ /\ s.kind = "rsaPrivate" /\ v.kind = "rsaPublic"
          /\ vops = {inverseOps(op) : op \in sops}

\* While the package's list is intact, keys do what they did when they were new, and
\* derived ones are the other halves of those they were derived from.
PolicyInv(h) ==
    /\ h.lists[Shared] = {"verify"}
    /\ \A i \in DOMAIN h.keys :
        LET k == h.keys[i]
            s == h.keys[k.from]
        IN  /\ Behaviour(h, k) = k.built
            /\ k.agrees => Fits(s, h.lists[s.ops], k, h.lists[k.ops])

KeyPolicyInv ==
    /\ HeapInv(Heap)
    /\ intact \in BOOLEAN /\ (intact => PolicyInv(Heap))
    /\ held \subseteq DOMAIN jwks
    /\ changes \in 0 .. MaxChanges

-----------------------------------------------------------------------------
(* Sequences.                                                              *)

\* What IsSeq says.
LEMMA IsSeqFacts ==
    ASSUME NEW s, IsSeq(s)
    PROVE  Len(s) \in Nat /\ DOMAIN s = 1 .. Len(s)
  BY DEF IsSeq

\* Append adds one item at the end.
LEMMA AppendFacts ==
    ASSUME NEW s, NEW e, IsSeq(s)
    PROVE  /\ IsSeq(Append(s, e)) /\ Len(Append(s, e)) = Len(s) + 1
           /\ DOMAIN Append(s, e) = DOMAIN s \union {Len(s) + 1}
           /\ Len(s) + 1 \notin DOMAIN s
           /\ \A i \in DOMAIN s : Append(s, e)[i] = s[i]
           /\ Append(s, e)[Len(s) + 1] = e
  <1> DEFINE S == {s[i] : i \in DOMAIN s} \union {e}
             t == Append(s, e)
  <1>1. s \in Seq(S) /\ e \in S
    BY DEF IsSeq
  <1> HIDE DEF S
  <1>2. Len(s) \in Nat /\ DOMAIN s = 1 .. Len(s)
    BY <1>1
  <1>3. t \in Seq(S) /\ Len(t) = Len(s) + 1
    BY <1>1
  <1>4. DOMAIN t = 1 .. (Len(s) + 1)
    BY <1>3
  <1>5. (\A i \in DOMAIN s : t[i] = s[i]) /\ t[Len(s) + 1] = e
    BY <1>1, <1>2
  <1>6. DOMAIN t = DOMAIN s \union {Len(s) + 1} /\ Len(s) + 1 \notin DOMAIN s
    BY <1>2, <1>4
  <1>7. IsSeq(t)
    <2> HIDE DEF t
    <2>1. \A i \in 1 .. Len(t) : t[i] \in {t[j] : j \in DOMAIN t}
      BY <1>3
    <2> QED
      BY <1>3, <2>1 DEF IsSeq
  <1> QED
    BY <1>3, <1>5, <1>6, <1>7

Replace(s, n, e) == [s EXCEPT ![n] = e]

\* Replacing an item keeps the others and the length.
LEMMA ReplaceFacts ==
    ASSUME NEW s, NEW e, IsSeq(s), NEW n \in DOMAIN s
    PROVE  LET t == Replace(s, n, e)
           IN  /\ IsSeq(t) /\ Len(t) = Len(s) /\ DOMAIN t = DOMAIN s
               /\ t[n] = e /\ \A i \in DOMAIN s : i # n => t[i] = s[i]
  <1> DEFINE S == {s[i] : i \in DOMAIN s} \union {e}
             t == Replace(s, n, e)
  <1>1. s \in Seq(S) /\ e \in S
    BY DEF IsSeq
  <1> HIDE DEF S
  <1>2. t \in Seq(S) /\ Len(t) = Len(s) /\ DOMAIN t = DOMAIN s
    BY <1>1 DEF Replace
  <1>3. t[n] = e /\ \A i \in DOMAIN s : i # n => t[i] = s[i]
    BY <1>1 DEF Replace
  <1>4. IsSeq(t)
    <2> HIDE DEF t
    <2>1. \A i \in 1 .. Len(t) : t[i] \in {t[j] : j \in DOMAIN t}
      BY <1>2
    <2> QED
      BY <1>2, <2>1 DEF IsSeq
  <1> QED
    BY <1>2, <1>3, <1>4

-----------------------------------------------------------------------------
(* What a step leaves.                                                     *)

\* The lists, the keys and the JWKs but those of J are as they were.
Extends(h, g, J) ==
    /\ \A r \in DOMAIN h.lists : r \in DOMAIN g.lists /\ g.lists[r] = h.lists[r]
    /\ \A i \in DOMAIN h.keys : i \in DOMAIN g.keys /\ g.keys[i] = h.keys[i]
    /\ \A j \in DOMAIN h.jwks \ J : j \in DOMAIN g.jwks /\ g.jwks[j] = h.jwks[j]

Keeps(h, g, J) ==
    HeapInv(g) /\ Extends(h, g, J) /\ (PolicyInv(h) => PolicyInv(g))

\* What a key lets through depends on its list and the package's.
LEMMA BehaviourKept ==
    ASSUME NEW h, NEW g, NEW k, NEW q, q.kind = k.kind, q.alg = k.alg,
           g.lists[q.ops] = h.lists[k.ops], g.lists[Shared] = h.lists[Shared]
    PROVE  Behaviour(g, q) = Behaviour(h, k)
  <1>1. Admitted(g, q) = Admitted(h, k)
    BY DEF Admitted
  <1> QED
    BY <1>1 DEF Behaviour, Algorithm

\* Two steps after each other.
LEMMA KeepsTwice ==
    ASSUME NEW h, NEW f, NEW g, NEW J, Keeps(h, f, J), Keeps(f, g, J)
    PROVE  Keeps(h, g, J)
  BY DEF Keeps, Extends

\* What leaves every JWK alone leaves most alone.
LEMMA KeepsMore ==
    ASSUME NEW h, NEW g, NEW J, Keeps(h, g, {})
    PROVE  Keeps(h, g, J)
  BY DEF Keeps, Extends

\* The JWK of a key says what it said.
LEMMA AgreesKept ==
    ASSUME NEW h, NEW g, NEW J, HeapInv(h), Extends(h, g, J),
           NEW i \in DOMAIN h.keys, h.keys[i].jwk \notin J
    PROVE  Agrees(g, h.keys[i]) <=> Agrees(h, h.keys[i])
  <1> DEFINE k == h.keys[i]
  <1>1. KeyInv(h, i)
    BY DEF HeapInv
  <1>2. k.jwk \in DOMAIN h.jwks \ J /\ k.ops \in DOMAIN h.lists
    BY <1>1 DEF KeyInv
  <1>3. h.jwks[k.jwk].ops \in DOMAIN h.lists
    BY <1>2 DEF HeapInv
  <1> QED
    BY <1>2, <1>3 DEF Extends, Agrees, JwkOps

\* A step that makes no key keeps the invariant if it leaves no JWK with a key's
\* list, and the numbers of JWKs as they are.
LEMMA SameKeysKeep ==
    ASSUME NEW h, NEW g, NEW J, HeapInv(h),
           g = [lists |-> g.lists, jwks |-> g.jwks, keys |-> h.keys],
           IsSeq(g.lists), IsSeq(g.jwks),
           \A r \in DOMAIN g.lists : g.lists[r] \subseteq KeyOps \union {"none"},
           \A r \in DOMAIN h.lists : r \in DOMAIN g.lists /\ g.lists[r] = h.lists[r],
           \A j \in DOMAIN g.jwks : /\ IsJwk(g.jwks[j]) /\ g.jwks[j].ops \in DOMAIN g.lists
                                    /\ \A i \in DOMAIN h.keys : g.jwks[j].ops # h.keys[i].ops,
           \A j \in DOMAIN h.jwks : /\ j \in DOMAIN g.jwks
                                    /\ g.jwks[j].kty = h.jwks[j].kty
                                    /\ g.jwks[j].pair = h.jwks[j].pair
                                    /\ j \notin J => g.jwks[j] = h.jwks[j]
    PROVE  Keeps(h, g, J)
  <1>1. g.keys = h.keys
    OBVIOUS
  <1>2. ASSUME NEW i \in DOMAIN g.keys PROVE KeyInv(g, i)
    <2> DEFINE k == h.keys[i]
    <2>1. KeyInv(h, i)
      BY <1>1, <1>2 DEF HeapInv
    <2>2. k.jwk \in DOMAIN h.jwks /\ KindInv(k, h.jwks[k.jwk])
      BY <2>1 DEF KeyInv
    <2>3. KindInv(k, g.jwks[k.jwk])
      BY <2>2 DEF KindInv
    <2> QED
      BY <1>1, <1>2, <2>1, <2>2, <2>3 DEF KeyInv
  <1>3. HeapInv(g)
    <2>1. {Shared, Own} \subseteq DOMAIN g.lists /\ IsSeq(g.keys)
      BY <1>1 DEF HeapInv
    <2>2. g = [lists |-> g.lists, jwks |-> g.jwks, keys |-> g.keys]
      BY <1>1
    <2> QED
      BY <1>2, <2>1, <2>2 DEF HeapInv
  <1>4. Extends(h, g, J)
    BY <1>1 DEF Extends
  <1>5. ASSUME PolicyInv(h) PROVE PolicyInv(g)
    <2>1. g.lists[Shared] = h.lists[Shared]
      BY DEF HeapInv
    <2>2. ASSUME NEW i \in DOMAIN g.keys
          PROVE  LET k == g.keys[i]
                     s == g.keys[k.from]
                 IN  /\ Behaviour(g, k) = k.built
                     /\ k.agrees => Fits(s, g.lists[s.ops], k, g.lists[k.ops])
      <3> DEFINE k == h.keys[i]
                 s == h.keys[k.from]
      <3>1. KeyInv(h, i) /\ i \in DOMAIN h.keys
        BY <1>1, <2>2 DEF HeapInv
      <3>2. g.lists[k.ops] = h.lists[k.ops]
        BY <3>1 DEF KeyInv
      <3>3. Behaviour(g, k) = Behaviour(h, k)
        BY <2>1, <3>2, BehaviourKept
      <3>4. Behaviour(h, k) = k.built /\ (k.agrees => Fits(s, h.lists[s.ops], k, h.lists[k.ops]))
        BY <1>5, <3>1 DEF PolicyInv
      <3>5. k.agrees => g.lists[s.ops] = h.lists[s.ops]
        <4> SUFFICES ASSUME k.agrees PROVE g.lists[s.ops] = h.lists[s.ops]
          OBVIOUS
        <4>1. k.from \in DOMAIN h.keys
          <5>1. IsSeq(h.keys)
            BY DEF HeapInv
          <5> QED
            BY <3>1, <5>1, IsSeqFacts DEF KeyInv
        <4>2. KeyInv(h, k.from)
          BY <4>1 DEF HeapInv
        <4> QED
          BY <4>2 DEF KeyInv
      <3> QED
        BY <1>1, <3>2, <3>3, <3>4, <3>5
    <2> QED
      BY <1>5, <2>1, <2>2 DEF PolicyInv
  <1> QED
    BY <1>3, <1>4, <1>5 DEF Keeps

\* A new list.
LEMMA NewListKeeps ==
    ASSUME NEW h, NEW ops, HeapInv(h), ops \subseteq KeyOps \union {"none"}
    PROVE  LET n == NewList(h, ops)
           IN  /\ Keeps(h, n.heap, {}) /\ n.heap.jwks = h.jwks /\ n.heap.keys = h.keys
               /\ n.ref \in DOMAIN n.heap.lists /\ n.ref \notin DOMAIN h.lists
               /\ n.heap.lists[n.ref] = ops
               /\ \A i \in DOMAIN h.keys : h.keys[i].ops # n.ref
  <1> DEFINE g == NewList(h, ops).heap
             r == NewList(h, ops).ref
  <1>1. g = [h EXCEPT !.lists = Append(h.lists, ops)] /\ r = Len(h.lists) + 1
    BY DEF NewList
  <1> HIDE DEF g, r
  <1>2. g = [lists |-> Append(h.lists, ops), jwks |-> h.jwks, keys |-> h.keys]
    BY <1>1 DEF HeapInv
  <1>3. g.lists = Append(h.lists, ops) /\ g.jwks = h.jwks /\ g.keys = h.keys
    BY <1>2
  <1>4. /\ IsSeq(g.lists) /\ DOMAIN g.lists = DOMAIN h.lists \union {r} /\ r \notin DOMAIN h.lists
        /\ (\A n \in DOMAIN h.lists : g.lists[n] = h.lists[n]) /\ g.lists[r] = ops
    BY <1>1, <1>3, AppendFacts DEF HeapInv
  <1>5. \A j \in DOMAIN h.jwks : \A i \in DOMAIN h.keys : h.jwks[j].ops # h.keys[i].ops
    BY DEF HeapInv, KeyInv
  <1>6. \A i \in DOMAIN h.keys : h.keys[i].ops # r
    BY <1>4 DEF HeapInv, KeyInv
  <1>7. g = [lists |-> g.lists, jwks |-> g.jwks, keys |-> h.keys]
    BY <1>2, <1>3
  <1>8. Keeps(h, g, {})
    <2>1. /\ \A n \in DOMAIN g.lists : g.lists[n] \subseteq KeyOps \union {"none"}
          /\ IsSeq(g.jwks)
      BY <1>3, <1>4 DEF HeapInv
    <2>2. \A j \in DOMAIN g.jwks : /\ IsJwk(g.jwks[j]) /\ g.jwks[j].ops \in DOMAIN g.lists
                                   /\ \A i \in DOMAIN h.keys : g.jwks[j].ops # h.keys[i].ops
      BY <1>3, <1>4, <1>5 DEF HeapInv
    <2>3. \A n \in DOMAIN h.lists : n \in DOMAIN g.lists /\ g.lists[n] = h.lists[n]
      BY <1>4
    <2>4. \A j \in DOMAIN h.jwks : /\ j \in DOMAIN g.jwks
                                   /\ g.jwks[j].kty = h.jwks[j].kty
                                   /\ g.jwks[j].pair = h.jwks[j].pair
                                   /\ j \notin {} => g.jwks[j] = h.jwks[j]
      BY <1>3
    <2> QED
      BY <1>4, <1>7, <2>1, <2>2, <2>3, <2>4, SameKeysKeep
  <1> QED
    BY <1>3, <1>4, <1>6, <1>8 DEF g, r

\* A new JWK with a list that is no key's.
LEMMA AddJwkKeeps ==
    ASSUME NEW h, NEW v, HeapInv(h), IsJwk(v), v.ops \in DOMAIN h.lists,
           \A i \in DOMAIN h.keys : h.keys[i].ops # v.ops
    PROVE  LET g == AddJwk(h, v)
           IN  /\ Keeps(h, g, {}) /\ g.lists = h.lists /\ g.keys = h.keys
               /\ LastJwk(g) \in DOMAIN g.jwks /\ LastJwk(g) \notin DOMAIN h.jwks
               /\ g.jwks[LastJwk(g)] = v
  <1> DEFINE g == AddJwk(h, v)
             n == Len(h.jwks) + 1
  <1>1. g = [h EXCEPT !.jwks = Append(h.jwks, v)]
    BY DEF AddJwk
  <1> HIDE DEF g
  <1>2. g = [lists |-> h.lists, jwks |-> Append(h.jwks, v), keys |-> h.keys]
    BY <1>1 DEF HeapInv
  <1>3. g.lists = h.lists /\ g.jwks = Append(h.jwks, v) /\ g.keys = h.keys
    BY <1>2
  <1>4. /\ IsSeq(g.jwks) /\ DOMAIN g.jwks = DOMAIN h.jwks \union {n} /\ n \notin DOMAIN h.jwks
        /\ (\A j \in DOMAIN h.jwks : g.jwks[j] = h.jwks[j]) /\ g.jwks[n] = v /\ LastJwk(g) = n
    BY <1>3, AppendFacts DEF HeapInv, LastJwk
  <1>5. g = [lists |-> g.lists, jwks |-> g.jwks, keys |-> h.keys]
    BY <1>2, <1>3
  <1>6. IsSeq(g.lists) /\ \A r \in DOMAIN g.lists : g.lists[r] \subseteq KeyOps \union {"none"}
    BY <1>3 DEF HeapInv
  <1>7. \A j \in DOMAIN g.jwks : /\ IsJwk(g.jwks[j]) /\ g.jwks[j].ops \in DOMAIN g.lists
                                 /\ \A i \in DOMAIN h.keys : g.jwks[j].ops # h.keys[i].ops
    BY <1>3, <1>4 DEF HeapInv, KeyInv
  <1>8. \A r \in DOMAIN h.lists : r \in DOMAIN g.lists /\ g.lists[r] = h.lists[r]
    BY <1>3
  <1>9. \A j \in DOMAIN h.jwks : /\ j \in DOMAIN g.jwks
                                 /\ g.jwks[j].kty = h.jwks[j].kty
                                 /\ g.jwks[j].pair = h.jwks[j].pair
                                 /\ j \notin {} => g.jwks[j] = h.jwks[j]
    BY <1>4
  <1>10. Keeps(h, g, {})
    BY <1>4, <1>5, <1>6, <1>7, <1>8, <1>9, SameKeysKeep
  <1> QED
    BY <1>3, <1>4, <1>10 DEF g

\* The JWK numbered j is w.
ReplaceJwk(h, j, w) == [h EXCEPT !.jwks = Replace(h.jwks, j, w)]

\* A JWK gets another alg or another list that is no key's.
LEMMA ReplaceJwkKeeps ==
    ASSUME NEW h, NEW j, NEW w, NEW J, j \in J, HeapInv(h), j \in DOMAIN h.jwks,
           IsJwk(w), w.kty = h.jwks[j].kty, w.pair = h.jwks[j].pair,
           w.ops \in DOMAIN h.lists, \A i \in DOMAIN h.keys : h.keys[i].ops # w.ops
    PROVE  LET g == ReplaceJwk(h, j, w)
           IN  /\ Keeps(h, g, J) /\ g.lists = h.lists /\ g.keys = h.keys
               /\ DOMAIN g.jwks = DOMAIN h.jwks /\ Len(g.jwks) = Len(h.jwks) /\ g.jwks[j] = w
               /\ \A i \in DOMAIN h.jwks : i # j => g.jwks[i] = h.jwks[i]
  <1> DEFINE new == Replace(h.jwks, j, w)
             g == ReplaceJwk(h, j, w)
  <1>1. /\ IsSeq(new) /\ DOMAIN new = DOMAIN h.jwks /\ Len(new) = Len(h.jwks) /\ new[j] = w
        /\ \A i \in DOMAIN h.jwks : i # j => new[i] = h.jwks[i]
    <2>1. IsSeq(h.jwks)
      BY DEF HeapInv
    <2> QED
      BY <2>1, ReplaceFacts
  <1>0. g = [h EXCEPT !.jwks = new]
    BY DEF ReplaceJwk
  <1> HIDE DEF new, g
  <1>2. g = [lists |-> h.lists, jwks |-> new, keys |-> h.keys]
    BY <1>0 DEF HeapInv
  <1>3. g.lists = h.lists /\ g.jwks = new /\ g.keys = h.keys
    BY <1>2
  <1>4. g = [lists |-> g.lists, jwks |-> g.jwks, keys |-> h.keys]
    BY <1>2, <1>3
  <1>5. IsSeq(g.lists) /\ \A r \in DOMAIN g.lists : g.lists[r] \subseteq KeyOps \union {"none"}
    BY <1>3 DEF HeapInv
  <1>6. \A i \in DOMAIN g.jwks : /\ IsJwk(g.jwks[i]) /\ g.jwks[i].ops \in DOMAIN g.lists
                                 /\ \A n \in DOMAIN h.keys : g.jwks[i].ops # h.keys[n].ops
    BY <1>1, <1>3 DEF HeapInv, KeyInv
  <1>7. \A r \in DOMAIN h.lists : r \in DOMAIN g.lists /\ g.lists[r] = h.lists[r]
    BY <1>3
  <1>8. \A i \in DOMAIN h.jwks : /\ i \in DOMAIN g.jwks
                                 /\ g.jwks[i].kty = h.jwks[i].kty
                                 /\ g.jwks[i].pair = h.jwks[i].pair
                                 /\ i \notin J => g.jwks[i] = h.jwks[i]
    BY <1>1, <1>3
  <1>9. IsSeq(g.jwks)
    BY <1>1, <1>3
  <1>10. Keeps(h, g, J)
    BY <1>4, <1>5, <1>6, <1>7, <1>8, <1>9, SameKeysKeep
  <1> QED
    BY <1>1, <1>3, <1>10 DEF g

\* What a key is made of, without its list.
Core(kind, v, crv, alg) == [kind |-> kind, pair |-> v.pair, crv |-> crv, alg |-> alg]

\* A new key, with a copy of the list r.
LEMMA AddKeyKeeps ==
    ASSUME NEW h, NEW kind, NEW j, NEW crv, NEW r, NEW alg, NEW from, HeapInv(h),
           kind \in Kinds, j \in DOMAIN h.jwks, r \in DOMAIN h.lists,
           from \in 0 .. Len(h.keys),
           KindInv(Core(kind, h.jwks[j], crv, alg), h.jwks[j]),
           PolicyInv(h) /\ from # 0 /\ Agrees(h, h.keys[from]) =>
                Fits(h.keys[from], h.lists[h.keys[from].ops],
                     Core(kind, h.jwks[j], crv, alg),
                     h.lists[r])
    PROVE  LET g == AddKey(h, kind, j, crv, r, alg, from)
           IN  Keeps(h, g, {}) /\ g.jwks = h.jwks /\ Len(g.keys) = Len(h.keys) + 1
  <1> DEFINE c == cloneOps(h, r)
             f == c.heap
             m == c.ref
             policy == [kind |-> kind, jwk |-> j, ops |-> m, alg |-> alg]
             agrees == from # 0 /\ Agrees(h, h.keys[from])
             key == [kind |-> kind, jwk |-> j, pair |-> h.jwks[j].pair, crv |-> crv, ops |-> m,
                     alg |-> alg, built |-> Behaviour(f, policy), from |-> from,
                     agrees |-> agrees]
             g == AddKey(h, kind, j, crv, r, alg, from)
             n == Len(h.keys) + 1
  <1>1. h.lists[r] \subseteq KeyOps \union {"none"}
    BY DEF HeapInv
  <1>2. /\ Keeps(h, f, {}) /\ f.jwks = h.jwks /\ f.keys = h.keys
        /\ m \in DOMAIN f.lists /\ m \notin DOMAIN h.lists /\ f.lists[m] = h.lists[r]
        /\ \A i \in DOMAIN h.keys : h.keys[i].ops # m
    BY <1>1, NewListKeeps DEF cloneOps
  <1>3. g = [f EXCEPT !.keys = Append(f.keys, key)]
    BY DEF AddKey
  <1> HIDE DEF c, f, m, g
  <1>4. /\ key.kind = kind /\ key.jwk = j /\ key.pair = h.jwks[j].pair /\ key.crv = crv
        /\ key.ops = m /\ key.alg = alg /\ key.built = Behaviour(f, policy) /\ key.from = from
    OBVIOUS
  <1>5. key.agrees <=> from # 0 /\ Agrees(h, h.keys[from])
    BY Zenon
  <1>6. key = [kind |-> key.kind, jwk |-> key.jwk, pair |-> key.pair, crv |-> key.crv,
               ops |-> key.ops, alg |-> key.alg, built |-> key.built, from |-> key.from,
               agrees |-> key.agrees]
    BY Zenon
  <1>7. policy.kind = kind /\ policy.ops = m /\ policy.alg = alg
    OBVIOUS
  <1> HIDE DEF key, policy, agrees
  <1>8. HeapInv(f) /\ Extends(h, f, {}) /\ (PolicyInv(h) => PolicyInv(f))
    BY <1>2 DEF Keeps
  <1>9. g = [lists |-> f.lists, jwks |-> h.jwks, keys |-> Append(h.keys, key)]
    BY <1>2, <1>3, <1>8 DEF HeapInv
  <1>10. g.lists = f.lists /\ g.jwks = h.jwks /\ g.keys = Append(h.keys, key)
    BY <1>9
  <1>11. /\ IsSeq(g.keys) /\ DOMAIN g.keys = DOMAIN h.keys \union {n} /\ n \notin DOMAIN h.keys
         /\ (\A i \in DOMAIN h.keys : g.keys[i] = h.keys[i]) /\ g.keys[n] = key
         /\ Len(g.keys) = n
    BY <1>10, AppendFacts DEF HeapInv
  <1>12. Len(h.keys) \in Nat /\ DOMAIN h.keys = 1 .. Len(h.keys)
    BY IsSeqFacts DEF HeapInv
  <1>13. ASSUME NEW i \in DOMAIN h.keys PROVE KeyInv(g, i)
    <2>1. KeyInv(f, i)
      BY <1>2, <1>8, <1>13 DEF HeapInv
    <2> QED
      BY <1>2, <1>10, <1>11, <1>13, <2>1 DEF KeyInv
  <1>14. KeyInv(g, n)
    <2>1. KindInv(key, h.jwks[j])
      BY <1>4 DEF KindInv, Core
    <2>2. m \notin {Shared, Own} /\ \A i \in DOMAIN h.jwks : h.jwks[i].ops # m
      BY <1>2 DEF HeapInv
    <2>3. key.from \in 0 .. n - 1 /\ (key.agrees => key.from # 0)
      BY <1>4, <1>5, <1>12
    <2> QED
      BY <1>2, <1>4, <1>6, <1>10, <1>11, <2>1, <2>2, <2>3 DEF KeyInv
  <1>15. HeapInv(g)
    <2>1. g = [lists |-> g.lists, jwks |-> g.jwks, keys |-> g.keys]
      BY <1>9, <1>10
    <2>2. \A i \in DOMAIN g.keys : KeyInv(g, i)
      BY <1>11, <1>13, <1>14
    <2> QED
      BY <1>2, <1>8, <1>10, <1>11, <2>1, <2>2 DEF HeapInv
  <1>16. Extends(h, g, {})
    BY <1>2, <1>8, <1>10, <1>11 DEF Extends
  <1>17. ASSUME PolicyInv(h) PROVE PolicyInv(g)
    <2>1. PolicyInv(f) /\ g.lists[Shared] = f.lists[Shared] /\ g.lists[Shared] = {"verify"}
      BY <1>8, <1>10, <1>17 DEF PolicyInv
    <2>2. ASSUME NEW i \in DOMAIN h.keys
          PROVE  /\ Behaviour(g, g.keys[i]) = g.keys[i].built
                 /\ g.keys[i].agrees => Fits(g.keys[g.keys[i].from],
                        g.lists[g.keys[g.keys[i].from].ops], g.keys[i], g.lists[g.keys[i].ops])
      <3> DEFINE k == h.keys[i]
                 s == h.keys[k.from]
      <3>1. Behaviour(f, k) = k.built /\ (k.agrees => Fits(s, f.lists[s.ops], k, f.lists[k.ops]))
        BY <1>2, <2>1, <2>2 DEF PolicyInv
      <3>2. Behaviour(g, k) = Behaviour(f, k)
        BY <1>10, BehaviourKept
      <3>3. k.agrees => k.from \in DOMAIN h.keys
        <4>1. KeyInv(h, i)
          BY <2>2 DEF HeapInv
        <4> QED
          BY <1>12, <4>1 DEF KeyInv
      <3> QED
        BY <1>10, <1>11, <3>1, <3>2, <3>3
    <2>3. Behaviour(g, key) = key.built
      BY <1>4, <1>7, <1>10, BehaviourKept
    <2>4. key.agrees => Fits(g.keys[from], g.lists[g.keys[from].ops], key, g.lists[m])
      <3> SUFFICES ASSUME key.agrees
                   PROVE  Fits(g.keys[from], g.lists[g.keys[from].ops], key, g.lists[m])
        OBVIOUS
      <3> DEFINE s == h.keys[from]
                 v == Core(kind, h.jwks[j], crv, alg)
      <3>1. from \in DOMAIN h.keys /\ Agrees(h, s)
        BY <1>5, <1>12
      <3>2. Fits(s, h.lists[s.ops], v, h.lists[r])
        BY <1>17, <3>1, <1>5
      <3>3. KeyInv(h, from)
        BY <3>1 DEF HeapInv
      <3>4. g.keys[from] = s /\ g.lists[s.ops] = h.lists[s.ops] /\ g.lists[m] = h.lists[r]
        BY <1>2, <1>8, <1>10, <1>11, <3>1, <3>3 DEF KeyInv, Extends
      <3>5. /\ v.alg = key.alg /\ v.pair = key.pair /\ v.kind = key.kind /\ v.crv = key.crv
        BY <1>4 DEF Core
      <3> HIDE DEF v, s
      <3> QED
        BY <3>2, <3>4, <3>5 DEF Fits
    <2> QED
      BY <1>4, <1>11, <2>1, <2>2, <2>3, <2>4 DEF PolicyInv
  <1> QED
    BY <1>10, <1>11, <1>15, <1>16, <1>17 DEF Keeps, g

\* Nothing happens.
LEMMA KeepsSelf ==
    ASSUME NEW h, HeapInv(h)
    PROVE  Keeps(h, h, {})
  BY DEF Keeps, Extends

-----------------------------------------------------------------------------
(* Constructors.                                                           *)

\* A key that is derived from none.
LEMMA AddFirstKeyKeeps ==
    ASSUME NEW h, NEW kind, NEW j, NEW crv, NEW r, NEW alg, HeapInv(h),
           kind \in Kinds, j \in DOMAIN h.jwks, r \in DOMAIN h.lists,
           KindInv(Core(kind, h.jwks[j], crv, alg), h.jwks[j])
    PROVE  LET g == AddKey(h, kind, j, crv, r, alg, 0)
           IN  Keeps(h, g, {}) /\ g.jwks = h.jwks
  <1>1. 0 \in 0 .. Len(h.keys)
    BY IsSeqFacts DEF HeapInv
  <1> DEFINE from == 0
  <1>2. from \in 0 .. Len(h.keys) /\ ~(from # 0)
    BY <1>1
  <1> HIDE DEF from
  <1>3. PolicyInv(h) /\ from # 0 /\ Agrees(h, h.keys[from]) =>
            Fits(h.keys[from], h.lists[h.keys[from].ops],
                 Core(kind, h.jwks[j], crv, alg), h.lists[r])
    BY <1>2
  <1>4. LET g == AddKey(h, kind, j, crv, r, alg, from)
        IN  Keeps(h, g, {}) /\ g.jwks = h.jwks
    BY <1>2, <1>3, AddKeyKeeps
  <1> QED
    BY <1>4 DEF from

\* The constructors that leave their JWK alone.
LEMMA ConstructorsKeep ==
    ASSUME NEW h, NEW j, NEW required, HeapInv(h), j \in DOMAIN h.jwks
    PROVE  /\ Keeps(h, NewSigningKey(h, j, required), {})
           /\ Keeps(h, NewRsaDecryptionKey(h, j), {})
           /\ Keeps(h, NewRsaPublicKeyImpl(h, j), {})
           /\ Keeps(h, NewAesGcmCryptorFromJwk(h, j, required), {})
  <1> DEFINE v == h.jwks[j]
  <1>1. v.ops \in DOMAIN h.lists
    BY DEF HeapInv
  <1>2. Keeps(h, h, {})
    BY KeepsSelf
  <1>3. Keeps(h, NewSigningKey(h, j, required), {})
    <2>1. CASE "sign" \notin JwkOps(h, j) \/ v.alg \notin SigningAlgs
               \/ ~LoadPrivateKey(h, j, required)
      BY <1>2, <2>1 DEF NewSigningKey
    <2>2. ASSUME v.alg \in SigningAlgs, v.kty = "rsaPrivate"
          PROVE  Keeps(h, AddKey(h, "signer", j, NoCurve, v.ops, v.alg, 0), {})
      <3>1. KindInv(Core("signer", v, NoCurve, v.alg), v)
        BY <2>2 DEF KindInv, KeyAlgs, Core
      <3> QED
        BY <1>1, <3>1, AddFirstKeyKeeps DEF Kinds
    <2>3. ASSUME v.alg \in EcAlgs, v.kty = "ecPrivate"
          PROVE  Keeps(h, AddKey(h, "ecSigner", j, v.crv, v.ops, v.alg, 0), {})
      <3>1. KindInv(Core("ecSigner", v, v.crv, v.alg), v)
        BY <2>3 DEF KindInv, KeyAlgs, Core
      <3> QED
        BY <1>1, <3>1, AddFirstKeyKeeps DEF Kinds
    <2> QED
      BY <2>1, <2>2, <2>3 DEF NewSigningKey, LoadPrivateKey
  <1>4. Keeps(h, NewRsaDecryptionKey(h, j), {})
    <2>1. ASSUME v.alg \in SigningAlgs \union OaepAlgs, v.kty = "rsaPrivate"
          PROVE  Keeps(h, AddKey(h, "rsaPrivate", j, NoCurve, v.ops, v.alg, 0), {})
      <3>1. KindInv(Core("rsaPrivate", v, NoCurve, v.alg), v)
        BY <2>1 DEF KindInv, KeyAlgs, Core
      <3> QED
        BY <1>1, <3>1, AddFirstKeyKeeps DEF Kinds
    <2> QED
      BY <1>2, <2>1 DEF NewRsaDecryptionKey, LoadPrivateKey
  <1>5. Keeps(h, NewRsaPublicKeyImpl(h, j), {})
    <2>1. KindInv(Core("rsaPublic", v, NoCurve, v.alg), v)
      BY DEF KindInv, Core
    <2>2. Keeps(h, AddKey(h, "rsaPublic", j, NoCurve, v.ops, v.alg, 0), {})
      BY <1>1, <2>1, AddFirstKeyKeeps DEF Kinds
    <2> QED
      BY <1>2, <2>2 DEF NewRsaPublicKeyImpl
  <1>6. Keeps(h, NewAesGcmCryptorFromJwk(h, j, required), {})
    <2>1. ASSUME v.alg \in DOMAIN symmetricAlgs
          PROVE  Keeps(h, AddKey(h, "aead", j, NoCurve, v.ops, v.alg, 0), {})
      <3>1. KindInv(Core("aead", v, NoCurve, v.alg), v)
        BY <2>1 DEF KindInv, KeyAlgs, Core
      <3> QED
        BY <1>1, <3>1, AddFirstKeyKeeps DEF Kinds
    <2> QED
      BY <1>2, <2>1 DEF NewAesGcmCryptorFromJwk, LoadSymmetricAEAD
  <1> QED
    BY <1>3, <1>4, <1>5, <1>6

WithAlg(v, alg) == [v EXCEPT !.alg = alg]
WithOps(v, r) == [v EXCEPT !.ops = r]

\* What is left of a JWK whose alg is replaced.
LEMMA JwkWithAlg ==
    ASSUME NEW v, NEW alg, IsJwk(v)
    PROVE  LET a == WithAlg(v, alg)
           IN  IsJwk(a) /\ a.kty = v.kty /\ a.pair = v.pair /\ a.crv = v.crv /\ a.ops = v.ops
               /\ a.alg = alg
  <1> DEFINE a == WithAlg(v, alg)
  <1>1. a = [v EXCEPT !.alg = alg]
    BY DEF WithAlg
  <1> HIDE DEF a
  <1>2. a = [kty |-> v.kty, pair |-> v.pair, point |-> v.point, crv |-> v.crv,
             sound |-> v.sound, size |-> v.size, x5c |-> v.x5c, alg |-> alg, ops |-> v.ops]
    BY <1>1 DEF IsJwk
  <1> QED
    BY <1>2 DEF a, IsJwk

\* What is left of a JWK whose list is replaced.
LEMMA JwkWithOps ==
    ASSUME NEW v, NEW r, IsJwk(v)
    PROVE  LET a == WithOps(v, r)
           IN  IsJwk(a) /\ a.kty = v.kty /\ a.pair = v.pair /\ a.crv = v.crv /\ a.alg = v.alg
               /\ a.ops = r
  <1> DEFINE a == WithOps(v, r)
  <1>1. a = [v EXCEPT !.ops = r]
    BY DEF WithOps
  <1> HIDE DEF a
  <1>2. a = [kty |-> v.kty, pair |-> v.pair, point |-> v.point, crv |-> v.crv,
             sound |-> v.sound, size |-> v.size, x5c |-> v.x5c, alg |-> v.alg, ops |-> r]
    BY <1>1 DEF IsJwk
  <1> QED
    BY <1>2 DEF a, IsJwk

LabelJwk(h, j, alg) == [h EXCEPT !.jwks[j].alg = alg]
ListJwk(h, j, r) == [h EXCEPT !.jwks[j].ops = r]

\* Changing a JWK's alg is replacing the JWK.
LEMMA LabelIsReplace ==
    ASSUME NEW h, NEW j, NEW alg, HeapInv(h), j \in DOMAIN h.jwks
    PROVE  LabelJwk(h, j, alg) = ReplaceJwk(h, j, WithAlg(h.jwks[j], alg))
  BY DEF LabelJwk, ReplaceJwk, Replace, WithAlg

\* So is changing its list.
LEMMA ListIsReplace ==
    ASSUME NEW h, NEW j, NEW r, HeapInv(h), j \in DOMAIN h.jwks
    PROVE  ListJwk(h, j, r) = ReplaceJwk(h, j, WithOps(h.jwks[j], r))
  BY DEF ListJwk, ReplaceJwk, Replace, WithOps

\* So is changing both.
LEMMA BothIsReplace ==
    ASSUME NEW h, NEW j, NEW alg, NEW r, HeapInv(h), j \in DOMAIN h.jwks
    PROVE  ListJwk(LabelJwk(h, j, alg), j, r)
             = ReplaceJwk(h, j, WithOps(WithAlg(h.jwks[j], alg), r))
  <1>1. ListJwk(LabelJwk(h, j, alg), j, r)
            = [[h EXCEPT !.jwks[j].alg = alg] EXCEPT !.jwks[j].ops = r]
    BY DEF LabelJwk, ListJwk
  <1>2. [[h EXCEPT !.jwks[j].alg = alg] EXCEPT !.jwks[j].ops = r]
            = ReplaceJwk(h, j, WithOps(WithAlg(h.jwks[j], alg), r))
    BY DEF ReplaceJwk, Replace, WithAlg, WithOps, HeapInv
  <1> QED
    BY <1>1, <1>2

\* The operations that NewVerificationKey gives to the key.
LEMMA VerificationOpsKeep ==
    ASSUME NEW h, NEW j, HeapInv(h), j \in DOMAIN h.jwks
    PROVE  LET o == VerificationOps(h, j)
               ops == o.heap.lists[o.ref]
           IN  /\ Keeps(h, o.heap, {}) /\ o.heap.jwks = h.jwks /\ o.heap.keys = h.keys
               /\ o.ref \in DOMAIN o.heap.lists
               /\ \A i \in DOMAIN h.keys : h.keys[i].ops # o.ref
               /\ JwkOps(h, j) # {} => ops \subseteq JwkOps(h, j)
               /\ h.lists[Shared] = {"verify"} /\ ops # {} => ops = {"verify"}
  <1> DEFINE all == h.lists[Shared] \intersect JwkOps(h, j)
             o == VerificationOps(h, j)
             n == NewList(h, all)
  <1>1. CASE JwkOps(h, j) = {}
    <2>1. o.heap = h /\ o.ref = Shared
      BY <1>1 DEF VerificationOps
    <2>2. Keeps(h, h, {})
      BY KeepsSelf
    <2>3. Shared \in DOMAIN h.lists /\ \A i \in DOMAIN h.keys : h.keys[i].ops # Shared
      BY DEF HeapInv, KeyInv
    <2> QED
      BY <1>1, <2>1, <2>2, <2>3
  <1>2. CASE JwkOps(h, j) # {}
    <2>1. o = n
      BY <1>2 DEF VerificationOps
    <2>2. all \subseteq KeyOps \union {"none"}
      BY DEF HeapInv
    <2>3. /\ Keeps(h, n.heap, {}) /\ n.heap.jwks = h.jwks /\ n.heap.keys = h.keys
          /\ n.ref \in DOMAIN n.heap.lists /\ n.heap.lists[n.ref] = all
          /\ \A i \in DOMAIN h.keys : h.keys[i].ops # n.ref
      BY <2>2, NewListKeeps
    <2>4. all \subseteq JwkOps(h, j) /\ (h.lists[Shared] = {"verify"} /\ all # {} => all = {"verify"})
      OBVIOUS
    <2> HIDE DEF all, n, o
    <2>5. /\ Keeps(h, o.heap, {}) /\ o.heap.jwks = h.jwks /\ o.heap.keys = h.keys
          /\ o.ref \in DOMAIN o.heap.lists /\ o.heap.lists[o.ref] = all
          /\ \A i \in DOMAIN h.keys : h.keys[i].ops # o.ref
      BY <2>1, <2>3
    <2> QED
      BY <2>4, <2>5 DEF o
  <1> QED
    BY <1>1, <1>2

\* Making a key does not widen the JWK j.
Narrows(h, g, j) ==
    /\ j \in DOMAIN g.jwks
    /\ JwkOps(h, j) # {} => JwkOps(g, j) \subseteq JwkOps(h, j)
    /\ h.jwks[j].alg # NoAlg => g.jwks[j].alg = h.jwks[j].alg

\* The JWK v that NewVerificationKey is given is the public half of the key s.
Halves(s, v) ==
    /\ v.alg = s.alg /\ v.pair = s.pair
    /\ \/ s.kind = "signer" /\ v.kty = "rsaPublic"
       \/ s.kind = "ecSigner" /\ v.kty = "ecPublic" /\ v.crv = Curve(s.alg)

\* NewVerificationKey, for a client or for the Verifier of another key.
LEMMA NewVerificationKeyKeeps ==
    ASSUME NEW h, NEW j, NEW from, HeapInv(h), j \in DOMAIN h.jwks,
           from \in 0 .. Len(h.keys),
           from # 0 => h.keys[from].jwk # j,
           from # 0 /\ Agrees(h, h.keys[from]) => Halves(h.keys[from], h.jwks[j])
    PROVE  LET g == NewVerificationKey(h, j, from)
           IN  Keeps(h, g, {j}) /\ Narrows(h, g, j)
  <1> DEFINE J == {j}
             v == h.jwks[j]
             o == VerificationOps(h, j)
             f == o.heap
             m == o.ref
             alg == IF v.alg = NoAlg THEN v.x5c ELSE v.alg
             labelled == LabelJwk(f, j, alg)
             g == NewVerificationKey(h, j, from)
             s == h.keys[from]
  <1>1. IsJwk(v) /\ v.ops \in DOMAIN h.lists /\ \A i \in DOMAIN h.keys : h.keys[i].ops # v.ops
    BY DEF HeapInv, KeyInv
  <1>2. /\ Keeps(h, f, {}) /\ f.jwks = h.jwks /\ f.keys = h.keys
        /\ m \in DOMAIN f.lists /\ \A i \in DOMAIN h.keys : h.keys[i].ops # m
    BY VerificationOpsKeep
  <1>3. /\ JwkOps(h, j) # {} => f.lists[m] \subseteq JwkOps(h, j)
        /\ h.lists[Shared] = {"verify"} /\ f.lists[m] # {} => f.lists[m] = {"verify"}
    BY VerificationOpsKeep
  <1>4. g = IF f.lists[m] = {} THEN h
            ELSE IF v.kty = "rsaPublic" THEN
                    IF alg \notin RsaAlgs \/ ~v.sound THEN LabelJwk(h, j, alg)
                    ELSE AddKey(ListJwk(labelled, j, m),
                                "rsaPublic", j, NoCurve, m, alg, from)
            ELSE IF v.kty = "ecPublic" THEN
                    IF v.alg \notin EcAlgs THEN h
                    ELSE AddKey(f, "ecPublic", j, v.crv, m, v.alg, from)
            ELSE h
    BY DEF NewVerificationKey, LabelJwk, ListJwk
  <1> SUFFICES Keeps(h, g, J) /\ Narrows(h, g, j)
    OBVIOUS
  <1>a. j \in J /\ (v.alg # NoAlg => alg = v.alg)
    OBVIOUS
  <1> HIDE DEF o, f, m, g, labelled, J, alg
  <1>5. HeapInv(f) /\ Extends(h, f, {}) /\ f.lists[Shared] = h.lists[Shared]
    BY <1>2 DEF Keeps, Extends, HeapInv
  <1>6. Keeps(h, h, J) /\ Narrows(h, h, j) /\ Keeps(h, f, J)
    <2>1. Keeps(h, h, {}) /\ Narrows(h, h, j)
      BY KeepsSelf DEF Narrows
    <2> QED
      BY <1>2, <2>1, KeepsMore
  <1>7. ASSUME from # 0, Agrees(h, s) PROVE from \in DOMAIN h.keys /\ Halves(s, v) /\ s.alg # NoAlg
    <2>1. from \in DOMAIN h.keys
      BY <1>7, IsSeqFacts DEF HeapInv
    <2>2. KindInv(s, h.jwks[s.jwk])
      BY <2>1 DEF HeapInv, KeyInv
    <2> QED
      BY <1>7, <2>1, <2>2 DEF KindInv, Halves, KeyAlgs, SigningAlgs, RsaAlgs, RsAlgs, pssAlgs,
                              EcAlgs, NoAlg
  <1>8. from # 0 => from \in DOMAIN h.keys
    BY IsSeqFacts DEF HeapInv
  \* What the key that is derived from s fits, in a heap that is like h but for the JWK j.
  <1>9. ASSUME NEW e, Keeps(h, e, J), e.keys = h.keys, e.lists[m] = f.lists[m], f.lists[m] # {},
               NEW kind, NEW crv, NEW a, NEW w, w.pair = v.pair,
               Halves(s, v) => /\ a = v.alg \/ v.alg = NoAlg
                               /\ \/ s.kind = "signer" /\ kind = "rsaPublic"
                                  \/ s.kind = "ecSigner" /\ kind = "ecPublic" /\ crv = v.crv,
               PolicyInv(e), from # 0, Agrees(e, e.keys[from])
        PROVE  Fits(e.keys[from], e.lists[e.keys[from].ops], Core(kind, w, crv, a), e.lists[m])
    <2>1. Extends(h, e, J) /\ s.jwk \notin J
      BY <1>9 DEF Keeps, J
    <2>2. Agrees(h, s)
      BY <1>8, <1>9, <2>1, AgreesKept
    <2>3. Halves(s, v) /\ s.alg # NoAlg
      BY <1>7, <1>9, <2>2
    <2>4. e.lists[Shared] = h.lists[Shared]
      BY <2>1 DEF Extends, HeapInv
    <2>5. e.lists[m] = {"verify"}
      BY <1>3, <1>9, <2>4 DEF PolicyInv
    <2> DEFINE c == Core(kind, w, crv, a)
    <2>6. c.kind = kind /\ c.pair = w.pair /\ c.crv = crv /\ c.alg = a
      BY DEF Core
    <2> HIDE DEF c
    <2>7. Fits(s, e.lists[s.ops], c, e.lists[m])
      BY <1>9, <2>3, <2>5, <2>6 DEF Fits, Halves
    <2> QED
      BY <1>9, <2>7 DEF c
  <1>10. CASE v.kty = "rsaPublic" /\ g = LabelJwk(h, j, alg)
    <2> DEFINE w == WithAlg(v, alg)
    <2>1. IsJwk(w) /\ w.kty = v.kty /\ w.pair = v.pair /\ w.ops = v.ops /\ w.alg = alg
      BY <1>1, JwkWithAlg
    <2> DEFINE e == ReplaceJwk(h, j, w)
    <2>2. g = e
      BY <1>10, LabelIsReplace
    <2> HIDE DEF w
    <2>3. w.ops \in DOMAIN h.lists /\ \A i \in DOMAIN h.keys : h.keys[i].ops # w.ops
      BY <1>1, <2>1
    <2>4. Keeps(h, e, J) /\ e.lists = h.lists /\ DOMAIN e.jwks = DOMAIN h.jwks /\ e.jwks[j] = w
      BY <1>a, <2>1, <2>3, ReplaceJwkKeeps
    <2> HIDE DEF e
    <2>5. Narrows(h, g, j)
      BY <1>a, <2>1, <2>2, <2>4 DEF Narrows, JwkOps
    <2> QED
      BY <2>2, <2>4, <2>5
  <1>11. CASE /\ v.kty = "rsaPublic" /\ f.lists[m] # {}
              /\ g = AddKey(ListJwk(labelled, j, m),
                            "rsaPublic", j, NoCurve, m, alg, from)
    <2> DEFINE w == WithOps(WithAlg(v, alg), m)
               e == ReplaceJwk(f, j, w)
    <2>1. IsJwk(w) /\ w.kty = v.kty /\ w.pair = v.pair /\ w.ops = m /\ w.alg = alg
      <3> DEFINE u == WithAlg(v, alg)
      <3>1. IsJwk(u) /\ u.kty = v.kty /\ u.pair = v.pair /\ u.alg = alg
        BY <1>1, JwkWithAlg
      <3> HIDE DEF u
      <3>2. /\ IsJwk(WithOps(u, m)) /\ WithOps(u, m).kty = u.kty /\ WithOps(u, m).pair = u.pair
            /\ WithOps(u, m).ops = m /\ WithOps(u, m).alg = u.alg
        BY <3>1, JwkWithOps
      <3> QED
        BY <3>1, <3>2 DEF u
    <2>2. ListJwk(labelled, j, m) = e
      <3>1. f.jwks[j] = v /\ j \in DOMAIN f.jwks
        BY <1>2
      <3> QED
        BY <1>5, <3>1, BothIsReplace DEF labelled
    <2> HIDE DEF w
    <2>3. w.ops \in DOMAIN f.lists /\ \A i \in DOMAIN f.keys : f.keys[i].ops # w.ops
      BY <1>2, <2>1
    <2>4. j \in DOMAIN f.jwks /\ w.kty = f.jwks[j].kty /\ w.pair = f.jwks[j].pair
      BY <1>2, <2>1
    <2>5. /\ Keeps(f, e, J) /\ e.lists = f.lists /\ e.keys = f.keys
          /\ DOMAIN e.jwks = DOMAIN f.jwks /\ e.jwks[j] = w
      BY <1>5, <2>1, <2>3, <2>4, <1>a, ReplaceJwkKeeps
    <2> HIDE DEF e
    <2>6. Keeps(h, e, J)
      BY <1>6, <2>5, KeepsTwice
    <2>7. g = AddKey(e, "rsaPublic", j, NoCurve, m, alg, from)
      BY <1>11, <2>2
    <2>8. KindInv(Core("rsaPublic", e.jwks[j], NoCurve, alg), e.jwks[j])
      BY DEF KindInv, Core
    <2>9. PolicyInv(e) /\ from # 0 /\ Agrees(e, e.keys[from]) =>
            Fits(e.keys[from], e.lists[e.keys[from].ops],
                 Core("rsaPublic", e.jwks[j], NoCurve, alg), e.lists[m])
      <3>1. Halves(s, v) => /\ alg = v.alg \/ v.alg = NoAlg
                            /\ \/ s.kind = "signer" /\ "rsaPublic" = "rsaPublic"
                               \/ s.kind = "ecSigner" /\ "rsaPublic" = "ecPublic" /\ NoCurve = v.crv
        BY <1>a, <1>11 DEF Halves
      <3>2. e.keys = h.keys /\ e.lists[m] = f.lists[m] /\ e.jwks[j] = w
        BY <1>2, <2>5
      <3> QED
        BY <1>9, <1>11, <2>1, <2>6, <3>1, <3>2
    <2>10. /\ HeapInv(e) /\ j \in DOMAIN e.jwks /\ m \in DOMAIN e.lists
           /\ from \in 0 .. Len(e.keys) /\ "rsaPublic" \in Kinds
      BY <1>2, <2>5 DEF Keeps, Kinds
    <2>11. Keeps(e, g, {}) /\ g.jwks = e.jwks
      BY <2>7, <2>8, <2>9, <2>10, AddKeyKeeps
    <2>12. Keeps(h, g, J)
      <3>1. Keeps(e, g, J)
        BY <2>11, KeepsMore
      <3> QED
        BY <2>6, <3>1, KeepsTwice
    <2>13. g.lists[m] = f.lists[m] /\ g.jwks[j].ops = m /\ g.jwks[j].alg = alg
      BY <2>1, <2>5, <2>10, <2>11 DEF Keeps, Extends
    <2>14. Narrows(h, g, j)
      BY <1>3, <1>a, <2>10, <2>11, <2>13 DEF Narrows, JwkOps
    <2> QED
      BY <2>12, <2>14
  <1>12. CASE /\ v.kty = "ecPublic" /\ f.lists[m] # {} /\ v.alg \in EcAlgs
              /\ g = AddKey(f, "ecPublic", j, v.crv, m, v.alg, from)
    <2>1. KindInv(Core("ecPublic", f.jwks[j], v.crv, v.alg), f.jwks[j])
      BY <1>12 DEF KindInv, Core, KeyAlgs
    <2>2. PolicyInv(f) /\ from # 0 /\ Agrees(f, f.keys[from]) =>
            Fits(f.keys[from], f.lists[f.keys[from].ops],
                 Core("ecPublic", f.jwks[j], v.crv, v.alg), f.lists[m])
      <3>1. Halves(s, v) => /\ v.alg = v.alg \/ v.alg = NoAlg
                            /\ \/ s.kind = "signer" /\ "ecPublic" = "rsaPublic"
                               \/ s.kind = "ecSigner" /\ "ecPublic" = "ecPublic" /\ v.crv = v.crv
        BY <1>12 DEF Halves
      <3> QED
        BY <1>2, <1>6, <1>9, <1>12, <3>1
    <2>3. /\ j \in DOMAIN f.jwks /\ from \in 0 .. Len(f.keys) /\ "ecPublic" \in Kinds
      BY <1>2 DEF Kinds
    <2>4. Keeps(f, g, {}) /\ g.jwks = f.jwks
      BY <1>2, <1>5, <1>12, <2>1, <2>2, <2>3, AddKeyKeeps
    <2>5. Keeps(h, g, {})
      BY <1>2, <2>4, KeepsTwice
    <2>6. g.lists[v.ops] = h.lists[v.ops] /\ g.jwks = h.jwks
      BY <1>1, <1>2, <2>4, <2>5 DEF Keeps, Extends
    <2>7. Narrows(h, g, j)
      BY <2>6 DEF Narrows, JwkOps
    <2> QED
      BY <2>5, <2>7, KeepsMore
  <1> HIDE DEF v
  <1> QED
    BY <1>4, <1>6, <1>10, <1>11, <1>12

-----------------------------------------------------------------------------
(* Conversions.                                                            *)

\* What a step does to a JWK that the one before it has made is nothing to the others.
LEMMA KeepsFresh ==
    ASSUME NEW h, NEW f, NEW g, NEW j, Keeps(h, f, {}), Keeps(f, g, {j}), j \notin DOMAIN h.jwks
    PROVE  Keeps(h, g, {})
  <1>1. Extends(h, f, {}) /\ Extends(f, g, {j})
    BY DEF Keeps
  <1>2. Extends(h, g, {})
    BY <1>1 DEF Extends
  <1> QED
    BY <1>2 DEF Keeps

PublicCurve(v) == IF v.kty = "ecPrivate" THEN Curve(v.alg) ELSE NoCurve
PublicJwk(v, r) ==
    [v EXCEPT !.kty = IF v.kty = "rsaPrivate" THEN "rsaPublic" ELSE "ecPublic",
              !.pair = DerivedPoint(v), !.point = DerivedPoint(v),
              !.crv = PublicCurve(v), !.ops = r]
Inverses(ops) == {inverseOps(op) : op \in ops}

\* What the public JWK has of the private one.
LEMMA PublicJwkFacts ==
    ASSUME NEW v, NEW r, IsJwk(v)
    PROVE  LET w == PublicJwk(v, r)
           IN  /\ IsJwk(w) /\ w.pair = v.pair /\ w.alg = v.alg /\ w.ops = r
               /\ w.crv = PublicCurve(v)
               /\ v.kty = "rsaPrivate" => w.kty = "rsaPublic"
               /\ v.kty = "ecPrivate" => w.kty = "ecPublic"
  <1> DEFINE w == PublicJwk(v, r)
             kty == IF v.kty = "rsaPrivate" THEN "rsaPublic" ELSE "ecPublic"
             crv == PublicCurve(v)
  <1>1. w = [v EXCEPT !.kty = kty, !.pair = v.pair, !.point = v.pair, !.crv = crv, !.ops = r]
    BY DEF PublicJwk, DerivedPoint
  <1>2. /\ v.kty = "rsaPrivate" => kty = "rsaPublic"
        /\ v.kty = "ecPrivate" => kty = "ecPublic"
    OBVIOUS
  <1> HIDE DEF w, kty, crv
  <1>3. w = [kty |-> kty, pair |-> v.pair, point |-> v.pair, crv |-> crv, sound |-> v.sound,
             size |-> v.size, x5c |-> v.x5c, alg |-> v.alg, ops |-> r]
    BY <1>1 DEF IsJwk
  <1>4. IsJwk(w)
    BY <1>3 DEF IsJwk
  <1> QED
    BY <1>2, <1>3, <1>4 DEF w, crv

\* A private JWK's public half is a new JWK with a list of its own.
LEMMA PublicFromPrivateKeeps ==
    ASSUME NEW h, NEW j, HeapInv(h), j \in DOMAIN h.jwks
    PROVE  LET p == PublicFromPrivate(h, j)
               v == h.jwks[j]
               n == LastJwk(p)
               w == p.jwks[n]
           IN  /\ Keeps(h, p, {}) /\ p.keys = h.keys
               /\ v.kty = "rsaPrivate" \/ p # h =>
                    /\ n \in DOMAIN p.jwks /\ n \notin DOMAIN h.jwks
                    /\ w.pair = v.pair /\ w.alg = v.alg /\ w.crv = PublicCurve(v)
                    /\ v.kty = "rsaPrivate" => w.kty = "rsaPublic"
                    /\ v.kty = "ecPrivate" => w.kty = "ecPublic"
                    /\ w.ops \in DOMAIN p.lists /\ p.lists[w.ops] = Inverses(JwkOps(h, j))
  <1> DEFINE p == PublicFromPrivate(h, j)
             v == h.jwks[j]
             inv == Inverses(JwkOps(h, j))
             n == NewList(h, inv)
             f == n.heap
             m == n.ref
             w == PublicJwk(v, m)
             g == AddJwk(f, w)
  <1>1. IsJwk(v) /\ JwkOps(h, j) \subseteq KeyOps \union {"none"}
    BY DEF HeapInv, JwkOps
  <1>2. inv \subseteq KeyOps \union {"none"}
    BY DEF Inverses, inverseOps, KeyOps
  <1>3. p = IF v.kty = "ecPrivate" /\ v.alg \notin EcAlgs THEN h ELSE g
    BY DEF PublicFromPrivate, Inverses, PublicJwk, PublicCurve
  <1> HIDE DEF inv
  <1>4. /\ Keeps(h, f, {}) /\ f.jwks = h.jwks /\ f.keys = h.keys
        /\ m \in DOMAIN f.lists /\ f.lists[m] = inv
        /\ \A i \in DOMAIN f.keys : f.keys[i].ops # m
    BY <1>2, NewListKeeps
  <1> HIDE DEF n, f, m
  <1>5. /\ IsJwk(w) /\ w.pair = v.pair /\ w.alg = v.alg /\ w.ops = m /\ w.crv = PublicCurve(v)
        /\ v.kty = "rsaPrivate" => w.kty = "rsaPublic"
        /\ v.kty = "ecPrivate" => w.kty = "ecPublic"
    BY <1>1, PublicJwkFacts
  <1> HIDE DEF w
  <1>6. w.ops \in DOMAIN f.lists /\ \A i \in DOMAIN f.keys : f.keys[i].ops # w.ops
    BY <1>4, <1>5
  <1>7. HeapInv(f)
    BY <1>4 DEF Keeps
  <1>8. /\ Keeps(f, g, {}) /\ g.lists = f.lists /\ g.keys = f.keys
        /\ LastJwk(g) \in DOMAIN g.jwks /\ LastJwk(g) \notin DOMAIN f.jwks
        /\ g.jwks[LastJwk(g)] = w
    BY <1>5, <1>6, <1>7, AddJwkKeeps
  <1> HIDE DEF g
  <1>9. Keeps(h, g, {}) /\ Keeps(h, h, {})
    BY <1>4, <1>8, KeepsTwice, KeepsSelf
  <1>10. CASE p = h /\ v.kty # "rsaPrivate"
    <2> HIDE DEF p
    <2>1. Keeps(h, p, {}) /\ p.keys = h.keys
      BY <1>9, <1>10
    <2> QED
      BY <1>10, <2>1 DEF p
  <1>11. CASE p = g
    <2>1. /\ LastJwk(g) \in DOMAIN g.jwks /\ LastJwk(g) \notin DOMAIN h.jwks
          /\ g.keys = h.keys /\ g.lists[m] = inv /\ g.jwks[LastJwk(g)].ops = m
          /\ m \in DOMAIN g.lists
      BY <1>4, <1>5, <1>8
    <2> HIDE DEF p, v
    <2> QED
      BY <1>5, <1>8, <1>9, <1>11, <2>1 DEF p, inv, v
  <1> QED
    BY <1>3, <1>10, <1>11

\* The public key of a decryption key.
LEMMA PublicKeyKeeps ==
    ASSUME NEW h, NEW i \in DOMAIN h.keys, HeapInv(h), h.keys[i].kind = "rsaPrivate"
    PROVE  Keeps(h, publicKey(h, i), {})
  <1> DEFINE s == h.keys[i]
             v == h.jwks[s.jwk]
             p == PublicFromPrivate(h, s.jwk)
             n == LastJwk(p)
             w == p.jwks[n]
  <1>1. s.jwk \in DOMAIN h.jwks /\ v.kty = "rsaPrivate" /\ s.ops \in DOMAIN h.lists /\ s.pair = v.pair
    BY DEF HeapInv, KeyInv, KindInv
  <1>2. /\ Keeps(h, p, {}) /\ p.keys = h.keys
        /\ n \in DOMAIN p.jwks /\ n \notin DOMAIN h.jwks
        /\ w.pair = v.pair /\ w.alg = v.alg
        /\ w.ops \in DOMAIN p.lists /\ p.lists[w.ops] = Inverses(JwkOps(h, s.jwk))
    BY <1>1, PublicFromPrivateKeeps
  <1>3. publicKey(h, i) = AddKey(p, "rsaPublic", n, NoCurve, w.ops, w.alg, i)
    BY DEF publicKey
  <1> HIDE DEF p
  <1>4. HeapInv(p) /\ Extends(h, p, {})
    BY <1>2 DEF Keeps
  <1>5. KindInv(Core("rsaPublic", p.jwks[n], NoCurve, w.alg), p.jwks[n])
    BY DEF KindInv, Core
  <1>6. ASSUME PolicyInv(p), i # 0, Agrees(p, p.keys[i])
        PROVE  Fits(p.keys[i], p.lists[p.keys[i].ops],
                    Core("rsaPublic", p.jwks[n], NoCurve, w.alg), p.lists[w.ops])
    <2>1. Agrees(h, s)
      BY <1>2, <1>4, <1>6, AgreesKept
    <2>2. v.alg = s.alg /\ JwkOps(h, s.jwk) = h.lists[s.ops]
      BY <2>1 DEF Agrees
    <2>3. p.lists[s.ops] = h.lists[s.ops]
      BY <1>1, <1>4 DEF Extends
    <2>4. p.lists[w.ops] = {inverseOps(op) : op \in p.lists[s.ops]}
      BY <1>2, <2>2, <2>3 DEF Inverses
    <2> DEFINE c == Core("rsaPublic", p.jwks[n], NoCurve, w.alg)
    <2>5. c.kind = "rsaPublic" /\ c.pair = s.pair /\ c.alg = s.alg
      BY <1>1, <1>2, <2>2 DEF Core
    <2> HIDE DEF c
    <2>6. Fits(s, p.lists[s.ops], c, p.lists[w.ops])
      BY <2>4, <2>5 DEF Fits
    <2> QED
      BY <1>2, <2>6 DEF c
  <1>7. PolicyInv(p) /\ i # 0 /\ Agrees(p, p.keys[i]) =>
            Fits(p.keys[i], p.lists[p.keys[i].ops],
                 Core("rsaPublic", p.jwks[n], NoCurve, w.alg), p.lists[w.ops])
    BY <1>6
  <1>8. i \in 0 .. Len(p.keys) /\ "rsaPublic" \in Kinds
    BY <1>2, IsSeqFacts DEF HeapInv, Kinds
  <1> DEFINE r == w.ops
             alg == w.alg
             k == AddKey(p, "rsaPublic", n, NoCurve, r, alg, i)
  <1>9. r \in DOMAIN p.lists
    BY <1>2
  <1> HIDE DEF r, alg
  <1>10. Keeps(p, k, {})
    BY <1>2, <1>4, <1>5, <1>7, <1>8, <1>9, AddKeyKeeps DEF r, alg
  <1> QED
    BY <1>2, <1>3, <1>10, KeepsTwice DEF r, alg

\* The Verifier of a signing key.
LEMMA VerifierKeeps ==
    ASSUME NEW h, NEW i \in DOMAIN h.keys, HeapInv(h), h.keys[i].kind \in {"signer", "ecSigner"}
    PROVE  Keeps(h, Verifier(h, i), {})
  <1> DEFINE s == h.keys[i]
             v == h.jwks[s.jwk]
             p == PublicFromPrivate(h, s.jwk)
             n == LastJwk(p)
             w == p.jwks[n]
             g == NewVerificationKey(p, n, i)
  <1>1. /\ s.jwk \in DOMAIN h.jwks /\ s.pair = v.pair
        /\ s.kind = "signer" => v.kty = "rsaPrivate"
        /\ s.kind = "ecSigner" => v.kty = "ecPrivate"
    BY DEF HeapInv, KeyInv, KindInv
  <1>2. /\ Keeps(h, p, {}) /\ p.keys = h.keys
        /\ p # h =>
            /\ n \in DOMAIN p.jwks /\ n \notin DOMAIN h.jwks
            /\ w.pair = v.pair /\ w.alg = v.alg /\ w.crv = PublicCurve(v)
            /\ v.kty = "rsaPrivate" => w.kty = "rsaPublic"
            /\ v.kty = "ecPrivate" => w.kty = "ecPublic"
    BY <1>1, PublicFromPrivateKeeps
  <1>3. Verifier(h, i) = IF p = h THEN h ELSE OrNothing(h, g)
    BY DEF Verifier
  <1>4. Keeps(h, h, {})
    BY KeepsSelf
  <1>5. ASSUME p # h PROVE Keeps(h, g, {})
    <2> HIDE DEF p
    <2>1. HeapInv(p) /\ Extends(h, p, {})
      BY <1>2 DEF Keeps
    <2>2. ASSUME Agrees(p, p.keys[i]) PROVE Halves(s, w)
      <3>1. Agrees(h, s)
        BY <1>2, <2>1, <2>2, AgreesKept
      <3>2. v.alg = s.alg
        BY <3>1 DEF Agrees
      <3> QED
        BY <1>1, <1>2, <1>5, <3>2 DEF Halves, PublicCurve
    <2>3. i \in 0 .. Len(p.keys)
      BY <1>2, IsSeqFacts DEF HeapInv
    <2>4. i # 0 /\ Agrees(p, p.keys[i]) => Halves(p.keys[i], p.jwks[n])
      BY <1>2, <2>2
    <2>5. i # 0 => p.keys[i].jwk # n
      BY <1>1, <1>2, <1>5
    <2>6. Keeps(p, g, {n})
      BY <1>2, <1>5, <2>1, <2>3, <2>4, <2>5, NewVerificationKeyKeeps
    <2> HIDE DEF n, g
    <2> QED
      BY <1>2, <1>5, <2>6, KeepsFresh DEF n
  <1> HIDE DEF p, g
  <1> QED
    BY <1>3, <1>4, <1>5 DEF OrNothing

-----------------------------------------------------------------------------
(* JWKs of crypto keys, and generators.                                    *)

\* The JWK of a crypto key, with a list that is no key's.
LEMMA JwkOfKeeps ==
    ASSUME NEW h, NEW kty, NEW pair, NEW point, NEW crv, NEW alg, NEW bitLen, NEW r, NEW x5c,
           HeapInv(h),
           r \in DOMAIN h.lists, \A i \in DOMAIN h.keys : h.keys[i].ops # r
    PROVE  LET g == JwkOf(h, kty, pair, point, crv, alg, bitLen, r, x5c)
               n == LastJwk(g)
           IN  /\ Keeps(h, g, {}) /\ g.lists = h.lists /\ g.keys = h.keys
               /\ n \in DOMAIN g.jwks /\ n \notin DOMAIN h.jwks
               /\ g.jwks[n].kty = kty /\ g.jwks[n].ops = r
  <1> DEFINE sound == kty = "ecPrivate" \/ bitLen >= MinRsaModulusBits
             v == [kty |-> kty, pair |-> pair, point |-> point, crv |-> crv, sound |-> sound,
                   size |-> 0, x5c |-> x5c, alg |-> alg, ops |-> r]
             g == JwkOf(h, kty, pair, point, crv, alg, bitLen, r, x5c)
  <1>1. IsJwk(v) /\ v.ops = r /\ v.kty = kty
    BY Zenon DEF IsJwk
  <1>2. g = AddJwk(h, v)
    BY DEF JwkOf
  <1> HIDE DEF v, g
  <1>3. v.ops \in DOMAIN h.lists /\ \A i \in DOMAIN h.keys : h.keys[i].ops # v.ops
    BY <1>1
  <1> DEFINE a == AddJwk(h, v)
  <1>4. /\ Keeps(h, a, {}) /\ a.lists = h.lists /\ a.keys = h.keys
        /\ LastJwk(a) \in DOMAIN a.jwks /\ LastJwk(a) \notin DOMAIN h.jwks
        /\ a.jwks[LastJwk(a)] = v
    BY <1>1, <1>3, AddJwkKeeps
  <1> HIDE DEF a
  <1>5. g = a
    BY <1>2 DEF a
  <1> QED
    BY <1>1, <1>4, <1>5 DEF g

\* A symmetric key's JWK has a list of its own.
LEMMA JwkFromSymmetricKeeps ==
    ASSUME NEW h, NEW pair, NEW alg, HeapInv(h)
    PROVE  LET g == JwkFromSymmetric(h, pair, alg)
               n == LastJwk(g)
           IN  /\ Keeps(h, g, {}) /\ g.keys = h.keys
               /\ n \in DOMAIN g.jwks /\ n \notin DOMAIN h.jwks
  <1> DEFINE ops == {"encrypt", "decrypt", "sign", "verify"}
             l == NewList(h, ops)
             f == l.heap
             m == l.ref
             v == [kty |-> "oct", pair |-> pair, point |-> pair, crv |-> NoCurve,
                   sound |-> TRUE, size |-> symmetricAlgs[alg], x5c |-> NoAlg, alg |-> alg, ops |-> m]
             g == JwkFromSymmetric(h, pair, alg)
             a == AddJwk(f, v)
  <1>1. ops \subseteq KeyOps \union {"none"}
    BY DEF KeyOps
  <1>2. g = a
    BY DEF JwkFromSymmetric
  <1> HIDE DEF ops
  <1>3. /\ Keeps(h, f, {}) /\ f.jwks = h.jwks /\ f.keys = h.keys
        /\ m \in DOMAIN f.lists /\ \A i \in DOMAIN f.keys : f.keys[i].ops # m
    BY <1>1, NewListKeeps
  <1> HIDE DEF l, f, m
  <1>4. IsJwk(v) /\ v.ops = m
    BY Zenon DEF IsJwk
  <1> HIDE DEF v
  <1>5. v.ops \in DOMAIN f.lists /\ (\A i \in DOMAIN f.keys : f.keys[i].ops # v.ops) /\ HeapInv(f)
    BY <1>3, <1>4 DEF Keeps
  <1>6. /\ Keeps(f, a, {}) /\ a.keys = f.keys
        /\ LastJwk(a) \in DOMAIN a.jwks /\ LastJwk(a) \notin DOMAIN f.jwks
    BY <1>4, <1>5, AddJwkKeeps
  <1> HIDE DEF a, g
  <1>7. Keeps(h, a, {})
    BY <1>3, <1>6, KeepsTwice
  <1> QED
    BY <1>2, <1>3, <1>6, <1>7 DEF g

\* The last JWK gets another alg.
LEMMA RelabelledKeeps ==
    ASSUME NEW h, NEW alg, HeapInv(h), LastJwk(h) \in DOMAIN h.jwks
    PROVE  LET g == Relabelled(h, alg)
               n == LastJwk(h)
           IN  /\ Keeps(h, g, {n}) /\ g.lists = h.lists /\ g.keys = h.keys
               /\ LastJwk(g) = n /\ n \in DOMAIN g.jwks
               /\ g.jwks[n].kty = h.jwks[n].kty /\ g.jwks[n].alg = alg
  <1> DEFINE n == LastJwk(h)
             J == {n}
             v == h.jwks[n]
             w == WithAlg(v, alg)
             g == Relabelled(h, alg)
             e == ReplaceJwk(h, n, w)
  <1>1. g = e
    <2>1. g = LabelJwk(h, n, alg)
      BY DEF Relabelled, LabelJwk
    <2> QED
      BY <2>1, LabelIsReplace
  <1>2. IsJwk(v) /\ v.ops \in DOMAIN h.lists /\ \A i \in DOMAIN h.keys : h.keys[i].ops # v.ops
    BY DEF HeapInv, KeyInv
  <1>3. IsJwk(w) /\ w.kty = v.kty /\ w.pair = v.pair /\ w.ops = v.ops /\ w.alg = alg
    BY <1>2, JwkWithAlg
  <1>4. n \in J
    OBVIOUS
  <1>5. Len(h.jwks) = n
    BY DEF LastJwk
  <1> HIDE DEF w, J, n
  <1>6. w.ops \in DOMAIN h.lists /\ \A i \in DOMAIN h.keys : h.keys[i].ops # w.ops
    BY <1>2, <1>3
  <1>7. n \in DOMAIN h.jwks
    BY DEF n
  <1>8. /\ Keeps(h, e, J) /\ e.lists = h.lists /\ e.keys = h.keys
        /\ DOMAIN e.jwks = DOMAIN h.jwks /\ Len(e.jwks) = Len(h.jwks) /\ e.jwks[n] = w
    BY <1>3, <1>4, <1>6, <1>7, ReplaceJwkKeeps
  <1> HIDE DEF e, g
  <1>9. LastJwk(e) = n
    BY <1>5, <1>8 DEF LastJwk
  <1>10. Keeps(h, g, J) /\ g.lists = h.lists /\ g.keys = h.keys /\ LastJwk(g) = n
         /\ n \in DOMAIN g.jwks /\ g.jwks[n].kty = h.jwks[n].kty /\ g.jwks[n].alg = alg
    BY <1>1, <1>3, <1>7, <1>8, <1>9
  <1> QED
    BY <1>10 DEF g, J, n

\* The JWK of a crypto key with another alg than the one for its size.
LEMMA RelabelledJwkOfKeeps ==
    ASSUME NEW h, NEW kty, NEW pair, NEW crv, NEW first, NEW bitLen, NEW r, NEW x5c,
           NEW alg, HeapInv(h),
           r \in DOMAIN h.lists, \A i \in DOMAIN h.keys : h.keys[i].ops # r
    PROVE  LET g == Relabelled(JwkOf(h, kty, pair, pair, crv, first, bitLen, r, x5c), alg)
               n == LastJwk(g)
           IN  /\ Keeps(h, g, {}) /\ g.lists = h.lists /\ g.keys = h.keys
               /\ n \in DOMAIN g.jwks /\ n \notin DOMAIN h.jwks
               /\ g.jwks[n].kty = kty /\ g.jwks[n].alg = alg
  <1> DEFINE f == JwkOf(h, kty, pair, pair, crv, first, bitLen, r, x5c)
             g == Relabelled(f, alg)
             n == LastJwk(f)
  <1>1. /\ Keeps(h, f, {}) /\ f.lists = h.lists /\ f.keys = h.keys
        /\ n \in DOMAIN f.jwks /\ n \notin DOMAIN h.jwks /\ f.jwks[n].kty = kty
    BY JwkOfKeeps
  <1> HIDE DEF f
  <1>2. HeapInv(f)
    BY <1>1 DEF Keeps
  <1>3. /\ Keeps(f, g, {n}) /\ g.lists = f.lists /\ g.keys = f.keys /\ LastJwk(g) = n
        /\ n \in DOMAIN g.jwks /\ g.jwks[n].kty = f.jwks[n].kty /\ g.jwks[n].alg = alg
    BY <1>1, <1>2, RelabelledKeeps
  <1> HIDE DEF g, n
  <1>4. Keeps(h, g, {})
    BY <1>1, <1>3, KeepsFresh
  <1> QED
    BY <1>1, <1>3, <1>4 DEF g, f

\* A copy of the client's list, for a JWK.
LEMMA CloneOwnKeeps ==
    ASSUME NEW h, HeapInv(h)
    PROVE  LET c == cloneOps(h, Own)
           IN  /\ Keeps(h, c.heap, {}) /\ c.heap.jwks = h.jwks /\ c.heap.keys = h.keys
               /\ c.ref \in DOMAIN c.heap.lists
               /\ \A i \in DOMAIN c.heap.keys : c.heap.keys[i].ops # c.ref
  <1>1. h.lists[Own] \subseteq KeyOps \union {"none"}
    BY DEF HeapInv
  <1> QED
    BY <1>1, NewListKeeps DEF cloneOps

\* The JWK that a generator of asymmetric keys makes.
LEMMA GeneratedKeeps ==
    ASSUME NEW h, NEW kty, NEW pair, NEW crv, NEW bitLen, NEW alg, HeapInv(h)
    PROVE  LET c == cloneOps(h, Own)
               g == Relabelled(JwkFromPrivateKey(c.heap, kty, pair, crv, bitLen, c.ref, NoAlg), alg)
               n == LastJwk(g)
           IN  /\ Keeps(h, g, {}) /\ HeapInv(g) /\ n \in DOMAIN g.jwks /\ n \notin DOMAIN h.jwks
               /\ g.jwks[n].kty = kty /\ g.jwks[n].alg = alg
  <1> DEFINE c == cloneOps(h, Own)
             f == c.heap
             m == c.ref
             first == IF kty = "rsaPrivate" THEN rsaAlgFromOps(bitLen, f.lists[m])
                      ELSE ecBitsToAlg(crv)
             g == Relabelled(JwkFromPrivateKey(f, kty, pair, crv, bitLen, m, NoAlg), alg)
             e == Relabelled(JwkOf(f, kty, pair, pair, crv, first, bitLen, m, NoAlg), alg)
             n == LastJwk(e)
  <1>1. /\ Keeps(h, f, {}) /\ f.jwks = h.jwks
        /\ m \in DOMAIN f.lists /\ \A i \in DOMAIN f.keys : f.keys[i].ops # m
    BY CloneOwnKeeps
  <1>2. g = e
    BY DEF JwkFromPrivateKey
  <1>3. HeapInv(f)
    BY <1>1 DEF Keeps
  <1> HIDE DEF c, f, m, first
  <1>4. /\ Keeps(f, e, {}) /\ n \in DOMAIN e.jwks /\ n \notin DOMAIN f.jwks
        /\ e.jwks[n].kty = kty /\ e.jwks[n].alg = alg
    BY <1>1, <1>3, RelabelledJwkOfKeeps
  <1> HIDE DEF e, g
  <1>5. Keeps(h, e, {}) /\ HeapInv(e)
    BY <1>1, <1>4, KeepsTwice DEF Keeps
  <1> QED
    BY <1>1, <1>2, <1>4, <1>5 DEF g, f, m, c

\* The generators.
LEMMA GeneratorsKeep ==
    ASSUME NEW h, NEW alg, HeapInv(h)
    PROVE  /\ Keeps(h, GenerateRsaSigning(h, alg), {})
           /\ Keeps(h, GenerateRsaDecryption(h, alg), {})
           /\ Keeps(h, GenerateEcdsa(h, alg), {})
           /\ Keeps(h, GenerateAead(h, alg), {})
  <1>1. Keeps(h, h, {})
    BY KeepsSelf
  <1> DEFINE rsa == generateRsaKey(h, alg)
             r == LastJwk(rsa)
  <1>2. /\ Keeps(h, rsa, {}) /\ HeapInv(rsa) /\ r \in DOMAIN rsa.jwks
        /\ rsa.jwks[r].kty = "rsaPrivate" /\ rsa.jwks[r].alg = alg
    BY GeneratedKeeps DEF generateRsaKey
  <1>3. Keeps(h, GenerateRsaSigning(h, alg), {})
    <2> DEFINE g == NewSigningKey(rsa, r, h.lists[Own])
    <2>1. GenerateRsaSigning(h, alg) = IF alg \in RsaAlgs THEN OrNothing(h, g) ELSE h
      BY DEF GenerateRsaSigning
    <2> HIDE DEF rsa
    <2>2. Keeps(rsa, g, {})
      BY <1>2, ConstructorsKeep
    <2>3. Keeps(h, g, {})
      BY <1>2, <2>2, KeepsTwice
    <2> HIDE DEF g
    <2> QED
      BY <1>1, <2>1, <2>3 DEF OrNothing
  <1>4. Keeps(h, GenerateRsaDecryption(h, alg), {})
    <2> DEFINE g == AddKey(rsa, "rsaPrivate", r, NoCurve, Own, alg, 0)
    <2>1. GenerateRsaDecryption(h, alg) = IF alg \in OaepAlgs THEN g ELSE h
      BY DEF GenerateRsaDecryption
    <2> HIDE DEF rsa
    <2>2. ASSUME alg \in OaepAlgs PROVE Keeps(h, g, {})
      <3>1. KindInv(Core("rsaPrivate", rsa.jwks[r], NoCurve, alg), rsa.jwks[r])
        BY <1>2, <2>2 DEF KindInv, KeyAlgs, Core
      <3>2. Own \in DOMAIN rsa.lists /\ "rsaPrivate" \in Kinds
        BY <1>2 DEF HeapInv, Kinds
      <3>3. Keeps(rsa, g, {})
        BY <1>2, <3>1, <3>2, AddFirstKeyKeeps
      <3> HIDE DEF g
      <3> QED
        BY <1>2, <3>3, KeepsTwice
    <2> HIDE DEF g
    <2> QED
      BY <1>1, <2>1, <2>2
  <1>5. Keeps(h, GenerateEcdsa(h, alg), {})
    <2> DEFINE c == cloneOps(h, Own)
               f == Relabelled(JwkFromPrivateKey(c.heap, "ecPrivate", FreshPair(h), Curve(alg),
                                                 0, c.ref, NoAlg), alg)
               g == NewSigningKey(f, LastJwk(f), h.lists[Own])
    <2>1. GenerateEcdsa(h, alg) = IF alg \in EcAlgs THEN OrNothing(h, g) ELSE h
      BY DEF GenerateEcdsa
    <2>2. Keeps(h, f, {}) /\ HeapInv(f) /\ LastJwk(f) \in DOMAIN f.jwks
      BY GeneratedKeeps
    <2> HIDE DEF f
    <2>3. Keeps(f, g, {})
      BY <2>2, ConstructorsKeep
    <2> HIDE DEF g
    <2>4. Keeps(h, g, {})
      BY <2>2, <2>3, KeepsTwice
    <2> QED
      BY <1>1, <2>1, <2>4 DEF OrNothing
  <1>6. Keeps(h, GenerateAead(h, alg), {})
    <2> DEFINE c == cloneOps(h, Own)
               b == c.heap
               m == c.ref
               s == JwkFromSymmetric(b, FreshPair(h), alg)
               n == LastJwk(s)
               J == {n}
               w == WithOps(s.jwks[n], m)
               f == ReplaceJwk(s, n, w)
               g == NewAesGcmCryptorFromJwk(f, LastJwk(f), h.lists[Own])
    <2>1. /\ Keeps(h, b, {}) /\ b.jwks = h.jwks /\ b.keys = h.keys /\ m \in DOMAIN b.lists
          /\ \A i \in DOMAIN b.keys : b.keys[i].ops # m
      BY CloneOwnKeeps
    <2>2. HeapInv(b)
      BY <2>1 DEF Keeps
    <2>3. Keeps(b, s, {}) /\ s.keys = b.keys /\ n \in DOMAIN s.jwks /\ n \notin DOMAIN b.jwks
      BY <2>2, JwkFromSymmetricKeeps
    <2>4. HeapInv(s) /\ Extends(b, s, {})
      BY <2>3 DEF Keeps
    <2>5. f = ListJwk(s, n, m)
      BY <2>3, <2>4, ListIsReplace
    <2>6. GenerateAead(h, alg) = IF alg \in DOMAIN symmetricAlgs THEN OrNothing(h, g) ELSE h
      BY <2>5 DEF GenerateAead, ListJwk
    <2>7. Keeps(h, s, {})
      BY <2>1, <2>3, KeepsTwice
    <2>8. n \in J
      OBVIOUS
    <2> HIDE DEF c, b, m, s, J
    <2>9. IsJwk(w) /\ w.kty = s.jwks[n].kty /\ w.pair = s.jwks[n].pair /\ w.ops = m
      <3>1. IsJwk(s.jwks[n])
        BY <2>3, <2>4 DEF HeapInv
      <3> QED
        BY <3>1, JwkWithOps
    <2> HIDE DEF w
    <2>10. w.ops \in DOMAIN s.lists /\ \A i \in DOMAIN s.keys : s.keys[i].ops # w.ops
      BY <2>1, <2>3, <2>4, <2>9 DEF Extends
    <2>11. /\ Keeps(s, f, J) /\ DOMAIN f.jwks = DOMAIN s.jwks /\ Len(f.jwks) = Len(s.jwks)
      BY <2>3, <2>4, <2>8, <2>9, <2>10, ReplaceJwkKeeps
    <2>12. Keeps(h, f, {}) /\ HeapInv(f)
      <3>1. Keeps(s, f, {n})
        BY <2>11 DEF J
      <3> HIDE DEF f, n
      <3> QED
        BY <2>1, <2>3, <2>7, <3>1, KeepsFresh DEF Keeps
    <2>13. LastJwk(f) \in DOMAIN f.jwks
      BY <2>3, <2>11 DEF LastJwk
    <2> HIDE DEF f
    <2>14. Keeps(f, g, {})
      BY <2>12, <2>13, ConstructorsKeep
    <2> HIDE DEF g
    <2>15. Keeps(h, g, {})
      BY <2>12, <2>14, KeepsTwice
    <2> QED
      BY <1>1, <2>6, <2>15 DEF OrNothing
  <1> QED
    BY <1>3, <1>4, <1>5, <1>6

-----------------------------------------------------------------------------
(* The steps.                                                              *)

\* What MakingNarrows says of a step.
NoWidening ==
    Len(keys') > Len(keys) => \A j \in DOMAIN jwks :
        LET before == lists[jwks[j].ops]
        IN  /\ before # {} => lists'[jwks'[j].ops] \subseteq before
            /\ jwks[j].alg # NoAlg => jwks'[j].alg = jwks[j].alg

\* The heap of the variables.
LEMMA HeapFacts ==
    Heap.lists = lists /\ Heap.jwks = jwks /\ Heap.keys = keys
  BY DEF Heap

\* The heap that a step leaves.
LEMMA BecomeHeap ==
    ASSUME NEW h, HeapInv(h), Become(h)
    PROVE  /\ Heap' = h /\ intact' = intact /\ changes' = changes
           /\ lists' = h.lists /\ jwks' = h.jwks /\ keys' = h.keys
  <1>1. lists' = h.lists /\ jwks' = h.jwks /\ keys' = h.keys /\ intact' = intact /\ changes' = changes
    BY DEF Become, clientVars
  <1>2. h = [lists |-> h.lists, jwks |-> h.jwks, keys |-> h.keys]
    BY DEF HeapInv
  <1>3. Heap' = [lists |-> lists', jwks |-> jwks', keys |-> keys']
    BY DEF Heap
  <1> QED
    BY <1>1, <1>2, <1>3

\* A step to a heap with nothing changed but what is new.
LEMMA BecomeKeeps ==
    ASSUME KeyPolicyInv, NEW h, Keeps(Heap, h, {}), Become(h), UNCHANGED held \/ Hold(h)
    PROVE  KeyPolicyInv' /\ NoWidening
  <1>1. HeapInv(h) /\ Extends(Heap, h, {}) /\ (PolicyInv(Heap) => PolicyInv(h))
    BY DEF Keeps
  <1>2. /\ Heap' = h /\ intact' = intact /\ changes' = changes
        /\ lists' = h.lists /\ jwks' = h.jwks /\ keys' = h.keys
    BY <1>1, BecomeHeap
  <1>3. /\ \A r \in DOMAIN lists : lists'[r] = lists[r]
        /\ \A j \in DOMAIN jwks : j \in DOMAIN jwks' /\ jwks'[j] = jwks[j]
    BY <1>1, <1>2, HeapFacts DEF Extends
  <1>4. \A j \in DOMAIN jwks : jwks[j].ops \in DOMAIN lists
    BY HeapFacts DEF KeyPolicyInv, HeapInv
  <1>5. held' \subseteq DOMAIN jwks'
    BY <1>2, <1>3 DEF KeyPolicyInv, Hold
  <1>6. KeyPolicyInv'
    BY <1>1, <1>2, <1>5 DEF KeyPolicyInv
  <1>7. NoWidening
    BY <1>3, <1>4 DEF NoWidening
  <1> QED
    BY <1>6, <1>7

\* Client and constructor with the same JWK: it alone may change, and narrows.
LEMMA BecomeNarrows ==
    ASSUME KeyPolicyInv, NEW h, NEW j \in DOMAIN jwks, Keeps(Heap, h, {j}), Narrows(Heap, h, j),
           Become(h), UNCHANGED held
    PROVE  KeyPolicyInv' /\ NoWidening
  <1>1. HeapInv(h) /\ Extends(Heap, h, {j}) /\ (PolicyInv(Heap) => PolicyInv(h))
    BY DEF Keeps
  <1>2. /\ Heap' = h /\ intact' = intact /\ changes' = changes
        /\ lists' = h.lists /\ jwks' = h.jwks /\ keys' = h.keys
    BY <1>1, BecomeHeap
  <1>3. /\ \A r \in DOMAIN lists : lists'[r] = lists[r]
        /\ \A i \in DOMAIN jwks : i # j => i \in DOMAIN jwks' /\ jwks'[i] = jwks[i]
    BY <1>1, <1>2, HeapFacts DEF Extends
  <1>4. \A i \in DOMAIN jwks : jwks[i].ops \in DOMAIN lists
    BY HeapFacts DEF KeyPolicyInv, HeapInv
  <1>5. /\ j \in DOMAIN jwks'
        /\ lists[jwks[j].ops] # {} => lists'[jwks'[j].ops] \subseteq lists[jwks[j].ops]
        /\ jwks[j].alg # NoAlg => jwks'[j].alg = jwks[j].alg
    BY <1>2, HeapFacts DEF Narrows, JwkOps
  <1>6. held' \subseteq DOMAIN jwks'
    BY <1>3, <1>5 DEF KeyPolicyInv
  <1>7. KeyPolicyInv'
    BY <1>1, <1>2, <1>6 DEF KeyPolicyInv
  <1>8. NoWidening
    BY <1>3, <1>4, <1>5 DEF NoWidening
  <1> QED
    BY <1>7, <1>8

\* A client loads a JWK.
LEMMA LoadJwkStep ==
    ASSUME KeyPolicyInv, NEW jwk \in InputJwks, NEW required, LoadJwk(jwk, required)
    PROVE  KeyPolicyInv' /\ NoWidening
  <1> DEFINE ops == jwk.ops
             n == NewList(Heap, ops)
             f == n.heap
             m == n.ref
             w == WithOps(jwk, m)
             h == AddJwk(f, w)
  <1>1. HeapInv(Heap)
    BY DEF KeyPolicyInv
  <1>2. IsJwk(jwk) /\ ops \subseteq KeyOps \union {"none"}
    BY PolicyAssumption DEF IsJwk
  <1>3. Become(h) /\ Hold(h)
    BY DEF LoadJwk, WithOps
  <1> HIDE DEF ops
  <1>4. /\ Keeps(Heap, f, {}) /\ f.jwks = Heap.jwks /\ f.keys = Heap.keys
        /\ m \in DOMAIN f.lists /\ \A i \in DOMAIN f.keys : f.keys[i].ops # m
    BY <1>1, <1>2, NewListKeeps
  <1> HIDE DEF n, f, m
  <1>5. IsJwk(w) /\ w.ops = m
    BY <1>2, JwkWithOps
  <1> HIDE DEF w
  <1>6. w.ops \in DOMAIN f.lists /\ (\A i \in DOMAIN f.keys : f.keys[i].ops # w.ops) /\ HeapInv(f)
    BY <1>4, <1>5 DEF Keeps
  <1>7. Keeps(f, h, {})
    BY <1>5, <1>6, AddJwkKeeps
  <1> HIDE DEF h
  <1>8. Keeps(Heap, h, {})
    BY <1>4, <1>7, KeepsTwice
  <1> QED
    BY <1>3, <1>8, BecomeKeeps

\* The client's list is no key's, and neither is a JWK's.
LEMMA ListsOfOthers ==
    ASSUME KeyPolicyInv
    PROVE  /\ Own \in DOMAIN lists /\ \A i \in DOMAIN keys : keys[i].ops # Own
           /\ \A j \in DOMAIN jwks : /\ jwks[j].ops \in DOMAIN lists
                                     /\ \A i \in DOMAIN keys : keys[i].ops # jwks[j].ops
  BY HeapFacts DEF KeyPolicyInv, HeapInv, KeyInv

\* A client imports a key of the crypto packages.
LEMMA ImportKeyStep ==
    ASSUME KeyPolicyInv, NEW kty \in {"rsaPrivate", "ecPrivate", "oct"}, NEW bitLen, NEW alg,
           ImportKey(kty, bitLen, alg)
    PROVE  KeyPolicyInv' /\ NoWidening
  <1> DEFINE pair == FreshPair(Heap)
  <1>1. HeapInv(Heap) /\ Own \in DOMAIN Heap.lists /\ \A i \in DOMAIN Heap.keys : Heap.keys[i].ops # Own
    BY HeapFacts, ListsOfOthers DEF KeyPolicyInv
  <1>2. CASE kty = "rsaPrivate"
    <2> DEFINE a == rsaAlgFromOps(bitLen, Heap.lists[Own])
               h == JwkOf(Heap, kty, pair, pair, NoCurve, a, bitLen, Own, NoAlg)
    <2>1. Become(h) /\ Hold(h)
      BY <1>2 DEF ImportKey, JwkFromPrivateKey
    <2> HIDE DEF a, pair
    <2>2. Keeps(Heap, h, {})
      BY <1>1, JwkOfKeeps
    <2> HIDE DEF h
    <2> QED
      BY <2>1, <2>2, BecomeKeeps
  <1>3. CASE kty = "ecPrivate"
    <2> DEFINE a == ecBitsToAlg(Curve(alg))
               c == Curve(alg)
               z == 0
               h == JwkOf(Heap, kty, pair, pair, c, a, z, Own, NoAlg)
    <2>1. Become(h) /\ Hold(h)
      BY <1>3 DEF ImportKey, JwkFromPrivateKey
    <2> HIDE DEF a, pair, c, z
    <2>2. Keeps(Heap, h, {})
      BY <1>1, JwkOfKeeps
    <2> HIDE DEF h
    <2> QED
      BY <2>1, <2>2, BecomeKeeps
  <1>4. CASE kty = "oct"
    <2> DEFINE h == JwkFromSymmetric(Heap, pair, alg)
    <2>1. Become(h) /\ Hold(h)
      BY <1>4 DEF ImportKey
    <2> HIDE DEF pair
    <2>2. Keeps(Heap, h, {})
      BY <1>1, JwkFromSymmetricKeeps
    <2> HIDE DEF h
    <2> QED
      BY <2>1, <2>2, BecomeKeeps
  <1> QED
    BY <1>2, <1>3, <1>4

\* What a client changes in its JWK is no key's.
LEMMA ReplaceStep ==
    ASSUME KeyPolicyInv, NEW j \in held, NEW w, IsJwk(w), w.kty = jwks[j].kty,
           w.pair = jwks[j].pair, w.ops \in DOMAIN lists,
           \A i \in DOMAIN keys : keys[i].ops # w.ops,
           Change, jwks' = Replace(jwks, j, w), UNCHANGED <<lists, keys, held, intact>>
    PROVE  KeyPolicyInv' /\ NoWidening
  <1> DEFINE h == Heap
             J == {j}
             g == ReplaceJwk(h, j, w)
  <1>1. HeapInv(h) /\ j \in DOMAIN h.jwks /\ w.ops \in DOMAIN h.lists
    BY HeapFacts DEF KeyPolicyInv
  <1>2. /\ w.kty = h.jwks[j].kty /\ w.pair = h.jwks[j].pair
        /\ \A i \in DOMAIN h.keys : h.keys[i].ops # w.ops
    BY HeapFacts
  <1>3. j \in J
    OBVIOUS
  <1>4. Heap' = g
    <2>1. Heap' = [lists |-> lists, jwks |-> Replace(jwks, j, w), keys |-> keys]
      BY DEF Heap
    <2>2. g = [lists |-> lists, jwks |-> Replace(jwks, j, w), keys |-> keys]
      BY DEF ReplaceJwk, Heap
    <2> QED
      BY <2>1, <2>2
  <1> HIDE DEF h, J
  <1>5. Keeps(h, g, J) /\ DOMAIN g.jwks = DOMAIN h.jwks
    BY <1>1, <1>2, <1>3, ReplaceJwkKeeps
  <1> HIDE DEF g
  <1>6. HeapInv(g) /\ (PolicyInv(h) => PolicyInv(g))
    BY <1>5 DEF Keeps
  <1>7. Heap'.jwks = jwks' /\ Heap.jwks = jwks
    BY DEF Heap
  <1>8. held' \subseteq DOMAIN jwks'
    BY <1>4, <1>5, <1>7 DEF KeyPolicyInv, h
  <1>9. changes' \in 0 .. MaxChanges
    BY PolicyAssumption DEF KeyPolicyInv, Change
  <1>10. Len(keys) \in Nat /\ Len(keys') = Len(keys)
    BY <1>1, HeapFacts, IsSeqFacts DEF HeapInv, h
  <1>11. NoWidening
    BY <1>10 DEF NoWidening
  <1> QED
    BY <1>4, <1>6, <1>8, <1>9, <1>11 DEF KeyPolicyInv, h

\* A client sets the alg of a JWK.
LEMMA SetAlgStep ==
    ASSUME KeyPolicyInv, NEW j \in held, NEW alg, SetAlg(j, alg)
    PROVE  KeyPolicyInv' /\ NoWidening
  <1> DEFINE v == jwks[j]
             w == WithAlg(v, alg)
  <1>1. j \in DOMAIN jwks
    BY DEF KeyPolicyInv
  <1>2. IsJwk(v)
    BY <1>1, HeapFacts DEF KeyPolicyInv, HeapInv
  <1>3. IsJwk(w) /\ w.kty = v.kty /\ w.pair = v.pair /\ w.ops = v.ops
    BY <1>2, JwkWithAlg
  <1>4. jwks' = Replace(jwks, j, w) /\ Change /\ UNCHANGED <<lists, keys, held, intact>>
    BY DEF SetAlg, Replace, WithAlg
  <1> HIDE DEF w
  <1>5. w.ops \in DOMAIN lists /\ \A i \in DOMAIN keys : keys[i].ops # w.ops
    BY <1>1, <1>3, ListsOfOthers
  <1> QED
    BY <1>3, <1>4, <1>5, ReplaceStep

\* A client gives its own list to a JWK.
LEMMA SetOpsStep ==
    ASSUME KeyPolicyInv, NEW j \in held, SetOps(j)
    PROVE  KeyPolicyInv' /\ NoWidening
  <1> DEFINE v == jwks[j]
             w == WithOps(v, Own)
  <1>1. j \in DOMAIN jwks
    BY DEF KeyPolicyInv
  <1>2. IsJwk(v)
    BY <1>1, HeapFacts DEF KeyPolicyInv, HeapInv
  <1>3. IsJwk(w) /\ w.kty = v.kty /\ w.pair = v.pair /\ w.ops = Own
    BY <1>2, JwkWithOps
  <1>4. jwks' = Replace(jwks, j, w) /\ Change /\ UNCHANGED <<lists, keys, held, intact>>
    BY DEF SetOps, Replace, WithOps
  <1> HIDE DEF w
  <1>5. w.ops \in DOMAIN lists /\ \A i \in DOMAIN keys : keys[i].ops # w.ops
    BY <1>3, ListsOfOthers
  <1> QED
    BY <1>3, <1>4, <1>5, ReplaceStep

\* A client writes to a list it can reach: none of them is a key's.
LEMMA WriteOpsStep ==
    ASSUME KeyPolicyInv, NEW r \in DOMAIN lists, NEW old \in InputOps, NEW new \in InputOps,
           WriteOps(r, old, new)
    PROVE  KeyPolicyInv' /\ NoWidening
  <1> DEFINE h == Heap
             ops == (lists[r] \ {old}) \union {new}
             t == Replace(lists, r, ops)
             g == [lists |-> t, jwks |-> jwks, keys |-> keys]
  <1>1. HeapInv(h) /\ h.lists = lists /\ h.jwks = jwks /\ h.keys = keys
    BY HeapFacts DEF KeyPolicyInv
  <1>2. /\ lists' = t /\ Change /\ intact' = (intact /\ r # Shared)
        /\ jwks' = jwks /\ keys' = keys /\ held' = held
    BY DEF WriteOps, Replace
  <1>3. \A i \in DOMAIN keys : keys[i].ops # r
    BY ListsOfOthers DEF WriteOps, KeyPolicyInv
  <1>4. ops \subseteq KeyOps \union {"none"}
    BY <1>1, PolicyAssumption DEF HeapInv
  <1>5. /\ IsSeq(t) /\ DOMAIN t = DOMAIN lists /\ t[r] = ops
        /\ \A n \in DOMAIN lists : n # r => t[n] = lists[n]
    <2> HIDE DEF ops
    <2> QED
      BY <1>1, ReplaceFacts DEF HeapInv
  <1>6. Heap' = g
    BY <1>2 DEF Heap
  <1>7. g.lists = t /\ g.jwks = jwks /\ g.keys = keys /\ g = [lists |-> g.lists, jwks |-> g.jwks,
                                                             keys |-> g.keys]
    OBVIOUS
  <1> HIDE DEF h, ops, t, g
  <1>8. ASSUME NEW i \in DOMAIN keys PROVE KeyInv(g, i)
    <2>1. KeyInv(h, i)
      BY <1>1, <1>8 DEF HeapInv
    <2> QED
      BY <1>1, <1>5, <1>7, <2>1 DEF KeyInv
  <1>9. HeapInv(g)
    <2>1. \A n \in DOMAIN g.lists : g.lists[n] \subseteq KeyOps \union {"none"}
      BY <1>1, <1>4, <1>5, <1>7 DEF HeapInv
    <2> QED
      BY <1>1, <1>5, <1>7, <1>8, <2>1 DEF HeapInv
  <1>10. ASSUME PolicyInv(h), r # Shared PROVE PolicyInv(g)
    <2>1. g.lists[Shared] = h.lists[Shared] /\ g.lists[Shared] = {"verify"}
      BY <1>1, <1>5, <1>7, <1>10 DEF PolicyInv, HeapInv
    <2>2. ASSUME NEW i \in DOMAIN keys PROVE g.lists[keys[i].ops] = h.lists[keys[i].ops]
      <3>1. KeyInv(h, i)
        BY <1>1, <2>2 DEF HeapInv
      <3> QED
        BY <1>1, <1>3, <1>5, <1>7, <3>1 DEF KeyInv
    <2>3. ASSUME NEW i \in DOMAIN g.keys
          PROVE  LET k == g.keys[i]
                     s == g.keys[k.from]
                 IN  /\ Behaviour(g, k) = k.built
                     /\ k.agrees => Fits(s, g.lists[s.ops], k, g.lists[k.ops])
      <3> DEFINE k == keys[i]
                 s == keys[k.from]
      <3>1. i \in DOMAIN keys /\ KeyInv(h, i)
        BY <1>1, <1>7, <2>3 DEF HeapInv
      <3>2. Behaviour(h, k) = k.built /\ (k.agrees => Fits(s, h.lists[s.ops], k, h.lists[k.ops]))
        BY <1>1, <1>10, <3>1 DEF PolicyInv
      <3>3. Behaviour(g, k) = Behaviour(h, k)
        <4>1. g.lists[k.ops] = h.lists[k.ops]
          BY <2>2, <3>1
        <4>2. k.kind = k.kind /\ k.alg = k.alg /\ g.lists[Shared] = h.lists[Shared]
          BY <2>1
        <4> HIDE DEF k
        <4> QED
          BY <4>1, <4>2, BehaviourKept
      <3>4. k.agrees => k.from \in DOMAIN keys
        BY <1>1, <3>1, IsSeqFacts DEF HeapInv, KeyInv
      <3> QED
        BY <1>7, <2>2, <3>1, <3>2, <3>3, <3>4
    <2> QED
      BY <2>1, <2>3 DEF PolicyInv
  <1>11. intact' \in BOOLEAN /\ (intact' => PolicyInv(g))
    BY <1>2, <1>10 DEF KeyPolicyInv, h
  <1>12. changes' \in 0 .. MaxChanges /\ held' \subseteq DOMAIN jwks'
    BY <1>2, PolicyAssumption DEF KeyPolicyInv, Change
  <1>13. NoWidening
    <2>1. Len(keys) \in Nat /\ Len(keys') = Len(keys)
      BY <1>1, <1>2, IsSeqFacts DEF HeapInv
    <2> QED
      BY <2>1 DEF NoWidening
  <1> QED
    BY <1>6, <1>9, <1>11, <1>12, <1>13 DEF KeyPolicyInv

\* A key is constructed.
LEMMA ConstructStep ==
    ASSUME KeyPolicyInv, NEW j \in held, NEW required, Construct(j, required)
    PROVE  KeyPolicyInv' /\ NoWidening
  <1>1. HeapInv(Heap) /\ j \in DOMAIN Heap.jwks /\ j \in DOMAIN jwks
    BY HeapFacts DEF KeyPolicyInv
  <1>2. UNCHANGED held
    BY DEF Construct
  <1>3. CASE Become(NewVerificationKey(Heap, j, 0))
    <2> DEFINE from == 0
               g == NewVerificationKey(Heap, j, from)
    <2>1. from \in 0 .. Len(Heap.keys) /\ ~(from # 0)
      BY <1>1, IsSeqFacts DEF HeapInv
    <2>2. Become(g)
      BY <1>3
    <2> HIDE DEF from
    <2>3. Keeps(Heap, g, {j}) /\ Narrows(Heap, g, j)
      BY <1>1, <2>1, NewVerificationKeyKeeps
    <2> HIDE DEF g
    <2> QED
      BY <1>1, <1>2, <2>2, <2>3, BecomeNarrows
  <1>4. /\ Keeps(Heap, NewSigningKey(Heap, j, required), {})
        /\ Keeps(Heap, NewRsaDecryptionKey(Heap, j), {})
        /\ Keeps(Heap, NewRsaPublicKeyImpl(Heap, j), {})
        /\ Keeps(Heap, NewAesGcmCryptorFromJwk(Heap, j, required), {})
    BY <1>1, ConstructorsKeep
  <1> QED
    BY <1>2, <1>3, <1>4, BecomeKeeps DEF Construct

\* A key is generated.
LEMMA GenerateStep ==
    ASSUME KeyPolicyInv, NEW alg, Generate(alg)
    PROVE  KeyPolicyInv' /\ NoWidening
  <1>1. HeapInv(Heap)
    BY DEF KeyPolicyInv
  <1>2. /\ Keeps(Heap, GenerateRsaSigning(Heap, alg), {})
        /\ Keeps(Heap, GenerateRsaDecryption(Heap, alg), {})
        /\ Keeps(Heap, GenerateEcdsa(Heap, alg), {})
        /\ Keeps(Heap, GenerateAead(Heap, alg), {})
    BY <1>1, GeneratorsKeep
  <1> QED
    BY <1>2, BecomeKeeps DEF Generate

\* A public key is derived.
LEMMA DeriveStep ==
    ASSUME KeyPolicyInv, NEW i \in DOMAIN keys, Derive(i)
    PROVE  KeyPolicyInv' /\ NoWidening
  <1>1. HeapInv(Heap) /\ i \in DOMAIN Heap.keys /\ Heap.keys[i] = keys[i]
    BY HeapFacts DEF KeyPolicyInv
  <1>2. keys[i].kind \in {"signer", "ecSigner"} => Keeps(Heap, Verifier(Heap, i), {})
    BY <1>1, VerifierKeeps
  <1>3. keys[i].kind = "rsaPrivate" => Keeps(Heap, publicKey(Heap, i), {})
    BY <1>1, PublicKeyKeeps
  <1> QED
    BY <1>2, <1>3, BecomeKeeps DEF Derive

\* An EC signing key's JWK is built around the list of the one it was made from.
LEMMA EcSignerJwkStep ==
    ASSUME KeyPolicyInv, NEW i \in DOMAIN keys, EcSignerJwk(i)
    PROVE  KeyPolicyInv' /\ NoWidening
  <1> DEFINE k == keys[i]
             r == jwks[k.jwk].ops
             x5c == jwks[k.jwk].x5c
             pair == k.pair
             point == jwks[k.jwk].point
             crv == k.crv
             alg == ecBitsToAlg(Curve(k.alg))
             z == 0
             h == JwkOf(Heap, "ecPrivate", pair, point, crv, alg, z, r, x5c)
  <1>1. HeapInv(Heap) /\ k.jwk \in DOMAIN jwks
    BY HeapFacts DEF KeyPolicyInv, HeapInv, KeyInv
  <1>2. r \in DOMAIN Heap.lists /\ \A n \in DOMAIN Heap.keys : Heap.keys[n].ops # r
    BY <1>1, HeapFacts, ListsOfOthers
  <1>3. Become(h) /\ Hold(h)
    BY DEF EcSignerJwk
  <1> HIDE DEF r, x5c, pair, point, crv, alg, z
  <1>4. Keeps(Heap, h, {})
    BY <1>1, <1>2, JwkOfKeeps
  <1> HIDE DEF h
  <1> QED
    BY <1>3, <1>4, BecomeKeeps

\* An RSA public key's JWK has a copy of the key's list.
LEMMA RsaPublicJwkStep ==
    ASSUME KeyPolicyInv, NEW i \in DOMAIN keys, RsaPublicJwk(i)
    PROVE  KeyPolicyInv' /\ NoWidening
  <1> DEFINE k == keys[i]
             r == k.ops
             x5c == jwks[k.jwk].x5c
             pair == k.pair
             alg == k.alg
             c == cloneOps(Heap, r)
             f == c.heap
             m == c.ref
             first == rsaAlgFromOps(MinRsaModulusBits, f.lists[m])
             bits == MinRsaModulusBits
             h == Relabelled(JwkOf(f, "rsaPublic", pair, pair, NoCurve, first, bits, m, x5c), alg)
  <1>1. HeapInv(Heap) /\ r \in DOMAIN Heap.lists
    BY HeapFacts DEF KeyPolicyInv, HeapInv, KeyInv
  <1>2. Become(h) /\ Hold(h)
    BY DEF RsaPublicJwk, JwkFromPublicKey
  <1> HIDE DEF r, x5c, pair, alg
  <1>3. Heap.lists[r] \subseteq KeyOps \union {"none"}
    BY <1>1 DEF HeapInv
  <1>4. /\ Keeps(Heap, f, {}) /\ f.keys = Heap.keys /\ m \in DOMAIN f.lists
        /\ \A n \in DOMAIN f.keys : f.keys[n].ops # m
    BY <1>1, <1>3, NewListKeeps DEF cloneOps
  <1>5. HeapInv(f)
    BY <1>4 DEF Keeps
  <1> HIDE DEF c, f, m, first, bits
  <1>6. Keeps(f, h, {})
    BY <1>4, <1>5, RelabelledJwkOfKeeps
  <1> HIDE DEF h
  <1>7. Keeps(Heap, h, {})
    BY <1>4, <1>6, KeepsTwice
  <1> QED
    BY <1>2, <1>7, BecomeKeeps

\* A key hands out its JWK, or nothing happens.
LEMMA JwkStep ==
    ASSUME KeyPolicyInv, UNCHANGED vars \/ \E i \in DOMAIN keys : Jwk(i)
    PROVE  KeyPolicyInv' /\ NoWidening
  <1>1. UNCHANGED <<lists, jwks, keys, changes, intact>>
    BY DEF Jwk, vars, clientVars
  <1>2. Heap' = Heap
    BY <1>1 DEF Heap
  <1>3. \A i \in DOMAIN keys : keys[i].jwk \in DOMAIN jwks
    BY HeapFacts DEF KeyPolicyInv, HeapInv, KeyInv
  <1>4. held' \subseteq DOMAIN jwks'
    BY <1>1, <1>3 DEF KeyPolicyInv, Jwk, vars
  <1>5. Len(keys) \in Nat
    BY HeapFacts, IsSeqFacts DEF KeyPolicyInv, HeapInv
  <1>6. NoWidening
    BY <1>1, <1>5 DEF NoWidening
  <1> QED
    BY <1>1, <1>2, <1>4, <1>6 DEF KeyPolicyInv

-----------------------------------------------------------------------------
(* The theorems.                                                           *)

\* Every step keeps the invariant and widens no JWK.
LEMMA KeyPolicySteps ==
    ASSUME KeyPolicyInv, [Next]_vars
    PROVE  KeyPolicyInv' /\ NoWidening
  <1>1. ASSUME NEW jwk \in InputJwks, NEW required \in RequiredOps, LoadJwk(jwk, required)
        PROVE  KeyPolicyInv' /\ NoWidening
    BY <1>1, LoadJwkStep
  <1>2. ASSUME NEW kty \in {"rsaPrivate", "ecPrivate", "oct"}, NEW bitLen \in InputBits,
               NEW alg \in InputAlgs, ImportKey(kty, bitLen, alg)
        PROVE  KeyPolicyInv' /\ NoWidening
    BY <1>2, ImportKeyStep
  <1>3. ASSUME NEW j \in held, SetOps(j) PROVE KeyPolicyInv' /\ NoWidening
    BY <1>3, SetOpsStep
  <1>4. ASSUME NEW j \in held, NEW alg \in InputAlgs, SetAlg(j, alg)
        PROVE  KeyPolicyInv' /\ NoWidening
    BY <1>4, SetAlgStep
  <1>5. ASSUME NEW r \in DOMAIN lists, NEW old \in InputOps, NEW new \in InputOps,
               WriteOps(r, old, new)
        PROVE  KeyPolicyInv' /\ NoWidening
    BY <1>5, WriteOpsStep
  <1>6. ASSUME NEW j \in held, NEW required \in RequiredOps, Construct(j, required)
        PROVE  KeyPolicyInv' /\ NoWidening
    BY <1>6, ConstructStep
  <1>7. ASSUME NEW alg \in InputAlgs, Generate(alg) PROVE KeyPolicyInv' /\ NoWidening
    BY <1>7, GenerateStep
  <1>8. ASSUME NEW i \in DOMAIN keys, Derive(i) PROVE KeyPolicyInv' /\ NoWidening
    BY <1>8, DeriveStep
  <1>9. ASSUME NEW i \in DOMAIN keys, EcSignerJwk(i) PROVE KeyPolicyInv' /\ NoWidening
    BY <1>9, EcSignerJwkStep
  <1>10. ASSUME NEW i \in DOMAIN keys, RsaPublicJwk(i) PROVE KeyPolicyInv' /\ NoWidening
    BY <1>10, RsaPublicJwkStep
  <1>11. ASSUME UNCHANGED vars \/ \E i \in DOMAIN keys : Jwk(i) PROVE KeyPolicyInv' /\ NoWidening
    BY <1>11, JwkStep
  <1> QED
    BY <1>1, <1>2, <1>3, <1>4, <1>5, <1>6, <1>7, <1>8, <1>9, <1>10, <1>11 DEF Next

\* The initial states have the invariant.
LEMMA KeyPolicyInit ==
    ASSUME Init
    PROVE  KeyPolicyInv
  <1>1. PICK ops \in RequiredOps : lists = <<{"verify"}, ops>>
    BY DEF Init
  <1>2. jwks = <<>> /\ keys = <<>> /\ held = {} /\ changes = 0 /\ intact = TRUE
    BY DEF Init
  <1>3. DOMAIN lists = {1, 2} /\ lists[1] = {"verify"} /\ lists[2] = ops /\ IsSeq(lists)
    <2>1. lists \in Seq({{"verify"}, ops})
      BY <1>1
    <2>2. DOMAIN lists = {1, 2} /\ lists[1] = {"verify"} /\ lists[2] = ops
      BY <1>1
    <2>3. {lists[i] : i \in DOMAIN lists} = {{"verify"}, ops}
      BY <2>2
    <2> QED
      BY <2>1, <2>2, <2>3 DEF IsSeq
  <1>4. IsSeq(jwks) /\ IsSeq(keys) /\ DOMAIN jwks = {} /\ DOMAIN keys = {}
    BY <1>2 DEF IsSeq
  <1>5. HeapInv(Heap)
    <2>1. Heap = [lists |-> Heap.lists, jwks |-> Heap.jwks, keys |-> Heap.keys]
      BY DEF Heap
    <2>2. \A r \in DOMAIN lists : lists[r] \subseteq KeyOps \union {"none"}
      BY <1>3, PolicyAssumption DEF KeyOps
    <2> QED
      BY <1>3, <1>4, <2>1, <2>2, HeapFacts DEF HeapInv, Shared, Own
  <1>6. PolicyInv(Heap)
    BY <1>3, <1>4, HeapFacts DEF PolicyInv, Shared
  <1>7. changes \in 0 .. MaxChanges
    BY <1>2, PolicyAssumption
  <1> QED
    BY <1>2, <1>5, <1>6, <1>7 DEF KeyPolicyInv

(***************************************************************************)
(* The inductive invariant: no key's list is anybody else's, keys have     *)
(* what their kind says, and while the package's list is intact they do    *)
(* what they did when they were new and derived keys are the other halves  *)
(* of those they were derived from (cloneOps, AddKey, PublicFromPrivate).  *)
(***************************************************************************)
THEOREM KeyPolicyInvariant == Spec => []KeyPolicyInv
  <1>1. Init => KeyPolicyInv
    BY KeyPolicyInit
  <1>2. KeyPolicyInv /\ [Next]_vars => KeyPolicyInv'
    BY KeyPolicySteps
  <1> QED
    BY <1>1, <1>2, PTL DEF Spec

\* References are to objects, and keys have algs of their kind.
LEMMA InvTypeOK ==
    ASSUME KeyPolicyInv
    PROVE  TypeOK
  <1>1. HeapInv(Heap) /\ held \subseteq DOMAIN jwks /\ changes \in 0 .. MaxChanges
        /\ intact \in BOOLEAN
    BY DEF KeyPolicyInv
  <1>2. /\ \A r \in DOMAIN lists : lists[r] \subseteq KeyOps \union {"none"}
        /\ {Shared, Own} \subseteq DOMAIN lists
        /\ \A j \in DOMAIN jwks : jwks[j].ops \in DOMAIN lists
    BY <1>1, HeapFacts DEF HeapInv
  <1>3. ASSUME NEW i \in DOMAIN keys
        PROVE  LET k == keys[i]
               IN  /\ k.kind \in Kinds /\ k.jwk \in DOMAIN jwks /\ k.ops \in DOMAIN lists
                   /\ k.kind # "rsaPublic" => k.alg \in KeyAlgs(k.kind)
                   /\ k.from \in 0 .. i - 1
    <2>1. KeyInv(Heap, i)
      BY <1>1, <1>3, HeapFacts DEF HeapInv
    <2> QED
      BY <2>1, HeapFacts DEF KeyInv, KindInv
  <1> QED
    BY <1>1, <1>2, <1>3 DEF TypeOK

\* TypeOK: every reference is to an object, and every key has an alg of its kind.
THEOREM TypeOKTheorem == Spec => []TypeOK
  BY KeyPolicyInvariant, InvTypeOK, PTL

(***************************************************************************)
(* PolicyIsFixed: what a key's methods let through, and its alg, stay as   *)
(* they were when it was made, as long as the package's list is intact.    *)
(***************************************************************************)
THEOREM PolicyIsFixedTheorem == Spec => []PolicyIsFixed
  <1>1. KeyPolicyInv => PolicyIsFixed
    <2> SUFFICES ASSUME KeyPolicyInv, intact, NEW i \in DOMAIN keys
                 PROVE  Behaviour(Heap, keys[i]) = keys[i].built
      BY DEF PolicyIsFixed
    <2> QED
      BY HeapFacts DEF KeyPolicyInv, PolicyInv
  <1> QED
    BY <1>1, KeyPolicyInvariant, PTL

(***************************************************************************)
(* MakingNarrows: making a key gives no JWK an operation that it did not   *)
(* list if it listed any, nor another alg than it had (NewVerificationKey  *)
(* included).                                                              *)
(***************************************************************************)
THEOREM MakingNarrowsTheorem == Spec => MakingNarrows
  <1>1. KeyPolicyInv /\ [Next]_vars =>
            [Len(keys') > Len(keys) => \A j \in DOMAIN jwks :
                LET before == lists[jwks[j].ops]
                IN  /\ before # {} => lists'[jwks'[j].ops] \subseteq before
                    /\ jwks[j].alg # NoAlg => jwks'[j].alg = jwks[j].alg]_vars
    BY KeyPolicySteps DEF NoWidening
  <1> QED
    BY <1>1, KeyPolicyInvariant, PTL DEF Spec, MakingNarrows

\* What the methods of keys let through.
LEMMA AdmittedFacts ==
    ASSUME NEW h, NEW k
    PROVE  /\ k.kind \in {"signer", "ecSigner", "rsaPrivate"} =>
                (<<"Sign", "sign">> \in Admitted(h, k) <=> "sign" \in h.lists[k.ops])
           /\ k.kind \in {"signer", "ecSigner"} => <<"Decrypt", "decrypt">> \notin Admitted(h, k)
           /\ k.kind = "rsaPrivate" =>
                (<<"Decrypt", "decrypt">> \in Admitted(h, k) <=> "decrypt" \in h.lists[k.ops])
           /\ k.kind \in {"rsaPublic", "ecPublic"} =>
                (<<"Verify", "verify">> \in Admitted(h, k) <=>
                    "verify" \in h.lists[Shared] /\ "verify" \in h.lists[k.ops])
           /\ k.kind = "rsaPublic" =>
                (<<"Encrypt", "encrypt">> \in Admitted(h, k) <=> "encrypt" \in h.lists[k.ops])
  <1>1. CASE k.kind \in {"signer", "ecSigner"}
    <2>1. Admitted(h, k) = {<<"Sign", op>> : op \in {"sign"} \intersect h.lists[k.ops]}
      BY <1>1 DEF Admitted
    <2> QED
      BY <1>1, <2>1
  <1>2. CASE k.kind = "rsaPrivate"
    <2>1. Admitted(h, k) = {<<"Sign", op>> : op \in {"sign"} \intersect h.lists[k.ops]}
                    \union {<<"Decrypt", op>> : op \in {"decrypt"} \intersect h.lists[k.ops]}
      BY <1>2 DEF Admitted
    <2> QED
      BY <1>2, <2>1
  <1>3. CASE k.kind = "ecPublic"
    <2>1. Admitted(h, k) = {<<"Verify", op>> : op \in h.lists[Shared] \intersect h.lists[k.ops]}
      BY <1>3 DEF Admitted
    <2> QED
      BY <1>3, <2>1
  <1>4. CASE k.kind = "rsaPublic"
    <2>1. Admitted(h, k) = {<<"Verify", op>> : op \in h.lists[Shared] \intersect h.lists[k.ops]}
                    \union {<<"Encrypt", op>> : op \in {"encrypt"} \intersect h.lists[k.ops]}
      BY <1>4 DEF Admitted
    <2> QED
      BY <1>4, <2>1
  <1> QED
    BY <1>1, <1>2, <1>3, <1>4

\* A signature is one of the key that made it.
LEMMA SignatureFacts ==
    ASSUME NEW k, NEW scheme
    PROVE  LET sig == Signature(k, scheme)
           IN  /\ sig.out = "signature" /\ sig.pair = k.pair /\ sig.crv = k.crv
               /\ sig.scheme = scheme /\ sig # Panic
  <1> DEFINE sig == Signature(k, scheme)
  <1>1. sig.out = "signature" /\ sig.pair = k.pair /\ sig.crv = k.crv /\ sig.scheme = scheme
    BY DEF Signature
  <1>2. Panic.out = "panic"
    BY DEF Panic
  <1> HIDE DEF sig
  <1>3. sig # Panic
    BY <1>1, <1>2
  <1> QED
    BY <1>1, <1>3 DEF sig

\* A refusal is neither a signature nor a panic.
LEMMA RefusedFacts ==
    Refused.out # "signature" /\ Refused # Panic
  <1>1. Refused.out = "error" /\ Panic.out = "panic"
    BY DEF Refused, Panic
  <1> QED
    BY <1>1

\* What a private key signs with.
LEMMA SignFacts ==
    ASSUME NEW h, NEW k, k.kind \in {"signer", "ecSigner", "rsaPrivate"},
           k.kind = "ecSigner" => k.alg \in EcAlgs
    PROVE  LET sig == Sign(h, k, "sign")
           IN  /\ sig # Panic
               /\ sig.out = "signature" =>
                    /\ "sign" \in h.lists[k.ops] /\ k.alg \in SigningAlgs
                    /\ sig.pair = k.pair /\ sig.crv = k.crv
                    /\ k.kind # "ecSigner" => sig.scheme = RsaScheme(k.alg)
                    /\ k.kind = "ecSigner" => /\ sig.scheme = <<"ECDSA", Digest(k.alg)>>
                                              /\ Curve(k.alg) = k.crv
  <1> DEFINE sig == Sign(h, k, "sign")
  <1>1. <<"Sign", "sign">> \in Admitted(h, k) <=> "sign" \in h.lists[k.ops]
    BY AdmittedFacts
  <1>2. Algorithm(h, k) = k.alg
    BY DEF Algorithm
  <1>3. CASE k.kind \in {"signer", "rsaPrivate"}
    <2> DEFINE made == Signature(k, RsaScheme(k.alg))
    <2>1. sig = IF <<"Sign", "sign">> \notin Admitted(h, k) \/ k.alg \notin SigningAlgs
                THEN Refused ELSE made
      BY <1>2, <1>3 DEF Sign, RsaSign, RsaPrivateSign
    <2>2. /\ made.out = "signature" /\ made.pair = k.pair /\ made.crv = k.crv
          /\ made.scheme = RsaScheme(k.alg) /\ made # Panic
      BY SignatureFacts
    <2> HIDE DEF sig, made
    <2> QED
      BY <1>1, <1>3, <2>1, <2>2, RefusedFacts DEF sig
  <1>4. CASE k.kind = "ecSigner"
    <2> DEFINE scheme == <<"ECDSA", Digest(k.alg)>>
               made == Signature(k, scheme)
    <2>1. sig = IF <<"Sign", "sign">> \notin Admitted(h, k) \/ k.alg \notin SigningAlgs THEN Refused
                ELSE IF k.alg \notin EcAlgs THEN Panic
                ELSE IF Curve(k.alg) # k.crv THEN Refused
                ELSE made
      BY <1>2, <1>4 DEF Sign, EcdsaSign
    <2> HIDE DEF scheme
    <2>2. /\ made.out = "signature" /\ made.pair = k.pair /\ made.crv = k.crv
          /\ made.scheme = scheme /\ made # Panic
      BY SignatureFacts
    <2> HIDE DEF sig, made
    <2> QED
      BY <1>1, <1>4, <2>1, <2>2, RefusedFacts DEF sig, scheme
  <1> QED
    BY <1>3, <1>4

(***************************************************************************)
(* NeverPanics: no alg that a JWK has had makes a key panic; the keys that *)
(* would have an alg of their kind (Sign, Verify, signerOptsForAlg).       *)
(***************************************************************************)
THEOREM NeverPanicsTheorem == Spec => []NeverPanics
  <1>1. KeyPolicyInv => NeverPanics
    <2> SUFFICES ASSUME KeyPolicyInv, NEW i \in DOMAIN keys
                 PROVE  LET k == keys[i] IN
                        /\ k.kind \in {"signer", "ecSigner", "rsaPrivate"} =>
                                Sign(Heap, k, "sign") # Panic
                        /\ k.kind \in {"rsaPublic", "ecPublic"} =>
                                Verify(Heap, k, "verify", Signature(k, <<"PKCS1", "SHA256">>))
                                    # "panic"
      BY DEF NeverPanics
    <2> DEFINE k == keys[i]
               sig == Signature(k, <<"PKCS1", "SHA256">>)
    <2>1. k.kind \in {"ecSigner", "ecPublic"} => k.alg \in EcAlgs
      BY HeapFacts DEF KeyPolicyInv, HeapInv, KeyInv, KindInv, KeyAlgs
    <2>2. k.kind \in {"signer", "ecSigner", "rsaPrivate"} => Sign(Heap, k, "sign") # Panic
      <3> HIDE DEF k
      <3> QED
        BY <2>1, SignFacts
    <2>3. ASSUME k.kind \in {"rsaPublic", "ecPublic"} PROVE Verify(Heap, k, "verify", sig) # "panic"
      <3> HIDE DEF k, sig
      <3>2. CASE k.kind = "rsaPublic"
        BY <3>2 DEF Verify, RsaVerify, Verdict
      <3>3. CASE k.kind = "ecPublic"
        BY <2>1, <3>3 DEF Verify, EcdsaVerify, Algorithm, Verdict
      <3> QED
        BY <2>3, <3>2, <3>3
    <2> QED
      BY <2>2, <2>3
  <1> QED
    BY <1>1, KeyPolicyInvariant, PTL

\* Keys that fit: one verifies what the other signs, and encrypts what it decrypts.
LEMMA FittingKeysAgree ==
    ASSUME NEW h, NEW s, NEW v, h.lists[Shared] = {"verify"},
           Fits(s, h.lists[s.ops], v, h.lists[v.ops]),
           s.kind = "ecSigner" => s.alg \in EcAlgs,
           s.kind \in {"signer", "rsaPrivate"} => s.crv = NoCurve,
           v.kind = "rsaPublic" => v.crv = NoCurve
    PROVE  LET sig == Sign(h, s, "sign")
           IN  /\ sig.out = "signature" => Verify(h, v, "verify", sig) = "valid"
               /\ Decrypt(h, s, "decrypt") => Encrypt(h, v, "encrypt")
  <1> DEFINE sig == Sign(h, s, "sign")
             sops == h.lists[s.ops]
             vops == h.lists[v.ops]
  <1>1. /\ v.alg = s.alg /\ v.pair = s.pair
        /\ s.kind \in {"signer", "rsaPrivate"} => v.kind = "rsaPublic" /\ v.crv = s.crv
        /\ s.kind = "ecSigner" => v.kind = "ecPublic" /\ v.crv = Curve(s.alg)
        /\ s.kind \in {"signer", "ecSigner"} => vops = {"verify"}
        /\ s.kind = "rsaPrivate" => vops = {inverseOps(op) : op \in sops}
        /\ s.kind \in {"signer", "ecSigner", "rsaPrivate"}
    BY DEF Fits
  <1>2. /\ "sign" \in sops => "verify" \in vops
        /\ s.kind = "rsaPrivate" /\ "decrypt" \in sops => "encrypt" \in vops
    BY <1>1 DEF inverseOps
  <1>3. ASSUME sig.out = "signature" PROVE Verify(h, v, "verify", sig) = "valid"
    <2>1. /\ "sign" \in sops /\ s.alg \in SigningAlgs /\ sig.pair = s.pair /\ sig.crv = s.crv
          /\ s.kind # "ecSigner" => sig.scheme = RsaScheme(s.alg)
          /\ s.kind = "ecSigner" => /\ sig.scheme = <<"ECDSA", Digest(s.alg)>>
                                    /\ Curve(s.alg) = s.crv
      BY <1>1, <1>3, SignFacts
    <2> HIDE DEF sig
    <2>2. <<"Verify", "verify">> \in Admitted(h, v)
      BY <1>1, <1>2, <2>1, AdmittedFacts
    <2>3. CASE s.kind = "ecSigner"
      <3>1. Made(v, sig, <<"ECDSA", Digest(s.alg)>>) /\ Curve(v.alg) = v.crv /\ v.alg \in EcAlgs
        BY <1>1, <2>1, <2>3 DEF Made
      <3> QED
        BY <1>1, <2>2, <2>3, <3>1 DEF Verify, EcdsaVerify, Algorithm, Verdict
    <2>4. CASE s.kind # "ecSigner"
      <3>1. Made(v, sig, RsaScheme(v.alg)) /\ v.alg \in SigningAlgs /\ v.kind = "rsaPublic"
        BY <1>1, <2>1, <2>4 DEF Made
      <3> QED
        BY <2>2, <3>1 DEF Verify, RsaVerify, Algorithm, Verdict
    <2> QED
      BY <2>3, <2>4
  <1>4. Decrypt(h, s, "decrypt") => Encrypt(h, v, "encrypt")
    BY <1>1, <1>2, AdmittedFacts DEF Decrypt, Encrypt
  <1> QED
    BY <1>3, <1>4

(***************************************************************************)
(* HalvesAgree: a public key that was derived while its private half's JWK *)
(* said what that key had captured verifies what it signs, and encrypts if *)
(* it decrypts, for as long as the package's list is intact (Verifier,     *)
(* Encryptor, PublicFromPrivate).                                          *)
(***************************************************************************)
THEOREM HalvesAgreeTheorem == Spec => []HalvesAgree
  <1>1. KeyPolicyInv => HalvesAgree
    <2> SUFFICES ASSUME KeyPolicyInv, intact, NEW i \in DOMAIN keys, keys[i].agrees
                 PROVE  LET v == keys[i]
                            s == keys[v.from]
                            sig == Sign(Heap, s, "sign")
                        IN  /\ sig.out = "signature" /\ (s.kind = "ecSigner" \/ s.alg \in RsaAlgs) =>
                                    Verify(Heap, v, "verify", sig) = "valid"
                            /\ Decrypt(Heap, s, "decrypt") => Encrypt(Heap, v, "encrypt")
      BY DEF HalvesAgree
    <2> DEFINE v == keys[i]
               s == keys[v.from]
    <2>1. HeapInv(Heap) /\ PolicyInv(Heap)
      BY DEF KeyPolicyInv
    <2>2. KeyInv(Heap, i)
      BY <2>1, HeapFacts DEF HeapInv
    <2>3. v.from \in DOMAIN keys
      BY <2>1, <2>2, HeapFacts, IsSeqFacts DEF HeapInv, KeyInv
    <2>4. KeyInv(Heap, v.from)
      BY <2>1, <2>3, HeapFacts DEF HeapInv
    <2>5. Fits(s, Heap.lists[s.ops], v, Heap.lists[v.ops]) /\ Heap.lists[Shared] = {"verify"}
      BY <2>1, HeapFacts DEF PolicyInv
    <2>6. /\ s.kind = "ecSigner" => s.alg \in EcAlgs
          /\ s.kind \in {"signer", "rsaPrivate"} => s.crv = NoCurve
          /\ v.kind = "rsaPublic" => v.crv = NoCurve
      BY <2>2, <2>4, HeapFacts DEF KeyInv, KindInv, KeyAlgs
    <2> HIDE DEF v, s
    <2>7. LET sig == Sign(Heap, s, "sign")
          IN  /\ sig.out = "signature" => Verify(Heap, v, "verify", sig) = "valid"
              /\ Decrypt(Heap, s, "decrypt") => Encrypt(Heap, v, "encrypt")
      BY <2>5, <2>6, FittingKeysAgree
    <2> QED
      BY <2>7 DEF v, s
  <1> QED
    BY <1>1, KeyPolicyInvariant, PTL

=============================================================================
