-------------------------- MODULE MessagingHub_proofs --------------------------
(***************************************************************************)
(* Proofs about the outgoing messages of the hub: no queued message is     *)
(* forgotten, one life of the hub sends a message at most once, and the    *)
(* store implements the Outbox.                                            *)
(***************************************************************************)
EXTENDS MessagingHub, WellFoundedInduction, TLAPS

-----------------------------------------------------------------------------
(* Sequences *)

(* A set of naturals that is not empty has a least member. *)
LEMMA LeastOf ==
    ASSUME NEW S \in SUBSET Nat, S # {}
    PROVE  \E m \in S : \A k \in S : m <= k
<1> DEFINE R == {ss \in Nat \X Nat : ss[1] < ss[2]}
<1>1. IsWellFoundedOn(R, Nat)
  BY NatLessThanWellFounded DEF OpToRel
<1>2. PICK m \in S : \A k \in S : ~ (<<k, m>> \in R)
  <2> HIDE DEF R
  <2>1. QED
    BY <1>1, WFMin
<1>3. ASSUME NEW k \in S PROVE m <= k
  <2>1. ~ (k < m)
    <3>1. SUFFICES ASSUME k < m PROVE <<k, m>> \in R
      BY <1>2
    <3>2. QED
      BY <3>1
  <2>2. QED
    BY <2>1
<1>4. QED
  BY <1>3

(* An element added to a sequence *)
LEMMA AppendFacts ==
    ASSUME NEW T, NEW q \in Seq(T), NEW e \in T
    PROVE  /\ Append(q, e) \in Seq(T)
           /\ Range(Append(q, e)) = Range(q) \cup {e}
           /\ IsInjective(q) /\ e \notin Range(q) => IsInjective(Append(q, e))
           /\ Append(q, e) # <<>>
<1> DEFINE a == Append(q, e)
<1>1. /\ a \in Seq(T) /\ Len(q) \in Nat /\ Len(a) = Len(q) + 1
      /\ DOMAIN a = 1..(Len(q) + 1) /\ DOMAIN q = 1..Len(q)
      /\ a[Len(q) + 1] = e
      /\ a # <<>>
  OBVIOUS
<1>2. \A i \in 1..Len(q) : a[i] = q[i]
  OBVIOUS
<1> HIDE DEF a
<1>3. Range(a) = Range(q) \cup {e}
  <2>1. ASSUME NEW x \in Range(a) PROVE x \in Range(q) \cup {e}
    <3>1. PICK i \in 1..(Len(q) + 1) : x = a[i]
      BY <1>1 DEF Range
    <3>2. CASE i = Len(q) + 1
      BY <1>1, <3>1, <3>2
    <3>3. CASE i # Len(q) + 1
      <4>1. i \in 1..Len(q)
        BY <1>1, <3>1, <3>3
      <4>2. QED
        BY <1>1, <1>2, <3>1, <4>1 DEF Range
    <3>4. QED
      BY <3>2, <3>3
  <2>2. ASSUME NEW x \in Range(q) PROVE x \in Range(a)
    <3>1. PICK i \in 1..Len(q) : x = q[i]
      BY <1>1 DEF Range
    <3>2. i \in 1..(Len(q) + 1) /\ a[i] = x
      BY <1>1, <1>2, <3>1
    <3>3. QED
      BY <1>1, <3>2 DEF Range
  <2>3. e \in Range(a)
    <3>1. Len(q) + 1 \in 1..(Len(q) + 1)
      BY <1>1
    <3>2. QED
      BY <1>1, <3>1 DEF Range
  <2>4. QED
    BY <2>1, <2>2, <2>3
<1>4. ASSUME IsInjective(q), e \notin Range(q) PROVE IsInjective(a)
  <2>1. \A i \in 1..Len(q) : a[i] \in Range(q)
    BY <1>1, <1>2 DEF Range
  <2>2. \A i, j \in 1..Len(q) : q[i] = q[j] => i = j
    BY <1>1, <1>4 DEF IsInjective
  <2>3. \A i \in 1..(Len(q) + 1) : i \in 1..Len(q) \/ i = Len(q) + 1
    BY <1>1
  <2>4. \A i, j \in 1..(Len(q) + 1) : a[i] = a[j] => i = j
    BY <1>1, <1>2, <1>4, <2>1, <2>2, <2>3
  <2>5. QED
    BY <1>1, <2>4 DEF IsInjective
<1>5. QED
  BY <1>1, <1>3, <1>4 DEF a

(* What Kept returns is built along the sequence, one element after the other. *)
Builds(s, S, n, g) ==
    /\ g = [i \in 0..n |-> g[i]]
    /\ \A i \in 0..n : g[i] = IF i = 0 THEN <<>>
                              ELSE IF s[i] \in S THEN Append(g[i - 1], s[i]) ELSE g[i - 1]

LEMMA KeptIsBuilt ==
    ASSUME NEW T, NEW s \in Seq(T), NEW S
    PROVE  \E g : Builds(s, S, Len(s), g) /\ Kept(s, S) = g[Len(s)]
<1> DEFINE Done == {n \in 0..Len(s) : \E g : Builds(s, S, n, g)}
<1>1. Len(s) \in Nat
  OBVIOUS
<1>2. 0 \in Done
  <2> DEFINE g == [i \in 0..0 |-> <<>>]
  <2>1. Builds(s, S, 0, g)
    BY DEF Builds
  <2>2. QED
    BY <1>1, <2>1
<1>3. ASSUME NEW n \in Done, n < Len(s) PROVE n + 1 \in Done
  <2>1. PICK g : Builds(s, S, n, g)
    OBVIOUS
  <2> DEFINE next == IF s[n + 1] \in S THEN Append(g[n], s[n + 1]) ELSE g[n]
  <2> DEFINE h == [i \in 0..(n + 1) |-> IF i <= n THEN g[i] ELSE next]
  <2>2. n \in Nat /\ n + 1 \in 0..Len(s)
    BY <1>1, <1>3
  <2>3. \A i \in 0..n : h[i] = g[i]
    BY <2>2
  <2>4. h[n + 1] = next
    BY <2>2
  <2>5. \A i \in 0..(n + 1) : i # n + 1 => i \in 0..n
    BY <2>2
  <2>6. ASSUME NEW i \in 0..(n + 1)
        PROVE  h[i] = IF i = 0 THEN <<>> ELSE IF s[i] \in S THEN Append(h[i - 1], s[i]) ELSE h[i - 1]
    <3>1. CASE i = n + 1
      <4>1. h[i - 1] = g[n] /\ i # 0
        BY <2>2, <2>3, <3>1
      <4> HIDE DEF h
      <4>2. QED
        BY <2>4, <3>1, <4>1
    <3>2. CASE i # n + 1
      <4>1. i \in 0..n /\ (i # 0 => i - 1 \in 0..n)
        BY <2>2, <2>5, <3>2
      <4>2. h[i] = g[i] /\ (i # 0 => h[i - 1] = g[i - 1])
        BY <2>3, <4>1
      <4> HIDE DEF h
      <4>3. QED
        BY <2>1, <4>1, <4>2 DEF Builds
    <3>3. QED
      BY <3>1, <3>2
  <2>7. h = [i \in 0..(n + 1) |-> h[i]]
    OBVIOUS
  <2>8. Builds(s, S, n + 1, h)
    <3> HIDE DEF h
    <3>1. QED
      BY <2>6, <2>7 DEF Builds
  <2>9. QED
    BY <2>2, <2>8
<1>4. Len(s) \in Done
  <2>1. SUFFICES ASSUME Len(s) \notin Done PROVE FALSE
    OBVIOUS
  <2> DEFINE Left == {n \in 0..Len(s) : n \notin Done}
  <2>2. Left \in SUBSET Nat /\ Left # {}
    BY <1>1, <2>1
  <2> HIDE DEF Done
  <2>3. PICK m \in Left : \A k \in Left : m <= k
    BY <2>2, LeastOf
  <2>4. m # 0 /\ m \in 0..Len(s) /\ m - 1 \in 0..Len(s) /\ m - 1 < m /\ m \notin Done
    BY <1>1, <1>2, <2>3
  <2>5. m - 1 \in Done
    BY <2>3, <2>4
  <2>8. m - 1 < Len(s) /\ (m - 1) + 1 = m
    BY <1>1, <2>4
  <2>6. (m - 1) + 1 \in Done
    BY <1>3, <2>5, <2>8
  <2>7. QED
    BY <2>4, <2>6
<1>5. PICK g : Builds(s, S, Len(s), g)
  BY <1>4
<1> DEFINE Body(keep) == [n \in 0..Len(s) |-> IF n = 0 THEN <<>>
                             ELSE IF s[n] \in S THEN Append(keep[n - 1], s[n]) ELSE keep[n - 1]]
<1>6. g = Body(g)
  BY <1>5 DEF Builds
<1> DEFINE K == CHOOSE keep : keep = Body(keep)
<1>7. K = Body(K)
  BY <1>6
<1>8. Kept(s, S) = K[Len(s)]
  BY DEF Kept
<1> HIDE DEF K
<1>9. Builds(s, S, Len(s), K)
  <2>1. \A i \in 0..Len(s) : Body(K)[i] = IF i = 0 THEN <<>>
                                  ELSE IF s[i] \in S THEN Append(K[i - 1], s[i]) ELSE K[i - 1]
    OBVIOUS
  <2>2. Body(K) = [i \in 0..Len(s) |-> Body(K)[i]]
    OBVIOUS
  <2> HIDE DEF Body
  <2>3. K = [i \in 0..Len(s) |-> K[i]]
    BY <1>7, <2>2
  <2>4. \A i \in 0..Len(s) : K[i] = IF i = 0 THEN <<>>
                                  ELSE IF s[i] \in S THEN Append(K[i - 1], s[i]) ELSE K[i - 1]
    BY <1>7, <2>1
  <2>5. QED
    BY <2>3, <2>4 DEF Builds
<1>10. QED
  BY <1>8, <1>9

(* Kept keeps what is in the set, each element as often as it was there. *)
LEMMA KeptFacts ==
    ASSUME NEW T, NEW s \in Seq(T), NEW S
    PROVE  /\ Kept(s, S) \in Seq(T)
           /\ Range(Kept(s, S)) = Range(s) \cap S
           /\ IsInjective(s) => IsInjective(Kept(s, S))
<1>1. PICK g : Builds(s, S, Len(s), g) /\ Kept(s, S) = g[Len(s)]
  BY KeptIsBuilt
<1>2. Len(s) \in Nat
  OBVIOUS
<1> DEFINE Before(n) == {s[i] : i \in 1..n}
<1> DEFINE Good(n) == /\ g[n] \in Seq(T)
                      /\ Range(g[n]) = Before(n) \cap S
                      /\ IsInjective(s) => IsInjective(g[n])
<1> DEFINE Bad == {n \in 0..Len(s) : ~ Good(n)}
<1>3. Good(0)
  <2>1. g[0] = <<>>
    BY <1>1, <1>2 DEF Builds
  <2>2. QED
    BY <2>1 DEF Range, IsInjective
<1>4. ASSUME NEW n \in 1..Len(s), Good(n - 1) PROVE Good(n)
  <2>1. n \in Nat /\ n - 1 \in Nat /\ n \in 0..Len(s) /\ n # 0 /\ s[n] \in T /\ n \in DOMAIN s
    BY <1>2
  <2>2. Before(n) = Before(n - 1) \cup {s[n]}
    BY <2>1
  <2>3. g[n] = IF s[n] \in S THEN Append(g[n - 1], s[n]) ELSE g[n - 1]
    BY <1>1, <2>1 DEF Builds
  <2>4. CASE s[n] \notin S
    BY <1>4, <2>2, <2>3, <2>4
  <2>5. CASE s[n] \in S
    <3> DEFINE q == g[n - 1]
    <3>1. g[n] = Append(q, s[n]) /\ q \in Seq(T) /\ Len(q) \in Nat
      BY <1>4, <2>3, <2>5
    <3>2. Range(q) = Before(n - 1) \cap S
      BY <1>4
    <3>6. IsInjective(s) => IsInjective(q)
      BY <1>4
    <3> HIDE DEF q
    <3>3. Range(Append(q, s[n])) = Range(q) \cup {s[n]}
      BY <2>1, <3>1, AppendFacts
    <3>4. IsInjective(s) => IsInjective(Append(q, s[n]))
      <4>1. SUFFICES ASSUME IsInjective(s) PROVE IsInjective(Append(q, s[n]))
        OBVIOUS
      <4>2. s[n] \notin Range(q)
        <5>1. s[n] \notin Before(n - 1)
          BY <2>1, <4>1 DEF IsInjective
        <5>2. QED
          BY <3>2, <5>1
      <4>3. IsInjective(q)
        BY <3>6, <4>1
      <4>4. QED
        BY <2>1, <3>1, <4>2, <4>3, AppendFacts
    <3>5. QED
      BY <2>1, <2>2, <2>5, <3>1, <3>2, <3>3, <3>4
  <2>6. QED
    BY <2>4, <2>5
<1>5. Good(Len(s))
  <2>9. Len(s) \in 0..Len(s)
    BY <1>2
  <2>1. SUFFICES ASSUME Bad # {} PROVE FALSE
    <3> HIDE DEF Good
    <3>1. QED
      BY <2>9
  <2>2. Bad \in SUBSET Nat
    BY <1>2
  <2>3. PICK m \in Bad : \A k \in Bad : m <= k
    <3> HIDE DEF Bad
    <3>1. QED
      BY <2>1, <2>2, LeastOf
  <2>4. m \in 0..Len(s) /\ ~ Good(m)
    OBVIOUS
  <2> HIDE DEF Good
  <2>5. m # 0
    BY <1>3, <2>4
  <2>6. m \in 1..Len(s) /\ m - 1 \in 0..Len(s) /\ ~ (m <= m - 1)
    BY <1>2, <2>4, <2>5
  <2>7. Good(m - 1)
    BY <2>3, <2>6
  <2>8. QED
    BY <1>4, <2>4, <2>6, <2>7
<1>6. Before(Len(s)) = Range(s)
  BY DEF Range
<1>7. QED
  BY <1>1, <1>5, <1>6

LEMMA EmptyFacts ==
    /\ Range(<<>>) = {} /\ IsInjective(<<>>)
    /\ \A T : <<>> \in Seq(T)
  BY DEF Range, IsInjective

LEMMA TailFacts ==
    ASSUME NEW T, NEW q \in Seq(T), q # <<>>
    PROVE  /\ Head(q) \in T /\ Tail(q) \in Seq(T)
           /\ Range(q) = Range(Tail(q)) \cup {Head(q)}
           /\ IsInjective(q) => IsInjective(Tail(q)) /\ Head(q) \notin Range(Tail(q))
<1> DEFINE t == Tail(q)
<1>1. /\ Len(q) \in Nat /\ Len(q) # 0
      /\ DOMAIN q = 1..Len(q) /\ Head(q) = q[1] /\ Head(q) \in T
      /\ t \in Seq(T) /\ DOMAIN t = 1..(Len(q) - 1)
  OBVIOUS
<1>2. \A i \in 1..(Len(q) - 1) : t[i] = q[i + 1]
  OBVIOUS
<1> HIDE DEF t
<1>3. \A i \in 1..(Len(q) - 1) : i + 1 \in 1..Len(q) /\ i + 1 # 1
  BY <1>1
<1>4. \A i \in 1..Len(q) : i # 1 => i - 1 \in 1..(Len(q) - 1) /\ (i - 1) + 1 = i
  BY <1>1
<1>5. 1 \in 1..Len(q)
  BY <1>1
<1>6. Range(q) = Range(t) \cup {Head(q)}
  <2>1. ASSUME NEW x \in Range(t) PROVE x \in Range(q)
    BY <1>1, <1>2, <1>3 DEF Range
  <2>2. Head(q) \in Range(q)
    BY <1>1, <1>5 DEF Range
  <2>3. ASSUME NEW x \in Range(q), x # Head(q) PROVE x \in Range(t)
    <3>1. PICK i \in 1..Len(q) : x = q[i]
      BY <1>1 DEF Range
    <3>2. i - 1 \in 1..(Len(q) - 1) /\ t[i - 1] = x
      BY <1>1, <1>2, <1>4, <2>3, <3>1
    <3>3. QED
      BY <1>1, <3>2 DEF Range
  <2>4. QED
    BY <2>1, <2>2, <2>3
<1>7. ASSUME IsInjective(q) PROVE IsInjective(t) /\ Head(q) \notin Range(t)
  <2>1. \A i, j \in 1..Len(q) : q[i] = q[j] => i = j
    BY <1>1, <1>7 DEF IsInjective
  <2>2. ASSUME NEW i \in 1..(Len(q) - 1), NEW j \in 1..(Len(q) - 1), t[i] = t[j] PROVE i = j
    <3>1. q[i + 1] = q[j + 1]
      BY <1>2, <2>2
    <3>2. i + 1 = j + 1
      BY <1>3, <2>1, <3>1
    <3>3. QED
      BY <3>2
  <2>3. ASSUME Head(q) \in Range(t) PROVE FALSE
    <3>1. PICK i \in 1..(Len(q) - 1) : q[1] = t[i]
      BY <1>1, <2>3 DEF Range
    <3>2. q[1] = q[i + 1]
      BY <1>2, <3>1
    <3>3. QED
      BY <1>3, <1>5, <2>1, <3>2
  <2>4. QED
    BY <1>1, <2>2, <2>3 DEF IsInjective
<1>8. QED
  BY <1>1, <1>6, <1>7 DEF t

LEMMA ConcatFacts ==
    ASSUME NEW T, NEW q \in Seq(T), NEW p \in Seq(T)
    PROVE  /\ q \o p \in Seq(T)
           /\ Range(q \o p) = Range(q) \cup Range(p)
           /\ IsInjective(q) /\ IsInjective(p) /\ Range(q) \cap Range(p) = {} => IsInjective(q \o p)
<1> DEFINE c == q \o p
<1>1. /\ Len(q) \in Nat /\ Len(p) \in Nat
      /\ DOMAIN q = 1..Len(q) /\ DOMAIN p = 1..Len(p)
      /\ c \in Seq(T) /\ DOMAIN c = 1..(Len(q) + Len(p))
  OBVIOUS
<1>2. \A i \in 1..Len(q) : c[i] = q[i]
  OBVIOUS
<1>3. \A i \in 1..(Len(q) + Len(p)) : i \notin 1..Len(q) => c[i] = p[i - Len(q)]
  OBVIOUS
<1> HIDE DEF c
<1>4. \A i \in 1..(Len(q) + Len(p)) : i \notin 1..Len(q) => i - Len(q) \in 1..Len(p)
  BY <1>1
<1>5. Range(c) = Range(q) \cup Range(p)
  <2>1. ASSUME NEW x \in Range(c) PROVE x \in Range(q) \cup Range(p)
    <3>1. PICK i \in 1..(Len(q) + Len(p)) : x = c[i]
      BY <1>1 DEF Range
    <3>2. CASE i \in 1..Len(q)
      BY <1>1, <1>2, <3>1, <3>2 DEF Range
    <3>3. CASE i \notin 1..Len(q)
      BY <1>1, <1>3, <1>4, <3>1, <3>3 DEF Range
    <3>4. QED
      BY <3>2, <3>3
  <2>2. ASSUME NEW x \in Range(q) PROVE x \in Range(c)
    <3>1. PICK i \in 1..Len(q) : x = q[i]
      BY <1>1 DEF Range
    <3>2. i \in 1..(Len(q) + Len(p))
      BY <1>1
    <3>3. QED
      BY <1>1, <1>2, <3>1, <3>2 DEF Range
  <2>3. ASSUME NEW x \in Range(p) PROVE x \in Range(c)
    <3>1. PICK i \in 1..Len(p) : x = p[i]
      BY <1>1 DEF Range
    <3>2. Len(q) + i \in 1..(Len(q) + Len(p)) /\ Len(q) + i \notin 1..Len(q) /\ (Len(q) + i) - Len(q) = i
      BY <1>1
    <3>3. QED
      BY <1>1, <1>3, <3>1, <3>2 DEF Range
  <2>4. QED
    BY <2>1, <2>2, <2>3
<1>6. ASSUME IsInjective(q), IsInjective(p), Range(q) \cap Range(p) = {} PROVE IsInjective(c)
  <2>1. \A i, j \in 1..Len(q) : q[i] = q[j] => i = j
    BY <1>1, <1>6 DEF IsInjective
  <2>2. \A i, j \in 1..Len(p) : p[i] = p[j] => i = j
    BY <1>1, <1>6 DEF IsInjective
  <2>3. \A i \in 1..Len(q), j \in 1..Len(p) : q[i] # p[j]
    BY <1>1, <1>6 DEF Range
  <2>4. ASSUME NEW i \in 1..(Len(q) + Len(p)), NEW j \in 1..(Len(q) + Len(p)), c[i] = c[j] PROVE i = j
    <3>1. CASE i \in 1..Len(q) /\ j \in 1..Len(q)
      BY <1>2, <2>1, <2>4, <3>1
    <3>2. CASE i \in 1..Len(q) /\ j \notin 1..Len(q)
      BY <1>2, <1>3, <1>4, <2>3, <2>4, <3>2
    <3>3. CASE i \notin 1..Len(q) /\ j \in 1..Len(q)
      BY <1>2, <1>3, <1>4, <2>3, <2>4, <3>3
    <3>4. CASE i \notin 1..Len(q) /\ j \notin 1..Len(q)
      <4>1. i - Len(q) = j - Len(q)
        BY <1>3, <1>4, <2>2, <2>4, <3>4
      <4>2. QED
        BY <1>1, <4>1
    <3>5. QED
      BY <3>1, <3>2, <3>3, <3>4
  <2>5. QED
    BY <1>1, <2>4 DEF IsInjective
<1>7. QED
  BY <1>1, <1>5, <1>6 DEF c

LEMMA PrefixFacts ==
    ASSUME NEW T, NEW q \in Seq(T), NEW n \in 0..Len(q)
    PROVE  /\ SubSeq(q, 1, n) \in Seq(T)
           /\ Range(SubSeq(q, 1, n)) \subseteq Range(q)
           /\ IsInjective(q) => IsInjective(SubSeq(q, 1, n))
<1> DEFINE p == SubSeq(q, 1, n)
<1>1. /\ Len(q) \in Nat /\ n \in Nat /\ n <= Len(q)
      /\ DOMAIN q = 1..Len(q) /\ p \in Seq(T) /\ DOMAIN p = 1..n
  OBVIOUS
<1>2. \A i \in 1..n : p[i] = q[i]
  OBVIOUS
<1> HIDE DEF p
<1>3. \A i \in 1..n : i \in 1..Len(q)
  BY <1>1
<1>4. Range(p) \subseteq Range(q) /\ (IsInjective(q) => IsInjective(p))
  BY <1>1, <1>2, <1>3 DEF Range, IsInjective
<1>5. QED
  BY <1>1, <1>4 DEF p

-----------------------------------------------------------------------------
(* The invariant *)

Statuses == {"none", "queued", "sent", "failed", "expired", "timeout", "delivered",
             "delivery_failed", "propagated", "broadcast_sent", "read", "deleted"}

Callers == {"new", "send", "queue", "sent", "refused", "track", "append", "queued", "done"}

Settled == {"delivered", "delivery_failed", "propagated", "read", "timeout"}

DrainSteps == {"idle", "adapter", "first", "item", "mark", "track", "timeout"}

DrainRecords ==
    [pc : DrainSteps, radio : Radios \cup {"none"}, items : Seq(Msgs), stale : SUBSET Msgs]

(* The value a variable has, of the kind the code gives it *)
HubTypes ==
    /\ row \in [Msgs -> Statuses] /\ stored \in Seq(Msgs)
    /\ outq \in [Radios -> Seq(Msgs)] /\ pend \in [Radios -> Seq(Msgs)]
    /\ bound \subseteq Msgs /\ air \subseteq Msgs
    /\ ackd \in [Msgs -> {"none", "delivered", "delivery_failed", "propagated"}]
    /\ caller \in [Msgs -> Callers]
    /\ drain \in [HubDrains -> DrainRecords]
    /\ late \subseteq Msgs /\ old \subseteq Msgs
    /\ taken \in [Msgs -> Nat] /\ up \in [Radios -> BOOLEAN]
    /\ hub \in {"up", "closing", "down"} /\ lives \in Nat

(* A queue holds messages of its own radio, each of them once. *)
Listed(r, q) == IsInjective(q) /\ \A m \in Range(q) : Radio[m] = r

QueuesListed == \A r \in Radios : Listed(r, outq[r]) /\ Listed(r, pend[r])

StoredOnce == IsInjective(stored) /\ Range(stored) = {m \in Msgs : row[m] # "none"}

(* What a drain has in hand belongs to its radio; a timeout is the loop's. *)
DrainHolds(d) ==
    /\ IsInjective(drain[d].items)
    /\ drain[d].pc = "idle" => drain[d].items = <<>>
    /\ drain[d].pc \in {"mark", "track", "timeout"} => drain[d].items # <<>>
    /\ drain[d].pc = "timeout" => d = "loop" /\ Tail(drain[d].items) = <<>>
    /\ drain[d].pc \notin {"idle", "timeout"} =>
           drain[d].radio \in Radios /\ \A m \in Range(drain[d].items) : Radio[m] = drain[d].radio

(* After a stop or a crash only the store is left. *)
NothingLeft ==
    hub = "down" =>
        /\ \A r \in Radios : outq[r] = <<>> /\ pend[r] = <<>>
        /\ bound = {} /\ air = {}
        /\ \A m \in Msgs : ackd[m] = "none" /\ caller[m] \in {"new", "queued", "done"}
        /\ \A d \in HubDrains : drain[d] = NoDrain

(* The hands of a drain in which a message is, if any *)
HeldAs(m, d) ==
    IF m \notin Range(drain[d].items) THEN "none"
    ELSE IF drain[d].pc \in {"mark", "track", "timeout"} /\ m = Head(drain[d].items)
         THEN drain[d].pc ELSE "wait"

Unheld(m) == \A d \in HubDrains : HeldAs(m, d) = "none"

(* A message is in one place: with its sender, in its queue or with one drain. *)
InOnePlace(m) ==
    /\ m \in Range(outq[Radio[m]]) => caller[m] = "queued" /\ Unheld(m)
    /\ \A d \in HubDrains : HeldAs(m, d) \in {"wait", "mark", "track"} =>
           caller[m] = "queued" /\ \A e \in HubDrains \ {d} : HeldAs(m, e) = "none"
    /\ m \in late => caller[m] = "queued"

(* What the status says of a message that is not sent yet *)
StatusOfWaiting(m) ==
    /\ \/ m \in Range(outq[Radio[m]]) \/ caller[m] = "append"
       \/ \E d \in HubDrains : HeldAs(m, d) \in {"wait", "mark"}
       => row[m] \in {"queued", "deleted"}
    /\ row[m] = "queued" => caller[m] \in {"append", "queued"}
    /\ row[m] = "queued" /\ hub # "down" =>
           \/ m \in Range(outq[Radio[m]]) \/ caller[m] = "append"
           \/ \E d \in HubDrains : HeldAs(m, d) \in {"wait", "mark"}
    /\ caller[m] \in {"new", "send", "queue", "sent", "refused"} => row[m] = "none"

(* ... and of one a radio took *)
StatusOfSent(m) ==
    /\ \A d \in HubDrains : HeldAs(m, d) = "track" => row[m] \in {"sent", "deleted"}
    /\ caller[m] = "track" =>
           m \notin bound /\ row[m] \in {"sent", "deleted"} \cup (IF m \in Broadcasts THEN {} ELSE {"read"})
    /\ m \in bound =>
           /\ caller[m] \in {"done", "queued"} /\ m \notin Range(outq[Radio[m]])
           /\ \A d \in HubDrains : HeldAs(m, d) \in {"none", "timeout"}
           /\ row[m] \in {"sent", "deleted"} \cup (IF m \in Broadcasts THEN {} ELSE Settled)
    /\ m \notin Broadcasts /\ caller[m] \in {"track", "done"} /\ taken[m] > 0 =>
           row[m] \in {"none", "sent", "deleted"} \cup Settled

(* Who may still settle a message: the tracker, an acknowledgement or the
   timeout; one that has lost its entry is not propagated any more.        *)
SettledOnce(m) ==
    /\ m \in Range(pend[Radio[m]]) =>
           m \in bound \ Broadcasts /\ ackd[m] = "none" /\ row[m] \in {"sent", "read", "deleted"}
    /\ ackd[m] # "none" => m \in bound \ Broadcasts
    /\ HeldAs(m, "loop") = "timeout" =>
           /\ m \in bound \ Broadcasts /\ m \notin Range(pend[Radio[m]])
           /\ row[m] # "propagated" /\ ackd[m] # "propagated"
    /\ HeldAs(m, "event") # "timeout"

(* The sends a message may still cause, with those it has caused *)
Fresh(m) ==
    \/ caller[m] \in {"new", "send", "queue", "append"}
    \/ m \in Range(outq[Radio[m]])
    \/ \E d \in HubDrains : HeldAs(m, d) = "wait"

SendsCounted(m) ==
    /\ caller[m] \in {"new", "send", "queue", "append", "refused"} => taken[m] = 0
    /\ taken[m] + (IF m \in late THEN 1 ELSE 0) + (IF Fresh(m) THEN 1 ELSE 0) <= lives

MsgInv(m) == InOnePlace(m) /\ StatusOfWaiting(m) /\ StatusOfSent(m) /\ SettledOnce(m) /\ SendsCounted(m)

HubInv ==
    /\ HubTypes /\ QueuesListed /\ StoredOnce /\ NothingLeft
    /\ \A d \in HubDrains : DrainHolds(d)
    /\ \A m \in Msgs : MsgInv(m)

-----------------------------------------------------------------------------
(* What a step says of a message, of a drain and of the rows *)

(* Nothing the invariant says of a message has changed. *)
Same(m) ==
    /\ row'[m] = row[m] /\ caller'[m] = caller[m] /\ ackd'[m] = ackd[m] /\ taken'[m] = taken[m]
    /\ m \in late' <=> m \in late
    /\ m \in bound' <=> m \in bound
    /\ m \in Range(outq'[Radio[m]]) <=> m \in Range(outq[Radio[m]])
    /\ m \in Range(pend'[Radio[m]]) <=> m \in Range(pend[Radio[m]])
    /\ \A d \in HubDrains : HeldAs(m, d)' = HeldAs(m, d)

LEMMA Unmoved ==
    ASSUME NEW m \in Msgs, MsgInv(m), Same(m), hub' = "down" <=> hub = "down", lives' = lives
    PROVE  MsgInv(m)'
<1>1. InOnePlace(m)'
  BY DEF Same, MsgInv, InOnePlace, Unheld
<1>2. StatusOfWaiting(m)'
  BY DEF Same, MsgInv, StatusOfWaiting
<1>3. StatusOfSent(m)'
  BY DEF Same, MsgInv, StatusOfSent
<1>4. SettledOnce(m)'
  BY DEF Same, MsgInv, SettledOnce, HubDrains
<1>5. Fresh(m)' <=> Fresh(m)
  BY DEF Same, Fresh
<1>6. SendsCounted(m)'
  <2>1. taken'[m] = taken[m] /\ caller'[m] = caller[m] /\ (m \in late' <=> m \in late) /\ SendsCounted(m)
    BY DEF Same, MsgInv
  <2>2. QED
    BY <1>5, <2>1 DEF SendsCounted
<1>7. QED
  BY <1>1, <1>2, <1>3, <1>4, <1>6 DEF MsgInv

LEMMA RadioOf == \A m \in Msgs : Radio[m] \in Radios
  BY DEF Radios

LEMMA HeldValues ==
    ASSUME HubTypes, NEW m \in Msgs, NEW d \in HubDrains
    PROVE  HeldAs(m, d) \in {"none", "wait", "mark", "track", "timeout"}
  BY DEF HeldAs

LEMMA HeldUnchanged ==
    ASSUME NEW m, NEW d, drain'[d] = drain[d]
    PROVE  HeldAs(m, d)' = HeldAs(m, d)
  BY DEF HeldAs

(* A drain that is done holds nothing. *)
LEMMA HeldIdle ==
    ASSUME NEW d \in HubDrains, drain'[d] = NoDrain
    PROVE  DrainHolds(d)' /\ \A m \in Msgs : HeldAs(m, d)' = "none"
<1>1. drain'[d].items = <<>> /\ drain'[d].pc = "idle"
  BY DEF NoDrain
<1>2. QED
  BY <1>1, EmptyFacts DEF DrainHolds, HeldAs

LEMMA NoDrainTyped == NoDrain \in DrainRecords
  BY EmptyFacts DEF NoDrain, DrainRecords, DrainSteps

LEMMA DrainChanged ==
    ASSUME HubTypes, NEW d \in HubDrains, NEW v \in DrainRecords, drain' = [drain EXCEPT ![d] = v]
    PROVE  /\ drain' \in [HubDrains -> DrainRecords] /\ drain'[d] = v
           /\ \A e \in HubDrains \ {d} : drain'[e] = drain[e]
  BY DEF HubTypes

LEMMA DrainFields ==
    ASSUME HubTypes, NEW d \in HubDrains
    PROVE  /\ drain[d] \in DrainRecords
           /\ drain[d].pc \in DrainSteps /\ drain[d].radio \in Radios \cup {"none"}
           /\ drain[d].items \in Seq(Msgs) /\ drain[d].stale \subseteq Msgs
  BY DEF HubTypes, DrainRecords

LEMMA NextRecord ==
    ASSUME NEW rec \in DrainRecords, NEW t \in Seq(Msgs)
    PROVE  LET v == [rec EXCEPT !.pc = "item", !.items = t]
           IN  v \in DrainRecords /\ v.pc = "item" /\ v.radio = rec.radio /\ v.items = t
  BY DEF DrainRecords, DrainSteps

LEMMA TimeoutRecord ==
    ASSUME NEW rec \in DrainRecords, NEW t \in Seq(Msgs)
    PROVE  LET v == [rec EXCEPT !.pc = "timeout", !.items = t]
           IN  v \in DrainRecords /\ v.pc = "timeout" /\ v.items = t
  BY DEF DrainRecords, DrainSteps

(* The drain goes on to the next item. *)
LEMMA HeldNext ==
    ASSUME HubTypes, NEW d \in HubDrains, DrainHolds(d), DrainNext(d), drain[d].items # <<>>,
           drain[d].pc \in {"first", "item", "mark", "track"}
    PROVE  /\ drain' \in [HubDrains -> DrainRecords]
           /\ \A e \in HubDrains \ {d} : drain'[e] = drain[e]
           /\ DrainHolds(d)'
           /\ Item(d) \in Msgs /\ Item(d) \in Range(drain[d].items)
           /\ \A m \in Msgs : m = Item(d) => HeldAs(m, d)' = "none"
           /\ \A m \in Msgs \ {Item(d)} : HeldAs(m, d)' = HeldAs(m, d)
<1> DEFINE v == [drain[d] EXCEPT !.pc = "item", !.items = Tail(drain[d].items)]
<1>1. /\ drain[d].pc \in DrainSteps /\ drain[d].radio \in Radios \cup {"none"}
      /\ drain[d].items \in Seq(Msgs) /\ drain[d].stale \subseteq Msgs /\ drain[d] \in DrainRecords
  BY DrainFields
<1>2. /\ Item(d) \in Msgs /\ Tail(drain[d].items) \in Seq(Msgs)
      /\ Range(drain[d].items) = Range(Tail(drain[d].items)) \cup {Item(d)}
      /\ Item(d) \notin Range(Tail(drain[d].items)) /\ IsInjective(Tail(drain[d].items))
  BY <1>1, TailFacts DEF Item, DrainHolds
<1>3. v \in DrainRecords /\ v.pc = "item" /\ v.radio = drain[d].radio /\ v.items = Tail(drain[d].items)
  BY <1>1, <1>2, NextRecord
<1>4. drain' = [drain EXCEPT ![d] = v]
  BY DEF DrainNext, HubTypes
<1> HIDE DEF v
<1>6. /\ drain' \in [HubDrains -> DrainRecords] /\ drain'[d] = v
      /\ \A e \in HubDrains \ {d} : drain'[e] = drain[e]
  BY <1>3, <1>4, DrainChanged
<1>7. drain'[d].pc = "item" /\ drain'[d].radio = drain[d].radio /\ drain'[d].items = Tail(drain[d].items)
  BY <1>3, <1>6
<1>8. DrainHolds(d)'
  BY <1>2, <1>7 DEF DrainHolds
<1>9. \A m \in Msgs : HeldAs(m, d)' = IF m \in Range(Tail(drain[d].items)) THEN "wait" ELSE "none"
  BY <1>7 DEF HeldAs
<1>10. \A m \in Msgs \ {Item(d)} : HeldAs(m, d) = IF m \in Range(Tail(drain[d].items)) THEN "wait" ELSE "none"
  BY <1>2 DEF HeldAs, Item
<1>11. QED
  BY <1>2, <1>6, <1>8, <1>9, <1>10

(* The drain has done a part of its work on the item. *)
LEMMA HeldGoto ==
    ASSUME HubTypes, NEW d \in HubDrains, DrainHolds(d), NEW label \in {"mark", "track"},
           drain[d].items # <<>>, drain[d].pc \in {"first", "item", "mark"},
           drain' = [drain EXCEPT ![d].pc = label]
    PROVE  /\ drain' \in [HubDrains -> DrainRecords]
           /\ \A e \in HubDrains \ {d} : drain'[e] = drain[e]
           /\ DrainHolds(d)'
           /\ Item(d) \in Msgs /\ Item(d) \in Range(drain[d].items)
           /\ \A m \in Msgs : m = Item(d) => HeldAs(m, d)' = label
           /\ \A m \in Msgs \ {Item(d)} : HeldAs(m, d)' = HeldAs(m, d)
<1> DEFINE v == [drain[d] EXCEPT !.pc = label]
<1>1. /\ drain[d].pc \in DrainSteps /\ drain[d].radio \in Radios \cup {"none"}
      /\ drain[d].items \in Seq(Msgs) /\ drain[d].stale \subseteq Msgs /\ drain[d] \in DrainRecords
  BY DrainFields
<1>2. Item(d) \in Msgs /\ Item(d) \in Range(drain[d].items)
  BY <1>1, TailFacts DEF Item
<1>3. v \in DrainRecords
  BY <1>1 DEF DrainRecords, DrainSteps
<1>4. drain' = [drain EXCEPT ![d] = v]
  BY DEF HubTypes
<1>5. /\ v.pc = label /\ v.radio = drain[d].radio /\ v.items = drain[d].items
  BY <1>1 DEF DrainRecords
<1> HIDE DEF v
<1>6. /\ drain' \in [HubDrains -> DrainRecords] /\ drain'[d] = v
      /\ \A e \in HubDrains \ {d} : drain'[e] = drain[e]
  BY <1>3, <1>4, DrainChanged
<1>7. drain'[d].pc = label /\ drain'[d].radio = drain[d].radio /\ drain'[d].items = drain[d].items
  BY <1>5, <1>6
<1>8. DrainHolds(d)'
  BY <1>7 DEF DrainHolds
<1>9. QED
  BY <1>2, <1>6, <1>7, <1>8 DEF HeldAs, Item

(* One row gets a status; a row that is there stays there. *)
LEMMA OneUpdated ==
    ASSUME HubTypes, NEW m \in Msgs, row[m] # "none", NEW status \in Statuses \ {"none"},
           Update(m, status)
    PROVE  /\ row' \in [Msgs -> Statuses] /\ row'[m] = Updated(m, status)
           /\ \A x \in Msgs \ {m} : row'[x] = row[x]
           /\ \A x \in Msgs : row'[x] # "none" <=> row[x] # "none"
<1>1. Updated(m, status) \in Statuses \ {"none"}
  BY DEF Updated, HubTypes
<1>2. QED
  BY <1>1 DEF Update, HubTypes

LEMMA AllUpdated ==
    ASSUME HubTypes, NEW S \in SUBSET Msgs, \A m \in S : row[m] # "none",
           NEW status \in Statuses \ {"none"}, UpdateAll(S, status)
    PROVE  /\ row' \in [Msgs -> Statuses]
           /\ \A m \in S : row'[m] = Updated(m, status)
           /\ \A x \in Msgs \ S : row'[x] = row[x]
           /\ \A x \in Msgs : row'[x] # "none" <=> row[x] # "none"
<1>1. \A m \in S : Updated(m, status) \in Statuses \ {"none"}
  BY DEF Updated, HubTypes
<1>2. QED
  BY <1>1 DEF UpdateAll, HubTypes

LEMMA StoredKept ==
    ASSUME StoredOnce, stored' = stored, \A x \in Msgs : row'[x] # "none" <=> row[x] # "none"
    PROVE  StoredOnce'
  BY DEF StoredOnce

(* What the store promises of a step *)
Moves == \A m \in Msgs : row'[m] = row[m] \/ row'[m] \in Abstract!Following(row[m])

(* The statuses that may follow one another *)
LEMMA NextStatus ==
    /\ \A s \in {"queued", "sent", "failed"} : s \in Abstract!Following("none")
    /\ \A s \in {"sent", "failed", "expired", "deleted"} : s \in Abstract!Following("queued")
    /\ \A s \in Settled \cup {"broadcast_sent", "deleted"} : s \in Abstract!Following("sent")
    /\ \A s \in Settled, t \in (Settled \ {"timeout"}) \cup {"deleted"} : t \in Abstract!Following(s)
    /\ \A s \in {"failed", "expired", "broadcast_sent"} : "deleted" \in Abstract!Following(s)
<1>1. \A s \in {"queued", "sent", "failed"} : s \in Abstract!Following("none")
  BY DEF Abstract!Following, Abstract!Settled, Abstract!Given
<1>2. \A s \in {"sent", "failed", "expired", "deleted"} : s \in Abstract!Following("queued")
  BY DEF Abstract!Following, Abstract!Settled, Abstract!Given
<1>3. \A s \in Settled \cup {"broadcast_sent", "deleted"} : s \in Abstract!Following("sent")
  BY DEF Abstract!Following, Abstract!Settled, Abstract!Given, Settled
<1>4. \A s \in Settled, t \in (Settled \ {"timeout"}) \cup {"deleted"} : t \in Abstract!Following(s)
  BY DEF Abstract!Following, Abstract!Settled, Abstract!Given, Settled
<1>5. \A s \in {"failed", "expired", "broadcast_sent"} : "deleted" \in Abstract!Following(s)
  BY DEF Abstract!Following, Abstract!Settled, Abstract!Given
<1>6. QED
  BY <1>1, <1>2, <1>3, <1>4, <1>5

-----------------------------------------------------------------------------
(* send_message *)

(* Nobody else knows a message that is still with its sender. *)
LEMMA WithSender ==
    ASSUME HubTypes, NEW m \in Msgs, MsgInv(m), caller[m] \notin {"queued", "done"}
    PROVE  /\ m \notin Range(outq[Radio[m]]) /\ m \notin Range(pend[Radio[m]])
           /\ m \notin late /\ m \notin bound /\ ackd[m] = "none"
           /\ \A d \in HubDrains : HeldAs(m, d) = "none"
<1>1. /\ m \notin Range(outq[Radio[m]]) /\ m \notin late /\ m \notin bound
      /\ \A d \in HubDrains : HeldAs(m, d) \notin {"wait", "mark", "track"}
  BY DEF MsgInv, InOnePlace, StatusOfSent
<1>2. m \notin Range(pend[Radio[m]]) /\ ackd[m] = "none"
  BY <1>1 DEF MsgInv, SettledOnce
<1>3. HeldAs(m, "loop") # "timeout" /\ HeldAs(m, "event") # "timeout"
  BY <1>1 DEF MsgInv, SettledOnce
<1>4. \A d \in HubDrains : HeldAs(m, d) = "none"
  BY <1>1, <1>3, HeldValues DEF HubDrains
<1>5. QED
  BY <1>1, <1>2, <1>4

(* Only a hub that is up, or closing, has anything in its hands. *)
LEMMA Running ==
    ASSUME HubInv, hub = "down"
    PROVE  /\ \A m \in Msgs : caller[m] \in {"new", "queued", "done"} /\ ackd[m] = "none"
           /\ \A d \in HubDrains : drain[d].pc = "idle"
           /\ \A r \in Radios : outq[r] = <<>> /\ pend[r] = <<>>
           /\ bound = {} /\ air = {}
  BY DEF HubInv, NothingLeft, NoDrain

LEMMA SendMessageKeeps ==
    ASSUME HubInv, NEW m \in Msgs, SendMessage(m)
    PROVE  HubInv' /\ Moves
<1>1. /\ hub = "up" /\ caller[m] = "new" /\ caller' \in [Msgs -> Callers]
      /\ caller'[m] \in {"send", "queue"} /\ \A x \in Msgs \ {m} : caller'[x] = caller[x]
  BY DEF HubInv, HubTypes, SendMessage, CallerGoto, Callers
<1>2. UNCHANGED <<row, stored, outq, pend, bound, air, ackd, drain, late, taken, up, old, hub, lives>>
  BY DEF SendMessage
<1>3. HubTypes /\ MsgInv(m)
  BY DEF HubInv
<1>4. /\ m \notin Range(outq[Radio[m]]) /\ m \notin Range(pend[Radio[m]])
      /\ m \notin late /\ m \notin bound /\ ackd[m] = "none"
      /\ \A d \in HubDrains : HeldAs(m, d) = "none"
  BY <1>1, <1>3, WithSender
<1>5. row[m] = "none" /\ taken[m] = 0 /\ 1 <= lives
  BY <1>1, <1>3, <1>4 DEF MsgInv, StatusOfWaiting, SendsCounted, Fresh, HubTypes
<1>6. \A x \in Msgs, d \in HubDrains : HeldAs(x, d)' = HeldAs(x, d)
  BY <1>2, HeldUnchanged
<1>7. \A x \in Msgs \ {m} : MsgInv(x)'
  BY <1>1, <1>2, <1>6, Unmoved DEF HubInv, Same
<1>8. MsgInv(m)'
  <2>1. InOnePlace(m)' /\ StatusOfWaiting(m)' /\ StatusOfSent(m)' /\ SettledOnce(m)'
    BY <1>1, <1>2, <1>4, <1>5, <1>6
       DEF InOnePlace, StatusOfWaiting, StatusOfSent, SettledOnce, Unheld, HubDrains
  <2>2. SendsCounted(m)'
    BY <1>1, <1>2, <1>3, <1>4, <1>5 DEF SendsCounted, HubTypes
  <2>3. QED
    BY <2>1, <2>2 DEF MsgInv
<1>9. HubTypes' /\ QueuesListed' /\ StoredOnce' /\ NothingLeft' /\ (\A d \in HubDrains : DrainHolds(d))'
  BY <1>1, <1>2 DEF HubInv, HubTypes, QueuesListed, StoredOnce, NothingLeft, DrainHolds
<1>10. QED
  BY <1>2, <1>7, <1>8, <1>9 DEF HubInv, Moves

LEMMA AdapterSendKeeps ==
    ASSUME HubInv, NEW m \in Msgs, AdapterSend(m)
    PROVE  HubInv' /\ Moves
<1>1. /\ caller[m] = "send" /\ caller' \in [Msgs -> Callers]
      /\ \A x \in Msgs \ {m} : caller'[x] = caller[x]
  BY DEF HubInv, HubTypes, AdapterSend, CallerGoto, Callers
<1>2. \/ caller'[m] = "sent" /\ air' = air \cup {m} /\ taken' = [taken EXCEPT ![m] = @ + 1]
      \/ caller'[m] \in {"queue", "refused"} /\ UNCHANGED <<air, taken>>
  BY DEF HubInv, HubTypes, AdapterSend, CallerGoto, Transmit
<1>3. UNCHANGED <<row, stored, outq, pend, bound, ackd, drain, late, up, old, hub, lives>>
  BY DEF AdapterSend
<1>4. HubTypes /\ MsgInv(m) /\ hub # "down"
  BY <1>1, Running DEF HubInv
<1>5. /\ m \notin Range(outq[Radio[m]]) /\ m \notin Range(pend[Radio[m]])
      /\ m \notin late /\ m \notin bound /\ ackd[m] = "none"
      /\ \A d \in HubDrains : HeldAs(m, d) = "none"
  BY <1>1, <1>4, WithSender
<1>6. row[m] = "none" /\ taken[m] = 0 /\ 1 <= lives
  BY <1>1, <1>4, <1>5 DEF MsgInv, StatusOfWaiting, SendsCounted, Fresh, HubTypes
<1>7. \A x \in Msgs, d \in HubDrains : HeldAs(x, d)' = HeldAs(x, d)
  BY <1>3, HeldUnchanged
<1>8. /\ taken' \in [Msgs -> Nat] /\ air' \subseteq Msgs
      /\ \A x \in Msgs \ {m} : taken'[x] = taken[x]
      /\ \/ caller'[m] = "sent" /\ taken'[m] = 1
         \/ caller'[m] \in {"queue", "refused"} /\ taken'[m] = 0
  <2>1. taken \in [Msgs -> Nat] /\ air \subseteq Msgs /\ taken[m] = 0
    BY <1>4, <1>6 DEF HubTypes
  <2>2. CASE caller'[m] = "sent" /\ air' = air \cup {m} /\ taken' = [taken EXCEPT ![m] = @ + 1]
    BY <2>1, <2>2
  <2>3. CASE caller'[m] \in {"queue", "refused"} /\ UNCHANGED <<air, taken>>
    BY <2>1, <2>3
  <2>4. QED
    BY <1>2, <2>2, <2>3
<1>9. \A x \in Msgs \ {m} : MsgInv(x)'
  BY <1>1, <1>3, <1>7, <1>8, Unmoved DEF HubInv, Same
<1>10. MsgInv(m)'
  <2>1. InOnePlace(m)' /\ StatusOfWaiting(m)' /\ StatusOfSent(m)' /\ SettledOnce(m)'
    BY <1>3, <1>5, <1>6, <1>7, <1>8
       DEF InOnePlace, StatusOfWaiting, StatusOfSent, SettledOnce, Unheld, HubDrains
  <2>2. SendsCounted(m)'
    <3>1. caller'[m] = "sent" => ~ Fresh(m)'
      BY <1>3, <1>5, <1>7 DEF Fresh
    <3>2. QED
      BY <1>3, <1>4, <1>5, <1>6, <1>8, <3>1 DEF SendsCounted, HubTypes
  <2>3. QED
    BY <2>1, <2>2 DEF MsgInv
<1>11. HubTypes' /\ QueuesListed' /\ StoredOnce' /\ NothingLeft' /\ (\A d \in HubDrains : DrainHolds(d))'
  BY <1>1, <1>3, <1>4, <1>8 DEF HubInv, HubTypes, QueuesListed, StoredOnce, NothingLeft, DrainHolds
<1>12. QED
  BY <1>3, <1>9, <1>10, <1>11 DEF HubInv, Moves

(* A new row is the newest. *)
LEMMA StoreKeeps ==
    ASSUME HubTypes, StoredOnce, NEW m \in Msgs, row[m] = "none", NEW status \in Statuses \ {"none"},
           Store(m, status)
    PROVE  /\ row' \in [Msgs -> Statuses] /\ stored' \in Seq(Msgs) /\ StoredOnce'
           /\ row'[m] = status /\ \A x \in Msgs \ {m} : row'[x] = row[x]
<1>1. /\ row' \in [Msgs -> Statuses] /\ row'[m] = status
      /\ \A x \in Msgs \ {m} : row'[x] = row[x]
  BY DEF Store, HubTypes
<1>2. stored \in Seq(Msgs) /\ IsInjective(stored) /\ m \notin Range(stored) /\ stored' = Append(stored, m)
  BY DEF Store, HubTypes, StoredOnce
<1>3. /\ stored' \in Seq(Msgs) /\ IsInjective(stored') /\ Range(stored') = Range(stored) \cup {m}
  BY <1>2, AppendFacts
<1>4. Range(stored') = {x \in Msgs : row'[x] # "none"}
  BY <1>1, <1>3 DEF StoredOnce
<1>5. QED
  BY <1>1, <1>3, <1>4 DEF StoredOnce

LEMMA FinalizeSendKeeps ==
    ASSUME HubInv, NEW m \in Msgs, FinalizeSend(m)
    PROVE  HubInv' /\ Moves
<1>1. /\ caller[m] \in {"sent", "refused"} /\ hub # "down" /\ caller' \in [Msgs -> Callers]
      /\ \A x \in Msgs \ {m} : caller'[x] = caller[x]
      /\ caller'[m] = IF caller[m] = "sent" THEN "track" ELSE "done"
  BY DEF HubInv, HubTypes, FinalizeSend, CallerGoto, Callers
<1>2. UNCHANGED <<outq, pend, bound, air, ackd, drain, late, taken, up, old, hub, lives>>
  BY DEF FinalizeSend
<1>3. HubTypes /\ MsgInv(m) /\ StoredOnce
  BY DEF HubInv
<1>4. /\ m \notin Range(outq[Radio[m]]) /\ m \notin Range(pend[Radio[m]])
      /\ m \notin late /\ m \notin bound /\ ackd[m] = "none"
      /\ \A d \in HubDrains : HeldAs(m, d) = "none"
  BY <1>1, <1>3, WithSender
<1>5. row[m] = "none" /\ (caller[m] = "refused" => taken[m] = 0) /\ taken[m] <= lives
  BY <1>1, <1>3, <1>4 DEF MsgInv, StatusOfWaiting, SendsCounted, HubTypes
<1> DEFINE status == IF caller[m] = "sent" THEN "sent" ELSE "failed"
<1>6. status \in Statuses \ {"none"} /\ Store(m, status)
  BY DEF FinalizeSend, Statuses
<1>7. status \in {"sent", "failed"} /\ (caller[m] = "sent" <=> status = "sent")
  OBVIOUS
<1> HIDE DEF status
<1>8. /\ row' \in [Msgs -> Statuses] /\ stored' \in Seq(Msgs) /\ StoredOnce'
      /\ row'[m] = status /\ \A x \in Msgs \ {m} : row'[x] = row[x]
  BY <1>3, <1>5, <1>6, StoreKeeps
<1>9. \A x \in Msgs, d \in HubDrains : HeldAs(x, d)' = HeldAs(x, d)
  BY <1>2, HeldUnchanged
<1>10. \A x \in Msgs \ {m} : MsgInv(x)'
  BY <1>1, <1>2, <1>8, <1>9, Unmoved DEF HubInv, Same
<1>11. MsgInv(m)'
  <2>1. InOnePlace(m)' /\ StatusOfWaiting(m)' /\ StatusOfSent(m)' /\ SettledOnce(m)'
    BY <1>1, <1>2, <1>4, <1>5, <1>7, <1>8, <1>9
       DEF InOnePlace, StatusOfWaiting, StatusOfSent, SettledOnce, Unheld, HubDrains
  <2>2. ~ Fresh(m)'
    BY <1>1, <1>2, <1>4, <1>9 DEF Fresh
  <2>3. SendsCounted(m)'
    BY <1>1, <1>2, <1>3, <1>4, <1>5, <2>2 DEF SendsCounted, HubTypes
  <2>4. QED
    BY <2>1, <2>3 DEF MsgInv
<1>12. HubTypes' /\ QueuesListed' /\ NothingLeft' /\ (\A d \in HubDrains : DrainHolds(d))'
  BY <1>1, <1>2, <1>8 DEF HubInv, HubTypes, QueuesListed, NothingLeft, DrainHolds
<1>13. Moves
  BY <1>5, <1>7, <1>8, NextStatus DEF Moves
<1>14. QED
  BY <1>8, <1>10, <1>11, <1>12, <1>13 DEF HubInv

LEMMA StoreQueuedKeeps ==
    ASSUME HubInv, NEW m \in Msgs, StoreQueued(m)
    PROVE  HubInv' /\ Moves
<1>1. /\ caller[m] = "queue" /\ hub # "down" /\ caller' \in [Msgs -> Callers]
      /\ caller'[m] = "append" /\ \A x \in Msgs \ {m} : caller'[x] = caller[x]
      /\ Store(m, "queued")
  BY DEF HubInv, HubTypes, StoreQueued, CallerGoto, Callers
<1>2. UNCHANGED <<outq, pend, bound, air, ackd, drain, late, taken, up, old, hub, lives>>
  BY DEF StoreQueued
<1>3. HubTypes /\ MsgInv(m) /\ StoredOnce
  BY DEF HubInv
<1>4. /\ m \notin Range(outq[Radio[m]]) /\ m \notin Range(pend[Radio[m]])
      /\ m \notin late /\ m \notin bound /\ ackd[m] = "none"
      /\ \A d \in HubDrains : HeldAs(m, d) = "none"
  BY <1>1, <1>3, WithSender
<1>5. row[m] = "none" /\ taken[m] = 0 /\ 1 <= lives
  BY <1>1, <1>3, <1>4 DEF MsgInv, StatusOfWaiting, SendsCounted, Fresh, HubTypes
<1>6. /\ row' \in [Msgs -> Statuses] /\ stored' \in Seq(Msgs) /\ StoredOnce'
      /\ row'[m] = "queued" /\ \A x \in Msgs \ {m} : row'[x] = row[x]
  BY <1>1, <1>3, <1>5, StoreKeeps DEF Statuses
<1>7. \A x \in Msgs, d \in HubDrains : HeldAs(x, d)' = HeldAs(x, d)
  BY <1>2, HeldUnchanged
<1>8. \A x \in Msgs \ {m} : MsgInv(x)'
  BY <1>1, <1>2, <1>6, <1>7, Unmoved DEF HubInv, Same
<1>9. MsgInv(m)'
  <2>1. InOnePlace(m)' /\ StatusOfWaiting(m)' /\ StatusOfSent(m)' /\ SettledOnce(m)'
    BY <1>1, <1>2, <1>4, <1>5, <1>6, <1>7
       DEF InOnePlace, StatusOfWaiting, StatusOfSent, SettledOnce, Unheld, HubDrains
  <2>2. SendsCounted(m)'
    BY <1>1, <1>2, <1>3, <1>4, <1>5 DEF SendsCounted, HubTypes
  <2>3. QED
    BY <2>1, <2>2 DEF MsgInv
<1>10. HubTypes' /\ QueuesListed' /\ NothingLeft' /\ (\A d \in HubDrains : DrainHolds(d))'
  BY <1>1, <1>2, <1>6 DEF HubInv, HubTypes, QueuesListed, NothingLeft, DrainHolds
<1>11. Moves
  BY <1>5, <1>6, NextStatus DEF Moves
<1>12. QED
  BY <1>6, <1>8, <1>9, <1>10, <1>11 DEF HubInv

-----------------------------------------------------------------------------
(* Tracking, by the sender or by a drain *)

(* A message that is tracked from now on; at most one other gives way to it. *)
LEMMA TrackFacts ==
    ASSUME HubInv, NEW m \in Msgs, m \notin bound, Track(m)
    PROVE  /\ pend' \in [Radios -> Seq(Msgs)] /\ \A r \in Radios : Listed(r, pend'[r])
           /\ row' \in [Msgs -> Statuses] /\ bound' = bound \cup {m}
           /\ \A x \in Msgs : row'[x] # "none" <=> row[x] # "none"
           /\ row'[m] = row[m]
           /\ m \in Range(pend'[Radio[m]]) <=> m \notin Broadcasts
           /\ \A x \in Msgs \ {m} :
                 \/ row'[x] = row[x] /\ (x \in Range(pend'[Radio[x]]) <=> x \in Range(pend[Radio[x]]))
                 \/ /\ x \in Range(pend[Radio[x]]) /\ x \notin Range(pend'[Radio[x]])
                    /\ row'[x] = Updated(x, "timeout")
<1> DEFINE r == Radio[m]
<1> DEFINE q == pend[r]
<1>1. /\ HubTypes /\ r \in Radios /\ q \in Seq(Msgs) /\ IsInjective(q) /\ \A x \in Range(q) : Radio[x] = r
  BY RadioOf DEF HubInv, HubTypes, QueuesListed, Listed
<1>2. \A x \in Msgs : x \in Range(pend[Radio[x]]) => x \in bound \ Broadcasts /\ row[x] # "none"
  BY DEF HubInv, MsgInv, SettledOnce
<1>3. m \notin Range(q)
  BY <1>2
<1>4. bound' = bound \cup {m}
  BY DEF Track
<1>5. CASE m \in Broadcasts
  <2>1. pend' = pend /\ row' = row
    BY <1>5 DEF Track, Evicts
  <2>2. QED
    BY <1>1, <1>3, <1>4, <1>5, <2>1 DEF HubTypes, HubInv, QueuesListed
<1>6. CASE m \notin Broadcasts /\ ~ Evicts(m)
  <2>1. pend' = [pend EXCEPT ![r] = Append(q, m)] /\ row' = row
    BY <1>6 DEF Track
  <2>2. /\ Append(q, m) \in Seq(Msgs) /\ IsInjective(Append(q, m))
        /\ Range(Append(q, m)) = Range(q) \cup {m}
    BY <1>1, <1>3, AppendFacts
  <2> DEFINE a == Append(q, m)
  <2> HIDE DEF a, q
  <2>3. pend' \in [Radios -> Seq(Msgs)] /\ pend'[r] = a /\ \A s \in Radios \ {r} : pend'[s] = pend[s]
    BY <1>1, <2>1, <2>2 DEF HubTypes, a
  <2>4. \A s \in Radios : Listed(s, pend'[s])
    BY <1>1, <2>2, <2>3 DEF HubInv, QueuesListed, Listed, a
  <2>5. \A x \in Msgs \ {m} : x \in Range(pend'[Radio[x]]) <=> x \in Range(pend[Radio[x]])
    BY <2>2, <2>3, RadioOf DEF a, q
  <2>6. m \in Range(pend'[Radio[m]])
    BY <2>2, <2>3 DEF a
  <2>7. QED
    BY <1>1, <1>4, <1>6, <2>1, <2>3, <2>4, <2>5, <2>6 DEF HubTypes
<1>7. CASE Evicts(m)
  <2> DEFINE h == Head(q)
  <2>1. /\ m \notin Broadcasts /\ pend' = [pend EXCEPT ![r] = Append(Tail(q), m)] /\ Update(h, "timeout")
    BY <1>7 DEF Track, Evicts
  <2>2. q # <<>>
    BY <1>1, <1>7, HubAssumption DEF Evicts
  <2>3. /\ h \in Msgs /\ Tail(q) \in Seq(Msgs) /\ IsInjective(Tail(q)) /\ h \notin Range(Tail(q))
        /\ Range(q) = Range(Tail(q)) \cup {h}
    BY <1>1, <2>2, TailFacts
  <2>4. /\ Append(Tail(q), m) \in Seq(Msgs) /\ IsInjective(Append(Tail(q), m))
        /\ Range(Append(Tail(q), m)) = Range(Tail(q)) \cup {m}
    <3> DEFINE t == Tail(q)
    <3>1. t \in Seq(Msgs) /\ IsInjective(t) /\ m \notin Range(t)
      BY <1>3, <2>3
    <3> HIDE DEF t
    <3>2. Append(t, m) \in Seq(Msgs) /\ IsInjective(Append(t, m)) /\ Range(Append(t, m)) = Range(t) \cup {m}
      BY <3>1, AppendFacts
    <3>3. QED
      BY <3>2 DEF t
  <2> DEFINE a == Append(Tail(q), m)
  <2>5. Radio[h] = r /\ row[h] # "none" /\ h # m /\ "timeout" \in Statuses \ {"none"}
    BY <1>1, <1>2, <1>3, <2>3 DEF Statuses
  <2>11. Range(a) = (Range(q) \ {h}) \cup {m} /\ h \in Range(q)
    BY <2>3, <2>4
  <2> HIDE DEF a, h
  <2>6. /\ row' \in [Msgs -> Statuses] /\ row'[h] = Updated(h, "timeout")
        /\ \A x \in Msgs \ {h} : row'[x] = row[x]
        /\ \A x \in Msgs : row'[x] # "none" <=> row[x] # "none"
    BY <1>1, <2>1, <2>3, <2>5, OneUpdated
  <2>7. pend' \in [Radios -> Seq(Msgs)] /\ pend'[r] = a /\ \A s \in Radios \ {r} : pend'[s] = pend[s]
    BY <1>1, <2>1, <2>4 DEF HubTypes, a
  <2>8. \A s \in Radios : Listed(s, pend'[s])
    BY <1>1, <2>4, <2>7, <2>11, ZenonT(40) DEF HubInv, QueuesListed, Listed, a
  <2>9. \A x \in Msgs \ {m, h} : x \in Range(pend'[Radio[x]]) <=> x \in Range(pend[Radio[x]])
    BY <2>7, <2>11, RadioOf
  <2>10. m \in Range(pend'[Radio[m]]) /\ h \in Range(pend[Radio[h]]) /\ h \notin Range(pend'[Radio[h]])
    BY <2>5, <2>7, <2>11
  <2>12. QED
    BY <1>4, <2>1, <2>5, <2>6, <2>7, <2>8, <2>9, <2>10
<1>8. QED
  BY <1>5, <1>6, <1>7

(* A tracked message that gives way is timed out, unless it was settled. *)
LEMMA EvictedKeeps ==
    ASSUME HubTypes, NEW m \in Msgs, MsgInv(m), hub' = hub, lives' = lives,
           m \in Range(pend[Radio[m]]), m \notin Range(pend'[Radio[m]]), row'[m] = Updated(m, "timeout"),
           caller'[m] = caller[m], ackd'[m] = ackd[m], taken'[m] = taken[m], late' = late,
           m \in bound' <=> m \in bound,
           m \in Range(outq'[Radio[m]]) <=> m \in Range(outq[Radio[m]]),
           \A d \in HubDrains : HeldAs(m, d)' = HeldAs(m, d)
    PROVE  MsgInv(m)' /\ (row'[m] = row[m] \/ row'[m] \in Abstract!Following(row[m]))
<1>1. /\ m \in bound \ Broadcasts /\ ackd[m] = "none" /\ row[m] \in {"sent", "read", "deleted"}
      /\ HeldAs(m, "loop") # "timeout" /\ HeldAs(m, "event") # "timeout"
      /\ caller[m] \in {"done", "queued"} /\ m \notin Range(outq[Radio[m]])
  BY DEF MsgInv, SettledOnce, StatusOfSent
<1>2. \A d \in HubDrains : HeldAs(m, d) = "none"
  BY <1>1 DEF MsgInv, StatusOfSent, HubDrains
<1>3. row'[m] \in {"timeout", "read", "deleted"} /\ (row[m] # "sent" => row'[m] = row[m])
  BY <1>1 DEF Updated, Terminal
<1>4. InOnePlace(m)' /\ StatusOfWaiting(m)' /\ StatusOfSent(m)' /\ SettledOnce(m)'
  BY <1>1, <1>2, <1>3
     DEF MsgInv, InOnePlace, StatusOfWaiting, StatusOfSent, SettledOnce, Unheld, HubDrains, Settled
<1>5. Fresh(m)' <=> Fresh(m)
  BY DEF Fresh
<1>6. SendsCounted(m)'
  BY <1>5 DEF MsgInv, SendsCounted
<1>7. row'[m] = row[m] \/ row'[m] \in Abstract!Following(row[m])
  BY <1>1, <1>3, NextStatus DEF Settled
<1>8. QED
  BY <1>4, <1>6, <1>7 DEF MsgInv

LEMMA TrackSendKeeps ==
    ASSUME HubInv, NEW m \in Msgs, TrackSend(m)
    PROVE  HubInv' /\ Moves
<1>1. /\ caller[m] = "track" /\ hub # "down" /\ caller' \in [Msgs -> Callers]
      /\ caller'[m] = "done" /\ \A x \in Msgs \ {m} : caller'[x] = caller[x]
  BY DEF HubInv, HubTypes, TrackSend, CallerGoto, Callers
<1>2. UNCHANGED <<stored, outq, air, ackd, drain, late, taken, up, old, hub, lives>>
  BY DEF TrackSend
<1>3. HubTypes /\ MsgInv(m)
  BY DEF HubInv
<1>4. /\ m \notin Range(outq[Radio[m]]) /\ m \notin Range(pend[Radio[m]])
      /\ m \notin late /\ m \notin bound /\ ackd[m] = "none"
      /\ \A d \in HubDrains : HeldAs(m, d) = "none"
  BY <1>1, <1>3, WithSender
<1>5. /\ row[m] \in {"sent", "deleted", "read"} /\ (m \in Broadcasts => row[m] # "read")
      /\ taken[m] <= lives
  BY <1>1, <1>3, <1>4 DEF MsgInv, StatusOfSent, SendsCounted, HubTypes
<1>6. \A x \in Msgs, d \in HubDrains : HeldAs(x, d)' = HeldAs(x, d)
  BY <1>2, HeldUnchanged
<1>7. ~ Fresh(m)'
  BY <1>1, <1>2, <1>4, <1>6 DEF Fresh
<1>8. SendsCounted(m)'
  BY <1>1, <1>2, <1>3, <1>4, <1>5, <1>7 DEF SendsCounted, HubTypes
<1>9. CASE m \in Broadcasts
  <2>1. Update(m, "broadcast_sent") /\ UNCHANGED <<pend, bound>>
    BY <1>9 DEF TrackSend
  <2>2. row[m] # "none" /\ "broadcast_sent" \in Statuses \ {"none"}
    BY <1>5 DEF Statuses
  <2>3. /\ row' \in [Msgs -> Statuses] /\ row'[m] = Updated(m, "broadcast_sent")
        /\ \A x \in Msgs \ {m} : row'[x] = row[x]
        /\ \A x \in Msgs : row'[x] # "none" <=> row[x] # "none"
    BY <1>3, <2>1, <2>2, OneUpdated
  <2>4. row'[m] = IF row[m] = "deleted" THEN "deleted" ELSE "broadcast_sent"
    BY <2>3 DEF Updated
  <2>5. \A x \in Msgs \ {m} : MsgInv(x)'
    BY <1>1, <1>2, <1>6, <2>1, <2>3, Unmoved DEF HubInv, Same
  <2>6. InOnePlace(m)' /\ StatusOfWaiting(m)' /\ StatusOfSent(m)' /\ SettledOnce(m)'
    BY <1>1, <1>2, <1>4, <1>6, <1>9, <2>1, <2>4
       DEF InOnePlace, StatusOfWaiting, StatusOfSent, SettledOnce, Unheld, HubDrains
  <2>7. MsgInv(m)'
    BY <1>8, <2>6 DEF MsgInv
  <2>8. HubTypes' /\ QueuesListed' /\ NothingLeft' /\ (\A d \in HubDrains : DrainHolds(d))' /\ StoredOnce'
    BY <1>1, <1>2, <2>1, <2>3, StoredKept DEF HubInv, HubTypes, QueuesListed, NothingLeft, DrainHolds
  <2>9. Moves
    BY <1>5, <1>9, <2>3, <2>4, NextStatus DEF Moves
  <2>10. QED
    BY <2>5, <2>7, <2>8, <2>9 DEF HubInv
<1>10. CASE m \notin Broadcasts
  <2>1. Track(m)
    BY <1>10 DEF TrackSend
  <2>2. /\ pend' \in [Radios -> Seq(Msgs)] /\ \A r \in Radios : Listed(r, pend'[r])
        /\ row' \in [Msgs -> Statuses] /\ bound' = bound \cup {m}
        /\ \A x \in Msgs : row'[x] # "none" <=> row[x] # "none"
        /\ row'[m] = row[m]
        /\ m \in Range(pend'[Radio[m]])
    BY <1>4, <1>10, <2>1, TrackFacts
  <2>3. ASSUME NEW x \in Msgs \ {m}
        PROVE  MsgInv(x)' /\ (row'[x] = row[x] \/ row'[x] \in Abstract!Following(row[x]))
    <3>1. MsgInv(x)
      BY DEF HubInv
    <3>2. CASE row'[x] = row[x] /\ (x \in Range(pend'[Radio[x]]) <=> x \in Range(pend[Radio[x]]))
      BY <1>1, <1>2, <1>6, <2>2, <3>1, <3>2, Unmoved DEF Same
    <3>3. CASE /\ x \in Range(pend[Radio[x]]) /\ x \notin Range(pend'[Radio[x]])
               /\ row'[x] = Updated(x, "timeout")
      BY <1>1, <1>2, <1>3, <1>6, <2>2, <3>1, <3>3, EvictedKeeps
    <3>4. QED
      BY <1>4, <2>1, <3>2, <3>3, TrackFacts
  <2>4. InOnePlace(m)' /\ StatusOfWaiting(m)' /\ StatusOfSent(m)' /\ SettledOnce(m)'
    BY <1>1, <1>2, <1>4, <1>5, <1>6, <1>10, <2>2
       DEF InOnePlace, StatusOfWaiting, StatusOfSent, SettledOnce, Unheld, HubDrains, Settled
  <2>5. MsgInv(m)'
    BY <1>8, <2>4 DEF MsgInv
  <2>6. HubTypes' /\ QueuesListed' /\ NothingLeft' /\ (\A d \in HubDrains : DrainHolds(d))' /\ StoredOnce'
    BY <1>1, <1>2, <2>2, StoredKept DEF HubInv, HubTypes, QueuesListed, NothingLeft, DrainHolds
  <2>7. QED
    BY <2>2, <2>3, <2>5, <2>6 DEF HubInv, Moves
<1>11. QED
  BY <1>9, <1>10

(* A queue that is full gives its oldest message up. *)
LEMMA AppendQueuedKeeps ==
    ASSUME HubInv, NEW m \in Msgs, AppendQueued(m)
    PROVE  HubInv' /\ Moves
<1> DEFINE r == Radio[m]
<1> DEFINE q == outq[r]
<1> DEFINE h == Head(q)
<1>1. /\ caller[m] = "append" /\ hub # "down" /\ caller' \in [Msgs -> Callers]
      /\ caller'[m] = "queued" /\ \A x \in Msgs \ {m} : caller'[x] = caller[x]
  BY DEF HubInv, HubTypes, AppendQueued, CallerGoto, Callers
<1>2. UNCHANGED <<stored, pend, bound, air, ackd, drain, late, taken, up, old, hub, lives>>
  BY DEF AppendQueued
<1>3. HubTypes /\ MsgInv(m) /\ r \in Radios /\ q \in Seq(Msgs) /\ IsInjective(q) /\ \A x \in Range(q) : Radio[x] = r
  BY RadioOf DEF HubInv, HubTypes, QueuesListed, Listed
<1>4. /\ m \notin Range(q) /\ m \notin Range(pend[Radio[m]])
      /\ m \notin late /\ m \notin bound /\ ackd[m] = "none"
      /\ \A d \in HubDrains : HeldAs(m, d) = "none"
  BY <1>1, <1>3, WithSender
<1>5. row[m] \in {"queued", "deleted"} /\ taken[m] = 0 /\ 1 <= lives
  BY <1>1, <1>3, <1>4 DEF MsgInv, StatusOfWaiting, SendsCounted, Fresh, HubTypes
<1>6. \A x \in Msgs, d \in HubDrains : HeldAs(x, d)' = HeldAs(x, d)
  BY <1>2, HeldUnchanged
<1>7. \E a \in Seq(Msgs) :
         /\ outq' = [outq EXCEPT ![r] = a] /\ IsInjective(a)
         /\ row' \in [Msgs -> Statuses] /\ row'[m] = row[m]
         /\ \A x \in Msgs : row'[x] # "none" <=> row[x] # "none"
         /\ \/ Range(a) = Range(q) \cup {m} /\ row' = row
            \/ /\ q # <<>> /\ h \in Msgs \ {m} /\ h \in Range(q) /\ Range(a) = (Range(q) \ {h}) \cup {m}
               /\ row'[h] = Updated(h, "failed") /\ \A x \in Msgs \ {h} : row'[x] = row[x]
  <2>1. CASE Len(q) < QueueMax
    <3>1. outq' = [outq EXCEPT ![r] = Append(q, m)] /\ row' = row
      <4>1. ~ (Len(q) >= QueueMax)
        BY <1>3, <2>1, HubAssumption
      <4>2. QED
        BY <4>1 DEF AppendQueued
    <3>2. /\ Append(q, m) \in Seq(Msgs) /\ IsInjective(Append(q, m))
          /\ Range(Append(q, m)) = Range(q) \cup {m}
      BY <1>3, <1>4, AppendFacts
    <3>3. row \in [Msgs -> Statuses]
      BY <1>3 DEF HubTypes
    <3> HIDE DEF q, h
    <3>4. QED
      BY <3>1, <3>2, <3>3
  <2>2. CASE ~ (Len(q) < QueueMax)
    <3>1. Len(q) >= QueueMax /\ q # <<>>
      BY <1>3, <2>2, HubAssumption
    <3>2. outq' = [outq EXCEPT ![r] = Append(Tail(q), m)] /\ Update(h, "failed")
      BY <3>1 DEF AppendQueued
    <3>3. /\ h \in Msgs /\ Tail(q) \in Seq(Msgs) /\ IsInjective(Tail(q)) /\ h \notin Range(Tail(q))
          /\ Range(q) = Range(Tail(q)) \cup {h}
      BY <1>3, <3>1, TailFacts
    <3>4. /\ Append(Tail(q), m) \in Seq(Msgs) /\ IsInjective(Append(Tail(q), m))
          /\ Range(Append(Tail(q), m)) = Range(Tail(q)) \cup {m}
      <4> DEFINE t == Tail(q)
      <4>1. t \in Seq(Msgs) /\ IsInjective(t) /\ m \notin Range(t)
        BY <1>4, <3>3
      <4> HIDE DEF t
      <4>2. Append(t, m) \in Seq(Msgs) /\ IsInjective(Append(t, m)) /\ Range(Append(t, m)) = Range(t) \cup {m}
        BY <4>1, AppendFacts
      <4>3. QED
        BY <4>2 DEF t
    <3>5. h \in Range(q) /\ h # m /\ Radio[h] = r /\ MsgInv(h)
      BY <1>3, <1>4, <3>3 DEF HubInv
    <3>6. row[h] # "none"
      BY <3>5 DEF MsgInv, StatusOfWaiting
    <3>7. /\ row' \in [Msgs -> Statuses] /\ row'[h] = Updated(h, "failed")
          /\ \A x \in Msgs \ {h} : row'[x] = row[x]
          /\ \A x \in Msgs : row'[x] # "none" <=> row[x] # "none"
      <4>1. "failed" \in Statuses \ {"none"}
        BY DEF Statuses
      <4> HIDE DEF h
      <4>2. QED
        BY <1>3, <3>2, <3>3, <3>6, <4>1, OneUpdated
    <3> DEFINE a == Append(Tail(q), m)
    <3>8. Range(a) = (Range(q) \ {h}) \cup {m}
      BY <3>3, <3>4
    <3>9. a \in Seq(Msgs) /\ IsInjective(a) /\ outq' = [outq EXCEPT ![r] = a]
      BY <3>2, <3>4
    <3> HIDE DEF a, q, h
    <3>10. QED
      BY <3>1, <3>3, <3>5, <3>7, <3>8, <3>9
  <2>3. QED
    BY <2>1, <2>2
<1>8. PICK a \in Seq(Msgs) :
         /\ outq' = [outq EXCEPT ![r] = a] /\ IsInjective(a)
         /\ row' \in [Msgs -> Statuses] /\ row'[m] = row[m]
         /\ \A x \in Msgs : row'[x] # "none" <=> row[x] # "none"
         /\ \/ Range(a) = Range(q) \cup {m} /\ row' = row
            \/ /\ q # <<>> /\ h \in Msgs \ {m} /\ h \in Range(q) /\ Range(a) = (Range(q) \ {h}) \cup {m}
               /\ row'[h] = Updated(h, "failed") /\ \A x \in Msgs \ {h} : row'[x] = row[x]
  BY <1>7
<1>9. outq' \in [Radios -> Seq(Msgs)] /\ outq'[r] = a /\ \A s \in Radios \ {r} : outq'[s] = outq[s]
  BY <1>3, <1>8 DEF HubTypes
<1>10. QueuesListed'
  <2>1. \A x \in Range(a) : Radio[x] = r
    BY <1>3, <1>8
  <2>2. QED
    BY <1>2, <1>8, <1>9, <2>1 DEF HubInv, QueuesListed, Listed
<1> HIDE DEF q
<1>11. /\ m \in Range(outq'[Radio[m]])
       /\ \A x \in Msgs \ {m} : x \in Range(outq'[Radio[x]]) => x \in Range(outq[Radio[x]])
  BY <1>8, <1>9, RadioOf DEF q
<1>12. ASSUME NEW x \in Msgs \ {m}, row'[x] = row[x],
              x \in Range(outq'[Radio[x]]) <=> x \in Range(outq[Radio[x]])
       PROVE  MsgInv(x)'
  BY <1>1, <1>2, <1>6, <1>12, Unmoved DEF HubInv, Same
<1>13. ASSUME NEW x \in Msgs \ {m}, x \in Range(outq[Radio[x]]), x \notin Range(outq'[Radio[x]]),
              row'[x] = Updated(x, "failed")
       PROVE  MsgInv(x)' /\ (row'[x] = row[x] \/ row'[x] \in Abstract!Following(row[x]))
  <2>1. MsgInv(x)
    BY DEF HubInv
  <2>2. /\ caller[x] = "queued" /\ \A d \in HubDrains : HeldAs(x, d) = "none"
        /\ row[x] \in {"queued", "deleted"} /\ x \notin bound
    BY <1>13, <2>1 DEF MsgInv, InOnePlace, StatusOfWaiting, StatusOfSent, Unheld
  <2>3. x \notin Range(pend[Radio[x]]) /\ ackd[x] = "none"
    BY <2>1, <2>2 DEF MsgInv, SettledOnce
  <2>4. row'[x] \in {"failed", "deleted"} /\ (row'[x] = row[x] \/ row'[x] \in Abstract!Following(row[x]))
    BY <1>13, <2>2, NextStatus DEF Updated
  <2>5. InOnePlace(x)' /\ StatusOfWaiting(x)' /\ StatusOfSent(x)' /\ SettledOnce(x)'
    BY <1>1, <1>2, <1>6, <1>13, <2>2, <2>3, <2>4
       DEF InOnePlace, StatusOfWaiting, StatusOfSent, SettledOnce, Unheld, HubDrains
  <2>6. SendsCounted(x)'
    <3>1. Fresh(x)
      BY <1>13 DEF Fresh
    <3>2. taken[x] + (IF x \in late THEN 1 ELSE 0) + 1 <= lives
      BY <2>1, <3>1 DEF MsgInv, SendsCounted
    <3>3. taken[x] \in Nat /\ lives \in Nat /\ taken'[x] = taken[x] /\ lives' = lives /\ late' = late
          /\ caller'[x] = "queued"
      BY <1>1, <1>2, <1>3, <2>2 DEF HubTypes
    <3>4. QED
      BY <3>2, <3>3 DEF SendsCounted
  <2>7. QED
    BY <2>4, <2>5, <2>6 DEF MsgInv
<1>14. ASSUME NEW x \in Msgs \ {m}
       PROVE  MsgInv(x)' /\ (row'[x] = row[x] \/ row'[x] \in Abstract!Following(row[x]))
  <2>1. CASE Range(a) = Range(q) \cup {m} /\ row' = row
    <3>1. row'[x] = row[x] /\ (x \in Range(outq'[Radio[x]]) <=> x \in Range(outq[Radio[x]]))
      BY <1>9, <2>1, RadioOf DEF q
    <3>2. QED
      BY <1>12, <3>1
  <2>2. CASE /\ h \in Msgs \ {m} /\ h \in Range(q) /\ Range(a) = (Range(q) \ {h}) \cup {m}
             /\ row'[h] = Updated(h, "failed") /\ \A y \in Msgs \ {h} : row'[y] = row[y]
    <3> HIDE DEF h
    <3>1. CASE x = h
      <4>1. Radio[x] = r /\ x \in Range(outq[Radio[x]]) /\ x \notin Range(outq'[Radio[x]])
        BY <1>3, <1>9, <2>2, <3>1 DEF q
      <4>2. QED
        BY <1>13, <2>2, <3>1, <4>1
    <3>2. CASE x # h
      <4>1. row'[x] = row[x] /\ (x \in Range(outq'[Radio[x]]) <=> x \in Range(outq[Radio[x]]))
        BY <1>9, <2>2, <3>2, RadioOf DEF q
      <4>2. QED
        BY <1>12, <4>1
    <3>3. QED
      BY <3>1, <3>2
  <2>3. QED
    BY <1>8, <2>1, <2>2
<1>15. MsgInv(m)'
  <2>1. InOnePlace(m)' /\ StatusOfWaiting(m)' /\ StatusOfSent(m)' /\ SettledOnce(m)'
    BY <1>1, <1>2, <1>4, <1>5, <1>6, <1>8, <1>11
       DEF InOnePlace, StatusOfWaiting, StatusOfSent, SettledOnce, Unheld, HubDrains
  <2>2. SendsCounted(m)'
    BY <1>1, <1>2, <1>3, <1>4, <1>5 DEF SendsCounted, HubTypes
  <2>3. QED
    BY <2>1, <2>2 DEF MsgInv
<1>16. HubTypes' /\ NothingLeft' /\ (\A d \in HubDrains : DrainHolds(d))' /\ StoredOnce'
  BY <1>1, <1>2, <1>8, <1>9, StoredKept DEF HubInv, HubTypes, NothingLeft, DrainHolds
<1>17. Moves
  BY <1>8, <1>14 DEF Moves
<1>18. QED
  BY <1>10, <1>14, <1>15, <1>16, <1>17 DEF HubInv

-----------------------------------------------------------------------------
(* Acknowledgements, receipts and deletions *)

LEMMA UntrackFacts ==
    ASSUME HubInv, NEW m \in Msgs, pend' = Untracked(m)
    PROVE  /\ pend' \in [Radios -> Seq(Msgs)] /\ \A r \in Radios : Listed(r, pend'[r])
           /\ m \notin Range(pend'[Radio[m]])
           /\ \A x \in Msgs \ {m} : x \in Range(pend'[Radio[x]]) <=> x \in Range(pend[Radio[x]])
<1> DEFINE r == Radio[m]
<1> DEFINE k == Kept(pend[r], Msgs \ {m})
<1>1. /\ r \in Radios /\ pend \in [Radios -> Seq(Msgs)] /\ pend[r] \in Seq(Msgs) /\ IsInjective(pend[r])
      /\ \A x \in Range(pend[r]) : Radio[x] = r
  BY RadioOf DEF HubInv, HubTypes, QueuesListed, Listed
<1>2. k \in Seq(Msgs) /\ Range(k) = Range(pend[r]) \cap (Msgs \ {m}) /\ IsInjective(k)
  BY <1>1, KeptFacts
<1>3. pend' = [pend EXCEPT ![r] = k]
  BY DEF Untracked
<1> HIDE DEF k
<1>4. pend' \in [Radios -> Seq(Msgs)] /\ pend'[r] = k /\ \A s \in Radios \ {r} : pend'[s] = pend[s]
  BY <1>1, <1>2, <1>3
<1>5. \A s \in Radios : Listed(s, pend'[s])
  BY <1>1, <1>2, <1>4 DEF HubInv, QueuesListed, Listed
<1>6. m \notin Range(pend'[Radio[m]])
  BY <1>2, <1>4
<1>7. \A x \in Msgs \ {m} : x \in Range(pend'[Radio[x]]) <=> x \in Range(pend[Radio[x]])
  BY <1>2, <1>4, RadioOf
<1>8. QED
  BY <1>4, <1>5, <1>6, <1>7

LEMMA AcknowledgeKeeps ==
    ASSUME HubInv, NEW m \in Msgs, NEW status \in {"delivered", "delivery_failed", "propagated"},
           Acknowledge(m, status)
    PROVE  HubInv' /\ Moves
<1>1. /\ m \in air /\ m \notin Broadcasts /\ air' = air \ {m} /\ pend' = Untracked(m)
      /\ Kind[Radio[m]] = "meshtastic" => m \in bound /\ status # "propagated"
  BY DEF Acknowledge
<1>2. UNCHANGED <<row, stored, outq, bound, caller, drain, late, taken, up, old, hub, lives>>
  BY DEF Acknowledge
<1>3. HubTypes /\ MsgInv(m) /\ hub # "down"
  BY <1>1, Running DEF HubInv
<1>4. /\ pend' \in [Radios -> Seq(Msgs)] /\ \A r \in Radios : Listed(r, pend'[r])
      /\ m \notin Range(pend'[Radio[m]])
      /\ \A x \in Msgs \ {m} : x \in Range(pend'[Radio[x]]) <=> x \in Range(pend[Radio[x]])
  BY <1>1, UntrackFacts
<1>5. /\ ackd' \in [Msgs -> {"none", "delivered", "delivery_failed", "propagated"}]
      /\ \A x \in Msgs \ {m} : ackd'[x] = ackd[x]
      /\ \/ ackd'[m] = ackd[m]
         \/ /\ Kind[Radio[m]] = "meshtastic" \/ m \in Range(pend[Radio[m]])
            /\ ackd'[m] = status
  BY <1>3 DEF Acknowledge, HubTypes
<1>6. \A x \in Msgs, d \in HubDrains : HeldAs(x, d)' = HeldAs(x, d)
  BY <1>2, HeldUnchanged
<1>7. \A x \in Msgs \ {m} : MsgInv(x)'
  BY <1>2, <1>4, <1>5, <1>6, Unmoved DEF HubInv, Same
<1>8. MsgInv(m)'
  <2>1. InOnePlace(m)' /\ StatusOfWaiting(m)' /\ StatusOfSent(m)'
    BY <1>2, <1>3, <1>6 DEF MsgInv, InOnePlace, StatusOfWaiting, StatusOfSent, Unheld
  <2>2. SettledOnce(m)'
    BY <1>1, <1>2, <1>3, <1>4, <1>5, <1>6 DEF MsgInv, SettledOnce, HubDrains
  <2>3. Fresh(m)' <=> Fresh(m)
    BY <1>2, <1>6 DEF Fresh
  <2>4. SendsCounted(m)'
    BY <1>2, <1>3, <2>3 DEF MsgInv, SendsCounted
  <2>5. QED
    BY <2>1, <2>2, <2>4 DEF MsgInv
<1>9. HubTypes' /\ QueuesListed' /\ NothingLeft' /\ (\A d \in HubDrains : DrainHolds(d))' /\ StoredOnce'
  BY <1>1, <1>2, <1>3, <1>4, <1>5 DEF HubInv, HubTypes, QueuesListed, NothingLeft, DrainHolds, StoredOnce
<1>10. QED
  BY <1>2, <1>7, <1>8, <1>9 DEF HubInv, Moves

LEMMA AckStoredKeeps ==
    ASSUME HubInv, NEW m \in Msgs, AckStored(m)
    PROVE  HubInv' /\ Moves
<1>1. /\ ackd[m] # "none" /\ ackd' = [ackd EXCEPT ![m] = "none"] /\ hub # "down"
      /\ Update(m, ackd[m])
  BY Running DEF AckStored
<1>2. UNCHANGED <<stored, outq, pend, bound, air, caller, drain, late, taken, up, old, hub, lives>>
  BY DEF AckStored
<1>3. HubTypes /\ MsgInv(m) /\ ackd[m] \in {"delivered", "delivery_failed", "propagated"}
  BY <1>1 DEF HubInv, HubTypes
<1>4. /\ m \in bound \ Broadcasts /\ m \notin Range(pend[Radio[m]])
      /\ caller[m] \in {"done", "queued"} /\ m \notin Range(outq[Radio[m]])
      /\ row[m] \in {"sent", "deleted"} \cup Settled
      /\ \A d \in HubDrains : HeldAs(m, d) \in {"none", "timeout"}
      /\ HeldAs(m, "loop") = "timeout" => ackd[m] # "propagated"
      /\ HeldAs(m, "event") # "timeout"
  BY <1>1, <1>3 DEF MsgInv, SettledOnce, StatusOfSent
<1>5. row[m] # "none" /\ ackd[m] \in Statuses \ {"none"}
  BY <1>3, <1>4 DEF Settled, Statuses
<1>6. /\ row' \in [Msgs -> Statuses] /\ row'[m] = Updated(m, ackd[m])
      /\ \A x \in Msgs \ {m} : row'[x] = row[x]
      /\ \A x \in Msgs : row'[x] # "none" <=> row[x] # "none"
  BY <1>1, <1>3, <1>5, OneUpdated
<1>7. row'[m] = IF row[m] = "deleted" THEN "deleted" ELSE ackd[m]
  BY <1>3, <1>6 DEF Updated
<1>8. /\ ackd' \in [Msgs -> {"none", "delivered", "delivery_failed", "propagated"}]
      /\ ackd'[m] = "none" /\ \A x \in Msgs \ {m} : ackd'[x] = ackd[x]
  BY <1>1, <1>3 DEF HubTypes
<1>9. \A x \in Msgs, d \in HubDrains : HeldAs(x, d)' = HeldAs(x, d)
  BY <1>2, HeldUnchanged
<1>10. \A x \in Msgs \ {m} : MsgInv(x)'
  BY <1>2, <1>6, <1>8, <1>9, Unmoved DEF HubInv, Same
<1>11. MsgInv(m)'
  <2>1. InOnePlace(m)'
    BY <1>2, <1>3, <1>9 DEF MsgInv, InOnePlace, Unheld
  <2>2. row'[m] \in {"deleted"} \cup Settled
    BY <1>3, <1>7 DEF Settled
  <2>3. StatusOfWaiting(m)' /\ StatusOfSent(m)'
    BY <1>2, <1>4, <1>9, <2>2 DEF StatusOfWaiting, StatusOfSent, HubDrains, Settled
  <2>4. SettledOnce(m)'
    BY <1>2, <1>4, <1>7, <1>8, <1>9 DEF SettledOnce, HubDrains
  <2>5. Fresh(m)' <=> Fresh(m)
    BY <1>2, <1>9 DEF Fresh
  <2>6. SendsCounted(m)'
    BY <1>2, <1>3, <2>5 DEF MsgInv, SendsCounted
  <2>7. QED
    BY <2>1, <2>3, <2>4, <2>6 DEF MsgInv
<1>12. HubTypes' /\ QueuesListed' /\ NothingLeft' /\ (\A d \in HubDrains : DrainHolds(d))' /\ StoredOnce'
  BY <1>1, <1>2, <1>6, <1>8, StoredKept DEF HubInv, HubTypes, QueuesListed, NothingLeft, DrainHolds
<1>13. row'[m] = row[m] \/ row'[m] \in Abstract!Following(row[m])
  BY <1>3, <1>4, <1>7, NextStatus DEF Settled
<1>14. QED
  BY <1>6, <1>10, <1>11, <1>12, <1>13 DEF HubInv, Moves

LEMMA ReadReceiptKeeps ==
    ASSUME HubInv, NEW m \in Msgs, ReadReceipt(m)
    PROVE  HubInv' /\ Moves
<1>1. /\ hub = "up" /\ m \notin Broadcasts /\ caller[m] \in {"track", "done"} /\ taken[m] > 0
      /\ row[m] # "none" /\ Update(m, "read")
  BY DEF ReadReceipt
<1>2. UNCHANGED <<stored, outq, pend, bound, air, ackd, caller, drain, late, taken, up, old, hub, lives>>
  BY DEF ReadReceipt
<1>3. HubTypes /\ MsgInv(m)
  BY DEF HubInv
<1>4. /\ row[m] \in {"sent", "deleted"} \cup Settled /\ m \notin Range(outq[Radio[m]])
      /\ \A d \in HubDrains : HeldAs(m, d) \notin {"wait", "mark", "track"}
  BY <1>1, <1>3 DEF MsgInv, InOnePlace, StatusOfSent
<1>5. /\ row' \in [Msgs -> Statuses] /\ row'[m] = Updated(m, "read")
      /\ \A x \in Msgs \ {m} : row'[x] = row[x]
      /\ \A x \in Msgs : row'[x] # "none" <=> row[x] # "none"
  <2>1. "read" \in Statuses \ {"none"}
    BY DEF Statuses
  <2>2. QED
    BY <1>1, <1>3, <2>1, OneUpdated
<1>6. row'[m] = IF row[m] = "deleted" THEN "deleted" ELSE "read"
  BY <1>5 DEF Updated
<1>7. \A x \in Msgs, d \in HubDrains : HeldAs(x, d)' = HeldAs(x, d)
  BY <1>2, HeldUnchanged
<1>8. \A x \in Msgs \ {m} : MsgInv(x)'
  BY <1>2, <1>5, <1>7, Unmoved DEF HubInv, Same
<1>9. MsgInv(m)'
  <2>1. InOnePlace(m)'
    BY <1>2, <1>3, <1>7 DEF MsgInv, InOnePlace, Unheld
  <2>2. StatusOfWaiting(m)' /\ StatusOfSent(m)'
    BY <1>1, <1>2, <1>3, <1>4, <1>6, <1>7 DEF MsgInv, StatusOfWaiting, StatusOfSent, HubDrains, Settled
  <2>3. SettledOnce(m)'
    BY <1>2, <1>3, <1>6, <1>7 DEF MsgInv, SettledOnce, HubDrains
  <2>4. Fresh(m)' <=> Fresh(m)
    BY <1>2, <1>7 DEF Fresh
  <2>5. SendsCounted(m)'
    BY <1>2, <1>3, <2>4 DEF MsgInv, SendsCounted
  <2>6. QED
    BY <2>1, <2>2, <2>3, <2>5 DEF MsgInv
<1>10. HubTypes' /\ QueuesListed' /\ NothingLeft' /\ (\A d \in HubDrains : DrainHolds(d))' /\ StoredOnce'
  BY <1>2, <1>5, StoredKept DEF HubInv, HubTypes, QueuesListed, NothingLeft, DrainHolds
<1>11. row'[m] = row[m] \/ row'[m] \in Abstract!Following(row[m])
  BY <1>4, <1>6, NextStatus DEF Settled
<1>12. QED
  BY <1>5, <1>8, <1>9, <1>10, <1>11 DEF HubInv, Moves

LEMMA DeleteRowKeeps ==
    ASSUME HubInv, NEW m \in Msgs, DeleteRow(m)
    PROVE  HubInv' /\ Moves
<1>1. /\ hub # "down" /\ row[m] \notin {"none", "deleted"} /\ row' = [row EXCEPT ![m] = "deleted"]
  BY DEF DeleteRow
<1>2. UNCHANGED <<stored, outq, pend, bound, air, ackd, caller, drain, late, taken, up, old, hub, lives>>
  BY DEF DeleteRow
<1>3. HubTypes /\ MsgInv(m)
  BY DEF HubInv
<1>4. /\ row' \in [Msgs -> Statuses] /\ row'[m] = "deleted"
      /\ \A x \in Msgs \ {m} : row'[x] = row[x]
      /\ \A x \in Msgs : row'[x] # "none" <=> row[x] # "none"
  BY <1>1, <1>3 DEF HubTypes, Statuses
<1>5. \A x \in Msgs, d \in HubDrains : HeldAs(x, d)' = HeldAs(x, d)
  BY <1>2, HeldUnchanged
<1>6. \A x \in Msgs \ {m} : MsgInv(x)'
  BY <1>2, <1>4, <1>5, Unmoved DEF HubInv, Same
<1>7. MsgInv(m)'
  <2>1. InOnePlace(m)' /\ StatusOfWaiting(m)' /\ StatusOfSent(m)' /\ SettledOnce(m)'
    BY <1>1, <1>2, <1>3, <1>4, <1>5
       DEF MsgInv, InOnePlace, StatusOfWaiting, StatusOfSent, SettledOnce, Unheld, HubDrains
  <2>2. Fresh(m)' <=> Fresh(m)
    BY <1>2, <1>5 DEF Fresh
  <2>3. SendsCounted(m)'
    BY <1>2, <1>3, <2>2 DEF MsgInv, SendsCounted
  <2>4. QED
    BY <2>1, <2>3 DEF MsgInv
<1>8. HubTypes' /\ QueuesListed' /\ NothingLeft' /\ (\A d \in HubDrains : DrainHolds(d))' /\ StoredOnce'
  BY <1>2, <1>4, StoredKept DEF HubInv, HubTypes, QueuesListed, NothingLeft, DrainHolds
<1>9. row'[m] \in Abstract!Following(row[m])
  BY <1>1, <1>3, <1>4, NextStatus DEF HubTypes, Statuses, Settled
<1>10. QED
  BY <1>4, <1>6, <1>7, <1>8, <1>9 DEF HubInv, Moves

-----------------------------------------------------------------------------
(* Drains of an earlier life, the radios and the clock *)

LEMMA LateSendKeeps ==
    ASSUME HubInv, NEW m \in Msgs, LateSend(m)
    PROVE  HubInv' /\ Moves
<1>1. /\ m \in late /\ late' = late \ {m}
      /\ taken' = [taken EXCEPT ![m] = @ + (IF up[Radio[m]] THEN 1 ELSE 0)]
  BY DEF LateSend
<1>2. UNCHANGED <<row, stored, outq, pend, bound, air, ackd, caller, drain, up, old, hub, lives>>
  BY DEF LateSend
<1>3. HubTypes /\ MsgInv(m) /\ taken[m] \in Nat /\ lives \in Nat
  BY DEF HubInv, HubTypes
<1>4. caller[m] = "queued"
  BY <1>1, <1>3 DEF MsgInv, InOnePlace
<1>5. /\ taken' \in [Msgs -> Nat] /\ taken'[m] \in {taken[m], taken[m] + 1}
      /\ \A x \in Msgs \ {m} : taken'[x] = taken[x]
  <2>1. CASE up[Radio[m]]
    BY <1>1, <1>3, <2>1 DEF HubTypes
  <2>2. CASE ~ up[Radio[m]]
    BY <1>1, <1>3, <2>2 DEF HubTypes
  <2>3. QED
    BY <2>1, <2>2
<1>6. \A x \in Msgs, d \in HubDrains : HeldAs(x, d)' = HeldAs(x, d)
  BY <1>2, HeldUnchanged
<1>7. \A x \in Msgs \ {m} : MsgInv(x)'
  BY <1>1, <1>2, <1>5, <1>6, Unmoved DEF HubInv, Same
<1>8. MsgInv(m)'
  <2>1. InOnePlace(m)' /\ StatusOfWaiting(m)' /\ StatusOfSent(m)' /\ SettledOnce(m)'
    BY <1>1, <1>2, <1>3, <1>4, <1>6
       DEF MsgInv, InOnePlace, StatusOfWaiting, StatusOfSent, SettledOnce, Unheld, HubDrains
  <2>2. Fresh(m)' <=> Fresh(m)
    BY <1>2, <1>6 DEF Fresh
  <2>3. taken[m] + 1 + (IF Fresh(m) THEN 1 ELSE 0) <= lives
    BY <1>1, <1>3 DEF MsgInv, SendsCounted
  <2>4. SendsCounted(m)'
    BY <1>1, <1>2, <1>3, <1>4, <1>5, <2>2, <2>3 DEF SendsCounted
  <2>5. QED
    BY <2>1, <2>4 DEF MsgInv
<1>9. HubTypes' /\ QueuesListed' /\ NothingLeft' /\ (\A d \in HubDrains : DrainHolds(d))' /\ StoredOnce'
  BY <1>1, <1>2, <1>5 DEF HubInv, HubTypes, QueuesListed, NothingLeft, DrainHolds, StoredOnce
<1>10. QED
  BY <1>2, <1>7, <1>8, <1>9 DEF HubInv, Moves

(* Steps that change nothing the invariant says of messages *)
LEMMA WorldKeeps ==
    ASSUME HubInv, UNCHANGED <<row, stored, outq, pend, bound, air, ackd, caller, drain, late, taken, lives>>,
           up' \in [Radios -> BOOLEAN], old' \subseteq Msgs, hub' \in {"up", "closing", "down"},
           hub' = "down" <=> hub = "down"
    PROVE  HubInv' /\ Moves
<1>1. \A x \in Msgs, d \in HubDrains : HeldAs(x, d)' = HeldAs(x, d)
  BY HeldUnchanged
<1>2. \A x \in Msgs : MsgInv(x)'
  BY <1>1, Unmoved DEF HubInv, Same
<1>3. HubTypes' /\ QueuesListed' /\ NothingLeft' /\ (\A d \in HubDrains : DrainHolds(d))' /\ StoredOnce'
  BY DEF HubInv, HubTypes, QueuesListed, NothingLeft, DrainHolds, StoredOnce
<1>4. QED
  BY <1>2, <1>3 DEF HubInv, Moves

LEMMA OutsideKeeps ==
    ASSUME HubInv,
           (\E r \in Radios : LinkChanges(r)) \/ (\E m \in Msgs : GrowsOld(m)) \/ StopHub
    PROVE  HubInv' /\ Moves
<1>1. HubTypes
  BY DEF HubInv
<1>2. ASSUME NEW r \in Radios, LinkChanges(r) PROVE HubInv' /\ Moves
  <2>1. up' \in [Radios -> BOOLEAN]
    BY <1>1, <1>2 DEF LinkChanges, HubTypes
  <2>2. QED
    BY <1>1, <1>2, <2>1, WorldKeeps DEF LinkChanges, HubTypes
<1>3. ASSUME NEW m \in Msgs, GrowsOld(m) PROVE HubInv' /\ Moves
  BY <1>1, <1>3, WorldKeeps DEF GrowsOld, HubTypes
<1>4. CASE StopHub
  BY <1>1, <1>4, WorldKeeps DEF StopHub, HubTypes
<1>5. QED
  BY <1>2, <1>3, <1>4

-----------------------------------------------------------------------------
(* Drains *)

(* A message that waits, in its queue or with one drain *)
LEMMA WaitingFacts ==
    ASSUME HubTypes, NEW m \in Msgs, MsgInv(m),
           \/ m \in Range(outq[Radio[m]])
           \/ \E d \in HubDrains : HeldAs(m, d) \in {"wait", "mark"}
    PROVE  /\ caller[m] = "queued" /\ row[m] \in {"queued", "deleted"}
           /\ m \notin bound /\ m \notin Range(pend[Radio[m]]) /\ ackd[m] = "none"
<1>1. caller[m] = "queued" /\ row[m] \in {"queued", "deleted"} /\ m \notin bound
  BY DEF MsgInv, InOnePlace, StatusOfWaiting, StatusOfSent
<1>2. QED
  BY <1>1 DEF MsgInv, SettledOnce

(* One drain has the message, and nobody else. *)
LEMMA WithDrain ==
    ASSUME NEW m \in Msgs, MsgInv(m), NEW d \in HubDrains, HeldAs(m, d) \in {"wait", "mark", "track"}
    PROVE  /\ m \notin Range(outq[Radio[m]])
           /\ \A e \in HubDrains \ {d} : HeldAs(m, e) = "none"
<1>1. m \notin Range(outq[Radio[m]])
  BY DEF MsgInv, InOnePlace, Unheld
<1>2. QED
  BY <1>1 DEF MsgInv, InOnePlace

(* A waiting message is given up. *)
LEMMA GivenUpKeeps ==
    ASSUME HubTypes, NEW m \in Msgs, MsgInv(m), hub' = hub, lives' = lives,
           caller'[m] = caller[m], ackd'[m] = ackd[m], taken'[m] = taken[m], late' = late, bound' = bound,
           \/ m \in Range(outq[Radio[m]])
           \/ \E d \in HubDrains : HeldAs(m, d) \in {"wait", "mark"},
           m \notin Range(outq'[Radio[m]]), m \notin Range(pend'[Radio[m]]),
           \A d \in HubDrains : HeldAs(m, d)' = "none",
           NEW status \in {"failed", "expired"}, row'[m] = Updated(m, status)
    PROVE  MsgInv(m)' /\ (row'[m] = row[m] \/ row'[m] \in Abstract!Following(row[m]))
<1>1. /\ caller[m] = "queued" /\ row[m] \in {"queued", "deleted"}
      /\ m \notin bound /\ m \notin Range(pend[Radio[m]]) /\ ackd[m] = "none"
  BY WaitingFacts
<1>2. /\ row'[m] \in {"failed", "expired", "deleted"}
      /\ row'[m] = row[m] \/ row'[m] \in Abstract!Following(row[m])
  BY <1>1, NextStatus DEF Updated, Terminal
<1>3. InOnePlace(m)' /\ StatusOfWaiting(m)' /\ StatusOfSent(m)' /\ SettledOnce(m)'
  BY <1>1, <1>2 DEF InOnePlace, StatusOfWaiting, StatusOfSent, SettledOnce, Unheld, HubDrains
<1>4. ~ Fresh(m)'
  BY <1>1 DEF Fresh
<1>5. taken[m] + (IF m \in late THEN 1 ELSE 0) <= lives
  BY DEF MsgInv, SendsCounted, HubTypes
<1>6. SendsCounted(m)'
  BY <1>1, <1>4, <1>5 DEF SendsCounted, HubTypes
<1>7. QED
  BY <1>2, <1>3, <1>6 DEF MsgInv

(* A message in the hands of a drain goes back to its queue. *)
LEMMA RequeuedKeeps ==
    ASSUME HubTypes, NEW m \in Msgs, MsgInv(m), hub' = hub, lives' = lives,
           row'[m] = row[m], caller'[m] = caller[m], ackd'[m] = ackd[m], taken'[m] = taken[m],
           late' = late, bound' = bound, pend' = pend,
           NEW d \in HubDrains, HeldAs(m, d) = "wait",
           m \in Range(outq'[Radio[m]]),
           \A e \in HubDrains : HeldAs(m, e)' = "none"
    PROVE  MsgInv(m)'
<1>1. /\ caller[m] = "queued" /\ row[m] \in {"queued", "deleted"}
      /\ m \notin bound /\ m \notin Range(pend[Radio[m]]) /\ ackd[m] = "none"
  BY WaitingFacts
<1>2. m \in late => caller[m] = "queued"
  BY DEF MsgInv, InOnePlace
<1>3. InOnePlace(m)' /\ StatusOfWaiting(m)' /\ StatusOfSent(m)' /\ SettledOnce(m)'
  BY <1>1, <1>2 DEF InOnePlace, StatusOfWaiting, StatusOfSent, SettledOnce, Unheld, HubDrains
<1>4. Fresh(m) /\ Fresh(m)'
  BY DEF Fresh
<1>5. SendsCounted(m)'
  BY <1>4 DEF MsgInv, SendsCounted
<1>6. QED
  BY <1>3, <1>5 DEF MsgInv

(* The queue of one radio has been replaced. *)
LEMMA QueueChanged ==
    ASSUME HubInv, NEW r \in Radios, NEW a \in Seq(Msgs), outq' = [outq EXCEPT ![r] = a],
           Listed(r, a), pend' = pend
    PROVE  /\ outq' \in [Radios -> Seq(Msgs)] /\ QueuesListed'
           /\ outq'[r] = a /\ \A s \in Radios \ {r} : outq'[s] = outq[s]
<1>1. /\ outq' \in [Radios -> Seq(Msgs)] /\ outq'[r] = a /\ \A s \in Radios \ {r} : outq'[s] = outq[s]
  BY DEF HubInv, HubTypes
<1>2. QED
  BY <1>1 DEF HubInv, QueuesListed, Listed

LEMMA DrainTakeKeeps ==
    ASSUME HubInv, NEW d \in HubDrains, NEW r \in Radios, DrainTake(d, r)
    PROVE  HubInv' /\ Moves
<1> DEFINE v == [pc |-> "adapter", radio |-> r, items |-> outq[r], stale |-> {}]
<1>1. /\ hub # "down" /\ drain[d].pc = "idle" /\ drain' = [drain EXCEPT ![d] = v]
      /\ outq' = [outq EXCEPT ![r] = <<>>]
  BY DEF DrainTake
<1>2. UNCHANGED <<row, stored, pend, bound, air, ackd, caller, late, taken, up, old, hub, lives>>
  BY DEF DrainTake
<1>3. /\ HubTypes /\ outq[r] \in Seq(Msgs) /\ IsInjective(outq[r]) /\ \A x \in Range(outq[r]) : Radio[x] = r
      /\ drain[d].items = <<>>
  BY <1>1 DEF HubInv, HubTypes, QueuesListed, Listed, DrainHolds
<1>4. v \in DrainRecords /\ v.pc = "adapter" /\ v.radio = r /\ v.items = outq[r]
  BY <1>3 DEF DrainRecords, DrainSteps
<1> HIDE DEF v
<1>5. /\ drain' \in [HubDrains -> DrainRecords] /\ drain'[d] = v
      /\ \A e \in HubDrains \ {d} : drain'[e] = drain[e]
  BY <1>1, <1>3, <1>4, DrainChanged
<1>6. drain'[d].pc = "adapter" /\ drain'[d].radio = r /\ drain'[d].items = outq[r]
  BY <1>4, <1>5
<1>7. \A e \in HubDrains : DrainHolds(e)'
  BY <1>3, <1>5, <1>6 DEF HubInv, DrainHolds
<1>8. /\ outq' \in [Radios -> Seq(Msgs)] /\ QueuesListed'
      /\ outq'[r] = <<>> /\ \A s \in Radios \ {r} : outq'[s] = outq[s]
  BY <1>1, <1>2, EmptyFacts, QueueChanged DEF Listed
<1>9. /\ \A x \in Msgs : HeldAs(x, d) = "none"
      /\ \A x \in Msgs : HeldAs(x, d)' = IF x \in Range(outq[r]) THEN "wait" ELSE "none"
      /\ \A x \in Msgs, e \in HubDrains \ {d} : HeldAs(x, e)' = HeldAs(x, e)
  BY <1>3, <1>5, <1>6, EmptyFacts, HeldUnchanged DEF HeldAs
<1>10. ASSUME NEW x \in Msgs PROVE MsgInv(x)'
  <2>1. MsgInv(x)
    BY DEF HubInv
  <2>2. CASE x \in Range(outq[r])
    <3>1. Radio[x] = r /\ x \notin Range(outq'[Radio[x]])
      BY <1>3, <1>8, <2>2, EmptyFacts
    <3>2. /\ caller[x] = "queued" /\ row[x] \in {"queued", "deleted"}
          /\ x \notin bound /\ x \notin Range(pend[Radio[x]]) /\ ackd[x] = "none"
      BY <1>3, <2>1, <2>2, <3>1, WaitingFacts
    <3>3. \A e \in HubDrains : HeldAs(x, e)' = IF e = d THEN "wait" ELSE "none"
      BY <1>9, <2>1, <2>2, <3>1 DEF MsgInv, InOnePlace, Unheld
    <3>4. InOnePlace(x)' /\ StatusOfWaiting(x)' /\ StatusOfSent(x)' /\ SettledOnce(x)'
      BY <1>2, <3>1, <3>2, <3>3 DEF InOnePlace, StatusOfWaiting, StatusOfSent, SettledOnce, Unheld, HubDrains
    <3>5. Fresh(x) /\ Fresh(x)'
      BY <2>2, <3>1, <3>3 DEF Fresh
    <3>6. SendsCounted(x)'
      BY <1>2, <2>1, <3>5 DEF MsgInv, SendsCounted
    <3>7. QED
      BY <3>4, <3>6 DEF MsgInv
  <2>3. CASE x \notin Range(outq[r])
    <3>1. x \in Range(outq'[Radio[x]]) <=> x \in Range(outq[Radio[x]])
      BY <1>8, <2>3, EmptyFacts, RadioOf
    <3>2. \A e \in HubDrains : HeldAs(x, e)' = HeldAs(x, e)
      BY <1>9, <2>3
    <3>3. QED
      BY <1>2, <2>1, <3>1, <3>2, Unmoved DEF Same
  <2>4. QED
    BY <2>2, <2>3
<1>11. HubTypes' /\ NothingLeft' /\ StoredOnce'
  BY <1>1, <1>2, <1>3, <1>5, <1>8 DEF HubInv, HubTypes, NothingLeft, StoredOnce
<1>12. QED
  BY <1>2, <1>7, <1>8, <1>10, <1>11 DEF HubInv, Moves

LEMMA DrainAdapterKeeps ==
    ASSUME HubInv, NEW d \in HubDrains, DrainAdapter(d)
    PROVE  HubInv' /\ Moves
<1>1. drain[d].pc = "adapter" /\ hub # "down"
  BY Running DEF DrainAdapter
<1>2. UNCHANGED <<stored, outq, pend, bound, air, ackd, caller, late, taken, up, old, hub, lives>>
  BY DEF DrainAdapter
<1>3. HubTypes /\ DrainHolds(d) /\ drain[d].items \in Seq(Msgs) /\ Range(drain[d].items) \subseteq Msgs
  <2>1. HubTypes /\ DrainHolds(d) /\ drain[d].items \in Seq(Msgs)
    BY DrainFields DEF HubInv
  <2>2. QED
    BY <2>1 DEF Range
<1>4. CASE hub = "up"
  <2> DEFINE v == [drain[d] EXCEPT !.pc = "first", !.stale = old]
  <2>1. row' = row /\ drain' = [drain EXCEPT ![d] = v]
    BY <1>3, <1>4 DEF DrainAdapter, HubTypes
  <2>2. v \in DrainRecords /\ v.pc = "first" /\ v.radio = drain[d].radio /\ v.items = drain[d].items
    <3>1. drain[d] \in DrainRecords /\ old \subseteq Msgs
      BY <1>3 DEF HubTypes
    <3>2. QED
      BY <3>1 DEF DrainRecords, DrainSteps
  <2> HIDE DEF v
  <2>3. /\ drain' \in [HubDrains -> DrainRecords] /\ drain'[d] = v
        /\ \A e \in HubDrains \ {d} : drain'[e] = drain[e]
    BY <1>3, <2>1, <2>2, DrainChanged
  <2>4. drain'[d].pc = "first" /\ drain'[d].radio = drain[d].radio /\ drain'[d].items = drain[d].items
    BY <2>2, <2>3
  <2>5. \A x \in Msgs, e \in HubDrains : HeldAs(x, e)' = HeldAs(x, e)
    BY <1>1, <2>3, <2>4 DEF HeldAs
  <2>6. \A e \in HubDrains : DrainHolds(e)'
    BY <1>1, <2>3, <2>4 DEF HubInv, DrainHolds
  <2>7. \A x \in Msgs : MsgInv(x)'
    BY <1>2, <2>1, <2>5, Unmoved DEF HubInv, Same
  <2>8. HubTypes' /\ QueuesListed' /\ NothingLeft' /\ StoredOnce'
    BY <1>1, <1>2, <1>3, <2>1, <2>3 DEF HubInv, HubTypes, QueuesListed, NothingLeft, StoredOnce
  <2>9. QED
    BY <2>1, <2>6, <2>7, <2>8 DEF HubInv, Moves
<1>5. CASE hub # "up"
  <2> DEFINE S == Range(drain[d].items)
  <2>1. drain' = [drain EXCEPT ![d] = NoDrain] /\ UpdateAll(S, "failed")
    BY <1>5 DEF DrainAdapter
  <2>2. /\ drain' \in [HubDrains -> DrainRecords] /\ drain'[d] = NoDrain
        /\ \A e \in HubDrains \ {d} : drain'[e] = drain[e]
    BY <1>3, <2>1, NoDrainTyped, DrainChanged
  <2>3. \A x \in Msgs : HeldAs(x, d) = IF x \in S THEN "wait" ELSE "none"
    BY <1>1 DEF HeldAs
  <2>4. DrainHolds(d)' /\ \A x \in Msgs : HeldAs(x, d)' = "none"
    BY <2>2, HeldIdle
  <2>5. \A x \in Msgs, e \in HubDrains \ {d} : HeldAs(x, e)' = HeldAs(x, e)
    BY <2>2, HeldUnchanged
  <2>6. \A x \in S : row[x] # "none" /\ \A e \in HubDrains : HeldAs(x, e)' = "none"
    <3>1. SUFFICES ASSUME NEW x \in S PROVE row[x] # "none" /\ \A e \in HubDrains : HeldAs(x, e)' = "none"
      OBVIOUS
    <3>2. x \in Msgs /\ MsgInv(x) /\ HeldAs(x, d) = "wait"
      BY <1>3, <2>3 DEF HubInv
    <3>3. row[x] # "none" /\ \A e \in HubDrains \ {d} : HeldAs(x, e) = "none"
      BY <1>3, <3>2, WaitingFacts, WithDrain
    <3>4. QED
      BY <2>4, <2>5, <3>2, <3>3
  <2>7. /\ row' \in [Msgs -> Statuses]
        /\ \A x \in S : row'[x] = Updated(x, "failed")
        /\ \A x \in Msgs \ S : row'[x] = row[x]
        /\ \A x \in Msgs : row'[x] # "none" <=> row[x] # "none"
    <3>1. "failed" \in Statuses \ {"none"}
      BY DEF Statuses
    <3>2. QED
      BY <1>3, <2>1, <2>6, <3>1, AllUpdated
  <2> HIDE DEF S
  <2>8. ASSUME NEW x \in Msgs
        PROVE  MsgInv(x)' /\ (row'[x] = row[x] \/ row'[x] \in Abstract!Following(row[x]))
    <3>1. MsgInv(x)
      BY DEF HubInv
    <3>2. CASE x \in S
      <4>1. HeldAs(x, d) = "wait"
        BY <2>3, <3>2
      <4>2. x \notin Range(outq[Radio[x]]) /\ x \notin Range(pend[Radio[x]])
        BY <1>3, <3>1, <4>1, WithDrain, WaitingFacts
      <4>3. QED
        BY <1>2, <1>3, <2>6, <2>7, <3>1, <3>2, <4>1, <4>2, GivenUpKeeps
    <3>3. CASE x \notin S
      BY <1>2, <2>3, <2>4, <2>5, <2>7, <3>1, <3>3, Unmoved DEF Same
    <3>4. QED
      BY <3>2, <3>3
  <2>9. \A e \in HubDrains : DrainHolds(e)'
    BY <2>2, <2>4 DEF HubInv, DrainHolds
  <2>10. HubTypes' /\ QueuesListed' /\ NothingLeft' /\ StoredOnce'
    BY <1>1, <1>2, <1>3, <2>2, <2>7, StoredKept DEF HubInv, HubTypes, QueuesListed, NothingLeft
  <2>11. QED
    BY <2>8, <2>9, <2>10 DEF HubInv, Moves
<1>6. QED
  BY <1>4, <1>5

LEMMA DrainEndsKeeps ==
    ASSUME HubInv, NEW d \in HubDrains, DrainEnds(d)
    PROVE  HubInv' /\ Moves
<1>1. /\ drain[d].pc \in {"first", "item"} /\ drain[d].items = <<>> /\ hub # "down"
      /\ drain' = [drain EXCEPT ![d] = NoDrain]
  BY Running DEF DrainEnds
<1>2. UNCHANGED <<row, stored, outq, pend, bound, air, ackd, caller, late, taken, up, old, hub, lives>>
  BY DEF DrainEnds
<1>3. HubTypes
  BY DEF HubInv
<1>4. /\ drain' \in [HubDrains -> DrainRecords] /\ drain'[d] = NoDrain
      /\ \A e \in HubDrains \ {d} : drain'[e] = drain[e]
  BY <1>1, <1>3, NoDrainTyped, DrainChanged
<1>5. /\ \A x \in Msgs : HeldAs(x, d) = "none" /\ HeldAs(x, d)' = "none"
      /\ DrainHolds(d)'
  BY <1>1, <1>4, EmptyFacts, HeldIdle DEF HeldAs
<1>6. \A x \in Msgs, e \in HubDrains : HeldAs(x, e)' = HeldAs(x, e)
  BY <1>4, <1>5, HeldUnchanged
<1>7. \A x \in Msgs : MsgInv(x)'
  BY <1>2, <1>6, Unmoved DEF HubInv, Same
<1>8. \A e \in HubDrains : DrainHolds(e)'
  BY <1>4, <1>5 DEF HubInv, DrainHolds
<1>9. HubTypes' /\ QueuesListed' /\ NothingLeft' /\ StoredOnce'
  BY <1>1, <1>2, <1>3, <1>4 DEF HubInv, HubTypes, QueuesListed, NothingLeft, StoredOnce
<1>10. QED
  BY <1>2, <1>7, <1>8, <1>9 DEF HubInv, Moves

(* A drain at an item, which waits with it *)
LEMMA AtItemFacts ==
    ASSUME HubInv, NEW d \in HubDrains, AtItem(d)
    PROVE  /\ HubTypes /\ DrainHolds(d) /\ hub # "down"
           /\ drain[d].pc \in {"first", "item"} /\ drain[d].items # <<>>
           /\ drain[d].items \in Seq(Msgs) /\ drain[d].radio \in Radios
           /\ Item(d) \in Msgs /\ MsgInv(Item(d)) /\ HeldAs(Item(d), d) = "wait"
           /\ Radio[Item(d)] = drain[d].radio
           /\ \A x \in Msgs : HeldAs(x, d) = IF x \in Range(drain[d].items) THEN "wait" ELSE "none"
<1>1. /\ drain[d].pc \in {"first", "item"} /\ drain[d].items # <<>> /\ hub # "down"
  BY Running DEF AtItem
<1>2. HubTypes /\ DrainHolds(d) /\ drain[d].items \in Seq(Msgs)
  BY DrainFields DEF HubInv
<1>3. Item(d) \in Msgs /\ Item(d) \in Range(drain[d].items)
  BY <1>1, <1>2, TailFacts DEF Item
<1>4. \A x \in Msgs : HeldAs(x, d) = IF x \in Range(drain[d].items) THEN "wait" ELSE "none"
  BY <1>1 DEF HeldAs
<1>5. drain[d].radio \in Radios /\ Radio[Item(d)] = drain[d].radio
  BY <1>1, <1>2, <1>3 DEF DrainHolds
<1>6. QED
  BY <1>1, <1>2, <1>3, <1>4, <1>5 DEF HubInv

LEMMA DrainGivesUpKeeps ==
    ASSUME HubInv, NEW d \in HubDrains, DrainGivesUp(d)
    PROVE  HubInv' /\ Moves
<1> DEFINE m == Item(d)
<1>1. /\ HubTypes /\ DrainHolds(d) /\ hub # "down"
      /\ drain[d].pc \in {"first", "item"} /\ drain[d].items # <<>>
      /\ m \in Msgs /\ MsgInv(m) /\ HeldAs(m, d) = "wait"
  BY AtItemFacts DEF DrainGivesUp
<1>2. UNCHANGED <<stored, outq, pend, bound, air, ackd, caller, late, taken, up, old, hub, lives>>
  BY DEF DrainGivesUp
<1>3. PICK status \in {"failed", "expired"} : Update(m, status)
  BY DEF DrainGivesUp
<1>4. DrainNext(d)
  BY DEF DrainGivesUp
<1>5. /\ drain' \in [HubDrains -> DrainRecords]
      /\ \A e \in HubDrains \ {d} : drain'[e] = drain[e]
      /\ DrainHolds(d)'
      /\ \A x \in Msgs : x = m => HeldAs(x, d)' = "none"
      /\ \A x \in Msgs \ {m} : HeldAs(x, d)' = HeldAs(x, d)
  BY <1>1, <1>4, HeldNext
<1>6. PICK n \in Msgs : n = m
  BY <1>1
<1> HIDE DEF m
<1>7. /\ caller[n] = "queued" /\ row[n] \in {"queued", "deleted"} /\ n \notin bound
      /\ n \notin Range(pend[Radio[n]]) /\ n \notin Range(outq[Radio[n]])
      /\ \A e \in HubDrains \ {d} : HeldAs(n, e) = "none"
  BY <1>1, <1>6, WaitingFacts, WithDrain
<1>8. /\ row' \in [Msgs -> Statuses] /\ row'[n] = Updated(n, status)
      /\ \A x \in Msgs \ {n} : row'[x] = row[x]
      /\ \A x \in Msgs : row'[x] # "none" <=> row[x] # "none"
  <2>1. row[n] # "none" /\ status \in Statuses \ {"none"}
    BY <1>7 DEF Statuses
  <2>2. QED
    BY <1>1, <1>3, <1>6, <2>1, OneUpdated
<1>9. \A x \in Msgs, e \in HubDrains \ {d} : HeldAs(x, e)' = HeldAs(x, e)
  BY <1>5, HeldUnchanged
<1>10. \A x \in Msgs \ {n} : MsgInv(x)'
  BY <1>2, <1>5, <1>6, <1>8, <1>9, Unmoved DEF HubInv, Same
<1>11. \A e \in HubDrains : HeldAs(n, e)' = "none"
  BY <1>5, <1>6, <1>7, <1>9
<1>12. MsgInv(n)' /\ (row'[n] = row[n] \/ row'[n] \in Abstract!Following(row[n]))
  BY <1>1, <1>2, <1>6, <1>7, <1>8, <1>11, GivenUpKeeps
<1>13. \A e \in HubDrains : DrainHolds(e)'
  BY <1>5 DEF HubInv, DrainHolds
<1>14. HubTypes' /\ QueuesListed' /\ NothingLeft' /\ StoredOnce'
  BY <1>1, <1>2, <1>5, <1>8, StoredKept DEF HubInv, HubTypes, QueuesListed, NothingLeft
<1>15. QED
  BY <1>8, <1>10, <1>12, <1>13, <1>14 DEF HubInv, Moves

LEMMA DrainUnavailableKeeps ==
    ASSUME HubInv, NEW d \in HubDrains, DrainUnavailable(d)
    PROVE  HubInv' /\ Moves
<1> DEFINE r == drain[d].radio
<1> DEFINE items == drain[d].items
<1> DEFINE a == outq[r] \o items
<1>1. /\ HubTypes /\ DrainHolds(d) /\ hub # "down" /\ items \in Seq(Msgs) /\ r \in Radios
      /\ drain[d].pc \in {"first", "item"}
      /\ \A x \in Msgs : HeldAs(x, d) = IF x \in Range(items) THEN "wait" ELSE "none"
  BY AtItemFacts DEF DrainUnavailable
<1>2. UNCHANGED <<row, stored, pend, bound, air, ackd, caller, late, taken, up, old, hub, lives>>
  BY DEF DrainUnavailable
<1>3. outq' = [outq EXCEPT ![r] = a] /\ drain' = [drain EXCEPT ![d] = NoDrain]
  BY DEF DrainUnavailable, Requeued
<1>4. IsInjective(items) /\ (\A x \in Range(items) : Radio[x] = r) /\ Range(items) \subseteq Msgs
  <2>1. Range(items) \subseteq Msgs
    BY <1>1 DEF Range
  <2>2. QED
    BY <1>1, <2>1 DEF DrainHolds
<1>5. outq[r] \in Seq(Msgs) /\ IsInjective(outq[r]) /\ \A x \in Range(outq[r]) : Radio[x] = r
  BY <1>1 DEF HubInv, HubTypes, QueuesListed, Listed
<1>6. Range(outq[r]) \cap Range(items) = {}
  <2>1. ASSUME NEW x \in Range(items) PROVE x \notin Range(outq[r])
    <3>1. x \in Msgs /\ MsgInv(x) /\ HeldAs(x, d) = "wait" /\ Radio[x] = r
      BY <1>1, <1>4 DEF HubInv
    <3>2. QED
      BY <3>1, WithDrain
  <2>2. QED
    BY <2>1
<1>7. a \in Seq(Msgs) /\ Range(a) = Range(outq[r]) \cup Range(items) /\ IsInjective(a)
  BY <1>1, <1>4, <1>5, <1>6, ConcatFacts
<1>8. Listed(r, a)
  BY <1>4, <1>5, <1>7 DEF Listed
<1> HIDE DEF a, items, r
<1>9. /\ outq' \in [Radios -> Seq(Msgs)] /\ QueuesListed'
      /\ outq'[r] = a /\ \A s \in Radios \ {r} : outq'[s] = outq[s]
  BY <1>1, <1>2, <1>3, <1>7, <1>8, QueueChanged
<1>10. /\ drain' \in [HubDrains -> DrainRecords] /\ drain'[d] = NoDrain
       /\ \A e \in HubDrains \ {d} : drain'[e] = drain[e]
  BY <1>1, <1>3, NoDrainTyped, DrainChanged
<1>11. /\ DrainHolds(d)' /\ \A x \in Msgs : HeldAs(x, d)' = "none"
       /\ \A x \in Msgs, e \in HubDrains \ {d} : HeldAs(x, e)' = HeldAs(x, e)
  BY <1>10, HeldIdle, HeldUnchanged
<1>12. ASSUME NEW x \in Msgs PROVE MsgInv(x)'
  <2>1. MsgInv(x)
    BY DEF HubInv
  <2>2. CASE x \in Range(items)
    <3>1. HeldAs(x, d) = "wait" /\ Radio[x] = r
      BY <1>1, <1>4, <2>2
    <3>2. x \in Range(outq'[Radio[x]])
      BY <1>7, <1>9, <2>2, <3>1
    <3>3. \A e \in HubDrains : HeldAs(x, e)' = "none"
      BY <1>11, <2>1, <3>1, WithDrain
    <3>4. QED
      BY <1>1, <1>2, <2>1, <3>1, <3>2, <3>3, RequeuedKeeps
  <2>3. CASE x \notin Range(items)
    <3>1. x \in Range(outq'[Radio[x]]) <=> x \in Range(outq[Radio[x]])
      BY <1>7, <1>9, <2>3, RadioOf
    <3>2. \A e \in HubDrains : HeldAs(x, e)' = HeldAs(x, e)
      BY <1>1, <1>11, <2>3
    <3>3. QED
      BY <1>2, <2>1, <3>1, <3>2, Unmoved DEF Same
  <2>4. QED
    BY <2>2, <2>3
<1>13. \A e \in HubDrains : DrainHolds(e)'
  BY <1>10, <1>11 DEF HubInv, DrainHolds
<1>14. HubTypes' /\ NothingLeft' /\ StoredOnce'
  BY <1>1, <1>2, <1>9, <1>10 DEF HubInv, HubTypes, NothingLeft, StoredOnce
<1>15. QED
  BY <1>2, <1>9, <1>12, <1>13, <1>14 DEF HubInv, Moves

LEMMA DrainBudgetKeeps ==
    ASSUME HubInv, NEW d \in HubDrains, DrainBudget(d)
    PROVE  HubInv' /\ Moves
<1> DEFINE r == drain[d].radio
<1> DEFINE items == drain[d].items
<1> DEFINE stale == drain[d].stale
<1> DEFINE kept == Kept(items, Msgs \ stale)
<1> DEFINE a == outq[r] \o kept
<1>1. /\ HubTypes /\ DrainHolds(d) /\ hub # "down" /\ items \in Seq(Msgs) /\ r \in Radios
      /\ drain[d].pc \in {"first", "item"}
      /\ \A x \in Msgs : HeldAs(x, d) = IF x \in Range(items) THEN "wait" ELSE "none"
  BY AtItemFacts DEF DrainBudget
<1>2. UNCHANGED <<stored, pend, bound, air, ackd, caller, late, taken, up, old, hub, lives>>
  BY DEF DrainBudget
<1>3. /\ outq' = [outq EXCEPT ![r] = a] /\ drain' = [drain EXCEPT ![d] = NoDrain]
      /\ UpdateAll(Range(items) \cap stale, "expired")
  BY DEF DrainBudget
<1>4. IsInjective(items) /\ (\A x \in Range(items) : Radio[x] = r) /\ Range(items) \subseteq Msgs
  <2>1. Range(items) \subseteq Msgs
    BY <1>1 DEF Range
  <2>2. QED
    BY <1>1, <2>1 DEF DrainHolds
<1>5. outq[r] \in Seq(Msgs) /\ IsInjective(outq[r]) /\ \A x \in Range(outq[r]) : Radio[x] = r
  BY <1>1 DEF HubInv, HubTypes, QueuesListed, Listed
<1>6. \A x \in Range(items) : x \notin Range(outq[r]) /\ x \notin Range(pend[Radio[x]]) /\ row[x] # "none"
  <2>1. ASSUME NEW x \in Range(items)
        PROVE  x \notin Range(outq[r]) /\ x \notin Range(pend[Radio[x]]) /\ row[x] # "none"
    <3>1. x \in Msgs /\ MsgInv(x) /\ HeldAs(x, d) = "wait" /\ Radio[x] = r
      BY <1>1, <1>4 DEF HubInv
    <3>2. QED
      BY <1>1, <3>1, WithDrain, WaitingFacts
  <2>2. QED
    BY <2>1
<1>7. kept \in Seq(Msgs) /\ Range(kept) = Range(items) \cap (Msgs \ stale) /\ IsInjective(kept)
  BY <1>1, <1>4, KeptFacts
<1>8. a \in Seq(Msgs) /\ Range(a) = Range(outq[r]) \cup Range(kept) /\ IsInjective(a)
  <2>1. Range(outq[r]) \cap Range(kept) = {}
    BY <1>6, <1>7
  <2> HIDE DEF kept
  <2>2. QED
    BY <1>5, <1>7, <2>1, ConcatFacts
<1>9. Listed(r, a)
  BY <1>4, <1>5, <1>7, <1>8 DEF Listed
<1> DEFINE S == Range(items) \cap stale
<1>10. S \subseteq Msgs /\ \A x \in S : row[x] # "none"
  BY <1>4, <1>6
<1>11. UpdateAll(S, "expired") /\ "expired" \in Statuses \ {"none"}
  BY <1>3 DEF Statuses
<1>12. \A x \in Msgs : x \in S <=> x \in Range(items) /\ x \notin Range(kept)
  BY <1>7
<1> HIDE DEF S, a, kept, stale, items, r
<1>13. /\ row' \in [Msgs -> Statuses]
       /\ \A x \in S : row'[x] = Updated(x, "expired")
       /\ \A x \in Msgs \ S : row'[x] = row[x]
       /\ \A x \in Msgs : row'[x] # "none" <=> row[x] # "none"
  BY <1>1, <1>10, <1>11, AllUpdated
<1>14. /\ outq' \in [Radios -> Seq(Msgs)] /\ QueuesListed'
       /\ outq'[r] = a /\ \A s \in Radios \ {r} : outq'[s] = outq[s]
  BY <1>1, <1>2, <1>3, <1>8, <1>9, QueueChanged
<1>15. /\ drain' \in [HubDrains -> DrainRecords] /\ drain'[d] = NoDrain
       /\ \A e \in HubDrains \ {d} : drain'[e] = drain[e]
  BY <1>1, <1>3, NoDrainTyped, DrainChanged
<1>16. /\ DrainHolds(d)' /\ \A x \in Msgs : HeldAs(x, d)' = "none"
       /\ \A x \in Msgs, e \in HubDrains \ {d} : HeldAs(x, e)' = HeldAs(x, e)
  BY <1>15, HeldIdle, HeldUnchanged
<1>17. ASSUME NEW x \in Msgs
       PROVE  MsgInv(x)' /\ (row'[x] = row[x] \/ row'[x] \in Abstract!Following(row[x]))
  <2>1. MsgInv(x)
    BY DEF HubInv
  <2>2. CASE x \in Range(items)
    <3>1. HeldAs(x, d) = "wait" /\ Radio[x] = r
      BY <1>1, <1>4, <2>2
    <3>2. \A e \in HubDrains : HeldAs(x, e)' = "none"
      BY <1>16, <2>1, <3>1, WithDrain
    <3>3. CASE x \in Range(kept)
      <4>1. x \in Range(outq'[Radio[x]]) /\ row'[x] = row[x]
        BY <1>8, <1>12, <1>13, <1>14, <3>1, <3>3
      <4>2. MsgInv(x)'
        BY <1>1, <1>2, <2>1, <3>1, <3>2, <4>1, RequeuedKeeps
      <4>3. QED
        BY <4>1, <4>2
    <3>4. CASE x \notin Range(kept)
      <4>1. x \notin Range(outq'[Radio[x]]) /\ row'[x] = Updated(x, "expired") /\ x \notin Range(pend'[Radio[x]])
        BY <1>2, <1>6, <1>8, <1>12, <1>13, <1>14, <2>2, <3>1, <3>4
      <4>2. QED
        BY <1>1, <1>2, <2>1, <3>1, <3>2, <4>1, GivenUpKeeps
    <3>5. QED
      BY <3>3, <3>4
  <2>3. CASE x \notin Range(items)
    <3>1. row'[x] = row[x] /\ (x \in Range(outq'[Radio[x]]) <=> x \in Range(outq[Radio[x]]))
      BY <1>7, <1>8, <1>12, <1>13, <1>14, <2>3, RadioOf
    <3>2. \A e \in HubDrains : HeldAs(x, e)' = HeldAs(x, e)
      BY <1>1, <1>16, <2>3
    <3>3. QED
      BY <1>2, <2>1, <3>1, <3>2, Unmoved DEF Same
  <2>4. QED
    BY <2>2, <2>3
<1>18. \A e \in HubDrains : DrainHolds(e)'
  BY <1>15, <1>16 DEF HubInv, DrainHolds
<1>19. HubTypes' /\ NothingLeft' /\ StoredOnce'
  BY <1>1, <1>2, <1>13, <1>14, <1>15, StoredKept DEF HubInv, HubTypes, NothingLeft
<1>20. QED
  BY <1>14, <1>17, <1>18, <1>19 DEF HubInv, Moves

LEMMA DrainSendKeeps ==
    ASSUME HubInv, NEW d \in HubDrains, DrainSend(d)
    PROVE  HubInv' /\ Moves
<1> DEFINE m == Item(d)
<1>1. /\ HubTypes /\ DrainHolds(d) /\ hub # "down"
      /\ drain[d].pc \in {"first", "item"} /\ drain[d].items # <<>> /\ drain[d].radio \in Radios
      /\ m \in Msgs /\ MsgInv(m) /\ HeldAs(m, d) = "wait" /\ Radio[m] = drain[d].radio
  BY AtItemFacts DEF DrainSend
<1>2. UNCHANGED <<row, stored, pend, bound, ackd, caller, late, up, old, hub, lives>>
  BY DEF DrainSend
<1>3. CASE Transmit(m) /\ drain' = [drain EXCEPT ![d].pc = "mark"] /\ UNCHANGED outq
  <2>1. /\ drain' \in [HubDrains -> DrainRecords]
        /\ \A e \in HubDrains \ {d} : drain'[e] = drain[e]
        /\ DrainHolds(d)'
        /\ \A x \in Msgs : x = m => HeldAs(x, d)' = "mark"
        /\ \A x \in Msgs \ {m} : HeldAs(x, d)' = HeldAs(x, d)
    BY <1>1, <1>3, HeldGoto
  <2>2. PICK n \in Msgs : n = m
    BY <1>1
  <2> HIDE DEF m
  <2>3. /\ caller[n] = "queued" /\ row[n] \in {"queued", "deleted"} /\ n \notin bound
        /\ n \notin Range(pend[Radio[n]]) /\ n \notin Range(outq[Radio[n]]) /\ ackd[n] = "none"
        /\ \A e \in HubDrains \ {d} : HeldAs(n, e) = "none"
    BY <1>1, <2>2, WaitingFacts, WithDrain
  <2>4. /\ taken' \in [Msgs -> Nat] /\ air' \subseteq Msgs /\ taken'[n] = taken[n] + 1
        /\ \A x \in Msgs \ {n} : taken'[x] = taken[x]
    BY <1>1, <1>3, <2>2 DEF Transmit, HubTypes
  <2>5. \A x \in Msgs, e \in HubDrains \ {d} : HeldAs(x, e)' = HeldAs(x, e)
    BY <2>1, HeldUnchanged
  <2>6. \A x \in Msgs \ {n} : MsgInv(x)'
    BY <1>2, <1>3, <2>1, <2>2, <2>4, <2>5, Unmoved DEF HubInv, Same
  <2>7. \A e \in HubDrains : HeldAs(n, e)' = IF e = d THEN "mark" ELSE "none"
    BY <2>1, <2>2, <2>3, <2>5
  <2>8. MsgInv(n)'
    <3>1. InOnePlace(n)' /\ StatusOfWaiting(n)' /\ StatusOfSent(n)' /\ SettledOnce(n)'
      BY <1>2, <1>3, <2>3, <2>7 DEF InOnePlace, StatusOfWaiting, StatusOfSent, SettledOnce, Unheld, HubDrains
    <3>2. Fresh(n) /\ ~ Fresh(n)'
      BY <1>1, <1>2, <1>3, <2>2, <2>3, <2>7 DEF Fresh
    <3>3. taken[n] + (IF n \in late THEN 1 ELSE 0) + 1 <= lives /\ taken[n] \in Nat /\ lives \in Nat
      BY <1>1, <2>2, <3>2 DEF MsgInv, SendsCounted, HubTypes
    <3>4. SendsCounted(n)'
      BY <1>2, <2>3, <2>4, <3>2, <3>3 DEF SendsCounted
    <3>5. QED
      BY <3>1, <3>4 DEF MsgInv
  <2>9. \A e \in HubDrains : DrainHolds(e)'
    BY <2>1 DEF HubInv, DrainHolds
  <2>10. HubTypes' /\ QueuesListed' /\ NothingLeft' /\ StoredOnce'
    BY <1>1, <1>2, <1>3, <2>1, <2>4 DEF HubInv, HubTypes, QueuesListed, NothingLeft, StoredOnce
  <2>11. QED
    BY <1>2, <2>6, <2>8, <2>9, <2>10 DEF HubInv, Moves
<1>4. CASE /\ outq' = [outq EXCEPT ![drain[d].radio] = Append(@, m)]
           /\ DrainNext(d) /\ UNCHANGED <<air, taken>>
  <2>1. /\ drain' \in [HubDrains -> DrainRecords]
        /\ \A e \in HubDrains \ {d} : drain'[e] = drain[e]
        /\ DrainHolds(d)'
        /\ \A x \in Msgs : x = m => HeldAs(x, d)' = "none"
        /\ \A x \in Msgs \ {m} : HeldAs(x, d)' = HeldAs(x, d)
    BY <1>1, <1>4, HeldNext
  <2>2. PICK n \in Msgs : n = m
    BY <1>1
  <2>3. PICK r \in Radios : r = drain[d].radio
    BY <1>1
  <2> HIDE DEF m
  <2>4. /\ n \notin Range(outq[r]) /\ Radio[n] = r
        /\ \A e \in HubDrains \ {d} : HeldAs(n, e) = "none"
    BY <1>1, <2>2, <2>3, WithDrain
  <2>5. outq[r] \in Seq(Msgs) /\ IsInjective(outq[r]) /\ \A x \in Range(outq[r]) : Radio[x] = r
    BY <1>1 DEF HubInv, HubTypes, QueuesListed, Listed
  <2> DEFINE a == Append(outq[r], n)
  <2>6. a \in Seq(Msgs) /\ IsInjective(a) /\ Range(a) = Range(outq[r]) \cup {n}
    BY <2>4, <2>5, AppendFacts
  <2>7. Listed(r, a)
    BY <2>4, <2>5, <2>6 DEF Listed
  <2>8. outq' = [outq EXCEPT ![r] = a]
    BY <1>4, <2>2, <2>3
  <2> HIDE DEF a
  <2>9. /\ outq' \in [Radios -> Seq(Msgs)] /\ QueuesListed'
        /\ outq'[r] = a /\ \A s \in Radios \ {r} : outq'[s] = outq[s]
    BY <1>2, <2>6, <2>7, <2>8, QueueChanged
  <2>10. \A x \in Msgs, e \in HubDrains \ {d} : HeldAs(x, e)' = HeldAs(x, e)
    BY <2>1, HeldUnchanged
  <2>11. \A x \in Msgs \ {n} : x \in Range(outq'[Radio[x]]) <=> x \in Range(outq[Radio[x]])
    BY <2>6, <2>9, RadioOf
  <2>12. \A x \in Msgs \ {n} : MsgInv(x)'
    BY <1>2, <1>4, <2>1, <2>2, <2>10, <2>11, Unmoved DEF HubInv, Same
  <2>13. n \in Range(outq'[Radio[n]]) /\ \A e \in HubDrains : HeldAs(n, e)' = "none"
    BY <2>1, <2>2, <2>4, <2>6, <2>9, <2>10
  <2>14. MsgInv(n)'
    BY <1>1, <1>2, <1>4, <2>2, <2>13, RequeuedKeeps
  <2>15. \A e \in HubDrains : DrainHolds(e)'
    BY <2>1 DEF HubInv, DrainHolds
  <2>16. HubTypes' /\ NothingLeft' /\ StoredOnce'
    BY <1>1, <1>2, <1>4, <2>1, <2>9 DEF HubInv, HubTypes, NothingLeft, StoredOnce
  <2>17. QED
    BY <1>2, <2>9, <2>12, <2>14, <2>15, <2>16 DEF HubInv, Moves
<1>5. QED
  BY <1>3, <1>4 DEF DrainSend

(* A drain that has an item to mark, or to track *)
LEMMA DrainMarkKeeps ==
    ASSUME HubInv, NEW d \in HubDrains, DrainMark(d)
    PROVE  HubInv' /\ Moves
<1> DEFINE m == Item(d)
<1>1. /\ HubTypes /\ DrainHolds(d) /\ hub # "down"
      /\ drain[d].pc \in {"mark", "track"} /\ drain[d].items # <<>>
  BY Running DEF DrainMark, HubInv, DrainHolds
<1>2. UNCHANGED <<stored, outq, air, ackd, caller, late, taken, up, old, hub, lives>>
  BY DEF DrainMark
<1>3. /\ m \in Msgs /\ MsgInv(m) /\ HeldAs(m, d) = drain[d].pc
  <2>1. drain[d].items \in Seq(Msgs)
    BY <1>1, DrainFields
  <2>2. m \in Msgs /\ m \in Range(drain[d].items)
    BY <1>1, <2>1, TailFacts DEF Item
  <2>3. QED
    BY <1>1, <2>2 DEF HubInv, HeldAs, Item
<1>4. PICK n \in Msgs : n = m
  BY <1>3
<1>5. /\ caller[n] = "queued" /\ n \notin bound /\ n \notin Range(pend[Radio[n]])
      /\ n \notin Range(outq[Radio[n]]) /\ ackd[n] = "none"
      /\ \A e \in HubDrains \ {d} : HeldAs(n, e) = "none"
  <2>1. HeldAs(n, d) \in {"mark", "track"} /\ MsgInv(n)
    BY <1>1, <1>3, <1>4
  <2>2. caller[n] = "queued" /\ n \notin bound
    BY <2>1 DEF MsgInv, InOnePlace, StatusOfSent
  <2>3. n \notin Range(pend[Radio[n]]) /\ ackd[n] = "none"
    BY <2>1, <2>2 DEF MsgInv, SettledOnce
  <2>4. QED
    BY <2>1, <2>2, <2>3, WithDrain
<1>6. CASE drain[d].pc = "mark"
  <2>1. Update(m, "sent") /\ drain' = [drain EXCEPT ![d].pc = "track"] /\ UNCHANGED <<pend, bound>>
    BY <1>6 DEF DrainMark
  <2>2. /\ drain' \in [HubDrains -> DrainRecords]
        /\ \A e \in HubDrains \ {d} : drain'[e] = drain[e]
        /\ DrainHolds(d)'
        /\ \A x \in Msgs : x = m => HeldAs(x, d)' = "track"
        /\ \A x \in Msgs \ {m} : HeldAs(x, d)' = HeldAs(x, d)
    BY <1>1, <1>6, <2>1, HeldGoto
  <2>3. row[n] \in {"queued", "deleted"} /\ HeldAs(n, d) = "mark"
    BY <1>1, <1>3, <1>4, <1>6, WaitingFacts
  <2> HIDE DEF m
  <2>4. /\ row' \in [Msgs -> Statuses] /\ row'[n] = Updated(n, "sent")
        /\ \A x \in Msgs \ {n} : row'[x] = row[x]
        /\ \A x \in Msgs : row'[x] # "none" <=> row[x] # "none"
    <3>1. row[n] # "none" /\ "sent" \in Statuses \ {"none"} /\ Update(n, "sent")
      BY <1>4, <2>1, <2>3 DEF Statuses
    <3>2. QED
      BY <1>1, <3>1, OneUpdated
  <2>5. row'[n] \in {"sent", "deleted"} /\ (row'[n] = row[n] \/ row'[n] \in Abstract!Following(row[n]))
    BY <2>3, <2>4, NextStatus DEF Updated
  <2>6. \A x \in Msgs, e \in HubDrains \ {d} : HeldAs(x, e)' = HeldAs(x, e)
    BY <2>2, HeldUnchanged
  <2>7. \A x \in Msgs \ {n} : MsgInv(x)'
    BY <1>2, <1>4, <2>1, <2>2, <2>4, <2>6, Unmoved DEF HubInv, Same
  <2>8. \A e \in HubDrains : HeldAs(n, e)' = IF e = d THEN "track" ELSE "none"
    BY <1>4, <1>5, <2>2, <2>6
  <2>9. MsgInv(n)'
    <3>1. InOnePlace(n)' /\ StatusOfWaiting(n)' /\ StatusOfSent(n)' /\ SettledOnce(n)'
      BY <1>2, <1>5, <2>1, <2>5, <2>8 DEF InOnePlace, StatusOfWaiting, StatusOfSent, SettledOnce, Unheld, HubDrains
    <3>2. ~ Fresh(n)'
      BY <1>2, <1>5, <2>8 DEF Fresh
    <3>3. SendsCounted(n)'
      BY <1>1, <1>2, <1>3, <1>4, <1>5, <3>2 DEF MsgInv, SendsCounted, HubTypes
    <3>4. QED
      BY <3>1, <3>3 DEF MsgInv
  <2>10. \A e \in HubDrains : DrainHolds(e)'
    BY <2>2 DEF HubInv, DrainHolds
  <2>11. HubTypes' /\ QueuesListed' /\ NothingLeft' /\ StoredOnce'
    BY <1>1, <1>2, <2>1, <2>2, <2>4, StoredKept DEF HubInv, HubTypes, QueuesListed, NothingLeft
  <2>12. QED
    BY <2>4, <2>5, <2>7, <2>9, <2>10, <2>11 DEF HubInv, Moves
<1>7. CASE drain[d].pc = "track"
  <2>1. Track(m) /\ DrainNext(d)
    BY <1>7 DEF DrainMark
  <2>2. /\ drain' \in [HubDrains -> DrainRecords]
        /\ \A e \in HubDrains \ {d} : drain'[e] = drain[e]
        /\ DrainHolds(d)'
        /\ \A x \in Msgs : x = m => HeldAs(x, d)' = "none"
        /\ \A x \in Msgs \ {m} : HeldAs(x, d)' = HeldAs(x, d)
    BY <1>1, <1>7, <2>1, HeldNext
  <2> HIDE DEF m
  <2>3. /\ pend' \in [Radios -> Seq(Msgs)] /\ \A r \in Radios : Listed(r, pend'[r])
        /\ row' \in [Msgs -> Statuses] /\ bound' = bound \cup {n}
        /\ \A x \in Msgs : row'[x] # "none" <=> row[x] # "none"
        /\ row'[n] = row[n]
        /\ n \in Range(pend'[Radio[n]]) <=> n \notin Broadcasts
        /\ \A x \in Msgs \ {n} :
              \/ row'[x] = row[x] /\ (x \in Range(pend'[Radio[x]]) <=> x \in Range(pend[Radio[x]]))
              \/ /\ x \in Range(pend[Radio[x]]) /\ x \notin Range(pend'[Radio[x]])
                 /\ row'[x] = Updated(x, "timeout")
    BY <1>4, <1>5, <2>1, TrackFacts
  <2>4. \A x \in Msgs, e \in HubDrains \ {d} : HeldAs(x, e)' = HeldAs(x, e)
    BY <2>2, HeldUnchanged
  <2>5. ASSUME NEW x \in Msgs \ {n}
        PROVE  MsgInv(x)' /\ (row'[x] = row[x] \/ row'[x] \in Abstract!Following(row[x]))
    <3>1. MsgInv(x) /\ \A e \in HubDrains : HeldAs(x, e)' = HeldAs(x, e)
      BY <1>4, <2>2, <2>4 DEF HubInv
    <3>2. CASE row'[x] = row[x] /\ (x \in Range(pend'[Radio[x]]) <=> x \in Range(pend[Radio[x]]))
      BY <1>2, <2>3, <3>1, <3>2, Unmoved DEF Same
    <3>3. CASE /\ x \in Range(pend[Radio[x]]) /\ x \notin Range(pend'[Radio[x]])
               /\ row'[x] = Updated(x, "timeout")
      BY <1>1, <1>2, <2>3, <3>1, <3>3, EvictedKeeps
    <3>4. QED
      BY <2>3, <3>2, <3>3
  <2>6. row[n] \in {"sent", "deleted"}
    BY <1>3, <1>4, <1>7 DEF MsgInv, StatusOfSent
  <2>7. \A e \in HubDrains : HeldAs(n, e)' = "none"
    BY <1>4, <1>5, <2>2, <2>4
  <2>8. MsgInv(n)'
    <3>1. InOnePlace(n)' /\ StatusOfWaiting(n)' /\ StatusOfSent(n)' /\ SettledOnce(n)'
      BY <1>2, <1>5, <2>3, <2>6, <2>7 DEF InOnePlace, StatusOfWaiting, StatusOfSent, SettledOnce, Unheld, HubDrains
    <3>2. ~ Fresh(n)'
      BY <1>2, <1>5, <2>7 DEF Fresh
    <3>3. SendsCounted(n)'
      BY <1>1, <1>2, <1>3, <1>4, <1>5, <3>2 DEF MsgInv, SendsCounted, HubTypes
    <3>4. QED
      BY <3>1, <3>3 DEF MsgInv
  <2>9. \A e \in HubDrains : DrainHolds(e)'
    BY <2>2 DEF HubInv, DrainHolds
  <2>10. HubTypes' /\ QueuesListed' /\ NothingLeft' /\ StoredOnce'
    BY <1>1, <1>2, <2>2, <2>3, StoredKept DEF HubInv, HubTypes, QueuesListed, NothingLeft
  <2>11. QED
    BY <2>3, <2>5, <2>8, <2>9, <2>10 DEF HubInv, Moves
<1>8. QED
  BY <1>1, <1>6, <1>7

-----------------------------------------------------------------------------
(* The timeout loop *)

LEMMA ExpirePendingKeeps ==
    ASSUME HubInv, NEW m \in Msgs, ExpirePending(m)
    PROVE  HubInv' /\ Moves
<1> DEFINE v == [NoDrain EXCEPT !.pc = "timeout", !.items = <<m>>]
<1>1. /\ hub = "up" /\ drain["loop"].pc = "idle" /\ m \in Range(pend[Radio[m]]) /\ pend' = Untracked(m)
      /\ drain' = [drain EXCEPT !["loop"] = v]
  BY DEF ExpirePending, LoopIdle
<1>2. UNCHANGED <<row, stored, outq, bound, air, ackd, caller, late, taken, up, old, hub, lives>>
  BY DEF ExpirePending
<1>3. HubTypes /\ MsgInv(m) /\ "loop" \in HubDrains /\ "event" \in HubDrains /\ drain["loop"].items = <<>>
  BY <1>1 DEF HubInv, HubDrains, DrainHolds
<1>5. v \in DrainRecords /\ v.pc = "timeout" /\ v.items = <<m>>
  <2>1. <<m>> \in Seq(Msgs)
    OBVIOUS
  <2>2. QED
    BY <2>1, NoDrainTyped, TimeoutRecord
<1> HIDE DEF v
<1>6. /\ drain' \in [HubDrains -> DrainRecords] /\ drain'["loop"] = v
      /\ \A e \in HubDrains \ {"loop"} : drain'[e] = drain[e]
  BY <1>1, <1>3, <1>5, DrainChanged
<1>7. drain'["loop"].pc = "timeout" /\ drain'["loop"].items = <<m>>
  BY <1>5, <1>6
<1>8. Range(<<m>>) = {m} /\ IsInjective(<<m>>) /\ Tail(<<m>>) = <<>> /\ Head(<<m>>) = m /\ <<m>> # <<>>
  BY DEF Range, IsInjective
<1>9. \A e \in HubDrains : DrainHolds(e)'
  BY <1>6, <1>7, <1>8 DEF HubInv, DrainHolds
<1>10. /\ \A x \in Msgs : HeldAs(x, "loop") = "none"
       /\ \A x \in Msgs : HeldAs(x, "loop")' = IF x = m THEN "timeout" ELSE "none"
       /\ \A x \in Msgs, e \in HubDrains \ {"loop"} : HeldAs(x, e)' = HeldAs(x, e)
  BY <1>3, <1>6, <1>7, <1>8, EmptyFacts, HeldUnchanged DEF HeldAs
<1>11. /\ pend' \in [Radios -> Seq(Msgs)] /\ \A r \in Radios : Listed(r, pend'[r])
       /\ m \notin Range(pend'[Radio[m]])
       /\ \A x \in Msgs \ {m} : x \in Range(pend'[Radio[x]]) <=> x \in Range(pend[Radio[x]])
  BY <1>1, UntrackFacts
<1>12. \A x \in Msgs \ {m} : MsgInv(x)'
  BY <1>2, <1>10, <1>11, Unmoved DEF HubInv, Same
<1>13. /\ m \in bound \ Broadcasts /\ ackd[m] = "none" /\ row[m] \in {"sent", "read", "deleted"}
       /\ caller[m] \in {"done", "queued"} /\ m \notin Range(outq[Radio[m]])
       /\ HeldAs(m, "event") = "none"
  <2>1. /\ m \in bound \ Broadcasts /\ ackd[m] = "none" /\ row[m] \in {"sent", "read", "deleted"}
        /\ HeldAs(m, "event") # "timeout"
    BY <1>1, <1>3 DEF MsgInv, SettledOnce
  <2>2. QED
    BY <1>3, <2>1 DEF MsgInv, StatusOfSent
<1>14. MsgInv(m)'
  <2>1. HeldAs(m, "loop")' = "timeout" /\ HeldAs(m, "event")' = "none"
    BY <1>3, <1>10, <1>13 DEF HubDrains
  <2>2. m \in late => caller[m] = "queued"
    BY <1>3 DEF MsgInv, InOnePlace
  <2>3. InOnePlace(m)' /\ StatusOfWaiting(m)' /\ StatusOfSent(m)' /\ SettledOnce(m)'
    BY <1>2, <1>11, <1>13, <2>1, <2>2
       DEF InOnePlace, StatusOfWaiting, StatusOfSent, SettledOnce, Unheld, HubDrains, Settled
  <2>4. ~ Fresh(m)'
    BY <1>2, <1>13, <2>1 DEF Fresh, HubDrains
  <2>5. SendsCounted(m)'
    BY <1>2, <1>3, <1>13, <2>4 DEF MsgInv, SendsCounted, HubTypes
  <2>6. QED
    BY <2>3, <2>5 DEF MsgInv
<1>15. HubTypes' /\ QueuesListed' /\ NothingLeft' /\ StoredOnce'
  BY <1>1, <1>2, <1>3, <1>6, <1>11 DEF HubInv, HubTypes, QueuesListed, NothingLeft, StoredOnce
<1>16. QED
  BY <1>2, <1>9, <1>12, <1>14, <1>15 DEF HubInv, Moves

LEMMA TimedOutKeeps ==
    ASSUME HubInv, TimedOut
    PROVE  HubInv' /\ Moves
<1> DEFINE m == Item("loop")
<1>1. /\ drain["loop"].pc = "timeout" /\ Update(m, "timeout") /\ hub # "down"
      /\ drain' = [drain EXCEPT !["loop"] = NoDrain]
  BY Running DEF TimedOut, HubDrains
<1>2. UNCHANGED <<stored, outq, pend, bound, air, ackd, caller, late, taken, up, old, hub, lives>>
  BY DEF TimedOut
<1>3. /\ HubTypes /\ "loop" \in HubDrains /\ "event" \in HubDrains /\ drain["loop"].items \in Seq(Msgs)
      /\ drain["loop"].items # <<>> /\ Tail(drain["loop"].items) = <<>>
  BY <1>1, DrainFields DEF HubInv, HubDrains, DrainHolds
<1>4. m \in Msgs /\ Range(drain["loop"].items) = {m}
  <2> DEFINE q == drain["loop"].items
  <2>1. q \in Seq(Msgs) /\ q # <<>> /\ Tail(q) = <<>>
    BY <1>3
  <2>2. Head(q) \in Msgs /\ Range(q) = Range(Tail(q)) \cup {Head(q)}
    <3> HIDE DEF q
    <3>1. QED
      BY <2>1, TailFacts
  <2>3. QED
    BY <2>1, <2>2, EmptyFacts DEF Item
<1>5. /\ drain' \in [HubDrains -> DrainRecords] /\ drain'["loop"] = NoDrain
      /\ \A e \in HubDrains \ {"loop"} : drain'[e] = drain[e]
  BY <1>1, <1>3, NoDrainTyped, DrainChanged
<1>6. \A x \in Msgs : HeldAs(x, "loop") = IF x = m THEN "timeout" ELSE "none"
  BY <1>1, <1>4 DEF HeldAs, Item
<1>7. /\ DrainHolds("loop")' /\ \A x \in Msgs : HeldAs(x, "loop")' = "none"
      /\ \A x \in Msgs, e \in HubDrains \ {"loop"} : HeldAs(x, e)' = HeldAs(x, e)
  BY <1>3, <1>5, HeldIdle, HeldUnchanged
<1>8. PICK n \in Msgs : n = m
  BY <1>4
<1> HIDE DEF m
<1>9. MsgInv(n) /\ HeldAs(n, "loop") = "timeout"
  BY <1>6, <1>8 DEF HubInv
<1>10. /\ n \in bound \ Broadcasts /\ n \notin Range(pend[Radio[n]]) /\ n \notin Range(outq[Radio[n]])
       /\ row[n] # "propagated" /\ ackd[n] # "propagated" /\ caller[n] \in {"done", "queued"}
       /\ row[n] \in {"sent", "deleted"} \cup Settled /\ HeldAs(n, "event") = "none"
  <2>1. /\ n \in bound \ Broadcasts /\ n \notin Range(pend[Radio[n]])
        /\ row[n] # "propagated" /\ ackd[n] # "propagated" /\ HeldAs(n, "event") # "timeout"
    BY <1>9 DEF MsgInv, SettledOnce
  <2>2. QED
    BY <1>3, <1>9, <2>1 DEF MsgInv, StatusOfSent
<1>11. /\ row' \in [Msgs -> Statuses] /\ row'[n] = Updated(n, "timeout")
       /\ \A x \in Msgs \ {n} : row'[x] = row[x]
       /\ \A x \in Msgs : row'[x] # "none" <=> row[x] # "none"
  <2>1. row[n] # "none" /\ "timeout" \in Statuses \ {"none"} /\ Update(n, "timeout")
    BY <1>1, <1>8, <1>10 DEF Statuses, Settled
  <2>2. QED
    BY <1>3, <2>1, OneUpdated
<1>12. row'[n] = IF row[n] = "sent" THEN "timeout" ELSE row[n]
  BY <1>10, <1>11 DEF Updated, Terminal, Settled
<1>13. \A x \in Msgs \ {n} : MsgInv(x)'
  BY <1>2, <1>6, <1>7, <1>8, <1>11, Unmoved DEF HubInv, Same
<1>14. MsgInv(n)'
  <2>1. \A d \in HubDrains : HeldAs(n, d)' = "none"
    BY <1>7, <1>10 DEF HubDrains
  <2>2. row'[n] \in {"deleted"} \cup Settled
    BY <1>10, <1>12 DEF Settled
  <2>3. n \in late => caller[n] = "queued"
    BY <1>9 DEF MsgInv, InOnePlace
  <2>4. InOnePlace(n)' /\ StatusOfWaiting(n)' /\ StatusOfSent(n)' /\ SettledOnce(n)'
    BY <1>2, <1>10, <2>1, <2>2, <2>3
       DEF InOnePlace, StatusOfWaiting, StatusOfSent, SettledOnce, Unheld, HubDrains, Settled
  <2>5. ~ Fresh(n)'
    BY <1>2, <1>10, <2>1 DEF Fresh
  <2>6. SendsCounted(n)'
    BY <1>2, <1>3, <1>9, <1>10, <2>5 DEF MsgInv, SendsCounted, HubTypes
  <2>7. QED
    BY <2>4, <2>6 DEF MsgInv
<1>15. \A e \in HubDrains : DrainHolds(e)'
  BY <1>5, <1>7 DEF HubInv, DrainHolds
<1>16. HubTypes' /\ QueuesListed' /\ NothingLeft' /\ StoredOnce'
  BY <1>1, <1>2, <1>3, <1>5, <1>11, StoredKept DEF HubInv, HubTypes, QueuesListed, NothingLeft
<1>17. row'[n] = row[n] \/ row'[n] \in Abstract!Following(row[n])
  BY <1>12, NextStatus DEF Settled
<1>18. QED
  BY <1>11, <1>13, <1>14, <1>15, <1>16, <1>17 DEF HubInv, Moves

LEMMA ExpireQueuedKeeps ==
    ASSUME HubInv, ExpireQueued
    PROVE  HubInv' /\ Moves
<1> DEFINE gone == (UNION {Range(outq[r]) : r \in Radios}) \cap old
<1>1. /\ hub = "up" /\ outq' = [r \in Radios |-> Kept(outq[r], Msgs \ gone)] /\ UpdateAll(gone, "expired")
  BY DEF ExpireQueued, LoopIdle
<1>2. UNCHANGED <<stored, pend, bound, air, ackd, caller, drain, late, taken, up, old, hub, lives>>
  BY DEF ExpireQueued
<1>3. HubTypes /\ gone \subseteq Msgs /\ \A r \in Radios : outq[r] \in Seq(Msgs) /\ Listed(r, outq[r])
  BY DEF HubInv, HubTypes, QueuesListed
<1>4. \A x \in Msgs : x \in gone => x \in Range(outq[Radio[x]])
  BY <1>3 DEF Listed
<1> HIDE DEF gone
<1>5. ASSUME NEW r \in Radios
      PROVE  /\ outq'[r] \in Seq(Msgs) /\ Range(outq'[r]) = Range(outq[r]) \cap (Msgs \ gone)
             /\ IsInjective(outq'[r])
  <2>1. outq'[r] = Kept(outq[r], Msgs \ gone) /\ outq[r] \in Seq(Msgs) /\ IsInjective(outq[r])
    BY <1>1, <1>3 DEF Listed
  <2>2. QED
    BY <2>1, KeptFacts
<1>6. outq' \in [Radios -> Seq(Msgs)] /\ QueuesListed'
  <2>1. outq' \in [Radios -> Seq(Msgs)]
    BY <1>1, <1>5
  <2>2. \A r \in Radios : Listed(r, outq'[r])
    BY <1>3, <1>5 DEF Listed
  <2>3. QED
    BY <1>2, <2>1, <2>2 DEF HubInv, QueuesListed
<1>7. \A x \in Msgs : x \in Range(outq'[Radio[x]]) <=> x \in Range(outq[Radio[x]]) /\ x \notin gone
  BY <1>5, RadioOf
<1>8. \A x \in gone : row[x] # "none"
  <2>1. ASSUME NEW x \in gone PROVE row[x] # "none"
    <3>1. x \in Msgs /\ MsgInv(x) /\ x \in Range(outq[Radio[x]])
      BY <1>3, <1>4 DEF HubInv
    <3>2. QED
      BY <1>3, <3>1, WaitingFacts
  <2>2. QED
    BY <2>1
<1>9. /\ row' \in [Msgs -> Statuses]
      /\ \A x \in gone : row'[x] = Updated(x, "expired")
      /\ \A x \in Msgs \ gone : row'[x] = row[x]
      /\ \A x \in Msgs : row'[x] # "none" <=> row[x] # "none"
  <2>1. "expired" \in Statuses \ {"none"}
    BY DEF Statuses
  <2>2. QED
    BY <1>1, <1>3, <1>8, <2>1, AllUpdated
<1>10. \A x \in Msgs, d \in HubDrains : HeldAs(x, d)' = HeldAs(x, d)
  BY <1>2, HeldUnchanged
<1>11. ASSUME NEW x \in Msgs
       PROVE  MsgInv(x)' /\ (row'[x] = row[x] \/ row'[x] \in Abstract!Following(row[x]))
  <2>1. MsgInv(x)
    BY DEF HubInv
  <2>2. CASE x \in gone
    <3>1. x \in Range(outq[Radio[x]]) /\ x \notin Range(outq'[Radio[x]])
      BY <1>4, <1>7, <2>2
    <3>2. x \notin Range(pend'[Radio[x]])
      BY <1>2, <1>3, <2>1, <3>1, WaitingFacts
    <3>3. \A d \in HubDrains : HeldAs(x, d)' = "none"
      BY <1>10, <2>1, <3>1 DEF MsgInv, InOnePlace, Unheld
    <3>4. QED
      BY <1>2, <1>3, <1>9, <2>1, <2>2, <3>1, <3>2, <3>3, GivenUpKeeps
  <2>3. CASE x \notin gone
    BY <1>2, <1>7, <1>9, <1>10, <2>1, <2>3, Unmoved DEF Same
  <2>4. QED
    BY <2>2, <2>3
<1>12. HubTypes' /\ NothingLeft' /\ StoredOnce' /\ \A d \in HubDrains : DrainHolds(d)'
  <2>1. HubTypes' /\ StoredOnce'
    BY <1>1, <1>2, <1>3, <1>6, <1>9, StoredKept DEF HubInv, HubTypes
  <2>2. NothingLeft' /\ \A d \in HubDrains : DrainHolds(d)'
    BY <1>1, <1>2, <1>9 DEF HubInv, NothingLeft, DrainHolds
  <2>3. QED
    BY <2>1, <2>2
<1>13. QED
  BY <1>6, <1>11, <1>12 DEF HubInv, Moves

-----------------------------------------------------------------------------
(* Stop, crash and restart *)

(* What a drain has still to send waits with it. *)
LEMMA UnsentWaits ==
    ASSUME HubInv, NEW d \in HubDrains, NEW m \in Unsent(d)
    PROVE  m \in Msgs /\ HeldAs(m, d) = "wait"
<1>1. HubTypes /\ DrainHolds(d) /\ drain[d].items \in Seq(Msgs)
  BY DrainFields DEF HubInv
<1>2. Range(drain[d].items) \subseteq Msgs
  BY <1>1 DEF Range
<1>3. CASE drain[d].pc \in {"first", "item"}
  BY <1>2, <1>3 DEF Unsent, HeldAs
<1>4. CASE drain[d].pc \in {"mark", "track"}
  <2>1. m \in Range(Tail(drain[d].items)) /\ drain[d].items # <<>> /\ IsInjective(drain[d].items)
    BY <1>1, <1>4 DEF Unsent, DrainHolds
  <2>2. m \in Range(drain[d].items) /\ m # Head(drain[d].items)
    BY <1>1, <2>1, TailFacts
  <2>3. QED
    BY <1>2, <2>2 DEF HeldAs
<1>5. CASE drain[d].pc \notin {"first", "item", "mark", "track"}
  BY <1>5 DEF Unsent
<1>6. QED
  BY <1>3, <1>4, <1>5

LEMMA ForgetKeeps ==
    ASSUME HubInv, Forget, hub # "down",
           late' = {} \/ late' = late \cup UNION {Unsent(d) : d \in HubDrains}
    PROVE  HubInv' /\ Moves
<1>1. /\ hub' = "down" /\ bound' = {} /\ air' = {}
      /\ outq' = [r \in Radios |-> <<>>] /\ pend' = [r \in Radios |-> <<>>]
      /\ ackd' = [m \in Msgs |-> "none"] /\ drain' = [d \in HubDrains |-> NoDrain]
      /\ UNCHANGED <<row, stored, taken, up, old, lives>>
  BY DEF Forget
<1>2. ASSUME NEW m \in Msgs
      PROVE  caller'[m] = CASE caller[m] = "new" -> "new"
                            [] caller[m] \in {"append", "queued"} -> "queued"
                            [] OTHER -> "done"
  BY DEF Forget
<1>3. HubTypes
  BY DEF HubInv
<1>4. caller' \in [Msgs -> Callers] /\ \A m \in Msgs : caller'[m] \in {"new", "queued", "done"}
  BY DEF Forget, Callers
<1>5. \A m \in late' : m \in Msgs /\ (m \in late \/ \E d \in HubDrains : HeldAs(m, d) = "wait")
  BY <1>3, UnsentWaits DEF HubTypes
<1>6. \A r \in Radios : outq'[r] = <<>> /\ pend'[r] = <<>>
  BY <1>1
<1>7. \A d \in HubDrains : drain'[d] = NoDrain
  BY <1>1
<1>8. \A d \in HubDrains : DrainHolds(d)' /\ \A m \in Msgs : HeldAs(m, d)' = "none"
  BY <1>7, HeldIdle
<1>9. ASSUME NEW m \in Msgs PROVE MsgInv(m)'
  <2>1. MsgInv(m) /\ Radio[m] \in Radios
    BY RadioOf DEF HubInv
  <2>2. /\ m \notin Range(outq'[Radio[m]]) /\ m \notin Range(pend'[Radio[m]])
        /\ m \notin bound' /\ ackd'[m] = "none" /\ \A d \in HubDrains : HeldAs(m, d)' = "none"
    BY <1>1, <1>6, <1>8, <2>1, EmptyFacts
  <2>3. m \in late' => caller[m] = "queued"
    BY <1>5, <2>1 DEF MsgInv, InOnePlace
  <2>4. row[m] = "queued" => caller'[m] = "queued"
    <3>1. row[m] = "queued" => caller[m] \in {"append", "queued"}
      BY <2>1 DEF MsgInv, StatusOfWaiting
    <3>2. QED
      BY <1>2, <3>1
  <2>5. /\ caller'[m] = "new" => caller[m] = "new"
        /\ caller[m] = "queued" => caller'[m] = "queued"
        /\ caller'[m] = "done" => caller[m] \in {"send", "queue", "sent", "refused", "track", "done"}
    BY <1>2, <1>3 DEF HubTypes, Callers
  <2>6. InOnePlace(m)'
    BY <2>2, <2>3, <2>5 DEF InOnePlace
  <2>7. StatusOfWaiting(m)'
    <3>1. caller'[m] = "new" => row[m] = "none"
      BY <2>1, <2>5 DEF MsgInv, StatusOfWaiting
    <3>2. QED
      BY <1>1, <1>4, <2>2, <2>4, <3>1 DEF StatusOfWaiting
  <2>8. StatusOfSent(m)'
    <3>1. m \notin Broadcasts /\ caller'[m] = "done" /\ taken[m] > 0 =>
              row[m] \in {"none", "sent", "deleted"} \cup Settled
      <4>1. caller[m] \in {"send", "queue", "refused"} => taken[m] = 0
        BY <2>1 DEF MsgInv, SendsCounted
      <4>2. caller[m] = "sent" => row[m] = "none"
        BY <2>1 DEF MsgInv, StatusOfWaiting
      <4>3. m \notin Broadcasts /\ caller[m] \in {"track", "done"} /\ taken[m] > 0 =>
                row[m] \in {"none", "sent", "deleted"} \cup Settled
        BY <2>1 DEF MsgInv, StatusOfSent
      <4>4. QED
        BY <2>5, <4>1, <4>2, <4>3
    <3>2. QED
      BY <1>1, <1>4, <2>2, <3>1 DEF StatusOfSent
  <2>9. SettledOnce(m)'
    BY <2>2 DEF SettledOnce, HubDrains
  <2>10. SendsCounted(m)'
    <3>1. Fresh(m)' => caller[m] = "new"
      BY <1>4, <2>2, <2>5 DEF Fresh
    <3>2. taken[m] \in Nat /\ lives \in Nat /\ taken'[m] = taken[m] /\ lives' = lives
      BY <1>1, <1>3 DEF HubTypes
    <3>3. caller'[m] = "new" => taken[m] = 0
      BY <2>1, <2>5 DEF MsgInv, SendsCounted
    <3>4. m \in late' /\ m \notin late => Fresh(m)
      BY <1>5 DEF Fresh
    <3>5. caller[m] = "new" => Fresh(m)
      BY DEF Fresh
    <3>6. taken[m] + (IF m \in late THEN 1 ELSE 0) + (IF Fresh(m) THEN 1 ELSE 0) <= lives
      BY <2>1 DEF MsgInv, SendsCounted
    <3>7. taken[m] + (IF m \in late' THEN 1 ELSE 0) + (IF Fresh(m)' THEN 1 ELSE 0) <= lives
      <4>1. CASE Fresh(m)'
        <5>1. caller[m] = "new" /\ m \notin late' /\ Fresh(m)
          BY <2>3, <3>1, <3>5, <4>1
        <5>2. QED
          BY <3>2, <3>6, <5>1
      <4>2. CASE ~ Fresh(m)' /\ m \in late'
        BY <3>2, <3>4, <3>6, <4>2
      <4>3. CASE ~ Fresh(m)' /\ m \notin late'
        BY <3>2, <3>6, <4>3
      <4>4. QED
        BY <4>1, <4>2, <4>3
    <3>8. QED
      BY <1>4, <3>2, <3>3, <3>7 DEF SendsCounted
  <2>11. QED
    BY <2>6, <2>7, <2>8, <2>9, <2>10 DEF MsgInv
<1>10. HubTypes'
  <2>1. outq' \in [Radios -> Seq(Msgs)] /\ pend' \in [Radios -> Seq(Msgs)]
    BY <1>1, EmptyFacts
  <2>2. drain' \in [HubDrains -> DrainRecords]
    BY <1>1, NoDrainTyped
  <2>3. late' \subseteq Msgs
    BY <1>5
  <2>4. QED
    BY <1>1, <1>3, <1>4, <2>1, <2>2, <2>3 DEF HubTypes
<1>11. QueuesListed' /\ NothingLeft' /\ StoredOnce'
  BY <1>1, <1>4, <1>6, <1>7, EmptyFacts DEF HubInv, QueuesListed, Listed, NothingLeft, StoredOnce
<1>12. QED
  BY <1>1, <1>8, <1>9, <1>10, <1>11 DEF HubInv, Moves

LEMMA StartHubKeeps ==
    ASSUME HubInv, StartHub
    PROVE  HubInv' /\ Moves
<1> DEFINE fits(r) == SubSeq(Recoverable(r), 1, IF Len(Recoverable(r)) < QueueMax
                                                THEN Len(Recoverable(r)) ELSE QueueMax)
<1>1. /\ hub = "down" /\ hub' = "up" /\ lives' = lives + 1
      /\ outq' = [r \in Radios |-> fits(r)]
      /\ row' = [m \in Msgs |-> IF /\ row[m] = "queued"
                                   /\ m \in old \/ (m \in Range(Recoverable(Radio[m])) /\ m \notin Range(fits(Radio[m])))
                                THEN "expired" ELSE row[m]]
  BY DEF StartHub
<1>2. UNCHANGED <<stored, pend, bound, air, ackd, caller, drain, late, taken, up, old>>
  BY DEF StartHub
<1>3. HubTypes /\ NothingLeft /\ StoredOnce
  BY DEF HubInv
<1>4. ASSUME NEW r \in Radios
      PROVE  /\ outq'[r] \in Seq(Msgs) /\ IsInjective(outq'[r])
             /\ Range(outq'[r]) \subseteq Range(Recoverable(r))
             /\ Range(Recoverable(r)) = {m \in Msgs \ old : Radio[m] = r /\ row[m] = "queued"}
  <2> DEFINE q == Recoverable(r)
  <2>1. /\ q \in Seq(Msgs) /\ IsInjective(q)
        /\ Range(q) = Range(stored) \cap {m \in Msgs \ old : Radio[m] = r /\ row[m] = "queued"}
    <3>1. stored \in Seq(Msgs) /\ IsInjective(stored)
      BY <1>3 DEF HubTypes, StoredOnce
    <3>2. QED
      BY <3>1, KeptFacts DEF Recoverable
  <2>2. Range(q) = {m \in Msgs \ old : Radio[m] = r /\ row[m] = "queued"}
    BY <1>3, <2>1 DEF StoredOnce
  <2> DEFINE n == IF Len(q) < QueueMax THEN Len(q) ELSE QueueMax
  <2>3. n \in 0..Len(q)
    BY <2>1, HubAssumption
  <2>4. outq'[r] = SubSeq(q, 1, n)
    BY <1>1
  <2> HIDE DEF q, n
  <2>5. /\ SubSeq(q, 1, n) \in Seq(Msgs) /\ Range(SubSeq(q, 1, n)) \subseteq Range(q)
        /\ IsInjective(SubSeq(q, 1, n))
    BY <2>1, <2>3, PrefixFacts
  <2>6. QED
    BY <2>2, <2>4, <2>5 DEF q
<1>5. ASSUME NEW m \in Msgs
      PROVE  /\ m \in Range(outq'[Radio[m]]) => row[m] = "queued" /\ m \notin old
             /\ row'[m] = IF row[m] = "queued" /\ m \notin Range(outq'[Radio[m]]) THEN "expired" ELSE row[m]
  <2> DEFINE r == Radio[m]
  <2>1. r \in Radios /\ outq'[r] = fits(r)
    BY <1>1, RadioOf
  <2>2. /\ Range(outq'[r]) \subseteq Range(Recoverable(r))
        /\ Range(Recoverable(r)) = {x \in Msgs \ old : Radio[x] = r /\ row[x] = "queued"}
    BY <1>4, <2>1
  <2>3. row'[m] = IF /\ row[m] = "queued"
                     /\ m \in old \/ (m \in Range(Recoverable(r)) /\ m \notin Range(outq'[r]))
                  THEN "expired" ELSE row[m]
    BY <1>1, <2>1
  <2> HIDE DEF fits
  <2>4. QED
    BY <2>2, <2>3
<1> HIDE DEF fits
<1>6. outq' \in [Radios -> Seq(Msgs)]
  <2>1. outq' = [r \in Radios |-> outq'[r]]
    BY <1>1
  <2>2. QED
    BY <1>4, <2>1
<1>7. row' \in [Msgs -> Statuses] /\ \A x \in Msgs : row'[x] # "none" <=> row[x] # "none"
  <2>1. row' = [m \in Msgs |-> row'[m]]
    BY <1>1
  <2>2. row \in [Msgs -> Statuses] /\ "expired" \in Statuses
    BY <1>3 DEF HubTypes, Statuses
  <2>3. \A m \in Msgs : row'[m] \in Statuses /\ (row'[m] # "none" <=> row[m] # "none")
    BY <1>5, <2>2
  <2>4. QED
    BY <2>1, <2>3
<1>8. QueuesListed'
  <2>1. \A r \in Radios : Listed(r, outq'[r])
    BY <1>4 DEF Listed
  <2>2. QED
    BY <1>2, <2>1 DEF HubInv, QueuesListed
<1>9. \A x \in Msgs, d \in HubDrains : HeldAs(x, d)' = "none"
  BY <1>1, <1>2, <1>3, HeldIdle DEF NothingLeft
<1>10. ASSUME NEW m \in Msgs
       PROVE  MsgInv(m)' /\ (row'[m] = row[m] \/ row'[m] \in Abstract!Following(row[m]))
  <2>1. /\ MsgInv(m) /\ m \notin bound /\ ackd[m] = "none" /\ caller[m] \in {"new", "queued", "done"}
        /\ m \notin Range(pend[Radio[m]])
    BY <1>1, <1>3, RadioOf, EmptyFacts DEF HubInv, NothingLeft
  <2>2. row[m] = "queued" => caller[m] = "queued"
    BY <2>1 DEF MsgInv, StatusOfWaiting
  <2>3. m \in late => caller[m] = "queued"
    BY <2>1 DEF MsgInv, InOnePlace
  <2>4. caller[m] = "new" => row[m] = "none" /\ taken[m] = 0
    BY <2>1 DEF MsgInv, StatusOfWaiting, SendsCounted
  <2>5. m \notin Broadcasts /\ caller[m] = "done" /\ taken[m] > 0 =>
            row[m] \in {"none", "sent", "deleted"} \cup Settled
    BY <2>1 DEF MsgInv, StatusOfSent
  <2>6. InOnePlace(m)' /\ StatusOfWaiting(m)'
    BY <1>2, <1>5, <1>9, <2>1, <2>2, <2>3, <2>4 DEF InOnePlace, StatusOfWaiting, Unheld
  <2>7. StatusOfSent(m)' /\ SettledOnce(m)'
    BY <1>2, <1>5, <1>9, <2>1, <2>2, <2>5 DEF StatusOfSent, SettledOnce, HubDrains
  <2>8. SendsCounted(m)'
    <3>1. taken[m] \in Nat /\ lives \in Nat
      BY <1>3 DEF HubTypes
    <3>2. taken[m] + (IF m \in late THEN 1 ELSE 0) <= lives
      BY <2>1, <3>1 DEF MsgInv, SendsCounted
    <3>3. QED
      BY <1>1, <1>2, <2>1, <2>4, <3>1, <3>2 DEF SendsCounted
  <2>9. row'[m] = row[m] \/ row'[m] \in Abstract!Following(row[m])
    BY <1>5, NextStatus
  <2>10. QED
    BY <2>6, <2>7, <2>8, <2>9 DEF MsgInv
<1>11. HubTypes' /\ NothingLeft' /\ StoredOnce' /\ \A d \in HubDrains : DrainHolds(d)'
  BY <1>1, <1>2, <1>3, <1>6, <1>7, StoredKept DEF HubInv, HubTypes, NothingLeft, DrainHolds
<1>12. QED
  BY <1>8, <1>10, <1>11 DEF HubInv, Moves

-----------------------------------------------------------------------------
(* The theorems *)

LEMMA HubInitInv == HubInit => HubInv
<1> SUFFICES ASSUME HubInit PROVE HubInv
  OBVIOUS
<1>1. /\ row = [m \in Msgs |-> "none"] /\ stored = <<>>
      /\ outq = [r \in Radios |-> <<>>] /\ pend = [r \in Radios |-> <<>>]
      /\ bound = {} /\ air = {} /\ ackd = [m \in Msgs |-> "none"]
      /\ caller = [m \in Msgs |-> "new"] /\ drain = [d \in HubDrains |-> NoDrain]
      /\ late = {} /\ taken = [m \in Msgs |-> 0] /\ up \in [Radios -> BOOLEAN] /\ old = {}
      /\ hub = "up" /\ lives = 1
  BY DEF HubInit
<1>2. HubTypes
  <2>1. outq \in [Radios -> Seq(Msgs)] /\ pend \in [Radios -> Seq(Msgs)] /\ stored \in Seq(Msgs)
    BY <1>1, EmptyFacts
  <2>2. drain \in [HubDrains -> DrainRecords]
    BY <1>1, NoDrainTyped
  <2>3. QED
    BY <1>1, <2>1, <2>2 DEF HubTypes, Statuses, Callers
<1>3. QueuesListed /\ StoredOnce /\ NothingLeft
  BY <1>1, EmptyFacts DEF QueuesListed, Listed, StoredOnce, NothingLeft
<1>4. \A d \in HubDrains : drain[d].items = <<>> /\ drain[d].pc = "idle"
  BY <1>1 DEF NoDrain
<1>5. \A d \in HubDrains : DrainHolds(d)
  BY <1>4, EmptyFacts DEF DrainHolds
<1>6. ASSUME NEW m \in Msgs PROVE MsgInv(m)
  <2>1. /\ row[m] = "none" /\ m \notin bound /\ ackd[m] = "none" /\ caller[m] = "new" /\ m \notin late
        /\ taken[m] = 0 /\ m \notin Range(outq[Radio[m]]) /\ m \notin Range(pend[Radio[m]])
    BY <1>1, RadioOf, EmptyFacts
  <2>2. \A d \in HubDrains : HeldAs(m, d) = "none"
    BY <1>4, EmptyFacts DEF HeldAs
  <2>3. InOnePlace(m) /\ StatusOfWaiting(m) /\ StatusOfSent(m) /\ SettledOnce(m)
    BY <2>1, <2>2 DEF InOnePlace, StatusOfWaiting, StatusOfSent, SettledOnce, Unheld, HubDrains
  <2>4. SendsCounted(m)
    BY <1>1, <2>1 DEF SendsCounted
  <2>5. QED
    BY <2>3, <2>4 DEF MsgInv
<1>7. QED
  BY <1>2, <1>3, <1>5, <1>6 DEF HubInv

(* A step that changes nothing *)
LEMMA HubStutters ==
    ASSUME HubInv, UNCHANGED hubVars
    PROVE  HubInv' /\ Moves
  BY WorldKeeps DEF hubVars, HubInv, HubTypes

LEMMA HubStep == HubInv /\ [HubNext]_hubVars => HubInv' /\ Moves
<1> SUFFICES ASSUME HubInv, [HubNext]_hubVars PROVE HubInv' /\ Moves
  OBVIOUS
<1>1. CASE UNCHANGED hubVars
  BY <1>1, HubStutters
<1>2. ASSUME NEW m \in Msgs,
             \/ SendMessage(m) \/ SenderStep(m) \/ AckStored(m) \/ ReadReceipt(m)
             \/ DeleteRow(m) \/ LateSend(m) \/ GrowsOld(m)
             \/ \E s \in {"delivered", "delivery_failed", "propagated"} : Acknowledge(m, s)
      PROVE  HubInv' /\ Moves
  <2>1. CASE SenderStep(m)
    BY <2>1, AdapterSendKeeps, FinalizeSendKeeps, TrackSendKeeps, StoreQueuedKeeps, AppendQueuedKeeps
       DEF SenderStep
  <2>2. CASE SendMessage(m) \/ AckStored(m) \/ ReadReceipt(m)
    BY <2>2, SendMessageKeeps, AckStoredKeeps, ReadReceiptKeeps
  <2>3. CASE DeleteRow(m) \/ LateSend(m) \/ GrowsOld(m)
    BY <2>3, DeleteRowKeeps, LateSendKeeps, OutsideKeeps
  <2>4. CASE \E s \in {"delivered", "delivery_failed", "propagated"} : Acknowledge(m, s)
    BY <2>4, AcknowledgeKeeps
  <2>5. QED
    BY <1>2, <2>1, <2>2, <2>3, <2>4
<1>3. ASSUME NEW d \in HubDrains, DrainStep(d) \/ \E r \in Radios : DrainTake(d, r)
      PROVE  HubInv' /\ Moves
  <2>1. CASE DrainStep(d)
    BY <2>1, DrainAdapterKeeps, DrainEndsKeeps, DrainGivesUpKeeps, DrainUnavailableKeeps,
       DrainBudgetKeeps, DrainSendKeeps, DrainMarkKeeps DEF DrainStep
  <2>2. CASE \E r \in Radios : DrainTake(d, r)
    BY <2>2, DrainTakeKeeps
  <2>3. QED
    BY <1>3, <2>1, <2>2
<1>4. CASE TimeoutStep \/ ExpireQueued
  BY <1>4, ExpirePendingKeeps, TimedOutKeeps, ExpireQueuedKeeps DEF TimeoutStep
<1>5. CASE CloseHub
  <2>1. Forget /\ hub # "down" /\ late' = late \cup UNION {Unsent(d) : d \in HubDrains}
    BY <1>5 DEF CloseHub
  <2>2. QED
    BY <2>1, ForgetKeeps
<1>6. CASE Crash
  <2>1. Forget /\ hub # "down" /\ late' = {}
    BY <1>6 DEF Crash
  <2>2. QED
    BY <2>1, ForgetKeeps
<1>7. CASE StopHub \/ \E r \in Radios : LinkChanges(r)
  BY <1>7, OutsideKeeps
<1>8. CASE StartHub
  BY <1>8, StartHubKeeps
<1>9. QED
  BY <1>1, <1>2, <1>3, <1>4, <1>5, <1>6, <1>7, <1>8 DEF HubNext

(* The invariant says what the properties ask for. *)
LEMMA HubInvSays == HubInv => HubTypeOK /\ QueuedIsRemembered /\ SentOncePerLife
<1> SUFFICES ASSUME HubInv PROVE HubTypeOK /\ QueuedIsRemembered /\ SentOncePerLife
  OBVIOUS
<1>1. HubTypeOK
  BY DEF HubInv, HubTypes, QueuesListed, Listed, StoredOnce, HubTypeOK, Statuses
<1>2. QueuedIsRemembered
  <2>1. ASSUME NEW m \in Msgs, hub = "up", row[m] = "queued"
        PROVE  \/ caller[m] = "append" \/ m \in Range(outq[Radio[m]])
               \/ \E d \in HubDrains : m \in Range(drain[d].items)
    <3>1. \/ m \in Range(outq[Radio[m]]) \/ caller[m] = "append"
          \/ \E d \in HubDrains : HeldAs(m, d) \in {"wait", "mark"}
      BY <2>1 DEF HubInv, MsgInv, StatusOfWaiting
    <3>2. QED
      BY <3>1 DEF HeldAs
  <2>2. QED
    BY <2>1 DEF QueuedIsRemembered
<1>3. SentOncePerLife
  <2>1. ASSUME NEW m \in Msgs PROVE taken[m] <= lives
    <3>1. taken[m] \in Nat /\ lives \in Nat
      BY DEF HubInv, HubTypes
    <3>2. taken[m] + (IF m \in late THEN 1 ELSE 0) + (IF Fresh(m) THEN 1 ELSE 0) <= lives
      BY DEF HubInv, MsgInv, SendsCounted
    <3>3. QED
      BY <3>1, <3>2
  <2>2. QED
    BY <2>1 DEF SentOncePerLife
<1>4. QED
  BY <1>1, <1>2, <1>3

(* In every reachable state the rows, the queues, the drains and the trackers of
   the hub agree about each message: it is in one place, its status fits that
   place, and its possible sends are counted.                                *)
THEOREM HubInvariant == HubSpec => []HubInv
<1>1. HubInv /\ [HubNext]_hubVars => HubInv'
  BY HubStep
<1>2. QED
  BY <1>1, HubInitInv, PTL DEF HubSpec

(* A waiting message is remembered, and the starts of the hub bound how often a
   message is sent, whatever is lost, stopped or restarted meanwhile.        *)
THEOREM HubSafe == HubSpec => [](HubTypeOK /\ QueuedIsRemembered /\ SentOncePerLife)
  BY HubInvariant, HubInvSays, PTL

(* The message store implements the Outbox. *)
THEOREM StatusMovesForward == HubSpec => ForwardOnly
<1>1. HubInit => Abstract!OutboxInit
  BY DEF HubInit, Abstract!OutboxInit
<1>2. HubInv /\ HubInv' /\ [HubNext]_hubVars => [Abstract!Advance]_row
  <2>1. SUFFICES ASSUME HubInv, HubInv', [HubNext]_hubVars PROVE Abstract!Advance
    OBVIOUS
  <2>2. Moves /\ row' \in [Msgs -> Statuses]
    BY <2>1, HubStep DEF HubInv, HubTypes
  <2>3. QED
    BY <2>2 DEF Moves, Abstract!Advance
<1>3. QED
  BY <1>1, <1>2, HubInvariant, PTL DEF HubSpec, ForwardOnly, Abstract!OutboxSpec

(* The timeout loop overwrites no status that is final. *)
THEOREM FinalStaysFinal == HubSpec => TimeoutNeverOverwrites
<1>1. HubInv /\ [HubNext]_hubVars =>
          [\A m \in Msgs : row[m] \in Terminal => row'[m] \notin {"timeout", "expired"}]_hubVars
  <2>1. SUFFICES ASSUME HubInv, [HubNext]_hubVars, NEW m \in Msgs, row[m] \in Terminal
                 PROVE  row'[m] \notin {"timeout", "expired"}
    OBVIOUS
  <2>2. row'[m] = row[m] \/ row'[m] \in Abstract!Following(row[m])
    BY <2>1, HubStep DEF Moves
  <2>3. row[m] \in {"delivered", "delivery_failed", "failed", "broadcast_sent", "read"}
    BY <2>1 DEF Terminal
  <2>4. QED
    BY <2>2, <2>3 DEF Abstract!Following, Abstract!Settled, Abstract!Given
<1>2. QED
  BY <1>1, HubInvariant, PTL DEF HubSpec, TimeoutNeverOverwrites

(* The messaging hub keeps every message: what the run hub_and_claims checks on
   two messages, for every number of messages, radios and restarts.          *)
THEOREM HubKeepsMessages == HubSpec => MessagesKept
  BY HubSafe, StatusMovesForward, FinalStaysFinal, PTL DEF MessagesKept

=============================================================================
