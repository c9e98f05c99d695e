---------------------------- MODULE ResolveProofs ----------------------------
(***************************************************************************)
(* Proofs about ResolveOrder, for any plugins, manifests and roots, and    *)
(* any order in which Go's maps are iterated: an order that is returned is *)
(* the closure of the roots in an order that can be installed, and an      *)
(* error is returned exactly where there is none.                          *)
(***************************************************************************)
EXTENDS ResolveOrder, SequenceTheorems, FiniteSetTheorems, TLAPS

-----------------------------------------------------------------------------
(* Sequences and what is in them.                                          *)

\* The elements of a sequence.
LEMMA Members ==
  ASSUME NEW S, NEW s \in Seq(S)
  PROVE  /\ Len(s) \in Nat /\ DOMAIN s = 1 .. Len(s)
         /\ ToSet(s) \subseteq S
         /\ \A i \in 1 .. Len(s) : s[i] \in ToSet(s)
         /\ \A x \in ToSet(s) : \E i \in 1 .. Len(s) : s[i] = x
<1>1. Len(s) \in Nat /\ DOMAIN s = 1 .. Len(s) /\ s \in [1 .. Len(s) -> S]
  BY LenProperties
<1>2. QED
  BY <1>1 DEF ToSet

\* The places of a sequence of length n.
LEMMA IntervalSize ==
  ASSUME NEW n \in Nat
  PROVE  IsFiniteSet(1 .. n) /\ Cardinality(1 .. n) = n
<1>1. IsFiniteSet(1 .. n) /\ Cardinality(1 .. n) = IF 1 > n THEN 0 ELSE n - 1 + 1
  BY FS_Interval
<1>2. QED
  BY <1>1

\* Nothing is in an empty sequence.
LEMMA EmptyMembers == ToSet(<<>>) = {}
BY DEF ToSet

\* The first element and the others.
LEMMA HeadMembers ==
  ASSUME NEW S, NEW s \in Seq(S), s # <<>>
  PROVE  /\ Head(s) \in S /\ Tail(s) \in Seq(S)
         /\ ToSet(s) = {Head(s)} \cup ToSet(Tail(s))
<1>1. /\ Head(s) \in S /\ Tail(s) \in Seq(S) /\ Len(Tail(s)) = Len(s) - 1
      /\ \A i \in 1 .. Len(Tail(s)) : Tail(s)[i] = s[i + 1]
  BY HeadTailProperties
<1>2. Len(s) \in Nat \ {0} /\ Head(s) = s[1]
  BY EmptySeq
<1>3. ASSUME NEW x \in ToSet(s) PROVE x \in {Head(s)} \cup ToSet(Tail(s))
  <2>1. PICK i \in 1 .. Len(s) : s[i] = x
    BY Members
  <2>2. CASE i = 1
    BY <1>2, <2>1, <2>2
  <2>3. CASE i # 1
    <3>1. i - 1 \in 1 .. Len(Tail(s)) /\ (i - 1) + 1 = i
      BY <1>1, <1>2, <2>3
    <3>2. Tail(s)[i - 1] = x
      BY <1>1, <2>1, <3>1
    <3>3. QED
      BY <1>1, <3>1, <3>2, Members
  <2>4. QED
    BY <2>2, <2>3
<1>4. Head(s) \in ToSet(s)
  BY <1>2, Members
<1>5. ASSUME NEW x \in ToSet(Tail(s)) PROVE x \in ToSet(s)
  <2>1. PICK i \in 1 .. Len(Tail(s)) : Tail(s)[i] = x
    BY <1>1, Members
  <2>2. i + 1 \in 1 .. Len(s) /\ s[i + 1] = x
    BY <1>1, <1>2, <2>1
  <2>3. QED
    BY <2>2, Members
<1>6. QED
  BY <1>1, <1>3, <1>4, <1>5

\* What is in either of two sequences is in the two together.
LEMMA ConcatMembers ==
  ASSUME NEW S, NEW s \in Seq(S), NEW t \in Seq(S)
  PROVE  s \o t \in Seq(S) /\ ToSet(s \o t) = ToSet(s) \cup ToSet(t)
<1>1. /\ s \o t \in Seq(S) /\ Len(s \o t) = Len(s) + Len(t)
      /\ \A i \in 1 .. Len(s) + Len(t) :
           (s \o t)[i] = IF i <= Len(s) THEN s[i] ELSE t[i - Len(s)]
  BY ConcatProperties
<1>2. Len(s) \in Nat /\ Len(t) \in Nat
  BY Members
<1>3. ASSUME NEW x \in ToSet(s \o t) PROVE x \in ToSet(s) \cup ToSet(t)
  <2>1. PICK i \in 1 .. Len(s \o t) : (s \o t)[i] = x
    BY <1>1, Members
  <2>2. CASE i <= Len(s)
    <3>1. i \in 1 .. Len(s) /\ s[i] = x
      BY <1>1, <1>2, <2>1, <2>2
    <3>2. QED
      BY <3>1, Members
  <2>3. CASE ~(i <= Len(s))
    <3>1. i - Len(s) \in 1 .. Len(t) /\ t[i - Len(s)] = x
      BY <1>1, <1>2, <2>1, <2>3
    <3>2. QED
      BY <3>1, Members
  <2>4. QED
    BY <2>2, <2>3
<1>4. ASSUME NEW x \in ToSet(s) PROVE x \in ToSet(s \o t)
  <2>1. PICK i \in 1 .. Len(s) : s[i] = x
    BY Members
  <2>2. i \in 1 .. Len(s \o t) /\ (s \o t)[i] = x
    BY <1>1, <1>2, <2>1
  <2>3. QED
    BY <1>1, <2>2, Members
<1>5. ASSUME NEW x \in ToSet(t) PROVE x \in ToSet(s \o t)
  <2>1. PICK i \in 1 .. Len(t) : t[i] = x
    BY Members
  <2>2. i + Len(s) \in 1 .. Len(s) + Len(t) /\ ~(i + Len(s) <= Len(s)) /\ (i + Len(s)) - Len(s) = i
    BY <1>2, <2>1
  <2>3. (s \o t)[i + Len(s)] = x
    BY <1>1, <2>1, <2>2
  <2>4. QED
    BY <1>1, <2>2, <2>3, Members
<1>6. QED
  BY <1>1, <1>3, <1>4, <1>5

\* Two sequences without repetition and nothing in common make one without repetition.
LEMMA ConcatInjective ==
  ASSUME NEW S, NEW s \in Seq(S), NEW t \in Seq(S), IsInjective(s), IsInjective(t),
         ToSet(s) \cap ToSet(t) = {}
  PROVE  IsInjective(s \o t)
<1>1. /\ s \o t \in Seq(S) /\ Len(s \o t) = Len(s) + Len(t)
      /\ \A i \in 1 .. Len(s) + Len(t) :
           (s \o t)[i] = IF i <= Len(s) THEN s[i] ELSE t[i - Len(s)]
  BY ConcatProperties
<1>2. Len(s) \in Nat /\ Len(t) \in Nat
  BY Members
<1>3. /\ \A i \in 1 .. Len(s) : (s \o t)[i] = s[i]
      /\ \A i \in 1 .. Len(s) + Len(t) :
           ~(i <= Len(s)) => i - Len(s) \in 1 .. Len(t) /\ (s \o t)[i] = t[i - Len(s)]
  BY <1>1, <1>2
<1>4. /\ \A a, b \in 1 .. Len(s) : s[a] = s[b] => a = b
      /\ \A a, b \in 1 .. Len(t) : t[a] = t[b] => a = b
  <2>1. DOMAIN s = 1 .. Len(s) /\ DOMAIN t = 1 .. Len(t)
    BY Members
  <2>2. QED
    BY <2>1, Zenon DEF IsInjective
<1>5. \A a \in 1 .. Len(s), b \in 1 .. Len(t) : s[a] # t[b]
  BY Members
<1>6. ASSUME NEW a \in 1 .. Len(s) + Len(t), NEW b \in 1 .. Len(s) + Len(t),
             (s \o t)[a] = (s \o t)[b]
      PROVE  a = b
  <2>1. CASE a <= Len(s) /\ b <= Len(s)
    BY <1>2, <1>3, <1>4, <1>6, <2>1
  <2>2. CASE a <= Len(s) /\ ~(b <= Len(s))
    BY <1>2, <1>3, <1>5, <1>6, <2>2
  <2>3. CASE ~(a <= Len(s)) /\ b <= Len(s)
    BY <1>2, <1>3, <1>5, <1>6, <2>3
  <2>4. CASE ~(a <= Len(s)) /\ ~(b <= Len(s))
    <3>1. a - Len(s) = b - Len(s)
      BY <1>3, <1>4, <1>6, <2>4
    <3>2. QED
      BY <1>2, <3>1
  <2>5. QED
    BY <2>1, <2>2, <2>3, <2>4
<1>7. DOMAIN (s \o t) = 1 .. Len(s) + Len(t)
  BY <1>1, Members
<1>8. QED
  BY <1>6, <1>7 DEF IsInjective

\* A sequence without repetition is as long as it has elements.
LEMMA InjectiveLength ==
  ASSUME NEW S, NEW s \in Seq(S), IsInjective(s)
  PROVE  IsFiniteSet(ToSet(s)) /\ Cardinality(ToSet(s)) = Len(s)
<1>1. Len(s) \in Nat /\ DOMAIN s = 1 .. Len(s)
  BY Members
<1>2. s \in Bijection(1 .. Len(s), ToSet(s))
  <2>1. s \in [1 .. Len(s) -> ToSet(s)]
    BY <1>1, LenProperties DEF ToSet
  <2>2. \A a, b \in 1 .. Len(s) : s[a] = s[b] => a = b
    BY <1>1, Zenon DEF IsInjective
  <2>3. \A x \in ToSet(s) : \E i \in 1 .. Len(s) : s[i] = x
    BY Members
  <2>4. QED
    BY <2>1, <2>2, <2>3 DEF Bijection, Injection, Surjection, IsInjective
<1>3. IsFiniteSet(1 .. Len(s)) /\ Cardinality(1 .. Len(s)) = Len(s)
  BY <1>1, IntervalSize
<1>4. ExistsBijection(1 .. Len(s), ToSet(s))
  BY <1>2 DEF ExistsBijection
<1>5. QED
  BY <1>3, <1>4, FS_Bijection

\* A finite set written as a sequence: each of its elements, once.
LEMMA Enumeration ==
  ASSUME NEW T, IsFiniteSet(T), NEW s \in SetToSeqs(T)
  PROVE  s \in Seq(T) /\ ToSet(s) = T /\ IsInjective(s)
<1>1. Cardinality(T) \in Nat
  BY FS_CardinalityType
<1> DEFINE n == Cardinality(T)
<1>2. s \in [1 .. n -> T] /\ \A i, j \in 1 .. n : i # j => s[i] # s[j]
  BY Zenon DEF SetToSeqs
<1> HIDE DEF n
<1>3. s \in Seq(T) /\ DOMAIN s = 1 .. n
  BY <1>1, <1>2 DEF n
<1>4. IsInjective(s)
  BY <1>2, <1>3, Zenon DEF IsInjective
<1>5. Len(s) = n
  BY <1>1, <1>2, <1>3 DEF n
<1>6. ToSet(s) \in SUBSET T /\ Cardinality(ToSet(s)) = Cardinality(T)
  BY <1>3, <1>4, <1>5, Members, InjectiveLength DEF n
<1>7. T = ToSet(s)
  BY <1>6, FS_Subset
<1>8. QED
  BY <1>3, <1>4, <1>7

\* The halves of a sequence without repetition have nothing in common.
LEMMA ConcatApart ==
  ASSUME NEW S, NEW s \in Seq(S), NEW t \in Seq(S), IsInjective(s \o t)
  PROVE  IsInjective(s) /\ ToSet(s) \cap ToSet(t) = {}
<1>1. /\ s \o t \in Seq(S) /\ Len(s \o t) = Len(s) + Len(t)
      /\ \A i \in 1 .. Len(s) + Len(t) :
           (s \o t)[i] = IF i <= Len(s) THEN s[i] ELSE t[i - Len(s)]
  BY ConcatProperties
<1>2. Len(s) \in Nat /\ Len(t) \in Nat /\ DOMAIN s = 1 .. Len(s)
  BY Members
<1>3. DOMAIN (s \o t) = 1 .. Len(s) + Len(t)
  BY <1>1, Members
<1>4. \A a, b \in 1 .. Len(s) + Len(t) : (s \o t)[a] = (s \o t)[b] => a = b
  BY <1>3, Zenon DEF IsInjective
<1>5. \A a \in 1 .. Len(s) : a \in 1 .. Len(s) + Len(t) /\ (s \o t)[a] = s[a]
  BY <1>1, <1>2
<1>6. \A b \in 1 .. Len(t) :
        b + Len(s) \in 1 .. Len(s) + Len(t) /\ (s \o t)[b + Len(s)] = t[b]
  <2> SUFFICES ASSUME NEW b \in 1 .. Len(t)
               PROVE  b + Len(s) \in 1 .. Len(s) + Len(t) /\ (s \o t)[b + Len(s)] = t[b]
    OBVIOUS
  <2>1. /\ b + Len(s) \in 1 .. Len(s) + Len(t) /\ ~(b + Len(s) <= Len(s))
        /\ (b + Len(s)) - Len(s) = b
    BY <1>2
  <2>2. QED
    BY <1>1, <2>1
<1>7. IsInjective(s)
  <2>1. \A a, b \in 1 .. Len(s) : s[a] = s[b] => a = b
    BY <1>4, <1>5
  <2>2. QED
    BY <1>2, <2>1, Zenon DEF IsInjective
<1>8. ASSUME NEW x \in ToSet(s), x \in ToSet(t) PROVE FALSE
  <2>1. PICK a \in 1 .. Len(s) : s[a] = x
    BY Members
  <2>2. PICK b \in 1 .. Len(t) : t[b] = x
    BY <1>8, Members
  <2>3. a = b + Len(s)
    BY <1>4, <1>5, <1>6, <2>1, <2>2
  <2>4. QED
    BY <1>2, <2>3
<1>9. QED
  BY <1>7, <1>8

\* One element more.
LEMMA AppendMembers ==
  ASSUME NEW S, NEW s \in Seq(S), NEW x \in S
  PROVE  Append(s, x) \in Seq(S) /\ ToSet(Append(s, x)) = ToSet(s) \cup {x}
<1>1. /\ Append(s, x) \in Seq(S) /\ Len(Append(s, x)) = Len(s) + 1
      /\ \A i \in 1 .. Len(s) : Append(s, x)[i] = s[i]
      /\ Append(s, x)[Len(s) + 1] = x
  BY AppendProperties
<1>2. Len(s) \in Nat
  BY Members
<1>3. ASSUME NEW y \in ToSet(Append(s, x)) PROVE y \in ToSet(s) \cup {x}
  <2>1. PICK i \in 1 .. Len(s) + 1 : Append(s, x)[i] = y
    BY <1>1, Members
  <2>2. CASE i = Len(s) + 1
    BY <1>1, <2>1, <2>2
  <2>3. CASE i # Len(s) + 1
    <3>1. i \in 1 .. Len(s)
      BY <1>2, <2>3
    <3>2. QED
      BY <1>1, <2>1, <3>1, Members
  <2>4. QED
    BY <2>2, <2>3
<1>4. ASSUME NEW y \in ToSet(s) PROVE y \in ToSet(Append(s, x))
  <2>1. PICK i \in 1 .. Len(s) : s[i] = y
    BY Members
  <2>2. i \in 1 .. Len(s) + 1 /\ Append(s, x)[i] = y
    BY <1>1, <1>2, <2>1
  <2>3. QED
    BY <1>1, <2>2, Members
<1>5. x \in ToSet(Append(s, x))
  <2> DEFINE a == Append(s, x)
  <2>1. a \in Seq(S) /\ Len(s) + 1 \in 1 .. Len(a) /\ a[Len(s) + 1] = x
    BY <1>1, <1>2
  <2> HIDE DEF a
  <2>2. a[Len(s) + 1] \in ToSet(a)
    BY <2>1, Members
  <2>3. QED
    BY <2>1, <2>2 DEF a
<1>6. QED
  BY <1>1, <1>3, <1>4, <1>5

\* The first of t moves to the end of s: the two together are what they were.
LEMMA MoveHead ==
  ASSUME NEW S, NEW s \in Seq(S), NEW t \in Seq(S), NEW u \in Seq(S), t # <<>>
  PROVE  Append(s, Head(t)) \o (Tail(t) \o u) = (s \o t) \o u
<1>1. /\ Head(t) \in S /\ Tail(t) \in Seq(S) /\ Len(Tail(t)) = Len(t) - 1
      /\ \A i \in 1 .. Len(Tail(t)) : Tail(t)[i] = t[i + 1]
  BY HeadTailProperties
<1>2. Head(t) = t[1] /\ Len(t) \in Nat \ {0} /\ Len(s) \in Nat /\ Len(u) \in Nat
  BY EmptySeq, Members
<1>3. PICK a \in Seq(S) : a = Append(s, Head(t))
  BY <1>1, AppendProperties
<1>4. /\ Len(a) = Len(s) + 1 /\ \A i \in 1 .. Len(s) : a[i] = s[i]
      /\ a[Len(s) + 1] = t[1]
  BY <1>1, <1>2, <1>3, AppendProperties
<1>5. PICK b \in Seq(S) : b = Tail(t) \o u
  BY <1>1, ConcatProperties
<1>6. /\ Len(b) = (Len(t) - 1) + Len(u)
      /\ \A i \in 1 .. Len(t) - 1 : b[i] = t[i + 1]
      /\ \A i \in Len(t) .. (Len(t) - 1) + Len(u) : b[i] = u[i - (Len(t) - 1)]
  <2>1. PICK r \in Seq(S) : r = Tail(t)
    BY <1>1
  <2>2. /\ Len(r \o u) = Len(r) + Len(u)
        /\ \A i \in 1 .. Len(r) + Len(u) :
             (r \o u)[i] = IF i <= Len(r) THEN r[i] ELSE u[i - Len(r)]
    BY ConcatProperties
  <2>3. Len(r) = Len(t) - 1 /\ \A i \in 1 .. Len(r) : r[i] = t[i + 1]
    BY <1>1, <2>1
  <2>4. /\ Len(b) = (Len(t) - 1) + Len(u)
        /\ \A i \in 1 .. (Len(t) - 1) + Len(u) :
             b[i] = IF i <= Len(t) - 1 THEN r[i] ELSE u[i - (Len(t) - 1)]
    BY <1>5, <2>1, <2>2, <2>3
  <2>5. QED
    BY <1>2, <2>3, <2>4
<1>7. PICK d \in Seq(S) : d = s \o t
  BY ConcatProperties
<1>8. /\ Len(d) = Len(s) + Len(t) /\ \A i \in 1 .. Len(s) : d[i] = s[i]
      /\ \A i \in Len(s) + 1 .. Len(s) + Len(t) : d[i] = t[i - Len(s)]
  <2>1. /\ Len(d) = Len(s) + Len(t)
        /\ \A i \in 1 .. Len(s) + Len(t) :
             d[i] = IF i <= Len(s) THEN s[i] ELSE t[i - Len(s)]
    BY <1>7, ConcatProperties
  <2>2. QED
    BY <1>2, <2>1
<1>9. PICK x \in Seq(S) : x = a \o b
  BY ConcatProperties
<1>10. PICK y \in Seq(S) : y = d \o u
  BY ConcatProperties
<1>11. /\ Len(x) = Len(a) + Len(b)
       /\ \A i \in 1 .. Len(a) + Len(b) : x[i] = IF i <= Len(a) THEN a[i] ELSE b[i - Len(a)]
  BY <1>9, ConcatProperties
<1>12. /\ Len(y) = Len(d) + Len(u)
       /\ \A i \in 1 .. Len(d) + Len(u) : y[i] = IF i <= Len(d) THEN d[i] ELSE u[i - Len(d)]
  BY <1>10, ConcatProperties
<1>13. Len(x) = Len(y) /\ Len(x) = Len(s) + Len(t) + Len(u)
  BY <1>2, <1>4, <1>6, <1>8, <1>11, <1>12
<1>14. ASSUME NEW i \in 1 .. Len(x) PROVE x[i] = y[i]
  <2>1. i \in 1 .. Len(a) + Len(b) /\ i \in 1 .. Len(d) + Len(u)
    BY <1>11, <1>12, <1>13
  <2>2. CASE i \in 1 .. Len(s)
    <3>1. x[i] = s[i]
      BY <1>2, <1>4, <1>11, <2>1, <2>2
    <3>2. y[i] = s[i]
      BY <1>2, <1>8, <1>12, <2>1, <2>2
    <3>3. QED
      BY <3>1, <3>2
  <2>3. CASE i = Len(s) + 1
    <3>1. x[i] = t[1]
      BY <1>2, <1>4, <1>11, <2>1, <2>3
    <3>2. i \in Len(s) + 1 .. Len(s) + Len(t) /\ i - Len(s) = 1 /\ i <= Len(d)
      BY <1>2, <1>8, <2>3
    <3>3. y[i] = t[1]
      BY <1>8, <1>12, <2>1, <3>2
    <3>4. QED
      BY <3>1, <3>3
  <2>4. CASE i \in Len(s) + 2 .. Len(s) + Len(t)
    <3>1. /\ i - Len(a) \in 1 .. Len(t) - 1 /\ (i - Len(a)) + 1 = i - Len(s) /\ ~(i <= Len(a))
          /\ i <= Len(d) /\ i \in Len(s) + 1 .. Len(s) + Len(t)
      BY <1>2, <1>4, <1>8, <2>4
    <3>2. x[i] = b[i - Len(a)]
      BY <1>11, <2>1, <3>1
    <3>3. b[i - Len(a)] = t[i - Len(s)]
      BY <1>6, <3>1
    <3>4. y[i] = t[i - Len(s)]
      BY <1>8, <1>12, <2>1, <3>1
    <3>5. QED
      BY <3>2, <3>3, <3>4
  <2>5. CASE i \in Len(s) + Len(t) + 1 .. Len(s) + Len(t) + Len(u)
    <3>1. /\ i - Len(a) \in Len(t) .. (Len(t) - 1) + Len(u) /\ ~(i <= Len(a)) /\ ~(i <= Len(d))
          /\ (i - Len(a)) - (Len(t) - 1) = i - Len(d)
      BY <1>2, <1>4, <1>8, <2>5
    <3>2. x[i] = b[i - Len(a)]
      BY <1>11, <2>1, <3>1
    <3>3. b[i - Len(a)] = u[i - Len(d)]
      BY <1>6, <3>1
    <3>4. y[i] = u[i - Len(d)]
      BY <1>12, <2>1, <3>1
    <3>5. QED
      BY <3>2, <3>3, <3>4
  <2>6. QED
    BY <1>2, <1>13, <2>2, <2>3, <2>4, <2>5
<1>15. x = y
  BY <1>13, <1>14, SeqEqual
<1>16. QED
  BY <1>3, <1>5, <1>7, <1>9, <1>10, <1>15, Zenon

-----------------------------------------------------------------------------
(* The closure of the roots.                                               *)

\* What a manifest requires is a sequence of plugins, within the bound.
LEMMA RequiresFacts ==
  ASSUME NEW r \in Requires
  PROVE  r \in Seq(Plugins) /\ Len(r) \in 0 .. MaxRequires
<1>1. PICK k \in 0 .. MaxRequires : r \in [1 .. k -> Plugins]
  BY DEF Requires
<1>2. k \in Nat
  BY RequiresAssumption
<1>3. QED
  BY <1>1, <1>2

\* A plugin's requires, where it has a manifest.
LEMMA ManifestFacts ==
  ASSUME ResolveTypeOK, NEW p \in Plugins, catalog[p] # Missing
  PROVE  catalog[p] \in Seq(Plugins) /\ Len(catalog[p]) \in 0 .. MaxRequires
<1>1. catalog[p] \in Requires
  BY DEF ResolveTypeOK
<1>2. QED
  BY <1>1, RequiresFacts

\* The closure has the roots, it has what its members need, and no closed set is smaller.
LEMMA ClosureFacts ==
  ASSUME ResolveTypeOK
  PROVE  /\ Closure \subseteq Plugins /\ ToSet(roots) \subseteq Closure
         /\ \A p \in Closure, q \in Plugins : Needs(p, q) => q \in Closure
         /\ \A S \in SUBSET Plugins : Closed(S) => Closure \subseteq S
<1>1. roots \in Seq(Plugins)
  BY RequiresAssumption DEF ResolveTypeOK
<1>2. ToSet(roots) \subseteq Plugins
  BY <1>1, Members
<1>3. ToSet(roots) \subseteq Closure
  BY <1>2 DEF Closure, Closed
<1>4. ASSUME NEW p \in Closure, NEW q \in Plugins, Needs(p, q) PROVE q \in Closure
  <2>1. ASSUME NEW S \in SUBSET Plugins, Closed(S) PROVE q \in S
    <3>1. p \in S
      BY <2>1 DEF Closure
    <3>2. QED
      BY <1>4, <2>1, <3>1 DEF Closed
  <2>2. QED
    BY <2>1 DEF Closure
<1>5. Closure \subseteq Plugins /\ \A S \in SUBSET Plugins : Closed(S) => Closure \subseteq S
  BY DEF Closure
<1>6. QED
  BY <1>3, <1>4, <1>5

\* No step changes the catalog or the roots, and so the closure.
LEMMA ClosureUnchanged ==
  ASSUME UNCHANGED <<catalog, roots>>
  PROVE  Closure' = Closure
BY DEF Closure, Closed, Needs

\* When the queue is empty the walk has loaded the closure.
LEMMA LoadedIsClosure ==
  ASSUME ResolveTypeOK, WalkInv, queue = <<>>
  PROVE  nodes = Closure
<1>1. nodes \in SUBSET Plugins
  BY DEF ResolveTypeOK
<1>2. nodes \subseteq Closure
  BY DEF WalkInv
<1>3. ToSet(queue) = {}
  BY EmptyMembers
<1>4. Closed(nodes)
  BY <1>3 DEF Closed, Needs, WalkInv
<1>5. QED
  BY <1>1, <1>2, <1>4, ClosureFacts

-----------------------------------------------------------------------------
(* The walk.                                                               *)

\* The walk begins with the roots.
LEMMA ResolveInitHolds == ResolveInit => ResolveInv
<1> SUFFICES ASSUME ResolveInit PROVE ResolveInv
  OBVIOUS
<1>1. roots \in Seq(Plugins)
  BY RequiresAssumption DEF ResolveInit
<1>2. inDegree \in [Plugins -> 0 .. MaxRequires]
  BY RequiresAssumption DEF ResolveInit
<1>3. <<>> \in Seq(Plugins)
  BY EmptySeq
<1>4. ResolveTypeOK
  BY <1>1, <1>2, <1>3 DEF ResolveInit, ResolveTypeOK
<1>5. WalkInv
  <2>1. IsFiniteSet(nodes)
    BY FS_EmptySet DEF ResolveInit
  <2>2. nodes \cup ToSet(queue) \subseteq Closure
    BY <1>4, ClosureFacts DEF ResolveInit
  <2>3. QED
    BY <2>1, <2>2 DEF ResolveInit, WalkInv
<1>6. QED
  BY <1>4, <1>5 DEF ResolveInv, ResolveInit

\* A plugin that is loaded is skipped.
LEMMA CollectSkipStep ==
  ASSUME ResolveInv, CollectSkip
  PROVE  ResolveInv'
<1> USE DEF ResolveInv
<1>1. queue \in Seq(Plugins) /\ queue # <<>>
  BY DEF ResolveTypeOK, CollectSkip
<1>2. /\ Head(queue) \in Plugins /\ Tail(queue) \in Seq(Plugins)
      /\ ToSet(queue) = {Head(queue)} \cup ToSet(Tail(queue))
  BY <1>1, HeadMembers
<1>3. ResolveTypeOK'
  BY <1>2 DEF ResolveTypeOK, CollectSkip
<1>4. nodes' \cup ToSet(queue)' = nodes \cup ToSet(queue)
  <2>1. ToSet(queue)' = ToSet(Tail(queue))
    BY DEF CollectSkip
  <2>2. QED
    BY <1>2, <2>1 DEF CollectSkip
<1>5. Closure' = Closure
  BY ClosureUnchanged DEF CollectSkip
<1>6. UNCHANGED <<catalog, nodes, order, pc>> /\ ToSet(roots)' = ToSet(roots) /\ pc = "collect"
  BY DEF CollectSkip
<1>7. WalkInv'
  BY <1>4, <1>5, <1>6 DEF WalkInv
<1>8. QED
  BY <1>3, <1>6, <1>7

\* A manifest is loaded, and what it requires is queued.
LEMMA CollectLoadStep ==
  ASSUME ResolveInv, CollectLoad
  PROVE  ResolveInv'
<1> USE DEF ResolveInv
<1> DEFINE name == Head(queue)
<1>1. queue \in Seq(Plugins) /\ queue # <<>>
  BY DEF ResolveTypeOK, CollectLoad
<1>2. /\ name \in Plugins /\ Tail(queue) \in Seq(Plugins)
      /\ ToSet(queue) = {name} \cup ToSet(Tail(queue))
  BY <1>1, HeadMembers
<1>3. /\ name \notin nodes /\ catalog[name] # Missing
      /\ nodes' = nodes \cup {name} /\ queue' = Tail(queue) \o catalog[name]
      /\ UNCHANGED <<catalog, roots, inDegree, ready, order, pc>> /\ pc = "collect"
  BY DEF CollectLoad
<1> HIDE DEF name
<1>4. catalog[name] \in Seq(Plugins)
  BY <1>2, <1>3, ManifestFacts
<1>5. queue' \in Seq(Plugins) /\ ToSet(queue)' = ToSet(Tail(queue)) \cup ToSet(catalog[name])
  <2>1. /\ Tail(queue) \o catalog[name] \in Seq(Plugins)
        /\ ToSet(Tail(queue) \o catalog[name]) = ToSet(Tail(queue)) \cup ToSet(catalog[name])
    <3> DEFINE t == Tail(queue)
               r == catalog[name]
    <3>1. t \in Seq(Plugins) /\ r \in Seq(Plugins)
      BY <1>2, <1>4
    <3> HIDE DEF t, r
    <3>2. t \o r \in Seq(Plugins) /\ ToSet(t \o r) = ToSet(t) \cup ToSet(r)
      BY <3>1, ConcatMembers
    <3>3. QED
      BY <3>2 DEF t, r
  <2>2. ToSet(queue)' = ToSet(Tail(queue) \o catalog[name])
    BY <1>3
  <2>3. QED
    BY <1>3, <2>1, <2>2
<1>6. ResolveTypeOK'
  BY <1>2, <1>3, <1>5 DEF ResolveTypeOK
<1>7. nodes' \cup ToSet(queue)' = nodes \cup ToSet(queue) \cup ToSet(catalog[name])
  BY <1>2, <1>3, <1>5
<1>8. Closure' = Closure
  BY <1>3, ClosureUnchanged
<1>9. ToSet(catalog[name]) \subseteq Closure
  <2>1. name \in Closure
    BY <1>2 DEF WalkInv
  <2>2. ToSet(catalog[name]) \subseteq Plugins
    BY <1>4, Members
  <2>3. \A q \in ToSet(catalog[name]) : Needs(name, q)
    BY <1>3 DEF Needs
  <2>4. QED
    BY <2>1, <2>2, <2>3, ClosureFacts
<1>10. WalkInv'
  <2>1. IsFiniteSet(nodes)'
    BY <1>3, FS_AddElement DEF WalkInv
  <2>2. (nodes \cup ToSet(queue) \subseteq Closure)'
    BY <1>7, <1>8, <1>9 DEF WalkInv
  <2>3. (ToSet(roots) \subseteq nodes \cup ToSet(queue))'
    <3>1. ToSet(roots)' = ToSet(roots)
      BY <1>3
    <3>2. QED
      BY <1>7, <3>1 DEF WalkInv
  <2>4. \A p \in nodes' :
          catalog[p] # Missing /\ ToSet(catalog[p]) \subseteq nodes' \cup ToSet(queue)'
    BY <1>3, <1>7 DEF WalkInv
  <2>5. QED
    BY <1>3, <2>1, <2>2, <2>3, <2>4 DEF WalkInv
<1>11. QED
  BY <1>3, <1>6, <1>10

\* A plugin without a manifest ends the walk.
LEMMA LoadFailsStep ==
  ASSUME ResolveInv, LoadFails
  PROVE  ResolveInv'
<1> USE DEF ResolveInv
<1>1. ResolveTypeOK'
  BY DEF ResolveTypeOK, LoadFails
<1>2. Closure' = Closure
  BY ClosureUnchanged DEF LoadFails
<1>3. /\ UNCHANGED <<catalog, roots, queue, nodes, order>> /\ pc' = "missing"
      /\ queue # <<>> /\ catalog[Head(queue)] = Missing
  BY DEF LoadFails
<1>4. ToSet(queue)' = ToSet(queue) /\ ToSet(roots)' = ToSet(roots)
  BY <1>3
<1>5. WalkInv'
  BY <1>2, <1>3, <1>4 DEF WalkInv
<1>6. QED
  BY <1>1, <1>3, <1>5

-----------------------------------------------------------------------------
(* The sort.                                                               *)

\* The degrees: nothing is placed, so all that is required is open.
LEMMA DegreesStep ==
  ASSUME ResolveInv, Degrees
  PROVE  ResolveInv'
<1> USE DEF ResolveInv
<1> DEFINE T == {p \in nodes : inDegree'[p] = 0}
<1>1. /\ pc = "collect" /\ queue = <<>> /\ pc' = "sort"
      /\ inDegree' = [p \in Plugins |-> IF p \in nodes THEN Len(catalog[p]) ELSE 0]
      /\ ready' \in SetToSeqs(T)
      /\ UNCHANGED <<catalog, roots, queue, nodes, order>>
  BY DEF Degrees
<1>2. order = <<>> /\ IsFiniteSet(nodes) /\ nodes \subseteq Plugins
  BY <1>1 DEF WalkInv, ResolveTypeOK
<1>3. \A p \in nodes : catalog[p] \in Seq(Plugins) /\ Len(catalog[p]) \in 0 .. MaxRequires
  BY <1>2, ManifestFacts DEF WalkInv
<1>4. T \in SUBSET nodes
  OBVIOUS
<1> HIDE DEF T
<1>5. IsFiniteSet(T)
  BY <1>2, <1>4, FS_Subset
<1>6. ready' \in Seq(T) /\ ToSet(ready') = T /\ IsInjective(ready')
  BY <1>1, <1>5, Enumeration
<1>7. ready' \in Seq(Plugins)
  BY <1>2, <1>4, <1>6, SeqMonotonic
<1>8. inDegree' \in [Plugins -> 0 .. MaxRequires]
  BY <1>1, <1>3, RequiresAssumption
<1>9. ResolveTypeOK'
  BY <1>1, <1>7, <1>8 DEF ResolveTypeOK
<1>10. WalkInv'
  <2>1. Closure' = Closure
    BY <1>1, ClosureUnchanged
  <2>2. ToSet(queue)' = ToSet(queue) /\ ToSet(roots)' = ToSet(roots)
    BY <1>1
  <2>3. QED
    BY <1>1, <2>1, <2>2 DEF WalkInv
<1>11. SortInv'
  <2>1. order' \o ready' = ready'
    BY <1>1, <1>2, <1>7, ConcatEmptySeq
  <2>2. ASSUME NEW p \in nodes' PROVE inDegree'[p] = Cardinality(Open(p)')
    <3>1. p \in nodes /\ p \in Plugins /\ DOMAIN catalog[p] = 1 .. Len(catalog[p])
      BY <1>1, <1>2, <1>3, Members
    <3>2. ToSet(order') = {}
      BY <1>1, <1>2, EmptyMembers
    <3>3. Open(p)' = 1 .. Len(catalog[p])
      BY <1>1, <3>1, <3>2 DEF Open
    <3>4. Len(catalog[p]) \in Nat
      BY <1>3, <3>1, Members
    <3>5. Cardinality(1 .. Len(catalog[p])) = Len(catalog[p])
      BY <3>4, IntervalSize
    <3>6. QED
      BY <1>1, <3>1, <3>3, <3>5
  <2>3. IsInjective(order \o ready)'
    BY <1>6, <2>1
  <2>4. \A p \in Plugins : p \in ToSet(order' \o ready') <=> p \in nodes' /\ inDegree'[p] = 0
    BY <1>1, <1>6, <2>1 DEF T
  <2>5. DOMAIN order' = {}
    BY <1>1, <1>2
  <2>6. QED
    BY <1>1, <2>2, <2>3, <2>4, <2>5 DEF SortInv
<1>12. QED
  BY <1>9, <1>10, <1>11

\* The head of ready has nothing open, and is not placed yet.
LEMMA HeadFacts ==
  ASSUME ResolveInv, pc = "sort", ready # <<>>
  PROVE  /\ Head(ready) \in nodes /\ Head(ready) \in Plugins
         /\ Head(ready) \notin ToSet(order)
         /\ ToSet(catalog[Head(ready)]) \subseteq ToSet(order)
<1> USE DEF ResolveInv
<1>1. ready \in Seq(Plugins) /\ order \in Seq(Plugins) /\ SortInv
  BY DEF ResolveTypeOK
<1>2. Head(ready) \in Plugins /\ Head(ready) \in ToSet(ready)
  BY <1>1, HeadMembers
<1>3. ToSet(order \o ready) = ToSet(order) \cup ToSet(ready)
  BY <1>1, ConcatMembers
<1>4. Head(ready) \in nodes /\ inDegree[Head(ready)] = 0
  BY <1>1, <1>2, <1>3 DEF SortInv
<1>5. ToSet(order) \cap ToSet(ready) = {}
  BY <1>1, ConcatApart DEF SortInv
<1>6. ToSet(catalog[Head(ready)]) \subseteq ToSet(order)
  <2> DEFINE name == Head(ready)
  <2>1. catalog[name] \in Seq(Plugins)
    BY <1>2, <1>4, ManifestFacts DEF WalkInv
  <2>2. Cardinality(Open(name)) = 0
    BY <1>1, <1>4 DEF SortInv
  <2> HIDE DEF name
  <2>3. Open(name) \in SUBSET (DOMAIN catalog[name])
    BY DEF Open
  <2>4. IsFiniteSet(DOMAIN catalog[name]) /\ DOMAIN catalog[name] = 1 .. Len(catalog[name])
    BY <2>1, Members, IntervalSize
  <2>5. Open(name) = {}
    BY <2>2, <2>3, <2>4, FS_Subset, FS_EmptySet
  <2>6. \A x \in ToSet(catalog[name]) : \E i \in DOMAIN catalog[name] : catalog[name][i] = x
    BY <2>1, <2>4, Members
  <2>7. \A x \in ToSet(catalog[name]) : x \in ToSet(order)
    BY <2>5, <2>6 DEF Open
  <2>8. QED
    BY <2>7 DEF name
<1>7. QED
  BY <1>2, <1>4, <1>5, <1>6

\* What placing the head of ready does to a degree: it counts what is still open.
LEMMA PlaceDegrees ==
  ASSUME ResolveInv, Place, NEW p \in nodes
  PROVE  /\ inDegree'[p] = Cardinality(Open(p)')
         /\ inDegree'[p] \in 0 .. MaxRequires /\ inDegree[p] \in Nat
         /\ inDegree'[p] = inDegree[p] - Times(p, Head(ready)) /\ Times(p, Head(ready)) \in Nat
<1> USE DEF ResolveInv
<1> DEFINE name == Head(ready)
<1>1. /\ pc = "sort" /\ ready # <<>> /\ order' = Append(order, name)
      /\ inDegree' = [q \in Plugins |-> IF q \in nodes /\ Times(q, name) > 0
                                          THEN inDegree[q] - Times(q, name) ELSE inDegree[q]]
      /\ UNCHANGED catalog
  BY DEF Place
<1>2. /\ SortInv /\ order \in Seq(Plugins) /\ p \in Plugins
      /\ inDegree \in [Plugins -> 0 .. MaxRequires]
  BY <1>1 DEF ResolveTypeOK
<1>3. name \in Plugins /\ name \notin ToSet(order)
  BY <1>1, HeadFacts
<1>4. catalog[p] \in Seq(Plugins) /\ Len(catalog[p]) \in 0 .. MaxRequires
  BY <1>2, ManifestFacts DEF WalkInv
<1> HIDE DEF name
<1>5. ToSet(Append(order, name)) = ToSet(order) \cup {name}
  BY <1>2, <1>3, AppendMembers
<1>6. Open(p)' = {i \in DOMAIN catalog[p] : catalog[p][i] \notin ToSet(order) \cup {name}}
  <2>1. ToSet(order)' = ToSet(order) \cup {name}
    BY <1>1, <1>5
  <2>2. QED
    BY <1>1, <2>1 DEF Open
<1>7. /\ Cardinality(Open(p)) \in 0 .. Len(catalog[p]) /\ Times(p, name) \in Nat
      /\ Cardinality(Open(p)') \in 0 .. Len(catalog[p])
      /\ Cardinality(Open(p)') = Cardinality(Open(p)) - Times(p, name)
  <2> DEFINE r == catalog[p]
             here == {i \in DOMAIN r : r[i] = name}
  <2>1. r \in Seq(Plugins)
    BY <1>4
  <2>2. /\ Open(p) \in SUBSET DOMAIN r /\ here \in SUBSET DOMAIN r
        /\ Open(p)' \in SUBSET DOMAIN r
    BY <1>6 DEF Open
  <2>3. Open(p)' = Open(p) \ here /\ Open(p) \cap here = here
    BY <1>3, <1>6 DEF Open
  <2>4. Times(p, name) = Cardinality(here)
    BY DEF Times
  <2> HIDE DEF r, here
  <2>5. Len(r) \in Nat /\ DOMAIN r = 1 .. Len(r)
    BY <2>1, Members
  <2>6. IsFiniteSet(DOMAIN r) /\ Cardinality(DOMAIN r) = Len(r)
    BY <2>5, IntervalSize
  <2>7. /\ IsFiniteSet(Open(p)) /\ Cardinality(Open(p)) <= Len(r)
        /\ IsFiniteSet(here)
        /\ IsFiniteSet(Open(p)') /\ Cardinality(Open(p)') <= Len(r)
    BY <2>2, <2>6, FS_Subset
  <2>8. /\ Cardinality(Open(p)) \in Nat /\ Cardinality(here) \in Nat
        /\ Cardinality(Open(p)') \in Nat
    BY <2>7, FS_CardinalityType
  <2>9. Cardinality(Open(p)') = Cardinality(Open(p)) - Cardinality(here)
    BY <2>3, <2>7, FS_Difference
  <2>10. QED
    BY <2>4, <2>5, <2>7, <2>8, <2>9 DEF r
<1>8. inDegree[p] = Cardinality(Open(p))
  BY <1>2 DEF SortInv
<1>9. Len(catalog[p]) \in Nat /\ Len(catalog[p]) <= MaxRequires /\ MaxRequires \in Nat
  BY <1>4, RequiresAssumption
<1>10. inDegree'[p] = inDegree[p] - Times(p, name)
  <2>1. inDegree[p] \in Nat
    BY <1>7, <1>8, <1>9
  <2>2. CASE Times(p, name) > 0
    BY <1>1, <1>2, <2>2
  <2>3. CASE Times(p, name) = 0
    BY <1>1, <1>2, <2>1, <2>3
  <2>4. QED
    BY <1>7, <2>2, <2>3
<1>11. QED
  BY <1>7, <1>8, <1>9, <1>10 DEF name

\* The head of ready is placed, after all it requires; the plugins it was the last open
\* requirement of are ready, none of them twice.
LEMMA PlaceStep ==
  ASSUME ResolveInv, Place
  PROVE  ResolveInv'
<1> USE DEF ResolveInv
<1> DEFINE name == Head(ready)
           N == {p \in nodes : Times(p, name) > 0 /\ inDegree'[p] = 0}
<1>1. /\ pc = "sort" /\ ready # <<>> /\ order' = Append(order, name)
      /\ inDegree' = [q \in Plugins |-> IF q \in nodes /\ Times(q, name) > 0
                                          THEN inDegree[q] - Times(q, name) ELSE inDegree[q]]
      /\ UNCHANGED <<catalog, roots, queue, nodes, pc>>
  BY DEF Place
<1>2. PICK new \in SetToSeqs(N) : ready' = Tail(ready) \o new
  <2>1. N = {p \in {q \in nodes : Times(q, name) > 0} : inDegree'[p] = 0}
    OBVIOUS
  <2>2. QED
    BY <2>1 DEF Place
<1>3. /\ SortInv /\ order \in Seq(Plugins) /\ ready \in Seq(Plugins)
      /\ inDegree \in [Plugins -> 0 .. MaxRequires]
      /\ nodes \in SUBSET Plugins /\ IsFiniteSet(nodes)
  BY <1>1 DEF ResolveTypeOK, WalkInv
<1>4. /\ name \in nodes /\ name \in Plugins /\ name \notin ToSet(order)
      /\ ToSet(catalog[name]) \subseteq ToSet(order)
  BY <1>1, HeadFacts
<1>5. \A p \in nodes : /\ inDegree'[p] = Cardinality(Open(p)')
                       /\ inDegree'[p] \in 0 .. MaxRequires /\ inDegree[p] \in Nat
                       /\ inDegree'[p] = inDegree[p] - Times(p, name)
                       /\ Times(p, name) \in Nat
  BY PlaceDegrees
<1>6. N \in SUBSET nodes /\ \A p \in nodes : p \in N <=> Times(p, name) > 0 /\ inDegree'[p] = 0
  OBVIOUS
<1>7. Tail(ready) \in Seq(Plugins)
  BY <1>1, <1>3, HeadMembers
<1>8. Append(order, name) \o (Tail(ready) \o new) = (order \o ready) \o new
      /\ new \in Seq(Plugins) /\ ToSet(new) = N /\ IsInjective(new)
  <2> HIDE DEF N
  <2>1. IsFiniteSet(N)
    BY <1>3, <1>6, FS_Subset
  <2>2. new \in Seq(N) /\ ToSet(new) = N /\ IsInjective(new)
    BY <2>1, Enumeration
  <2>3. N \subseteq Plugins
    BY <1>3, <1>6
  <2>4. new \in Seq(Plugins)
    BY <2>2, <2>3, SeqMonotonic
  <2>5. Append(order, Head(ready)) \o (Tail(ready) \o new) = (order \o ready) \o new
    <3>1. PICK o \in Seq(Plugins) : o = order
      BY <1>3
    <3>2. PICK r \in Seq(Plugins) : r = ready
      BY <1>3
    <3>3. r # <<>>
      BY <1>1, <3>2
    <3>4. Append(o, Head(r)) \o (Tail(r) \o new) = (o \o r) \o new
      BY <2>4, <3>3, MoveHead
    <3>5. QED
      BY <3>1, <3>2, <3>4, Zenon
  <2>6. QED
    BY <2>2, <2>4, <2>5
<1> HIDE DEF name, N
<1>9. \A p \in ToSet(order \o ready) : p \in Plugins => p \in nodes /\ inDegree[p] = 0
  BY <1>3 DEF SortInv
<1>10. order \o ready \in Seq(Plugins) /\ ToSet(order \o ready) \subseteq Plugins
  BY <1>3, ConcatMembers, Members
<1>11. ToSet(order \o ready) \cap ToSet(new) = {}
  <2>1. ASSUME NEW p \in ToSet(order \o ready), p \in N PROVE FALSE
    <3>1. p \in nodes /\ inDegree[p] = 0 /\ Times(p, name) > 0
      BY <1>6, <1>9, <1>10, <2>1
    <3>2. inDegree'[p] = 0 - Times(p, name) /\ inDegree'[p] = 0 /\ Times(p, name) \in Nat
      BY <1>5, <1>6, <2>1, <3>1
    <3>3. QED
      BY <3>1, <3>2
  <2>2. QED
    BY <1>8, <2>1
<1>12. order' \o ready' = (order \o ready) \o new
  BY <1>1, <1>2, <1>8
<1>13. PICK both \in Seq(Plugins) : both = order \o ready
  BY <1>10
<1>14. IsInjective(order' \o ready') /\ ToSet(order' \o ready') = ToSet(order \o ready) \cup N
  <2>1. IsInjective(both) /\ ToSet(both) \cap ToSet(new) = {}
    BY <1>3, <1>11, <1>13 DEF SortInv
  <2>2. IsInjective(both \o new)
    BY <1>8, <2>1, ConcatInjective
  <2>3. ToSet(both \o new) = ToSet(both) \cup ToSet(new)
    BY <1>8, ConcatMembers
  <2>4. QED
    BY <1>8, <1>12, <1>13, <2>2, <2>3
<1>15. ResolveTypeOK'
  <2>1. order' \in Seq(Plugins)
    BY <1>1, <1>3, <1>4, AppendMembers
  <2>2. Tail(ready) \o new \in Seq(Plugins)
    <3>1. PICK t \in Seq(Plugins) : t = Tail(ready)
      BY <1>7
    <3>2. t \o new \in Seq(Plugins)
      BY <1>8, ConcatMembers
    <3>3. QED
      BY <3>1, <3>2
  <2>3. inDegree' \in [Plugins -> 0 .. MaxRequires]
    <3>1. ASSUME NEW p \in Plugins PROVE inDegree'[p] \in 0 .. MaxRequires
      <4>1. CASE p \in nodes
        BY <1>5, <4>1
      <4>2. CASE p \notin nodes
        BY <1>1, <1>3, <4>2
      <4>3. QED
        BY <4>1, <4>2
    <3>2. inDegree' = [p \in Plugins |-> inDegree'[p]]
      BY <1>1
    <3>3. QED
      BY <3>1, <3>2
  <2>4. QED
    BY <1>1, <1>2, <2>1, <2>2, <2>3 DEF ResolveTypeOK
<1>16. WalkInv'
  <2>1. Closure' = Closure
    BY <1>1, ClosureUnchanged
  <2>2. ToSet(queue)' = ToSet(queue) /\ ToSet(roots)' = ToSet(roots)
    BY <1>1
  <2>3. QED
    BY <1>1, <2>1, <2>2 DEF WalkInv
<1>17. ASSUME NEW p \in Plugins
       PROVE  p \in ToSet(order' \o ready') <=> p \in nodes /\ inDegree'[p] = 0
  <2>1. CASE p \notin nodes
    BY <1>6, <1>9, <1>14, <2>1
  <2>2. CASE p \in nodes /\ Times(p, name) > 0
    <3>1. inDegree[p] # 0
      BY <1>5, <2>2
    <3>2. p \notin ToSet(order \o ready)
      BY <1>9, <3>1
    <3>3. QED
      BY <1>6, <1>14, <2>2, <3>2
  <2>3. CASE p \in nodes /\ ~(Times(p, name) > 0)
    <3>1. inDegree'[p] = inDegree[p]
      BY <1>1, <2>3
    <3>2. p \notin N
      BY <1>6, <2>3
    <3>3. p \in ToSet(order \o ready) <=> inDegree[p] = 0
      BY <1>3, <2>3 DEF SortInv
    <3>4. QED
      BY <1>14, <2>3, <3>1, <3>2, <3>3
  <2>4. QED
    BY <2>1, <2>2, <2>3
<1>18. ASSUME NEW i \in DOMAIN order', NEW q \in ToSet(catalog[order'[i]])
       PROVE  \E j \in 1 .. i - 1 : order'[j] = q
  <2>1. /\ Len(order') = Len(order) + 1 /\ DOMAIN order' = 1 .. Len(order) + 1
        /\ \A k \in 1 .. Len(order) : order'[k] = order[k]
        /\ order'[Len(order) + 1] = name /\ Len(order) \in Nat
        /\ DOMAIN order = 1 .. Len(order)
    BY <1>1, <1>3, <1>4, AppendProperties, LenProperties
  <2>2. CASE i \in 1 .. Len(order)
    <3>1. order'[i] = order[i] /\ i \in DOMAIN order
      BY <2>1, <2>2
    <3>2. PICK j \in 1 .. i - 1 : order[j] = q
      BY <1>3, <1>18, <3>1 DEF SortInv
    <3>3. j \in 1 .. Len(order)
      BY <2>1, <2>2
    <3>4. QED
      BY <2>1, <3>2, <3>3
  <2>3. CASE i = Len(order) + 1
    <3>1. q \in ToSet(order)
      BY <1>4, <1>18, <2>1, <2>3
    <3>2. PICK j \in 1 .. Len(order) : order[j] = q
      BY <1>3, <3>1, Members
    <3>3. j \in 1 .. i - 1
      BY <2>1, <2>3
    <3>4. QED
      BY <2>1, <3>2, <3>3
  <2>4. QED
    BY <2>1, <2>2, <2>3
<1>19. SortInv'
  <2>1. \A p \in nodes' : inDegree'[p] = Cardinality(Open(p)')
    BY <1>1, <1>5
  <2>2. \A p \in Plugins : p \in ToSet(order' \o ready') <=> p \in nodes' /\ inDegree'[p] = 0
    BY <1>1, <1>17
  <2>3. \A i \in DOMAIN order' : \A q \in ToSet(catalog'[order'[i]]) :
          \E j \in 1 .. i - 1 : order'[j] = q
    BY <1>1, <1>18
  <2>4. QED
    BY <1>1, <1>14, <2>1, <2>2, <2>3 DEF SortInv
<1>20. QED
  BY <1>15, <1>16, <1>19

\* The outcome is a comparison of two lengths.
LEMMA FinishStep ==
  ASSUME ResolveInv, Finish
  PROVE  ResolveInv'
<1> USE DEF ResolveInv
<1>1. /\ pc = "sort" /\ ready = <<>> /\ pc' \in {"done", "cycle"}
      /\ pc' = "done" <=> Len(order) = Cardinality(nodes)
      /\ UNCHANGED <<catalog, roots, queue, nodes, inDegree, ready, order>>
  BY DEF Finish
<1>2. ResolveTypeOK'
  BY <1>1 DEF ResolveTypeOK
<1>3. Closure' = Closure
  BY <1>1, ClosureUnchanged
<1>4. ToSet(queue)' = ToSet(queue) /\ ToSet(roots)' = ToSet(roots)
  BY <1>1
<1>5. WalkInv'
  BY <1>1, <1>3, <1>4 DEF WalkInv
<1>6. SortInv'
  <2>1. \A p \in nodes : Open(p)' = Open(p)
    BY <1>1 DEF Open
  <2>2. IsInjective(order \o ready)' /\ ToSet(order \o ready)' = ToSet(order \o ready)
    BY <1>1 DEF SortInv
  <2>3. \A p \in nodes' : inDegree'[p] = Cardinality(Open(p)')
    BY <1>1, <2>1 DEF SortInv
  <2>4. QED
    BY <1>1, <2>2, <2>3 DEF SortInv
<1>7. QED
  BY <1>2, <1>5, <1>6

\* The invariant is inductive.
LEMMA ResolveStep ==
  ASSUME ResolveInv, [ResolveNext]_rvars
  PROVE  ResolveInv'
<1>1. CASE ResolveNext
  BY <1>1, CollectSkipStep, CollectLoadStep, LoadFailsStep, DegreesStep, PlaceStep, FinishStep
     DEF ResolveNext
<1>2. CASE UNCHANGED rvars
  <2>1. UNCHANGED <<catalog, roots, queue, nodes, inDegree, ready, order, pc>>
    BY <1>2 DEF rvars
  <2>2. ResolveTypeOK'
    BY <2>1 DEF ResolveInv, ResolveTypeOK
  <2>3. WalkInv'
    <3>1. Closure' = Closure
      BY <2>1, ClosureUnchanged
    <3>2. ToSet(queue)' = ToSet(queue) /\ ToSet(roots)' = ToSet(roots)
      BY <2>1
    <3>3. QED
      BY <2>1, <3>1, <3>2 DEF ResolveInv, WalkInv
  <2>4. SortInv => SortInv'
    <3>1. \A p \in nodes : Open(p)' = Open(p)
      BY <2>1 DEF Open
    <3>2. (IsInjective(order \o ready) => IsInjective(order \o ready)')
          /\ ToSet(order \o ready)' = ToSet(order \o ready)
      BY <2>1
    <3>3. SortInv => \A p \in nodes' : inDegree'[p] = Cardinality(Open(p)')
      BY <2>1, <3>1 DEF SortInv
    <3>4. QED
      BY <2>1, <3>2, <3>3 DEF SortInv
  <2>5. QED
    BY <2>1, <2>2, <2>3, <2>4 DEF ResolveInv
<1>3. QED
  BY <1>1, <1>2

-----------------------------------------------------------------------------
(* The theorems.                                                           *)

\* ResolveOrder keeps its invariant: the walk stays within the closure of the roots, and
\* the degrees count, with repetitions, what is required and not placed yet.
THEOREM ResolveInvariant == ResolveSpec => []ResolveInv
<1>1. ResolveInit => ResolveInv
  BY ResolveInitHolds
<1>2. ResolveInv /\ [ResolveNext]_rvars => ResolveInv'
  BY ResolveStep
<1>3. QED
  BY <1>1, <1>2, PTL DEF ResolveSpec

\* When the order is complete it is the closure, each plugin once.
LEMMA DoneIsClosure ==
  ASSUME ResolveInv, pc = "done"
  PROVE  ToSet(order) = Closure /\ nodes = Closure /\ IsInjective(order)
<1> USE DEF ResolveInv
<1>1. /\ SortInv /\ order \in Seq(Plugins) /\ ready = <<>> /\ queue = <<>>
      /\ Len(order) = Cardinality(nodes) /\ IsFiniteSet(nodes)
  BY DEF ResolveTypeOK, WalkInv, SortInv
<1>2. order \o ready = order
  BY <1>1, ConcatEmptySeq
<1>3. IsInjective(order)
  BY <1>1, <1>2 DEF SortInv
<1>4. ToSet(order) \in SUBSET nodes
  <2>1. ToSet(order) \subseteq Plugins
    BY <1>1, Members
  <2>2. QED
    BY <1>1, <1>2, <2>1 DEF SortInv
<1>5. Cardinality(ToSet(order)) = Cardinality(nodes)
  BY <1>1, <1>3, InjectiveLength
<1>6. nodes = ToSet(order)
  BY <1>1, <1>4, <1>5, FS_Subset
<1>7. nodes = Closure
  BY <1>1, LoadedIsClosure
<1>8. QED
  BY <1>3, <1>6, <1>7

\* An order that is returned can be installed.
LEMMA DoneIsInstallable ==
  ASSUME ResolveInv
  PROVE  OrderIsInstallable
<1> SUFFICES ASSUME pc = "done"
             PROVE  /\ ToSet(order) = Closure /\ IsInjective(order)
                    /\ \A i \in DOMAIN order : \A q \in ToSet(catalog[order[i]]) :
                         \E j \in 1 .. i - 1 : order[j] = q
  BY DEF OrderIsInstallable
<1>1. SortInv
  BY DEF ResolveInv
<1>2. QED
  BY <1>1, DoneIsClosure DEF SortInv

\* What is left over when nothing is ready needs itself: every plugin that is loaded and
\* not placed requires another such one.
LEMMA LeftoverIsCircular ==
  ASSUME ResolveInv, pc = "cycle"
  PROVE  Circular
<1> USE DEF ResolveInv
<1> DEFINE S == nodes \ ToSet(order)
<1>1. /\ SortInv /\ order \in Seq(Plugins) /\ ready = <<>> /\ queue = <<>>
      /\ Len(order) # Cardinality(nodes) /\ nodes \in SUBSET Plugins
      /\ inDegree \in [Plugins -> 0 .. MaxRequires]
  BY DEF ResolveTypeOK, WalkInv, SortInv
<1>2. order \o ready = order
  BY <1>1, ConcatEmptySeq
<1>3. \A p \in Plugins : p \in ToSet(order) <=> p \in nodes /\ inDegree[p] = 0
  BY <1>1, <1>2 DEF SortInv
<1>4. S # {}
  <2>1. ToSet(order) \subseteq nodes
    <3>1. ToSet(order) \subseteq Plugins
      BY <1>1, Members
    <3>2. QED
      BY <1>3, <3>1
  <2>2. IsInjective(order)
    BY <1>1, <1>2 DEF SortInv
  <2>3. Cardinality(ToSet(order)) = Len(order)
    BY <1>1, <2>2, InjectiveLength
  <2>4. nodes # ToSet(order)
    BY <1>1, <2>3
  <2>5. QED
    BY <2>1, <2>4
<1>5. ASSUME NEW p \in S PROVE \E q \in S : Needs(p, q)
  <2>1. p \in nodes /\ p \in Plugins /\ inDegree[p] # 0
    BY <1>1, <1>3
  <2>2. Open(p) # {}
    <3>1. inDegree[p] = Cardinality(Open(p))
      BY <1>1, <2>1 DEF SortInv
    <3>2. QED
      BY <2>1, <3>1, FS_EmptySet
  <2>3. PICK i \in DOMAIN catalog[p] : catalog[p][i] \notin ToSet(order)
    BY <2>2 DEF Open
  <2>4. catalog[p] # Missing /\ ToSet(catalog[p]) \subseteq nodes
    BY <1>1, <2>1, EmptyMembers DEF WalkInv
  <2>5. catalog[p][i] \in ToSet(catalog[p])
    BY DEF ToSet
  <2>6. QED
    BY <2>3, <2>4, <2>5 DEF Needs
<1>6. S \in SUBSET Closure
  BY DEF WalkInv
<1>7. QED
  BY <1>4, <1>5, <1>6 DEF Circular

\* A complete order rules a circle out: the member of the circle that is placed first
\* would require one that is placed before it.
LEMMA DoneIsNotCircular ==
  ASSUME ResolveInv, pc = "done"
  PROVE  ~Circular
<1> SUFFICES ASSUME Circular PROVE FALSE
  OBVIOUS
<1> USE DEF ResolveInv
<1>1. PICK S \in SUBSET Closure : S # {} /\ \A p \in S : \E q \in S : Needs(p, q)
  BY DEF Circular
<1>2. order \in Seq(Plugins) /\ ToSet(order) = Closure /\ SortInv
  BY DoneIsClosure DEF ResolveTypeOK
<1>3. DOMAIN order = 1 .. Len(order) /\ Len(order) \in Nat
  BY <1>2, Members
<1> DEFINE T == {i \in 1 .. Len(order) : order[i] \in S}
<1>4. T \in SUBSET Nat /\ T # {}
  <2>1. PICK p \in S : TRUE
    BY <1>1
  <2>2. p \in ToSet(order)
    BY <1>2
  <2>3. PICK i \in 1 .. Len(order) : order[i] = p
    BY <1>2, <2>2, Members
  <2>4. QED
    BY <1>3, <2>3
<1> HIDE DEF T
<1>5. PICK i \in T : \A j \in T : ~(<<j, i>> \in OpToRel(<, Nat))
  BY <1>4, NatLessThanWellFounded, WFMin
<1>6. \A j \in T : ~(j < i)
  BY <1>4, <1>5, Zenon DEF OpToRel
<1>7. i \in 1 .. Len(order) /\ order[i] \in S
  BY DEF T
<1>8. PICK q \in S : Needs(order[i], q)
  BY <1>1, <1>7
<1>9. PICK j \in 1 .. i - 1 : order[j] = q
  BY <1>2, <1>3, <1>7, <1>8 DEF SortInv, Needs
<1>10. j \in T /\ j < i
  BY <1>3, <1>7, <1>9 DEF T
<1>11. QED
  BY <1>6, <1>10

\* An error is returned exactly where there is no order.
LEMMA RefusalHasCause ==
  ASSUME ResolveInv
  PROVE  RefusedForCause
<1>1. ASSUME pc = "missing" PROVE \E p \in Closure : catalog[p] = Missing
  <2>1. queue \in Seq(Plugins) /\ queue # <<>> /\ catalog[Head(queue)] = Missing
    BY <1>1 DEF ResolveInv, ResolveTypeOK, WalkInv
  <2>2. Head(queue) \in ToSet(queue)
    BY <2>1, HeadMembers
  <2>3. QED
    BY <2>1, <2>2 DEF ResolveInv, WalkInv
<1>2. ASSUME pc = "done" PROVE \A p \in Closure : catalog[p] # Missing
  BY <1>2, DoneIsClosure DEF ResolveInv, WalkInv
<1>3. QED
  BY <1>1, <1>2, LeftoverIsCircular, DoneIsNotCircular DEF RefusedForCause

\* For any catalog, roots and order of Go's maps: the order ResolveOrder returns holds the
\* closure of the roots, each plugin once and after all it requires.
THEOREM OrdersAreInstallable == ResolveSpec => []OrderIsInstallable
<1>1. ResolveInv => OrderIsInstallable
  BY DoneIsInstallable
<1>2. QED
  BY <1>1, ResolveInvariant, PTL

\* For any catalog, roots and order of Go's maps: ResolveOrder returns an error exactly
\* where a plugin of the closure has no manifest or the closure is circular.
THEOREM RefusalsHaveCause == ResolveSpec => []RefusedForCause
<1>1. ResolveInv => RefusedForCause
  BY RefusalHasCause
<1>2. QED
  BY <1>1, ResolveInvariant, PTL

-----------------------------------------------------------------------------
(* Termination.                                                            *)

\* The catalog is finite, so the closure is.
LEMMA ClosureFinite ==
  ASSUME ResolveInv
  PROVE  IsFiniteSet(Closure) /\ Cardinality(Closure) \in Nat
<1>1. Closure \in SUBSET Plugins
  BY ClosureFacts DEF ResolveInv
<1>2. IsFiniteSet(Closure)
  BY <1>1, CatalogAssumption, FS_Subset
<1>3. QED
  BY <1>2, FS_CardinalityType

\* One unit of work done.
LEMMA OneLess ==
  ASSUME NEW m \in Nat, NEW k \in Nat \ {0}
  PROVE  (m + 1) * k \in Nat /\ (m + 1) * (k - 1) \in Nat /\ (m + 1) * k = (m + 1) * (k - 1) + m + 1
OBVIOUS

\* What is left while the walk goes on.
LEMMA WalkRemaining ==
  ASSUME ResolveInv, pc = "collect"
  PROVE  /\ Remaining = (MaxRequires + 1) * Cardinality(Closure \ nodes) + Len(queue)
                          + Cardinality(Closure) + 2
         /\ IsFiniteSet(Closure \ nodes) /\ Cardinality(Closure \ nodes) \in Nat
         /\ (MaxRequires + 1) * Cardinality(Closure \ nodes) \in Nat
         /\ Len(queue) \in Nat /\ Cardinality(Closure) \in Nat /\ Remaining \in Nat
<1>1. Remaining = (MaxRequires + 1) * Cardinality(Closure \ nodes) + Len(queue)
                    + Cardinality(Closure) + 2
  BY DEF Remaining
<1>2. IsFiniteSet(Closure) /\ Cardinality(Closure) \in Nat
  BY ClosureFinite
<1>3. IsFiniteSet(Closure \ nodes)
  BY <1>2, FS_Difference
<1>4. Cardinality(Closure \ nodes) \in Nat
  BY <1>3, FS_CardinalityType
<1>5. queue \in Seq(Plugins)
  BY DEF ResolveInv, ResolveTypeOK
<1>6. Len(queue) \in Nat
  BY <1>5, Members
<1>7. ASSUME NEW k \in Nat PROVE (MaxRequires + 1) * k \in Nat
  BY RequiresAssumption
<1>8. (MaxRequires + 1) * Cardinality(Closure \ nodes) \in Nat
  BY <1>4, <1>7
<1>9. QED
  BY <1>1, <1>2, <1>3, <1>4, <1>6, <1>8

\* What is left while plugins are placed: the order fits into what is loaded.
LEMMA SortRemaining ==
  ASSUME ResolveInv, pc = "sort"
  PROVE  /\ Remaining = Cardinality(nodes) - Len(order) + 1
         /\ Cardinality(nodes) \in Nat /\ Len(order) \in Nat
         /\ Len(order) <= Cardinality(nodes) /\ Remaining \in Nat \ {0}
         /\ ready # <<>> => Len(order) < Cardinality(nodes)
<1>1. Remaining = Cardinality(nodes) - Len(order) + 1
  BY DEF Remaining
<1>2. /\ SortInv /\ order \in Seq(Plugins) /\ ready \in Seq(Plugins) /\ IsFiniteSet(nodes)
  BY DEF ResolveInv, ResolveTypeOK, WalkInv
<1>3. Cardinality(nodes) \in Nat
  BY <1>2, FS_CardinalityType
<1>4. ToSet(order) \subseteq Plugins /\ ToSet(order \o ready) = ToSet(order) \cup ToSet(ready)
  BY <1>2, Members, ConcatMembers
<1>5. ToSet(order) \in SUBSET nodes
  BY <1>2, <1>4 DEF SortInv
<1>6. IsInjective(order)
  BY <1>2, ConcatApart DEF SortInv
<1>7. Cardinality(ToSet(order)) = Len(order) /\ Len(order) \in Nat
  BY <1>2, <1>6, InjectiveLength, Members
<1>8. Len(order) <= Cardinality(nodes) /\ (Len(order) = Cardinality(nodes) => nodes = ToSet(order))
  BY <1>2, <1>5, <1>7, FS_Subset
<1>9. ready # <<>> => nodes # ToSet(order)
  BY HeadFacts
<1>10. QED
  BY <1>1, <1>3, <1>7, <1>8, <1>9

\* Every step leaves less to do.
LEMMA LessRemains ==
  ASSUME ResolveInv, ResolveNext
  PROVE  Remaining' < Remaining /\ Remaining \in Nat /\ Remaining' \in Nat
<1> DEFINE k == Cardinality(Closure \ nodes)
           n == Cardinality(Closure)
           q == Len(queue)
<1>1. pc = "collect" => /\ Remaining = (MaxRequires + 1) * k + q + n + 2
                        /\ IsFiniteSet(Closure \ nodes) /\ k \in Nat /\ q \in Nat /\ n \in Nat
                        /\ (MaxRequires + 1) * k \in Nat /\ Remaining \in Nat
  BY WalkRemaining
<1>2. ASSUME pc' = "collect"
      PROVE  Remaining' = (MaxRequires + 1) * Cardinality(Closure' \ nodes') + Len(queue')
                            + Cardinality(Closure') + 2
  BY <1>2 DEF Remaining
<1>3. queue \in Seq(Plugins)
  BY DEF ResolveInv, ResolveTypeOK
<1>4. CASE CollectSkip
  <2>1. /\ pc = "collect" /\ pc' = "collect" /\ UNCHANGED <<catalog, roots, nodes>>
        /\ queue # <<>> /\ queue' = Tail(queue)
    BY <1>4 DEF CollectSkip
  <2>2. Closure' = Closure
    BY <2>1, ClosureUnchanged
  <2>3. Len(queue') = q - 1 /\ q \in Nat \ {0}
    BY <1>3, <2>1, HeadTailProperties, EmptySeq
  <2>4. Remaining' = (MaxRequires + 1) * k + (q - 1) + n + 2
    BY <1>2, <2>1, <2>2, <2>3
  <2> HIDE DEF k, n, q
  <2>5. QED
    BY <1>1, <2>1, <2>3, <2>4
<1>5. CASE CollectLoad
  <2> DEFINE name == Head(queue)
             l == Len(catalog[name])
  <2>1. /\ pc = "collect" /\ pc' = "collect" /\ UNCHANGED <<catalog, roots>>
        /\ queue # <<>> /\ queue' = Tail(queue) \o catalog[name]
        /\ nodes' = nodes \cup {name} /\ name \notin nodes /\ catalog[name] # Missing
    BY <1>5 DEF CollectLoad
  <2>2. Closure' = Closure
    BY <2>1, ClosureUnchanged
  <2>3. name \in Plugins /\ name \in ToSet(queue)
    BY <1>3, <2>1, HeadMembers
  <2>4. name \in Closure \ nodes
    BY <2>1, <2>3 DEF ResolveInv, WalkInv
  <2>5. catalog[name] \in Seq(Plugins) /\ l \in 0 .. MaxRequires
    BY <2>1, <2>3, ManifestFacts DEF ResolveInv
  <2>6. Len(queue') = (q - 1) + l /\ q \in Nat \ {0}
    <3>1. PICK t \in Seq(Plugins) : t = Tail(queue)
      BY <1>3, <2>1, HeadMembers
    <3>2. PICK r \in Seq(Plugins) : r = catalog[name]
      BY <2>5
    <3>3. Len(t \o r) = Len(t) + Len(r)
      BY ConcatProperties
    <3>4. Len(t) = q - 1 /\ q \in Nat \ {0}
      BY <1>3, <2>1, <3>1, HeadTailProperties, EmptySeq
    <3>5. QED
      BY <2>1, <3>1, <3>2, <3>3, <3>4
  <2> HIDE DEF name, l
  <2>7. Cardinality(Closure' \ nodes') = k - 1 /\ k \in Nat \ {0}
    <3>1. Closure' \ nodes' = (Closure \ nodes) \ {name}
      BY <2>1, <2>2
    <3>2. IsFiniteSet(Closure \ nodes) /\ k \in Nat
      BY <1>1, <2>1
    <3>3. Cardinality((Closure \ nodes) \ {name}) = k - 1
      BY <2>4, <3>2, FS_RemoveElement
    <3>4. k # 0
      BY <2>4, <3>2, FS_EmptySet
    <3>5. QED
      BY <3>1, <3>2, <3>3, <3>4
  <2>8. Remaining' = (MaxRequires + 1) * (k - 1) + ((q - 1) + l) + n + 2
    BY <1>2, <2>1, <2>2, <2>6, <2>7
  <2> HIDE DEF k, n, q
  <2>9. /\ (MaxRequires + 1) * (k - 1) \in Nat
        /\ (MaxRequires + 1) * k = (MaxRequires + 1) * (k - 1) + MaxRequires + 1
    BY <2>7, OneLess, RequiresAssumption
  <2>10. PICK x \in Nat : x = (MaxRequires + 1) * (k - 1)
    BY <2>9
  <2>11. Remaining' = x + ((q - 1) + l) + n + 2 /\ Remaining = (x + MaxRequires + 1) + q + n + 2
    BY <1>1, <2>1, <2>8, <2>9, <2>10
  <2>12. q \in Nat \ {0} /\ n \in Nat /\ l \in Nat /\ l <= MaxRequires /\ MaxRequires \in Nat
    BY <1>1, <2>1, <2>5, <2>6, RequiresAssumption
  <2>13. QED
    BY <2>11, <2>12
<1>6. CASE LoadFails
  <2>1. pc = "collect" /\ pc' = "missing"
    BY <1>6 DEF LoadFails
  <2>2. Remaining' = 0
    BY <2>1 DEF Remaining
  <2> HIDE DEF k, n, q
  <2>3. QED
    BY <1>1, <2>1, <2>2
<1>7. CASE Degrees
  <2>1. pc = "collect" /\ pc' = "sort" /\ queue = <<>> /\ UNCHANGED <<nodes, order>>
    BY <1>7 DEF Degrees
  <2>2. order = <<>> /\ nodes = Closure
    BY <2>1, LoadedIsClosure DEF ResolveInv, WalkInv
  <2>3. Remaining' = Cardinality(nodes') - Len(order') + 1
    BY <2>1 DEF Remaining
  <2>4. Remaining' = n + 1
    BY <1>1, <2>1, <2>2, <2>3
  <2> HIDE DEF k, n, q
  <2>5. QED
    BY <1>1, <2>1, <2>4
<1>8. CASE Place
  <2>1. /\ pc = "sort" /\ pc' = "sort" /\ ready # <<>> /\ order' = Append(order, Head(ready))
        /\ UNCHANGED nodes
    BY <1>8 DEF Place
  <2>2. Len(order') = Len(order) + 1
    <3>1. order \in Seq(Plugins) /\ Head(ready) \in Plugins
      BY <2>1, HeadFacts DEF ResolveInv, ResolveTypeOK
    <3>2. QED
      BY <2>1, <3>1, AppendProperties
  <2>3. Remaining' = Cardinality(nodes) - (Len(order) + 1) + 1
    BY <2>1, <2>2 DEF Remaining
  <2>4. QED
    BY <2>1, <2>3, SortRemaining
<1>9. CASE Finish
  <2>1. pc = "sort" /\ pc' \in {"done", "cycle"}
    BY <1>9 DEF Finish
  <2>2. Remaining' = 0
    BY <2>1 DEF Remaining
  <2>3. QED
    BY <2>1, <2>2, SortRemaining
<1>10. QED
  BY <1>4, <1>5, <1>6, <1>7, <1>8, <1>9 DEF ResolveNext

\* For any finite catalog: ResolveOrder takes at most as many steps as Remaining says at
\* its start, with a circle in the manifests or without.
THEOREM ResolutionIsBounded == ResolveSpec => StepsRunOut
<1> DEFINE Less == Remaining' < Remaining /\ {Remaining, Remaining'} \subseteq Nat
<1>1. ASSUME ResolveInv, [ResolveNext]_rvars PROVE [Less]_rvars
  BY <1>1, LessRemains
<1> HIDE DEF Less
<1>2. ResolveSpec => [][Less]_rvars
  BY <1>1, ResolveInvariant, PTL DEF ResolveSpec
<1>3. QED
  BY <1>2 DEF Less, StepsRunOut
=============================================================================
