------------------------------ MODULE SeqFacts ------------------------------
(***************************************************************************)
(* Facts that the proofs about several components share: the first and     *)
(* the last of a set of numbers, and what FlattenSeq puts together.  They  *)
(* take the place of inductions, by a smallest counterexample.             *)
(***************************************************************************)
EXTENDS Integers, Sequences, SequencesExt, SequenceTheorems, WellFoundedInduction, TLAPS

-----------------------------------------------------------------------------
(* Numbers.                                                                *)

\* Numbers that have a property have a smallest one with it.
LEMMA Smallest ==
  ASSUME NEW T, T \subseteq Nat, T # {}
  PROVE  \E m \in T : \A k \in T : m <= k
<1>1. IsWellFoundedOn(OpToRel(<, Nat), Nat)
  BY NatLessThanWellFounded, Zenon
<1>2. PICK m \in T : \A k \in T : ~(<<k, m>> \in OpToRel(<, Nat))
  BY <1>1, WFMin
<1>3. \A k \in T : ~(k < m)
  BY <1>2, Zenon DEF OpToRel
<1>4. QED BY <1>3

\* Positions that have a property have a last one with it.
LEMMA LastOne ==
  ASSUME NEW n \in Nat, NEW T, T \subseteq 1..n, T # {}
  PROVE  Max(T) \in T /\ \A k \in T : k <= Max(T)
<1> DEFINE D == {n - k : k \in T}
<1>1. D \subseteq Nat /\ D # {}
  <2>1. \A k \in T : k \in 1..n /\ n - k \in Nat
    OBVIOUS
  <2>2. QED BY <2>1
<1>2. PICK d \in D : \A k \in D : d <= k
  BY <1>1, Smallest
<1>3. PICK m \in T : d = n - m
  BY <1>2
<1>4. \A k \in T : m >= k
  <2> TAKE k \in T
  <2>1. n - k \in D
    OBVIOUS
  <2>2. n - m <= n - k
    BY <1>2, <1>3, <2>1
  <2>3. m \in 1..n /\ k \in 1..n
    OBVIOUS
  <2>4. QED BY <2>2, <2>3
<1>5. Max(T) \in T /\ \A k \in T : Max(T) >= k
  BY <1>4, Zenon DEF Max
<1>6. QED BY <1>5

-----------------------------------------------------------------------------
(* FlattenSeq.                                                             *)

\* What the first n of a family of sequences make, one after the other.
Joining(s, n, f) == f = [i \in 1..n |-> IF i = 1 THEN s[i] ELSE f[i - 1] \o s[i]]

\* There is such a function for every number of them.
LEMMA JoiningExists ==
  ASSUME NEW s, NEW n \in Nat
  PROVE  \E f : Joining(s, n, f)
<1> DEFINE T == {k \in Nat : ~ \E f : Joining(s, k, f)}
<1>1. ASSUME T # {} PROVE FALSE
  <2>1. PICK k \in T : \A j \in T : k <= j
    BY <1>1, Smallest
  <2>2. k # 0
    <3>1. Joining(s, 0, [j \in 1..0 |-> 0])
      BY DEF Joining
    <3>2. QED BY <3>1
  <2>3. k - 1 \in Nat /\ k - 1 \notin T
    BY <2>1, <2>2
  <2>4. PICK f : Joining(s, k - 1, f)
    BY <2>3
  <2>5. f = [i \in 1..(k - 1) |-> IF i = 1 THEN s[i] ELSE f[i - 1] \o s[i]]
    BY <2>4 DEF Joining
  <2> DEFINE h == [i \in 1..k |-> IF i < k THEN f[i] ELSE IF k = 1 THEN s[k] ELSE f[k - 1] \o s[k]]
  <2>6. \A i \in 1..k : h[i] = IF i = 1 THEN s[i] ELSE h[i - 1] \o s[i]
    <3> TAKE i \in 1..k
    <3>1. CASE i < k
      <4>1. i \in 1..(k - 1) /\ h[i] = f[i]
        BY <2>3, <3>1
      <4>2. f[i] = IF i = 1 THEN s[i] ELSE f[i - 1] \o s[i]
        BY <2>5, <4>1
      <4>3. i # 1 => h[i - 1] = f[i - 1]
        BY <3>1, <4>1
      <4>4. QED BY <4>1, <4>2, <4>3
    <3>2. CASE i = k
      <4>1. k # 1 => k - 1 \in 1..k /\ k - 1 < k
        BY <2>2
      <4>2. k # 1 => h[k - 1] = f[k - 1]
        BY <4>1
      <4>3. QED BY <3>2, <4>2
    <3>3. QED BY <3>1, <3>2
  <2>7. h = [i \in 1..k |-> IF i = 1 THEN s[i] ELSE h[i - 1] \o s[i]]
    BY <2>6
  <2>8. Joining(s, k, h)
    BY <2>7 DEF Joining
  <2>9. QED BY <2>1, <2>8
<1>2. QED BY <1>1

\* And only one: longer and shorter ones agree as far as both go.
LEMMA JoiningAgree ==
  ASSUME NEW s, NEW t, NEW m \in Nat, NEW n \in Nat, NEW f, NEW g,
         Joining(s, m, f), Joining(t, n, g), m <= n, \A k \in 1..m : s[k] = t[k]
  PROVE  \A k \in 1..m : f[k] = g[k]
<1>1. /\ f = [i \in 1..m |-> IF i = 1 THEN s[i] ELSE f[i - 1] \o s[i]]
      /\ g = [i \in 1..n |-> IF i = 1 THEN t[i] ELSE g[i - 1] \o t[i]]
  BY DEF Joining
<1> DEFINE T == {k \in 1..m : f[k] # g[k]}
<1>2. ASSUME T # {} PROVE FALSE
  <2>1. PICK k \in T : \A j \in T : k <= j
    <3>1. T \subseteq Nat
      OBVIOUS
    <3>2. QED BY <1>2, <3>1, Smallest
  <2>2. k \in 1..m /\ k \in 1..n /\ s[k] = t[k]
    BY <2>1
  <2>3. /\ f[k] = IF k = 1 THEN s[k] ELSE f[k - 1] \o s[k]
        /\ g[k] = IF k = 1 THEN t[k] ELSE g[k - 1] \o t[k]
    BY <1>1, <2>2
  <2>4. k # 1 => k - 1 \in 1..m /\ k - 1 \notin T
    BY <2>1, <2>2
  <2>5. QED BY <2>1, <2>2, <2>3, <2>4
<1>3. QED BY <1>2

\* The same, as it is used.
LEMMA JoiningOfMore ==
  \A n, m \in Nat : \A s, t, f, g :
    /\ n <= m /\ Joining(s, n, f) /\ Joining(t, m, g)
    /\ \A k \in 1..n : s[k] = t[k]
    => \A k \in 1..n : f[k] = g[k]
<1> SUFFICES ASSUME NEW n \in Nat, NEW m \in Nat, NEW s, NEW t, NEW f, NEW g,
                    n <= m, Joining(s, n, f), Joining(t, m, g), \A k \in 1..n : s[k] = t[k]
             PROVE  \A k \in 1..n : f[k] = g[k]
  OBVIOUS
<1> QED BY JoiningAgree

\* FlattenSeq is the last value of that function.
LEMMA FlattenIs ==
  ASSUME NEW s, NEW n \in Nat, Len(s) = n, n # 0, NEW f, Joining(s, n, f)
  PROVE  FlattenSeq(s) = f[n]
<1> DEFINE e == CHOOSE g : Joining(s, n, g)
<1>1. FlattenSeq(s) = e[n]
  BY DEF FlattenSeq, Joining
<1>2. Joining(s, n, e)
  BY Zenon
<1>3. \A k \in 1..n : e[k] = f[k]
  <2> HIDE DEF e
  <2>1. QED BY <1>2, JoiningAgree
<1>4. QED BY <1>1, <1>3

\* Nothing makes nothing.
LEMMA FlattenEmpty == FlattenSeq(<<>>) = <<>>
<1>1. Len(<<>>) = 0
  OBVIOUS
<1>2. QED BY <1>1 DEF FlattenSeq

\* One more sequence is put behind.
LEMMA FlattenAppend ==
  ASSUME NEW S, NEW s \in Seq(Seq(S)), NEW e \in Seq(S)
  PROVE  FlattenSeq(Append(s, e)) = FlattenSeq(s) \o e
<1>1. PICK n \in Nat : n = Len(s)
  BY LenProperties
<1>2. PICK t : t = Append(s, e)
  OBVIOUS
<1>3. PICK m \in Nat : m = n + 1
  OBVIOUS
<1>4. Len(t) = m /\ t[m] = e /\ \A k \in 1..n : s[k] = t[k]
  BY <1>1, <1>2, <1>3, AppendProperties
<1>5. PICK g : Joining(t, m, g)
  BY JoiningExists
<1>6. FlattenSeq(t) = g[m]
  BY <1>3, <1>4, <1>5, FlattenIs
<1>7. g[m] = IF n = 0 THEN e ELSE g[n] \o e
  <2>1. g = [i \in 1..m |-> IF i = 1 THEN t[i] ELSE g[i - 1] \o t[i]]
    BY <1>5 DEF Joining
  <2>2. m \in 1..m /\ m - 1 = n /\ (m = 1 <=> n = 0)
    BY <1>3
  <2>3. g[m] = IF m = 1 THEN t[m] ELSE g[m - 1] \o t[m]
    BY <2>1, <2>2
  <2>4. QED BY <1>4, <2>2, <2>3
<1>8. CASE n = 0
  <2>1. s = <<>>
    BY <1>1, <1>8, EmptySeq
  <2>2. <<>> \o e = e
    BY ConcatEmptySeq
  <2>3. QED BY <1>2, <1>6, <1>7, <1>8, <2>1, <2>2, FlattenEmpty
<1>9. CASE n # 0
  <2>1. PICK f : Joining(s, n, f)
    BY JoiningExists
  <2>2. FlattenSeq(s) = f[n]
    BY <1>1, <1>9, <2>1, FlattenIs
  <2>3. n <= m /\ n \in 1..n
    BY <1>3, <1>9
  <2>4. \A k \in 1..n : f[k] = g[k]
    <3>1. n \in Nat /\ m \in Nat /\ n <= m /\ Joining(s, n, f) /\ Joining(t, m, g)
      BY <1>3, <1>5, <2>1, <2>3
    <3>2. \A k \in 1..n : s[k] = t[k]
      BY <1>4
    <3>3. QED BY <3>1, <3>2, JoiningOfMore
  <2>5. QED BY <1>2, <1>6, <1>7, <1>9, <2>2, <2>3, <2>4
<1>10. QED BY <1>8, <1>9

\* A sequence that is not empty is a shorter one and its last element.
LEMMA Shorter ==
  ASSUME NEW S, NEW s \in Seq(S), NEW n \in Nat, Len(s) = n + 1
  PROVE  \E t \in Seq(S), e \in S : s = Append(t, e) /\ Len(t) = n
<1>1. s # <<>>
  BY EmptySeq
<1>2. PICK t \in Seq(S), e \in S : s = Append(t, e)
  BY <1>1, SequenceEmptyOrAppend
<1>3. Len(s) = Len(t) + 1 /\ Len(t) \in Nat
  BY <1>2, AppendProperties, LenProperties
<1>4. QED BY <1>2, <1>3

\* Sequences over a set make a sequence over it.
LEMMA FlattenType ==
  ASSUME NEW S, NEW s \in Seq(Seq(S))
  PROVE  FlattenSeq(s) \in Seq(S)
<1> DEFINE T == {n \in Nat : \E t \in Seq(Seq(S)) : Len(t) = n /\ FlattenSeq(t) \notin Seq(S)}
<1>1. ASSUME T # {} PROVE FALSE
  <2>1. PICK n \in T : \A j \in T : n <= j
    BY <1>1, Smallest
  <2>2. PICK t \in Seq(Seq(S)) : Len(t) = n /\ FlattenSeq(t) \notin Seq(S)
    BY <2>1
  <2>3. n # 0
    <3>1. ASSUME n = 0 PROVE FALSE
      <4>1. t = <<>>
        BY <2>2, <3>1, EmptySeq
      <4>2. QED BY <2>2, <4>1, FlattenEmpty, EmptySeq
    <3>2. QED BY <3>1
  <2>4. PICK m \in Nat : n = m + 1 /\ m \notin T
    <3>1. n - 1 \in Nat /\ n - 1 \notin T /\ n = (n - 1) + 1
      BY <2>1, <2>3
    <3>2. QED BY <3>1
  <2>5. PICK u \in Seq(Seq(S)), e \in Seq(S) : t = Append(u, e) /\ Len(u) = m
    <3>1. Len(t) = m + 1
      BY <2>2, <2>4
    <3>2. QED BY <3>1, Shorter, ZenonT(40)
  <2>6. FlattenSeq(u) \in Seq(S)
    BY <2>4, <2>5
  <2>7. FlattenSeq(t) = FlattenSeq(u) \o e
    BY <2>5, FlattenAppend
  <2>8. QED BY <2>2, <2>5, <2>6, <2>7, ConcatProperties
<1>2. Len(s) \in Nat
  BY LenProperties
<1>3. QED BY <1>1, <1>2

\* One element makes a sequence.
LEMMA Single == \A S : \A a \in S : <<a>> \in Seq(S) /\ Len(<<a>>) = 1
  OBVIOUS

\* Three sequences can be put together in either order.
LEMMA Associative ==
  \A S : \A a, b, c \in Seq(S) : (a \o b) \o c = a \o (b \o c)
<1> SUFFICES ASSUME NEW S, NEW a \in Seq(S), NEW b \in Seq(S), NEW c \in Seq(S)
             PROVE  (a \o b) \o c = a \o (b \o c)
  OBVIOUS
<1> QED BY ConcatAssociative

\* Two families, one after the other.
LEMMA FlattenConcat ==
  ASSUME NEW S, NEW s \in Seq(Seq(S)), NEW t \in Seq(Seq(S))
  PROVE  FlattenSeq(s \o t) = FlattenSeq(s) \o FlattenSeq(t)
<1> DEFINE T == {n \in Nat : \E u \in Seq(Seq(S)) :
                   Len(u) = n /\ FlattenSeq(s \o u) # FlattenSeq(s) \o FlattenSeq(u)}
<1>1. FlattenSeq(s) \in Seq(S)
  BY FlattenType
<1>2. ASSUME T # {} PROVE FALSE
  <2>1. PICK n \in T : \A j \in T : n <= j
    BY <1>2, Smallest
  <2>2. PICK u \in Seq(Seq(S)) : Len(u) = n /\ FlattenSeq(s \o u) # FlattenSeq(s) \o FlattenSeq(u)
    BY <2>1
  <2>3. n # 0
    <3>1. ASSUME n = 0 PROVE FALSE
      <4>1. u = <<>>
        BY <2>2, <3>1, EmptySeq
      <4>2. s \o u = s /\ FlattenSeq(s) \o <<>> = FlattenSeq(s)
        BY <1>1, <4>1, ConcatEmptySeq
      <4>3. QED BY <2>2, <4>1, <4>2, FlattenEmpty
    <3>2. QED BY <3>1
  <2>4. PICK m \in Nat : n = m + 1 /\ m \notin T
    <3>1. n - 1 \in Nat /\ n - 1 \notin T /\ n = (n - 1) + 1
      BY <2>1, <2>3
    <3>2. QED BY <3>1
  <2>5. PICK v \in Seq(Seq(S)), e \in Seq(S) : u = Append(v, e) /\ Len(v) = m
    <3>1. Len(u) = m + 1
      BY <2>2, <2>4
    <3>2. QED BY <3>1, Shorter, ZenonT(40)
  <2>6. FlattenSeq(s \o v) = FlattenSeq(s) \o FlattenSeq(v)
    BY <2>4, <2>5
  <2>7. s \o v \in Seq(Seq(S)) /\ FlattenSeq(v) \in Seq(S)
    BY FlattenType, ConcatProperties
  <2>8. s \o u = Append(s \o v, e)
    <3>1. u = v \o <<e>> /\ Append(s \o v, e) = (s \o v) \o <<e>>
      BY <2>5, <2>7, AppendIsConcat
    <3>2. <<e>> \in Seq(Seq(S))
      OBVIOUS
    <3>3. (s \o v) \o <<e>> = s \o (v \o <<e>>)
      <4> HIDE DEF T
      <4> QED BY <3>2, ConcatAssociative
    <3>4. QED BY <3>1, <3>3
  <2>9. FlattenSeq(s \o u) = (FlattenSeq(s) \o FlattenSeq(v)) \o e
    BY <2>6, <2>7, <2>8, FlattenAppend
  <2>10. FlattenSeq(u) = FlattenSeq(v) \o e
    BY <2>5, FlattenAppend
  <2>11. (FlattenSeq(s) \o FlattenSeq(v)) \o e = FlattenSeq(s) \o (FlattenSeq(v) \o e)
    <3>1. PICK p \in Seq(S) : p = FlattenSeq(s)
      BY <1>1
    <3>2. PICK q \in Seq(S) : q = FlattenSeq(v)
      BY <2>7
    <3>3. (p \o q) \o e = p \o (q \o e)
      <4>1. p \in Seq(S)
        BY <3>1
      <4>11. q \in Seq(S)
        BY <3>2
      <4>12. e \in Seq(S)
        BY <2>5
      <4> HIDE DEF T
      <4>2. QED BY <4>1, <4>11, <4>12, Associative, SMTT(30)
    <3>4. QED BY <3>1, <3>2, <3>3
  <2>12. QED BY <2>2, <2>9, <2>10, <2>11
<1>3. Len(t) \in Nat
  BY LenProperties
<1>4. QED BY <1>2, <1>3

\* What the first k of them make, and what the others.
UpTo(s, k) == FlattenSeq(SubSeq(s, 1, k))
Beyond(s, k) == FlattenSeq(SubSeq(s, k + 1, Len(s)))

\* Both ends, and one step from one to the other.
LEMMA UpToFacts ==
  ASSUME NEW S, NEW s \in Seq(Seq(S)), NEW n \in Nat, n = Len(s)
  PROVE  /\ UpTo(s, 0) = <<>> /\ Beyond(s, n) = <<>>
         /\ UpTo(s, n) = FlattenSeq(s) /\ Beyond(s, 0) = FlattenSeq(s)
         /\ \A k \in 0..n : UpTo(s, k) \in Seq(S) /\ Beyond(s, k) \in Seq(S)
<1>1. SubSeq(s, 1, 0) = <<>> /\ SubSeq(s, n + 1, n) = <<>> /\ SubSeq(s, 1, n) = s
  BY SubSeqEmpty, SubSeqFull
<1>2. 0 + 1 = 1
  OBVIOUS
<1>3. \A k \in 0..n : SubSeq(s, 1, k) \in Seq(Seq(S)) /\ SubSeq(s, k + 1, n) \in Seq(Seq(S))
  <2> TAKE k \in 0..n
  <2>1. \A j \in 1..n : s[j] \in Seq(S)
    BY ElementOfSeq
  <2>2. (\A j \in 1..k : s[j] \in Seq(S)) /\ (\A j \in (k + 1)..n : s[j] \in Seq(S))
    BY <2>1
  <2>3. QED BY <2>2, SubSeqProperties
<1>4. QED BY <1>1, <1>2, <1>3, FlattenEmpty, FlattenType DEF UpTo, Beyond

\* One sequence more, and one less.
LEMMA UpToStep ==
  ASSUME NEW S, NEW s \in Seq(Seq(S)), NEW n \in Nat, n = Len(s), NEW k \in 1..n
  PROVE  /\ UpTo(s, k) = UpTo(s, k - 1) \o s[k]
         /\ Beyond(s, k - 1) = s[k] \o Beyond(s, k)
<1>1. \A j \in 1..n : s[j] \in Seq(S)
  BY ElementOfSeq
<1>2. SubSeq(s, 1, k - 1) \in Seq(Seq(S)) /\ SubSeq(s, k + 1, n) \in Seq(Seq(S))
  <2>1. (\A j \in 1..(k - 1) : s[j] \in Seq(S)) /\ (\A j \in (k + 1)..n : s[j] \in Seq(S))
    BY <1>1
  <2>2. QED BY <2>1, SubSeqProperties
<1>3. s[k] \in Seq(S) /\ <<s[k]>> \in Seq(Seq(S))
  BY <1>1
<1>4. SubSeq(s, 1, k) = SubSeq(s, 1, k - 1) \o <<s[k]>>
  <2>1. 1 \in 1..Len(s) /\ k \in 1..Len(s)
    OBVIOUS
  <2>2. QED BY <2>1, SubSeqRecursiveSecond
<1>5. SubSeq(s, (k - 1) + 1, n) = <<s[k]>> \o SubSeq(s, k + 1, n)
  <2>1. k \in 1..Len(s) /\ n \in k..Len(s) /\ (k - 1) + 1 = k
    OBVIOUS
  <2>2. QED BY <2>1, SubSeqRecursiveFirst
<1>6. FlattenSeq(<<s[k]>>) = s[k]
  <2>1. <<>> \in Seq(Seq(S)) /\ <<s[k]>> = Append(<<>>, s[k])
    BY <1>3, EmptySeq
  <2>2. FlattenSeq(<<s[k]>>) = <<>> \o s[k]
    BY <1>3, <2>1, FlattenAppend, FlattenEmpty
  <2>3. QED BY <1>3, <2>2, ConcatEmptySeq
<1>7. UpTo(s, k) = UpTo(s, k - 1) \o s[k]
  BY <1>2, <1>3, <1>4, <1>6, FlattenConcat DEF UpTo
<1>8. Beyond(s, k - 1) = s[k] \o Beyond(s, k)
  BY <1>2, <1>3, <1>5, <1>6, FlattenConcat DEF Beyond
<1>9. QED BY <1>7, <1>8

-----------------------------------------------------------------------------
(* Two sequences, one after the other.                                     *)

\* Its elements are those of the first, then those of the second.
InOrder(S, c, a, m, b, n) ==
  /\ c \in Seq(S) /\ Len(c) = m + n /\ DOMAIN c = 1..(m + n)
  /\ \A k \in 1..(m + n) : c[k] = IF k <= m THEN a[k] ELSE b[k - m]

\* What stands where in two sequences, one after the other.
LEMMA Elements ==
  \A S : \A a, b \in Seq(S) : \A m, n \in Nat :
    m = Len(a) /\ n = Len(b) => InOrder(S, a \o b, a, m, b, n)
<1> SUFFICES ASSUME NEW S, NEW a \in Seq(S), NEW b \in Seq(S), NEW m \in Nat, NEW n \in Nat,
                    m = Len(a), n = Len(b)
             PROVE  InOrder(S, a \o b, a, m, b, n)
  OBVIOUS
<1>1. PICK c \in Seq(S) : c = a \o b
  BY ConcatProperties
<1>2. Len(c) = m + n /\ \A k \in 1..(m + n) : c[k] = IF k <= m THEN a[k] ELSE b[k - m]
  BY <1>1, ConcatProperties
<1>3. DOMAIN c = 1..(m + n)
  BY <1>2, LenProperties
<1>4. InOrder(S, c, a, m, b, n)
  BY <1>2, <1>3 DEF InOrder
<1>5. QED BY <1>1, <1>4

\* What SubSeq takes out of them.
Parts(S, c, a, b) ==
  /\ c \in Seq(S) /\ Len(c) = Len(a) + Len(b)
  /\ SubSeq(c, 1, Len(a)) = a /\ SubSeq(c, Len(a) + 1, Len(c)) = b

\* Both can be had back from the two together.
LEMMA TakeDrop == \A S : \A a, b \in Seq(S) : Parts(S, a \o b, a, b)
<1> SUFFICES ASSUME NEW S, NEW a \in Seq(S), NEW b \in Seq(S) PROVE Parts(S, a \o b, a, b)
  OBVIOUS
<1>1. PICK m \in Nat : m = Len(a)
  BY LenProperties
<1>2. PICK n \in Nat : n = Len(b)
  BY LenProperties
<1>9. PICK c : c = a \o b
  OBVIOUS
<1>3. c \in Seq(S)
  BY <1>9, ConcatProperties
<1>4. /\ Len(c) = m + n
      /\ \A i \in 1..(m + n) : c[i] = IF i <= m THEN a[i] ELSE b[i - m]
  BY <1>1, <1>2, <1>9, ConcatProperties
<1>5. \A i \in 1..(m + n) : c[i] \in S
  BY <1>3, <1>4, ElementOfSeq
<1>6. SubSeq(c, 1, m) = a
  <2>1. \A i \in 1..m : c[i] \in S
    BY <1>5
  <2>2. /\ SubSeq(c, 1, m) \in Seq(S) /\ Len(SubSeq(c, 1, m)) = m
        /\ \A i \in 1..m : SubSeq(c, 1, m)[i] = c[i]
    BY <2>1, SubSeqProperties
  <2>3. PICK d \in Seq(S) : d = SubSeq(c, 1, m)
    BY <2>2
  <2>4. \A i \in 1..m : d[i] = a[i]
    BY <1>4, <2>2, <2>3
  <2>5. d = a
    BY <1>1, <1>2, <2>2, <2>3, <2>4, SeqEqual
  <2>6. QED BY <2>3, <2>5
<1>7. SubSeq(c, m + 1, m + n) = b
  <2>1. \A i \in (m + 1)..(m + n) : c[i] \in S
    BY <1>5
  <2>2. /\ SubSeq(c, m + 1, m + n) \in Seq(S) /\ Len(SubSeq(c, m + 1, m + n)) = n
        /\ \A i \in 1..n : SubSeq(c, m + 1, m + n)[i] = c[m + i]
    BY <2>1, SubSeqProperties
  <2>3. PICK d \in Seq(S) : d = SubSeq(c, m + 1, m + n)
    BY <2>2
  <2>4. \A i \in 1..n : d[i] = b[i]
    <3> TAKE i \in 1..n
    <3>1. d[i] = c[m + i]
      BY <2>2, <2>3
    <3>2. m + i \in 1..(m + n) /\ ~(m + i <= m) /\ (m + i) - m = i
      OBVIOUS
    <3>3. QED BY <1>4, <3>1, <3>2
  <2>5. d = b
    BY <1>1, <1>2, <2>2, <2>3, <2>4, SeqEqual
  <2>6. QED BY <2>3, <2>5
<1>8. Parts(S, c, a, b)
  BY <1>1, <1>2, <1>3, <1>4, <1>6, <1>7 DEF Parts
<1>10. QED BY <1>8, <1>9

\* What there is to say of a sequence that begins with a and goes on with r.
Begins(S, s, a, r) ==
  /\ s \in Seq(S) /\ s # <<>> /\ s[1] = a /\ Len(s) = Len(r) + 1
  /\ SubSeq(s, 1, 1) = <<a>> /\ SubSeq(s, 2, Len(s)) = r

\* One element in front of a sequence.
LEMMA OneInFront == \A S : \A a \in S, r \in Seq(S) : Begins(S, Cons(a, r), a, r)
<1> SUFFICES ASSUME NEW S, NEW a \in S, NEW r \in Seq(S) PROVE Begins(S, Cons(a, r), a, r)
  OBVIOUS
<1>1. PICK p \in Seq(S) : p = <<a>>
  <2>1. <<a>> \in Seq(S)
    OBVIOUS
  <2>2. QED BY <2>1
<1>2. PICK n \in Nat : n = Len(r)
  BY LenProperties
<1>3. PICK s : s = Cons(a, r)
  OBVIOUS
<1>4. s = p \o r /\ Len(p) = 1 /\ p[1] = a
  BY <1>1, <1>3 DEF Cons
<1>5. s \in Seq(S) /\ Len(s) = 1 + n /\ SubSeq(s, 1, 1) = p /\ SubSeq(s, 1 + 1, 1 + n) = r
  <2>1. Parts(S, s, p, r)
    BY <1>1, <1>4, TakeDrop
  <2>2. QED BY <1>2, <1>4, <2>1 DEF Parts
<1>6. s[1] = a
  <2>1. 1 \in 1..(Len(p) + Len(r)) /\ 1 <= Len(p)
    BY <1>2, <1>4
  <2>2. s[1] = p[1]
    BY <1>1, <1>4, <2>1, ConcatProperties
  <2>3. QED BY <1>4, <2>2
<1>7. s # <<>>
  BY <1>5, EmptySeq
<1>8. Begins(S, s, a, r)
  BY <1>1, <1>2, <1>5, <1>6, <1>7 DEF Begins
<1>9. QED BY <1>3, <1>8

\* A pair is one and one.
LEMMA PairIs == \A S : \A a, b \in S : <<a, b>> \in Seq(S) /\ <<a, b>> = <<a>> \o <<b>>
<1> SUFFICES ASSUME NEW S, NEW a \in S, NEW b \in S
             PROVE  <<a, b>> \in Seq(S) /\ <<a, b>> = <<a>> \o <<b>>
  OBVIOUS
<1>1. <<a>> \in Seq(S) /\ <<b>> \in Seq(S) /\ <<a, b>> \in Seq(S)
  OBVIOUS
<1>2. PICK q \in Seq(S) : q = <<a>>
  BY <1>1
<1>3. PICK v \in Seq(S) : v = <<b>>
  BY <1>1
<1>4. PICK p \in Seq(S) : p = <<a, b>>
  BY <1>1
<1>5. Len(q) = 1 /\ Len(v) = 1 /\ q[1] = a /\ v[1] = b
  BY <1>2, <1>3
<1>6. Len(p) = 2 /\ p[1] = a /\ p[2] = b
  BY <1>4
<1>7. PICK w \in Seq(S) : w = q \o v
  BY <1>2, <1>3, ConcatProperties
<1>8. Len(w) = 2 /\ \A k \in 1..2 : w[k] = IF k <= 1 THEN q[k] ELSE v[k - 1]
  BY <1>2, <1>3, <1>5, <1>7, ConcatProperties
<1>9. w[1] = p[1] /\ w[2] = p[2]
  BY <1>5, <1>6, <1>8
<1>10. \A k \in 1..Len(w) : w[k] = p[k]
  BY <1>8, <1>9
<1>11. w = p
  BY <1>4, <1>6, <1>7, <1>8, <1>10, SeqEqual
<1>12. QED BY <1>1, <1>2, <1>3, <1>4, <1>7, <1>11

\* Two in front of a sequence, as a pair and one by one.
LEMMA TwoIsCons == \A S : \A a, b \in S, r \in Seq(S) : <<a, b>> \o r = Cons(a, Cons(b, r))
<1> SUFFICES ASSUME NEW S, NEW a \in S, NEW b \in S, NEW r \in Seq(S)
             PROVE  <<a, b>> \o r = Cons(a, Cons(b, r))
  OBVIOUS
<1>1. PICK q \in Seq(S) : q = <<a>>
  BY Single
<1>2. PICK v \in Seq(S) : v = <<b>>
  BY Single
<1>3. q \in Seq(S) /\ v \in Seq(S)
  BY <1>1, <1>2
<1>4. (q \o v) \o r = q \o (v \o r)
  BY <1>3, Associative
<1>5. <<a, b>> = q \o v
  BY <1>1, <1>2, PairIs
<1>6. QED BY <1>1, <1>2, <1>4, <1>5 DEF Cons

\* What there is to say of one that begins with two elements.
BeginsTwo(S, s, a, b, r) ==
  /\ Begins(S, s, a, Cons(b, r)) /\ s[2] = b /\ Len(s) = Len(r) + 2
  /\ SubSeq(s, 1, 2) = <<a, b>> /\ SubSeq(s, 3, Len(s)) = r

\* The first two elements of a sequence, and what is behind them.
LEMMA TwoInFront ==
  \A S : \A a, b \in S, r \in Seq(S) : BeginsTwo(S, <<a, b>> \o r, a, b, r)
<1> SUFFICES ASSUME NEW S, NEW a \in S, NEW b \in S, NEW r \in Seq(S)
             PROVE  BeginsTwo(S, <<a, b>> \o r, a, b, r)
  OBVIOUS
<1>1. PICK p \in Seq(S) : p = <<a, b>>
  <2>1. <<a, b>> \in Seq(S)
    OBVIOUS
  <2>2. QED BY <2>1
<1>2. PICK n \in Nat : n = Len(r)
  BY LenProperties
<1>3. PICK s : s = p \o r
  OBVIOUS
<1>4. Len(p) = 2 /\ p[2] = b
  BY <1>1
<1>5. SubSeq(s, 1, 2) = p /\ SubSeq(s, 2 + 1, Len(s)) = r /\ Len(s) = 2 + n
  <2>1. Parts(S, s, p, r)
    BY <1>1, <1>3, TakeDrop
  <2>2. QED BY <1>2, <1>4, <2>1 DEF Parts
<1>6. s[2] = b
  <2>1. 2 \in 1..(Len(p) + Len(r)) /\ 2 <= Len(p)
    BY <1>2, <1>4
  <2>2. s[2] = p[2]
    BY <1>1, <1>3, <2>1, ConcatProperties
  <2>3. QED BY <1>4, <2>2
<1>7. Cons(b, r) \in Seq(S)
  BY OneInFront DEF Begins
<1>8. s = Cons(a, Cons(b, r))
  BY <1>1, <1>3, TwoIsCons
<1>9. Begins(S, s, a, Cons(b, r))
  BY <1>7, <1>8, OneInFront
<1>10. BeginsTwo(S, s, a, b, r)
  BY <1>1, <1>2, <1>5, <1>6, <1>9 DEF BeginsTwo
<1>11. QED BY <1>1, <1>3, <1>10

\* What there is to say of a sequence that has u between p and r.
Middle(S, s, p, u, r) ==
  /\ s \in Seq(S) /\ Len(s) = Len(p) + Len(u) + Len(r)
  /\ p \o u \in Seq(S) /\ Len(p \o u) = Len(p) + Len(u) /\ s = (p \o u) \o r
  /\ \A j \in 1..Len(u) : s[Len(p) + j] = u[j] /\ (p \o u)[Len(p) + j] = u[j]
  /\ SubSeq(s, 1, Len(p)) = p
  /\ SubSeq(s, Len(p) + Len(u) + 1, Len(s)) = r

\* What stands between two others is at its place.
LEMMA InMiddle == \A S : \A p, u, r \in Seq(S) : Middle(S, p \o (u \o r), p, u, r)
<1> SUFFICES ASSUME NEW S, NEW p \in Seq(S), NEW u \in Seq(S), NEW r \in Seq(S)
             PROVE  Middle(S, p \o (u \o r), p, u, r)
  OBVIOUS
<1>1. PICK a \in Seq(S) : a = p \o u
  BY ConcatProperties
<1>2. PICK b \in Seq(S) : b = u \o r
  BY ConcatProperties
<1>3. PICK s : s = p \o b
  OBVIOUS
<1>4. PICK l \in Nat, m \in Nat, n \in Nat : l = Len(p) /\ m = Len(u) /\ n = Len(r)
  BY LenProperties
<1>5. s = a \o r
  BY <1>1, <1>2, <1>3, Associative
<1>6. Len(a) = l + m /\ \A j \in 1..m : a[l + j] = u[j]
  <2>1. Len(a) = l + m /\ \A j \in 1..(l + m) : a[j] = IF j <= l THEN p[j] ELSE u[j - l]
    BY <1>1, <1>4, ConcatProperties
  <2>2. ASSUME NEW j \in 1..m PROVE a[l + j] = u[j]
    <3>1. l + j \in 1..(l + m) /\ ~(l + j <= l) /\ (l + j) - l = j
      OBVIOUS
    <3>2. QED BY <2>1, <3>1
  <2>3. QED BY <2>1, <2>2
<1>7. s \in Seq(S) /\ Len(s) = l + m + n /\ SubSeq(s, l + m + 1, Len(s)) = r
  <2>1. Parts(S, s, a, r)
    BY <1>1, <1>5, TakeDrop
  <2>2. QED BY <1>4, <1>6, <2>1 DEF Parts
<1>8. SubSeq(s, 1, l) = p
  <2>1. Parts(S, s, p, b)
    BY <1>2, <1>3, TakeDrop
  <2>2. QED BY <1>4, <2>1 DEF Parts
<1>9. ASSUME NEW j \in 1..m PROVE s[l + j] = u[j]
  <2>1. \A k \in 1..(Len(a) + Len(r)) : s[k] = IF k <= Len(a) THEN a[k] ELSE r[k - Len(a)]
    BY <1>1, <1>5, ConcatProperties
  <2>2. l + j \in 1..(Len(a) + Len(r)) /\ l + j <= Len(a)
    BY <1>4, <1>6
  <2>3. s[l + j] = a[l + j]
    BY <2>1, <2>2
  <2>4. QED BY <1>6, <2>3
<1>10. Middle(S, s, p, u, r)
  BY <1>1, <1>4, <1>5, <1>6, <1>7, <1>8, <1>9 DEF Middle
<1>11. QED BY <1>2, <1>3, <1>10

\* The second of two sequences is a suffix of both.
LEMMA SuffixOf == \A S : \A a, b \in Seq(S) : IsSuffix(b, a \o b)
<1> SUFFICES ASSUME NEW S, NEW a \in Seq(S), NEW b \in Seq(S) PROVE IsSuffix(b, a \o b)
  OBVIOUS
<1>1. PICK c \in Seq(S) : c = a \o b
  BY ConcatProperties
<1>2. PICK m \in Nat, n \in Nat : m = Len(a) /\ n = Len(b)
  BY LenProperties
<1>3. Len(c) = m + n /\ \A j \in 1..(m + n) : c[j] = IF j <= m THEN a[j] ELSE b[j - m]
  BY <1>1, <1>2, ConcatProperties
<1>4. PICK p : p = Reverse(b)
  OBVIOUS
<1>5. PICK q : q = Reverse(c)
  OBVIOUS
<1>6. p = [j \in 1..n |-> b[(n - j) + 1]]
  BY <1>2, <1>4 DEF Reverse
<1>7. q = [j \in 1..(m + n) |-> c[((m + n) - j) + 1]]
  BY <1>3, <1>5 DEF Reverse
<1>8. p \in Seq(S) /\ Len(p) = n
  <2>1. \A j \in 1..n : b[(n - j) + 1] \in S
    <3> TAKE j \in 1..n
    <3>1. (n - j) + 1 \in 1..Len(b)
      BY <1>2
    <3>2. QED BY <3>1, ElementOfSeq
  <2>2. p \in [1..n -> S]
    BY <1>6, <2>1
  <2>3. QED BY <2>2
<1>9. Len(q) = m + n /\ \A j \in 1..(m + n) : q[j] \in S
  <2>1. \A j \in 1..(m + n) : c[((m + n) - j) + 1] \in S
    <3> TAKE j \in 1..(m + n)
    <3>1. ((m + n) - j) + 1 \in 1..Len(c)
      BY <1>3
    <3>2. QED BY <1>1, <3>1, ElementOfSeq
  <2>2. q \in [1..(m + n) -> S]
    BY <1>7, <2>1
  <2>3. m + n \in Nat
    OBVIOUS
  <2>4. QED BY <2>2, <2>3
<1>10. \A j \in 1..n : p[j] = q[j]
  <2> TAKE j \in 1..n
  <2>1. p[j] = b[(n - j) + 1]
    BY <1>6
  <2>2. j \in 1..(m + n) /\ q[j] = c[((m + n) - j) + 1]
    BY <1>7
  <2>3. /\ ((m + n) - j) + 1 \in 1..(m + n) /\ ~(((m + n) - j) + 1 <= m)
        /\ (((m + n) - j) + 1) - m = (n - j) + 1
    OBVIOUS
  <2>4. QED BY <1>3, <2>1, <2>2, <2>3
<1>11. PICK t : t = SubSeq(q, 1, n)
  OBVIOUS
<1>12. t \in Seq(S) /\ Len(t) = n /\ \A j \in 1..n : t[j] = q[j]
  <2>1. \A j \in 1..n : q[j] \in S
    BY <1>9
  <2>2. QED BY <1>11, <2>1, SubSeqProperties
<1>13. t = p
  BY <1>8, <1>10, <1>12, SeqEqual
<1>14. SubSeq(p, 1, n) = p
  BY <1>8, SubSeqFull
<1>15. n <= m + n
  OBVIOUS
<1>16. IsPrefix(p, q)
  BY <1>8, <1>9, <1>11, <1>13, <1>14, <1>15 DEF IsPrefix
<1>17. QED BY <1>1, <1>4, <1>5, <1>16 DEF IsSuffix

\* What the first k of them make, and what the others make, is what they all make.
LEMMA UpToBeyond ==
  ASSUME NEW S, NEW s \in Seq(Seq(S)), NEW k \in 0..Len(s)
  PROVE  FlattenSeq(s) = UpTo(s, k) \o Beyond(s, k)
<1>1. PICK n \in Nat : n = Len(s)
  BY LenProperties
<1>2. k \in 0..n /\ 1 \in 1..(n + 1) /\ k \in (1 - 1)..n /\ n \in k..n
  BY <1>1
<1>3. SubSeq(s, 1, k) \o SubSeq(s, k + 1, n) = SubSeq(s, 1, n)
  BY <1>1, <1>2, ConcatAdjacentSubSeq
<1>4. SubSeq(s, 1, n) = s
  BY <1>1, SubSeqFull
<1>5. \A j \in 1..n : s[j] \in Seq(S)
  BY <1>1, ElementOfSeq
<1>6. PICK a \in Seq(Seq(S)) : a = SubSeq(s, 1, k)
  <2>1. \A j \in 1..k : s[j] \in Seq(S)
    BY <1>2, <1>5
  <2>2. SubSeq(s, 1, k) \in Seq(Seq(S))
    BY <1>2, <2>1, SubSeqProperties
  <2>3. QED BY <2>2
<1>7. PICK b \in Seq(Seq(S)) : b = SubSeq(s, k + 1, n)
  <2>1. \A j \in (k + 1)..n : s[j] \in Seq(S)
    BY <1>2, <1>5
  <2>2. SubSeq(s, k + 1, n) \in Seq(Seq(S))
    BY <1>2, <2>1, SubSeqProperties
  <2>3. QED BY <2>2
<1>8. FlattenSeq(a \o b) = FlattenSeq(a) \o FlattenSeq(b)
  BY <1>6, <1>7, FlattenConcat
<1>9. QED BY <1>1, <1>3, <1>4, <1>6, <1>7, <1>8 DEF UpTo, Beyond

=============================================================================
