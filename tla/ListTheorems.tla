--------------------------- MODULE ListTheorems ----------------------------
(***************************************************************************)
(* What the operations of java.util.LinkedList that the request path uses  *)
(* (add, remove(0), remove(Object)) do to the elements of a list.          *)
(***************************************************************************)
EXTENDS SequencesExt, SequenceTheorems, FiniteSetTheorems, WellFoundedInduction, TLAPS

\* The elements of a sequence, position by position.
LEMMA ToSetElements ==
    ASSUME NEW S, NEW s \in Seq(S)
    PROVE  /\ ToSet(s) \subseteq S
           /\ \A i \in 1..Len(s) : s[i] \in ToSet(s)
           /\ \A e \in ToSet(s) : \E i \in 1..Len(s) : s[i] = e
           /\ ToSet(<<>>) = {}
BY LenProperties, ElementOfSeq DEF ToSet

\* add(e) adds e and nothing else, and keeps a list without duplicates if e is new.
LEMMA AppendElements ==
    ASSUME NEW S, NEW s \in Seq(S), NEW e \in S
    PROVE  /\ Append(s, e) \in Seq(S)
           /\ Append(s, e) # <<>>
           /\ ToSet(Append(s, e)) = ToSet(s) \cup {e}
           /\ IsInjective(s) /\ e \notin ToSet(s) => IsInjective(Append(s, e))
<1> DEFINE n == Len(s)
<1>1. /\ n \in Nat /\ DOMAIN s = 1..n
      /\ Append(s, e) \in Seq(S) /\ Append(s, e) # <<>>
      /\ Len(Append(s, e)) = n + 1 /\ DOMAIN Append(s, e) = 1..(n + 1)
      /\ \A i \in 1..n : Append(s, e)[i] = s[i]
      /\ Append(s, e)[n + 1] = e
  BY AppendProperties, LenProperties
<1> HIDE DEF n
<1>2. ToSet(Append(s, e)) = ToSet(s) \cup {e}
  <2>1. \A i \in 1..(n + 1) : i \in 1..n \/ i = n + 1
    BY <1>1
  <2>2. \A i \in 1..n : i \in 1..(n + 1)
    BY <1>1
  <2>3. n + 1 \in 1..(n + 1)
    BY <1>1
  <2> QED BY <1>1, <2>1, <2>2, <2>3 DEF ToSet
<1>3. ASSUME IsInjective(s), e \notin ToSet(s)
      PROVE  IsInjective(Append(s, e))
  <2>1. \A i \in 1..n : s[i] # e
    BY <1>1, <1>3 DEF ToSet
  <2> QED BY <1>1, <1>3, <2>1 DEF IsInjective
<1> QED BY <1>1, <1>2, <1>3

\* remove(0) returns an element of the list and adds none; without duplicates the
\* element is gone.
LEMMA TailElements ==
    ASSUME NEW S, NEW s \in Seq(S), s # <<>>
    PROVE  /\ Head(s) \in S
           /\ Head(s) \in ToSet(s)
           /\ Tail(s) \in Seq(S)
           /\ ToSet(s) = ToSet(Tail(s)) \cup {Head(s)}
           /\ IsInjective(s) => IsInjective(Tail(s)) /\ Head(s) \notin ToSet(Tail(s))
<1> DEFINE n == Len(s)
           t == Tail(s)
<1>1. /\ n \in Nat \ {0} /\ DOMAIN s = 1..n
      /\ Head(s) \in S /\ t \in Seq(S) /\ Len(t) = n - 1
      /\ DOMAIN t = 1..(n - 1)
      /\ \A i \in 1..(n - 1) : t[i] = s[i + 1]
      /\ Head(s) = s[1]
  BY HeadTailProperties, LenProperties, EmptySeq
<1> HIDE DEF n, t
<1>2. \A i \in 1..(n - 1) : i + 1 \in 1..n /\ i + 1 # 1
  BY <1>1
<1>3. \A i \in 1..n : i = 1 \/ (i - 1 \in 1..(n - 1) /\ (i - 1) + 1 = i)
  BY <1>1
<1>4. 1 \in 1..n
  BY <1>1
<1>5. ToSet(s) = ToSet(t) \cup {Head(s)}
  <2>1. \A i \in DOMAIN s : s[i] \in ToSet(t) \cup {Head(s)}
    <3> SUFFICES ASSUME NEW i \in DOMAIN s PROVE s[i] \in ToSet(t) \cup {Head(s)}
      OBVIOUS
    <3>1. CASE i = 1
      BY <3>1, <1>1
    <3>2. CASE i - 1 \in 1..(n - 1) /\ (i - 1) + 1 = i
      <4>1. t[i - 1] = s[i]
        BY <3>2, <1>1
      <4> QED BY <4>1, <3>2, <1>1 DEF ToSet
    <3> QED BY <3>1, <3>2, <1>3, <1>1
  <2>2. \A i \in DOMAIN t : t[i] \in ToSet(s)
    BY <1>1, <1>2 DEF ToSet
  <2>3. Head(s) \in ToSet(s)
    BY <1>1, <1>4 DEF ToSet
  <2> QED BY <2>1, <2>2, <2>3 DEF ToSet
<1>6. ASSUME IsInjective(s)
      PROVE  IsInjective(t) /\ Head(s) \notin ToSet(t)
  <2>1. \A i, j \in 1..(n - 1) : t[i] = t[j] => i + 1 = j + 1
    <3> SUFFICES ASSUME NEW i \in 1..(n - 1), NEW j \in 1..(n - 1), t[i] = t[j]
                 PROVE  i + 1 = j + 1
      OBVIOUS
    <3>1. i + 1 \in DOMAIN s /\ j + 1 \in DOMAIN s /\ s[i + 1] = s[j + 1]
      BY <1>1, <1>2
    <3> QED BY <3>1, <1>6 DEF IsInjective
  <2>2. \A i, j \in 1..(n - 1) : i + 1 = j + 1 => i = j
    BY <1>1
  <2>3. \A i \in 1..(n - 1) : t[i] # s[1]
    BY <1>1, <1>2, <1>4, <1>6 DEF IsInjective
  <2> QED BY <1>1, <2>1, <2>2, <2>3 DEF IsInjective, ToSet
<1> QED BY <1>1, <1>5, <1>6 DEF t

\* A set of natural numbers that is not empty has a least element.
LEMMA LeastElement ==
    ASSUME NEW I, I \subseteq Nat, I # {}
    PROVE  Min(I) \in I /\ \A j \in I : Min(I) <= j
<1>1. IsWellFoundedOn({ss \in Nat \X Nat : ss[1] < ss[2]}, Nat)
  BY NatLessThanWellFounded DEF OpToRel
<1>2. PICK m \in I : \A j \in I : ~ (<<j, m>> \in {ss \in Nat \X Nat : ss[1] < ss[2]})
  BY <1>1, WFMin
<1>3. ASSUME NEW j \in I, j < m
      PROVE  <<j, m>> \in {ss \in Nat \X Nat : ss[1] < ss[2]}
  <2> DEFINE p == <<j, m>>
  <2>1. p \in Nat \X Nat /\ p[1] = j /\ p[2] = m
    OBVIOUS
  <2> HIDE DEF p
  <2>2. p \in {ss \in Nat \X Nat : ss[1] < ss[2]}
    BY <1>3, <2>1
  <2> QED BY <2>2 DEF p
<1>4. \A j \in I : m <= j
  <2>1. \A j \in I : ~(j < m)
    BY <1>2, <1>3
  <2>2. m \in Nat /\ \A j \in I : j \in Nat
    OBVIOUS
  <2> QED BY <2>1, <2>2
<1> QED BY <1>4 DEF Min

\* remove(e) removes e if it is there, and adds nothing; without duplicates e is gone.
LEMMA RemoveFirstElements ==
    ASSUME NEW S, NEW s \in Seq(S), NEW e
    PROVE  /\ RemoveFirst(s, e) \in Seq(S)
           /\ ToSet(RemoveFirst(s, e)) \subseteq ToSet(s)
           /\ ToSet(s) \subseteq ToSet(RemoveFirst(s, e)) \cup {e}
           /\ IsInjective(s) => /\ IsInjective(RemoveFirst(s, e))
                                /\ e \notin ToSet(RemoveFirst(s, e))
<1> DEFINE n == Len(s)
<1>0. /\ n \in Nat /\ DOMAIN s = 1..n /\ \A i \in 1..n : s[i] \in S
  BY LenProperties, ElementOfSeq
<1>1. CASE ~ \E i \in 1..n : s[i] = e
  <2>1. RemoveFirst(s, e) = s
    BY <1>1 DEF RemoveFirst
  <2> QED BY <2>1, <1>0, <1>1 DEF ToSet
<1>2. CASE \E i \in 1..n : s[i] = e
  <2> DEFINE I == {i \in 1..n : s[i] = e}
             k == SelectInSeq(s, LAMBDA v : v = e)
             u == SubSeq(s, 1, k - 1)
             v == SubSeq(s, k + 1, n)
             w == u \o v
  <2>1. k \in 1..n /\ s[k] = e
    <3>1. I # {} /\ I \subseteq Nat
      BY <1>2, <1>0
    <3>2. k = Min(I)
      BY <3>1 DEF SelectInSeq
    <3> QED BY <3>1, <3>2, LeastElement
  <2>2. RemoveFirst(s, e) = w
    BY <1>2 DEF RemoveFirst, RemoveAt
  <2> HIDE DEF k
  <2>3. /\ u \in Seq(S) /\ Len(u) = k - 1
        /\ \A i \in 1..(k - 1) : u[i] = s[i]
    <3>1. \A i \in 1..(k - 1) : s[i] \in S
      BY <1>0, <2>1
    <3>2. /\ u \in Seq(S)
          /\ Len(u) = IF 1 <= k - 1 THEN (k - 1) - 1 + 1 ELSE 0
          /\ \A i \in 1..((k - 1) - 1 + 1) : u[i] = s[1 + i - 1]
      BY <1>0, <2>1, <3>1, SubSeqProperties
    <3> QED BY <3>2, <1>0, <2>1
  <2>4. /\ v \in Seq(S) /\ Len(v) = n - k
        /\ \A i \in 1..(n - k) : v[i] = s[k + i]
    <3>1. \A i \in (k + 1)..n : s[i] \in S
      BY <1>0, <2>1
    <3>2. /\ v \in Seq(S)
          /\ Len(v) = IF k + 1 <= n THEN n - (k + 1) + 1 ELSE 0
          /\ \A i \in 1..(n - (k + 1) + 1) : v[i] = s[(k + 1) + i - 1]
      BY <1>0, <2>1, <3>1, SubSeqProperties
    <3>3. n - (k + 1) + 1 = n - k /\ \A i \in 1..(n - k) : (k + 1) + i - 1 = k + i
      BY <1>0, <2>1
    <3>4. Len(v) = n - k
      <4>1. (IF k + 1 <= n THEN n - (k + 1) + 1 ELSE 0) = n - k
        <5>0. n \in Nat /\ k \in Nat /\ k <= n
          BY <1>0, <2>1
        <5> HIDE DEF n
        <5>1. CASE k + 1 <= n
          BY <5>0, <5>1
        <5>2. CASE ~(k + 1 <= n)
          BY <5>0, <5>2
        <5> QED BY <5>1, <5>2
      <4> QED BY <4>1, <3>2
    <3>5. \A i \in 1..(n - k) : v[i] = s[k + i]
      BY <3>2, <3>3
    <3> QED BY <3>2, <3>4, <3>5
  <2> HIDE DEF u, v
  <2>5. /\ w \in Seq(S) /\ DOMAIN w = 1..(n - 1)
        /\ \A i \in 1..(n - 1) : w[i] = IF i < k THEN s[i] ELSE s[i + 1]
    <3>1. /\ w \in Seq(S) /\ Len(w) = (k - 1) + (n - k)
          /\ \A i \in 1..((k - 1) + (n - k)) : w[i] =
                IF i <= k - 1 THEN u[i] ELSE v[i - (k - 1)]
      <4>1. /\ w \in Seq(S) /\ Len(w) = Len(u) + Len(v)
            /\ \A i \in 1..(Len(u) + Len(v)) : w[i] =
                  IF i <= Len(u) THEN u[i] ELSE v[i - Len(u)]
        BY <2>3, <2>4, ConcatProperties
      <4> QED BY <4>1, <2>3, <2>4
    <3>2. (k - 1) + (n - k) = n - 1
      BY <1>0, <2>1
    <3>3. \A i \in 1..(n - 1) :
             /\ i < k => i \in 1..(k - 1) /\ i <= k - 1
             /\ ~(i < k) => /\ i - (k - 1) \in 1..(n - k) /\ ~(i <= k - 1)
                            /\ k + (i - (k - 1)) = i + 1
      BY <1>0, <2>1
    <3>4. DOMAIN w = 1..(n - 1)
      BY <3>1, <3>2, LenProperties
    <3> QED BY <3>1, <3>2, <3>3, <3>4, <2>3, <2>4
  <2> HIDE DEF w
  <2>6. \A i \in 1..(n - 1) : i \in 1..n /\ i + 1 \in 1..n
    BY <1>0
  <2>7. \A i \in 1..n : \/ i = k
                        \/ i < k /\ i \in 1..(n - 1)
                        \/ i - 1 \in 1..(n - 1) /\ ~(i - 1 < k) /\ (i - 1) + 1 = i
    BY <1>0, <2>1
  <2>8. ToSet(w) \subseteq ToSet(s)
    BY <1>0, <2>5, <2>6 DEF ToSet
  <2>9. ToSet(s) \subseteq ToSet(w) \cup {e}
    <3> SUFFICES ASSUME NEW i \in 1..n PROVE s[i] \in ToSet(w) \cup {e}
      BY <1>0 DEF ToSet
    <3>1. CASE i = k
      BY <3>1, <2>1
    <3>2. CASE i < k /\ i \in 1..(n - 1)
      BY <3>2, <2>5 DEF ToSet
    <3>3. CASE i - 1 \in 1..(n - 1) /\ ~(i - 1 < k) /\ (i - 1) + 1 = i
      <4>1. w[i - 1] = s[i]
        BY <3>3, <2>5
      <4> QED BY <4>1, <3>3, <2>5 DEF ToSet
    <3> QED BY <3>1, <3>2, <3>3, <2>7
  <2>10. ASSUME IsInjective(s)
         PROVE  IsInjective(w) /\ e \notin ToSet(w)
    <3> DEFINE at(i) == IF i < k THEN i ELSE i + 1
    <3>1. \A i \in 1..(n - 1) : at(i) \in 1..n /\ at(i) # k /\ w[i] = s[at(i)]
      BY <1>0, <2>1, <2>5, <2>6
    <3>2. \A i, j \in 1..(n - 1) : at(i) = at(j) => i = j
      BY <1>0, <2>1
    <3> HIDE DEF at
    <3>3. \A i, j \in 1..n : s[i] = s[j] => i = j
      BY <2>10, <1>0 DEF IsInjective
    <3>4. \A i, j \in 1..(n - 1) : w[i] = w[j] => i = j
      BY <3>1, <3>2, <3>3
    <3>5. \A i \in 1..(n - 1) : w[i] # e
      BY <3>1, <3>3, <2>1
    <3> QED BY <3>4, <3>5, <2>5 DEF IsInjective, ToSet
  <2> QED BY <2>2, <2>5, <2>8, <2>9, <2>10
<1> QED BY <1>1, <1>2

\* Two lists behind each other: the elements of both.
LEMMA ConcatElements ==
    ASSUME NEW S, NEW s \in Seq(S), NEW t \in Seq(S)
    PROVE  /\ s \o t \in Seq(S)
           /\ ToSet(s \o t) = ToSet(s) \cup ToSet(t)
<1> DEFINE m == Len(s)
           n == Len(t)
           u == s \o t
<1>1. /\ m \in Nat /\ DOMAIN s = 1..m
      /\ n \in Nat /\ DOMAIN t = 1..n
  BY LenProperties
<1>2. /\ u \in Seq(S) /\ DOMAIN u = 1..(m + n)
      /\ \A i \in 1..(m + n) : u[i] = IF i <= m THEN s[i] ELSE t[i - m]
  <2>1. u \in Seq(S) /\ Len(u) = m + n
        /\ \A i \in 1..(m + n) : u[i] = IF i <= m THEN s[i] ELSE t[i - m]
    BY ConcatProperties
  <2> QED BY <2>1, LenProperties
<1> HIDE DEF m, n, u
<1>3. \A i \in 1..m : i \in 1..(m + n) /\ i <= m
  BY <1>1
<1>4. \A i \in 1..n : i + m \in 1..(m + n) /\ ~(i + m <= m) /\ (i + m) - m = i
  BY <1>1
<1>5. \A i \in 1..(m + n) : i \in 1..m \/ i - m \in 1..n
  BY <1>1
<1>6. \A i \in 1..m : u[i] = s[i] /\ i \in DOMAIN u
  BY <1>2, <1>3
<1>7. \A i \in 1..n : u[i + m] = t[i] /\ i + m \in DOMAIN u
  BY <1>2, <1>4
<1>8. ToSet(u) \subseteq ToSet(s) \cup ToSet(t)
  <2> SUFFICES ASSUME NEW i \in 1..(m + n) PROVE u[i] \in ToSet(s) \cup ToSet(t)
    BY <1>2 DEF ToSet
  <2>1. CASE i \in 1..m
    <3>1. u[i] = s[i]
      BY <2>1, <1>6
    <3> QED BY <3>1, <2>1, <1>1 DEF ToSet
  <2>2. CASE i - m \in 1..n
    <3>1. (i - m) + m = i
      BY <1>1
    <3>2. u[i] = t[i - m]
      BY <2>2, <3>1, <1>7
    <3> QED BY <3>2, <2>2, <1>1 DEF ToSet
  <2> QED BY <2>1, <2>2, <1>5
<1>9. ToSet(s) \cup ToSet(t) \subseteq ToSet(u)
  BY <1>1, <1>6, <1>7 DEF ToSet
<1> QED BY <1>2, <1>8, <1>9 DEF u

\* Counting the elements that are not above one numbers the elements of a finite set.
LEMMA RankNumbers ==
    ASSUME NEW S, IsFiniteSet(S), NEW f, \A d \in S : f[d] \in Int,
           \A d, e \in S : f[d] = f[e] => d = e,
           NEW upto, \A d \in S : upto[d] \subseteq S,
           \A d, e \in S : e \in upto[d] <=> f[e] <= f[d]
    PROVE  /\ \A d \in S : Cardinality(upto[d]) \in 1..Cardinality(S)
           /\ \A d, e \in S : Cardinality(upto[d]) = Cardinality(upto[e]) => d = e
           /\ \A i \in 1..Cardinality(S) : \E d \in S : Cardinality(upto[d]) = i
<1> DEFINE Rank(d) == Cardinality(upto[d])
           n == Cardinality(S)
           r == [d \in S |-> Rank(d)]
<1>1. n \in Nat
    BY FS_CardinalityType
<1>2. ASSUME NEW d \in S
      PROVE  Rank(d) \in 1..n /\ IsFiniteSet(upto[d])
    <2>1. IsFiniteSet(upto[d]) /\ Rank(d) \in Nat /\ Rank(d) <= n
        <3>1. IsFiniteSet(upto[d]) /\ Cardinality(upto[d]) <= n
            BY FS_Subset
        <3> QED BY <3>1, FS_CardinalityType
    <2>2. Rank(d) # 0
        <3>1. d \in upto[d]
            OBVIOUS
        <3> QED BY <3>1, <2>1, FS_EmptySet
    <2> HIDE DEF n, Rank
    <2> QED BY <1>1, <2>1, <2>2
<1>3. ASSUME NEW d \in S, NEW e \in S, f[d] < f[e]
      PROVE  Rank(d) # Rank(e)
    <2>1. upto[d] \subseteq upto[e]
        BY <1>3
    <2>2. e \in upto[e] /\ e \notin upto[d]
        BY <1>3
    <2> QED BY <2>1, <2>2, <1>2, FS_Subset
<1>4. \A d, e \in S : Rank(d) = Rank(e) => d = e
    <2> SUFFICES ASSUME NEW d \in S, NEW e \in S, d # e PROVE Rank(d) # Rank(e)
        OBVIOUS
    <2>1. f[d] < f[e] \/ f[e] < f[d]
        OBVIOUS
    <2> QED BY <2>1, <1>3
<1>5. r \in Injection(S, 1..n)
    BY <1>2, <1>4 DEF Injection, IsInjective
<1>6. r \in Surjection(S, 1..n)
    <2>1. IsFiniteSet(1..n) /\ Cardinality(1..n) = n
        BY <1>1, FS_Interval
    <2> HIDE DEF r, n
    <2> QED BY <2>1, <1>5, FS_Injection DEF n
<1>7. \A i \in 1..n : \E d \in S : Rank(d) = i
    BY <1>6 DEF Surjection
<1> QED BY <1>2, <1>4, <1>7

-----------------------------------------------------------------------------
(* Recursion over 0..n, and lists behind each other.                       *)

\* Induction, for a set.
LEMMA UpTo ==
    ASSUME NEW n \in Nat, NEW S, 0 \in S, \A k \in 1..n : k - 1 \in S => k \in S
    PROVE  0..n \subseteq S
<1> DEFINE I == {k \in 0..n : k \notin S}
<1>1. CASE I = {}
  BY <1>1
<1>2. CASE I # {}
  <2> DEFINE m == Min(I)
  <2>1. I \subseteq Nat
    OBVIOUS
  <2>2. m \in I /\ \A k \in I : m <= k
    BY <2>1, <1>2, LeastElement
  <2> HIDE DEF m
  <2>3. m \in 1..n
    BY <2>2
  <2>4. m - 1 \in 0..n /\ ~(m <= m - 1)
    BY <2>3
  <2>5. m - 1 \notin I
    BY <2>2, <2>4
  <2> QED BY <2>2, <2>3, <2>4, <2>5
<1> QED BY <1>1, <1>2

\* F gives the value at k from the value at k - 1; f are the values up to n.
Steps(n, T, F) == \A k \in 1..n : \A t \in T : F[<<k, t>>] \in T
Accumulated(f, n, T, a, F) ==
    /\ f \in [0..n -> T]
    /\ f[0] = a
    /\ \A k \in 1..n : f[k] = F[<<k, f[k - 1]>>]

\* A function whose value at k is computed from its value at k - 1 exists.
LEMMA Recursion ==
    ASSUME NEW n \in Nat, NEW T, NEW a \in T, NEW F, Steps(n, T, F)
    PROVE  \E f : Accumulated(f, n, T, a, F)
<1> USE DEF Steps
<1> DEFINE Upto(m, f) == f[0] = a /\ \A k \in 1..m : f[k] = F[<<k, f[k - 1]>>]
           S == {m \in 0..n : \E f \in [0..m -> T] : Upto(m, f)}
<1>1. 0 \in S
  <2> DEFINE f == [k \in 0..0 |-> a]
  <2>1. f \in [0..0 -> T] /\ Upto(0, f)
    OBVIOUS
  <2>2. \E g \in [0..0 -> T] : Upto(0, g)
    BY <2>1
  <2> QED BY <2>2
<1>2. ASSUME NEW m \in 1..n, m - 1 \in S
      PROVE  m \in S
  <2>1. PICK f \in [0..(m - 1) -> T] : Upto(m - 1, f)
    BY <1>2
  <2> DEFINE v == F[<<m, f[m - 1]>>]
             g == [k \in 0..m |-> IF k = m THEN v ELSE f[k]]
  <2>2. v \in T
    BY <2>1
  <2>3. \A k \in 0..m : k = m \/ k \in 0..(m - 1)
    OBVIOUS
  <2> HIDE DEF v
  <2>4. g \in [0..m -> T]
    BY <2>1, <2>2, <2>3
  <2>5. g[0] = a
    BY <2>1
  <2>6. ASSUME NEW k \in 1..m PROVE g[k] = F[<<k, g[k - 1]>>]
    <3>1. k - 1 \in 0..m /\ k - 1 # m /\ k \in 0..m
      OBVIOUS
    <3>2. g[k - 1] = f[k - 1]
      BY <3>1
    <3>3. CASE k = m
      BY <3>1, <3>2, <3>3 DEF v
    <3>4. CASE k # m
      <4>1. k \in 1..(m - 1)
        BY <3>4
      <4> QED BY <4>1, <3>1, <3>2, <3>4, <2>1
    <3> QED BY <3>3, <3>4
  <2>7. \E h \in [0..m -> T] : Upto(m, h)
    BY <2>4, <2>5, <2>6
  <2> QED BY <2>7
<1>3. 0..n \subseteq S
  <2> HIDE DEF S
  <2> QED BY <1>1, <1>2, UpTo
<1>4. n \in S
  BY <1>3
<1> QED BY <1>4 DEF Accumulated

\* at[k] is where part k of the n parts of a list ends, and the next one begins.
Behind(at, parts, n, S) ==
    /\ parts \in [1..n -> Seq(S)]
    /\ at[0] = 0
    /\ \A k \in 1..n : at[k] = at[k - 1] + Len(parts[k])

Flattened(flat, at, parts, n, S) ==
    /\ flat \in Seq(S) /\ Len(flat) = at[n]
    /\ \A k \in 1..n : at[k - 1] \in Nat /\ at[k] \in Nat /\ at[k] <= at[n]
    /\ \A k \in 1..n : \A i \in 1..Len(parts[k]) : flat[at[k - 1] + i] = parts[k][i]

\* Parts behind each other: each begins where the lengths of those before it end.
LEMMA FlattenParts ==
    ASSUME NEW S, NEW n \in Nat \ {0}, NEW parts, NEW at, Behind(at, parts, n, S)
    PROVE  Flattened(FlattenSeq(parts), at, parts, n, S)
<1> DEFINE flat == CHOOSE f : f = [i \in 1..n |-> IF i = 1 THEN parts[i] ELSE f[i - 1] \o parts[i]]
<1>0. parts \in [1..n -> Seq(S)]
  BY DEF Behind
<1>1. Len(parts) = n
  BY <1>0
<1>2. FlattenSeq(parts) = flat[n]
  BY <1>1 DEF FlattenSeq
<1>3. flat = [i \in 1..n |-> IF i = 1 THEN parts[i] ELSE flat[i - 1] \o parts[i]]
  <2> DEFINE T == Seq(S)
             none == <<>>
             F == [p \in (1..n) \X T |-> p[2] \o parts[p[1]]]
  <2>1. none \in T
    BY EmptySeq
  <2>2. \A s, t \in T : s \o t \in T
    BY ConcatProperties
  <2> HIDE DEF T
  <2>3. \A k \in 1..n : \A t \in T : F[<<k, t>>] \in T
    BY <2>2, <1>0 DEF T
  <2>4. \A k \in 1..n, t \in T : F[<<k, t>>] = t \o parts[k]
    OBVIOUS
  <2> HIDE DEF F
  <2> HIDE DEF none
  <2>5. PICK f : Accumulated(f, n, T, none, F)
    <3>1. n \in Nat /\ Steps(n, T, F)
      BY <2>3 DEF Steps
    <3> QED BY <3>1, <2>1, Recursion
  <2>6. \A k \in 1..n : k - 1 \in 0..n
    OBVIOUS
  <2>7. \A k \in 1..n : f[k] = f[k - 1] \o parts[k]
    BY <2>4, <2>5, <2>6 DEF Accumulated
  <2>8. 1 \in 1..n /\ 1 - 1 = 0
    OBVIOUS
  <2>9. f[1] = parts[1]
    <3>1. parts[1] \in Seq(S)
      BY <2>8, <1>0
    <3>2. none \o parts[1] = parts[1]
      BY <3>1, ConcatEmptySeq DEF none
    <3> QED BY <2>5, <2>7, <2>8, <3>2 DEF Accumulated
  <2> DEFINE g == [k \in 1..n |-> f[k]]
  <2>10. \A k \in 1..n : k # 1 => k - 1 \in 1..n
    OBVIOUS
  <2>11. g = [i \in 1..n |-> IF i = 1 THEN parts[i] ELSE g[i - 1] \o parts[i]]
    BY <2>7, <2>9, <2>10
  <2> HIDE DEF g
  <2>12. \E h : h = [i \in 1..n |-> IF i = 1 THEN parts[i] ELSE h[i - 1] \o parts[i]]
    BY <2>11
  <2> QED BY <2>12
<1> HIDE DEF flat
<1>4. /\ flat[1] = parts[1]
      /\ \A k \in 1..n : k # 1 => flat[k] = flat[k - 1] \o parts[k]
  <2>1. 1 \in 1..n
    OBVIOUS
  <2> QED BY <2>1, <1>3
<1> DEFINE Good(m) ==
              /\ flat[m] \in Seq(S)
              /\ Len(flat[m]) = at[m]
              /\ \A k \in 1..m : at[k - 1] \in Nat /\ at[k] \in Nat /\ at[k] <= at[m]
              /\ \A k \in 1..m : \A i \in 1..Len(parts[k]) : flat[m][at[k - 1] + i] = parts[k][i]
           I == {0} \cup {m \in 1..n : Good(m)}
<1>5. \A k \in 1..n : Len(parts[k]) \in Nat /\ parts[k] \in Seq(S)
  BY <1>0, LenProperties
<1>6. ASSUME NEW m \in 1..n, m - 1 \in I PROVE m \in I
  <2>1. CASE m = 1
    <3>1. at[0] = 0 /\ at[1] = Len(parts[1])
      BY <2>1, <1>5 DEF Behind
    <3>2. \A k \in 1..1 : k = 1 /\ k - 1 = 0
      OBVIOUS
    <3>3. Good(1)
      BY <3>1, <3>2, <2>1, <1>4, <1>5
    <3> QED BY <2>1, <3>3
  <2>2. CASE m # 1
    <3> DEFINE p == flat[m - 1]
               q == parts[m]
    <3>1. m - 1 \in 1..n
      BY <2>2
    <3>2. Good(m - 1)
      BY <1>6, <3>1
    <3>3. p \in Seq(S) /\ Len(p) = at[m - 1] /\ at[m - 1] \in Nat
      BY <3>1, <3>2, LenProperties
    <3>4. q \in Seq(S) /\ Len(q) \in Nat
      BY <1>5
    <3>5. flat[m] = p \o q
      BY <2>2, <1>4
    <3> HIDE DEF p, q
    <3>6. /\ flat[m] \in Seq(S)
          /\ Len(flat[m]) = Len(p) + Len(q)
          /\ \A i \in 1..(Len(p) + Len(q)) :
                flat[m][i] = IF i <= Len(p) THEN p[i] ELSE q[i - Len(p)]
      <4> DEFINE pq == p \o q
      <4>1. /\ pq \in Seq(S)
            /\ Len(pq) = Len(p) + Len(q)
            /\ \A i \in 1..(Len(p) + Len(q)) : pq[i] = IF i <= Len(p) THEN p[i] ELSE q[i - Len(p)]
        BY <3>3, <3>4, ConcatProperties
      <4> QED BY <4>1, <3>5
    <3>7. Len(flat[m]) = at[m] /\ at[m] \in Nat /\ at[m - 1] <= at[m]
      <4>1. at[m] = at[m - 1] + Len(q)
        BY DEF Behind, q
      <4> QED BY <4>1, <3>3, <3>4, <3>6
    <3>8. \A k \in 1..m : k = m \/ k \in 1..(m - 1)
      OBVIOUS
    <3>9. ASSUME NEW k \in 1..m
          PROVE  at[k - 1] \in Nat /\ at[k] \in Nat /\ at[k] <= at[m]
      <4>1. CASE k = m
        BY <4>1, <3>3, <3>7
      <4>2. CASE k \in 1..(m - 1)
        <5>1. at[k - 1] \in Nat /\ at[k] \in Nat /\ at[k] <= at[m - 1]
          BY <4>2, <3>2
        <5> QED BY <5>1, <3>3, <3>7
      <4> QED BY <4>1, <4>2, <3>8
    <3>10. ASSUME NEW k \in 1..m, NEW i \in 1..Len(parts[k])
           PROVE  flat[m][at[k - 1] + i] = parts[k][i]
      <4>1. CASE k = m
        <5>1. /\ at[k - 1] + i \in 1..(Len(p) + Len(q))
              /\ ~(at[k - 1] + i <= Len(p)) /\ (at[k - 1] + i) - Len(p) = i
          <6>1. at[k - 1] = Len(p) /\ i \in 1..Len(q)
            BY <4>1, <3>3 DEF q
          <6> QED BY <6>1, <3>3, <3>4
        <5> QED BY <5>1, <4>1, <3>6 DEF q
      <4>2. CASE k \in 1..(m - 1)
        <5>1. at[k - 1] \in Nat /\ at[k] \in Nat /\ at[k] <= Len(p)
          BY <4>2, <3>2, <3>3
        <5>2. k \in 1..n /\ Len(parts[k]) \in Nat /\ at[k] = at[k - 1] + Len(parts[k])
          BY <1>5 DEF Behind
        <5>3. at[k - 1] + i \in 1..(Len(p) + Len(q)) /\ at[k - 1] + i <= Len(p)
          <6>1. i \in Nat /\ 1 <= i /\ i <= Len(parts[k])
            BY <5>2
          <6>2. at[k - 1] + i <= at[k]
            BY <5>1, <5>2, <6>1
          <6> QED BY <5>1, <6>1, <6>2, <3>3, <3>4
        <5>4. p[at[k - 1] + i] = parts[k][i]
          BY <4>2, <3>2 DEF p
        <5> QED BY <5>3, <5>4, <3>6
      <4> QED BY <4>1, <4>2, <3>8
    <3>11. Good(m)
      BY <3>6, <3>7, <3>9, <3>10
    <3> QED BY <3>11
  <2> QED BY <2>1, <2>2
<1>7. 0..n \subseteq I
  <2>1. 0 \in I
    OBVIOUS
  <2> HIDE DEF I
  <2> QED BY <2>1, <1>6, UpTo
<1>8. Good(n)
  <2>1. n \in I
    BY <1>7
  <2> QED BY <2>1
<1> QED BY <1>2, <1>8 DEF Flattened

\* Where the parts of a list end, one behind the other, and what the list is then.
Ends(parts, S) ==
    CHOOSE at : at \in [0..Len(parts) -> Nat] /\ Behind(at, parts, Len(parts), S)
LaidOut(flat, at, parts, S) ==
    /\ at \in [0..Len(parts) -> Nat] /\ at[0] = 0
    /\ \A k \in 1..Len(parts) : at[k] = at[k - 1] + Len(parts[k]) /\ at[k] <= at[Len(parts)]
    /\ flat \in Seq(S) /\ Len(flat) = at[Len(parts)]
    /\ \A k \in 1..Len(parts) : \A i \in 1..Len(parts[k]) : flat[at[k - 1] + i] = parts[k][i]

\* Any list of lists is laid out in this way, the empty one too.
LEMMA FlattenLayout ==
    ASSUME NEW S, NEW parts, parts \in Seq(Seq(S))
    PROVE  LaidOut(FlattenSeq(parts), Ends(parts, S), parts, S)
<1> DEFINE n == Len(parts)
           at == Ends(parts, S)
<1>1. n \in Nat /\ DOMAIN parts = 1..n /\ parts \in [1..n -> Seq(S)]
  BY LenProperties
<1>2. \A k \in 1..n : parts[k] \in Seq(S) /\ Len(parts[k]) \in Nat
  BY <1>1, LenProperties
<1>3. at \in [0..n -> Nat] /\ Behind(at, parts, n, S)
  <2> DEFINE F == [p \in (1..n) \X Nat |-> p[2] + Len(parts[p[1]])]
  <2>1. \A k \in 1..n, t \in Nat : F[<<k, t>>] = t + Len(parts[k])
    OBVIOUS
  <2>2. \A k \in 1..n, t \in Nat : t + Len(parts[k]) \in Nat
    BY <1>2
  <2> HIDE DEF F, n
  <2>3. Steps(n, Nat, F)
    BY <2>1, <2>2 DEF Steps
  <2>4. PICK f : Accumulated(f, n, Nat, 0, F)
    BY <1>1, <2>3, Recursion
  <2>5. \A k \in 1..n : k - 1 \in 0..n
    BY <1>1
  <2>6. f \in [0..n -> Nat] /\ f[0] = 0 /\ \A k \in 1..n : f[k] = f[k - 1] + Len(parts[k])
    BY <2>1, <2>4, <2>5 DEF Accumulated
  <2>7. Behind(f, parts, n, S)
    BY <1>1, <2>6 DEF Behind
  <2> QED BY <2>6, <2>7 DEF Ends, n
<1> HIDE DEF at
<1>4. at[0] = 0 /\ \A k \in 1..n : at[k] = at[k - 1] + Len(parts[k])
  BY <1>3 DEF Behind
<1>5. CASE n = 0
  <2>1. parts = <<>>
    BY <1>1, <1>5, EmptySeq
  <2>2. FlattenSeq(parts) = <<>>
    BY <2>1 DEF FlattenSeq
  <2>3. <<>> \in Seq(S) /\ Len(<<>>) = 0
    BY EmptySeq
  <2> QED BY <1>3, <1>4, <1>5, <2>2, <2>3 DEF LaidOut, at
<1>6. CASE n # 0
  <2>1. n \in Nat \ {0}
    BY <1>1, <1>6
  <2>2. Flattened(FlattenSeq(parts), at, parts, n, S)
    BY <2>1, <1>3, FlattenParts
  <2> QED BY <1>3, <1>4, <2>2 DEF LaidOut, Flattened, at
<1> QED BY <1>5, <1>6

=============================================================================
