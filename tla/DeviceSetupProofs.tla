------------------------- MODULE DeviceSetupProofs -------------------------
(***************************************************************************)
(* Proofs about DeviceSetup, for any devices.  First, how the file of a    *)
(* device is laid out: where each descriptor begins.  Then what one        *)
(* descriptor more makes of the object, and from both the invariant of the *)
(* parser: how far it is in the file, and what it has built by then.       *)
(***************************************************************************)
EXTENDS DeviceSetup, ListTheorems, FiniteSetTheorems, SequenceTheorems, TLAPS

-----------------------------------------------------------------------------
(* Where in the file each descriptor is.                                   *)

DeviceDescriptor(d) == <<3, DT_DEVICE, Len(d)>>
Confs(d) == [i \in DOMAIN d |-> Header(d[i]) \o FlattenSeq(d[i].body)]

\* The end of descriptor j of a configuration, after its header, and of the
\* first m configurations.
BodyEnd(c) == Ends(c.body, Nat)
ConfEnd(d) == Ends(Confs(d), Nat)

Configurations == [value : Nat, body : Seq(Seq(Nat))]

\* b is at offset o of f.
Holds(f, o, b) ==
    /\ b \in Seq(Nat) /\ f \in Seq(Nat) /\ o \in Nat /\ o + Len(b) <= Len(f)
    /\ \A i \in 1..Len(b) : f[o + i] = b[i]

\* What Header and body of a configuration that begins at o are.
HoldsConf(f, o, c) ==
    /\ Holds(f, o, Header(c))
    /\ \A j \in 1..Len(c.body) : Holds(f, o + 4 + BodyEnd(c)[j - 1], c.body[j])

FileLaidOut(d) ==
    /\ Holds(File(d), 0, DeviceDescriptor(d))
    /\ ConfEnd(d) \in [0..Len(d) -> Nat] /\ ConfEnd(d)[0] = 0
    /\ \A i \in 1..Len(d) :
          /\ HoldsConf(File(d), 3 + ConfEnd(d)[i - 1], d[i])
          /\ ConfEnd(d)[i] = ConfEnd(d)[i - 1] + 4 + BodyEnd(d[i])[Len(d[i].body)]

\* What is at p in a list that is at o in another is at o + p there.
LEMMA HoldsThrough ==
    ASSUME NEW f, NEW o, NEW b, NEW p, NEW a, Holds(f, o, b), Holds(b, p, a)
    PROVE  Holds(f, o + p, a)
<1> DEFINE n == Len(a)
<1>1. n \in Nat /\ Len(b) \in Nat /\ Len(f) \in Nat /\ o \in Nat /\ p \in Nat
  BY LenProperties DEF Holds
<1>2. p + n <= Len(b) /\ o + Len(b) <= Len(f)
  BY DEF Holds
<1>3. \A i \in 1..n : p + i \in 1..Len(b) /\ (o + p) + i = o + (p + i)
  BY <1>1, <1>2
<1>4. \A i \in 1..n : f[(o + p) + i] = a[i]
  BY <1>3 DEF Holds
<1>5. o + p \in Nat /\ (o + p) + n <= Len(f)
  BY <1>1, <1>2
<1> QED BY <1>4, <1>5 DEF Holds

\* One list behind another.
LEMMA HoldsConcat ==
    ASSUME NEW a \in Seq(Nat), NEW b \in Seq(Nat)
    PROVE  Holds(a \o b, 0, a) /\ Holds(a \o b, Len(a), b) /\ Len(a \o b) = Len(a) + Len(b)
<1> DEFINE m == Len(a)
           n == Len(b)
           u == a \o b
<1>1. m \in Nat /\ n \in Nat
  BY LenProperties
<1>2. u \in Seq(Nat) /\ Len(u) = m + n
  BY ConcatProperties
<1>3. \A i \in 1..(m + n) : u[i] = IF i <= m THEN a[i] ELSE b[i - m]
  BY ConcatProperties
<1> HIDE DEF m, n, u
<1>4. \A i \in 1..m : u[0 + i] = a[i]
  BY <1>1, <1>3
<1>5. \A i \in 1..n : u[m + i] = b[i]
  <2> SUFFICES ASSUME NEW i \in 1..n
      PROVE  u[m + i] = b[i]
    OBVIOUS
  <2>1. m + i \in 1..(m + n) /\ ~(m + i <= m) /\ (m + i) - m = i
    BY <1>1
  <2>2. u[m + i] = b[(m + i) - m]
    BY <1>3, <2>1
  <2> QED BY <2>1, <2>2
<1> QED BY <1>1, <1>2, <1>4, <1>5 DEF Holds, m, n, u

\* The parts of a list, laid out.
LEMMA PartsHold ==
    ASSUME NEW parts \in Seq(Seq(Nat))
    PROVE  /\ FlattenSeq(parts) \in Seq(Nat)
           /\ Len(FlattenSeq(parts)) = Ends(parts, Nat)[Len(parts)]
           /\ Ends(parts, Nat) \in [0..Len(parts) -> Nat]
           /\ Ends(parts, Nat)[0] = 0
           /\ \A k \in 1..Len(parts) :
                 /\ Ends(parts, Nat)[k] = Ends(parts, Nat)[k - 1] + Len(parts[k])
                 /\ Holds(FlattenSeq(parts), Ends(parts, Nat)[k - 1], parts[k])
<1> DEFINE flat == FlattenSeq(parts)
           at == Ends(parts, Nat)
           n == Len(parts)
<1>1. LaidOut(flat, at, parts, Nat)
  BY FlattenLayout
<1>2. n \in Nat /\ parts \in [1..n -> Seq(Nat)]
  BY LenProperties
<1> HIDE DEF flat, at
<1>3. at \in [0..n -> Nat] /\ at[0] = 0 /\ flat \in Seq(Nat) /\ Len(flat) = at[n]
  BY <1>1 DEF LaidOut
<1>4. ASSUME NEW k \in 1..n
      PROVE  at[k] = at[k - 1] + Len(parts[k]) /\ Holds(flat, at[k - 1], parts[k])
  <2>1. k - 1 \in 0..n /\ parts[k] \in Seq(Nat)
    BY <1>2
  <2>2. at[k] = at[k - 1] + Len(parts[k]) /\ at[k] <= at[n]
    BY <1>1 DEF LaidOut
  <2>3. \A i \in 1..Len(parts[k]) : flat[at[k - 1] + i] = parts[k][i]
    BY <1>1 DEF LaidOut
  <2>4. at[k - 1] \in Nat
    BY <1>3, <2>1
  <2> QED BY <1>3, <2>1, <2>2, <2>3, <2>4 DEF Holds
<1> QED BY <1>3, <1>4 DEF flat, at

\* A configuration in full: its header, then its body.
LEMMA ConfHolds ==
    ASSUME NEW c \in Configurations
    PROVE  LET f == Header(c) \o FlattenSeq(c.body) IN
           /\ f \in Seq(Nat) /\ HoldsConf(f, 0, c)
           /\ Len(f) = 4 + BodyEnd(c)[Len(c.body)]
           /\ Header(c) \in Seq(Nat) /\ Len(Header(c)) = 4
           /\ Header(c)[3] = 4 + BodyEnd(c)[Len(c.body)]
<1> DEFINE h == Header(c)
           b == FlattenSeq(c.body)
           n == Len(c.body)
<1>1. c.body \in Seq(Seq(Nat)) /\ c.value \in Nat /\ n \in Nat
  BY LenProperties DEF Configurations
<1>2. /\ b \in Seq(Nat) /\ Len(b) = BodyEnd(c)[n] /\ BodyEnd(c) \in [0..n -> Nat]
      /\ \A j \in 1..n : Holds(b, BodyEnd(c)[j - 1], c.body[j])
  BY <1>1, PartsHold DEF BodyEnd
<1>3. Len(b) \in Nat
  BY <1>2, LenProperties
<1>4. h \in Seq(Nat) /\ Len(h) = 4 /\ h[3] = 4 + Len(b)
  BY <1>1, <1>3 DEF Header, DT_CONFIG
<1> HIDE DEF h, b
<1>5. /\ h \o b \in Seq(Nat) /\ Len(h \o b) = 4 + Len(b)
      /\ Holds(h \o b, 0, h) /\ Holds(h \o b, 4, b)
  BY <1>2, <1>4, HoldsConcat, ConcatProperties
<1>6. ASSUME NEW j \in 1..n
      PROVE  Holds(h \o b, 0 + 4 + BodyEnd(c)[j - 1], c.body[j])
  <2>1. Holds(h \o b, 4 + BodyEnd(c)[j - 1], c.body[j])
    BY <1>2, <1>5, HoldsThrough
  <2>2. 0 + 4 + BodyEnd(c)[j - 1] = 4 + BodyEnd(c)[j - 1]
    OBVIOUS
  <2> QED BY <2>1, <2>2
<1>7. HoldsConf(h \o b, 0, c)
  BY <1>5, <1>6 DEF HoldsConf, h
<1> QED BY <1>2, <1>4, <1>5, <1>7 DEF h, b

\* The whole file.
LEMMA FileHolds ==
    ASSUME NEW d \in Seq(Configurations)
    PROVE  FileLaidOut(d)
<1> DEFINE n == Len(d)
           parts == Confs(d)
           flat == FlattenSeq(parts)
           first == DeviceDescriptor(d)
<1>1. n \in Nat /\ DOMAIN d = 1..n /\ \A i \in 1..n : d[i] \in Configurations
  BY LenProperties, ElementOfSeq
<1>2. \A i \in 1..n : parts[i] = Header(d[i]) \o FlattenSeq(d[i].body)
  BY <1>1 DEF Confs
<1>3. \A i \in 1..n : parts[i] \in Seq(Nat)
  BY <1>1, <1>2, ConfHolds
<1>4. parts \in Seq(Seq(Nat)) /\ Len(parts) = n
  <2>1. parts = [i \in 1..n |-> parts[i]]
    BY <1>1 DEF Confs
  <2> HIDE DEF parts, n
  <2>2. parts \in [1..n -> Seq(Nat)]
    BY <1>3, <2>1
  <2> QED BY <1>1, <2>2, SeqDef, LenProperties
<1>5. first \in Seq(Nat) /\ Len(first) = 3
  BY <1>1 DEF DeviceDescriptor, DT_DEVICE
<1>6. File(d) = first \o flat
  BY DEF File, DeviceDescriptor, Confs
<1>7. /\ flat \in Seq(Nat)
      /\ ConfEnd(d) \in [0..n -> Nat] /\ ConfEnd(d)[0] = 0
      /\ \A k \in 1..n : /\ ConfEnd(d)[k] = ConfEnd(d)[k - 1] + Len(parts[k])
                         /\ Holds(flat, ConfEnd(d)[k - 1], parts[k])
  <2> HIDE DEF parts
  <2> QED BY <1>4, PartsHold DEF ConfEnd, parts
<1> HIDE DEF flat, parts, first
<1>8. Holds(File(d), 0, first) /\ Holds(File(d), 3, flat)
  BY <1>5, <1>6, <1>7, HoldsConcat
<1>9. ASSUME NEW i \in 1..n
      PROVE  /\ HoldsConf(File(d), 3 + ConfEnd(d)[i - 1], d[i])
             /\ ConfEnd(d)[i] = ConfEnd(d)[i - 1] + 4 + BodyEnd(d[i])[Len(d[i].body)]
  <2> DEFINE c == d[i]
             o == 3 + ConfEnd(d)[i - 1]
  <2>1. c \in Configurations /\ i - 1 \in 0..n /\ ConfEnd(d)[i - 1] \in Nat
    BY <1>1, <1>7
  <2>2. Holds(File(d), o, parts[i])
    BY <1>7, <1>8, HoldsThrough
  <2>3. HoldsConf(parts[i], 0, c) /\ Len(parts[i]) = 4 + BodyEnd(c)[Len(c.body)]
    BY <1>2, <2>1, ConfHolds
  <2>4. BodyEnd(c) \in [0..Len(c.body) -> Nat] /\ Len(c.body) \in Nat
    BY <2>1, PartsHold, LenProperties DEF Configurations, BodyEnd
  <2> HIDE DEF c, o
  <2>5. o \in Nat
    BY <2>1 DEF o
  <2>6. Holds(File(d), o, Header(c))
    <3>1. Holds(File(d), o + 0, Header(c))
      BY <2>2, <2>3, HoldsThrough DEF HoldsConf
    <3> QED BY <2>5, <3>1
  <2>7. ASSUME NEW j \in 1..Len(c.body)
        PROVE  Holds(File(d), o + 4 + BodyEnd(c)[j - 1], c.body[j])
    <3>1. Holds(parts[i], 0 + 4 + BodyEnd(c)[j - 1], c.body[j])
      BY <2>3 DEF HoldsConf
    <3>2. Holds(File(d), o + (0 + 4 + BodyEnd(c)[j - 1]), c.body[j])
      BY <2>2, <3>1, HoldsThrough
    <3>3. j - 1 \in 0..Len(c.body) /\ BodyEnd(c)[j - 1] \in Nat
      BY <2>4
    <3>4. \A x \in Nat : o + (0 + 4 + x) = o + 4 + x
      BY <2>5
    <3> QED BY <3>2, <3>3, <3>4
  <2>8. HoldsConf(File(d), o, c)
    BY <2>6, <2>7 DEF HoldsConf
  <2>9. ConfEnd(d)[i] = ConfEnd(d)[i - 1] + 4 + BodyEnd(c)[Len(c.body)]
    <3>1. Len(c.body) \in 0..Len(c.body)
      BY <2>4
    <3>2. BodyEnd(c)[Len(c.body)] \in Nat
      BY <2>4, <3>1
    <3>3. ConfEnd(d)[i] = ConfEnd(d)[i - 1] + (4 + BodyEnd(c)[Len(c.body)])
      BY <1>7, <2>3
    <3>4. \A x, y \in Nat : x + (4 + y) = x + 4 + y
      OBVIOUS
    <3> QED BY <2>1, <3>2, <3>3, <3>4
  <2> QED BY <2>8, <2>9 DEF c, o
<1> QED BY <1>7, <1>8, <1>9 DEF FileLaidOut, first

\* Where a configuration begins.
LEMMA ConfBegins ==
    ASSUME NEW d \in Seq(Configurations), NEW n \in 1..Len(d)
    PROVE  ConfEnd(d)[n - 1] \in Nat
<1>1. n - 1 \in 0..Len(d)
  BY LenProperties
<1>2. ConfEnd(d) \in [0..Len(d) -> Nat]
  BY FileHolds DEF FileLaidOut
<1> QED BY <1>1, <1>2

\* At a descriptor that begins with its length, get_descriptor() reads it and no
\* more, as long as the device is there.
LEMMA ReadsIt ==
    ASSUME NEW b \in Seq(Nat), Len(b) > 0, b[1] = Len(b), Holds(File(opened), offset, b)
    PROVE  Descriptor = b /\ (CanRead <=> ~lost)
<1> DEFINE f == File(opened)
           n == Len(f)
           m == Len(b)
           r == Rest
<1>1. f \in Seq(Nat) /\ n \in Nat /\ m \in Nat /\ offset \in Nat /\ offset + m <= n
  BY LenProperties DEF Holds
<1>2. \A i \in 1..m : f[offset + i] = b[i]
  BY DEF Holds
<1>3. \A i \in (offset + 1)..n : f[i] \in Nat
  BY <1>1, ElementOfSeq
<1>4. /\ r \in Seq(Nat)
      /\ Len(r) = IF offset + 1 <= n THEN n - (offset + 1) + 1 ELSE 0
      /\ \A i \in 1..(n - (offset + 1) + 1) : r[i] = f[(offset + 1) + i - 1]
  <2> HIDE DEF f, n
  <2>1. r = SubSeq(f, offset + 1, n)
    BY DEF Rest, f, n
  <2> HIDE DEF r
  <2> QED BY <1>1, <1>3, <2>1, SubSeqProperties
<1> HIDE DEF f, n, m, r
<1>5. Len(r) = n - offset /\ m > 0
  BY <1>1, <1>4 DEF m
<1>6. \A i \in 1..m : r[i] = b[i]
  <2> SUFFICES ASSUME NEW i \in 1..m
      PROVE  r[i] = b[i]
    OBVIOUS
  <2>1. i \in 1..(n - (offset + 1) + 1) /\ (offset + 1) + i - 1 = offset + i
    BY <1>1
  <2> QED BY <1>2, <1>4, <2>1
<1>7. r # <<>> /\ r[1] = m /\ m <= Len(r)
  <2>1. 1 \in 1..m
    BY <1>1, <1>5
  <2>2. r # <<>>
    BY <1>1, <1>5, EmptySeq
  <2> QED BY <1>1, <1>5, <1>6, <2>1, <2>2 DEF m
<1>8. CanRead <=> ~lost
  BY <1>5, <1>7 DEF CanRead, r
<1>9. Descriptor = b
  <2>1. Descriptor = SubSeq(r, 1, m)
    BY <1>7 DEF Descriptor, r
  <2>2. \A i \in 1..m : r[i] \in Nat
    <3>1. \A i \in 1..m : b[i] \in Nat
      BY <1>1, ElementOfSeq DEF m
    <3> QED BY <1>6, <3>1
  <2>3. /\ SubSeq(r, 1, m) \in Seq(Nat) /\ Len(SubSeq(r, 1, m)) = m
        /\ \A i \in 1..(m - 1 + 1) : SubSeq(r, 1, m)[i] = r[1 + i - 1]
    <3>1. /\ SubSeq(r, 1, m) \in Seq(Nat)
          /\ Len(SubSeq(r, 1, m)) = IF 1 <= m THEN m - 1 + 1 ELSE 0
          /\ \A i \in 1..(m - 1 + 1) : SubSeq(r, 1, m)[i] = r[1 + i - 1]
      BY <1>1, <2>2, SubSeqProperties
    <3> QED BY <1>1, <1>5, <3>1
  <2>4. \A i \in 1..m : SubSeq(r, 1, m)[i] = b[i]
    <3> SUFFICES ASSUME NEW i \in 1..m
        PROVE  SubSeq(r, 1, m)[i] = b[i]
      OBVIOUS
    <3>1. i \in 1..(m - 1 + 1) /\ 1 + i - 1 = i
      BY <1>1
    <3> QED BY <1>6, <2>3, <3>1
  <2>5. SubSeq(r, 1, m) = b
    BY <2>3, <2>4, SeqEqual DEF m
  <2> QED BY <2>1, <2>5
<1> QED BY <1>8, <1>9

-----------------------------------------------------------------------------
(* What one more descriptor makes of the interface settings shown so far.  *)

Settings == [number : Nat, setting : Nat, endpoints : Seq(Nat)]
Objects == [value : Nat, settings : Seq(Settings)]

Numbers(S, n) == n \in Nat /\ S \subseteq 1..n
Ranked(S) ==
    /\ IsFiniteSet(S) /\ Cardinality(S) \in Nat
    /\ \A j \in S : /\ Rank(j, S) \in 1..Cardinality(S)
                    /\ Rank(j, S) = Cardinality(S) <=> \A k \in S : k <= j
RankedAfter(T, S, k) ==
    /\ Cardinality(T) = Cardinality(S) + 1
    /\ Rank(k, T) = Cardinality(S) + 1
    /\ \A j \in S : Rank(j, T) = Rank(j, S)

\* A set of numbers, and the place of each in their order.
LEMMA RankInSet ==
    ASSUME NEW n, NEW S, Numbers(S, n)
    PROVE  Ranked(S)
<1>1. n \in Nat /\ S \subseteq 1..n /\ IsFiniteSet(1..n)
  BY FS_Interval DEF Numbers
<1>2. IsFiniteSet(S) /\ Cardinality(S) \in Nat
  BY <1>1, FS_Subset, FS_CardinalityType
<1>3. ASSUME NEW j \in S
      PROVE  /\ Rank(j, S) \in 1..Cardinality(S)
             /\ Rank(j, S) = Cardinality(S) <=> \A k \in S : k <= j
  <2> DEFINE U == {i \in S : i <= j}
  <2>1. U \subseteq S /\ j \in U
    BY <1>1
  <2>2. Rank(j, S) = Cardinality(U)
    BY DEF Rank
  <2> HIDE DEF U
  <2>3. /\ IsFiniteSet(U) /\ Cardinality(U) <= Cardinality(S) /\ Cardinality(U) \in Nat
        /\ Cardinality(S) = Cardinality(U) => S = U
    BY <1>2, <2>1, FS_Subset, FS_CardinalityType
  <2>4. Cardinality(U) # 0
    BY <2>1, <2>3, FS_EmptySet
  <2>5. S = U <=> \A k \in S : k <= j
    BY DEF U
  <2> QED BY <1>2, <2>2, <2>3, <2>4, <2>5
<1> QED BY <1>2, <1>3 DEF Ranked

\* A number beyond them comes last and leaves the places of the others.
LEMMA RankOfNext ==
    ASSUME NEW n, NEW S, Numbers(S, n), NEW k, k = n + 1
    PROVE  RankedAfter(S \cup {k}, S, k)
<1> DEFINE T == S \cup {k}
<1>1. IsFiniteSet(S)
  BY RankInSet DEF Ranked
<1>2. k \notin S /\ k \in Nat /\ \A j \in S : j <= k /\ ~(k <= j)
  BY DEF Numbers
<1>3. Cardinality(T) = Cardinality(S) + 1
  BY <1>1, <1>2, FS_AddElement
<1>4. {i \in T : i <= k} = T
  BY <1>2
<1>5. \A j \in S : {i \in T : i <= j} = {i \in S : i <= j}
  BY <1>2
<1> QED BY <1>3, <1>4, <1>5 DEF Rank, RankedAfter

\* The interfaces among the first descriptors and the endpoints of each, as the
\* next descriptor is taken in: an endpoint goes to the last interface.
LEMMA NextDescriptor ==
    ASSUME NEW c, NEW j \in Nat
    PROVE  /\ Interfaces(c, j) \subseteq 1..j
           /\ \A i \in 1..j : EndpointsOf(c, j, i) \subseteq 1..j
           /\ Interfaces(c, j + 1) = IF c.body[j + 1][2] = DT_INTERFACE
                                     THEN Interfaces(c, j) \cup {j + 1} ELSE Interfaces(c, j)
           /\ \A i \in 1..j :
                 EndpointsOf(c, j + 1, i) =
                     IF c.body[j + 1][2] = DT_ENDPOINT /\ \A k \in Interfaces(c, j) : k <= i
                     THEN EndpointsOf(c, j, i) \cup {j + 1} ELSE EndpointsOf(c, j, i)
           /\ EndpointsOf(c, j + 1, j + 1) = {}
<1> DEFINE I == Interfaces(c, j)
           J == Interfaces(c, j + 1)
<1>1. 1..(j + 1) = (1..j) \cup {j + 1} /\ j + 1 \notin 1..j
  OBVIOUS
<1>2. I \subseteq 1..j /\ J = IF c.body[j + 1][2] = DT_INTERFACE THEN I \cup {j + 1} ELSE I
  BY <1>1 DEF Interfaces
<1> HIDE DEF I, J
<1>3. \A i \in 1..j : EndpointsOf(c, j, i) \subseteq 1..j
  BY DEF EndpointsOf
<1>4. ASSUME NEW i \in 1..j
      PROVE  EndpointsOf(c, j + 1, i) =
                 IF c.body[j + 1][2] = DT_ENDPOINT /\ \A k \in I : k <= i
                 THEN EndpointsOf(c, j, i) \cup {j + 1} ELSE EndpointsOf(c, j, i)
  <2> DEFINE E(n, H, k) == /\ k \in 1..n /\ c.body[k][2] = DT_ENDPOINT /\ i < k
                           /\ \A h \in H : ~(i < h /\ h < k)
  <2>1. ASSUME NEW k
        PROVE  /\ k \in EndpointsOf(c, j, i) <=> E(j, I, k)
               /\ k \in EndpointsOf(c, j + 1, i) <=> E(j + 1, J, k)
    BY DEF EndpointsOf, I, J
  <2>2. ASSUME NEW k \in 1..j
        PROVE  E(j + 1, J, k) <=> E(j, I, k)
    <3>1. ~(j + 1 < k) /\ k \in 1..(j + 1)
      OBVIOUS
    <3>2. \A h \in J : h \in I \/ h = j + 1
      BY <1>2
    <3>3. I \subseteq J
      BY <1>2
    <3> QED BY <3>1, <3>2, <3>3
  <2>3. E(j + 1, J, j + 1) <=> c.body[j + 1][2] = DT_ENDPOINT /\ \A k \in I : k <= i
    <3>1. CASE c.body[j + 1][2] # DT_ENDPOINT
      BY <3>1
    <3>2. CASE c.body[j + 1][2] = DT_ENDPOINT
      <4>1. J = I
        BY <1>2, <3>2 DEF DT_ENDPOINT, DT_INTERFACE
      <4>2. \A h \in I : h < j + 1 /\ h \in Nat
        BY <1>2
      <4>3. \A h \in I : ~(i < h /\ h < j + 1) <=> h <= i
        BY <4>2
      <4> QED BY <3>2, <4>1, <4>3
    <3> QED BY <3>1, <3>2
  <2>4. \A k : k \in EndpointsOf(c, j + 1, i) => k \in 1..j \/ k = j + 1
    BY <1>1 DEF EndpointsOf
  <2>5. \A k : k \in EndpointsOf(c, j, i) => k \in 1..j
    BY DEF EndpointsOf
  <2> HIDE DEF E
  <2> QED BY <1>1, <2>1, <2>2, <2>3, <2>4, <2>5
<1>5. EndpointsOf(c, j + 1, j + 1) = {}
  BY DEF EndpointsOf
<1> QED BY <1>2, <1>3, <1>4, <1>5 DEF I, J

\* A setting after a descriptor that is not an endpoint of it.
LEMMA SettingStays ==
    ASSUME NEW c, NEW j \in Nat, NEW i \in 1..j, NEW s, HasSetting(s, c, j, i),
           c.body[j + 1][2] # DT_ENDPOINT \/ \E k \in Interfaces(c, j) : ~(k <= i)
    PROVE  HasSetting(s, c, j + 1, i)
<1>1. EndpointsOf(c, j + 1, i) = EndpointsOf(c, j, i)
  BY NextDescriptor
<1> QED BY <1>1 DEF HasSetting

\* The last setting gets the endpoint.
LEMMA SettingGrows ==
    ASSUME NEW c, NEW j \in Nat, NEW i \in 1..j, NEW s \in Settings, HasSetting(s, c, j, i),
           c.body[j + 1][2] = DT_ENDPOINT, \A k \in Interfaces(c, j) : k <= i,
           c.body[j + 1][3] \in Nat
    PROVE  LET r == [s EXCEPT !.endpoints = Append(@, c.body[j + 1][3])]
           IN r \in Settings /\ HasSetting(r, c, j + 1, i)
<1> DEFINE a == c.body[j + 1][3]
           e == s.endpoints
           r == [s EXCEPT !.endpoints = Append(@, a)]
           S == EndpointsOf(c, j, i)
           T == EndpointsOf(c, j + 1, i)
<1>1. e \in Seq(Nat) /\ s.number \in Nat /\ s.setting \in Nat /\ a \in Nat
  BY DEF Settings
<1>2. /\ Append(e, a) \in Seq(Nat) /\ Len(Append(e, a)) = Len(e) + 1
      /\ \A k \in 1..Len(e) : Append(e, a)[k] = e[k]
      /\ Append(e, a)[Len(e) + 1] = a
  BY <1>1, AppendProperties
<1> HIDE DEF a
<1>3. /\ r \in Settings
      /\ r.number = s.number /\ r.setting = s.setting /\ r.endpoints = Append(e, a)
  BY <1>1, <1>2 DEF Settings
<1>4. S \subseteq 1..j /\ T = S \cup {j + 1}
  BY NextDescriptor
<1>5. /\ s.number = c.body[i][3] /\ s.setting = c.body[i][4]
      /\ Len(e) = Cardinality(S) /\ \A k \in S : e[Rank(k, S)] = c.body[k][3]
  BY DEF HasSetting
<1> HIDE DEF S, T, e, r
<1>6. /\ Cardinality(S) \in Nat /\ \A k \in S : Rank(k, S) \in 1..Cardinality(S)
      /\ Cardinality(T) = Cardinality(S) + 1 /\ Rank(j + 1, T) = Cardinality(S) + 1
      /\ \A k \in S : Rank(k, T) = Rank(k, S)
  <2>1. Numbers(S, j)
    BY <1>4 DEF Numbers
  <2>2. Ranked(S) /\ RankedAfter(T, S, j + 1)
    BY <1>4, <2>1, RankInSet, RankOfNext
  <2> QED BY <2>2 DEF Ranked, RankedAfter
<1>7. \A k \in T : r.endpoints[Rank(k, T)] = c.body[k][3]
  <2>1. ASSUME NEW k \in S
        PROVE  r.endpoints[Rank(k, T)] = c.body[k][3]
    BY <1>2, <1>3, <1>5, <1>6
  <2>2. r.endpoints[Rank(j + 1, T)] = c.body[j + 1][3]
    BY <1>2, <1>3, <1>5, <1>6 DEF a
  <2> QED BY <1>4, <2>1, <2>2
<1>8. Len(r.endpoints) = Cardinality(T)
  BY <1>2, <1>3, <1>5, <1>6
<1>9. HasSetting(r, c, j + 1, i)
  BY <1>3, <1>5, <1>7, <1>8 DEF HasSetting, T
<1> QED BY <1>3, <1>9 DEF r, a

\* The descriptor is neither an interface nor an endpoint.
LEMMA OtherShown ==
    ASSUME NEW c, NEW j \in Nat, NEW t, Shows(t, c, j),
           c.body[j + 1][2] \notin {DT_INTERFACE, DT_ENDPOINT}
    PROVE  Shows(t, c, j + 1)
<1>1. Interfaces(c, j + 1) = Interfaces(c, j) /\ Interfaces(c, j) \subseteq 1..j
  BY NextDescriptor
<1>2. ASSUME NEW i \in Interfaces(c, j)
      PROVE  HasSetting(t.settings[Rank(i, Interfaces(c, j))], c, j + 1, i)
  <2>1. HasSetting(t.settings[Rank(i, Interfaces(c, j))], c, j, i)
    BY DEF Shows
  <2>2. i \in 1..j
    BY <1>1
  <2> QED BY <2>1, <2>2, SettingStays
<1> QED BY <1>1, <1>2 DEF Shows

\* The descriptor is an interface: AddSetting.
LEMMA InterfaceShown ==
    ASSUME NEW c, NEW j \in Nat, NEW t \in Objects, Shows(t, c, j),
           c.body[j + 1][2] = DT_INTERFACE,
           c.body[j + 1][3] \in Nat, c.body[j + 1][4] \in Nat
    PROVE  LET s == [number |-> c.body[j + 1][3], setting |-> c.body[j + 1][4],
                     endpoints |-> <<>>]
               u == [t EXCEPT !.settings = Append(@, s)]
           IN u \in Objects /\ Shows(u, c, j + 1)
<1> DEFINE s == [number |-> c.body[j + 1][3], setting |-> c.body[j + 1][4],
                 endpoints |-> <<>>]
           u == [t EXCEPT !.settings = Append(@, s)]
           l == t.settings
           I == Interfaces(c, j)
           J == Interfaces(c, j + 1)
<1>1. s \in Settings /\ s.endpoints = <<>>
  BY EmptySeq DEF Settings
<1>2. t.value \in Nat /\ l \in Seq(Settings)
  BY DEF Objects
<1>3. HasSetting(s, c, j + 1, j + 1)
  <2>1. EndpointsOf(c, j + 1, j + 1) = {}
    BY NextDescriptor
  <2> QED BY <2>1, FS_EmptySet, EmptySeq DEF HasSetting
<1> HIDE DEF s
<1>4. /\ Append(l, s) \in Seq(Settings) /\ Len(Append(l, s)) = Len(l) + 1
      /\ \A k \in 1..Len(l) : Append(l, s)[k] = l[k]
      /\ Append(l, s)[Len(l) + 1] = s
  BY <1>1, <1>2, AppendProperties
<1>5. u \in Objects /\ u.value = t.value /\ u.settings = Append(l, s)
  BY <1>2, <1>4 DEF Objects
<1>6. I \subseteq 1..j /\ J = I \cup {j + 1}
  BY NextDescriptor
<1>7. /\ t.value = c.value /\ Len(l) = Cardinality(I)
      /\ \A i \in I : HasSetting(l[Rank(i, I)], c, j, i)
  BY DEF Shows
<1> HIDE DEF u, l, I, J
<1>8. /\ Cardinality(I) \in Nat /\ \A k \in I : Rank(k, I) \in 1..Cardinality(I)
      /\ Cardinality(J) = Cardinality(I) + 1 /\ Rank(j + 1, J) = Cardinality(I) + 1
      /\ \A k \in I : Rank(k, J) = Rank(k, I)
  <2>1. Numbers(I, j)
    BY <1>6 DEF Numbers
  <2>2. Ranked(I) /\ RankedAfter(J, I, j + 1)
    BY <1>6, <2>1, RankInSet, RankOfNext
  <2> QED BY <2>2 DEF Ranked, RankedAfter
<1>9. \A i \in J : HasSetting(u.settings[Rank(i, J)], c, j + 1, i)
  <2>1. ASSUME NEW i \in I
        PROVE  HasSetting(u.settings[Rank(i, J)], c, j + 1, i)
    <3>1. u.settings[Rank(i, J)] = l[Rank(i, I)]
      BY <1>4, <1>5, <1>7, <1>8
    <3>2. i \in 1..j /\ c.body[j + 1][2] # DT_ENDPOINT
      BY <1>6 DEF DT_INTERFACE, DT_ENDPOINT
    <3>3. HasSetting(l[Rank(i, I)], c, j + 1, i)
      BY <1>7, <3>2, SettingStays
    <3> QED BY <3>1, <3>3
  <2>2. u.settings[Rank(j + 1, J)] = s
    BY <1>4, <1>5, <1>7, <1>8
  <2> QED BY <1>3, <1>6, <2>1, <2>2
<1>10. Shows(u, c, j + 1)
  <2>1. Len(u.settings) = Cardinality(J) /\ u.value = c.value
    BY <1>4, <1>5, <1>7, <1>8
  <2> QED BY <1>9, <2>1 DEF Shows, J
<1> QED BY <1>5, <1>10 DEF u, l, s

\* The descriptor is an endpoint: AddEndpoint.
LEMMA EndpointShown ==
    ASSUME NEW c, NEW j \in Nat, NEW t \in Objects, Shows(t, c, j),
           c.body[j + 1][2] = DT_ENDPOINT, c.body[j + 1][3] \in Nat
    PROVE  LET u == [t EXCEPT !.settings = WithEndpoint(@, Len(@), c.body[j + 1][3])]
           IN u \in Objects /\ Shows(u, c, j + 1)
<1> DEFINE a == c.body[j + 1][3]
           l == t.settings
           n == Len(l)
           Grown(s) == [s EXCEPT !.endpoints = Append(@, a)]
           m == WithEndpoint(l, n, a)
           u == [t EXCEPT !.settings = m]
           I == Interfaces(c, j)
<1>1. t.value \in Nat /\ l \in Seq(Settings) /\ n \in Nat /\ DOMAIN l = 1..n
  BY LenProperties DEF Objects
<1>2. \A i \in 1..n : l[i] \in Settings
  BY <1>1, ElementOfSeq
<1>3. I \subseteq 1..j /\ Interfaces(c, j + 1) = I
  <2>1. c.body[j + 1][2] # DT_INTERFACE
    BY DEF DT_INTERFACE, DT_ENDPOINT
  <2> QED BY <2>1, NextDescriptor
<1>4. /\ t.value = c.value /\ n = Cardinality(I)
      /\ \A i \in I : HasSetting(l[Rank(i, I)], c, j, i)
  BY DEF Shows
<1>5. \A i \in I : /\ Rank(i, I) \in 1..n
                   /\ Rank(i, I) = n <=> \A k \in I : k <= i
  <2>1. Numbers(I, j)
    BY <1>3 DEF Numbers
  <2>2. Ranked(I)
    BY <2>1, RankInSet
  <2> HIDE DEF I, n
  <2> QED BY <1>4, <2>2 DEF Ranked
<1>6. \A s \in Settings : Grown(s) \in Settings
  <2> SUFFICES ASSUME NEW s \in Settings
      PROVE  Grown(s) \in Settings
    OBVIOUS
  <2>1. s.endpoints \in Seq(Nat) /\ a \in Nat
    BY DEF Settings
  <2>2. Append(s.endpoints, a) \in Seq(Nat)
    BY <2>1, AppendProperties
  <2> QED BY <2>2 DEF Settings
<1>7. ASSUME NEW i \in 1..j, NEW s \in Settings, HasSetting(s, c, j, i),
             \A k \in I : k <= i
      PROVE  HasSetting(Grown(s), c, j + 1, i)
  BY <1>7, SettingGrows
<1>8. m = [i \in 1..n |-> IF i = n THEN Grown(l[i]) ELSE l[i]]
  BY <1>1 DEF WithEndpoint
<1> HIDE DEF Grown, I, m
<1>9. m \in Seq(Settings) /\ Len(m) = n
  <2>1. m \in [1..n -> Settings]
    BY <1>2, <1>6, <1>8
  <2>2. m \in Seq(Settings)
    BY <1>1, <2>1, SeqDef
  <2>3. DOMAIN m = 1..n /\ DOMAIN m = 1..Len(m) /\ Len(m) \in Nat
    BY <1>8, <2>2, LenProperties
  <2> HIDE DEF n
  <2> QED BY <1>1, <2>2, <2>3
<1>10. u \in Objects /\ u.value = t.value /\ u.settings = m
  BY <1>1, <1>9 DEF Objects
<1>11. ASSUME NEW i \in I
       PROVE  HasSetting(m[Rank(i, I)], c, j + 1, i)
  <2> DEFINE s == l[Rank(i, I)]
  <2> HIDE DEF n, l
  <2>1. i \in 1..j /\ Rank(i, I) \in 1..n /\ s \in Settings /\ HasSetting(s, c, j, i)
    BY <1>2, <1>3, <1>4, <1>5
  <2>2. CASE \A k \in I : k <= i
    <3>1. m[Rank(i, I)] = Grown(s)
      BY <1>5, <1>8, <2>1, <2>2
    <3> HIDE DEF s
    <3> QED BY <1>7, <2>1, <2>2, <3>1
  <2>3. CASE ~\A k \in I : k <= i
    <3>1. m[Rank(i, I)] = s
      BY <1>5, <1>8, <2>1, <2>3
    <3>2. \E k \in Interfaces(c, j) : ~(k <= i)
      BY <2>3 DEF I
    <3> HIDE DEF s
    <3> QED BY <2>1, <3>1, <3>2, SettingStays
  <2> QED BY <2>2, <2>3
<1>12. Shows(u, c, j + 1)
  BY <1>3, <1>4, <1>9, <1>10, <1>11 DEF Shows
<1> QED BY <1>10, <1>12 DEF m

-----------------------------------------------------------------------------
(* Types.                                                                  *)

\* There is a configuration to build while its body is read.
Typed == TypeOK /\ (phase = "body" => tree # <<>>)

\* A device is a list of configurations.
LEMMA Known ==
    /\ Devices \subseteq Seq(Configurations) /\ None \notin Devices
    /\ None \in Seq(Configurations)
    /\ TypeOK => opened \in Seq(Configurations) /\ device \in Seq(Configurations)
<1>1. Devices \subseteq Seq(Configurations) /\ None \notin Devices
  BY DevicesAssumption DEF Configurations
<1>2. None \in Seq(Configurations)
  BY EmptySeq DEF None
<1> QED BY <1>1, <1>2 DEF TypeOK

\* The numbers that a device can be configured to.
LEMMA ValuesKnown ==
    ASSUME NEW d \in Seq(Configurations)
    PROVE  Values(d) \subseteq Nat
<1>1. \A i \in DOMAIN d : d[i] \in Configurations
  BY LenProperties, ElementOfSeq
<1> QED BY <1>1 DEF Values, Configurations

\* What is read are bytes, at least one.
LEMMA BytesRead ==
    ASSUME TypeOK, CanRead
    PROVE  /\ Descriptor \in Seq(Nat) /\ Len(Descriptor) \in Nat \ {0}
           /\ \A i \in Nat : Field(i) \subseteq Nat
<1> DEFINE f == File(opened)
           n == Len(f)
           r == Rest
<1>1. f \in Seq(Nat) /\ n \in Nat /\ offset \in Nat
  <2>1. f \in Seq(Nat)
    BY Known, FileHolds DEF FileLaidOut, Holds
  <2> QED BY <2>1, LenProperties DEF TypeOK
<1>2. \A i \in (offset + 1)..n : f[i] \in Nat
  BY <1>1, ElementOfSeq
<1>3. r \in Seq(Nat)
  <2>1. r = SubSeq(f, offset + 1, n)
    BY DEF Rest
  <2> HIDE DEF f, n, r
  <2> QED BY <1>1, <1>2, <2>1, SubSeqProperties
<1> HIDE DEF f, n, r
<1>4. Len(r) \in Nat /\ r # <<>> /\ Len(r) # 0
  BY <1>3, LenProperties, EmptySeq DEF CanRead, r
<1>5. r[1] \in Nat /\ r[1] # 0 /\ r[1] <= Len(r)
  <2>1. 1 \in 1..Len(r)
    BY <1>4
  <2> QED BY <1>3, <2>1, ElementOfSeq DEF CanRead, r
<1>6. \A i \in 1..r[1] : r[i] \in Nat
  BY <1>3, <1>4, <1>5, ElementOfSeq
<1>7. Descriptor \in Seq(Nat) /\ Len(Descriptor) = r[1]
  <2>1. Descriptor = SubSeq(r, 1, r[1])
    BY DEF Descriptor, r
  <2>2. /\ SubSeq(r, 1, r[1]) \in Seq(Nat)
        /\ Len(SubSeq(r, 1, r[1])) = IF 1 <= r[1] THEN r[1] - 1 + 1 ELSE 0
    BY <1>5, <1>6, SubSeqProperties
  <2> QED BY <1>5, <2>1, <2>2
<1>8. ASSUME NEW i \in Nat
      PROVE  Field(i) \subseteq Nat
  <2>1. \A k \in DOMAIN Descriptor : Descriptor[k] \in Nat
    BY <1>7, LenProperties, ElementOfSeq
  <2> QED BY <2>1, DevicesAssumption DEF Field
<1> QED BY <1>5, <1>7, <1>8

\* One object of a list is replaced.
LEMMA ReplaceLast ==
    ASSUME NEW l \in Seq(Objects), l # <<>>, NEW o \in Objects
    PROVE  LET u == [l EXCEPT ![Len(l)] = o] IN
           /\ u \in Seq(Objects) /\ u # <<>> /\ Len(u) = Len(l) /\ Len(l) \in Nat \ {0}
           /\ u[Len(l)] = o /\ \A i \in 1..(Len(l) - 1) : u[i] = l[i]
<1> DEFINE n == Len(l)
           u == [l EXCEPT ![n] = o]
<1>1. n \in Nat /\ l \in [1..n -> Objects] /\ n # 0
  BY LenProperties, EmptySeq
<1> HIDE DEF n
<1>2. u \in [1..n -> Objects] /\ u[n] = o /\ \A i \in 1..(n - 1) : u[i] = l[i]
  BY <1>1
<1> HIDE DEF u
<1>3. u \in Seq(Objects)
  BY <1>1, <1>2, SeqDef
<1>4. Len(u) = n
  <2>1. DOMAIN u = 1..n /\ DOMAIN u = 1..Len(u) /\ Len(u) \in Nat
    BY <1>2, <1>3, LenProperties
  <2> QED BY <1>1, <2>1
<1>5. u # <<>>
  BY <1>1, <1>4, EmptySeq
<1> QED BY <1>1, <1>2, <1>3, <1>4, <1>5 DEF n, u

\* What an interface descriptor and an endpoint descriptor make of an object.
WithSetting(t, n, s) ==
    [t EXCEPT !.settings = Append(@, [number |-> n, setting |-> s, endpoints |-> <<>>])]
GrownObject(t, a) == [t EXCEPT !.settings = WithEndpoint(@, Len(@), a)]

\* They leave it an object.
LEMMA ObjectsGrow ==
    ASSUME NEW t \in Objects, NEW n \in Nat, NEW s \in Nat
    PROVE  WithSetting(t, n, s) \in Objects /\ GrownObject(t, n) \in Objects
<1> DEFINE l == t.settings
           e == [number |-> n, setting |-> s, endpoints |-> <<>>]
           w == WithEndpoint(l, Len(l), n)
<1>1. t.value \in Nat /\ l \in Seq(Settings) /\ e \in Settings
  BY EmptySeq DEF Objects, Settings
<1>2. Append(l, e) \in Seq(Settings)
  BY <1>1, AppendProperties
<1>3. w \in Seq(Settings)
  <2>1. Len(l) \in Nat /\ DOMAIN l = 1..Len(l) /\ \A i \in 1..Len(l) : l[i] \in Settings
    BY <1>1, LenProperties, ElementOfSeq
  <2>2. \A r \in Settings : [r EXCEPT !.endpoints = Append(@, n)] \in Settings
    <3> SUFFICES ASSUME NEW r \in Settings
        PROVE  [r EXCEPT !.endpoints = Append(@, n)] \in Settings
      OBVIOUS
    <3>1. r.endpoints \in Seq(Nat)
      BY DEF Settings
    <3>2. Append(r.endpoints, n) \in Seq(Nat)
      BY <3>1, AppendProperties
    <3> QED BY <3>2 DEF Settings
  <2>3. w \in [1..Len(l) -> Settings]
    <3> HIDE DEF l
    <3> QED BY <2>1, <2>2 DEF WithEndpoint
  <2> HIDE DEF w
  <2> QED BY <2>1, <2>3, SeqDef
<1> HIDE DEF w, e
<1>4. WithSetting(t, n, s) \in Objects
  BY <1>1, <1>2 DEF WithSetting, Objects, e
<1>5. GrownObject(t, n) \in Objects
  BY <1>1, <1>3 DEF GrownObject, Objects, w
<1> QED BY <1>4, <1>5

\* AddSetting changes the object built last.
LEMMA SettingAdded ==
    ASSUME TypeOK, tree # <<>>, NEW n, NEW s, AddSetting(n, s)
    PROVE  tree' = [tree EXCEPT ![Len(tree)] = WithSetting(tree[Len(tree)], n, s)]
BY DEF AddSetting, WithSetting

\* AddEndpoint changes the object built last.
LEMMA EndpointAdded ==
    ASSUME TypeOK, tree # <<>>, NEW a, AddEndpoint(a)
    PROVE  tree' = [tree EXCEPT ![Len(tree)] = GrownObject(tree[Len(tree)], a)]
BY DEF AddEndpoint, GrownObject

\* The initial state.
LEMMA TypedInit ==
    ASSUME Init
    PROVE  Typed
<1>1. device \in Seq(Configurations) /\ device \in Devices
  BY Known DEF Init
<1>2. configured \in Nat
  BY <1>1, ValuesKnown DEF Init
<1>3. <<>> \in Seq(Objects)
  BY EmptySeq
<1>4. MaxChanges \in Nat
  BY DevicesAssumption
<1> QED BY <1>1, <1>2, <1>3, <1>4
        DEF Init, Typed, TypeOK, Objects, Settings, Unset

\* Every step keeps the types.
LEMMA TypedStep ==
    ASSUME Typed, [Next]_vars
    PROVE  Typed'
<1>1. /\ device \in Devices \cup {None} /\ opened \in Devices \cup {None}
      /\ configured \in Nat /\ offset \in Nat /\ changes \in 0..MaxChanges /\ lost \in BOOLEAN
      /\ phase \in {"idle", "device", "described", "header", "body", "built", "asked", "attached",
                   "failed", "refused"}
      /\ number \in Int /\ active \in Nat /\ answered \in Int /\ end \in Int
      /\ tree \in Seq(Objects) /\ (phase = "body" => tree # <<>>) /\ TypeOK
  BY DEF Typed, TypeOK, Objects, Settings
<1>2. MaxChanges \in Nat /\ <<>> \in Seq(Objects)
  BY DevicesAssumption, EmptySeq
<1>3. SUFFICES
        /\ device' \in Devices \cup {None} /\ opened' \in Devices \cup {None}
        /\ configured' \in Nat /\ offset' \in Nat /\ changes' \in 0..MaxChanges /\ lost' \in BOOLEAN
        /\ phase' \in {"idle", "device", "described", "header", "body", "built", "asked", "attached",
                      "failed", "refused"}
        /\ number' \in Int /\ active' \in Nat /\ answered' \in Int /\ end' \in Int
        /\ tree' \in Seq(Objects) /\ (phase' = "body" => tree' # <<>>)
  BY DEF Typed, TypeOK, Objects, Settings
<1>4. CASE UNCHANGED vars
  BY <1>1, <1>4 DEF vars, bus
<1>5. CASE Unplug \/ Plug \/ SetConfiguration
  <2>1. configured' \in Nat /\ device' \in Devices \cup {None}
    <3>1. CASE Unplug
      BY <1>1, <3>1 DEF Unplug
    <3>2. CASE Plug
      <4>1. device' \in Devices /\ configured' \in {0} \cup Values(device')
        BY <3>2 DEF Plug
      <4>2. Values(device') \subseteq Nat
        BY <4>1, Known, ValuesKnown
      <4> QED BY <4>1, <4>2
    <3>3. CASE SetConfiguration
      <4>1. configured' \in {0} \cup Values(device) /\ device' = device
        BY <3>3 DEF SetConfiguration
      <4>2. Values(device) \subseteq Nat
        BY <1>1, Known, ValuesKnown
      <4> QED BY <1>1, <4>1, <4>2
    <3> QED BY <1>5, <3>1, <3>2, <3>3
  <2>2. changes' \in 0..MaxChanges /\ Change
    BY <1>1, <1>2, <1>5 DEF Unplug, Plug, SetConfiguration, Change
  <2>3. lost' \in BOOLEAN
    BY <1>1, <1>5 DEF Unplug, Plug, SetConfiguration
  <2> QED BY <1>1, <2>1, <2>2, <2>3 DEF Change
<1>6. CASE Open
  <2>1. device' = device /\ configured' = configured /\ changes' = changes
    BY <1>6 DEF Open, bus
  <2>2. opened' \in Devices \cup {None} /\ lost' \in BOOLEAN /\ phase' = "device"
    BY <1>1, <1>6 DEF Open
  <2>3. answered' \in Int
    <3>1. Unset \in Int
      BY DEF Unset
    <3> QED BY <1>6, <3>1 DEF Open
  <2>4. offset' = 0 /\ number' = 0 /\ active' = 0 /\ end' = 0
    BY <1>6 DEF Open
  <2>5. tree' \in Seq(Objects)
    BY <1>2, <1>6 DEF Open
  <2> QED BY <1>1, <2>1, <2>2, <2>3, <2>4, <2>5
<1>7. CASE BuildDevice
  <2>1. offset' \in Nat
    BY <1>1, <1>7, BytesRead DEF BuildDevice, Read
  <2> QED BY <1>1, <1>7, <2>1 DEF BuildDevice, bus
<1>8. CASE BuildConfig
  <2>1. /\ offset' \in Nat /\ Len(Descriptor) \in Nat /\ \A i \in Nat : Field(i) \subseteq Nat
    BY <1>1, <1>8, BytesRead DEF BuildConfig, Read
  <2>2. PICK total \in Field(3), value \in Field(4) :
           /\ end' = total - Len(Descriptor)
           /\ tree' = Append(tree, [value |-> value, settings |-> <<>>])
    BY <1>8 DEF BuildConfig
  <2>3. total \in Nat /\ value \in Nat
    BY <2>1
  <2>4. [value |-> value, settings |-> <<>>] \in Objects
    BY <2>3, EmptySeq DEF Objects
  <2>5. tree' \in Seq(Objects) /\ tree' # <<>>
    BY <1>1, <2>2, <2>4, AppendElements
  <2>6. end' \in Int
    BY <2>1, <2>2, <2>3
  <2> QED BY <1>1, <1>8, <2>1, <2>5, <2>6 DEF BuildConfig, bus
<1>9. CASE BuildNext
  <2>1. /\ offset' \in Nat /\ Len(Descriptor) \in Nat /\ \A i \in Nat : Field(i) \subseteq Nat
    BY <1>1, <1>9, BytesRead DEF BuildNext, Read
  <2>2. end' \in Int
    BY <1>1, <1>9, <2>1 DEF BuildNext
  <2>3. tree # <<>>
    BY <1>1, <1>9 DEF BuildNext
  <2>4. tree[Len(tree)] \in Objects
    <3>1. Len(tree) \in 1..Len(tree)
      BY <1>1, <2>3, LenProperties, EmptySeq
    <3> QED BY <1>1, <3>1, ElementOfSeq
  <2>5. tree' \in Seq(Objects) /\ tree' # <<>>
    <3>1. CASE \E n \in Field(3), s \in Field(4) : AddSetting(n, s)
      <4>1. PICK n \in Nat, s \in Nat : AddSetting(n, s)
        BY <2>1, <3>1
      <4>2. tree' = [tree EXCEPT ![Len(tree)] = WithSetting(tree[Len(tree)], n, s)]
        BY <1>1, <2>3, <4>1, SettingAdded
      <4> QED BY <1>1, <2>3, <2>4, <4>2, ObjectsGrow, ReplaceLast
    <3>2. CASE \E a \in Field(3) : AddEndpoint(a)
      <4>1. PICK a \in Nat : AddEndpoint(a)
        BY <2>1, <3>2
      <4>2. tree' = [tree EXCEPT ![Len(tree)] = GrownObject(tree[Len(tree)], a)]
        BY <1>1, <2>3, <4>1, EndpointAdded
      <4> QED BY <1>1, <2>3, <2>4, <4>2, ObjectsGrow, ReplaceLast
    <3>3. CASE UNCHANGED tree
      BY <1>1, <2>3, <3>3
    <3> QED BY <1>9, <3>1, <3>2, <3>3 DEF BuildNext
  <2> QED BY <1>1, <1>9, <2>1, <2>2, <2>5 DEF BuildNext, bus
<1>10. CASE ConnectInfo \/ ConfigDone \/ DeviceDone \/ BuildFails \/ OpenFails \/ IoctlFails
  BY <1>1, <1>10 DEF ConnectInfo, ConfigDone, DeviceDone, BuildFails, OpenFails, IoctlFails,
                     GiveUp, bus
<1>11. CASE AskDevice \/ AskFails \/ AskGone
  <2>1. number' \in Int /\ answered' \in Int
    BY <1>1, <1>11 DEF AskDevice, AskFails, AskGone, GetActiveConfig
  <2> QED BY <1>1, <1>11, <2>1 DEF AskDevice, AskFails, AskGone, bus
<1>12. CASE SetActive
  <2>1. Chosen \subseteq Nat
    <3>1. CASE Len(tree) = 1
      <4>1. tree[1] \in Objects
        <5>1. 1 \in 1..Len(tree)
          BY <3>1
        <5> QED BY <1>1, <5>1, ElementOfSeq
      <4>2. tree[1].value \in Nat
        BY <4>1 DEF Objects
      <4> QED BY <1>1, <4>2 DEF Chosen
    <3>2. CASE Len(tree) # 1
      BY <1>1, <3>2 DEF Chosen
    <3> QED BY <3>1, <3>2
  <2>2. active' \in Nat
    BY <1>12, <2>1 DEF SetActive
  <2> QED BY <1>1, <1>12, <2>2 DEF SetActive, bus
<1> QED BY <1>4, <1>5, <1>6, <1>7, <1>8, <1>9, <1>10, <1>11, <1>12 DEF Next

\* Every variable keeps its type, whatever devices there are.
THEOREM DeviceSetupTypes == Spec => []TypeOK
<1>1. Init => Typed
  BY TypedInit
<1>2. Typed /\ [Next]_vars => Typed'
  BY TypedStep
<1>3. Typed => TypeOK
  BY DEF Typed
<1> QED BY <1>1, <1>2, <1>3, PTL DEF Spec

-----------------------------------------------------------------------------
(* The device and what it answers.                                         *)

\* As long as the file is that of the device with the address, that device is the
\* one that was opened, and it is configured to a value of its own or to none.
StillThere ==
    /\ ~lost => device = opened /\ opened # None
    /\ configured \in {0} \cup Values(device)

\* What the opened device has answered is a value of its own, and the number that
\* setActiveConfigAndInterfaceSettings() gets.
Answers ==
    /\ phase \in {"idle", "device", "described", "header", "body", "built", "failed"} =>
          answered = Unset
    /\ answered > 0 => answered \in Values(opened)
    /\ phase = "asked" /\ answered > 0 => number = answered

\* Every step keeps the opened device the one with the address, or lost.
LEMMA StillThereStep ==
    ASSUME StillThere, [Next]_vars
    PROVE  StillThere'
<1> USE DEF StillThere
<1>1. CASE UNCHANGED vars
  BY <1>1 DEF vars, bus
<1>2. CASE Unplug
  BY <1>2 DEF Unplug
<1>3. CASE Plug
  BY <1>3 DEF Plug, Change
<1>4. CASE SetConfiguration
  BY <1>4 DEF SetConfiguration, Change
<1>5. CASE Open
  BY <1>5 DEF Open, bus
<1>6. CASE BuildDevice \/ ConnectInfo \/ BuildConfig \/ BuildNext \/ ConfigDone \/ DeviceDone
  BY <1>6 DEF BuildDevice, ConnectInfo, BuildConfig, BuildNext, ConfigDone, DeviceDone, bus
<1>7. CASE \/ BuildFails \/ OpenFails \/ IoctlFails
           \/ AskDevice \/ AskFails \/ AskGone \/ SetActive
  BY <1>7 DEF BuildFails, OpenFails, IoctlFails, GiveUp, AskDevice, AskFails, AskGone, SetActive, bus
<1> QED BY <1>1, <1>2, <1>3, <1>4, <1>5, <1>6, <1>7 DEF Next

\* Every step keeps an answer one of the opened device.
LEMMA AnswersStep ==
    ASSUME Typed, StillThere, Answers, [Next]_vars
    PROVE  Answers'
<1> USE DEF Answers
<1>1. CASE UNCHANGED vars
  BY <1>1 DEF vars
<1>2. CASE Unplug \/ Plug \/ SetConfiguration
  BY <1>2 DEF Unplug, Plug, SetConfiguration, Change
<1>3. CASE Open
  BY <1>3 DEF Open, Unset
<1>4. CASE BuildDevice \/ ConnectInfo \/ BuildConfig \/ BuildNext \/ ConfigDone \/ DeviceDone
  BY <1>4 DEF BuildDevice, ConnectInfo, BuildConfig, BuildNext, ConfigDone, DeviceDone
<1>5. CASE BuildFails \/ OpenFails \/ IoctlFails
  <2>1. BuildFails => phase \in {"device", "header", "body"}
    BY DEF BuildFails
  <2> QED BY <1>5, <2>1 DEF BuildFails, OpenFails, IoctlFails, GiveUp
<1>6. CASE AskDevice
  <2>1. configured \in Nat /\ (lost \/ device = opened) /\ configured \in {0} \cup Values(device)
    BY DEF Typed, TypeOK, StillThere
  <2>2. /\ phase = "built" /\ phase' = "asked" /\ opened' = opened
        /\ number' = configured /\ answered' = IF lost THEN answered ELSE configured
    BY <1>6, <2>1 DEF AskDevice, GetActiveConfig
  <2> QED BY <2>1, <2>2 DEF Unset
<1>7. CASE AskFails \/ AskGone
  BY <1>7 DEF AskFails, AskGone, Unset
<1>8. CASE SetActive
  BY <1>8 DEF SetActive
<1> QED BY <1>1, <1>2, <1>3, <1>4, <1>5, <1>6, <1>7, <1>8 DEF Next

-----------------------------------------------------------------------------
(* What build_device() has read and built.                                 *)

\* The first m configurations have their objects.
ConfsShown(m) == \A i \in 1..m : Shows(tree[i], opened[i], Len(opened[i].body))

\* j descriptors of the configuration that is being built have been read.
BodyRead(j) ==
    LET n == Len(tree)  c == opened[n] IN
    /\ j \in 0..Len(c.body)
    /\ offset = 3 + ConfEnd(opened)[n - 1] + 4 + BodyEnd(c)[j]
    /\ end = BodyEnd(c)[Len(c.body)] - BodyEnd(c)[j]
    /\ Shows(tree[n], c, j)

\* Where build_device() is in the file, and what it has built by then, when the
\* descriptors are well formed.
Parser ==
    WellFormed(opened) =>
        /\ phase = "device" => offset = 0 /\ tree = <<>>
        /\ phase = "described" => tree = <<>> /\ offset = 3 + ConfEnd(opened)[0]
        /\ phase = "header" => /\ Len(tree) <= Len(opened)
                               /\ ConfsShown(Len(tree))
                               /\ offset = 3 + ConfEnd(opened)[Len(tree)]
        /\ phase = "body" => /\ Len(tree) \in 1..Len(opened)
                             /\ ConfsShown(Len(tree) - 1)
                             /\ \E j \in Nat : BodyRead(j)
        /\ phase \in {"built", "asked", "attached"} => /\ Len(tree) = Len(opened)
                                                       /\ ConfsShown(Len(tree))
        /\ phase = "failed" => lost

\* The ends of the descriptors of a configuration.
EndsOfBody(c) ==
    /\ Len(c.body) \in Nat /\ c.body \in Seq(Seq(Nat))
    /\ BodyEnd(c) \in [0..Len(c.body) -> Nat]
    /\ BodyEnd(c)[0] = 0
    /\ \A j \in 1..Len(c.body) : /\ BodyEnd(c)[j] = BodyEnd(c)[j - 1] + Len(c.body[j])
                                 /\ BodyEnd(c)[j] <= BodyEnd(c)[Len(c.body)]

\* They are where one descriptor behind the other ends.
LEMMA BodyEnds ==
    ASSUME NEW c \in Configurations
    PROVE  EndsOfBody(c)
<1> DEFINE n == Len(c.body)
           at == BodyEnd(c)
<1>1. c.body \in Seq(Seq(Nat))
  BY DEF Configurations
<1>2. LaidOut(FlattenSeq(c.body), at, c.body, Nat)
  BY <1>1, FlattenLayout DEF BodyEnd
<1>3. n \in Nat
  BY <1>1, LenProperties
<1>4. at \in [0..n -> Nat] /\ at[0] = 0
  BY <1>2 DEF LaidOut
<1>5. \A j \in 1..n : at[j] = at[j - 1] + Len(c.body[j]) /\ at[j] <= at[n]
  BY <1>2 DEF LaidOut
<1> QED BY <1>1, <1>3, <1>4, <1>5 DEF EndsOfBody

\* The object of a configuration without descriptors has no interface settings.
LEMMA NothingRead ==
    ASSUME NEW c
    PROVE  Shows([value |-> c.value, settings |-> <<>>], c, 0)
<1>1. Interfaces(c, 0) = {}
  BY DEF Interfaces
<1> QED BY <1>1, FS_EmptySet, EmptySeq DEF Shows

\* What is needed of one descriptor.
GoodBytes(b) ==
    /\ b \in Seq(Nat) /\ Len(b) \in Nat /\ Len(b) >= 2 /\ b[1] = Len(b)
    /\ b[2] \notin {DT_DEVICE, DT_CONFIG}
    /\ b[2] = DT_INTERFACE => Len(b) >= 4 /\ b[3] \in Nat /\ b[4] \in Nat
    /\ b[2] = DT_ENDPOINT => Len(b) >= 3 /\ b[3] \in Nat

\* A well formed device has only such descriptors.
LEMMA GoodDescriptor ==
    ASSUME NEW d \in Seq(Configurations), WellFormed(d),
           NEW i \in 1..Len(d), NEW j \in 1..Len(d[i].body)
    PROVE  GoodBytes(d[i].body[j])
<1> DEFINE c == d[i]
           b == c.body[j]
<1>1. c \in Configurations /\ DOMAIN d = 1..Len(d)
  BY LenProperties, ElementOfSeq
<1>2. c.body \in Seq(Seq(Nat)) /\ DOMAIN c.body = 1..Len(c.body)
  BY <1>1, LenProperties DEF Configurations
<1>3. b \in Seq(Nat)
  BY <1>2, ElementOfSeq
<1>4. Len(b) \in Nat /\ \A k \in 1..Len(b) : b[k] \in Nat
  BY <1>3, LenProperties, ElementOfSeq
<1>5. /\ Len(b) >= 2 /\ b[1] = Len(b)
      /\ b[2] \notin {DT_DEVICE, DT_CONFIG}
      /\ b[2] = DT_INTERFACE => Len(b) >= 4
      /\ b[2] = DT_ENDPOINT => Len(b) >= 3
  BY <1>1, <1>2 DEF WellFormed
<1> HIDE DEF b
<1>6. Len(b) >= 3 => 3 \in 1..Len(b)
  BY <1>4
<1>7. Len(b) >= 4 => 3 \in 1..Len(b) /\ 4 \in 1..Len(b)
  BY <1>4
<1>8. GoodBytes(b)
  BY <1>3, <1>4, <1>5, <1>6, <1>7 DEF GoodBytes
<1> QED BY <1>8 DEF b

\* The next descriptor is at the offset, and the parser reads it.
LEMMA NextIsRead ==
    ASSUME Typed, Parser, WellFormed(opened), phase = "body", end > 0
    PROVE  LET n == Len(tree)  c == opened[n] IN
           \E j \in Nat : /\ BodyRead(j) /\ j + 1 \in 1..Len(c.body)
                          /\ GoodBytes(c.body[j + 1])
                          /\ Descriptor = c.body[j + 1] /\ (CanRead <=> ~lost)
<1> DEFINE n == Len(tree)
           c == opened[n]
           m == Len(c.body)
           o == 3 + ConfEnd(opened)[n - 1]
<1>1. opened \in Seq(Configurations)
  BY Known DEF Typed
<1>2. n \in 1..Len(opened) /\ \E j \in Nat : BodyRead(j)
  BY DEF Parser
<1>3. c \in Configurations
  BY <1>1, <1>2, ElementOfSeq
<1>4. EndsOfBody(c)
  BY <1>3, BodyEnds
<1>5. PICK j \in Nat : BodyRead(j)
  BY <1>2
<1>6. /\ j \in 0..m /\ offset = o + 4 + BodyEnd(c)[j]
      /\ end = BodyEnd(c)[m] - BodyEnd(c)[j]
  BY <1>5 DEF BodyRead
<1>7. m \in Nat /\ BodyEnd(c) \in [0..m -> Nat]
  BY <1>4 DEF EndsOfBody
<1> HIDE DEF m, o
<1>8. j # m
  <2> SUFFICES ASSUME j = m
      PROVE  FALSE
    OBVIOUS
  <2>1. BodyEnd(c)[m] \in Nat
    BY <1>7
  <2>2. end = 0
    BY <1>6, <2>1
  <2> QED BY <2>2
<1>9. j + 1 \in 1..m /\ (j + 1) - 1 = j
  BY <1>6, <1>7, <1>8
<1> DEFINE b == c.body[j + 1]
<1>10. GoodBytes(b)
  BY <1>1, <1>2, <1>9, GoodDescriptor DEF m
<1>11. Holds(File(opened), offset, b)
  <2>1. HoldsConf(File(opened), o, c)
    BY <1>1, <1>2, FileHolds DEF FileLaidOut, o
  <2>2. Holds(File(opened), o + 4 + BodyEnd(c)[(j + 1) - 1], b)
    BY <1>9, <2>1 DEF HoldsConf, m
  <2> QED BY <1>6, <1>9, <2>2
<1>12. Descriptor = b /\ (CanRead <=> ~lost)
  <2>1. b \in Seq(Nat) /\ Len(b) > 0 /\ b[1] = Len(b)
    BY <1>10 DEF GoodBytes
  <2> HIDE DEF b
  <2> QED BY <1>11, <2>1, ReadsIt
<1> QED BY <1>5, <1>9, <1>10, <1>12 DEF m

\* At the end of a configuration, all of it was read.
LEMMA AllIsRead ==
    ASSUME Typed, Parser, WellFormed(opened), phase = "body", ~(end > 0)
    PROVE  LET n == Len(tree)  c == opened[n] IN BodyRead(Len(c.body))
<1> DEFINE n == Len(tree)
           c == opened[n]
           m == Len(c.body)
<1>1. opened \in Seq(Configurations)
  BY Known DEF Typed
<1>2. n \in 1..Len(opened) /\ \E j \in Nat : BodyRead(j)
  BY DEF Parser
<1>3. c \in Configurations
  BY <1>1, <1>2, ElementOfSeq
<1>4. EndsOfBody(c)
  BY <1>3, BodyEnds
<1>5. PICK j \in Nat : BodyRead(j)
  BY <1>2
<1>6. j \in 0..m /\ end = BodyEnd(c)[m] - BodyEnd(c)[j]
  BY <1>5 DEF BodyRead
<1>7. /\ m \in Nat /\ BodyEnd(c) \in [0..m -> Nat]
      /\ \A k \in 1..m : /\ BodyEnd(c)[k] = BodyEnd(c)[k - 1] + Len(c.body[k])
                         /\ BodyEnd(c)[k] <= BodyEnd(c)[m]
  BY <1>4 DEF EndsOfBody
<1>8. j = m
  <2> SUFFICES ASSUME j # m
      PROVE  FALSE
    OBVIOUS
  <2> DEFINE b == c.body[j + 1]
  <2> HIDE DEF m
  <2>1. j + 1 \in 1..m /\ (j + 1) - 1 = j
    BY <1>6, <1>7
  <2>2. Len(b) \in Nat /\ Len(b) >= 2
    BY <1>1, <1>2, <2>1, GoodDescriptor DEF m, GoodBytes
  <2>3. BodyEnd(c)[j + 1] = BodyEnd(c)[j] + Len(b) /\ BodyEnd(c)[j + 1] <= BodyEnd(c)[m]
    BY <1>7, <2>1
  <2>4. BodyEnd(c)[j] \in Nat /\ BodyEnd(c)[m] \in Nat
    BY <1>6, <1>7
  <2> HIDE DEF b, c
  <2> QED BY <1>6, <2>2, <2>3, <2>4
<1> QED BY <1>5, <1>8

\* A step that opens and builds nothing leaves what was read as it is.
LEMMA ParserFrame ==
    ASSUME Parser, phase' = phase, opened' = opened, offset' = offset, end' = end, tree' = tree,
           lost => lost'
    PROVE  Parser'
<1>1. \A m : ConfsShown(m) => ConfsShown(m)'
  BY DEF ConfsShown
<1>2. \A j \in Nat : BodyRead(j) => BodyRead(j)'
  BY DEF BodyRead
<1> QED BY <1>1, <1>2 DEF Parser

\* A step that goes on with what was built.
LEMMA ParserKeeps ==
    ASSUME Parser, opened' = opened, tree' = tree,
           phase \in {"built", "asked", "attached"}, phase' \in {"asked", "attached"}
    PROVE  Parser'
<1>1. \A m : ConfsShown(m) => ConfsShown(m)'
  BY DEF ConfsShown
<1> QED BY <1>1 DEF Parser

\* The device descriptor is read.
LEMMA BuildDeviceParser ==
    ASSUME Typed, Parser, BuildDevice
    PROVE  Parser'
<1> DEFINE b == DeviceDescriptor(opened)
<1>1. opened \in Seq(Configurations) /\ Len(opened) \in Nat
  BY Known, LenProperties DEF Typed
<1>2. /\ phase = "device" /\ phase' = "described" /\ opened' = opened /\ tree' = tree
      /\ offset' = offset + Len(Descriptor)
  BY DEF BuildDevice, Read
<1>3. SUFFICES ASSUME WellFormed(opened)
      PROVE  tree = <<>> /\ offset' = 3 + ConfEnd(opened)[0]
  BY <1>2 DEF Parser
<1>4. offset = 0 /\ tree = <<>>
  BY <1>2, <1>3 DEF Parser
<1>5. Holds(File(opened), offset, b) /\ ConfEnd(opened)[0] = 0
  BY <1>1, <1>4, FileHolds DEF FileLaidOut
<1>6. b \in Seq(Nat) /\ Len(b) = 3 /\ b[1] = 3
  BY <1>1 DEF DeviceDescriptor, DT_DEVICE
<1> HIDE DEF b
<1>7. Descriptor = b
  <2>1. Len(b) > 0 /\ b[1] = Len(b)
    BY <1>6
  <2> QED BY <1>5, <1>6, <2>1, ReadsIt
<1>8. offset' = 3 + ConfEnd(opened)[0]
  <2>1. offset' = 0 + 3
    BY <1>2, <1>4, <1>6, <1>7
  <2> QED BY <1>5, <2>1
<1> QED BY <1>4, <1>8

\* Both ioctls are answered: no configuration has been read yet.
LEMMA ConnectInfoParser ==
    ASSUME Typed, Parser, ConnectInfo
    PROVE  Parser'
<1>1. opened \in Seq(Configurations) /\ Len(opened) \in Nat
  BY Known, LenProperties DEF Typed
<1>2. /\ phase = "described" /\ phase' = "header" /\ opened' = opened /\ tree' = tree
      /\ offset' = offset
  BY DEF ConnectInfo
<1>3. SUFFICES ASSUME WellFormed(opened)
      PROVE  /\ Len(tree) <= Len(opened) /\ ConfsShown(Len(tree))'
             /\ offset = 3 + ConfEnd(opened)[Len(tree)]
  BY <1>2 DEF Parser
<1>4. tree = <<>> /\ offset = 3 + ConfEnd(opened)[0]
  BY <1>2, <1>3 DEF Parser
<1>5. Len(tree) = 0 /\ Len(tree') = 0
  BY <1>2, <1>4, EmptySeq
<1>6. ConfsShown(Len(tree))'
  BY <1>5 DEF ConfsShown
<1> QED BY <1>1, <1>4, <1>5, <1>6

\* The header of a configuration is read, and its object begun.
LEMMA BuildConfigParser ==
    ASSUME Typed, Parser, BuildConfig
    PROVE  Parser'
<1> DEFINE n == Len(tree)
           c == opened[n + 1]
           h == Header(c)
           m == Len(c.body)
           o == 3 + ConfEnd(opened)[n]
           t == [value |-> c.value, settings |-> <<>>]
<1>1. opened \in Seq(Configurations) /\ Len(opened) \in Nat /\ tree \in Seq(Objects)
  BY Known, LenProperties DEF Typed, TypeOK, Objects, Settings
<1>2. /\ phase = "header" /\ phase' = "body" /\ opened' = opened
      /\ Len(tree) < Len(opened) /\ offset' = offset + Len(Descriptor)
  BY DEF BuildConfig, Read
<1>3. n \in Nat /\ n + 1 \in 1..Len(opened) /\ (n + 1) - 1 = n
  BY <1>1, <1>2, LenProperties
<1>4. SUFFICES ASSUME WellFormed(opened)
      PROVE  /\ Len(tree') \in 1..Len(opened) /\ ConfsShown(Len(tree) - 1)'
             /\ \E j \in Nat : BodyRead(j)'
  BY <1>2 DEF Parser
<1>5. offset = o /\ ConfsShown(n)
  BY <1>2, <1>4 DEF Parser
<1>6. c \in Configurations
  BY <1>1, <1>3, ElementOfSeq
<1>7. HoldsConf(File(opened), o, c)
  BY <1>1, <1>3, FileHolds DEF FileLaidOut
<1>8. h \in Seq(Nat) /\ Len(h) = 4 /\ h[3] = 4 + BodyEnd(c)[m]
  BY <1>6, ConfHolds
<1>9. h[1] = 4 /\ h[4] = c.value
  BY DEF Header
<1>10. Holds(File(opened), offset, h)
  BY <1>5, <1>7 DEF HoldsConf
<1>11. BodyEnd(c)[0] = 0 /\ BodyEnd(c)[m] \in Nat /\ m \in Nat
  <2>1. EndsOfBody(c)
    BY <1>6, BodyEnds
  <2>2. m \in 0..m
    BY <2>1 DEF EndsOfBody
  <2> QED BY <2>1, <2>2 DEF EndsOfBody
<1> HIDE DEF h, m
<1>12. Descriptor = h
  <2>1. Len(h) > 0 /\ h[1] = Len(h)
    BY <1>8, <1>9
  <2> QED BY <1>8, <1>10, <2>1, ReadsIt
<1>13. Field(3) = {h[3]} /\ Field(4) = {h[4]}
  <2>1. DOMAIN h = 1..4
    BY <1>8, LenProperties
  <2> QED BY <1>12, <2>1 DEF Field
<1>14. end' = h[3] - Len(h) /\ tree' = Append(tree, [value |-> h[4], settings |-> <<>>])
  BY <1>12, <1>13 DEF BuildConfig
<1>15. end' = BodyEnd(c)[m]
  BY <1>8, <1>11, <1>14
<1>16. t \in Objects /\ Shows(t, c, 0)
  <2>1. c.value \in Nat
    BY <1>6 DEF Configurations
  <2> QED BY <2>1, NothingRead, EmptySeq DEF Objects
<1>17. tree' = Append(tree, t)
  BY <1>9, <1>14
<1> HIDE DEF t
<1>18. /\ Len(tree') = n + 1 /\ tree'[n + 1] = t
       /\ \A i \in 1..n : tree'[i] = tree[i]
  BY <1>1, <1>16, <1>17, AppendProperties
<1> HIDE DEF n
<1>19. ConfsShown(Len(tree) - 1)'
  <2>1. Len(tree') - 1 = n
    BY <1>3, <1>18
  <2> QED BY <1>2, <1>5, <1>18, <2>1 DEF ConfsShown
<1>20. BodyRead(0)'
  <2>1. offset' = 3 + ConfEnd(opened')[Len(tree') - 1] + 4 + BodyEnd(opened'[Len(tree')])[0]
    <3>1. Len(tree') - 1 = n
      BY <1>3, <1>18
    <3>2. offset \in Nat
      BY DEF Typed, TypeOK
    <3>3. offset' = offset + 4
      BY <1>2, <1>8, <1>12
    <3> QED BY <1>2, <1>5, <1>11, <1>18, <3>1, <3>2, <3>3
  <2>2. end' = BodyEnd(c)[m] - BodyEnd(c)[0]
    BY <1>11, <1>15
  <2>3. 0 \in 0..m
    BY <1>11
  <2> QED BY <1>2, <1>16, <1>18, <2>1, <2>2, <2>3 DEF BodyRead, m
<1>21. Len(tree') \in 1..Len(opened)
  BY <1>3, <1>18
<1> QED BY <1>19, <1>20, <1>21

\* One descriptor of the body is read and built.
LEMMA BuildNextParser ==
    ASSUME Typed, Parser, BuildNext
    PROVE  Parser'
<1> DEFINE n == Len(tree)
           c == opened[n]
           m == Len(c.body)
           t == tree[n]
<1>1. opened \in Seq(Configurations) /\ tree \in Seq(Objects) /\ tree # <<>>
  BY Known DEF Typed, TypeOK, Objects, Settings, BuildNext
<1>2. /\ phase = "body" /\ phase' = "body" /\ opened' = opened /\ end > 0
      /\ offset' = offset + Len(Descriptor) /\ end' = end - Len(Descriptor)
  BY DEF BuildNext, Read
<1>3. SUFFICES ASSUME WellFormed(opened)
      PROVE  /\ Len(tree') \in 1..Len(opened) /\ ConfsShown(Len(tree) - 1)'
             /\ \E j \in Nat : BodyRead(j)'
  BY <1>2 DEF Parser
<1>4. n \in 1..Len(opened) /\ ConfsShown(n - 1)
  BY <1>2, <1>3 DEF Parser
<1>5. PICK j \in Nat : /\ BodyRead(j) /\ j + 1 \in 1..m
                       /\ GoodBytes(c.body[j + 1]) /\ Descriptor = c.body[j + 1]
  BY <1>2, <1>3, NextIsRead
<1> DEFINE b == c.body[j + 1]
<1>6. /\ b[2] \notin {DT_DEVICE, DT_CONFIG} /\ Len(b) \in Nat /\ b \in Seq(Nat)
      /\ b[2] = DT_INTERFACE => Len(b) >= 4 /\ b[3] \in Nat /\ b[4] \in Nat
      /\ b[2] = DT_ENDPOINT => Len(b) >= 3 /\ b[3] \in Nat
  BY <1>5 DEF GoodBytes
<1>7. t \in Objects /\ Shows(t, c, j)
  <2>1. n \in 1..Len(tree)
    BY <1>1, LenProperties, EmptySeq
  <2> QED BY <1>1, <1>5, <2>1, ElementOfSeq DEF BodyRead
<1>8. c \in Configurations /\ EndsOfBody(c)
  BY <1>1, <1>4, ElementOfSeq, BodyEnds
<1>9. \E u \in Objects : tree' = [tree EXCEPT ![n] = u] /\ Shows(u, c, j + 1)
  <2>1. DOMAIN b = 1..Len(b)
    BY <1>6, LenProperties
  <2>2. CASE b[2] = DT_INTERFACE
    <3>1. Field(3) = {b[3]} /\ Field(4) = {b[4]} /\ b[3] \in Nat /\ b[4] \in Nat
      <4>1. 3 \in 1..Len(b) /\ 4 \in 1..Len(b)
        BY <1>6, <2>2
      <4> QED BY <1>5, <1>6, <2>1, <2>2, <4>1 DEF Field
    <3>2. AddSetting(b[3], b[4])
      BY <1>5, <2>2, <3>1 DEF BuildNext, DT_INTERFACE, DT_ENDPOINT, DT_DEVICE, DT_CONFIG
    <3>3. tree' = [tree EXCEPT ![n] = WithSetting(t, b[3], b[4])]
      BY <1>1, <3>2, SettingAdded DEF Typed
    <3>4. WithSetting(t, b[3], b[4]) \in Objects /\ Shows(WithSetting(t, b[3], b[4]), c, j + 1)
      BY <1>7, <2>2, <3>1, InterfaceShown DEF WithSetting
    <3> QED BY <3>3, <3>4
  <2>3. CASE b[2] = DT_ENDPOINT
    <3>1. Field(3) = {b[3]} /\ b[3] \in Nat
      <4>1. 3 \in 1..Len(b)
        BY <1>6, <2>3
      <4> QED BY <1>5, <1>6, <2>1, <2>3, <4>1 DEF Field
    <3>2. AddEndpoint(b[3])
      BY <1>5, <2>3, <3>1 DEF BuildNext, DT_INTERFACE, DT_ENDPOINT, DT_DEVICE, DT_CONFIG
    <3>3. tree' = [tree EXCEPT ![n] = GrownObject(t, b[3])]
      BY <1>1, <3>2, EndpointAdded DEF Typed
    <3>4. GrownObject(t, b[3]) \in Objects /\ Shows(GrownObject(t, b[3]), c, j + 1)
      BY <1>7, <2>3, <3>1, EndpointShown DEF GrownObject
    <3> QED BY <3>3, <3>4
  <2>4. CASE b[2] \notin {DT_INTERFACE, DT_ENDPOINT}
    <3>1. tree' = tree
      BY <1>5, <2>4 DEF BuildNext
    <3>2. tree' = [tree EXCEPT ![n] = t]
      BY <1>1, <3>1, LenProperties
    <3>3. Shows(t, c, j + 1)
      BY <1>7, <2>4, OtherShown
    <3> QED BY <1>7, <3>2, <3>3
  <2> QED BY <2>2, <2>3, <2>4
<1>10. PICK u \in Objects : tree' = [tree EXCEPT ![n] = u] /\ Shows(u, c, j + 1)
  BY <1>9
<1>11. /\ Len(tree') = n /\ n \in Nat \ {0} /\ tree'[n] = u
       /\ \A i \in 1..(n - 1) : tree'[i] = tree[i]
  BY <1>1, <1>10, ReplaceLast
<1>12. ConfsShown(Len(tree) - 1)'
  BY <1>2, <1>4, <1>11 DEF ConfsShown
<1>13. BodyRead(j + 1)'
  <2>1. /\ offset = 3 + ConfEnd(opened)[n - 1] + 4 + BodyEnd(c)[j]
        /\ end = BodyEnd(c)[m] - BodyEnd(c)[j]
    BY <1>5 DEF BodyRead
  <2>2. BodyEnd(c)[j + 1] = BodyEnd(c)[j] + Len(b)
    <3>1. (j + 1) - 1 = j
      OBVIOUS
    <3> QED BY <1>5, <1>8, <3>1 DEF EndsOfBody
  <2>3. BodyEnd(c)[j] \in Nat /\ BodyEnd(c)[m] \in Nat /\ j + 1 \in 0..m
    <3>1. j \in 0..m /\ m \in 0..m /\ j + 1 \in 0..m
      BY <1>5, <1>8 DEF EndsOfBody
    <3> QED BY <1>8, <3>1 DEF EndsOfBody
  <2>4. ConfEnd(opened)[n - 1] \in Nat
    BY <1>1, <1>4, ConfBegins
  <2>5. Len(Descriptor) = Len(b)
    BY <1>5
  <2> DEFINE x == ConfEnd(opened)[n - 1]
             y == BodyEnd(c)[j]
             z == BodyEnd(c)[j + 1]
             l == Len(b)
             e == BodyEnd(c)[m]
  <2>6. /\ x \in Nat /\ y \in Nat /\ l \in Nat /\ e \in Nat /\ z = y + l
        /\ offset = 3 + x + 4 + y /\ end = e - y /\ offset' = offset + l /\ end' = end - l
    BY <1>2, <1>6, <2>1, <2>2, <2>3, <2>4, <2>5
  <2> HIDE DEF b, c, m, n, x, y, z, l, e
  <2>7. offset' = 3 + x + 4 + z /\ end' = e - z
    BY <2>6
  <2> QED BY <1>2, <1>10, <1>11, <2>3, <2>7 DEF BodyRead, c, m, x, z, e
<1>14. j + 1 \in Nat
  OBVIOUS
<1> QED BY <1>4, <1>11, <1>12, <1>13, <1>14

\* A configuration is complete, and the offset is at the next one.
LEMMA ConfigDoneParser ==
    ASSUME Typed, Parser, ConfigDone
    PROVE  Parser'
<1> DEFINE n == Len(tree)
           c == opened[n]
           m == Len(c.body)
<1>1. opened \in Seq(Configurations) /\ end \in Int
  BY Known DEF Typed, TypeOK
<1>2. /\ phase = "body" /\ phase' = "header" /\ opened' = opened /\ ~(end > 0)
      /\ offset' = offset /\ tree' = tree
  BY <1>1 DEF ConfigDone
<1>3. SUFFICES ASSUME WellFormed(opened)
      PROVE  Len(tree) <= Len(opened) /\ ConfsShown(Len(tree)) /\ offset = 3 + ConfEnd(opened)[Len(tree)]
  BY <1>2 DEF Parser, ConfsShown
<1>4. n \in 1..Len(opened) /\ ConfsShown(n - 1) /\ Len(opened) \in Nat
  BY <1>1, <1>2, <1>3, LenProperties DEF Parser
<1>5. BodyRead(m)
  BY <1>2, <1>3, AllIsRead
<1>6. offset = 3 + ConfEnd(opened)[n - 1] + 4 + BodyEnd(c)[m] /\ Shows(tree[n], c, m)
  BY <1>5 DEF BodyRead
<1>7. ConfsShown(n)
  <2>1. \A i \in 1..n : i \in 1..(n - 1) \/ i = n
    BY <1>4
  <2> QED BY <1>4, <1>6, <2>1 DEF ConfsShown
<1>8. FileLaidOut(opened)
  BY <1>1, FileHolds
<1>9. ConfEnd(opened)[n] = ConfEnd(opened)[n - 1] + 4 + BodyEnd(c)[m]
  BY <1>4, <1>8 DEF FileLaidOut
<1>10. ConfEnd(opened)[n - 1] \in Nat
  BY <1>1, <1>4, ConfBegins
<1>11. BodyEnd(c)[m] \in Nat
  <2>1. EndsOfBody(c)
    BY <1>1, <1>4, ElementOfSeq, BodyEnds
  <2>2. m \in 0..m
    BY <2>1 DEF EndsOfBody
  <2> QED BY <2>1, <2>2 DEF EndsOfBody
<1>12. \A x, y \in Nat : 3 + x + 4 + y = 3 + (x + 4 + y)
  OBVIOUS
<1> HIDE DEF m, c, n
<1>13. offset = 3 + ConfEnd(opened)[n]
  BY <1>6, <1>9, <1>10, <1>11, <1>12
<1> QED BY <1>4, <1>7, <1>13 DEF n

\* All configurations are built.
LEMMA DeviceDoneParser ==
    ASSUME Typed, Parser, DeviceDone
    PROVE  Parser'
<1>1. phase = "header" /\ phase' = "built" /\ Len(tree) = Len(opened)
      /\ opened' = opened /\ tree' = tree
  BY DEF DeviceDone
<1> QED BY <1>1 DEF Parser, ConfsShown

\* The parser does not fail on a well formed device that is there.
LEMMA BuildFailsParser ==
    ASSUME Typed, Parser, BuildFails
    PROVE  Parser'
<1>1. phase' = "failed" /\ opened' = opened /\ lost' = lost
  BY DEF BuildFails, GiveUp
<1>2. opened \in Seq(Configurations) /\ Len(opened) \in Nat
  BY Known, LenProperties DEF Typed
<1>3. FileLaidOut(opened)
  BY <1>2, FileHolds
<1>4. SUFFICES ASSUME WellFormed(opened)
      PROVE  lost
  BY <1>1 DEF Parser
<1>5. CASE phase = "device"
  <2> DEFINE b == DeviceDescriptor(opened)
  <2>1. Holds(File(opened), offset, b)
    BY <1>3, <1>4, <1>5 DEF Parser, FileLaidOut
  <2>2. b \in Seq(Nat) /\ Len(b) > 0 /\ b[1] = Len(b)
    BY <1>2 DEF DeviceDescriptor, DT_DEVICE
  <2> HIDE DEF b
  <2>3. CanRead <=> ~lost
    BY <2>1, <2>2, ReadsIt
  <2> QED BY <1>5, <2>3 DEF BuildFails
<1>6. CASE phase = "header"
  <2> DEFINE n == Len(tree)
             b == Header(opened[n + 1])
  <2>1. n < Len(opened) /\ ~CanRead
    BY <1>6 DEF BuildFails
  <2>2. n \in Nat
    BY LenProperties DEF Typed, TypeOK
  <2>3. n + 1 \in 1..Len(opened) /\ (n + 1) - 1 = n
    BY <1>2, <2>1, <2>2
  <2>4. Holds(File(opened), offset, b)
    <3>1. offset = 3 + ConfEnd(opened)[n]
      BY <1>4, <1>6 DEF Parser
    <3>2. HoldsConf(File(opened), 3 + ConfEnd(opened)[(n + 1) - 1], opened[n + 1])
      BY <1>3, <2>3 DEF FileLaidOut
    <3> QED BY <2>3, <3>1, <3>2 DEF HoldsConf
  <2>5. b \in Seq(Nat) /\ Len(b) = 4
    BY <1>2, <2>3, ElementOfSeq, ConfHolds
  <2>6. b[1] = 4
    BY DEF Header
  <2> HIDE DEF b
  <2>7. Len(b) > 0 /\ b[1] = Len(b)
    BY <2>5, <2>6
  <2>8. CanRead <=> ~lost
    BY <2>4, <2>5, <2>7, ReadsIt
  <2> QED BY <2>1, <2>8
<1>7. CASE phase = "body"
  <2>1. end > 0
    BY <1>7 DEF BuildFails
  <2>2. (CanRead <=> ~lost) /\ GoodBytes(Descriptor)
    BY <1>4, <1>7, <2>1, NextIsRead
  <2>3. Len(Descriptor) \in Nat /\ Len(Descriptor) >= 2 /\ Descriptor[2] \notin {DT_DEVICE, DT_CONFIG}
    BY <2>2 DEF GoodBytes
  <2> QED BY <1>7, <2>2, <2>3 DEF BuildFails
<1> QED BY <1>5, <1>6, <1>7 DEF BuildFails

\* Every step keeps the invariant of the parser.
LEMMA ParserStep ==
    ASSUME Typed, StillThere, Parser, [Next]_vars
    PROVE  Parser'
<1>1. CASE UNCHANGED vars
  BY <1>1, ParserFrame DEF vars
<1>2. CASE Unplug \/ Plug \/ SetConfiguration
  <2>1. /\ phase' = phase /\ opened' = opened /\ offset' = offset /\ end' = end /\ tree' = tree
        /\ lost => lost'
    BY <1>2 DEF Unplug, Plug, SetConfiguration, Change
  <2> QED BY <2>1, ParserFrame
<1>3. CASE Open
  BY <1>3 DEF Open, Parser
<1>4. CASE AskDevice \/ AskFails \/ AskGone \/ SetActive
  <2>1. /\ opened' = opened /\ tree' = tree
        /\ phase \in {"built", "asked", "attached"} /\ phase' \in {"asked", "attached"}
    BY <1>4 DEF AskDevice, AskFails, AskGone, SetActive
  <2> QED BY <2>1, ParserKeeps
<1>5. CASE OpenFails \/ IoctlFails
  BY <1>5 DEF OpenFails, IoctlFails, GiveUp, Parser
<1> QED BY <1>1, <1>2, <1>3, <1>4, <1>5, BuildDeviceParser, ConnectInfoParser, BuildConfigParser,
           BuildNextParser, ConfigDoneParser, DeviceDoneParser, BuildFailsParser DEF Next

-----------------------------------------------------------------------------
(* The theorems.                                                           *)

\* The inductive invariant.
Inv == Typed /\ StillThere /\ Answers /\ Parser

\* The invariant holds in every state.
LEMMA InvHolds == Spec => []Inv
<1>1. Init => Inv
  <2> SUFFICES ASSUME Init
      PROVE  Inv
    OBVIOUS
  <2>1. StillThere /\ Answers
    BY DEF Init, StillThere, Answers, Unset
  <2>2. Parser
    BY DEF Init, Parser
  <2> QED BY <2>1, <2>2, TypedInit DEF Inv
<1>2. Inv /\ [Next]_vars => Inv'
  BY TypedStep, StillThereStep, AnswersStep, ParserStep DEF Inv
<1> QED BY <1>1, <1>2, PTL DEF Spec

\* build_device(): a device with well formed descriptors gets an object with its
\* configurations, interface settings and endpoints, each where it belongs.
THEOREM TreeIsTheDevices == Spec => []TreeMatchesDevice
<1>1. Inv => TreeMatchesDevice
  <2> SUFFICES ASSUME Inv, phase \in {"built", "asked", "attached"}, WellFormed(opened)
      PROVE  /\ Len(tree) = Len(opened)
             /\ \A i \in DOMAIN opened : Shows(tree[i], opened[i], Len(opened[i].body))
    BY DEF TreeMatchesDevice
  <2>1. Len(tree) = Len(opened) /\ ConfsShown(Len(tree))
    BY DEF Inv, Parser
  <2>2. DOMAIN opened = 1..Len(opened)
    BY Known, LenProperties DEF Inv, Typed
  <2> QED BY <2>1, <2>2 DEF ConfsShown
<1> QED BY <1>1, InvHolds, PTL

\* build_device() gives up over the descriptors only when the device has gone or is ill
\* formed, for any device; what open() and the ioctls refuse is left out.
THEOREM GivesUpForAReason == Spec => []NoFalseRejection
<1>1. Inv => NoFalseRejection
  BY DEF Inv, Parser, NoFalseRejection
<1> QED BY <1>1, InvHolds, PTL

\* Other steps than those of the constructor and of
\* setActiveConfigAndInterfaceSettings() leave what the object says.
LEMMA AttachedStays ==
    ASSUME [Next]_vars, phase' = "attached", ~SetActive
    PROVE  /\ phase = "attached" /\ opened' = opened /\ tree' = tree
           /\ active' = active /\ setting' = setting /\ answered' = answered
<1>1. CASE UNCHANGED vars
  BY <1>1 DEF vars
<1>2. CASE Unplug \/ Plug \/ SetConfiguration
  BY <1>2 DEF Unplug, Plug, SetConfiguration, Change
<1>3. CASE \/ Open \/ BuildDevice \/ ConnectInfo \/ BuildConfig \/ BuildNext \/ ConfigDone
           \/ DeviceDone \/ OpenFails \/ IoctlFails \/ BuildFails
  BY <1>3 DEF Open, BuildDevice, ConnectInfo, BuildConfig, BuildNext, ConfigDone, DeviceDone,
              OpenFails, IoctlFails, BuildFails, GiveUp
<1>4. CASE AskDevice \/ AskFails \/ AskGone
  BY <1>4 DEF AskDevice, AskFails, AskGone
<1> QED BY <1>1, <1>2, <1>3, <1>4 DEF Next

\* The active configuration is one of those that the object has, or none.
THEOREM ActiveIsThere == Spec => []ActiveExists
<1>1. Init => ActiveExists
  BY DEF Init, ActiveExists
<1>2. ASSUME Typed, ActiveExists, [Next]_vars
      PROVE  ActiveExists'
  <2>1. CASE SetActive
    <3>1. tree' = tree /\ (active' = 0 \/ active' \in Chosen)
      BY <2>1 DEF SetActive
    <3>2. \A n \in Chosen : ContainsUsbConfiguration(n)
      <4>1. Len(tree) = 1 => 1 \in DOMAIN tree
        BY LenProperties DEF Typed, TypeOK
      <4> QED BY <4>1 DEF Chosen, ContainsUsbConfiguration
    <3> QED BY <3>1, <3>2 DEF ActiveExists, ContainsUsbConfiguration
  <2>2. CASE phase' # "attached"
    BY <2>2 DEF ActiveExists
  <2> QED BY <1>2, <2>1, <2>2, AttachedStays DEF ActiveExists, ContainsUsbConfiguration
<1>3. Inv => Typed
  BY DEF Inv
<1> QED BY <1>1, <1>2, <1>3, InvHolds, PTL DEF Spec

\* An interface with one setting gets that one, and with several none of them.
LEMMA SettingsAreTheirs ==
    ASSUME NEW v, NEW s \in SettingsOf(v)
    PROVE  SettingFor(v)[s.number] = IF OnlySetting(s, v) THEN s.setting ELSE Unset
<1> DEFINE its(n) == {r.setting : r \in {t \in SettingsOf(v) : t.number = n}}
<1>1. s.number \in {r.number : r \in SettingsOf(v)}
  OBVIOUS
<1>2. SettingFor(v)[s.number] = IF \E x \in its(s.number) : its(s.number) = {x}
                                THEN CHOOSE x \in its(s.number) : TRUE ELSE Unset
  BY <1>1 DEF SettingFor
<1>3. s.setting \in its(s.number)
  OBVIOUS
<1>4. OnlySetting(s, v) <=> its(s.number) = {s.setting}
  BY <1>3 DEF OnlySetting
<1> HIDE DEF its
<1>5. (\E x \in its(s.number) : its(s.number) = {x}) <=> its(s.number) = {s.setting}
  BY <1>3
<1>6. its(s.number) = {s.setting} => (CHOOSE y \in its(s.number) : TRUE) = s.setting
  BY <1>3
<1> QED BY <1>2, <1>4, <1>5, <1>6

\* A device that says that it is configured is shown so.
THEOREM ActiveIsWhatWasAnswered == Spec => []ActiveIsTheDevices
<1>1. Init => ActiveIsTheDevices
  BY DEF Init, ActiveIsTheDevices
<1>2. ASSUME Inv, ActiveIsTheDevices, [Next]_vars
      PROVE  ActiveIsTheDevices'
  <2>1. CASE SetActive
    <3>1. /\ phase = "asked" /\ tree' = tree /\ opened' = opened /\ answered' = answered
      BY <2>1 DEF SetActive
    <3>2. SUFFICES ASSUME answered > 0, WellFormed(opened)
          PROVE  /\ active' = answered
                 /\ \A s \in SettingsOf(answered) :
                       setting'[s.number] = IF OnlySetting(s, answered) THEN s.setting ELSE Unset
      BY <3>1 DEF ActiveIsTheDevices, SettingsOf, OnlySetting
    <3>3. answered \in Values(opened) /\ number = answered /\ answered \in Int
      BY <1>2, <3>1, <3>2 DEF Inv, Answers, Typed, TypeOK
    <3>4. ContainsUsbConfiguration(number)
      <4>1. PICK i \in DOMAIN opened : opened[i].value = answered
        BY <3>3 DEF Values
      <4>2. Len(tree) = Len(opened) /\ ConfsShown(Len(tree))
        BY <1>2, <3>1, <3>2 DEF Inv, Parser
      <4>3. DOMAIN opened = 1..Len(opened) /\ DOMAIN tree = 1..Len(tree)
        BY <1>2, Known, LenProperties DEF Inv, Typed, TypeOK
      <4>4. tree[i].value = opened[i].value /\ i \in DOMAIN tree
        BY <4>2, <4>3 DEF ConfsShown, Shows
      <4> QED BY <3>3, <4>1, <4>4 DEF ContainsUsbConfiguration
    <3>5. Chosen = {answered}
      BY <3>2, <3>3, <3>4 DEF Chosen
    <3>6. active' = answered /\ setting' = SettingFor(answered)
      BY <2>1, <3>5 DEF SetActive
    <3> QED BY <3>6, SettingsAreTheirs
  <2>2. CASE phase' # "attached"
    BY <2>2 DEF ActiveIsTheDevices
  <2>3. CASE ~SetActive /\ phase' = "attached"
    BY <1>2, <2>3, AttachedStays DEF ActiveIsTheDevices, SettingsOf, OnlySetting
  <2> QED BY <2>1, <2>2, <2>3
<1> QED BY <1>1, <1>2, InvHolds, PTL DEF Spec
=============================================================================
