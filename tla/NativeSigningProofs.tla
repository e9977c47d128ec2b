------------------------- MODULE NativeSigningProofs -------------------------
(***************************************************************************)
(* What the signer makes of a zone, for every zone and every set of keys,   *)
(* and what of it is served, whatever cycles overlap or fail: the theorems  *)
(* about modules Dnssec and NativeSigning.                                  *)
(*                                                                         *)
(* First the operators of Dnssec, which are built from Picked and Sorted:   *)
(* each lists the elements of a finite ordered set by their rank in it.     *)
(***************************************************************************)
EXTENDS NativeSigning, SequenceTheorems, FiniteSetTheorems, WellFoundedInduction,
        TLAPS

(* Orders as data: Prior[x] is the set of the elements that come before x. *)
IsOrder(S, Prior) ==
  /\ Prior \in [S -> SUBSET S]
  /\ \A x \in S : x \notin Prior[x]
  /\ \A x, y \in S : x \in Prior[y] => Prior[x] \subseteq Prior[y]
  /\ \A x, y \in S : x # y => x \in Prior[y] \/ y \in Prior[x]

Rank(Prior, x)   == Cardinality(Prior[x])
Nth(S, Prior, k) == CHOOSE x \in S : Rank(Prior, x) = k - 1

LEMMA RankLess ==
  ASSUME NEW S, IsFiniteSet(S), NEW Prior, IsOrder(S, Prior)
  PROVE  /\ \A x \in S : Rank(Prior, x) \in 0 .. Cardinality(S) - 1
         /\ \A x, y \in S : x \in Prior[y] => Rank(Prior, x) < Rank(Prior, y)
<1>1. ASSUME NEW x \in S
      PROVE  IsFiniteSet(Prior[x]) /\ Rank(Prior, x) \in Nat
  <2>1. Prior[x] \in SUBSET S
    BY DEF IsOrder
  <2> QED
    BY <2>1, FS_Subset, FS_CardinalityType DEF Rank
<1>2. ASSUME NEW x \in S, NEW T, IsFiniteSet(T), Prior[x] \subseteq T, x \in T, x \notin Prior[x]
      PROVE  Rank(Prior, x) < Cardinality(T)
  <2>1. Prior[x] \in SUBSET T /\ Prior[x] # T
    BY <1>2
  <2>2. Cardinality(T) \in Nat
    BY <1>2, FS_CardinalityType
  <2>3. Cardinality(Prior[x]) <= Cardinality(T) /\ Cardinality(T) # Cardinality(Prior[x])
    BY <1>2, <2>1, FS_Subset, Zenon
  <2> QED
    BY <1>1, <2>2, <2>3 DEF Rank
<1>3. ASSUME NEW x \in S PROVE Rank(Prior, x) < Cardinality(S)
  BY <1>2 DEF IsOrder
<1>4. ASSUME NEW x \in S, NEW y \in S, x \in Prior[y]
      PROVE  Rank(Prior, x) < Rank(Prior, y)
  <2>1. Prior[x] \subseteq Prior[y] /\ x \notin Prior[x]
    BY <1>4 DEF IsOrder
  <2>2. Rank(Prior, x) < Cardinality(Prior[y])
    BY <1>1, <1>2, <1>4, <2>1
  <2> QED
    BY <2>2 DEF Rank
<1>5. Cardinality(S) \in Nat
  BY FS_CardinalityType
<1>6. \A x \in S : Rank(Prior, x) \in 0 .. Cardinality(S) - 1
  BY <1>1, <1>3, <1>5
<1> QED
  BY <1>4, <1>6

(* So the elements of a finite ordered set can be listed by rank.           *)
Lists(S, Prior, n) ==
  /\ \A k \in 1 .. n : Nth(S, Prior, k) \in S
  /\ \A x \in S : \E k \in 1 .. n : Nth(S, Prior, k) = x
  /\ \A k, l \in 1 .. n : k < l => Nth(S, Prior, k) \in Prior[Nth(S, Prior, l)]

LEMMA NthLists ==
  ASSUME NEW S, IsFiniteSet(S), NEW Prior, IsOrder(S, Prior)
  PROVE  Lists(S, Prior, Cardinality(S))
<1> DEFINE n == Cardinality(S)
           T == 0 .. n - 1
           f == [x \in S |-> Rank(Prior, x)]
<1>1. n \in Nat
  BY FS_CardinalityType
<1>2. IsFiniteSet(T) /\ Cardinality(T) = n
  BY <1>1, FS_Interval
<1>3. /\ \A x \in S : Rank(Prior, x) \in T
      /\ \A x, y \in S : x \in Prior[y] => Rank(Prior, x) < Rank(Prior, y)
  BY RankLess
<1>4. \A x, y \in S : Rank(Prior, x) = Rank(Prior, y) => x = y
  <2> SUFFICES ASSUME NEW x \in S, NEW y \in S, Rank(Prior, x) = Rank(Prior, y), x # y
               PROVE  FALSE
    OBVIOUS
  <2>1. x \in Prior[y] \/ y \in Prior[x]
    BY DEF IsOrder
  <2> QED
    BY <1>1, <1>3, <2>1
<1>5. f \in [S -> T] /\ \A x \in S : f[x] = Rank(Prior, x)
  BY <1>3
<1> HIDE DEF T
<1>6. f \in Surjection(S, T)
  <2> HIDE DEF f, n
  <2>1. f \in Injection(S, T)
    BY <1>4, <1>5, Zenon DEF Injection, IsInjective
  <2> QED
    BY <1>2, <2>1, FS_Injection, Zenon DEF n
<1>7. ASSUME NEW k \in 1 .. n
      PROVE  Nth(S, Prior, k) \in S /\ Rank(Prior, Nth(S, Prior, k)) = k - 1
  <2>1. k - 1 \in T
    BY <1>1 DEF T
  <2>2. \E x \in S : Rank(Prior, x) = k - 1
    BY <1>5, <1>6, <2>1, Zenon DEF Surjection
  <2> QED
    BY <2>2, Zenon DEF Nth
<1>8. ASSUME NEW x \in S PROVE \E k \in 1 .. n : Nth(S, Prior, k) = x
  <2>1. PICK k \in 1 .. n : k - 1 = Rank(Prior, x)
    <3>1. Rank(Prior, x) + 1 \in 1 .. n /\ (Rank(Prior, x) + 1) - 1 = Rank(Prior, x)
      BY <1>1, <1>3 DEF T
    <3> QED
      BY <3>1
  <2> QED
    BY <1>4, <1>7, <2>1
<1>9. ASSUME NEW k \in 1 .. n, NEW l \in 1 .. n, k < l
      PROVE  Nth(S, Prior, k) \in Prior[Nth(S, Prior, l)]
  <2> DEFINE x == Nth(S, Prior, k)
             y == Nth(S, Prior, l)
  <2>1. x \in S /\ y \in S /\ Rank(Prior, x) = k - 1 /\ Rank(Prior, y) = l - 1
    BY <1>7
  <2> HIDE DEF x, y
  <2>2. x # y
    BY <1>9, <2>1
  <2>3. ~(y \in Prior[x])
    BY <1>3, <1>9, <2>1
  <2>4. x \in Prior[y]
    BY <2>1, <2>2, <2>3 DEF IsOrder
  <2> QED
    BY <2>4 DEF x, y
<1> QED
  BY <1>7, <1>8, <1>9 DEF Lists

-----------------------------------------------------------------------------
(* A sequence t is built from s by an order of some of its positions.       *)
Follows(h, s, I, t) ==
  /\ h \in [1 .. Len(t) -> I]
  /\ \A i \in I : \E k \in 1 .. Len(t) : h[k] = i
  /\ \A k \in 1 .. Len(t) : t[k] = s[h[k]]

Ascends(h, n) == \A k, l \in 1 .. n : k < l => h[k] < h[l]

Picks(s, I, t) == \E h : Follows(h, s, I, t) /\ Ascends(h, Len(t))

LEMMA PickedIs ==
  ASSUME NEW T, NEW s \in Seq(T), NEW I, I \subseteq 1 .. Len(s)
  PROVE  /\ Picked(s, I) \in Seq(T)
         /\ Len(Picked(s, I)) = Cardinality(I)
         /\ Picks(s, I, Picked(s, I))
<1> DEFINE Earlier == [i \in I |-> {j \in I : j < i}]
           n == Cardinality(I)
           nth(k) == CHOOSE i \in I : Cardinality({j \in I : j < i}) = k - 1
           h == [k \in 1 .. n |-> nth(k)]
           f == [k \in 1 .. n |-> s[nth(k)]]
           t == Picked(s, I)
<1>1. Len(s) \in Nat /\ \A i \in I : i \in Nat /\ s[i] \in T
  BY LenProperties, ElementOfSeq
<1>2. IsFiniteSet(I) /\ n \in Nat
  <2>1. IsFiniteSet(1 .. Len(s)) /\ I \in SUBSET (1 .. Len(s))
    BY <1>1, FS_Interval
  <2> QED
    BY <2>1, FS_Subset, FS_CardinalityType
<1>3. IsOrder(I, Earlier)
  <2>0. \A x \in I : x \in Nat
    BY <1>1
  <2>1. ASSUME NEW x \in I, NEW y \in I, x < y
        PROVE  {j \in I : j < x} \subseteq {j \in I : j < y}
    <3>1. \A j \in I : j < x => j < y
      BY <2>0, <2>1
    <3> QED
      BY <3>1, Zenon
  <2>2. \A x, y \in I : x # y => x < y \/ y < x
    BY <2>0
  <2>3. \A x \in I : ~(x < x)
    BY <2>0
  <2> QED
    BY <2>1, <2>2, <2>3, Zenon DEF IsOrder
<1>4. \A k : Nth(I, Earlier, k) = nth(k)
  BY DEF Nth, Rank
<1>5. Lists(I, Earlier, n)
  BY <1>2, <1>3, NthLists, Zenon
<1>6. /\ \A k \in 1 .. n : nth(k) \in I
      /\ \A x \in I : \E k \in 1 .. n : nth(k) = x
      /\ \A k, l \in 1 .. n : k < l => nth(k) \in Earlier[nth(l)]
  BY <1>4, <1>5, Zenon DEF Lists
<1> HIDE DEF nth, n
<1>7. ASSUME NEW k \in 1 .. n, NEW l \in 1 .. n, k < l PROVE nth(k) < nth(l)
  <2>1. nth(k) \in Earlier[nth(l)] /\ nth(l) \in I
    BY <1>6, <1>7
  <2> QED
    BY <2>1
<1>8. t = SubSeq(f, 1, n)
  BY Zenon DEF Picked, nth, n
<1>9. \A k \in 1 .. n : f[k] \in T /\ f[k] = s[nth(k)]
  BY <1>1, <1>6
<1> HIDE DEF f
<1>10. t \in Seq(T) /\ Len(t) = n /\ \A k \in 1 .. n : t[k] = f[k]
  <2>1. SubSeq(f, 1, n) \in Seq(T)
    BY <1>2, <1>9, SubSeqProperties
  <2>2. Len(SubSeq(f, 1, n)) = IF 1 <= n THEN n - 1 + 1 ELSE 0
    BY <1>2, <1>9, SubSeqProperties
  <2>3. \A i \in 1 .. n - 1 + 1 : SubSeq(f, 1, n)[i] = f[1 + i - 1]
    BY <1>2, <1>9, SubSeqProperties
  <2> QED
    BY <1>2, <1>8, <2>1, <2>2, <2>3
<1> HIDE DEF t
<1>11. Follows(h, s, I, t)
  BY <1>6, <1>9, <1>10 DEF Follows
<1>12. Ascends(h, Len(t))
  BY <1>7, <1>10 DEF Ascends
<1> QED
  BY <1>10, <1>11, <1>12 DEF Picks, n, t

-----------------------------------------------------------------------------
LEMMA Least ==
  ASSUME NEW S, S \subseteq Nat, S # {}
  PROVE  Min(S) \in S /\ \A y \in S : Min(S) <= y
<1>1. PICK x \in S : \A y \in S : ~(<<y, x>> \in OpToRel(<, Nat))
  BY NatLessThanWellFounded, WFMin
<1>2. ASSUME NEW y \in S PROVE x <= y
  <2>1. ~(y < x)
    BY <1>1 DEF OpToRel
  <2> QED
    BY <2>1
<1>3. \E z \in S : \A y \in S : z =< y
  BY <1>2
<1> QED
  BY <1>3 DEF Min

(* Precedes is a strict order of sequences of numbers: the first place      *)
(* where they differ decides.                                               *)
Decides(k, x, y) ==
  /\ k \in 1 .. Len(y)
  /\ k <= Len(x) + 1
  /\ \A i \in 1 .. k - 1 : x[i] = y[i]
  /\ k <= Len(x) => x[k] < y[k]

LEMMA PrecedesIs ==
  ASSUME NEW x \in Seq(Nat), NEW y \in Seq(Nat)
  PROVE  Precedes(x, y) <=> \E k \in Nat : Decides(k, x, y)
<1> DEFINE m == Min({Len(x), Len(y)})
           D == {i \in 1 .. m : x[i] # y[i]}
<1>1. /\ Len(x) \in Nat /\ \A i \in 1 .. Len(x) : x[i] \in Nat
      /\ Len(y) \in Nat /\ \A i \in 1 .. Len(y) : y[i] \in Nat
  BY LenProperties, ElementOfSeq
<1>2. m \in Nat /\ m <= Len(x) /\ m <= Len(y) /\ (m = Len(x) \/ m = Len(y))
  <2>1. {Len(x), Len(y)} \subseteq Nat /\ {Len(x), Len(y)} # {}
    BY <1>1
  <2>2. m \in {Len(x), Len(y)} /\ \A l \in {Len(x), Len(y)} : m <= l
    BY <2>1, Least, Zenon
  <2> QED
    BY <1>1, <2>2
<1>3. /\ D = {} => (Precedes(x, y) <=> Len(x) < Len(y))
      /\ D # {} => (Precedes(x, y) <=> x[Min(D)] < y[Min(D)])
  BY Zenon DEF Precedes
<1> HIDE DEF m
<1>4. D \subseteq Nat
  OBVIOUS
<1>5. CASE D = {}
  <2>0. \A i \in 1 .. m : x[i] = y[i]
    BY <1>5
  <2>1. Len(x) < Len(y) => Decides(Len(x) + 1, x, y)
    BY <1>1, <1>2, <2>0 DEF Decides
  <2>2. ASSUME NEW k \in Nat, Decides(k, x, y) PROVE Len(x) < Len(y)
    <3>1. k <= Len(x) => FALSE
      BY <1>1, <1>2, <2>0, <2>2 DEF Decides
    <3> QED
      BY <1>1, <2>2, <3>1 DEF Decides
  <2>3. Len(x) + 1 \in Nat
    BY <1>1
  <2> QED
    BY <1>3, <1>5, <2>1, <2>2, <2>3, Zenon
<1>6. CASE D # {}
  <2> DEFINE d == Min(D)
  <2>1. d \in D /\ \A e \in D : d <= e
    BY <1>4, <1>6, Least
  <2> HIDE DEF d
  <2>2. d \in 1 .. m /\ x[d] # y[d] /\ \A i \in 1 .. d - 1 : x[i] = y[i]
    BY <1>2, <2>1
  <2>3. x[d] < y[d] => Decides(d, x, y)
    BY <1>1, <1>2, <2>2 DEF Decides
  <2>4. ASSUME NEW k \in Nat, Decides(k, x, y) PROVE x[d] < y[d]
    <3>1. k = d
      BY <1>1, <1>2, <2>2, <2>4 DEF Decides
    <3> QED
      BY <1>1, <1>2, <2>2, <2>4, <3>1 DEF Decides
  <2>5. d \in Nat
    BY <2>2
  <2> QED
    BY <1>3, <1>6, <2>3, <2>4, <2>5, Zenon DEF d
<1> QED
  BY <1>5, <1>6

LEMMA PrecedesOrders ==
  /\ \A x \in Seq(Nat) : ~Precedes(x, x)
  /\ \A x, y, z \in Seq(Nat) : Precedes(x, y) /\ Precedes(y, z) => Precedes(x, z)
  /\ \A x, y \in Seq(Nat) : x = y \/ Precedes(x, y) \/ Precedes(y, x)
<1>1. ASSUME NEW x \in Seq(Nat) PROVE ~Precedes(x, x)
  <2>1. Len(x) \in Nat /\ \A i \in 1 .. Len(x) : x[i] \in Nat
    BY LenProperties, ElementOfSeq
  <2>2. \A k \in Nat : ~Decides(k, x, x)
    BY <2>1 DEF Decides
  <2> QED
    BY <2>2, PrecedesIs
<1>2. ASSUME NEW x \in Seq(Nat), NEW y \in Seq(Nat), NEW z \in Seq(Nat),
             Precedes(x, y), Precedes(y, z)
      PROVE  Precedes(x, z)
  <2>1. /\ Len(x) \in Nat /\ \A i \in 1 .. Len(x) : x[i] \in Nat
        /\ Len(y) \in Nat /\ \A i \in 1 .. Len(y) : y[i] \in Nat
        /\ Len(z) \in Nat /\ \A i \in 1 .. Len(z) : z[i] \in Nat
    BY LenProperties, ElementOfSeq
  <2>2. PICK k \in Nat : Decides(k, x, y)
    BY <1>2, PrecedesIs
  <2>3. PICK l \in Nat : Decides(l, y, z)
    BY <1>2, PrecedesIs
  <2>4. CASE k <= l
    <3>1. k \in 1 .. Len(z) /\ k <= Len(x) + 1
      BY <2>1, <2>2, <2>3, <2>4 DEF Decides
    <3>2. ASSUME NEW i \in 1 .. k - 1 PROVE x[i] = y[i] /\ y[i] = z[i]
      <4>1. i \in 1 .. l - 1
        BY <2>4
      <4> QED
        BY <2>2, <2>3, <4>1 DEF Decides
    <3>3. k <= Len(x) => x[k] < z[k]
      <4>1. k < l => y[k] = z[k]
        BY <2>1, <2>2, <2>3, <2>4 DEF Decides
      <4>2. k = l => k <= Len(y) /\ y[k] < z[k]
        BY <2>1, <2>2, <2>3, <2>4 DEF Decides
      <4>3. k <= Len(x) => x[k] < y[k] /\ x[k] \in Nat /\ y[k] \in Nat /\ z[k] \in Nat
        BY <2>1, <2>2, <3>1 DEF Decides
      <4> QED
        BY <2>4, <4>1, <4>2, <4>3
    <3>4. Decides(k, x, z)
      BY <3>1, <3>2, <3>3 DEF Decides
    <3> QED
      BY <3>4, PrecedesIs
  <2>5. CASE l < k
    <3>1. l \in 1 .. Len(z) /\ l <= Len(x) /\ l <= Len(y)
      BY <2>1, <2>2, <2>3, <2>5 DEF Decides
    <3>2. ASSUME NEW i \in 1 .. l - 1 PROVE x[i] = z[i]
      <4>1. i \in 1 .. k - 1
        BY <2>5
      <4> QED
        BY <2>2, <2>3, <4>1 DEF Decides
    <3>3. x[l] < z[l]
      <4>1. l \in 1 .. k - 1
        BY <2>5, <3>1
      <4>2. x[l] = y[l] /\ y[l] < z[l]
        BY <2>2, <2>3, <3>1, <4>1 DEF Decides
      <4> QED
        BY <4>2
    <3>4. Decides(l, x, z)
      BY <2>1, <3>1, <3>2, <3>3 DEF Decides
    <3> QED
      BY <3>4, PrecedesIs
  <2> QED
    BY <2>4, <2>5
<1>3. ASSUME NEW x \in Seq(Nat), NEW y \in Seq(Nat), x # y
      PROVE  Precedes(x, y) \/ Precedes(y, x)
  <2> DEFINE D == {i \in Nat \ {0} : i <= Len(x) /\ i <= Len(y) /\ x[i] # y[i]}
  <2>1. /\ Len(x) \in Nat /\ \A i \in 1 .. Len(x) : x[i] \in Nat
        /\ Len(y) \in Nat /\ \A i \in 1 .. Len(y) : y[i] \in Nat
    BY LenProperties, ElementOfSeq
  <2>2. CASE D = {}
    <3>1. ASSUME NEW i \in 1 .. Len(x), i <= Len(y) PROVE x[i] = y[i]
      <4>1. i \notin D /\ i \in Nat \ {0} /\ i <= Len(x)
        BY <2>1, <2>2
      <4> QED
        BY <3>1, <4>1
    <3>2. Len(x) # Len(y)
      BY <1>3, <2>1, <3>1, SeqEqual
    <3>3. Decides(Len(x) + 1, x, y) \/ Decides(Len(y) + 1, y, x)
      BY <2>1, <3>1, <3>2 DEF Decides
    <3> QED
      BY <2>1, <3>3, PrecedesIs
  <2>3. CASE D # {}
    <3> DEFINE d == Min(D)
    <3>1. D \subseteq Nat
      OBVIOUS
    <3>2. d \in D /\ \A e \in D : d <= e
      BY <2>3, <3>1, Least
    <3> HIDE DEF d
    <3>3. ASSUME NEW i \in 1 .. d - 1 PROVE x[i] = y[i]
      <4>1. i \notin D /\ i \in Nat \ {0} /\ i <= Len(x) /\ i <= Len(y)
        BY <2>1, <3>2
      <4> QED
        BY <4>1
    <3>4. Decides(d, x, y) \/ Decides(d, y, x)
      BY <2>1, <3>2, <3>3 DEF Decides
    <3> QED
      BY <3>2, <3>4, PrecedesIs
  <2> QED
    BY <2>2, <2>3
<1> QED
  BY <1>1, <1>2, <1>3

-----------------------------------------------------------------------------
(* Sorted is a stable sort: it moves every element to one place.            *)
Sorts(s, t) ==
  \E h :
    /\ Follows(h, s, 1 .. Len(s), t)
    /\ \A k, l \in 1 .. Len(t) : h[k] = h[l] => k = l
    /\ \A k, l \in 1 .. Len(t) : k < l => Precedes(t[k], t[l]) \/ t[k] = t[l]

LEMMA SortedIs ==
  ASSUME NEW s \in Seq(Seq(Nat))
  PROVE  /\ Sorted(s) \in Seq(Seq(Nat))
         /\ Len(Sorted(s)) = Len(s)
         /\ Sorts(s, Sorted(s))
<1> DEFINE I == DOMAIN s
           n == Len(s)
           before(i) == {j \in DOMAIN s : Precedes(s[j], s[i]) \/ (s[j] = s[i] /\ j < i)}
           Prior == [i \in I |-> before(i)]
           nth(k) == CHOOSE i \in DOMAIN s : Cardinality(before(i)) = k - 1
           h == [k \in 1 .. n |-> nth(k)]
           f == [k \in DOMAIN s |-> s[nth(k)]]
           t == Sorted(s)
<1>1. n \in Nat /\ I = 1 .. n /\ \A i \in I : i \in Nat /\ s[i] \in Seq(Nat)
  BY LenProperties, ElementOfSeq
<1>2. IsFiniteSet(I) /\ Cardinality(I) = n
  BY <1>1, FS_Interval
<1>3. IsOrder(I, Prior)
  <2>1. ASSUME NEW x \in I PROVE x \notin before(x)
    <3>1. ~Precedes(s[x], s[x]) /\ ~(x < x)
      BY <1>1, PrecedesOrders
    <3> QED
      BY <3>1, Zenon
  <2>2. ASSUME NEW x \in I, NEW y \in I, x \in before(y) PROVE before(x) \subseteq before(y)
    <3> SUFFICES ASSUME NEW z \in I, z \in before(x) PROVE z \in before(y)
      BY Zenon
    <3>1. s[x] \in Seq(Nat) /\ s[y] \in Seq(Nat) /\ s[z] \in Seq(Nat)
      BY <1>1
    <3>2. Precedes(s[z], s[x]) \/ (s[z] = s[x] /\ z < x)
      OBVIOUS
    <3>3. Precedes(s[x], s[y]) \/ (s[x] = s[y] /\ x < y)
      BY <2>2
    <3>4. z < x /\ x < y => z < y
      BY <1>1
    <3>5. Precedes(s[z], s[y]) \/ (s[z] = s[y] /\ z < y)
      BY <3>1, <3>2, <3>3, <3>4, PrecedesOrders, Zenon
    <3> QED
      BY <3>5
  <2>3. ASSUME NEW x \in I, NEW y \in I, x # y PROVE x \in before(y) \/ y \in before(x)
    <3>1. x < y \/ y < x
      BY <1>1, <2>3
    <3>2. s[x] = s[y] \/ Precedes(s[x], s[y]) \/ Precedes(s[y], s[x])
      BY <1>1, PrecedesOrders
    <3> QED
      BY <3>1, <3>2, Zenon
  <2> QED
    BY <2>1, <2>2, <2>3, Zenon DEF IsOrder
<1>4. \A k : Nth(I, Prior, k) = nth(k)
  BY DEF Nth, Rank
<1>5. Lists(I, Prior, n)
  BY <1>2, <1>3, NthLists, Zenon
<1>6. /\ \A k \in 1 .. n : nth(k) \in I
      /\ \A x \in I : \E k \in 1 .. n : nth(k) = x
      /\ \A k, l \in 1 .. n : k < l => nth(k) \in Prior[nth(l)]
  BY <1>4, <1>5, Zenon DEF Lists
<1>7. ASSUME NEW k \in 1 .. n, NEW l \in 1 .. n, k < l
      PROVE  /\ nth(k) # nth(l)
             /\ Precedes(s[nth(k)], s[nth(l)]) \/ s[nth(k)] = s[nth(l)]
  <2>1. nth(k) \in I /\ nth(l) \in I /\ nth(k) \in Prior[nth(l)]
    BY <1>6, <1>7, Zenon
  <2>2. nth(k) # nth(l)
    BY <1>3, <2>1, Zenon DEF IsOrder
  <2> HIDE DEF nth
  <2> QED
    BY <2>1, <2>2, Zenon
<1>8. t = SubSeq(f, 1, n)
  BY Zenon DEF Sorted
<1> HIDE DEF nth
<1>9. \A k \in 1 .. n : f[k] \in Seq(Nat) /\ f[k] = s[nth(k)]
  BY <1>1, <1>6
<1> HIDE DEF f
<1>10. t \in Seq(Seq(Nat)) /\ Len(t) = n /\ \A k \in 1 .. n : t[k] = f[k]
  <2> HIDE DEF n, t
  <2>1. SubSeq(f, 1, n) \in Seq(Seq(Nat))
    BY <1>1, <1>9, SubSeqProperties
  <2>2. Len(SubSeq(f, 1, n)) = IF 1 <= n THEN n - 1 + 1 ELSE 0
    BY <1>1, <1>9, SubSeqProperties
  <2>3. \A i \in 1 .. n - 1 + 1 : SubSeq(f, 1, n)[i] = f[1 + i - 1]
    BY <1>1, <1>9, SubSeqProperties
  <2> QED
    BY <1>1, <1>8, <2>1, <2>2, <2>3
<1> HIDE DEF t, n
<1>11. Follows(h, s, 1 .. n, t)
  BY <1>1, <1>6, <1>9, <1>10 DEF Follows
<1>12. \A k \in 1 .. n : h[k] = nth(k) /\ t[k] = s[nth(k)]
  BY <1>9, <1>10
<1>13. \A k, l \in 1 .. n : h[k] = h[l] => k = l
  <2>1. \A k, l \in 1 .. n : k # l => k < l \/ l < k
    BY <1>1
  <2> QED
    BY <1>7, <1>12, <2>1, Zenon
<1>14. \A k, l \in 1 .. n : k < l => Precedes(t[k], t[l]) \/ t[k] = t[l]
  BY <1>7, <1>12, Zenon
<1>15. Sorts(s, t)
  BY <1>10, <1>11, <1>13, <1>14, Zenon DEF Sorts, n
<1> QED
  BY <1>10, <1>15 DEF t, n
-----------------------------------------------------------------------------
(* What the sequences that the signer builds hold.                          *)
LEMMA SeqIs ==
  ASSUME NEW T, NEW n \in Nat, NEW f \in [1 .. n -> T]
  PROVE  f \in Seq(T) /\ Len(f) = n
OBVIOUS

LEMMA SetOf ==
  ASSUME NEW T, NEW s \in Seq(T)
  PROVE  /\ \A i \in 1 .. Len(s) : s[i] \in ToSet(s)
         /\ \A x \in ToSet(s) : x \in T /\ \E i \in 1 .. Len(s) : s[i] = x
<1>1. DOMAIN s = 1 .. Len(s) /\ \A i \in 1 .. Len(s) : s[i] \in T
  BY LenProperties, ElementOfSeq
<1> QED
  BY <1>1 DEF ToSet

LEMMA ConcatSet ==
  ASSUME NEW T, NEW s \in Seq(T), NEW t \in Seq(T)
  PROVE  s \o t \in Seq(T) /\ ToSet(s \o t) = ToSet(s) \cup ToSet(t)
<1>1. s \o t \in Seq(T)
  BY ConcatProperties
<1>2. Range(s \o t) = Range(s) \cup Range(t)
  BY RangeConcatenation
<1> QED
  BY <1>1, <1>2 DEF Range, ToSet

LEMMA PickedSet ==
  ASSUME NEW T, NEW s \in Seq(T), NEW I, I \subseteq 1 .. Len(s)
  PROVE  /\ Picked(s, I) \in Seq(T)
         /\ ToSet(Picked(s, I)) = {s[i] : i \in I}
<1> DEFINE t == Picked(s, I)
<1>1. t \in Seq(T) /\ Picks(s, I, t)
  BY PickedIs
<1> HIDE DEF t
<1>2. PICK h : Follows(h, s, I, t)
  BY <1>1 DEF Picks
<1>3. DOMAIN t = 1 .. Len(t)
  BY <1>1, LenProperties
<1>4. ASSUME NEW k \in 1 .. Len(t) PROVE t[k] \in {s[i] : i \in I}
  BY <1>2 DEF Follows
<1>5. ASSUME NEW i \in I PROVE \E k \in 1 .. Len(t) : t[k] = s[i]
  BY <1>2 DEF Follows
<1>6. ToSet(t) = {s[i] : i \in I}
  BY <1>3, <1>4, <1>5 DEF ToSet
<1> QED
  BY <1>1, <1>6 DEF t

LEMMA DistinctIs ==
  ASSUME NEW T, NEW s \in Seq(T)
  PROVE  /\ Distinct(s) \in Seq(T)
         /\ ToSet(Distinct(s)) = ToSet(s)
         /\ \A k, l \in 1 .. Len(Distinct(s)) : Distinct(s)[k] = Distinct(s)[l] => k = l
<1> DEFINE I == {i \in DOMAIN s : \A j \in 1 .. i - 1 : s[j] # s[i]}
           t == Picked(s, I)
<1>1. Len(s) \in Nat /\ DOMAIN s = 1 .. Len(s)
  BY LenProperties
<1>2. I \subseteq 1 .. Len(s)
  BY <1>1
<1>3. \A i, j \in I : s[i] = s[j] => i = j
  <2> SUFFICES ASSUME NEW i \in I, NEW j \in I, s[i] = s[j], i # j PROVE FALSE
    OBVIOUS
  <2>1. i < j \/ j < i
    BY <1>1
  <2> QED
    BY <1>1, <2>1
<1>4. ASSUME NEW i \in 1 .. Len(s) PROVE \E j \in I : s[j] = s[i]
  <2> DEFINE E == {j \in 1 .. Len(s) : s[j] = s[i]}
             m == Min(E)
  <2>1. E \subseteq Nat /\ E # {}
    OBVIOUS
  <2>2. m \in E /\ \A j \in E : m <= j
    BY <2>1, Least
  <2> HIDE DEF m
  <2>3. \A j \in 1 .. m - 1 : s[j] # s[m]
    BY <1>1, <2>2
  <2> QED
    BY <1>1, <2>2, <2>3
<1> HIDE DEF I
<1>5. t \in Seq(T) /\ Picks(s, I, t) /\ ToSet(t) = {s[i] : i \in I}
  BY <1>2, PickedIs, PickedSet
<1> HIDE DEF t
<1>6. PICK h : Follows(h, s, I, t) /\ Ascends(h, Len(t))
  BY <1>5 DEF Picks
<1>7. \A k, l \in 1 .. Len(t) : t[k] = t[l] => k = l
  <2> SUFFICES ASSUME NEW k \in 1 .. Len(t), NEW l \in 1 .. Len(t), t[k] = t[l], k # l
               PROVE  FALSE
    OBVIOUS
  <2>1. h[k] \in I /\ h[l] \in I /\ s[h[k]] = s[h[l]]
    BY <1>6 DEF Follows
  <2>2. h[k] = h[l]
    BY <1>3, <2>1
  <2>3. k < l \/ l < k
    BY <1>5, LenProperties
  <2>4. h[k] < h[l] \/ h[l] < h[k]
    BY <1>6, <2>3 DEF Ascends
  <2>5. \A i \in I : i \in Nat
    BY <1>1, <1>2
  <2>6. h[k] \in Nat /\ h[l] \in Nat
    BY <2>1, <2>5
  <2> QED
    BY <2>2, <2>4, <2>6
<1>8. ToSet(t) = ToSet(s)
  <2>1. \A x \in ToSet(t) : x \in ToSet(s)
    BY <1>1, <1>2, <1>5 DEF ToSet
  <2>2. \A x \in ToSet(s) : x \in ToSet(t)
    BY <1>1, <1>4, <1>5 DEF ToSet
  <2> QED
    BY <2>1, <2>2
<1>9. Distinct(s) = t
  BY Zenon DEF Distinct, I, t
<1> QED
  BY <1>5, <1>7, <1>8, <1>9

LEMMA SortedSet ==
  ASSUME NEW s \in Seq(Seq(Nat))
  PROVE  /\ Sorted(s) \in Seq(Seq(Nat))
         /\ ToSet(Sorted(s)) = ToSet(s)
<1> DEFINE t == Sorted(s)
<1>1. t \in Seq(Seq(Nat)) /\ Sorts(s, t)
  BY SortedIs
<1> HIDE DEF t
<1>2. PICK h : Follows(h, s, 1 .. Len(s), t)
  BY <1>1 DEF Sorts
<1>3. DOMAIN t = 1 .. Len(t) /\ DOMAIN s = 1 .. Len(s)
  BY <1>1, LenProperties
<1>4. ASSUME NEW k \in 1 .. Len(t) PROVE t[k] \in ToSet(s)
  BY <1>2, <1>3 DEF Follows, ToSet
<1>5. ASSUME NEW i \in 1 .. Len(s) PROVE s[i] \in ToSet(t)
  <2>1. \E k \in 1 .. Len(t) : t[k] = s[i]
    BY <1>2 DEF Follows
  <2> QED
    BY <1>3, <2>1 DEF ToSet
<1>6. ToSet(t) = ToSet(s)
  BY <1>3, <1>4, <1>5 DEF ToSet
<1> QED
  BY <1>1, <1>6 DEF t

(* Without equal elements the order is strict.                              *)
LEMMA SortedStrict ==
  ASSUME NEW s \in Seq(Seq(Nat)), \A i, j \in 1 .. Len(s) : s[i] = s[j] => i = j
  PROVE  \A k, l \in 1 .. Len(Sorted(s)) : k < l => Precedes(Sorted(s)[k], Sorted(s)[l])
<1> DEFINE t == Sorted(s)
<1>1. Sorts(s, t) /\ Len(t) \in Nat
  BY SortedIs, LenProperties
<1> HIDE DEF t
<1>2. PICK h : /\ Follows(h, s, 1 .. Len(s), t)
               /\ \A k, l \in 1 .. Len(t) : h[k] = h[l] => k = l
               /\ \A k, l \in 1 .. Len(t) : k < l => Precedes(t[k], t[l]) \/ t[k] = t[l]
  BY <1>1 DEF Sorts
<1>3. ASSUME NEW k \in 1 .. Len(t), NEW l \in 1 .. Len(t), k < l PROVE t[k] # t[l]
  <2>1. /\ h[k] \in 1 .. Len(s) /\ h[l] \in 1 .. Len(s)
        /\ t[k] = s[h[k]] /\ t[l] = s[h[l]]
    BY <1>2 DEF Follows
  <2>2. k # l
    BY <1>1, <1>3
  <2>3. h[k] # h[l]
    BY <1>2, <2>2, Zenon
  <2> QED
    BY <2>1, <2>3, Zenon
<1> QED
  BY <1>2, <1>3, Zenon DEF t
-----------------------------------------------------------------------------
(* The types of what the signer adds.                                       *)
Sigs    == [covers : Nat, labels : Int, key : Seq(Nat), rdatas : Seq(Seq(Nat))]
Records ==
  [owner : Seq(Nat), type : Nat, data : Seq(Nat), served : Seq(Nat), name : Seq(Nat),
   deleted : BOOLEAN, ready : BOOLEAN, sig : Sigs]
Entries == [apex : Apexes, serial : Nat, records : Seq(Records)]

LEMMA RowTypes ==
  ASSUME NEW owner \in Seq(Nat), NEW type \in Nat, NEW data \in Seq(Nat)
  PROVE  /\ Row(owner, type, data) \in Records
         /\ Ready(owner, type, data) \in Records
         /\ Ready(owner, type, data).ready
         /\ ~Ready(owner, type, data).deleted
         /\ Ready(owner, type, data).owner = owner
         /\ Ready(owner, type, data).type = type
         /\ Ready(owner, type, data).data = data
         /\ Ready(owner, type, data).served = data
         /\ Ready(owner, type, data).sig = NoSig
<1>1. NoSig \in Sigs
  BY DEF NoSig, Sigs
<1> HIDE DEF NoSig
<1> QED
  BY <1>1 DEF Row, Ready, Records

LEMMA LabelCountIs ==
  ASSUME NEW owner \in Seq(Nat)
  PROVE  LabelCount(owner) = Len(owner) - (IF owner # <<>> /\ owner[Len(owner)] = 0 THEN 1 ELSE 0)
         /\ LabelCount(owner) \in Int
BY LenProperties DEF LabelCount, Last, Wildcard

LEMMA SignRRsetIs ==
  ASSUME NEW owner \in Seq(Nat), NEW covers \in Nat, NEW rdatas \in Seq(Seq(Nat)), NEW key \in Seq(Nat)
  PROVE  /\ SignRRset(owner, covers, rdatas, key) \in Records
         /\ SignRRset(owner, covers, rdatas, key).ready
         /\ ~SignRRset(owner, covers, rdatas, key).deleted
         /\ SignRRset(owner, covers, rdatas, key).owner = owner
         /\ SignRRset(owner, covers, rdatas, key).type = RRSIG
         /\ SignRRset(owner, covers, rdatas, key).sig =
              [covers |-> covers, labels |-> LabelCount(owner), key |-> key, rdatas |-> Sorted(rdatas)]
<1> DEFINE sig == [covers |-> covers, labels |-> LabelCount(owner), key |-> key, rdatas |-> Sorted(rdatas)]
           r == Ready(owner, RRSIG, <<>>)
<1>1. sig \in Sigs
  BY LabelCountIs, SortedIs DEF Sigs
<1>2. RRSIG \in Nat /\ <<>> \in Seq(Nat)
  BY DEF RRSIG
<1>3. r \in Records /\ r.ready /\ ~r.deleted /\ r.owner = owner /\ r.type = RRSIG
  <2> DEFINE none == <<>>
  <2>1. none \in Seq(Nat)
    BY <1>2
  <2>2. r = Ready(owner, RRSIG, none)
    OBVIOUS
  <2> HIDE DEF none, r
  <2> QED
    BY <1>2, <2>1, <2>2, RowTypes
<1>4. SignRRset(owner, covers, rdatas, key) = [r EXCEPT !.sig = sig]
  BY DEF SignRRset, CanonicalOrder
<1> HIDE DEF sig, r
<1>5. SignRRset(owner, covers, rdatas, key).sig = sig
  BY <1>3, <1>4 DEF Records
<1> QED
  BY <1>1, <1>3, <1>4, <1>5 DEF Records, sig

LEMMA Greatest ==
  ASSUME NEW S, NEW n \in Nat, S \subseteq 0 .. n, S # {}
  PROVE  Max(S) \in S /\ \A y \in S : Max(S) >= y
<1> DEFINE R == {n - x : x \in S}
           m == n - Min(R)
<1>1. R \subseteq Nat /\ R # {}
  <2>1. \A x \in S : n - x \in Nat
    OBVIOUS
  <2> QED
    BY <2>1, Zenon
<1>2. Min(R) \in R /\ \A y \in R : Min(R) <= y
  BY <1>1, Least
<1>3. m \in S
  BY <1>2
<1>4. ASSUME NEW y \in S PROVE m >= y
  <2>1. n - y \in R
    OBVIOUS
  <2>2. Min(R) <= n - y /\ Min(R) \in Nat
    BY <1>1, <1>2, <2>1
  <2> QED
    BY <2>2
<1>5. \E x \in S : \A y \in S : x >= y
  BY <1>3, <1>4
<1> QED
  BY <1>5 DEF Max

LEMMA OctetType ==
  ASSUME NEW bits, NEW first \in Nat
  PROVE  Octet(bits, first) \in Nat
<1> DEFINE bit(i) == IF first + i \in bits THEN 1 ELSE 0
<1>1. /\ bit(0) \in Nat /\ bit(1) \in Nat /\ bit(2) \in Nat /\ bit(3) \in Nat
      /\ bit(4) \in Nat /\ bit(5) \in Nat /\ bit(6) \in Nat /\ bit(7) \in Nat
  OBVIOUS
<1>2. Octet(bits, first) = 128 * bit(0) + 64 * bit(1) + 32 * bit(2) + 16 * bit(3)
        + 8 * bit(4) + 4 * bit(5) + 2 * bit(6) + bit(7)
  BY DEF Octet
<1> HIDE DEF bit
<1> QED
  BY <1>1, <1>2

LEMMA WindowType ==
  ASSUME NEW w \in Nat, NEW types, types \subseteq Nat
  PROVE  Window(w, types) \in Seq(Nat)
<1> DEFINE bits  == {t % 256 : t \in {u \in types : u \div 256 = w}}
           width == Max(bits) \div 8 + 1
           f == [i \in 1 .. width |-> Octet(bits, 8 * (i - 1))]
<1>1. bits \subseteq 0 .. 255
  OBVIOUS
<1>2. CASE bits = {}
  BY <1>2 DEF Window
<1>3. CASE bits # {}
  <2>1. Max(bits) \in 0 .. 255
    <3> HIDE DEF bits
    <3>1. Max(bits) \in bits
      <4>1. 255 \in Nat
        OBVIOUS
      <4> QED
        BY <1>1, <1>3, <4>1, Greatest, Zenon
    <3> QED
      BY <1>1, <3>1
  <2>2. width \in Nat
    BY <2>1
  <2>3. Window(w, types) = <<w, width>> \o f
    BY <1>3 DEF Window
  <2> HIDE DEF bits, width
  <2>4. f \in [1 .. width -> Nat]
    BY <2>2, OctetType
  <2>5. f \in Seq(Nat)
    BY <2>2, <2>4, SeqIs
  <2> HIDE DEF f
  <2>6. <<w, width>> \in Seq(Nat)
    BY <2>2
  <2> QED
    BY <2>3, <2>5, <2>6, ConcatProperties
<1> QED
  BY <1>2, <1>3

LEMMA NsecRdataType ==
  ASSUME NEW next \in Seq(Nat), NEW types, types \subseteq Nat
  PROVE  TypeBitmap(types) \in Seq(Nat) /\ NsecRdata(next, types) \in Seq(Nat)
<1>1. Window(0, types) \in Seq(Nat) /\ Window(1, types) \in Seq(Nat)
  BY WindowType
<1>2. TypeBitmap(types) \in Seq(Nat)
  BY <1>1, ConcatProperties DEF TypeBitmap
<1>3. <<Len(next)>> \in Seq(Nat)
  BY LenProperties
<1>4. <<Len(next)>> \o next \in Seq(Nat)
  BY <1>3, ConcatProperties
<1> QED
  BY <1>2, <1>4, ConcatProperties DEF NsecRdata
LEMMA RowsIs ==
  ASSUME NEW rows \in Seq(Records)
  PROVE  /\ LiveRows(rows) \in Seq(Records) /\ SignedRows(rows) \in Seq(Records)
         /\ ToSet(LiveRows(rows)) = {r \in ToSet(rows) : Live(r)}
         /\ ToSet(SignedRows(rows)) = {r \in ToSet(rows) : ToSign(r)}
<1> DEFINE I == {i \in DOMAIN rows : Live(rows[i])}
           J == {i \in DOMAIN rows : ToSign(rows[i])}
<1>1. DOMAIN rows = 1 .. Len(rows)
  BY LenProperties
<1>2. I \subseteq 1 .. Len(rows) /\ J \subseteq 1 .. Len(rows)
  BY <1>1
<1>3. {rows[i] : i \in I} = {r \in ToSet(rows) : Live(r)}
  BY DEF ToSet
<1>4. {rows[i] : i \in J} = {r \in ToSet(rows) : ToSign(r)}
  BY DEF ToSet
<1>5. LiveRows(rows) = Picked(rows, I) /\ SignedRows(rows) = Picked(rows, J)
  BY Zenon DEF LiveRows, SignedRows
<1> HIDE DEF I, J
<1>6. /\ Picked(rows, I) \in Seq(Records) /\ ToSet(Picked(rows, I)) = {rows[i] : i \in I}
      /\ Picked(rows, J) \in Seq(Records) /\ ToSet(Picked(rows, J)) = {rows[i] : i \in J}
  BY <1>2, PickedSet
<1> QED
  BY <1>3, <1>4, <1>5, <1>6

LEMMA FirstOfIs ==
  ASSUME NEW keys \in Seq(Seq(Nat)), NEW found, found \subseteq DOMAIN keys,
         NEW other \in ToSet(keys)
  PROVE  FirstOf(keys, found, other) \in ToSet(keys)
<1>1. CASE found # {}
  <2>1. found \subseteq Nat
    BY LenProperties
  <2>2. Min(found) \in found
    BY <1>1, <2>1, Least
  <2> QED
    BY <1>1, <2>2 DEF FirstOf, ToSet
<1> QED
  BY <1>1 DEF FirstOf

LEMMA KeysAre ==
  ASSUME NEW keys \in Seq(Seq(Nat)), keys # <<>>
  PROVE  /\ Zsk(keys) \in ToSet(keys) /\ Ksk(keys) \in ToSet(keys)
         /\ Zsk(keys) \in Seq(Nat) /\ Ksk(keys) \in Seq(Nat)
<1>1. Head(keys) \in ToSet(keys)
  <2>1. 1 \in 1 .. Len(keys) /\ Head(keys) = keys[1]
    BY EmptySeq
  <2> QED
    BY <2>1, SetOf
<1>2. Zsk(keys) \in ToSet(keys)
  <2> DEFINE found == {i \in DOMAIN keys : ~IsKsk(keys[i])}
  <2>1. found \subseteq DOMAIN keys
    OBVIOUS
  <2>2. Zsk(keys) = FirstOf(keys, found, Head(keys))
    BY Zenon DEF Zsk
  <2> HIDE DEF found
  <2> QED
    BY <1>1, <2>1, <2>2, FirstOfIs
<1>3. Ksk(keys) \in ToSet(keys)
  <2> DEFINE found == {i \in DOMAIN keys : IsKsk(keys[i])}
  <2>1. found \subseteq DOMAIN keys
    OBVIOUS
  <2>2. Ksk(keys) = FirstOf(keys, found, Zsk(keys))
    BY Zenon DEF Ksk
  <2> HIDE DEF found
  <2> QED
    BY <1>2, <2>1, <2>2, FirstOfIs
<1> QED
  BY <1>2, <1>3, SetOf

(* What the signer adds is ready, and not deleted.                          *)
Added == {r \in Records : r.ready /\ ~r.deleted}

LEMMA KeyRecordsAre ==
  ASSUME NEW apex \in Seq(Nat), NEW keys \in Seq(Seq(Nat))
  PROVE  /\ KeyRecords(apex, keys) \in Seq(Added)
         /\ Len(KeyRecords(apex, keys)) = Len(keys)
         /\ \A i \in 1 .. Len(keys) : KeyRecords(apex, keys)[i] = Ready(apex, DNSKEY, keys[i])
<1> DEFINE f == [i \in 1 .. Len(keys) |-> Ready(apex, DNSKEY, keys[i])]
<1>1. Len(keys) \in Nat /\ DOMAIN keys = 1 .. Len(keys)
  BY LenProperties
<1>2. KeyRecords(apex, keys) = f
  BY <1>1 DEF KeyRecords
<1>3. DNSKEY \in Nat
  BY DEF DNSKEY
<1>4. ASSUME NEW i \in 1 .. Len(keys) PROVE Ready(apex, DNSKEY, keys[i]) \in Added
  <2>1. keys[i] \in Seq(Nat)
    BY ElementOfSeq
  <2> QED
    BY <1>3, <2>1, RowTypes DEF Added
<1>5. f \in [1 .. Len(keys) -> Added]
  BY <1>4
<1>6. \A i \in 1 .. Len(keys) : f[i] = Ready(apex, DNSKEY, keys[i])
  OBVIOUS
<1> HIDE DEF f
<1>7. f \in Seq(Added) /\ Len(f) = Len(keys)
  BY <1>1, <1>5, SeqIs
<1> QED
  BY <1>2, <1>6, <1>7, Zenon

LEMMA RrsetsAre ==
  ASSUME NEW rows \in Seq(Records)
  PROVE  /\ Rrsets(rows) \in Seq(Seq(Nat) \X Nat)
         /\ ToSet(Rrsets(rows)) = {<<r.owner, r.type>> : r \in ToSet(rows)}
         /\ \A k, l \in 1 .. Len(Rrsets(rows)) : Rrsets(rows)[k] = Rrsets(rows)[l] => k = l
<1> DEFINE f == [i \in DOMAIN rows |-> <<rows[i].owner, rows[i].type>>]
<1>1. Len(rows) \in Nat /\ DOMAIN rows = 1 .. Len(rows)
  BY LenProperties
<1>2. ASSUME NEW i \in 1 .. Len(rows) PROVE <<rows[i].owner, rows[i].type>> \in Seq(Nat) \X Nat
  <2>1. rows[i] \in Records
    BY ElementOfSeq
  <2> QED
    BY <2>1 DEF Records
<1>3. f \in [1 .. Len(rows) -> Seq(Nat) \X Nat]
  BY <1>1, <1>2
<1>4. ToSet(f) = {<<r.owner, r.type>> : r \in ToSet(rows)}
  BY DEF ToSet
<1>5. Rrsets(rows) = Distinct(f)
  BY DEF Rrsets
<1> HIDE DEF f
<1>6. f \in Seq(Seq(Nat) \X Nat)
  BY <1>1, <1>3, SeqIs
<1> QED
  BY <1>4, <1>5, <1>6, DistinctIs

RrsetRows(rows, owner, type) == {r \in ToSet(rows) : r.owner = owner /\ r.type = type}
DataIn(rows) == {r.data : r \in rows}

LEMMA RrsetDataIs ==
  ASSUME NEW rows \in Seq(Records), NEW owner, NEW type
  PROVE  /\ RrsetData(rows, owner, type) \in Seq(Seq(Nat))
         /\ ToSet(RrsetData(rows, owner, type)) = DataIn(RrsetRows(rows, owner, type))
<1> DEFINE I == {i \in DOMAIN rows : rows[i].owner = owner /\ rows[i].type = type}
           t == Picked(rows, I)
<1>1. DOMAIN rows = 1 .. Len(rows)
  BY LenProperties
<1>2. I \subseteq 1 .. Len(rows)
  BY <1>1
<1>3. {rows[i] : i \in I} = {x \in ToSet(rows) : x.owner = owner /\ x.type = type}
  BY DEF ToSet
<1>4. RrsetData(rows, owner, type) = Data(t)
  BY Zenon DEF RrsetData
<1> HIDE DEF I
<1>5. t \in Seq(Records) /\ ToSet(t) = {rows[i] : i \in I}
  BY <1>2, PickedSet
<1> HIDE DEF t
<1>6. Len(t) \in Nat /\ DOMAIN t = 1 .. Len(t)
  BY <1>5, LenProperties
<1>7. ASSUME NEW i \in 1 .. Len(t) PROVE t[i].data \in Seq(Nat)
  <2>1. t[i] \in Records
    BY <1>5, ElementOfSeq
  <2> QED
    BY <2>1 DEF Records
<1>8. Data(t) \in [1 .. Len(t) -> Seq(Nat)]
  BY <1>6, <1>7 DEF Data
<1>9. Data(t) \in Seq(Seq(Nat))
  BY <1>6, <1>8, SeqIs
<1>10. ToSet(Data(t)) = {r.data : r \in ToSet(t)}
  BY DEF ToSet, Data
<1> QED
  BY <1>3, <1>4, <1>5, <1>9, <1>10 DEF RrsetRows, DataIn

LEMMA RrsetSignaturesAre ==
  ASSUME NEW rows \in Seq(Records), NEW key \in Seq(Nat)
  PROVE  /\ RrsetSignatures(rows, key) \in Seq(Added)
         /\ Len(RrsetSignatures(rows, key)) = Len(Rrsets(rows))
         /\ \A i \in 1 .. Len(Rrsets(rows)) :
              /\ Rrsets(rows)[i][1] \in Seq(Nat) /\ Rrsets(rows)[i][2] \in Nat
              /\ RrsetSignatures(rows, key)[i] =
                   SignRRset(Rrsets(rows)[i][1], Rrsets(rows)[i][2],
                             RrsetData(rows, Rrsets(rows)[i][1], Rrsets(rows)[i][2]), key)
<1> DEFINE sets == Rrsets(rows)
           sign(i) == SignRRset(sets[i][1], sets[i][2], RrsetData(rows, sets[i][1], sets[i][2]), key)
           f == [i \in DOMAIN sets |-> sign(i)]
<1>1. sets \in Seq(Seq(Nat) \X Nat)
  BY RrsetsAre
<1>2. RrsetSignatures(rows, key) = f
  BY DEF RrsetSignatures
<1> HIDE DEF sets
<1>3. Len(sets) \in Nat /\ DOMAIN sets = 1 .. Len(sets)
  BY <1>1, LenProperties
<1>4. ASSUME NEW i \in 1 .. Len(sets) PROVE sets[i][1] \in Seq(Nat) /\ sets[i][2] \in Nat
  <2>1. sets[i] \in Seq(Nat) \X Nat
    BY <1>1, ElementOfSeq
  <2> QED
    BY <2>1
<1>5. ASSUME NEW i \in 1 .. Len(sets) PROVE sign(i) \in Added
  <2>1. RrsetData(rows, sets[i][1], sets[i][2]) \in Seq(Seq(Nat))
    BY RrsetDataIs
  <2> QED
    BY <1>4, <2>1, SignRRsetIs DEF Added
<1> HIDE DEF sign
<1>6. f \in [1 .. Len(sets) -> Added]
  BY <1>3, <1>5
<1>7. f \in Seq(Added) /\ Len(f) = Len(sets)
  BY <1>3, <1>6, SeqIs
<1>8. \A i \in 1 .. Len(sets) : f[i] = sign(i)
  BY <1>3
<1> HIDE DEF f
<1> QED
  BY <1>2, <1>4, <1>7, <1>8, Zenon DEF sets, sign

LEMMA OwnersAre ==
  ASSUME NEW apex \in Seq(Nat), NEW rows \in Seq(Records)
  PROVE  /\ Owners(apex, rows) \in Seq(Seq(Nat))
         /\ ToSet(Owners(apex, rows)) = {apex} \cup {r.owner : r \in ToSet(rows)}
         /\ \A k, l \in 1 .. Len(Owners(apex, rows)) :
              k < l => Precedes(Owners(apex, rows)[k], Owners(apex, rows)[l])
<1> DEFINE f == [i \in DOMAIN rows |-> rows[i].owner]
           e == <<apex>>
           s == f \o e
<1>1. Len(rows) \in Nat /\ DOMAIN rows = 1 .. Len(rows)
  BY LenProperties
<1>2. ASSUME NEW i \in 1 .. Len(rows) PROVE rows[i].owner \in Seq(Nat)
  <2>1. rows[i] \in Records
    BY ElementOfSeq
  <2> QED
    BY <2>1 DEF Records
<1>3. f \in [1 .. Len(rows) -> Seq(Nat)]
  BY <1>1, <1>2
<1>4. ToSet(f) = {r.owner : r \in ToSet(rows)}
  BY DEF ToSet
<1>5. Owners(apex, rows) = Sorted(Distinct(s))
  BY DEF Owners, SortOwners
<1> HIDE DEF f
<1>6. f \in Seq(Seq(Nat)) /\ e \in Seq(Seq(Nat)) /\ ToSet(e) = {apex}
  BY <1>1, <1>3, SeqIs DEF ToSet
<1> HIDE DEF e
<1>7. s \in Seq(Seq(Nat)) /\ ToSet(s) = ToSet(f) \cup {apex}
  BY <1>6, ConcatSet
<1> HIDE DEF s
<1> DEFINE d == Distinct(s)
<1>8. /\ d \in Seq(Seq(Nat)) /\ ToSet(d) = ToSet(s)
      /\ \A k, l \in 1 .. Len(d) : d[k] = d[l] => k = l
  BY <1>7, DistinctIs
<1> HIDE DEF d
<1>9. /\ Sorted(d) \in Seq(Seq(Nat)) /\ ToSet(Sorted(d)) = ToSet(d)
  BY <1>8, SortedSet
<1>10. \A k, l \in 1 .. Len(Sorted(d)) : k < l => Precedes(Sorted(d)[k], Sorted(d)[l])
  BY <1>8, SortedStrict
<1>11. Owners(apex, rows) = Sorted(d)
  BY <1>5 DEF d
<1> QED
  BY <1>4, <1>7, <1>8, <1>9, <1>10, <1>11

(* The name after each in the chain.                                        *)
After(owners, i) == owners[(i % Len(owners)) + 1]

LEMMA TypesAtIs ==
  ASSUME NEW owner, NEW apex, NEW rows \in Seq(Records)
  PROVE  TypesAt(owner, apex, rows) \subseteq Nat
<1>1. ASSUME NEW r \in ToSet(rows) PROVE r.type \in Nat
  <2>1. r \in Records
    BY SetOf
  <2> QED
    BY <2>1 DEF Records
<1> QED
  BY <1>1 DEF TypesAt, RRSIG, NSEC, SOA, DNSKEY

LEMMA NsecRecordsAre ==
  ASSUME NEW apex \in Seq(Nat), NEW rows \in Seq(Records)
  PROVE  /\ NsecRecords(apex, rows) \in Seq(Added)
         /\ Len(NsecRecords(apex, rows)) = Len(Owners(apex, rows))
         /\ \A i \in 1 .. Len(Owners(apex, rows)) :
              /\ Owners(apex, rows)[i] \in Seq(Nat)
              /\ After(Owners(apex, rows), i) \in Seq(Nat)
              /\ NsecRecords(apex, rows)[i] =
                   Ready(Owners(apex, rows)[i], NSEC,
                         NsecRdata(After(Owners(apex, rows), i),
                                   TypesAt(Owners(apex, rows)[i], apex, rows)))
<1> DEFINE owners == Owners(apex, rows)
           nsec(i) == Ready(owners[i], NSEC,
                            NsecRdata(After(owners, i), TypesAt(owners[i], apex, rows)))
           f == [i \in DOMAIN owners |-> nsec(i)]
<1>1. owners \in Seq(Seq(Nat))
  BY OwnersAre
<1>2. NsecRecords(apex, rows) = f
  BY DEF NsecRecords, After
<1> HIDE DEF owners
<1>3. Len(owners) \in Nat /\ DOMAIN owners = 1 .. Len(owners)
  BY <1>1, LenProperties
<1>4. ASSUME NEW i \in 1 .. Len(owners)
      PROVE  owners[i] \in Seq(Nat) /\ After(owners, i) \in Seq(Nat)
  <2>1. (i % Len(owners)) + 1 \in 1 .. Len(owners)
    BY <1>3
  <2> QED
    BY <1>1, <2>1, ElementOfSeq DEF After
<1>5. ASSUME NEW i \in 1 .. Len(owners) PROVE nsec(i) \in Added
  <2>1. NsecRdata(After(owners, i), TypesAt(owners[i], apex, rows)) \in Seq(Nat)
    BY <1>4, TypesAtIs, NsecRdataType
  <2>2. NSEC \in Nat
    BY DEF NSEC
  <2> QED
    BY <1>4, <2>1, <2>2, RowTypes DEF Added
<1> HIDE DEF nsec
<1>6. f \in [1 .. Len(owners) -> Added]
  BY <1>3, <1>5
<1>7. f \in Seq(Added) /\ Len(f) = Len(owners)
  BY <1>3, <1>6, SeqIs
<1>8. \A i \in 1 .. Len(owners) : f[i] = nsec(i)
  BY <1>3
<1> HIDE DEF f
<1> QED
  BY <1>2, <1>4, <1>7, <1>8, Zenon DEF owners, nsec

LEMMA NsecSignaturesAre ==
  ASSUME NEW nsecs \in Seq(Records), NEW key \in Seq(Nat)
  PROVE  /\ NsecSignatures(nsecs, key) \in Seq(Added)
         /\ Len(NsecSignatures(nsecs, key)) = Len(nsecs)
         /\ \A i \in 1 .. Len(nsecs) :
              /\ nsecs[i].owner \in Seq(Nat) /\ <<nsecs[i].data>> \in Seq(Seq(Nat))
              /\ NsecSignatures(nsecs, key)[i] =
                   SignRRset(nsecs[i].owner, NSEC, <<nsecs[i].data>>, key)
<1> DEFINE sign(i) == SignRRset(nsecs[i].owner, NSEC, <<nsecs[i].data>>, key)
           f == [i \in DOMAIN nsecs |-> sign(i)]
<1>1. NsecSignatures(nsecs, key) = f
  BY DEF NsecSignatures
<1>2. Len(nsecs) \in Nat /\ DOMAIN nsecs = 1 .. Len(nsecs)
  BY LenProperties
<1>3. ASSUME NEW i \in 1 .. Len(nsecs)
      PROVE  nsecs[i].owner \in Seq(Nat) /\ <<nsecs[i].data>> \in Seq(Seq(Nat))
  <2>1. nsecs[i] \in Records
    BY ElementOfSeq
  <2>2. nsecs[i].owner \in Seq(Nat) /\ nsecs[i].data \in Seq(Nat)
    BY <2>1 DEF Records
  <2> QED
    BY <2>2
<1>4. ASSUME NEW i \in 1 .. Len(nsecs) PROVE sign(i) \in Added
  <2>1. NSEC \in Nat
    BY DEF NSEC
  <2> QED
    BY <1>3, <2>1, SignRRsetIs DEF Added
<1> HIDE DEF sign
<1>5. f \in [1 .. Len(nsecs) -> Added]
  BY <1>2, <1>4
<1>6. f \in Seq(Added) /\ Len(f) = Len(nsecs)
  BY <1>2, <1>5, SeqIs
<1>7. \A i \in 1 .. Len(nsecs) : f[i] = sign(i)
  BY <1>2
<1> HIDE DEF f
<1> QED
  BY <1>1, <1>3, <1>6, <1>7, Zenon DEF sign

(* The SOA as it is signed, and as it is answered.                          *)
LEMMA ZoneRowIs ==
  ASSUME NEW z \in Apexes
  PROVE  /\ ZoneRow[z].nsname \in StoredRows /\ ZoneRow[z].rest \in StoredRows
         /\ \A r \in StoredRows : r.data \in Seq(Nat) /\ r.served \in Seq(Nat) /\ r.name \in Seq(Nat)
BY NativeSigningAssumption DEF StoredRows

LEMMA SoaPrimaryType ==
  ASSUME NEW z \in Apexes, NEW records \in Seq(Records)
  PROVE  SoaPrimary(z, records).name \in Seq(Nat) /\ SoaPrimary(z, records).served \in Seq(Nat)
<1> DEFINE ns == {i \in DOMAIN records :
                    records[i].type = NS /\ ~records[i].deleted /\ records[i].owner = z}
           primary == SoaPrimary(z, records)
<1>1. DOMAIN records = 1 .. Len(records)
  BY LenProperties
<1>2. primary = IF ns = {} \/ records[Min(ns)].name = <<>> THEN ZoneRow[z].nsname
                ELSE records[Min(ns)]
  BY Zenon DEF SoaPrimary
<1>3. ns \subseteq 1 .. Len(records)
  BY <1>1
<1> HIDE DEF ns, primary
<1>4. primary.name \in Seq(Nat) /\ primary.served \in Seq(Nat)
  <2>1. CASE ns # {}
    <3>0. ns \subseteq Nat
      BY <1>3
    <3>1. Min(ns) \in ns
      BY <2>1, <3>0, Least
    <3>2. records[Min(ns)] \in Records
      BY <1>3, <3>1, ElementOfSeq
    <3>3. records[Min(ns)].name \in Seq(Nat) /\ records[Min(ns)].served \in Seq(Nat)
      BY <3>2 DEF Records
    <3> QED
      BY <1>2, <2>1, <3>3, ZoneRowIs
  <2> QED
    BY <1>2, <2>1, ZoneRowIs
<1> QED
  BY <1>4 DEF primary

LEMMA SoaRdataType ==
  ASSUME NEW entry \in Entries, NEW records \in Seq(Records)
  PROVE  SoaRdata(entry, records) \in Seq(Nat)
<1> DEFINE name == SoaPrimary(entry.apex, records).name
           rest == ZoneRow[entry.apex].rest.data
           last == <<entry.serial>>
<1>1. entry.apex \in Apexes /\ entry.serial \in Nat
  BY DEF Entries
<1>2. name \in Seq(Nat) /\ rest \in Seq(Nat)
  BY <1>1, SoaPrimaryType, ZoneRowIs
<1>3. last \in Seq(Nat)
  BY <1>1
<1>4. SoaRdata(entry, records) = name \o rest \o last
  BY DEF SoaRdata
<1> HIDE DEF name, rest, last
<1> QED
  BY <1>2, <1>3, <1>4, ConcatProperties

(* The records of a signed zone: what is kept, and after it what is added.  *)
DnskeySignature(entry, keys) == <<SignRRset(entry.apex, DNSKEY, keys, Ksk(keys))>>

SoaSignature(entry, keys) ==
  <<SignRRset(entry.apex, SOA, <<SoaRdata(entry, LiveRows(entry.records))>>, Zsk(keys))>>

Additions(entry, keys) ==
  LET rows  == SignedRows(entry.records)
      nsecs == NsecRecords(entry.apex, rows)
  IN  <<KeyRecords(entry.apex, keys), DnskeySignature(entry, keys),
        RrsetSignatures(rows, Zsk(keys)), SoaSignature(entry, keys),
        nsecs, NsecSignatures(nsecs, Zsk(keys))>>

Joined(s, a) == s \o a[1] \o a[2] \o a[3] \o a[4] \o a[5] \o a[6]

LEMMA SignZoneIs ==
  ASSUME NEW entry \in Entries, NEW keys \in Seq(Seq(Nat)), keys # <<>>
  PROVE  /\ SignZoneRecords(entry, keys) = Joined(LiveRows(entry.records), Additions(entry, keys))
         /\ LiveRows(entry.records) \in Seq(Records)
         /\ \A p \in 1 .. 6 : Additions(entry, keys)[p] \in Seq(Added)
<1> DEFINE kept  == LiveRows(entry.records)
           rows  == SignedRows(entry.records)
           nsecs == NsecRecords(entry.apex, rows)
           a == Additions(entry, keys)
<1>1. SignZoneRecords(entry, keys) = Joined(kept, a)
  BY DEF SignZoneRecords, Joined, Additions, DnskeySignature, SoaSignature
<1>2. entry.apex \in Seq(Nat) /\ entry.records \in Seq(Records)
  BY NativeSigningAssumption DEF Entries
<1>3. kept \in Seq(Records) /\ rows \in Seq(Records)
  BY <1>2, RowsIs
<1>4. Zsk(keys) \in Seq(Nat) /\ Ksk(keys) \in Seq(Nat)
  BY KeysAre
<1>5. a[1] \in Seq(Added)
  <2>1. a[1] = KeyRecords(entry.apex, keys)
    BY DEF Additions
  <2> QED
    BY <1>2, <2>1, KeyRecordsAre
<1>6. a[2] \in Seq(Added)
  <2>1. DNSKEY \in Nat
    BY DEF DNSKEY
  <2>2. SignRRset(entry.apex, DNSKEY, keys, Ksk(keys)) \in Added
    BY <1>2, <1>4, <2>1, SignRRsetIs DEF Added
  <2>3. a[2] = <<SignRRset(entry.apex, DNSKEY, keys, Ksk(keys))>>
    BY DEF Additions, DnskeySignature
  <2> QED
    BY <2>2, <2>3
<1>7. a[3] \in Seq(Added)
  <2>1. a[3] = RrsetSignatures(rows, Zsk(keys))
    BY DEF Additions
  <2> QED
    BY <1>3, <1>4, <2>1, RrsetSignaturesAre
<1>8. a[4] \in Seq(Added)
  <2> DEFINE soa == SoaRdata(entry, kept)
  <2>1. SOA \in Nat
    BY DEF SOA
  <2>2. soa \in Seq(Nat)
    BY <1>3, SoaRdataType
  <2>3. a[4] = <<SignRRset(entry.apex, SOA, <<soa>>, Zsk(keys))>>
    BY DEF Additions, SoaSignature
  <2> HIDE DEF soa
  <2>4. SignRRset(entry.apex, SOA, <<soa>>, Zsk(keys)) \in Added
    <3> DEFINE one == <<soa>>
    <3>1. one \in Seq(Seq(Nat))
      BY <2>2
    <3> HIDE DEF one
    <3>2. SignRRset(entry.apex, SOA, one, Zsk(keys)) \in Added
      BY <1>2, <1>4, <2>1, <3>1, SignRRsetIs DEF Added
    <3> QED
      BY <3>2 DEF one
  <2> QED
    BY <2>3, <2>4
<1>9. nsecs \in Seq(Added)
  BY <1>2, <1>3, NsecRecordsAre
<1>10. a[5] \in Seq(Added)
  BY <1>9 DEF Additions
<1>11. a[6] \in Seq(Added)
  <2>1. a[6] = NsecSignatures(nsecs, Zsk(keys))
    BY DEF Additions
  <2>2. nsecs \in Seq(Records)
    <3>1. Added \subseteq Records
      BY DEF Added
    <3> QED
      BY <1>9, <3>1, SeqMonotonic
  <2> HIDE DEF nsecs
  <2> QED
    BY <1>4, <2>1, <2>2, NsecSignaturesAre
<1> HIDE DEF a, kept
<1>12. \A p \in 1 .. 6 : a[p] \in Seq(Added)
  BY <1>5, <1>6, <1>7, <1>8, <1>10, <1>11
<1> QED
  BY <1>1, <1>3, <1>12 DEF a, kept

LEMMA JoinedSet ==
  ASSUME NEW s \in Seq(Records), NEW a, \A p \in 1 .. 6 : a[p] \in Seq(Records)
  PROVE  /\ Joined(s, a) \in Seq(Records)
         /\ ToSet(Joined(s, a)) = ToSet(s) \cup UNION {ToSet(a[p]) : p \in 1 .. 6}
<1> DEFINE s1 == s \o a[1]
           s2 == s1 \o a[2]
           s3 == s2 \o a[3]
           s4 == s3 \o a[4]
           s5 == s4 \o a[5]
           s6 == s5 \o a[6]
<1>0. /\ a[1] \in Seq(Records) /\ a[2] \in Seq(Records) /\ a[3] \in Seq(Records)
      /\ a[4] \in Seq(Records) /\ a[5] \in Seq(Records) /\ a[6] \in Seq(Records)
  OBVIOUS
<1>1. s1 \in Seq(Records) /\ ToSet(s1) = ToSet(s) \cup ToSet(a[1])
  BY <1>0, ConcatSet
<1> HIDE DEF s1
<1>2. s2 \in Seq(Records) /\ ToSet(s2) = ToSet(s1) \cup ToSet(a[2])
  BY <1>0, <1>1, ConcatSet
<1> HIDE DEF s2
<1>3. s3 \in Seq(Records) /\ ToSet(s3) = ToSet(s2) \cup ToSet(a[3])
  BY <1>0, <1>2, ConcatSet
<1> HIDE DEF s3
<1>4. s4 \in Seq(Records) /\ ToSet(s4) = ToSet(s3) \cup ToSet(a[4])
  BY <1>0, <1>3, ConcatSet
<1> HIDE DEF s4
<1>5. s5 \in Seq(Records) /\ ToSet(s5) = ToSet(s4) \cup ToSet(a[5])
  BY <1>0, <1>4, ConcatSet
<1> HIDE DEF s5
<1>6. s6 \in Seq(Records) /\ ToSet(s6) = ToSet(s5) \cup ToSet(a[6])
  BY <1>0, <1>5, ConcatSet
<1>7. Joined(s, a) = s6
  BY DEF Joined, s1, s2, s3, s4, s5, s6
<1> HIDE DEF s6
<1>8. 1 .. 6 = {1, 2, 3, 4, 5, 6}
  OBVIOUS
<1>9. ToSet(s6) = ToSet(s) \cup UNION {ToSet(a[p]) : p \in 1 .. 6}
  <2>1. UNION {ToSet(a[p]) : p \in 1 .. 6} = ToSet(a[1]) \cup ToSet(a[2]) \cup ToSet(a[3])
          \cup ToSet(a[4]) \cup ToSet(a[5]) \cup ToSet(a[6])
    BY <1>8, Zenon
  <2> QED
    BY <1>1, <1>2, <1>3, <1>4, <1>5, <1>6, <2>1, Zenon
<1> QED
  BY <1>6, <1>7, <1>9

(* Signing keeps what is live, and adds to it.                              *)
LiveSet(records) == {r \in ToSet(records) : Live(r)}

LEMMA SignedIs ==
  ASSUME NEW entry \in Entries, NEW keys \in Seq(Seq(Nat)), keys # <<>>
  PROVE  /\ SignZoneRecords(entry, keys) \in Seq(Records)
         /\ LiveSet(SignZoneRecords(entry, keys)) = LiveSet(entry.records)
         /\ \E r \in ToSet(SignZoneRecords(entry, keys)) : r.ready
<1> DEFINE kept  == LiveRows(entry.records)
           a == Additions(entry, keys)
           signed == SignZoneRecords(entry, keys)
<1>1. /\ signed = Joined(kept, a) /\ kept \in Seq(Records)
      /\ \A p \in 1 .. 6 : a[p] \in Seq(Added)
  BY SignZoneIs
<1>2. ToSet(kept) = LiveSet(entry.records)
  BY RowsIs DEF LiveSet, Entries
<1>3. SignRRset(entry.apex, DNSKEY, keys, Ksk(keys)) \in ToSet(a[2])
  <2>1. a[2] = <<SignRRset(entry.apex, DNSKEY, keys, Ksk(keys))>>
    BY DEF Additions, DnskeySignature
  <2> QED
    BY <2>1 DEF ToSet
<1> HIDE DEF kept, a, signed
<1>4. Added \subseteq Records /\ \A r \in Added : r.ready /\ ~Live(r)
  BY DEF Added, Live
<1>5. ASSUME NEW p \in 1 .. 6
      PROVE  a[p] \in Seq(Records) /\ \A r \in ToSet(a[p]) : r \in Added
  <2>1. a[p] \in Seq(Added)
    BY <1>1
  <2> QED
    BY <1>4, <2>1, SeqMonotonic, SetOf
<1>6. /\ signed \in Seq(Records)
      /\ ToSet(signed) = ToSet(kept) \cup UNION {ToSet(a[p]) : p \in 1 .. 6}
  <2>1. \A p \in 1 .. 6 : a[p] \in Seq(Records)
    BY <1>5
  <2>2. kept \in Seq(Records)
    BY <1>1
  <2>3. /\ Joined(kept, a) \in Seq(Records)
        /\ ToSet(Joined(kept, a)) = ToSet(kept) \cup UNION {ToSet(a[p]) : p \in 1 .. 6}
    BY <2>1, <2>2, JoinedSet, Zenon
  <2> QED
    BY <1>1, <2>3
<1>7. LiveSet(signed) = LiveSet(entry.records)
  <2>1. \A r \in UNION {ToSet(a[p]) : p \in 1 .. 6} : ~Live(r)
    BY <1>4, <1>5
  <2>2. \A r \in ToSet(kept) : Live(r)
    BY <1>2 DEF LiveSet
  <2> QED
    BY <1>2, <1>6, <2>1, <2>2 DEF LiveSet
<1>8. \E r \in ToSet(signed) : r.ready
  <2>1. 2 \in 1 .. 6
    OBVIOUS
  <2> QED
    BY <1>3, <1>4, <1>5, <1>6, <2>1
<1> QED
  BY <1>6, <1>7, <1>8 DEF signed

-----------------------------------------------------------------------------
(* The inductive invariant.                                                 *)
Zones  == UNION {[S -> Entries] : S \in SUBSET Apexes}
Places == {"idle", "publish", "capture", "sign"}

CycleStates == [pc : Places, zones : Zones, todo : SUBSET Apexes, onLive : BOOLEAN]

Types ==
  /\ store \in Zones
  /\ keyset \in [Apexes -> KeySets]
  /\ edits \in 0 .. MaxEdits
  /\ live \in Zones
  /\ cycle \in [Cycles -> CycleStates]
  /\ abandoned \in BOOLEAN

(* A zone as the store has it.                                              *)
AsStored(z, entry) ==
  /\ entry.apex = z
  /\ entry.serial \in 0 .. MaxEdits
  /\ entry.records \in Contents[z]

StoredZones(zones) == \A z \in DOMAIN zones : AsStored(z, zones[z])

(* Where a cycle is says what it has in hand; and what it signs on the live *)
(* map was read from there.                                                 *)
CycleShape(state) ==
  /\ state.todo \subseteq DOMAIN state.zones
  /\ state.pc = "sign" <=> state.todo # {}
  /\ state.pc = "idle" => state = Idle
  /\ state.pc \in {"publish", "capture"} => StoredZones(state.zones) /\ ~state.onLive

SameRows(zones, others) ==
  /\ DOMAIN zones = DOMAIN others
  /\ \A z \in DOMAIN others :
       /\ zones[z].apex = others[z].apex
       /\ LiveSet(zones[z].records) = LiveSet(others[z].records)

CyclesFit ==
  \A c \in Cycles :
    CycleShape(cycle[c]) /\ (cycle[c].onLive => SameRows(cycle[c].zones, live))

(* A live zone has rows of the store, and once signed is what the signer    *)
(* makes of such rows with keys that were found.                            *)
StoredIn(z) == UNION {ToSet(rows) : rows \in Contents[z]}

SignedFrom(z, entry, base, found) ==
  /\ base.apex = z /\ base.serial = entry.serial
  /\ LiveSet(base.records) \subseteq StoredIn(z)
  /\ CanSign(base)
  /\ found.keys # <<>>
  /\ entry.records = SignZoneRecords(base, found.keys)

Genuine(z, entry) ==
  /\ entry.apex = z
  /\ LiveSet(entry.records) \subseteq StoredIn(z)
  /\ IsSigned(entry) => \E base \in Entries, found \in KeySets : SignedFrom(z, entry, base, found)

LiveFits == \A z \in DOMAIN live : Genuine(z, live[z])

(* A live zone that is not signed is on its way to be, or was given up.     *)
Pending(z) ==
  \E c \in Cycles : cycle[c].pc = "capture" \/ (cycle[c].onLive /\ z \in cycle[c].todo)

Served == \A z \in DOMAIN live : IsSigned(live[z]) \/ abandoned \/ Pending(z)

(* stop() knows every socket, and without a start there is none.            *)
Lives == {"stopped", "starting", "binding", "running", "rejected", "closing"}

Sockets ==
  /\ life \in Lives
  /\ open \subseteq Listeners
  /\ servers = open
  /\ life \in {"stopped", "starting"} => open = {}

Inv == Types /\ StoredZones(store) /\ CyclesFit /\ LiveFits /\ Served /\ Sockets

-----------------------------------------------------------------------------
LEMMA ZonesAre ==
  ASSUME NEW f \in Zones
  PROVE  /\ DOMAIN f \subseteq Apexes
         /\ f \in [DOMAIN f -> Entries]
         /\ DOMAIN f = {} => f = NoZones
         /\ \A z \in DOMAIN f : z \in Apexes /\ f[z] \in Entries
<1>1. PICK S \in SUBSET Apexes : f \in [S -> Entries]
  BY DEF Zones
<1> QED
  BY <1>1 DEF NoZones

LEMMA ZonesFrom ==
  ASSUME NEW S \in SUBSET Apexes, NEW f \in [S -> Entries]
  PROVE  f \in Zones
BY DEF Zones

LEMMA NoZonesIs == NoZones \in Zones /\ DOMAIN NoZones = {}
<1>1. NoZones \in [{} -> Entries] /\ DOMAIN NoZones = {}
  BY DEF NoZones
<1>2. {} \in SUBSET Apexes
  OBVIOUS
<1> QED
  BY <1>1, <1>2, ZonesFrom, Zenon

LEMMA IdleFits == Idle \in CycleStates /\ CycleShape(Idle) /\ ~Idle.onLive
<1> QED
  BY NoZonesIs DEF Idle, CycleStates, CycleShape, Places

(* What is stored is not signed, and is rows of the store.                  *)
LEMMA StoredGenuine ==
  ASSUME NEW z \in Apexes, NEW entry \in Entries, AsStored(z, entry)
  PROVE  Genuine(z, entry) /\ ~IsSigned(entry)
<1>1. entry.records \in Seq(StoredRows)
  BY NativeSigningAssumption DEF AsStored
<1>2. ASSUME NEW r \in ToSet(entry.records) PROVE ~r.ready
  <2>1. r \in StoredRows
    BY <1>1, SetOf
  <2> QED
    BY <2>1 DEF StoredRows
<1>3. ToSet(entry.records) \subseteq StoredIn(z)
  BY DEF StoredIn, AsStored
<1> QED
  BY <1>2, <1>3 DEF Genuine, IsSigned, AsStored, LiveSet

LEMMA KeysFound ==
  ASSUME Types, NEW z \in Apexes
  PROVE  keyset[z] \in KeySets /\ keyset[z].keys \in Seq(Seq(Nat))
<1>1. keyset[z] \in KeySets
  BY DEF Types
<1>2. KeySets \subseteq FoundKeys
  BY NativeSigningAssumption
<1> QED
  BY <1>1, <1>2 DEF FoundKeys

THEOREM InitInv == Init => Inv
<1> SUFFICES ASSUME Init PROVE Inv
  OBVIOUS
<1>1. PICK z \in Apexes : \E rows \in Contents[z] :
        store = [y \in {z} |-> [apex |-> z, serial |-> 0, records |-> rows]]
  BY DEF Init
<1>2. PICK rows \in Contents[z] :
        store = [y \in {z} |-> [apex |-> z, serial |-> 0, records |-> rows]]
  BY <1>1
<1> DEFINE e == [apex |-> z, serial |-> 0, records |-> rows]
<1>3. rows \in Seq(StoredRows) /\ z \in Seq(Nat) /\ MaxEdits \in Nat
  BY NativeSigningAssumption
<1>4. StoredRows \subseteq Records
  <2>1. NoSig \in Sigs
    BY DEF NoSig, Sigs
  <2> QED
    BY <2>1 DEF StoredRows, Records
<1>5. rows \in Seq(Records)
  BY <1>3, <1>4, SeqMonotonic
<1>6. e \in Entries
  BY <1>3, <1>5 DEF Entries
<1>7. AsStored(z, e)
  BY <1>3 DEF AsStored
<1> HIDE DEF e
<1>8. store \in [{z} -> Entries] /\ store[z] = e
  BY <1>2, <1>6 DEF e
<1>9. store \in Zones /\ StoredZones(store)
  <2>1. {z} \in SUBSET Apexes
    OBVIOUS
  <2>2. store \in Zones
    BY <1>8, <2>1, ZonesFrom, Zenon
  <2> QED
    BY <1>7, <1>8, <2>2 DEF StoredZones
<1>10. NoZones \in Zones /\ DOMAIN NoZones = {}
  BY NoZonesIs
<1>11. cycle \in [Cycles -> CycleStates] /\ \A c \in Cycles : cycle[c] = Idle
  BY IdleFits DEF Init
<1>12. Types
  <2>1. keyset \in [Apexes -> KeySets]
    BY DEF Init
  <2>2. edits \in 0 .. MaxEdits
    BY <1>3 DEF Init
  <2> QED
    BY <1>9, <1>10, <1>11, <2>1, <2>2 DEF Types, Init
<1>13. CyclesFit
  BY <1>11, IdleFits DEF CyclesFit
<1>14. LiveFits /\ Served
  BY <1>10 DEF LiveFits, Served, Init
<1>15. Sockets
  BY DEF Sockets, Init, Lives
<1> QED
  BY <1>9, <1>12, <1>13, <1>14, <1>15 DEF Inv

-----------------------------------------------------------------------------
(* One cycle goes on, while the live zones keep their rows.                 *)
LEMMA CycleGoesOn ==
  ASSUME Types, CyclesFit, NEW c \in Cycles, NEW state \in CycleStates,
         cycle' = [cycle EXCEPT ![c] = state],
         CycleShape(state), state.onLive => SameRows(state.zones, live'),
         SameRows(live, live')
  PROVE  cycle' \in [Cycles -> CycleStates] /\ CyclesFit'
<1>1. cycle \in [Cycles -> CycleStates]
  BY DEF Types
<1>2. cycle' \in [Cycles -> CycleStates]
  BY <1>1
<1>3. ASSUME NEW d \in Cycles
      PROVE  CycleShape(cycle'[d]) /\ (cycle'[d].onLive => SameRows(cycle'[d].zones, live'))
  <2>1. CASE d = c
    BY <1>1, <2>1
  <2>2. CASE d # c
    <3>1. cycle'[d] = cycle[d]
      BY <1>1, <2>2
    <3>2. CycleShape(cycle[d]) /\ (cycle[d].onLive => SameRows(cycle[d].zones, live))
      BY DEF CyclesFit
    <3>3. SameRows(cycle[d].zones, live) => SameRows(cycle[d].zones, live')
      BY DEF SameRows
    <3> QED
      BY <3>1, <3>2, <3>3
  <2> QED
    BY <2>1, <2>2
<1>4. CyclesFit'
  <2>1. \A d \in Cycles :
          CycleShape(cycle'[d]) /\ (cycle'[d].onLive => SameRows(cycle'[d].zones, live'))
    BY <1>3
  <2> QED
    BY <2>1 DEF CyclesFit
<1> QED
  BY <1>2, <1>4

LEMMA SameIsSame == ASSUME NEW zones PROVE SameRows(zones, zones)
BY DEF SameRows

(* The zones that are pending stay so when another cycle moves.             *)
LEMMA StaysPending ==
  ASSUME Types, NEW c \in Cycles, NEW z, Pending(z),
         \A d \in Cycles \ {c} : cycle'[d] = cycle[d],
         \/ cycle[c].pc # "capture" /\ ~(cycle[c].onLive /\ z \in cycle[c].todo)
         \/ cycle'[c].pc = "capture" \/ (cycle'[c].onLive /\ z \in cycle'[c].todo)
  PROVE  Pending(z)'
<1>1. PICK d \in Cycles : cycle[d].pc = "capture" \/ (cycle[d].onLive /\ z \in cycle[d].todo)
  BY DEF Pending
<1>2. CASE d = c
  BY <1>1, <1>2 DEF Pending
<1>3. CASE d # c
  <2>1. cycle'[d] = cycle[d]
    BY <1>3
  <2> QED
    BY <1>1, <2>1 DEF Pending
<1> QED
  BY <1>2, <1>3

LEMMA BeginInv == ASSUME Inv, NEW c \in Cycles, Begin(c) PROVE Inv'
<1> DEFINE state == [Idle EXCEPT !.pc = "publish", !.zones = store]
<1>1. /\ cycle[c].pc = "idle" /\ cycle' = [cycle EXCEPT ![c] = state]
      /\ UNCHANGED <<sourceVars, live, abandoned, ownerVars>>
  BY DEF Begin
<1>2. Types /\ CyclesFit /\ StoredZones(store) /\ store \in Zones
  BY DEF Inv, Types
<1>3. state \in CycleStates /\ CycleShape(state) /\ ~state.onLive
  BY <1>2 DEF Idle, CycleStates, CycleShape, Places
<1> HIDE DEF state
<1>4. SameRows(live, live')
  BY <1>1, SameIsSame
<1>5. cycle' \in [Cycles -> CycleStates] /\ CyclesFit'
  BY <1>1, <1>2, <1>3, <1>4, CycleGoesOn, Zenon
<1>6. cycle[c] = Idle
  BY <1>1 DEF Inv, CyclesFit, CycleShape
<1>7. ASSUME NEW z, Pending(z) PROVE Pending(z)'
  <2>1. cycle[c].pc # "capture" /\ ~cycle[c].onLive
    BY <1>6 DEF Idle
  <2>2. \A d \in Cycles \ {c} : cycle'[d] = cycle[d]
    BY <1>1, <1>2 DEF Types
  <2> QED
    BY <1>2, <1>7, <2>1, <2>2, StaysPending
<1>8. Served'
  BY <1>1, <1>7 DEF Inv, Served
<1>9. Types'
  BY <1>1, <1>5 DEF Inv, Types, sourceVars
<1> QED
  BY <1>1, <1>5, <1>8, <1>9 DEF Inv, LiveFits, StoredZones, Sockets, sourceVars, ownerVars

LEMMA PublishInv == ASSUME Inv, NEW c \in Cycles, Publish(c) PROVE Inv'
<1>1. /\ cycle[c].pc = "publish"
      /\ cycle' = [d \in Cycles |-> [cycle[d] EXCEPT !.onLive = FALSE,
                                      !.pc = IF d = c THEN "capture" ELSE @]]
      /\ live' = cycle[c].zones /\ abandoned' = FALSE
      /\ UNCHANGED <<sourceVars, reloads, ownerVars>>
  BY DEF Publish, Publishes, Published
<1>2. cycle \in [Cycles -> CycleStates]
  BY DEF Inv, Types
<1>3. ASSUME NEW d \in Cycles
      PROVE  /\ cycle'[d] \in CycleStates /\ ~cycle'[d].onLive
             /\ cycle'[d].zones = cycle[d].zones /\ cycle'[d].todo = cycle[d].todo
             /\ cycle'[d].pc = IF d = c THEN "capture" ELSE cycle[d].pc
  <2>1. cycle[d] \in CycleStates
    BY <1>2
  <2>2. cycle'[d] = [cycle[d] EXCEPT !.onLive = FALSE, !.pc = IF d = c THEN "capture" ELSE cycle[d].pc]
    BY <1>1
  <2> QED
    BY <2>1, <2>2 DEF CycleStates, Places
<1>4. cycle' \in [Cycles -> CycleStates]
  BY <1>1, <1>3
<1>5. cycle[c] \in CycleStates /\ StoredZones(cycle[c].zones)
  BY <1>1, <1>2 DEF Inv, CyclesFit, CycleShape
<1>6. live' \in Zones /\ StoredZones(live')
  BY <1>1, <1>5 DEF CycleStates
<1>7. ASSUME NEW d \in Cycles PROVE CycleShape(cycle'[d])
  <2>1. CycleShape(cycle[d])
    BY DEF Inv, CyclesFit
  <2>2. CASE d = c
    <3>1. cycle'[d].todo = {}
      BY <1>1, <1>3, <2>1, <2>2 DEF CycleShape
    <3> QED
      BY <1>3, <1>5, <2>2, <3>1 DEF CycleShape
  <2>3. CASE d # c
    <3>1. cycle[d].pc = "idle" => cycle'[d] = Idle
      <4> SUFFICES ASSUME cycle[d].pc = "idle" PROVE cycle'[d] = Idle
        OBVIOUS
      <4>1. cycle[d] = Idle
        BY <2>1 DEF CycleShape
      <4>2. cycle'[d] = [Idle EXCEPT !.onLive = FALSE, !.pc = "idle"]
        BY <1>1, <2>3, <4>1
      <4>3. [Idle EXCEPT !.onLive = FALSE, !.pc = "idle"] = Idle
        <5>1. Idle.onLive = FALSE /\ Idle.pc = "idle" /\ Idle \in CycleStates
          BY IdleFits DEF Idle
        <5> QED
          BY <5>1 DEF CycleStates
      <4> QED
        BY <4>2, <4>3
    <3> QED
      BY <1>3, <2>1, <2>3, <3>1 DEF CycleShape
  <2> QED
    BY <2>2, <2>3
<1>8. CyclesFit'
  BY <1>3, <1>7 DEF CyclesFit
<1>9. LiveFits'
  <2> SUFFICES ASSUME NEW z \in DOMAIN live' PROVE Genuine(z, live'[z])
    BY DEF LiveFits
  <2>1. z \in Apexes /\ live'[z] \in Entries
    BY <1>6, ZonesAre
  <2>2. AsStored(z, live'[z])
    BY <1>6 DEF StoredZones
  <2> QED
    BY <2>1, <2>2, StoredGenuine
<1>10. Served'
  BY <1>3 DEF Served, Pending
<1>11. Types'
  BY <1>1, <1>4, <1>6 DEF Inv, Types, sourceVars
<1> QED
  BY <1>1, <1>8, <1>9, <1>10, <1>11 DEF Inv, StoredZones, Sockets, sourceVars, ownerVars

LEMMA LifeGoesOn ==
  ASSUME Sockets, NEW c, NEW good,
         CycleEnds(c, good) \/ UNCHANGED life, UNCHANGED <<open, servers>>
  PROVE  Sockets'
BY DEF Sockets, CycleEnds, Lives

LEMMA CaptureInv == ASSUME Inv, NEW c \in Cycles, Capture(c) PROVE Inv'
<1> DEFINE all == [pc |-> "sign", zones |-> live, todo |-> DOMAIN live, onLive |-> TRUE]
           state == IF live = NoZones THEN Idle ELSE all
<1>1. /\ cycle[c].pc = "capture" /\ cycle' = [cycle EXCEPT ![c] = state]
      /\ UNCHANGED <<sourceVars, reloads, live, abandoned, starts, open, servers>>
  BY DEF Capture, Captures, AllZones
<1>2. Types /\ CyclesFit /\ live \in Zones
  BY DEF Inv, Types
<1>3. live # NoZones => DOMAIN live # {} /\ all \in CycleStates /\ CycleShape(all)
  BY <1>2, ZonesAre DEF CycleStates, Places, CycleShape
<1>4. state \in CycleStates /\ CycleShape(state) /\ (state.onLive => SameRows(state.zones, live'))
  BY <1>1, <1>3, IdleFits, SameIsSame
<1>5. live = NoZones \/ (state.onLive /\ state.todo = DOMAIN live)
  OBVIOUS
<1> HIDE DEF state, all
<1>6. SameRows(live, live')
  BY <1>1, SameIsSame
<1>7. cycle' \in [Cycles -> CycleStates] /\ CyclesFit'
  BY <1>1, <1>2, <1>4, <1>6, CycleGoesOn, Zenon
<1>8. Served'
  <2> SUFFICES ASSUME NEW z \in DOMAIN live PROVE Pending(z)'
    BY <1>1 DEF Served
  <2>1. live # NoZones
    BY NoZonesIs
  <2>2. cycle'[c] = state
    BY <1>1, <1>2 DEF Types
  <2> QED
    BY <1>5, <2>1, <2>2 DEF Pending
<1>9. Types'
  BY <1>1, <1>7 DEF Inv, Types, sourceVars
<1>10. Sockets'
  <2>1. CycleEnds(c, TRUE) \/ UNCHANGED life
    BY DEF Capture
  <2> QED
    BY <1>1, <2>1, LifeGoesOn DEF Inv
<1> QED
  BY <1>1, <1>7, <1>8, <1>9, <1>10 DEF Inv, LiveFits, StoredZones, sourceVars

(* What can be signed depends on the zone and its live rows alone.          *)
LEMMA CanSignIs ==
  ASSUME NEW x, NEW y, x.apex = y.apex, LiveSet(x.records) = LiveSet(y.records), CanSign(x)
  PROVE  CanSign(y)
BY DEF CanSign, LiveSet, ToSign

LEMMA SignedGenuine ==
  ASSUME Inv, NEW c \in Cycles, NEW z \in cycle[c].todo, cycle[c].onLive, CanBeSigned(c, z),
         live' = [live EXCEPT ![z].records = SignZoneRecords(live[z], keyset[z].keys)]
  PROVE  live' \in Zones /\ SameRows(live, live') /\ LiveFits' /\ IsSigned(live'[z])
         /\ \A y \in DOMAIN live : y # z => live'[y] = live[y]
<1> DEFINE keys == keyset[z].keys
           signed == SignZoneRecords(live[z], keys)
           entry == [live[z] EXCEPT !.records = signed]
<1>1. Types /\ CycleShape(cycle[c]) /\ SameRows(cycle[c].zones, live) /\ live \in Zones
  BY DEF Inv, CyclesFit, Types
<1>2. /\ z \in DOMAIN live /\ cycle[c].zones[z].apex = live[z].apex
      /\ LiveSet(cycle[c].zones[z].records) = LiveSet(live[z].records)
  BY <1>1 DEF CycleShape, SameRows
<1>3. z \in Apexes /\ live[z] \in Entries /\ live \in [DOMAIN live -> Entries]
      /\ DOMAIN live \in SUBSET Apexes
  BY <1>1, <1>2, ZonesAre
<1>4. keyset[z] \in KeySets /\ keys \in Seq(Seq(Nat)) /\ keys # <<>>
  BY <1>1, <1>3, KeysFound DEF CanBeSigned, Usable
<1>5. CanSign(live[z])
  BY <1>2, CanSignIs DEF CanBeSigned
<1>6. live' = [live EXCEPT ![z] = entry]
  BY <1>3
<1> HIDE DEF keys
<1>7. /\ signed \in Seq(Records) /\ LiveSet(signed) = LiveSet(live[z].records)
      /\ \E r \in ToSet(signed) : r.ready
  BY <1>3, <1>4, SignedIs
<1>8. signed = SignZoneRecords(live[z], keys)
  OBVIOUS
<1> HIDE DEF signed
<1>9. /\ entry \in Entries /\ entry.apex = live[z].apex /\ entry.serial = live[z].serial
      /\ entry.records = signed
  BY <1>3, <1>7 DEF Entries
<1> HIDE DEF entry
<1>10. DOMAIN live' = DOMAIN live /\ live'[z] = entry /\ \A y \in DOMAIN live : y # z => live'[y] = live[y]
  BY <1>2, <1>6
<1>11. live' \in Zones
  <2>1. live' \in [DOMAIN live -> Entries]
    BY <1>3, <1>6, <1>9
  <2> QED
    BY <1>3, <2>1, ZonesFrom, Zenon
<1>12. SameRows(live, live')
  BY <1>7, <1>9, <1>10 DEF SameRows
<1>13. IsSigned(entry)
  BY <1>7, <1>9 DEF IsSigned
<1>14. Genuine(z, live[z])
  BY <1>2 DEF Inv, LiveFits
<1>15. SignedFrom(z, entry, live[z], keyset[z])
  BY <1>4, <1>5, <1>8, <1>9, <1>14 DEF SignedFrom, Genuine, keys
<1>16. Genuine(z, entry)
  BY <1>3, <1>4, <1>7, <1>9, <1>14, <1>15 DEF Genuine
<1>17. LiveFits'
  BY <1>10, <1>16 DEF Inv, LiveFits
<1> QED
  BY <1>10, <1>11, <1>12, <1>13, <1>17

LEMMA SignZoneInv ==
  ASSUME Inv, NEW c \in Cycles, NEW z \in Apexes, SignZone(c, z) PROVE Inv'
<1> DEFINE state == IF cycle[c].todo = {z} THEN Idle
                    ELSE [cycle[c] EXCEPT !.todo = cycle[c].todo \ {z}]
<1>1. /\ z \in cycle[c].todo /\ CanBeSigned(c, z)
      /\ UNCHANGED <<sourceVars, reloads, abandoned, starts, open, servers>>
  BY DEF SignZone, Signs
<1>2. /\ Types /\ CyclesFit /\ cycle \in [Cycles -> CycleStates] /\ cycle[c] \in CycleStates
      /\ CycleShape(cycle[c]) /\ (cycle[c].onLive => SameRows(cycle[c].zones, live))
  BY DEF Inv, CyclesFit, Types
<1>3. cycle' = [cycle EXCEPT ![c] = state]
  BY DEF SignZone, Signs
<1>4. cycle[c].pc = "sign"
  BY <1>1, <1>2 DEF CycleShape
<1>5. /\ live' \in Zones /\ SameRows(live, live') /\ LiveFits'
      /\ \A y \in DOMAIN live : live'[y] = live[y] \/ (y = z /\ IsSigned(live'[y]))
      /\ ~cycle[c].onLive => live' = live
  <2>1. CASE cycle[c].onLive
    <3>1. live' = [live EXCEPT ![z].records = SignZoneRecords(live[z], keyset[z].keys)]
      BY <2>1 DEF SignZone
    <3> QED
      BY <1>1, <2>1, <3>1, SignedGenuine
  <2>2. CASE ~cycle[c].onLive
    <3>1. live' = live
      BY <2>2 DEF SignZone
    <3> QED
      BY <2>2, <3>1, SameIsSame DEF Inv, Types, LiveFits
  <2> QED
    BY <2>1, <2>2
<1>6. /\ state \in CycleStates /\ CycleShape(state)
      /\ cycle[c].todo # {z} => /\ state.zones = cycle[c].zones /\ state.onLive = cycle[c].onLive
                                /\ state.todo = cycle[c].todo \ {z}
  <2>1. CASE cycle[c].todo = {z}
    BY <2>1, IdleFits
  <2>2. CASE cycle[c].todo # {z}
    <3>1. /\ state \in CycleStates /\ state.zones = cycle[c].zones /\ state.onLive = cycle[c].onLive
          /\ state.todo = cycle[c].todo \ {z} /\ state.pc = cycle[c].pc
      BY <1>2, <2>2 DEF CycleStates
    <3>2. state.todo # {}
      BY <1>1, <2>2, <3>1
    <3> QED
      BY <1>2, <1>4, <3>1, <3>2 DEF CycleShape
  <2> QED
    BY <2>1, <2>2
<1>7. state.onLive => cycle[c].todo # {z}
  BY IdleFits
<1> HIDE DEF state
<1>8. state.onLive => SameRows(state.zones, live')
  BY <1>2, <1>5, <1>6, <1>7 DEF SameRows
<1>9. cycle' \in [Cycles -> CycleStates] /\ CyclesFit'
  BY <1>2, <1>3, <1>5, <1>6, <1>8, CycleGoesOn, Zenon
<1>10. Served'
  <2> SUFFICES ASSUME NEW y \in DOMAIN live', ~IsSigned(live'[y]), ~abandoned' PROVE Pending(y)'
    BY DEF Served
  <2>1. y \in DOMAIN live
    BY <1>5 DEF SameRows
  <2>2. Pending(y)
    BY <1>1, <1>5, <2>1 DEF Inv, Served
  <2>3. cycle'[c] = state /\ \A d \in Cycles \ {c} : cycle'[d] = cycle[d]
    BY <1>2, <1>3
  <2>4. CASE cycle[c].onLive /\ y \in cycle[c].todo
    <3>1. y # z
      <4>1. CASE live'[z] = live[z]
        <5>1. live' = [live EXCEPT ![z].records = SignZoneRecords(live[z], keyset[z].keys)]
          BY <2>4 DEF SignZone
        <5> QED
          BY <1>1, <2>4, <5>1, SignedGenuine
      <4>2. CASE live'[z] # live[z]
        BY <1>5, <2>1, <4>2
      <4> QED
        BY <4>1, <4>2
    <3>2. state.onLive /\ y \in state.todo
      BY <1>6, <2>4, <3>1
    <3> QED
      BY <2>3, <3>2 DEF Pending
  <2>5. CASE ~(cycle[c].onLive /\ y \in cycle[c].todo)
    BY <1>2, <1>4, <2>2, <2>3, <2>5, StaysPending
  <2> QED
    BY <2>4, <2>5
<1>11. Types'
  BY <1>1, <1>5, <1>9 DEF Inv, Types, sourceVars
<1>12. Sockets'
  <2>1. CycleEnds(c, TRUE) \/ UNCHANGED life
    BY DEF SignZone
  <2> QED
    BY <1>1, <2>1, LifeGoesOn DEF Inv
<1> QED
  BY <1>1, <1>5, <1>9, <1>10, <1>11, <1>12 DEF Inv, StoredZones, sourceVars

LEMMA SignFailsInv ==
  ASSUME Inv, NEW c \in Cycles, NEW z \in Apexes, SignFails(c, z) PROVE Inv'
<1>1. /\ z \in cycle[c].todo /\ cycle' = [cycle EXCEPT ![c] = Idle]
      /\ abandoned' = (abandoned \/ cycle[c].onLive)
      /\ UNCHANGED <<sourceVars, reloads, live, starts, open, servers>>
  BY DEF SignFails, Fails
<1>2. Types /\ CyclesFit /\ cycle \in [Cycles -> CycleStates] /\ CycleShape(cycle[c])
  BY DEF Inv, Types, CyclesFit
<1>3. SameRows(live, live')
  BY <1>1, SameIsSame
<1>4. Idle.onLive => SameRows(Idle.zones, live')
  BY IdleFits
<1>5. cycle' \in [Cycles -> CycleStates] /\ CyclesFit'
  BY <1>1, <1>2, <1>3, <1>4, IdleFits, CycleGoesOn, Zenon
<1>6. cycle[c].pc # "capture"
  BY <1>1, <1>2 DEF CycleShape
<1>7. Served'
  <2> SUFFICES ASSUME NEW y \in DOMAIN live, ~IsSigned(live[y]), ~abandoned' PROVE Pending(y)'
    BY <1>1 DEF Served
  <2>1. ~abandoned /\ ~cycle[c].onLive
    BY <1>1
  <2>2. Pending(y)
    BY <2>1 DEF Inv, Served
  <2>3. \A d \in Cycles \ {c} : cycle'[d] = cycle[d]
    BY <1>1, <1>2
  <2> QED
    BY <1>2, <1>6, <2>1, <2>2, <2>3, StaysPending
<1>8. abandoned' \in BOOLEAN
  <2>1. cycle[c].onLive \in BOOLEAN
    BY <1>2 DEF CycleStates
  <2> QED
    BY <1>1, <2>1
<1>9. Types'
  BY <1>1, <1>5, <1>8 DEF Inv, Types, sourceVars
<1>10. Sockets'
  <2>1. CycleEnds(c, FALSE) \/ UNCHANGED life
    BY DEF SignFails
  <2> QED
    BY <1>1, <2>1, LifeGoesOn DEF Inv
<1> QED
  BY <1>1, <1>5, <1>7, <1>9, <1>10 DEF Inv, LiveFits, StoredZones, sourceVars

(* The owner leaves the zones and the cycles alone, and so do the edits.    *)
LEMMA CyclesRest ==
  ASSUME Inv, UNCHANGED <<live, cycle, abandoned>>
  PROVE  CyclesFit' /\ LiveFits' /\ Served'
BY DEF Inv, CyclesFit, LiveFits, Served, Pending

LEMMA OwnerInv ==
  ASSUME Inv,
         \/ Start \/ BindFails \/ Stop \/ Stopped
         \/ \E l \in Listeners : Bind(l) \/ Close(l)
  PROVE  Inv'
<1>1. UNCHANGED <<sourceVars, live, cycle, abandoned>>
  BY DEF Start, BindFails, Stop, Stopped, Bind, Close
<1>2. Sockets'
  <2>1. CASE Start \/ BindFails \/ Stop \/ Stopped
    BY <2>1 DEF Inv, Sockets, Lives, Start, BindFails, Stop, Stopped
  <2>2. ASSUME NEW l \in Listeners, Bind(l) PROVE Sockets'
    BY <2>2 DEF Inv, Sockets, Lives, Bind
  <2>3. ASSUME NEW l \in Listeners, Close(l) PROVE Sockets'
    BY <2>3 DEF Inv, Sockets, Lives, Close, Closed
  <2> QED
    BY <2>1, <2>2, <2>3
<1>3. Types' /\ StoredZones(store)'
  BY <1>1 DEF Inv, Types, StoredZones, sourceVars
<1> QED
  BY <1>1, <1>2, <1>3, CyclesRest DEF Inv

LEMMA EditInv ==
  ASSUME Inv, NEW z \in Apexes, Edit(z) \/ EditKeys(z) PROVE Inv'
<1>1. UNCHANGED <<live, cycle, abandoned, ownerVars>>
  BY DEF Edit, EditKeys
<1>2. CyclesFit' /\ LiveFits' /\ Served'
  BY <1>1, CyclesRest
<1>3. Sockets'
  BY <1>1 DEF Inv, Sockets, ownerVars
<1>4. Types /\ MaxEdits \in Nat /\ store \in Zones /\ StoredZones(store)
  BY NativeSigningAssumption DEF Inv, Types
<1>5. edits' \in 0 .. MaxEdits /\ edits + 1 \in 0 .. MaxEdits
  BY <1>4 DEF Types, Edit, EditKeys
<1>6. keyset' \in [Apexes -> KeySets]
  BY <1>4 DEF Types, Edit, EditKeys
<1>7. store' \in Zones /\ StoredZones(store')
  <2>1. CASE store' = store
    BY <1>4, <2>1
  <2>2. ASSUME NEW rows \in Contents[z],
               store' = [y \in DOMAIN store \cup {z} |->
                           IF y = z THEN [apex |-> z, serial |-> edits + 1, records |-> rows]
                           ELSE store[y]]
        PROVE  store' \in Zones /\ StoredZones(store')
    <3> DEFINE e == [apex |-> z, serial |-> edits + 1, records |-> rows]
    <3>1. rows \in Seq(Records) /\ z \in Seq(Nat) /\ edits + 1 \in Nat
      <4>1. rows \in Seq(StoredRows) /\ z \in Seq(Nat)
        BY NativeSigningAssumption
      <4>2. StoredRows \subseteq Records
        <5>1. NoSig \in Sigs
          BY DEF NoSig, Sigs
        <5> QED
          BY <5>1 DEF StoredRows, Records
      <4> QED
        BY <1>5, <4>1, <4>2, SeqMonotonic
    <3>2. e \in Entries /\ AsStored(z, e)
      BY <1>5, <3>1 DEF Entries, AsStored
    <3> HIDE DEF e
    <3>3. store' = [y \in DOMAIN store \cup {z} |-> IF y = z THEN e ELSE store[y]]
      BY <2>2 DEF e
    <3>4. DOMAIN store \cup {z} \in SUBSET Apexes /\ \A y \in DOMAIN store : store[y] \in Entries
      BY <1>4, ZonesAre
    <3>5. store' \in [DOMAIN store \cup {z} -> Entries]
      BY <3>2, <3>3, <3>4
    <3>6. store' \in Zones
      BY <3>4, <3>5, ZonesFrom, Zenon
    <3>7. StoredZones(store')
      BY <1>4, <3>2, <3>3 DEF StoredZones
    <3> QED
      BY <3>6, <3>7
  <2>3. CASE store' = [y \in DOMAIN store \ {z} |-> store[y]]
    <3>1. DOMAIN store \ {z} \in SUBSET Apexes /\ \A y \in DOMAIN store : store[y] \in Entries
      BY <1>4, ZonesAre
    <3>2. store' \in [DOMAIN store \ {z} -> Entries]
      BY <2>3, <3>1
    <3>3. store' \in Zones
      BY <3>1, <3>2, ZonesFrom, Zenon
    <3> QED
      BY <1>4, <2>3, <3>3 DEF StoredZones
  <2> QED
    BY <2>1, <2>2, <2>3 DEF Edit, EditKeys
<1>8. Types'
  BY <1>1, <1>4, <1>5, <1>6, <1>7 DEF Types
<1> QED
  BY <1>2, <1>3, <1>7, <1>8 DEF Inv

THEOREM NextInv == Inv /\ [Next]_vars => Inv'
<1> SUFFICES ASSUME Inv, [Next]_vars PROVE Inv'
  OBVIOUS
<1>1. ASSUME NEW c \in Cycles, Begin(c) \/ Step(c) PROVE Inv'
  BY <1>1, BeginInv, PublishInv, CaptureInv, SignZoneInv, SignFailsInv DEF Step
<1>2. CASE \/ Start \/ BindFails \/ Stop \/ Stopped
           \/ \E l \in Listeners : Bind(l) \/ Close(l)
  BY <1>2, OwnerInv
<1>3. ASSUME NEW z \in Apexes, Edit(z) \/ EditKeys(z) PROVE Inv'
  BY <1>3, EditInv
<1>4. CASE UNCHANGED vars
  <2>1. UNCHANGED <<sourceVars, live, cycle, abandoned, ownerVars>>
    BY <1>4 DEF vars
  <2>2. Types' /\ StoredZones(store)' /\ Sockets'
    BY <2>1 DEF Inv, Types, StoredZones, Sockets, sourceVars, ownerVars
  <2> QED
    BY <2>1, <2>2, CyclesRest DEF Inv
<1> QED
  BY <1>1, <1>2, <1>3, <1>4 DEF Next

THEOREM SpecInv == Spec => []Inv
BY InitInv, NextInv, PTL DEF Spec

-----------------------------------------------------------------------------
(* The variables have their types: the live zones and the store are zones   *)
(* there can be, and a cycle that signs has a zone left to sign             *)
(* (native.js, publisher/memory.js, signer/memory.js).                      *)
THEOREM NativeTypes == Spec => []TypeOK
<1>1. Inv => TypeOK
  <2> SUFFICES ASSUME Inv PROVE TypeOK
    OBVIOUS
  <2>1. /\ DOMAIN store \subseteq Apexes /\ DOMAIN live \subseteq Apexes
    BY ZonesAre DEF Inv, Types
  <2>2. \A z \in DOMAIN store :
          store[z].serial \in 0 .. MaxEdits /\ store[z].records \in Contents[z]
    BY DEF Inv, StoredZones, AsStored
  <2>3. ASSUME NEW c \in Cycles
        PROVE  /\ cycle[c].pc \in {"idle", "publish", "capture", "sign"}
               /\ cycle[c].todo \subseteq DOMAIN cycle[c].zones
               /\ cycle[c].pc = "sign" <=> cycle[c].todo # {}
               /\ cycle[c].onLive => cycle[c].todo \subseteq DOMAIN live
    <3>1. CycleShape(cycle[c]) /\ (cycle[c].onLive => SameRows(cycle[c].zones, live))
      BY DEF Inv, CyclesFit
    <3>2. cycle[c] \in CycleStates
      BY DEF Inv, Types
    <3> QED
      BY <3>1, <3>2 DEF CycleShape, SameRows, CycleStates, Places
  <2>4. /\ keyset \in [Apexes -> KeySets] /\ edits \in 0 .. MaxEdits /\ abandoned \in BOOLEAN
        /\ life \in {"stopped", "starting", "binding", "running", "rejected", "closing"}
        /\ servers \in SUBSET open /\ open \in SUBSET Listeners
    BY DEF Inv, Types, Sockets, Lives
  <2> QED
    BY <2>1, <2>2, <2>3, <2>4 DEF TypeOK
<1> QED
  BY <1>1, SpecInv, PTL

(* While a socket is bound, a zone that is live is signed, unless a cycle   *)
(* is on its way to sign it or its signing has failed; and once stop() has  *)
(* settled, no socket is bound (signer/base.js:8-9, native.js:57-71).     *)
THEOREM ZonesAreSigned == Spec => []ServedIsSigned
<1>1. Inv => ServedIsSigned
  BY DEF Inv, Served, Pending, Sockets, ServedIsSigned
<1> QED
  BY <1>1, SpecInv, PTL

-----------------------------------------------------------------------------
(* Of the elements of a sequence, none or just one is in a set.             *)
Misses(s, R) == \A i \in 1 .. Len(s) : s[i] \notin R

HitsAt(s, R, r, p) == /\ p \in 1 .. Len(s) /\ s[p] = r
                      /\ \A i \in 1 .. Len(s) : s[i] \in R => i = p

Hits(s, R, r) == r \in R /\ \E p \in 1 .. Len(s) : HitsAt(s, R, r, p)

LEMMA ConcatHits ==
  ASSUME NEW s \in Seq(Records), NEW t \in Seq(Records), NEW R, NEW r
  PROVE  /\ s \o t \in Seq(Records)
         /\ Misses(s, R) /\ Misses(t, R) => Misses(s \o t, R)
         /\ Misses(s, R) /\ Hits(t, R, r) => Hits(s \o t, R, r)
         /\ Hits(s, R, r) /\ Misses(t, R) => Hits(s \o t, R, r)
<1>1. /\ s \o t \in Seq(Records) /\ Len(s) \in Nat /\ Len(t) \in Nat
      /\ Len(s \o t) = Len(s) + Len(t)
      /\ \A i \in 1 .. Len(s) + Len(t) :
           (s \o t)[i] = IF i <= Len(s) THEN s[i] ELSE t[i - Len(s)]
  BY ConcatProperties, LenProperties
<1> DEFINE u == s \o t
<1> HIDE DEF u
<1>2. ASSUME NEW i \in 1 .. Len(u)
      PROVE  \/ i \in 1 .. Len(s) /\ u[i] = s[i]
             \/ i - Len(s) \in 1 .. Len(t) /\ u[i] = t[i - Len(s)]
  BY <1>1 DEF u
<1>3. Misses(s, R) /\ Misses(t, R) => Misses(u, R)
  BY <1>2 DEF Misses
<1>4. ASSUME Misses(s, R), Hits(t, R, r) PROVE Hits(u, R, r)
  <2>1. PICK p \in 1 .. Len(t) : HitsAt(t, R, r, p)
    BY <1>4 DEF Hits
  <2>2. Len(s) + p \in 1 .. Len(u) /\ u[Len(s) + p] = r
    BY <1>1, <2>1 DEF HitsAt, u
  <2>3. ASSUME NEW i \in 1 .. Len(u), u[i] \in R PROVE i = Len(s) + p
    <3>1. i - Len(s) \in 1 .. Len(t) /\ u[i] = t[i - Len(s)]
      BY <1>2, <1>4, <2>3 DEF Misses
    <3>2. i - Len(s) = p
      BY <2>1, <2>3, <3>1 DEF HitsAt
    <3> QED
      BY <1>1, <3>1, <3>2
  <2>4. HitsAt(u, R, r, Len(s) + p)
    BY <2>2, <2>3 DEF HitsAt
  <2> QED
    BY <1>4, <2>2, <2>4 DEF Hits
<1>5. ASSUME Hits(s, R, r), Misses(t, R) PROVE Hits(u, R, r)
  <2>1. PICK p \in 1 .. Len(s) : HitsAt(s, R, r, p)
    BY <1>5 DEF Hits
  <2>2. p \in 1 .. Len(u) /\ u[p] = r
    BY <1>1, <2>1 DEF HitsAt, u
  <2>3. ASSUME NEW i \in 1 .. Len(u), u[i] \in R PROVE i = p
    <3>1. i \in 1 .. Len(s) /\ u[i] = s[i]
      BY <1>2, <1>5, <2>3 DEF Misses
    <3> QED
      BY <2>1, <2>3, <3>1 DEF HitsAt
  <2>4. HitsAt(u, R, r, p)
    BY <2>2, <2>3 DEF HitsAt
  <2> QED
    BY <1>5, <2>2, <2>4 DEF Hits
<1> QED
  BY <1>1, <1>3, <1>4, <1>5 DEF u

LEMMA JoinedHits ==
  ASSUME NEW s \in Seq(Records), NEW a, \A j \in 1 .. 6 : a[j] \in Seq(Records),
         NEW R, NEW r, NEW p \in 1 .. 6,
         Misses(s, R), \A j \in 1 .. 6 : j # p => Misses(a[j], R), Hits(a[p], R, r)
  PROVE  Hits(Joined(s, a), R, r)
<1> DEFINE s1 == s \o a[1]
           s2 == s1 \o a[2]
           s3 == s2 \o a[3]
           s4 == s3 \o a[4]
           s5 == s4 \o a[5]
           s6 == s5 \o a[6]
           Good(t, j) == IF j < p THEN Misses(t, R) ELSE Hits(t, R, r)
<1>0. /\ a[1] \in Seq(Records) /\ a[2] \in Seq(Records) /\ a[3] \in Seq(Records)
      /\ a[4] \in Seq(Records) /\ a[5] \in Seq(Records) /\ a[6] \in Seq(Records)
  OBVIOUS
<1>1. ASSUME NEW t \in Seq(Records), NEW j \in 1 .. 6, Good(t, j - 1), a[j] \in Seq(Records)
      PROVE  t \o a[j] \in Seq(Records) /\ Good(t \o a[j], j)
  <2>1. CASE j < p
    <3>1. Misses(t, R) /\ Misses(a[j], R)
      BY <1>1, <2>1
    <3>2. t \o a[j] \in Seq(Records) /\ Misses(t \o a[j], R)
      BY <1>1, <3>1, ConcatHits
    <3> QED
      BY <2>1, <3>2
  <2>2. CASE j = p
    <3>1. Misses(t, R) /\ Hits(a[j], R, r)
      BY <1>1, <2>2
    <3>2. t \o a[j] \in Seq(Records) /\ Hits(t \o a[j], R, r)
      BY <1>1, <3>1, ConcatHits
    <3> QED
      BY <2>2, <3>2
  <2>3. CASE j > p
    <3>1. Hits(t, R, r) /\ Misses(a[j], R)
      BY <1>1, <2>3
    <3>2. t \o a[j] \in Seq(Records) /\ Hits(t \o a[j], R, r)
      BY <1>1, <3>1, ConcatHits
    <3> QED
      BY <2>3, <3>2
  <2> QED
    BY <2>1, <2>2, <2>3
<1>2. Good(s, 0)
  OBVIOUS
<1> HIDE DEF Good
<1>3. s1 \in Seq(Records) /\ Good(s1, 1)
  <2>1. Good(s, 1 - 1)
    BY <1>2
  <2> QED
    BY <1>0, <1>1, <2>1
<1> HIDE DEF s1
<1>4. s2 \in Seq(Records) /\ Good(s2, 2)
  <2>1. Good(s1, 2 - 1)
    BY <1>3
  <2> QED
    BY <1>0, <1>1, <1>3, <2>1
<1> HIDE DEF s2
<1>5. s3 \in Seq(Records) /\ Good(s3, 3)
  <2>1. Good(s2, 3 - 1)
    BY <1>4
  <2> QED
    BY <1>0, <1>1, <1>4, <2>1
<1> HIDE DEF s3
<1>6. s4 \in Seq(Records) /\ Good(s4, 4)
  <2>1. Good(s3, 4 - 1)
    BY <1>5
  <2> QED
    BY <1>0, <1>1, <1>5, <2>1
<1> HIDE DEF s4
<1>7. s5 \in Seq(Records) /\ Good(s5, 5)
  <2>1. Good(s4, 5 - 1)
    BY <1>6
  <2> QED
    BY <1>0, <1>1, <1>6, <2>1
<1> HIDE DEF s5
<1>8. s6 \in Seq(Records) /\ Good(s6, 6)
  <2>1. Good(s5, 6 - 1)
    BY <1>7
  <2> QED
    BY <1>0, <1>1, <1>7, <2>1
<1>9. Joined(s, a) = s6
  BY DEF Joined, s1, s2, s3, s4, s5, s6
<1> QED
  BY <1>8, <1>9 DEF Good

-----------------------------------------------------------------------------
(* The answers.                                                             *)
Resources == [type : Nat, data : Seq(Nat), sig : Sigs]

Asked(r, qname, qtype) ==
  /\ ~r.deleted /\ r.owner = qname /\ r.type # SOA
  /\ Matches(r, qtype) /\ IsResource(r)

LEMMA ResourceIs ==
  ASSUME NEW r \in Records
  PROVE  /\ WireType(r) \in Nat
         /\ Resource(WireType(r), r) \in Resources
         /\ Resource(RRSIG, r) \in Resources
BY DEF Resource, Resources, Records, WireType, RRSIG, TXT

LEMMA RrsetAnswerIs ==
  ASSUME NEW entry \in Entries, NEW qname, NEW qtype
  PROVE  /\ RrsetAnswer(entry, qname, qtype) \in Seq(Resources)
         /\ ToSet(RrsetAnswer(entry, qname, qtype)) =
              {Resource(WireType(r), r) : r \in {x \in ToSet(entry.records) : Asked(x, qname, qtype)}}
<1> DEFINE rows == entry.records
           asked(r) == /\ ~r.deleted /\ r.owner = qname /\ r.type # SOA
                       /\ Matches(r, qtype) /\ IsResource(r)
           I == {i \in DOMAIN rows : asked(rows[i])}
           found == Picked(rows, I)
           f == [i \in DOMAIN found |-> Resource(WireType(found[i]), found[i])]
<1>1. rows \in Seq(Records) /\ DOMAIN rows = 1 .. Len(rows)
  <2>1. entry.records \in Seq(Records)
    BY DEF Entries
  <2> QED
    BY <2>1, LenProperties
<1>2. I \subseteq 1 .. Len(rows)
  BY <1>1
<1>3. {rows[i] : i \in I} = {x \in ToSet(rows) : Asked(x, qname, qtype)}
  BY DEF ToSet, Asked
<1>4. RrsetAnswer(entry, qname, qtype) = Distinct(f)
  BY Zenon DEF RrsetAnswer
<1> HIDE DEF I, rows
<1>5. found \in Seq(Records) /\ ToSet(found) = {rows[i] : i \in I}
  BY <1>1, <1>2, PickedSet
<1> HIDE DEF found
<1>6. Len(found) \in Nat /\ DOMAIN found = 1 .. Len(found)
  BY <1>5, LenProperties
<1>7. ASSUME NEW i \in 1 .. Len(found) PROVE Resource(WireType(found[i]), found[i]) \in Resources
  BY <1>5, ElementOfSeq, ResourceIs
<1>8. f \in [1 .. Len(found) -> Resources]
  BY <1>6, <1>7
<1>9. ToSet(f) = {Resource(WireType(r), r) : r \in ToSet(found)}
  BY DEF ToSet
<1> HIDE DEF f
<1>10. f \in Seq(Resources)
  BY <1>6, <1>8, SeqIs
<1>11. Distinct(f) \in Seq(Resources) /\ ToSet(Distinct(f)) = ToSet(f)
  BY <1>10, DistinctIs
<1> QED
  BY <1>3, <1>4, <1>5, <1>9, <1>11 DEF rows

(* The signatures over some types at a name.                                *)
Over(qname, types) ==
  {r \in Records : ~r.deleted /\ r.type = RRSIG /\ r.owner = qname /\ r.sig.covers \in types}

LEMMA SignaturesType ==
  ASSUME NEW entry \in Entries, NEW qname, NEW types
  PROVE  Signatures(entry, qname, types) \in Seq(Resources)
<1> DEFINE rows == entry.records
           over(x) == ~x.deleted /\ x.type = RRSIG /\ x.owner = qname /\ x.sig.covers \in types
           I == {i \in DOMAIN rows : over(rows[i])}
           found == Picked(rows, I)
           f == [i \in DOMAIN found |-> Resource(RRSIG, found[i])]
<1>1. rows \in Seq(Records) /\ DOMAIN rows = 1 .. Len(rows)
  <2>1. entry.records \in Seq(Records)
    BY DEF Entries
  <2> QED
    BY <2>1, LenProperties
<1>2. I \subseteq 1 .. Len(rows)
  BY <1>1
<1>3. Signatures(entry, qname, types) = f
  BY Zenon DEF Signatures
<1> HIDE DEF I, rows
<1>4. found \in Seq(Records)
  BY <1>1, <1>2, PickedSet
<1> HIDE DEF found
<1>5. Len(found) \in Nat /\ DOMAIN found = 1 .. Len(found)
  BY <1>4, LenProperties
<1>6. ASSUME NEW i \in 1 .. Len(found) PROVE Resource(RRSIG, found[i]) \in Resources
  BY <1>4, ElementOfSeq, ResourceIs
<1>7. f \in [1 .. Len(found) -> Resources]
  BY <1>5, <1>6
<1> HIDE DEF f
<1> QED
  BY <1>3, <1>5, <1>7, SeqIs

LEMMA SignaturesIs ==
  ASSUME NEW entry \in Entries, NEW qname, NEW types, NEW r,
         Hits(entry.records, Over(qname, types), r)
  PROVE  Signatures(entry, qname, types) = <<Resource(RRSIG, r)>>
<1> DEFINE rows == entry.records
           over(x) == ~x.deleted /\ x.type = RRSIG /\ x.owner = qname /\ x.sig.covers \in types
           I == {i \in DOMAIN rows : over(rows[i])}
           found == Picked(rows, I)
           f == [i \in DOMAIN found |-> Resource(RRSIG, found[i])]
<1>1. rows \in Seq(Records) /\ DOMAIN rows = 1 .. Len(rows)
  <2>1. entry.records \in Seq(Records)
    BY DEF Entries
  <2> QED
    BY <2>1, LenProperties
<1>2. PICK p \in 1 .. Len(rows) : HitsAt(rows, Over(qname, types), r, p)
  BY DEF Hits
<1>3. ASSUME NEW i \in 1 .. Len(rows) PROVE over(rows[i]) <=> rows[i] \in Over(qname, types)
  BY <1>1, ElementOfSeq DEF Over
<1>4. I = {p}
  <2>1. rows[p] \in Over(qname, types) /\ \A i \in 1 .. Len(rows) : rows[i] \in Over(qname, types) => i = p
    BY <1>2 DEF HitsAt, Hits
  <2> QED
    BY <1>1, <1>3, <2>1
<1>5. Signatures(entry, qname, types) = f
  BY Zenon DEF Signatures
<1>6. rows[p] = r
  BY <1>2 DEF HitsAt
<1> HIDE DEF I, rows
<1>7. IsFiniteSet({p}) /\ Cardinality({p}) = 1
  BY FS_Singleton
<1>8. found \in Seq(Records) /\ Len(found) = 1 /\ Picks(rows, I, found)
  BY <1>1, <1>4, <1>7, PickedIs
<1> HIDE DEF found
<1>9. found[1] = r
  <2>1. PICK h : Follows(h, rows, I, found)
    BY <1>8 DEF Picks
  <2>2. found[1] = rows[h[1]] /\ h[1] \in I
    BY <1>8, <2>1 DEF Follows
  <2> QED
    BY <1>4, <1>6, <2>2
<1>10. DOMAIN found = 1 .. 1
  BY <1>8, LenProperties
<1>11. f = <<Resource(RRSIG, r)>>
  BY <1>9, <1>10
<1> QED
  BY <1>5, <1>11

(* A signature is good for an RRset if it is over its data, strictly in     *)
(* canonical order.                                                         *)
Covers(sig, qname, qtype, rdatas, keys) ==
  /\ sig.covers = qtype
  /\ sig.key \in keys
  /\ sig.labels = Cardinality({i \in DOMAIN qname : qname[i] # Wildcard})
  /\ ToSet(sig.rdatas) = rdatas
  /\ \A i \in 1 .. Len(sig.rdatas) - 1 : Precedes(sig.rdatas[i], sig.rdatas[i + 1])

LEMMA UpTo == ASSUME NEW n \in Nat PROVE Cardinality(1 .. n) = n
<1>1. 1 \in Int /\ n \in Int
  OBVIOUS
<1>2. Cardinality(1 .. n) = IF 1 > n THEN 0 ELSE n - 1 + 1
  BY <1>1, FS_Interval, Zenon
<1> QED
  BY <1>2

LEMMA LabelsAre ==
  ASSUME NEW qname \in Seq(Nat), \A i \in 1 .. Len(qname) - 1 : qname[i] # Wildcard
  PROVE  LabelCount(qname) = Cardinality({i \in DOMAIN qname : qname[i] # Wildcard})
<1> DEFINE n == Len(qname)
           I == {i \in DOMAIN qname : qname[i] # Wildcard}
<1>1. n \in Nat /\ DOMAIN qname = 1 .. n /\ (qname = <<>> <=> n = 0)
  BY LenProperties, EmptySeq
<1> HIDE DEF n
<1>2. LabelCount(qname) = n - (IF qname # <<>> /\ qname[n] = 0 THEN 1 ELSE 0)
  BY LabelCountIs DEF n
<1>3. CASE qname # <<>> /\ qname[n] = 0
  <2>1. I = 1 .. n - 1
    BY <1>1, <1>3 DEF Wildcard
  <2>2. Cardinality(1 .. n - 1) = n - 1
    BY <1>1, <1>3, UpTo
  <2> QED
    BY <1>2, <1>3, <2>1, <2>2
<1>4. CASE ~(qname # <<>> /\ qname[n] = 0)
  <2>1. I = 1 .. n
    BY <1>1, <1>4 DEF Wildcard
  <2>2. Cardinality(1 .. n) = n
    BY <1>1, UpTo
  <2>3. LabelCount(qname) = n
    BY <1>1, <1>2, <1>4
  <2> QED
    BY <2>1, <2>2, <2>3
<1> QED
  BY <1>3, <1>4

LEMMA SignatureCovers ==
  ASSUME NEW qname \in Seq(Nat), \A i \in 1 .. Len(qname) - 1 : qname[i] # Wildcard,
         NEW qtype \in Nat, NEW rdatas \in Seq(Seq(Nat)), NEW key \in Seq(Nat), NEW keys, key \in keys,
         \A i, j \in 1 .. Len(rdatas) : rdatas[i] = rdatas[j] => i = j
  PROVE  Covers(SignRRset(qname, qtype, rdatas, key).sig, qname, qtype, ToSet(rdatas), keys)
<1> DEFINE sig == SignRRset(qname, qtype, rdatas, key).sig
<1>1. sig = [covers |-> qtype, labels |-> LabelCount(qname), key |-> key, rdatas |-> Sorted(rdatas)]
  BY SignRRsetIs
<1> HIDE DEF sig
<1>2. /\ sig.covers = qtype /\ sig.labels = LabelCount(qname) /\ sig.key = key
      /\ sig.rdatas = Sorted(rdatas)
  BY <1>1
<1>3. Sorted(rdatas) \in Seq(Seq(Nat)) /\ ToSet(Sorted(rdatas)) = ToSet(rdatas)
  BY SortedSet
<1>4. ASSUME NEW i \in 1 .. Len(sig.rdatas) - 1
      PROVE  Precedes(sig.rdatas[i], sig.rdatas[i + 1])
  <2>1. Len(sig.rdatas) \in Nat
    BY <1>2, <1>3, LenProperties
  <2>2. i \in 1 .. Len(sig.rdatas) /\ i + 1 \in 1 .. Len(sig.rdatas) /\ i < i + 1
    BY <2>1
  <2>3. \A k, l \in 1 .. Len(sig.rdatas) : k < l => Precedes(sig.rdatas[k], sig.rdatas[l])
    BY <1>2, SortedStrict
  <2> QED
    BY <2>2, <2>3
<1>5. LabelCount(qname) = Cardinality({i \in DOMAIN qname : qname[i] # Wildcard})
  BY LabelsAre
<1>6. sig.key \in keys
  BY <1>2
<1>7. ToSet(sig.rdatas) = ToSet(rdatas)
  BY <1>2, <1>3
<1> QED
  BY <1>2, <1>4, <1>5, <1>6, <1>7, Zenon DEF Covers, sig

(* An answer of an RRset and one signature.                                 *)
Counts(answer, rdatas, s, qtype) ==
  LET sigs == {i \in DOMAIN answer : answer[i].type = RRSIG}
  IN  /\ {r.data : r \in {x \in ToSet(answer) : x.type = qtype}} = rdatas
      /\ Cardinality(sigs) = 1
      /\ answer[Min(sigs)] = s

LEMMA AnswerCounts ==
  ASSUME NEW rr \in Seq(Resources), NEW s \in Resources, s.type = RRSIG, NEW qtype, qtype # RRSIG,
         \A r \in ToSet(rr) : r.type = qtype,
         NEW answer, answer = rr \o <<s>>, NEW rdatas, rdatas = {r.data : r \in ToSet(rr)}
  PROVE  Counts(answer, rdatas, s, qtype)
<1> DEFINE one == <<s>>
           n == Len(rr) + 1
           sigs == {i \in DOMAIN answer : answer[i].type = RRSIG}
<1>1. one \in Seq(Resources) /\ Len(one) = 1 /\ one[1] = s /\ ToSet(one) = {s}
  BY DEF ToSet
<1> HIDE DEF one
<1>2. answer = rr \o one
  BY DEF one
<1>3. /\ answer \in Seq(Resources) /\ Len(answer) = n /\ Len(rr) \in Nat
      /\ \A i \in 1 .. n : answer[i] = IF i <= Len(rr) THEN rr[i] ELSE one[i - Len(rr)]
      /\ ToSet(answer) = ToSet(rr) \cup ToSet(one)
  <2>1. /\ answer \in Seq(Resources) /\ Len(answer) = Len(rr) + Len(one)
        /\ \A i \in 1 .. Len(rr) + Len(one) :
             answer[i] = IF i <= Len(rr) THEN rr[i] ELSE one[i - Len(rr)]
    BY <1>1, <1>2, ConcatProperties
  <2>2. ToSet(answer) = ToSet(rr) \cup ToSet(one)
    BY <1>1, <1>2, ConcatSet
  <2>3. Len(rr) \in Nat
    BY LenProperties
  <2> QED
    BY <1>1, <2>1, <2>2, <2>3
<1>4. DOMAIN answer = 1 .. n
  BY <1>3, LenProperties
<1>5. answer[n] = s
  BY <1>1, <1>3
<1>6. ASSUME NEW i \in 1 .. n, i # n PROVE answer[i].type # RRSIG
  <2>1. i \in 1 .. Len(rr) /\ answer[i] = rr[i]
    BY <1>3, <1>6
  <2>2. rr[i] \in ToSet(rr)
    BY <2>1, SetOf
  <2> QED
    BY <2>1, <2>2
<1>7. sigs = {n}
  <2>1. n \in 1 .. n
    BY <1>3
  <2> QED
    BY <1>4, <1>5, <1>6, <2>1
<1>8. Cardinality({n}) = 1
  BY FS_Singleton
<1>9. Min({n}) = n
  <2>1. {n} \subseteq Nat /\ {n} # {}
    BY <1>3
  <2>2. Min({n}) \in {n}
    BY <2>1, Least
  <2> QED
    BY <2>2
<1>10. {x \in ToSet(answer) : x.type = qtype} = ToSet(rr)
  BY <1>1, <1>3
<1> QED
  BY <1>5, <1>7, <1>8, <1>9, <1>10 DEF Counts

-----------------------------------------------------------------------------
(* Where in a signed zone the signatures over an RRset are.                 *)
Agree(r, owner, covers, qname, qtype) ==
  r \in Over(qname, {qtype}) <=> owner = qname /\ covers = qtype

LEMMA SignOver ==
  ASSUME NEW owner \in Seq(Nat), NEW covers \in Nat, NEW rdatas \in Seq(Seq(Nat)),
         NEW key \in Seq(Nat), NEW qname, NEW qtype
  PROVE  Agree(SignRRset(owner, covers, rdatas, key), owner, covers, qname, qtype)
<1> DEFINE r == SignRRset(owner, covers, rdatas, key)
<1>1. /\ r \in Records /\ ~r.deleted /\ r.owner = owner /\ r.type = RRSIG
      /\ r.sig = [covers |-> covers, labels |-> LabelCount(owner), key |-> key,
                  rdatas |-> Sorted(rdatas)]
  BY SignRRsetIs
<1> HIDE DEF r
<1>2. r.sig.covers = covers
  BY <1>1
<1>3. r \in Over(qname, {qtype}) <=> owner = qname /\ covers = qtype
  BY <1>1, <1>2 DEF Over
<1> QED
  BY <1>3 DEF r, Agree

HitsIf(there, s, R, r) ==
  /\ ~there => Misses(s, R)
  /\ there => Hits(s, R, r)

LEMMA OneSignature ==
  ASSUME NEW owner \in Seq(Nat), NEW covers \in Nat, NEW rdatas \in Seq(Seq(Nat)),
         NEW key \in Seq(Nat), NEW qname, NEW qtype, NEW s, NEW r,
         r = SignRRset(owner, covers, rdatas, key), s = <<r>>
  PROVE  HitsIf(owner = qname /\ covers = qtype, s, Over(qname, {qtype}), r)
<1>1. r \in Over(qname, {qtype}) <=> owner = qname /\ covers = qtype
  <2>1. Agree(SignRRset(owner, covers, rdatas, key), owner, covers, qname, qtype)
    BY SignOver, Zenon
  <2>2. Agree(r, owner, covers, qname, qtype)
    BY <2>1
  <2> QED
    BY <2>2 DEF Agree
<1>2. Len(s) = 1 /\ s[1] = r /\ 1 \in 1 .. Len(s) /\ \A i \in 1 .. Len(s) : i = 1
  OBVIOUS
<1>3. ~(owner = qname /\ covers = qtype) => Misses(s, Over(qname, {qtype}))
  BY <1>1, <1>2 DEF Misses
<1>4. HitsAt(s, Over(qname, {qtype}), r, 1)
  BY <1>2 DEF HitsAt
<1> QED
  BY <1>1, <1>2, <1>3, <1>4 DEF Hits, HitsIf

LEMMA KeyRecordsMiss ==
  ASSUME NEW apex \in Seq(Nat), NEW keys \in Seq(Seq(Nat)), NEW qname, NEW types
  PROVE  Misses(KeyRecords(apex, keys), Over(qname, types))
<1> DEFINE s == KeyRecords(apex, keys)
<1>1. /\ s \in Seq(Added) /\ Len(s) = Len(keys)
      /\ \A i \in 1 .. Len(keys) : s[i] = Ready(apex, DNSKEY, keys[i])
  BY KeyRecordsAre
<1> HIDE DEF s
<1>2. ASSUME NEW i \in 1 .. Len(s) PROVE s[i].type # RRSIG
  <2>1. keys[i] \in Seq(Nat) /\ DNSKEY \in Nat
    BY <1>1, ElementOfSeq DEF DNSKEY
  <2>2. s[i].type = DNSKEY
    BY <1>1, <2>1, RowTypes
  <2> QED
    BY <2>2 DEF DNSKEY, RRSIG
<1>3. Misses(s, Over(qname, types))
  BY <1>2 DEF Misses, Over
<1> QED
  BY <1>3 DEF s

LEMMA NsecRecordsMiss ==
  ASSUME NEW apex \in Seq(Nat), NEW rows \in Seq(Records), NEW qname, NEW types
  PROVE  Misses(NsecRecords(apex, rows), Over(qname, types))
<1> DEFINE s == NsecRecords(apex, rows)
           owners == Owners(apex, rows)
<1>1. ASSUME NEW i \in 1 .. Len(s) PROVE s[i].type # RRSIG
  <2>1. Len(s) = Len(owners) /\ owners[i] \in Seq(Nat) /\ After(owners, i) \in Seq(Nat)
    BY NsecRecordsAre
  <2>2. s[i] = Ready(owners[i], NSEC, NsecRdata(After(owners, i), TypesAt(owners[i], apex, rows)))
    BY NsecRecordsAre
  <2>3. NsecRdata(After(owners, i), TypesAt(owners[i], apex, rows)) \in Seq(Nat) /\ NSEC \in Nat
    BY <2>1, TypesAtIs, NsecRdataType DEF NSEC
  <2> HIDE DEF s, owners
  <2>4. s[i].type = NSEC
    BY <2>1, <2>2, <2>3, RowTypes
  <2> QED
    BY <2>4 DEF NSEC, RRSIG
<1> HIDE DEF s
<1>2. Misses(s, Over(qname, types))
  BY <1>1 DEF Misses, Over
<1> QED
  BY <1>2 DEF s

LEMMA NsecSignaturesMiss ==
  ASSUME NEW nsecs \in Seq(Records), NEW key \in Seq(Nat), NEW qname, NEW qtype, qtype # NSEC
  PROVE  Misses(NsecSignatures(nsecs, key), Over(qname, {qtype}))
<1> DEFINE s == NsecSignatures(nsecs, key)
<1>1. /\ Len(s) = Len(nsecs)
      /\ \A i \in 1 .. Len(nsecs) :
              /\ nsecs[i].owner \in Seq(Nat) /\ <<nsecs[i].data>> \in Seq(Seq(Nat))
              /\ s[i] = SignRRset(nsecs[i].owner, NSEC, <<nsecs[i].data>>, key)
  BY NsecSignaturesAre
<1> HIDE DEF s
<1>2. ASSUME NEW i \in 1 .. Len(s) PROVE s[i] \notin Over(qname, {qtype})
  <2> DEFINE rdatas == <<nsecs[i].data>>
  <2>1. NSEC \in Nat /\ nsecs[i].owner \in Seq(Nat) /\ rdatas \in Seq(Seq(Nat))
    BY <1>1 DEF NSEC
  <2>2. s[i] = SignRRset(nsecs[i].owner, NSEC, rdatas, key)
    BY <1>1
  <2> HIDE DEF rdatas
  <2>3. key \in Seq(Nat)
    OBVIOUS
  <2>4. s[i] \in Over(qname, {qtype}) <=> nsecs[i].owner = qname /\ NSEC = qtype
    <3>1. Agree(SignRRset(nsecs[i].owner, NSEC, rdatas, key), nsecs[i].owner, NSEC, qname, qtype)
      BY <2>1, <2>3, SignOver, Zenon
    <3>2. Agree(s[i], nsecs[i].owner, NSEC, qname, qtype)
      BY <2>2, <3>1
    <3> QED
      BY <3>2 DEF Agree
  <2> QED
    BY <2>4
<1>3. Misses(s, Over(qname, {qtype}))
  BY <1>2 DEF Misses
<1> QED
  BY <1>3 DEF s

HasRrset(rows, qname, qtype) == \E r \in ToSet(rows) : r.owner = qname /\ r.type = qtype

LEMMA RrsetSignaturesHit ==
  ASSUME NEW rows \in Seq(Records), NEW key \in Seq(Nat), NEW qname, NEW qtype
  PROVE  HitsIf(HasRrset(rows, qname, qtype), RrsetSignatures(rows, key), Over(qname, {qtype}),
                SignRRset(qname, qtype, RrsetData(rows, qname, qtype), key))
<1> DEFINE sets == Rrsets(rows)
           s == RrsetSignatures(rows, key)
           R == Over(qname, {qtype})
           rr == SignRRset(qname, qtype, RrsetData(rows, qname, qtype), key)
<1>1. /\ Len(s) = Len(sets)
      /\ \A i \in 1 .. Len(sets) :
           /\ sets[i][1] \in Seq(Nat) /\ sets[i][2] \in Nat
           /\ s[i] = SignRRset(sets[i][1], sets[i][2], RrsetData(rows, sets[i][1], sets[i][2]), key)
  BY RrsetSignaturesAre
<1>2. /\ sets \in Seq(Seq(Nat) \X Nat)
      /\ ToSet(sets) = {<<r.owner, r.type>> : r \in ToSet(rows)}
      /\ \A k, l \in 1 .. Len(sets) : sets[k] = sets[l] => k = l
  BY RrsetsAre
<1> HIDE DEF sets, s, R
<1>3. ASSUME NEW i \in 1 .. Len(sets)
      PROVE  /\ s[i] \in R <=> sets[i] = <<qname, qtype>>
             /\ sets[i] \in {<<r.owner, r.type>> : r \in ToSet(rows)}
             /\ sets[i] = <<qname, qtype>> => s[i] = rr
  <2>1. RrsetData(rows, sets[i][1], sets[i][2]) \in Seq(Seq(Nat))
    BY RrsetDataIs
  <2>2. s[i] \in R <=> sets[i][1] = qname /\ sets[i][2] = qtype
    <3>1. sets[i][1] \in Seq(Nat) /\ sets[i][2] \in Nat /\ key \in Seq(Nat)
      BY <1>1
    <3>2. s[i] = SignRRset(sets[i][1], sets[i][2], RrsetData(rows, sets[i][1], sets[i][2]), key)
      BY <1>1
    <3>3. Agree(SignRRset(sets[i][1], sets[i][2], RrsetData(rows, sets[i][1], sets[i][2]), key),
                sets[i][1], sets[i][2], qname, qtype)
      BY <2>1, <3>1, SignOver, Zenon
    <3>4. Agree(s[i], sets[i][1], sets[i][2], qname, qtype)
      BY <3>2, <3>3
    <3> QED
      BY <3>4 DEF Agree, R
  <2>3. sets[i] = <<sets[i][1], sets[i][2]>>
    <3>1. sets[i] \in Seq(Nat) \X Nat
      BY <1>2, ElementOfSeq
    <3> QED
      BY <3>1
  <2>4. sets[i] \in {<<r.owner, r.type>> : r \in ToSet(rows)}
    BY <1>2, SetOf
  <2>5. sets[i] = <<qname, qtype>> => s[i] = rr
    BY <1>1
  <2>6. sets[i] = <<qname, qtype>> <=> sets[i][1] = qname /\ sets[i][2] = qtype
    BY <2>3
  <2> QED
    BY <2>2, <2>4, <2>5, <2>6
<1> HIDE DEF rr
<1>4. ASSUME \A r \in ToSet(rows) : ~(r.owner = qname /\ r.type = qtype) PROVE Misses(s, R)
  <2>1. <<qname, qtype>> \notin {<<r.owner, r.type>> : r \in ToSet(rows)}
    BY <1>4
  <2> QED
    BY <1>1, <1>3, <2>1 DEF Misses
<1>5. ASSUME \E r \in ToSet(rows) : r.owner = qname /\ r.type = qtype PROVE Hits(s, R, rr)
  <2>1. <<qname, qtype>> \in ToSet(sets)
    BY <1>2, <1>5
  <2>2. PICK p \in 1 .. Len(sets) : sets[p] = <<qname, qtype>>
    BY <1>2, <2>1, SetOf
  <2>3. s[p] \in R /\ s[p] = rr
    BY <1>3, <2>2
  <2>4. ASSUME NEW i \in 1 .. Len(s), s[i] \in R PROVE i = p
    <3>1. i \in 1 .. Len(sets) /\ sets[i] = <<qname, qtype>>
      BY <1>1, <1>3, <2>4
    <3> QED
      BY <1>2, <2>2, <3>1
  <2>5. HitsAt(s, R, rr, p)
    BY <1>1, <2>2, <2>3, <2>4 DEF HitsAt
  <2> QED
    BY <1>1, <2>3, <2>5 DEF Hits
<1> QED
  BY <1>4, <1>5 DEF s, R, rr, HitsIf, HasRrset

-----------------------------------------------------------------------------
(* A zone that is signed: what was kept of the rows of the store, and what  *)
(* was added for the keys.                                                  *)
IsKept(z, r) ==
  /\ r \in Records /\ Live(r) /\ r.sig = NoSig
  /\ IsPrefix(z, r.owner)
  /\ r.type \notin {DNSKEY, NSEC}
  /\ r.type = SOA => r.owner = z
  /\ ToSign(r) => r.data # <<>>

Differ(s) == \A i, j \in 1 .. Len(s) : s[i] = s[j] => i = j

Parts(z, entry, base, keys) ==
  /\ z \in Seq(Nat) /\ z # <<>>
  /\ keys \in Seq(Seq(Nat)) /\ keys # <<>> /\ Differ(keys)
  /\ entry.apex = z /\ base.apex = z /\ base.serial = entry.serial
  /\ LiveRows(base.records) \in Seq(Records) /\ SignedRows(base.records) \in Seq(Records)
  /\ \A r \in ToSet(LiveRows(base.records)) : IsKept(z, r)
  /\ ToSet(SignedRows(base.records)) = {r \in ToSet(LiveRows(base.records)) : ToSign(r)}
  /\ \A p \in 1 .. 6 : Additions(base, keys)[p] \in Seq(Added)
  /\ entry.records = Joined(LiveRows(base.records), Additions(base, keys))

LEMMA SignedParts ==
  ASSUME Ordinary, NEW z \in Apexes, NEW entry \in Entries, NEW base \in Entries,
         NEW found \in KeySets, SignedFrom(z, entry, base, found), entry.apex = z
  PROVE  Parts(z, entry, base, found.keys)
<1> DEFINE kept == LiveRows(base.records)
           keys == found.keys
<1>1. z \in Seq(Nat) /\ z # <<>> /\ keys \in Seq(Seq(Nat)) /\ keys # <<>>
  <2>1. found \in FoundKeys /\ z \in Seq(Nat) \ {<<>>}
    BY NativeSigningAssumption
  <2> QED
    BY <2>1 DEF FoundKeys, SignedFrom
<1>2. Differ(keys)
  <2>1. DOMAIN keys = 1 .. Len(keys)
    BY <1>1, LenProperties
  <2> QED
    BY <2>1 DEF Ordinary, Differ
<1>3. /\ base.apex = z /\ base.serial = entry.serial /\ CanSign(base)
      /\ LiveSet(base.records) \subseteq StoredIn(z)
      /\ entry.records = SignZoneRecords(base, keys)
  BY DEF SignedFrom
<1>4. base.records \in Seq(Records)
  BY DEF Entries
<1>5. /\ kept \in Seq(Records) /\ SignedRows(base.records) \in Seq(Records)
      /\ ToSet(kept) = LiveSet(base.records)
      /\ ToSet(SignedRows(base.records)) = {r \in ToSet(base.records) : ToSign(r)}
  BY <1>4, RowsIs DEF LiveSet
<1>6. ToSet(SignedRows(base.records)) = {r \in ToSet(kept) : ToSign(r)}
  BY <1>5 DEF LiveSet, ToSign
<1>7. ASSUME NEW r \in ToSet(kept) PROVE IsKept(z, r)
  <2>1. r \in ToSet(base.records) /\ Live(r) /\ r \in StoredIn(z)
    BY <1>3, <1>5, <1>7 DEF LiveSet
  <2>2. PICK rows \in Contents[z] : r \in ToSet(rows)
    BY <2>1 DEF StoredIn
  <2>3. r \in StoredRows
    <3>1. rows \in Seq(StoredRows)
      BY NativeSigningAssumption
    <3> QED
      BY <2>2, <3>1, SetOf
  <2>4. r \in Records
    BY <1>4, <2>1, SetOf
  <2>5. r.sig = NoSig
    BY <2>3 DEF StoredRows
  <2>6. IsPrefix(z, r.owner) /\ r.type \notin {DNSKEY, NSEC} /\ (r.type = SOA => r.owner = z)
    BY <2>1, <2>2 DEF Ordinary
  <2>7. ToSign(r) => r.data # <<>>
    BY <1>3, <2>1 DEF CanSign
  <2> QED
    BY <2>1, <2>4, <2>5, <2>6, <2>7 DEF IsKept
<1>8. /\ SignZoneRecords(base, keys) = Joined(kept, Additions(base, keys))
      /\ \A p \in 1 .. 6 : Additions(base, keys)[p] \in Seq(Added)
  BY <1>1, SignZoneIs
<1> HIDE DEF kept, keys
<1>9. Parts(z, entry, base, keys)
  BY <1>1, <1>2, <1>3, <1>5, <1>6, <1>7, <1>8 DEF Parts, kept
<1> QED
  BY <1>9 DEF keys

LEMMA SignatureOwner ==
  ASSUME NEW owner \in Seq(Nat), NEW covers \in Nat, NEW rdatas \in Seq(Seq(Nat)), NEW key \in Seq(Nat),
         NEW r, r = SignRRset(owner, covers, rdatas, key)
  PROVE  r.owner = owner /\ r.type = RRSIG
<1> DEFINE x == SignRRset(owner, covers, rdatas, key)
<1>1. /\ x \in Records /\ ~x.deleted /\ x.owner = owner /\ x.type = RRSIG
      /\ x.sig = [covers |-> covers, labels |-> LabelCount(owner), key |-> key,
                  rdatas |-> Sorted(rdatas)]
  BY SignRRsetIs
<1> HIDE DEF x
<1>2. r = x
  BY DEF x
<1> QED
  BY <1>1, <1>2

(* What is added is a key at the apex, a signature or a record of NSEC.     *)
HasTypes(a, z, keys) ==
  /\ ToSet(a[1]) = {Ready(z, DNSKEY, k) : k \in ToSet(keys)}
  /\ \A p \in {2, 3, 4, 6} : \A r \in ToSet(a[p]) : r.type = RRSIG
  /\ \A r \in ToSet(a[5]) : r.type = NSEC

LEMMA AdditionTypes ==
  ASSUME NEW z, NEW entry \in Entries, NEW base \in Entries, NEW keys, Parts(z, entry, base, keys)
  PROVE  HasTypes(Additions(base, keys), z, keys)
<1> DEFINE a == Additions(base, keys)
           rows == SignedRows(base.records)
           nsecs == NsecRecords(z, rows)
<1>1. /\ z \in Seq(Nat) /\ keys \in Seq(Seq(Nat)) /\ keys # <<>> /\ base.apex = z
      /\ LiveRows(base.records) \in Seq(Records) /\ rows \in Seq(Records)
  BY DEF Parts
<1>2. /\ a[1] = KeyRecords(z, keys) /\ a[2] = DnskeySignature(base, keys)
      /\ a[3] = RrsetSignatures(rows, Zsk(keys)) /\ a[4] = SoaSignature(base, keys)
      /\ a[5] = nsecs /\ a[6] = NsecSignatures(nsecs, Zsk(keys))
  BY <1>1 DEF Additions
<1>3. /\ Zsk(keys) \in Seq(Nat) /\ Ksk(keys) \in Seq(Nat) /\ DNSKEY \in Nat /\ SOA \in Nat /\ NSEC \in Nat
  BY <1>1, KeysAre DEF DNSKEY, SOA, NSEC
<1> HIDE DEF a, rows
<1>4. ToSet(a[1]) = {Ready(z, DNSKEY, k) : k \in ToSet(keys)}
  <2>1. /\ a[1] \in Seq(Added) /\ Len(a[1]) = Len(keys)
        /\ \A i \in 1 .. Len(keys) : a[1][i] = Ready(z, DNSKEY, keys[i])
    BY <1>1, <1>2, KeyRecordsAre
  <2>2. DOMAIN a[1] = 1 .. Len(keys) /\ DOMAIN keys = 1 .. Len(keys)
    BY <1>1, <2>1, LenProperties
  <2> QED
    BY <2>1, <2>2 DEF ToSet
<1>5. ASSUME NEW r \in ToSet(a[2]) PROVE r.type = RRSIG
  <2>1. r = SignRRset(z, DNSKEY, keys, Ksk(keys))
    BY <1>1, <1>2, <1>5 DEF DnskeySignature, ToSet
  <2> QED
    BY <1>1, <1>3, <2>1, SignatureOwner
<1>6. ASSUME NEW r \in ToSet(a[4]) PROVE r.type = RRSIG
  <2> DEFINE soa == SoaRdata(base, LiveRows(base.records))
             one == <<soa>>
  <2>1. soa \in Seq(Nat)
    BY <1>1, SoaRdataType
  <2>2. one \in Seq(Seq(Nat))
    BY <2>1
  <2>3. r = SignRRset(z, SOA, one, Zsk(keys))
    BY <1>1, <1>2, <1>6 DEF SoaSignature, ToSet
  <2> HIDE DEF one
  <2>4. z \in Seq(Nat) /\ Zsk(keys) \in Seq(Nat) /\ SOA \in Nat
    BY <1>1, <1>3
  <2> QED
    BY <2>2, <2>3, <2>4, SignatureOwner
<1>7. ASSUME NEW r \in ToSet(a[3]) PROVE r.type = RRSIG
  <2> DEFINE sets == Rrsets(rows)
  <2>1. /\ a[3] \in Seq(Added) /\ Len(a[3]) = Len(sets)
        /\ \A i \in 1 .. Len(sets) :
             /\ sets[i][1] \in Seq(Nat) /\ sets[i][2] \in Nat
             /\ a[3][i] = SignRRset(sets[i][1], sets[i][2],
                                    RrsetData(rows, sets[i][1], sets[i][2]), Zsk(keys))
    BY <1>1, <1>2, <1>3, RrsetSignaturesAre
  <2> HIDE DEF sets
  <2>2. PICK i \in 1 .. Len(a[3]) : a[3][i] = r
    BY <1>7, <2>1, SetOf
  <2>3. RrsetData(rows, sets[i][1], sets[i][2]) \in Seq(Seq(Nat))
    BY <1>1, RrsetDataIs
  <2>4. /\ sets[i][1] \in Seq(Nat) /\ sets[i][2] \in Nat
        /\ r = SignRRset(sets[i][1], sets[i][2], RrsetData(rows, sets[i][1], sets[i][2]), Zsk(keys))
    BY <2>1, <2>2
  <2> QED
    BY <1>3, <2>3, <2>4, SignatureOwner
<1>8. nsecs \in Seq(Added) /\ nsecs \in Seq(Records)
  <2>1. nsecs \in Seq(Added) /\ Added \subseteq Records
    BY <1>1, NsecRecordsAre DEF Added
  <2> QED
    BY <2>1, SeqMonotonic
<1>9. ASSUME NEW r \in ToSet(a[5]) PROVE r.type = NSEC
  <2> DEFINE owners == Owners(z, rows)
  <2>1. /\ Len(nsecs) = Len(owners)
        /\ \A i \in 1 .. Len(owners) :
             /\ owners[i] \in Seq(Nat) /\ After(owners, i) \in Seq(Nat)
             /\ nsecs[i] = Ready(owners[i], NSEC, NsecRdata(After(owners, i), TypesAt(owners[i], z, rows)))
    BY <1>1, NsecRecordsAre
  <2>2. PICK i \in 1 .. Len(nsecs) : nsecs[i] = r
    BY <1>2, <1>8, <1>9, SetOf
  <2> HIDE DEF nsecs, owners
  <2>3. /\ owners[i] \in Seq(Nat) /\ After(owners, i) \in Seq(Nat)
        /\ r = Ready(owners[i], NSEC, NsecRdata(After(owners, i), TypesAt(owners[i], z, rows)))
    BY <2>1, <2>2
  <2>4. NsecRdata(After(owners, i), TypesAt(owners[i], z, rows)) \in Seq(Nat)
    BY <1>1, <2>3, TypesAtIs, NsecRdataType
  <2> DEFINE after == NsecRdata(After(owners, i), TypesAt(owners[i], z, rows))
             owner == owners[i]
  <2>5. owner \in Seq(Nat) /\ after \in Seq(Nat) /\ r = Ready(owner, NSEC, after)
    BY <2>3, <2>4
  <2> HIDE DEF owner, after
  <2> QED
    BY <1>3, <2>5, RowTypes
<1> HIDE DEF nsecs
<1>10. ASSUME NEW r \in ToSet(a[6]) PROVE r.type = RRSIG
  <2>1. /\ a[6] \in Seq(Added) /\ Len(a[6]) = Len(nsecs)
        /\ \A i \in 1 .. Len(nsecs) :
             /\ nsecs[i].owner \in Seq(Nat) /\ <<nsecs[i].data>> \in Seq(Seq(Nat))
             /\ a[6][i] = SignRRset(nsecs[i].owner, NSEC, <<nsecs[i].data>>, Zsk(keys))
    BY <1>2, <1>3, <1>8, NsecSignaturesAre
  <2>2. PICK i \in 1 .. Len(a[6]) : a[6][i] = r
    BY <1>10, <2>1, SetOf
  <2> DEFINE one == <<nsecs[i].data>>
  <2>3. /\ nsecs[i].owner \in Seq(Nat) /\ one \in Seq(Seq(Nat))
        /\ r = SignRRset(nsecs[i].owner, NSEC, one, Zsk(keys))
    BY <2>1, <2>2
  <2> HIDE DEF one
  <2> QED
    BY <1>3, <2>3, SignatureOwner
<1>11. \A p \in {2, 3, 4, 6} : \A r \in ToSet(a[p]) : r.type = RRSIG
  BY <1>5, <1>6, <1>7, <1>10
<1> QED
  BY <1>4, <1>9, <1>11 DEF a, HasTypes

-----------------------------------------------------------------------------
(* The SOA of a signed zone is the one that was signed.                     *)
LEMMA SoaPrimaryStays ==
  ASSUME NEW apex, NEW s \in Seq(Records), NEW t \in Seq(Records),
         \A r \in ToSet(t) : r.type # NS
  PROVE  s \o t \in Seq(Records) /\ SoaPrimary(apex, s \o t) = SoaPrimary(apex, s)
<1> DEFINE u == s \o t
           is(r) == r.type = NS /\ ~r.deleted /\ r.owner = apex
           I == {i \in DOMAIN s : is(s[i])}
           J == {i \in DOMAIN u : is(u[i])}
<1>1. /\ u \in Seq(Records) /\ Len(s) \in Nat /\ Len(t) \in Nat
      /\ DOMAIN s = 1 .. Len(s) /\ DOMAIN u = 1 .. Len(s) + Len(t)
      /\ \A i \in 1 .. Len(s) + Len(t) : u[i] = IF i <= Len(s) THEN s[i] ELSE t[i - Len(s)]
  BY ConcatProperties, LenProperties
<1> HIDE DEF u
<1>2. ASSUME NEW i \in 1 .. Len(s) + Len(t), i > Len(s) PROVE ~is(u[i])
  <2>1. i - Len(s) \in 1 .. Len(t) /\ u[i] = t[i - Len(s)]
    BY <1>1, <1>2
  <2>2. t[i - Len(s)] \in ToSet(t)
    BY <2>1, SetOf
  <2> QED
    BY <2>1, <2>2
<1>3. \A i \in 1 .. Len(s) : i \in 1 .. Len(s) + Len(t) /\ u[i] = s[i]
  BY <1>1
<1>4. I = J
  <2>1. ASSUME NEW i \in J PROVE i \in I
    <3>1. i \in 1 .. Len(s) + Len(t) /\ is(u[i])
      BY <1>1
    <3>2. ~(i > Len(s))
      BY <1>2, <3>1
    <3>3. i \in 1 .. Len(s)
      BY <1>1, <3>1, <3>2
    <3> QED
      BY <1>1, <1>3, <3>1, <3>3
  <2>2. ASSUME NEW i \in I PROVE i \in J
    BY <1>1, <1>3
  <2> QED
    BY <2>1, <2>2
<1>5. SoaPrimary(apex, s) =
        IF I = {} \/ s[Min(I)].name = <<>> THEN ZoneRow[apex].nsname ELSE s[Min(I)]
  BY Zenon DEF SoaPrimary
<1>6. SoaPrimary(apex, u) =
        IF J = {} \/ u[Min(J)].name = <<>> THEN ZoneRow[apex].nsname ELSE u[Min(J)]
  BY Zenon DEF SoaPrimary
<1>7. CASE I = {}
  BY <1>1, <1>4, <1>5, <1>6, <1>7 DEF u
<1>8. CASE I # {}
  <2>1. I \subseteq 1 .. Len(s) /\ I \subseteq Nat
    BY <1>1
  <2> HIDE DEF I, J
  <2>2. Min(I) \in 1 .. Len(s)
    BY <1>8, <2>1, Least
  <2>3. u[Min(I)] = s[Min(I)]
    BY <1>3, <2>2
  <2> QED
    BY <1>1, <1>4, <1>5, <1>6, <1>8, <2>3 DEF u
<1> QED
  BY <1>7, <1>8

LEMMA SoaStays ==
  ASSUME NEW z, NEW entry \in Entries, NEW base \in Entries, NEW keys, Parts(z, entry, base, keys)
  PROVE  SoaRdata(entry, entry.records) = SoaRdata(base, LiveRows(base.records))
<1> DEFINE a == Additions(base, keys)
           s == LiveRows(base.records)
           s1 == s \o a[1]
           s2 == s1 \o a[2]
           s3 == s2 \o a[3]
           s4 == s3 \o a[4]
           s5 == s4 \o a[5]
           s6 == s5 \o a[6]
           P(t) == t \in Seq(Records) /\ SoaPrimary(z, t) = SoaPrimary(z, s)
<1>1. /\ s \in Seq(Records) /\ entry.records = Joined(s, a)
      /\ entry.apex = z /\ base.apex = z /\ base.serial = entry.serial
      /\ z \in Seq(Nat) /\ keys \in Seq(Seq(Nat)) /\ DNSKEY \in Nat
      /\ \A p \in 1 .. 6 : a[p] \in Seq(Added)
  BY DEF Parts, DNSKEY
<1>2. ASSUME NEW p \in 1 .. 6 PROVE a[p] \in Seq(Records)
  <2>1. a[p] \in Seq(Added) /\ Added \subseteq Records
    BY <1>1 DEF Added
  <2> QED
    BY <2>1, SeqMonotonic
<1>3. ASSUME NEW p \in 1 .. 6, NEW r \in ToSet(a[p]) PROVE r.type # NS
  <2>0. HasTypes(a, z, keys)
    BY AdditionTypes, Zenon
  <2> HIDE DEF a
  <2>1. /\ ToSet(a[1]) = {Ready(z, DNSKEY, k) : k \in ToSet(keys)}
        /\ \A q \in {2, 3, 4, 6} : \A x \in ToSet(a[q]) : x.type = RRSIG
        /\ \A x \in ToSet(a[5]) : x.type = NSEC
    BY <2>0 DEF HasTypes
  <2>2. CASE p = 1
    <3>1. PICK k \in ToSet(keys) : r = Ready(z, DNSKEY, k)
      BY <2>1, <2>2, <1>3
    <3>2. k \in Seq(Nat)
      BY <1>1, SetOf
    <3>3. r.type = DNSKEY
      BY <1>1, <3>1, <3>2, RowTypes
    <3> QED
      BY <3>3 DEF DNSKEY, NS
  <2>3. CASE p = 5
    BY <1>3, <2>1, <2>3 DEF NSEC, NS
  <2>4. CASE p \in {2, 3, 4, 6}
    BY <1>3, <2>1, <2>4 DEF RRSIG, NS
  <2> QED
    BY <2>2, <2>3, <2>4
<1> HIDE DEF a, s
<1>4. ASSUME NEW t, P(t), NEW p \in 1 .. 6 PROVE P(t \o a[p])
  <2>1. a[p] \in Seq(Records) /\ \A r \in ToSet(a[p]) : r.type # NS
    BY <1>2, <1>3
  <2>2. t \o a[p] \in Seq(Records) /\ SoaPrimary(z, t \o a[p]) = SoaPrimary(z, t)
    BY <1>4, <2>1, SoaPrimaryStays
  <2> QED
    BY <1>4, <2>2
<1>5. P(s)
  BY <1>1
<1> HIDE DEF P
<1>6. P(s1)
  BY <1>4, <1>5
<1> HIDE DEF s1
<1>7. P(s2)
  BY <1>4, <1>6
<1> HIDE DEF s2
<1>8. P(s3)
  BY <1>4, <1>7
<1> HIDE DEF s3
<1>9. P(s4)
  BY <1>4, <1>8
<1> HIDE DEF s4
<1>10. P(s5)
  BY <1>4, <1>9
<1> HIDE DEF s5
<1>11. P(s6)
  BY <1>4, <1>10
<1>12. entry.records = s6
  BY <1>1 DEF Joined, s1, s2, s3, s4, s5, s6
<1>13. SoaPrimary(z, entry.records) = SoaPrimary(z, s)
  BY <1>11, <1>12 DEF P
<1> QED
  BY <1>1, <1>13 DEF SoaRdata, s

-----------------------------------------------------------------------------
(* Rows of an RRset that are signed alike are one row: from a zone to what  *)
(* was kept of its rows, and from those to the data of an RRset.            *)
IsOf(r, qname, qtype) == Live(r) /\ r.owner = qname /\ r.type = qtype

Alike(s, qname, qtype) ==
  \A i, j \in 1 .. Len(s) :
    IsOf(s[i], qname, qtype) /\ IsOf(s[j], qname, qtype) /\ s[i].data = s[j].data => i = j

LEMMA ConcatAlike ==
  ASSUME NEW s \in Seq(Records), NEW t \in Seq(Records), NEW qname, NEW qtype,
         Alike(s \o t, qname, qtype)
  PROVE  Alike(s, qname, qtype)
<1>1. /\ Len(s) \in Nat /\ Len(t) \in Nat /\ Len(s \o t) = Len(s) + Len(t)
      /\ \A i \in 1 .. Len(s) + Len(t) : (s \o t)[i] = IF i <= Len(s) THEN s[i] ELSE t[i - Len(s)]
  BY ConcatProperties, LenProperties
<1>2. \A i \in 1 .. Len(s) : i \in 1 .. Len(s \o t) /\ (s \o t)[i] = s[i]
  BY <1>1
<1> QED
  BY <1>2 DEF Alike

LEMMA JoinedAlike ==
  ASSUME NEW s \in Seq(Records), NEW a, \A p \in 1 .. 6 : a[p] \in Seq(Records),
         NEW qname, NEW qtype, Alike(Joined(s, a), qname, qtype)
  PROVE  Alike(s, qname, qtype)
<1> DEFINE s1 == s \o a[1]
           s2 == s1 \o a[2]
           s3 == s2 \o a[3]
           s4 == s3 \o a[4]
           s5 == s4 \o a[5]
<1>0. /\ a[1] \in Seq(Records) /\ a[2] \in Seq(Records) /\ a[3] \in Seq(Records)
      /\ a[4] \in Seq(Records) /\ a[5] \in Seq(Records) /\ a[6] \in Seq(Records)
  OBVIOUS
<1>1. s1 \in Seq(Records)
  BY <1>0, ConcatProperties
<1>2. s2 \in Seq(Records)
  BY <1>0, <1>1, ConcatProperties
<1>3. s3 \in Seq(Records)
  BY <1>0, <1>2, ConcatProperties
<1>4. s4 \in Seq(Records)
  BY <1>0, <1>3, ConcatProperties
<1>5. s5 \in Seq(Records)
  BY <1>0, <1>4, ConcatProperties
<1>6. Alike(s5 \o a[6], qname, qtype)
  BY DEF Joined
<1> HIDE DEF s5
<1>7. Alike(s5, qname, qtype)
  BY <1>0, <1>5, <1>6, ConcatAlike
<1> HIDE DEF s4
<1>8. Alike(s4, qname, qtype)
  BY <1>0, <1>4, <1>7, ConcatAlike DEF s5
<1> HIDE DEF s3
<1>9. Alike(s3, qname, qtype)
  BY <1>0, <1>3, <1>8, ConcatAlike DEF s4
<1> HIDE DEF s2
<1>10. Alike(s2, qname, qtype)
  BY <1>0, <1>2, <1>9, ConcatAlike DEF s3
<1> HIDE DEF s1
<1>11. Alike(s1, qname, qtype)
  BY <1>0, <1>1, <1>10, ConcatAlike DEF s2
<1> QED
  BY <1>0, <1>11, ConcatAlike DEF s1

LEMMA KeptAlike ==
  ASSUME NEW rows \in Seq(Records), NEW qname, NEW qtype, Alike(LiveRows(rows), qname, qtype)
  PROVE  Alike(rows, qname, qtype) /\ Alike(SignedRows(rows), qname, qtype)
<1> DEFINE I == {i \in DOMAIN rows : Live(rows[i])}
           J == {i \in DOMAIN rows : ToSign(rows[i])}
           s == Picked(rows, I)
           t == Picked(rows, J)
<1>1. DOMAIN rows = 1 .. Len(rows) /\ Len(rows) \in Nat
  BY LenProperties
<1>2. I \subseteq 1 .. Len(rows) /\ J \subseteq 1 .. Len(rows)
  BY <1>1
<1>3. LiveRows(rows) = s /\ SignedRows(rows) = t
  BY DEF LiveRows, SignedRows
<1>4. \A i \in 1 .. Len(rows) : i \in I <=> Live(rows[i])
  BY <1>1
<1> HIDE DEF I, J
<1>5. Picks(rows, I, s)
  BY <1>2, PickedIs
<1>6. t \in Seq(Records) /\ Picks(rows, J, t)
  BY <1>2, PickedIs
<1> HIDE DEF s, t
<1>7. Alike(rows, qname, qtype)
  <2>1. PICK h : Follows(h, rows, I, s) /\ Ascends(h, Len(s))
    BY <1>5 DEF Picks
  <2> SUFFICES ASSUME NEW i \in 1 .. Len(rows), NEW j \in 1 .. Len(rows),
                      rows[i].data = rows[j].data,
                      IsOf(rows[i], qname, qtype), IsOf(rows[j], qname, qtype)
               PROVE  i = j
    BY DEF Alike
  <2>2. i \in I /\ j \in I
    BY <1>4 DEF IsOf
  <2>3. PICK k \in 1 .. Len(s) : h[k] = i
    BY <2>1, <2>2 DEF Follows
  <2>4. PICK l \in 1 .. Len(s) : h[l] = j
    BY <2>1, <2>2 DEF Follows
  <2>5. s[k] = rows[i] /\ s[l] = rows[j]
    BY <2>1, <2>3, <2>4 DEF Follows
  <2>6. k = l
    BY <1>3, <2>5 DEF Alike
  <2> QED
    BY <2>3, <2>4, <2>6
<1>8. Alike(t, qname, qtype)
  <2>1. PICK h : Follows(h, rows, J, t) /\ Ascends(h, Len(t))
    BY <1>6 DEF Picks
  <2> SUFFICES ASSUME NEW k \in 1 .. Len(t), NEW l \in 1 .. Len(t),
                      t[k].data = t[l].data, IsOf(t[k], qname, qtype), IsOf(t[l], qname, qtype)
               PROVE  k = l
    BY DEF Alike
  <2>2. h[k] \in 1 .. Len(rows) /\ h[l] \in 1 .. Len(rows) /\ t[k] = rows[h[k]] /\ t[l] = rows[h[l]]
    BY <1>2, <2>1 DEF Follows
  <2>3. h[k] = h[l]
    BY <1>7, <2>2 DEF Alike
  <2>4. h[k] \in Nat /\ h[l] \in Nat /\ k \in Nat /\ l \in Nat /\ Len(t) \in Nat
    BY <1>1, <1>6, <2>2, LenProperties
  <2>5. ~(k < l) /\ ~(l < k)
    BY <2>1, <2>3, <2>4 DEF Ascends
  <2> QED
    BY <2>4, <2>5
<1> QED
  BY <1>3, <1>7, <1>8

LEMMA RrsetDataDiffers ==
  ASSUME NEW rows \in Seq(Records), NEW qname, NEW qtype, Alike(rows, qname, qtype),
         \A r \in ToSet(rows) : Live(r)
  PROVE  Differ(RrsetData(rows, qname, qtype))
<1> DEFINE I == {i \in DOMAIN rows : rows[i].owner = qname /\ rows[i].type = qtype}
           t == Picked(rows, I)
           d == RrsetData(rows, qname, qtype)
<1>1. DOMAIN rows = 1 .. Len(rows) /\ Len(rows) \in Nat
  BY LenProperties
<1>2. I \subseteq 1 .. Len(rows)
  BY <1>1
<1>3. d = [i \in DOMAIN t |-> t[i].data]
  BY DEF RrsetData, Data
<1>4. \A i \in I : rows[i].owner = qname /\ rows[i].type = qtype
  OBVIOUS
<1> HIDE DEF I, d
<1>5. t \in Seq(Records) /\ Picks(rows, I, t)
  BY <1>2, PickedIs
<1> HIDE DEF t
<1>6. DOMAIN t = 1 .. Len(t) /\ Len(t) \in Nat
  BY <1>5, LenProperties
<1>7. Len(d) = Len(t) /\ \A i \in 1 .. Len(t) : d[i] = t[i].data
  BY <1>3, <1>6
<1>8. PICK h : Follows(h, rows, I, t) /\ Ascends(h, Len(t))
  BY <1>5 DEF Picks
<1>9. ASSUME NEW k \in 1 .. Len(t), NEW l \in 1 .. Len(t), t[k].data = t[l].data
      PROVE  k = l
  <2>1. h[k] \in I /\ h[l] \in I /\ t[k] = rows[h[k]] /\ t[l] = rows[h[l]]
    BY <1>8 DEF Follows
  <2>2. h[k] \in 1 .. Len(rows) /\ h[l] \in 1 .. Len(rows)
    BY <1>2, <2>1
  <2>3. t[k] \in ToSet(rows) /\ t[l] \in ToSet(rows) /\ t[k] \in Records /\ t[l] \in Records
    BY <2>1, <2>2, SetOf
  <2>4. /\ t[k].owner = qname /\ t[k].type = qtype /\ t[l].owner = qname /\ t[l].type = qtype
    BY <1>4, <2>1
  <2>5. IsOf(t[k], qname, qtype) /\ IsOf(t[l], qname, qtype)
    BY <2>3, <2>4 DEF IsOf
  <2>7. h[k] = h[l]
    BY <1>9, <2>1, <2>2, <2>5 DEF Alike
  <2>8. h[k] \in Nat /\ h[l] \in Nat /\ k \in Nat /\ l \in Nat
    BY <1>1, <1>6, <2>2
  <2>9. ~(k < l) /\ ~(l < k)
    BY <1>8, <2>7, <2>8 DEF Ascends
  <2> QED
    BY <2>8, <2>9
<1> QED
  BY <1>7, <1>9 DEF Differ, d

-----------------------------------------------------------------------------
(* What a zone that is signed has, and which signature is over an RRset.    *)
IsIn(r, s, a) == r \in ToSet(s) \/ \E p \in 1 .. 6 : r \in ToSet(a[p])

LEMMA PartsAre ==
  ASSUME NEW z, NEW entry \in Entries, NEW base \in Entries, NEW keys, Parts(z, entry, base, keys)
  PROVE  /\ \A p \in 1 .. 6 : Additions(base, keys)[p] \in Seq(Records)
         /\ ToSet(LiveRows(base.records)) \subseteq ToSet(entry.records)
         /\ \A p \in 1 .. 6 : ToSet(Additions(base, keys)[p]) \subseteq ToSet(entry.records)
         /\ \A r \in ToSet(entry.records) :
              IsIn(r, LiveRows(base.records), Additions(base, keys))
<1> DEFINE a == Additions(base, keys)
           s == LiveRows(base.records)
<1>1. s \in Seq(Records) /\ entry.records = Joined(s, a) /\ \A p \in 1 .. 6 : a[p] \in Seq(Added)
  BY DEF Parts
<1> HIDE DEF a, s
<1>2. ASSUME NEW p \in 1 .. 6 PROVE a[p] \in Seq(Records)
  <2>1. a[p] \in Seq(Added) /\ Added \subseteq Records
    BY <1>1 DEF Added
  <2> QED
    BY <2>1, SeqMonotonic
<1>3. ToSet(Joined(s, a)) = ToSet(s) \cup UNION {ToSet(a[p]) : p \in 1 .. 6}
  BY <1>1, <1>2, JoinedSet
<1>4. /\ ToSet(s) \subseteq ToSet(entry.records)
      /\ \A p \in 1 .. 6 : ToSet(a[p]) \subseteq ToSet(entry.records)
      /\ \A r \in ToSet(entry.records) :
           IsIn(r, s, a)
  BY <1>1, <1>3 DEF IsIn
<1> QED
  BY <1>2, <1>4 DEF a, s

LEMMA KeptMisses ==
  ASSUME NEW z, NEW s \in Seq(Records), \A r \in ToSet(s) : IsKept(z, r), NEW qname, NEW qtype,
         qtype # 0
  PROVE  Misses(s, Over(qname, {qtype}))
<1>1. ASSUME NEW i \in 1 .. Len(s) PROVE s[i] \notin Over(qname, {qtype})
  <2>1. s[i].sig = NoSig
    BY SetOf DEF IsKept
  <2> QED
    BY <2>1 DEF Over, NoSig
<1> QED
  BY <1>1 DEF Misses

(* The signature that the signer makes over an RRset.                       *)
SignatureOver(qname, qtype, base, keys) ==
  IF qtype = DNSKEY THEN SignRRset(qname, DNSKEY, keys, Ksk(keys))
  ELSE IF qtype = SOA
  THEN SignRRset(qname, SOA, <<SoaRdata(base, LiveRows(base.records))>>, Zsk(keys))
  ELSE SignRRset(qname, qtype, RrsetData(SignedRows(base.records), qname, qtype), Zsk(keys))

IsThere(qname, qtype, z, base) ==
  IF qtype \in {DNSKEY, SOA} THEN qname = z
  ELSE \E r \in ToSet(SignedRows(base.records)) : r.owner = qname /\ r.type = qtype

LEMMA SignaturesAre ==
  ASSUME NEW z, NEW entry \in Entries, NEW base \in Entries, NEW keys, Parts(z, entry, base, keys),
         NEW qname \in Seq(Nat), NEW qtype \in Nat \ {0, NSEC}, IsThere(qname, qtype, z, base)
  PROVE  Signatures(entry, qname, {qtype}) =
           <<Resource(RRSIG, SignatureOver(qname, qtype, base, keys))>>
<1> DEFINE a == Additions(base, keys)
           s == LiveRows(base.records)
           rows == SignedRows(base.records)
           nsecs == NsecRecords(z, rows)
           R == Over(qname, {qtype})
           soa == <<SoaRdata(base, s)>>
           k == SignRRset(z, DNSKEY, keys, Ksk(keys))
           o == SignRRset(z, SOA, soa, Zsk(keys))
           x == SignatureOver(qname, qtype, base, keys)
           home == IF qtype = DNSKEY THEN 2 ELSE IF qtype = SOA THEN 4 ELSE 3
<1>1. /\ z \in Seq(Nat) /\ keys \in Seq(Seq(Nat)) /\ keys # <<>> /\ base.apex = z
      /\ s \in Seq(Records) /\ rows \in Seq(Records)
      /\ \A r \in ToSet(s) : IsKept(z, r)
      /\ ToSet(rows) = {r \in ToSet(s) : ToSign(r)}
      /\ entry.records = Joined(s, a)
  BY DEF Parts
<1>2. /\ a[1] = KeyRecords(z, keys) /\ a[2] = <<k>>
      /\ a[3] = RrsetSignatures(rows, Zsk(keys)) /\ a[4] = <<o>>
      /\ a[5] = nsecs /\ a[6] = NsecSignatures(nsecs, Zsk(keys))
  BY <1>1 DEF Additions, DnskeySignature, SoaSignature
<1>3. \A p \in 1 .. 6 : a[p] \in Seq(Records)
  BY PartsAre
<1>4. Zsk(keys) \in Seq(Nat) /\ Ksk(keys) \in Seq(Nat)
  BY <1>1, KeysAre
<1>5. soa \in Seq(Seq(Nat))
  <2>1. SoaRdata(base, s) \in Seq(Nat)
    BY <1>1, SoaRdataType
  <2> QED
    BY <2>1
<1>6. /\ qtype = DNSKEY => x = SignRRset(qname, DNSKEY, keys, Ksk(keys))
      /\ qtype = SOA => x = SignRRset(qname, SOA, soa, Zsk(keys))
      /\ qtype \notin {DNSKEY, SOA} =>
           x = SignRRset(qname, qtype, RrsetData(rows, qname, qtype), Zsk(keys))
  BY DEF SignatureOver, DNSKEY, SOA
<1>7. \A r \in ToSet(rows) : r.type \notin {DNSKEY, SOA}
  BY <1>1 DEF IsKept, ToSign
<1> HIDE DEF a, s, rows, soa, x
<1>18. k = SignRRset(z, DNSKEY, keys, Ksk(keys)) /\ o = SignRRset(z, SOA, soa, Zsk(keys))
  OBVIOUS
<1> HIDE DEF k, o
<1>8. Misses(s, R)
  BY <1>1, KeptMisses, Zenon
<1>9. Misses(a[1], R)
  BY <1>1, <1>2, KeyRecordsMiss
<1>10. Misses(a[5], R)
  BY <1>1, <1>2, NsecRecordsMiss
<1>11. Misses(a[6], R)
  <2>1. nsecs \in Seq(Records)
    BY <1>2, <1>3
  <2> QED
    BY <1>2, <1>4, <2>1, NsecSignaturesMiss
<1>12. HitsIf(z = qname /\ DNSKEY = qtype, a[2], R, k)
  <2>1. DNSKEY \in Nat /\ a[2] = <<k>>
    BY <1>2 DEF DNSKEY
  <2> QED
    BY <1>1, <1>4, <1>18, <2>1, OneSignature, Zenon
<1>13. HitsIf(z = qname /\ SOA = qtype, a[4], R, o)
  <2>1. SOA \in Nat /\ a[4] = <<o>>
    BY <1>2 DEF SOA
  <2> QED
    BY <1>4, <1>1, <1>5, <1>18, <2>1, OneSignature, Zenon
<1>14. HitsIf(HasRrset(rows, qname, qtype), a[3], R,
              SignRRset(qname, qtype, RrsetData(rows, qname, qtype), Zsk(keys)))
  <2>1. HitsIf(HasRrset(rows, qname, qtype), RrsetSignatures(rows, Zsk(keys)), R,
               SignRRset(qname, qtype, RrsetData(rows, qname, qtype), Zsk(keys)))
    BY <1>1, <1>4, RrsetSignaturesHit, Zenon
  <2> QED
    BY <1>2, <2>1
<1> HIDE DEF nsecs, R
<1>15. /\ home \in 1 .. 6
       /\ \A j \in 1 .. 6 : j # home => Misses(a[j], R)
       /\ Hits(a[home], R, x)
  <2>1. CASE qtype = DNSKEY
    <3>1. qname = z /\ DNSKEY # SOA /\ home = 2
      BY <2>1 DEF IsThere, DNSKEY, SOA
    <3>2. Hits(a[2], R, x) /\ Misses(a[4], R)
      BY <1>6, <1>12, <1>18, <1>13, <2>1, <3>1 DEF HitsIf
    <3>3. Misses(a[3], R)
      BY <1>7, <1>14, <2>1 DEF HitsIf, HasRrset
    <3> QED
      BY <1>9, <1>10, <1>11, <3>1, <3>2, <3>3
  <2>2. CASE qtype = SOA
    <3>1. qname = z /\ DNSKEY # SOA /\ home = 4
      BY <2>2 DEF IsThere, DNSKEY, SOA
    <3>2. Hits(a[4], R, x) /\ Misses(a[2], R)
      BY <1>6, <1>12, <1>18, <1>13, <2>2, <3>1 DEF HitsIf
    <3>3. Misses(a[3], R)
      BY <1>7, <1>14, <2>2 DEF HitsIf, HasRrset
    <3> QED
      BY <1>9, <1>10, <1>11, <3>1, <3>2, <3>3
  <2>3. CASE qtype \notin {DNSKEY, SOA}
    <3>1. home = 3 /\ Misses(a[2], R) /\ Misses(a[4], R)
      BY <1>12, <1>13, <2>3 DEF HitsIf
    <3>2. \E r \in ToSet(rows) : r.owner = qname /\ r.type = qtype
      BY <2>3 DEF IsThere, rows
    <3>3. Hits(a[3], R, x)
      BY <1>6, <1>14, <2>3, <3>2 DEF HitsIf, HasRrset
    <3> QED
      BY <1>9, <1>10, <1>11, <3>1, <3>3
  <2> QED
    BY <2>1, <2>2, <2>3
<1> HIDE DEF home
<1>16. Hits(entry.records, R, x)
  <2>1. Hits(Joined(s, a), R, x)
    BY <1>1, <1>3, <1>8, <1>15, JoinedHits, Zenon
  <2> QED
    BY <1>1, <2>1
<1>17. Signatures(entry, qname, {qtype}) = <<Resource(RRSIG, x)>>
  BY <1>16, SignaturesIs DEF R
<1> QED
  BY <1>17 DEF x

(* The keys of a zone that is signed are answered.                          *)
KeysOf(entry) == {r.data : r \in ToSet(Answer(entry, entry.apex, DNSKEY, FALSE))}

LEMMA AnswerIs ==
  ASSUME NEW entry \in Entries, NEW qname, NEW qtype, qtype \notin {SOA, ANY}
  PROVE  /\ Answer(entry, qname, qtype, FALSE) = RrsetAnswer(entry, qname, qtype)
         /\ Answer(entry, qname, qtype, TRUE) =
              RrsetAnswer(entry, qname, qtype) \o
                (IF RrsetAnswer(entry, qname, qtype) = <<>> THEN <<>>
                 ELSE Signatures(entry, qname,
                                 {r.type : r \in ToSet(RrsetAnswer(entry, qname, qtype))}))
<1> DEFINE rr == RrsetAnswer(entry, qname, qtype)
           sigs == Signatures(entry, qname, {r.type : r \in ToSet(rr)})
<1>1. rr \in Seq(Resources)
  BY RrsetAnswerIs
<1>2. sigs \in Seq(Resources)
  BY SignaturesType
<1>3. Answer(entry, qname, qtype, FALSE) = rr \o <<>> \o <<>> \o <<>>
  BY DEF Answer
<1>4. Answer(entry, qname, qtype, TRUE) = rr \o (IF rr = <<>> THEN <<>> ELSE sigs) \o <<>> \o <<>>
  BY DEF Answer
<1> HIDE DEF rr, sigs
<1>5. rr \o <<>> = rr /\ rr \o sigs \in Seq(Resources)
  BY <1>1, <1>2
<1>6. (rr \o sigs) \o <<>> = rr \o sigs
  BY <1>5
<1> QED
  BY <1>3, <1>4, <1>5, <1>6 DEF rr, sigs

LEMMA KeysServed ==
  ASSUME NEW z, NEW entry \in Entries, NEW base \in Entries, NEW keys, Parts(z, entry, base, keys)
  PROVE  ToSet(keys) \subseteq KeysOf(entry)
<1> DEFINE a == Additions(base, keys)
<1>1. entry.apex = z /\ z \in Seq(Nat) /\ keys \in Seq(Seq(Nat)) /\ DNSKEY \in Nat
  BY DEF Parts, DNSKEY
<1>2. HasTypes(a, z, keys)
  BY AdditionTypes, Zenon
<1>3. ToSet(a[1]) \subseteq ToSet(entry.records)
  <2>1. 1 \in 1 .. 6
    OBVIOUS
  <2> QED
    BY <2>1, PartsAre
<1>4. Answer(entry, z, DNSKEY, FALSE) = RrsetAnswer(entry, z, DNSKEY)
  <2>1. DNSKEY \notin {SOA, ANY}
    BY DEF DNSKEY, SOA, ANY
  <2> QED
    BY <2>1, AnswerIs
<1>5. ToSet(RrsetAnswer(entry, z, DNSKEY)) =
        {Resource(WireType(r), r) : r \in {y \in ToSet(entry.records) : Asked(y, z, DNSKEY)}}
  BY RrsetAnswerIs
<1> HIDE DEF a
<1>6. ASSUME NEW k \in ToSet(keys) PROVE k \in KeysOf(entry)
  <2> DEFINE r == Ready(z, DNSKEY, k)
  <2>1. r \in ToSet(entry.records)
    BY <1>2, <1>3 DEF HasTypes
  <2>2. k \in Seq(Nat)
    BY <1>1, SetOf
  <2>3. /\ r.ready /\ ~r.deleted /\ r.owner = z /\ r.type = DNSKEY /\ r.served = k
    BY <1>1, <2>2, RowTypes
  <2> HIDE DEF r
  <2>4. Asked(r, z, DNSKEY)
    BY <2>3 DEF Asked, Matches, IsResource, WireType, QuestionTypes, DNSKEY, SOA, SPF
  <2>5. Resource(WireType(r), r) \in ToSet(Answer(entry, z, DNSKEY, FALSE))
    BY <1>4, <1>5, <2>1, <2>4
  <2>6. Resource(WireType(r), r).data = k
    BY <2>3 DEF Resource
  <2> QED
    BY <1>1, <2>5, <2>6 DEF KeysOf
<1> QED
  BY <1>6

-----------------------------------------------------------------------------
(* An answer verifies if it is an RRset of different records and the         *)
(* signature over it by a key of the zone.                                  *)
Plain(qname) == \A i \in 1 .. Len(qname) - 1 : qname[i] # Wildcard

LEMMA VerifiedBy ==
  ASSUME NEW entry \in Entries, NEW qname \in Seq(Nat), Plain(qname),
         NEW qtype \in Nat, qtype # RRSIG,
         NEW rr \in Seq(Resources), \A r \in ToSet(rr) : r.type = qtype,
         NEW rdatas \in Seq(Seq(Nat)), Differ(rdatas),
         {r.data : r \in ToSet(rr)} = ToSet(rdatas),
         NEW key \in Seq(Nat), key \in KeysOf(entry),
         NEW s, s = Resource(RRSIG, SignRRset(qname, qtype, rdatas, key)),
         Answer(entry, qname, qtype, TRUE) = rr \o <<s>>
  PROVE  Verified(entry, qname, qtype)
<1> DEFINE answer == Answer(entry, qname, qtype, TRUE)
           x == SignRRset(qname, qtype, rdatas, key)
           sigs == {i \in DOMAIN answer : answer[i].type = RRSIG}
<1>1. x \in Records
  BY SignRRsetIs
<1>2. Covers(x.sig, qname, qtype, ToSet(rdatas), KeysOf(entry))
  <2>1. \A i, j \in 1 .. Len(rdatas) : rdatas[i] = rdatas[j] => i = j
    BY DEF Differ
  <2>2. \A i \in 1 .. Len(qname) - 1 : qname[i] # Wildcard
    BY DEF Plain
  <2> QED
    BY <2>1, <2>2, SignatureCovers, Zenon
<1> HIDE DEF x
<1>3. s = Resource(RRSIG, x)
  BY DEF x
<1>4. s \in Resources /\ s.type = RRSIG /\ s.sig = x.sig
  <2>1. Resource(RRSIG, x) \in Resources
    BY <1>1, ResourceIs
  <2> QED
    BY <1>3, <2>1 DEF Resource
<1>5. answer = rr \o <<s>>
  OBVIOUS
<1> HIDE DEF answer
<1>6. /\ {r.data : r \in {y \in ToSet(answer) : y.type = qtype}} = ToSet(rdatas)
      /\ Cardinality(sigs) = 1
      /\ answer[Min(sigs)] = s
  <2>1. Counts(answer, ToSet(rdatas), s, qtype)
    BY <1>4, <1>5, AnswerCounts
  <2> QED
    BY <2>1 DEF Counts
<1>7. answer[Min(sigs)].sig = x.sig
  BY <1>4, <1>6
<1> HIDE DEF sigs
<1>8. \/ Verified(entry, qname, qtype)
      \/ ~( /\ Cardinality(sigs) = 1
            /\ Covers(answer[Min(sigs)].sig, qname, qtype,
                      {r.data : r \in {y \in ToSet(answer) : y.type = qtype}}, KeysOf(entry)))
  BY Zenon DEF Verified, Covers, KeysOf, answer, sigs
<1> QED
  BY <1>2, <1>6, <1>7, <1>8

LEMMA NoneJoined ==
  /\ <<>> \o <<>> = <<>>
  /\ \A s \in Seq(Resources) : <<>> \o s = s
<1>1. <<>> \in Seq(Resources)
  OBVIOUS
<1> QED
  BY <1>1, ConcatEmptySeq

LEMMA NoAnswer ==
  ASSUME NEW entry, NEW qname, NEW qtype, Answer(entry, qname, qtype, TRUE) = <<>>
  PROVE  Verified(entry, qname, qtype)
<1> DEFINE answer == Answer(entry, qname, qtype, TRUE)
<1>1. ToSet(<<>>) = {}
  BY DEF ToSet
<1>2. {r.data : r \in {x \in ToSet(answer) : x.type = qtype}} = {}
  <2>1. answer = <<>>
    OBVIOUS
  <2> HIDE DEF answer
  <2> QED
    BY <1>1, <2>1
<1> QED
  BY <1>2, Zenon DEF Verified

LEMMA RegularIs ==
  ASSUME NEW entry \in Entries, NEW qname, NEW qtype, qtype # SPF, Regular(entry, qname, qtype),
         Agreed(entry, qname, qtype)
  PROVE  /\ Alike(entry.records, qname, qtype)
         /\ \A r \in ToSet(entry.records) :
              Live(r) /\ r.owner = qname /\ WireType(r) = qtype => r.type # SPF /\ r.served = r.data
<1> DEFINE rows == entry.records
           I == RowsOf(entry, qname, qtype)
<1>1. rows \in Seq(Records) /\ DOMAIN rows = 1 .. Len(rows)
  <2>1. entry.records \in Seq(Records)
    BY DEF Entries
  <2> QED
    BY <2>1, LenProperties
<1>2. /\ \A i, j \in I : rows[i].data = rows[j].data => i = j
      /\ \A i \in I : rows[i].type # SPF /\ rows[i].served = rows[i].data
  BY Zenon DEF Regular, Agreed
<1>3. ASSUME NEW i \in 1 .. Len(rows), Live(rows[i]), rows[i].owner = qname, WireType(rows[i]) = qtype
      PROVE  i \in I
  BY <1>1, <1>3 DEF RowsOf
<1> HIDE DEF I, rows
<1>4. Alike(rows, qname, qtype)
  <2> SUFFICES ASSUME NEW i \in 1 .. Len(rows), NEW j \in 1 .. Len(rows),
                      rows[i].data = rows[j].data,
                      IsOf(rows[i], qname, qtype), IsOf(rows[j], qname, qtype)
               PROVE  i = j
    BY DEF Alike
  <2>1. WireType(rows[i]) = qtype /\ WireType(rows[j]) = qtype
    BY DEF WireType, IsOf
  <2>2. i \in I /\ j \in I
    BY <1>3, <2>1 DEF IsOf
  <2> QED
    BY <1>2, <2>2
<1>5. ASSUME NEW r \in ToSet(rows), Live(r), r.owner = qname, WireType(r) = qtype
      PROVE  r.type # SPF /\ r.served = r.data
  <2>1. PICK i \in 1 .. Len(rows) : rows[i] = r
    BY <1>1, SetOf
  <2>2. i \in I
    BY <1>3, <1>5, <2>1
  <2> QED
    BY <1>2, <2>1, <2>2
<1> QED
  BY <1>4, <1>5 DEF rows

(* What was added to a zone is of no type that is stored.                   *)
LEMMA AddedTypes ==
  ASSUME NEW z, NEW entry \in Entries, NEW base \in Entries, NEW keys, Parts(z, entry, base, keys),
         NEW r \in ToSet(entry.records)
  PROVE  \/ r \in ToSet(LiveRows(base.records))
         \/ r \in {Ready(z, DNSKEY, k) : k \in ToSet(keys)} /\ r.type = DNSKEY
         \/ r.type \in {RRSIG, NSEC}
<1> DEFINE a == Additions(base, keys)
<1>1. HasTypes(a, z, keys)
  BY AdditionTypes, Zenon
<1>2. r \in ToSet(LiveRows(base.records)) \/ \E p \in 1 .. 6 : r \in ToSet(a[p])
  <2>1. IsIn(r, LiveRows(base.records), a)
    BY PartsAre
  <2> QED
    BY <2>1 DEF IsIn
<1> HIDE DEF a
<1>3. ASSUME NEW p \in 1 .. 6, r \in ToSet(a[p])
      PROVE  \/ r \in {Ready(z, DNSKEY, k) : k \in ToSet(keys)} /\ r.type = DNSKEY
             \/ r.type \in {RRSIG, NSEC}
  <2>1. CASE p = 1
    <3>1. r \in {Ready(z, DNSKEY, k) : k \in ToSet(keys)}
      BY <1>1, <1>3, <2>1 DEF HasTypes
    <3>2. PICK k \in ToSet(keys) : r = Ready(z, DNSKEY, k)
      BY <3>1
    <3>3. z \in Seq(Nat) /\ keys \in Seq(Seq(Nat)) /\ DNSKEY \in Nat
      BY DEF Parts, DNSKEY
    <3>4. k \in Seq(Nat)
      BY <3>3, SetOf
    <3>5. r.type = DNSKEY
      BY <3>2, <3>3, <3>4, RowTypes
    <3> QED
      BY <3>1, <3>5
  <2>2. CASE p = 5
    BY <1>1, <1>3, <2>2 DEF HasTypes
  <2>3. CASE p \in {2, 3, 4, 6}
    BY <1>1, <1>3, <2>3 DEF HasTypes
  <2> QED
    BY <2>1, <2>2, <2>3
<1> QED
  BY <1>2, <1>3

LEMMA FoundZone ==
  ASSUME NEW apexes, apexes \subseteq Apexes, NEW qname \in Seq(Nat),
         FindZone(apexes, qname) # <<>>
  PROVE  FindZone(apexes, qname) \in apexes
<1> DEFINE above == {a \in apexes : IsPrefix(a, qname)}
           lengths == {Len(a) : a \in above}
<1>1. FindZone(apexes, qname) =
        IF above = {} THEN <<>> ELSE CHOOSE a \in above : \A b \in above : Len(b) <= Len(a)
  BY Zenon DEF FindZone
<1>2. above # {}
  BY <1>1
<1>3. Len(qname) \in Nat /\ \A a \in above : Len(a) \in Nat /\ Len(a) <= Len(qname)
  <2>1. Apexes \subseteq Seq(Nat)
    BY NativeSigningAssumption
  <2> QED
    BY <2>1, LenProperties DEF IsPrefix
<1>4. above \subseteq apexes
  OBVIOUS
<1> HIDE DEF above
<1>5. lengths \subseteq 0 .. Len(qname) /\ lengths # {}
  <2>1. \A a \in above : Len(a) \in 0 .. Len(qname)
    BY <1>3
  <2> QED
    BY <1>2, <2>1
<1>6. Max(lengths) \in lengths /\ \A n \in lengths : Max(lengths) >= n
  BY <1>3, <1>5, Greatest
<1>7. PICK a \in above : Len(a) = Max(lengths)
  BY <1>6
<1>8. \A b \in above : Len(b) <= Len(a)
  BY <1>3, <1>6, <1>7
<1>9. \E c \in above : \A b \in above : Len(b) <= Len(c)
  BY <1>8
<1>10. (CHOOSE c \in above : \A b \in above : Len(b) <= Len(c)) \in above
  BY <1>9
<1> QED
  BY <1>1, <1>2, <1>4, <1>10

-----------------------------------------------------------------------------
(* A signed zone verifies: an RRset of the store, the keys, and the SOA.    *)
LEMMA RrsetVerifies ==
  ASSUME NEW z, NEW entry \in Entries, NEW base \in Entries, NEW keys, Parts(z, entry, base, keys),
         NEW qname \in Seq(Nat), Plain(qname), NEW qtype \in {A, NS, TXT, CAA},
         Regular(entry, qname, qtype), Agreed(entry, qname, qtype)
  PROVE  Verified(entry, qname, qtype)
<1> DEFINE rr == RrsetAnswer(entry, qname, qtype)
           kept == LiveRows(base.records)
           rows == SignedRows(base.records)
           X == {y \in ToSet(entry.records) : Asked(y, qname, qtype)}
           Y == {y \in ToSet(rows) : y.owner = qname /\ y.type = qtype}
           rdatas == RrsetData(rows, qname, qtype)
           types == {r.type : r \in ToSet(rr)}
           sig == SignRRset(qname, qtype, rdatas, Zsk(keys))
<1>1. /\ kept \in Seq(Records) /\ rows \in Seq(Records)
      /\ \A r \in ToSet(kept) : IsKept(z, r)
      /\ ToSet(rows) = {r \in ToSet(kept) : ToSign(r)}
      /\ keys \in Seq(Seq(Nat)) /\ keys # <<>>
      /\ entry.records = Joined(kept, Additions(base, keys))
  BY DEF Parts
<1>2. /\ qtype \in Nat \ {0, NSEC} /\ qtype \notin {SOA, ANY, SPF, DNSKEY, RRSIG, NSEC}
      /\ qtype \in QuestionTypes \cap ServedTypes /\ qtype \in TypeIds \ {SOA}
  BY DEF A, NS, TXT, CAA, NSEC, SOA, ANY, SPF, DNSKEY, RRSIG, QuestionTypes, ServedTypes, TypeIds
<1>3. /\ Alike(entry.records, qname, qtype)
      /\ \A r \in ToSet(entry.records) :
           Live(r) /\ r.owner = qname /\ WireType(r) = qtype => r.type # SPF /\ r.served = r.data
  BY <1>2, RegularIs
<1>4. rr \in Seq(Resources) /\ ToSet(rr) = {Resource(WireType(r), r) : r \in X}
  BY RrsetAnswerIs
<1> HIDE DEF kept, rows
<1>5. \A y \in X : y \in Y
  <2> SUFFICES ASSUME NEW y \in ToSet(entry.records), Asked(y, qname, qtype) PROVE y \in Y
    OBVIOUS
  <2>1. WireType(y) = qtype /\ y.owner = qname
    BY <1>2 DEF Asked, Matches
  <2>2. y.type \notin {DNSKEY, RRSIG, NSEC}
    BY <1>2, <2>1 DEF WireType, DNSKEY, RRSIG, NSEC, SPF
  <2>3. y \in ToSet(kept)
    BY <2>2, AddedTypes DEF kept
  <2>4. Live(y)
    BY <1>1, <2>3 DEF IsKept
  <2>5. y.type = qtype
    BY <1>3, <2>1, <2>4 DEF WireType
  <2>6. ToSign(y)
    BY <1>2, <2>4, <2>5 DEF ToSign
  <2> QED
    BY <1>1, <2>1, <2>3, <2>5, <2>6
<1>6. \A y \in Y : y \in X
  <2> SUFFICES ASSUME NEW y \in ToSet(rows), y.owner = qname, y.type = qtype PROVE y \in X
    OBVIOUS
  <2>1. y \in ToSet(kept) /\ ToSign(y) /\ IsKept(z, y)
    BY <1>1
  <2>2. y \in ToSet(entry.records)
    BY <2>1, PartsAre DEF kept
  <2>4. WireType(y) = qtype
    BY <1>2 DEF WireType
  <2>3. ~y.deleted /\ y.served # <<>>
    BY <1>3, <2>1, <2>2, <2>4 DEF IsKept, ToSign, Live
  <2>5. Asked(y, qname, qtype)
    BY <1>2, <2>3, <2>4 DEF Asked, Matches, IsResource
  <2> QED
    BY <2>2, <2>5
<1>7. rdatas \in Seq(Seq(Nat)) /\ ToSet(rdatas) = {r.data : r \in Y}
  <2>1. RrsetData(rows, qname, qtype) \in Seq(Seq(Nat))
    BY <1>1, RrsetDataIs
  <2>2. ToSet(RrsetData(rows, qname, qtype)) = DataIn(RrsetRows(rows, qname, qtype))
    BY <1>1, RrsetDataIs
  <2>3. RrsetRows(rows, qname, qtype) = Y
    BY DEF RrsetRows
  <2> HIDE DEF Y
  <2> QED
    BY <2>1, <2>2, <2>3 DEF DataIn
<1>8. Differ(rdatas)
  <2>1. \A p \in 1 .. 6 : Additions(base, keys)[p] \in Seq(Records)
    BY PartsAre
  <2>2. Alike(kept, qname, qtype)
    BY <1>1, <1>3, <2>1, JoinedAlike
  <2>3. Alike(rows, qname, qtype)
    <3>1. base.records \in Seq(Records)
      BY DEF Entries
    <3> QED
      BY <2>2, <3>1, KeptAlike DEF kept, rows
  <2>4. \A r \in ToSet(rows) : Live(r)
    BY <1>1 DEF IsKept
  <2> QED
    BY <1>1, <2>3, <2>4, RrsetDataDiffers, Zenon
<1>9. X = Y
  BY <1>5, <1>6
<1> HIDE DEF rr, X, rdatas
<1>10. \A y \in X : WireType(y) = qtype
  <2>1. \A y \in Y : y.type = qtype
    OBVIOUS
  <2> QED
    BY <1>2, <1>9, <2>1 DEF WireType
<1> HIDE DEF Y
<1>11. \A r \in ToSet(rr) : r.type = qtype
  BY <1>4, <1>10 DEF Resource
<1>12. {r.data : r \in ToSet(rr)} = ToSet(rdatas)
  <2>1. ASSUME NEW r \in X PROVE Resource(WireType(r), r).data = r.data
    <3>1. r \in Y
      BY <1>9
    <3>2. r \in ToSet(kept) /\ ToSign(r) /\ r.owner = qname
      BY <1>1, <3>1 DEF Y
    <3>3. r \in ToSet(entry.records)
      BY <3>2, PartsAre DEF kept
    <3>4. r.served = r.data
      BY <1>3, <1>10, <3>2, <3>3 DEF ToSign
    <3> QED
      BY <3>4 DEF Resource
  <2> QED
    BY <1>4, <1>7, <1>9, <2>1
<1>13. /\ Answer(entry, qname, qtype, TRUE) =
            rr \o (IF rr = <<>> THEN <<>> ELSE Signatures(entry, qname, types))
  BY <1>2, AnswerIs DEF rr
<1>14. CASE rr = <<>>
  <2>1. Answer(entry, qname, qtype, TRUE) = <<>>
    BY <1>13, <1>14, NoneJoined
  <2> QED
    BY <2>1, NoAnswer
<1>15. CASE rr # <<>>
  <2>1. ToSet(rr) # {}
    BY <1>4, <1>15, SetOf, LenProperties, EmptySeq
  <2>2. types = {qtype}
    BY <1>11, <2>1
  <2>3. IsThere(qname, qtype, z, base)
    <3>1. Y # {}
      BY <1>4, <1>9, <2>1
    <3> QED
      BY <1>2, <3>1 DEF IsThere, Y, rows
  <2>4. Signatures(entry, qname, {qtype}) = <<Resource(RRSIG, SignatureOver(qname, qtype, base, keys))>>
    BY <1>2, <2>3, SignaturesAre
  <2>5. SignatureOver(qname, qtype, base, keys) = sig
    BY <1>2 DEF SignatureOver, rdatas, rows
  <2>6. Zsk(keys) \in Seq(Nat) /\ Zsk(keys) \in KeysOf(entry)
    BY <1>1, KeysAre, KeysServed
  <2> DEFINE s == Resource(RRSIG, sig)
  <2>7. Answer(entry, qname, qtype, TRUE) = rr \o <<s>>
    BY <1>13, <1>15, <2>2, <2>4, <2>5
  <2>8. qtype \in Nat /\ qtype # RRSIG
    BY <1>2
  <2>9. s = Resource(RRSIG, SignRRset(qname, qtype, rdatas, Zsk(keys)))
    OBVIOUS
  <2> HIDE DEF s, sig, types
  <2> QED
    BY <1>4, <1>7, <1>8, <1>11, <1>12, <2>6, <2>7, <2>8, <2>9, VerifiedBy, Zenon
<1> QED
  BY <1>14, <1>15

LEMMA KeysVerify ==
  ASSUME NEW z, NEW entry \in Entries, NEW base \in Entries, NEW keys, Parts(z, entry, base, keys),
         NEW qname \in Seq(Nat), Plain(qname)
  PROVE  Verified(entry, qname, DNSKEY)
<1> DEFINE rr == RrsetAnswer(entry, qname, DNSKEY)
           X == {y \in ToSet(entry.records) : Asked(y, qname, DNSKEY)}
           types == {r.type : r \in ToSet(rr)}
           sig == SignRRset(qname, DNSKEY, keys, Ksk(keys))
<1>1. /\ \A r \in ToSet(LiveRows(base.records)) : IsKept(z, r)
      /\ keys \in Seq(Seq(Nat)) /\ keys # <<>> /\ Differ(keys) /\ z \in Seq(Nat)
      /\ entry.apex = z
  BY DEF Parts
<1>2. /\ DNSKEY \in Nat \ {0, NSEC} /\ DNSKEY \in Nat
      /\ DNSKEY \notin {SOA, ANY, SPF, TXT, RRSIG, NSEC}
  BY DEF NSEC, SOA, ANY, SPF, TXT, DNSKEY, RRSIG
<1>3. rr \in Seq(Resources) /\ ToSet(rr) = {Resource(WireType(r), r) : r \in X}
  BY RrsetAnswerIs
<1>4. Answer(entry, qname, DNSKEY, TRUE) =
        rr \o (IF rr = <<>> THEN <<>> ELSE Signatures(entry, qname, types))
  BY <1>2, AnswerIs
<1>5. ASSUME NEW y \in X
      PROVE  /\ WireType(y) = DNSKEY /\ qname = z
             /\ \E k \in ToSet(keys) : y.served = k
  <2>1. WireType(y) = DNSKEY /\ y.owner = qname /\ y \in ToSet(entry.records)
    BY <1>2 DEF Asked, Matches
  <2>2. y.type = DNSKEY
    BY <1>2, <2>1 DEF WireType
  <2>3. y \notin ToSet(LiveRows(base.records))
    BY <1>1, <2>2 DEF IsKept
  <2>4. y \in {Ready(z, DNSKEY, k) : k \in ToSet(keys)}
    BY <1>2, <2>1, <2>2, <2>3, AddedTypes
  <2>5. PICK k \in ToSet(keys) : y = Ready(z, DNSKEY, k)
    BY <2>4
  <2>6. k \in Seq(Nat)
    BY <1>1, SetOf
  <2>7. y.owner = z /\ y.served = k
    BY <1>1, <1>2, <2>5, <2>6, RowTypes
  <2> QED
    BY <2>1, <2>7
<1> HIDE DEF rr, X
<1>6. \A r \in ToSet(rr) : r.type = DNSKEY
  BY <1>3, <1>5 DEF Resource
<1>7. CASE rr = <<>>
  <2>1. Answer(entry, qname, DNSKEY, TRUE) = <<>>
    BY <1>4, <1>7, NoneJoined
  <2> QED
    BY <2>1, NoAnswer
<1>8. CASE rr # <<>>
  <2>1. ToSet(rr) # {}
    BY <1>3, <1>8, SetOf, LenProperties, EmptySeq
  <2>2. types = {DNSKEY}
    BY <1>6, <2>1
  <2>3. qname = z
    BY <1>3, <1>5, <2>1
  <2>4. {r.data : r \in ToSet(rr)} = ToSet(keys)
    <3>1. ASSUME NEW r \in ToSet(rr) PROVE r.data \in ToSet(keys)
      <4>1. PICK y \in X : r = Resource(WireType(y), y)
        BY <1>3
      <4> QED
        BY <1>5, <4>1 DEF Resource
    <3>2. ToSet(keys) \subseteq KeysOf(entry)
      BY KeysServed
    <3>3. Answer(entry, z, DNSKEY, FALSE) = rr
      BY <1>2, <2>3, AnswerIs DEF rr
    <3>4. KeysOf(entry) = {r.data : r \in ToSet(rr)}
      BY <1>1, <3>3 DEF KeysOf
    <3> QED
      BY <3>1, <3>2, <3>4
  <2>5. Signatures(entry, qname, {DNSKEY}) = <<Resource(RRSIG, SignatureOver(qname, DNSKEY, base, keys))>>
    <3>1. IsThere(qname, DNSKEY, z, base)
      BY <2>3 DEF IsThere
    <3> QED
      BY <1>2, <3>1, SignaturesAre
  <2>6. SignatureOver(qname, DNSKEY, base, keys) = sig
    BY DEF SignatureOver
  <2>7. Ksk(keys) \in Seq(Nat) /\ Ksk(keys) \in KeysOf(entry)
    BY <1>1, KeysAre, KeysServed
  <2> DEFINE s == Resource(RRSIG, sig)
  <2>8. Answer(entry, qname, DNSKEY, TRUE) = rr \o <<s>>
    BY <1>4, <1>8, <2>2, <2>5, <2>6
  <2>9. s = Resource(RRSIG, SignRRset(qname, DNSKEY, keys, Ksk(keys)))
    OBVIOUS
  <2>10. DNSKEY # RRSIG
    BY <1>2
  <2> HIDE DEF s, sig, types
  <2> QED
    BY <1>1, <1>2, <1>3, <1>6, <2>4, <2>7, <2>8, <2>9, <2>10, VerifiedBy, Zenon
<1> QED
  BY <1>7, <1>8

LEMMA SoaVerifies ==
  ASSUME NEW z, NEW entry \in Entries, NEW base \in Entries, NEW keys, Parts(z, entry, base, keys),
         NEW qname \in Seq(Nat), Plain(qname), Agreed(entry, qname, SOA)
  PROVE  Verified(entry, qname, SOA)
<1> DEFINE rdata == SoaRdata(entry, entry.records)
           rdatas == <<rdata>>
           soa == Resource(SOA, Row(z, SOA, rdata))
           one == <<soa>>
           sigs == Signatures(entry, z, {SOA})
           sig == SignRRset(z, SOA, rdatas, Zsk(keys))
           s == Resource(RRSIG, sig)
<1>1. /\ keys \in Seq(Seq(Nat)) /\ keys # <<>> /\ z \in Seq(Nat) /\ entry.apex = z
  BY DEF Parts
<1>2. SOA \in Nat /\ SOA \in Nat \ {0, NSEC} /\ SOA # RRSIG /\ SOA # ANY /\ SOA # DNSKEY
  BY DEF SOA, NSEC, RRSIG, ANY, DNSKEY
<1>3. RrsetAnswer(entry, qname, SOA) = <<>>
  <2> DEFINE rr == RrsetAnswer(entry, qname, SOA)
             X == {y \in ToSet(entry.records) : Asked(y, qname, SOA)}
  <2>1. X = {}
    BY DEF Asked, Matches, WireType, SOA, ANY, SPF, TXT
  <2>2. rr \in Seq(Resources) /\ ToSet(rr) = {Resource(WireType(r), r) : r \in X}
    BY RrsetAnswerIs
  <2> HIDE DEF rr, X
  <2>3. ToSet(rr) = {}
    BY <2>1, <2>2
  <2>4. rr = <<>>
    BY <2>2, <2>3, SetOf, LenProperties, EmptySeq
  <2> QED
    BY <2>4 DEF rr
<1>4. CASE qname # z \/ SoaServed(entry, entry.records) = <<>>
  <2>1. Answer(entry, qname, SOA, TRUE) = <<>> \o <<>> \o <<>> \o <<>>
    BY <1>1, <1>3, <1>4 DEF Answer
  <2>2. Answer(entry, qname, SOA, TRUE) = <<>>
    BY <2>1, NoneJoined
  <2> QED
    BY <2>2, NoAnswer
<1>5. CASE qname = z /\ SoaServed(entry, entry.records) # <<>>
  <2>0. SoaServed(entry, entry.records) = rdata
    <3>1. LET primary == SoaPrimary(entry.apex, entry.records)
              rest    == ZoneRow[entry.apex].rest
          IN  primary.served = primary.name /\ rest.served = rest.data
      BY Zenon DEF Agreed
    <3> QED
      BY <1>5, <3>1 DEF SoaServed, SoaRdata
  <2>1. Answer(entry, z, SOA, TRUE) = <<>> \o <<>> \o one \o sigs
    BY <1>1, <1>3, <1>5, <2>0 DEF Answer
  <2>2. rdata \in Seq(Nat) /\ rdatas \in Seq(Seq(Nat)) /\ ToSet(rdatas) = {rdata} /\ Differ(rdatas)
    <3>1. entry.records \in Seq(Records)
      BY DEF Entries
    <3>2. rdata \in Seq(Nat)
      BY <3>1, SoaRdataType
    <3> HIDE DEF rdata
    <3> QED
      BY <3>2 DEF ToSet, Differ
  <2>3. sigs = <<s>>
    <3>1. IsThere(z, SOA, z, base)
      BY DEF IsThere
    <3>2. sigs = <<Resource(RRSIG, SignatureOver(z, SOA, base, keys))>>
      BY <1>1, <1>2, <3>1, SignaturesAre
    <3>3. rdata = SoaRdata(base, LiveRows(base.records))
      BY SoaStays
    <3> HIDE DEF rdata
    <3>4. SignatureOver(z, SOA, base, keys) = sig
      BY <1>2, <3>3 DEF SignatureOver
    <3> QED
      BY <3>2, <3>4
  <2>4. Zsk(keys) \in Seq(Nat) /\ Zsk(keys) \in KeysOf(entry)
    BY <1>1, KeysAre, KeysServed
  <2>5. s = Resource(RRSIG, SignRRset(z, SOA, rdatas, Zsk(keys)))
    OBVIOUS
  <2> HIDE DEF s, sig, rdata, rdatas
  <2>6. soa \in Resources /\ soa.type = SOA /\ soa.data = rdata
    <3>1. /\ NoSig \in Sigs
      BY DEF NoSig, Sigs
    <3> QED
      BY <1>2, <2>2, <3>1 DEF Resource, Row, Resources
  <2> HIDE DEF soa
  <2>7. one \in Seq(Resources) /\ ToSet(one) = {soa}
    BY <2>6 DEF ToSet
  <2> HIDE DEF one
  <2>8. \A r \in ToSet(one) : r.type = SOA
    BY <2>6, <2>7
  <2>9. {r.data : r \in ToSet(one)} = ToSet(rdatas)
    BY <2>2, <2>6, <2>7
  <2>10. Answer(entry, z, SOA, TRUE) = one \o <<s>>
    BY <2>1, <2>3, <2>7, NoneJoined
  <2>11. Verified(entry, z, SOA)
    BY <1>1, <1>2, <1>5, <2>2, <2>4, <2>5, <2>7, <2>8, <2>9, <2>10, VerifiedBy, Zenon
  <2> QED
    BY <1>5, <2>11
<1> QED
  BY <1>4, <1>5

LEMMA ZoneVerifies ==
  ASSUME NEW z, NEW entry \in Entries, NEW base \in Entries, NEW keys, Parts(z, entry, base, keys),
         NEW qname \in Seq(Nat), Plain(qname), NEW qtype \in QueryTypes
  PROVE  Verifies(entry, qname, qtype)
<1>1. SUFFICES ASSUME Regular(entry, qname, qtype), Agreed(entry, qname, qtype)
               PROVE  Verified(entry, qname, qtype)
  BY Zenon DEF Verifies
<1>2. CASE qtype \in {A, NS, TXT, CAA}
  BY <1>1, <1>2, RrsetVerifies, Zenon
<1>3. CASE qtype = DNSKEY
  BY <1>3, KeysVerify
<1>4. CASE qtype = SOA
  BY <1>1, <1>4, SoaVerifies
<1> QED
  BY <1>2, <1>3, <1>4 DEF QueryTypes

(* Where the data is as it ordinarily is, a resolver that asks a zone that  *)
(* is signed gets, with each RRset of which the encoder that answers writes *)
(* what the one that signs has written, just one signature, over just this  *)
(* RRset, in canonical order, by a key of the zone: whatever the encoders   *)
(* make of the other rows, however often and by whichever cycles it has     *)
(* been signed, and whatever was edited, failed or abandoned between        *)
(* (signer/memory.js:22-24, 119-141; native.js:109-165; dnssec-sign.js:     *)
(* 88-127).                                                                 *)
THEOREM SignaturesVerify == Ordinary => (Spec => []AnswersVerify)
<1> SUFFICES ASSUME Ordinary PROVE Spec => []AnswersVerify
  OBVIOUS
<1>1. Inv => AnswersVerify
  <2> SUFFICES ASSUME Inv, NEW qname \in Names,
                      FindZone(DOMAIN live, qname) # <<>>,
                      IsSigned(live[FindZone(DOMAIN live, qname)]),
                      NEW qtype \in QueryTypes
               PROVE  Verifies(live[FindZone(DOMAIN live, qname)], qname, qtype)
    BY DEF AnswersVerify
  <2> DEFINE z == FindZone(DOMAIN live, qname)
  <2>1. z \in DOMAIN live
    <3>1. live \in Zones /\ Names \subseteq Seq(Nat)
      BY NativeSigningAssumption DEF Inv, Types
    <3>2. DOMAIN live \subseteq Apexes
      BY <3>1, ZonesAre
    <3> QED
      BY <3>1, <3>2, FoundZone
  <2> HIDE DEF z
  <2>2. live \in Zones /\ Genuine(z, live[z])
    BY <2>1 DEF Inv, Types, LiveFits
  <2>3. z \in Apexes /\ live[z] \in Entries
    BY <2>1, <2>2, ZonesAre
  <2>4. IsSigned(live[z])
    BY DEF z
  <2>5. PICK base \in Entries, found \in KeySets : SignedFrom(z, live[z], base, found)
    BY <2>2, <2>4 DEF Genuine
  <2>6. live[z].apex = z
    BY <2>2 DEF Genuine
  <2>7. Parts(z, live[z], base, found.keys)
    BY <2>3, <2>5, <2>6, SignedParts, Zenon
  <2>8. qname \in Seq(Nat) /\ Plain(qname)
    BY NativeSigningAssumption DEF Ordinary, Plain
  <2>9. Verifies(live[z], qname, qtype)
    BY <2>3, <2>7, <2>8, ZoneVerifies, Zenon
  <2> QED
    BY <2>9 DEF z
<1> QED
  BY <1>1, SpecInv, PTL

-----------------------------------------------------------------------------
(* What a bitmap of types says is what it was made of.                      *)
BitSet(octet, p) == (octet \div Weights[p]) % 2 = 1

HasBits(o, a, b, c, d, e, f, g, h) ==
  /\ (o \div 128) % 2 = a /\ (o \div 64) % 2 = b
  /\ (o \div 32) % 2 = c /\ (o \div 16) % 2 = d
  /\ (o \div 8) % 2 = e /\ (o \div 4) % 2 = f
  /\ (o \div 2) % 2 = g /\ (o \div 1) % 2 = h

LEMMA HighBits ==
  ASSUME NEW a \in 0 .. 1, NEW b \in 0 .. 1, NEW c \in 0 .. 1, NEW d \in 0 .. 1,
         NEW e \in 0 .. 1, NEW f \in 0 .. 1, NEW g \in 0 .. 1, NEW h \in 0 .. 1,
         NEW o, o = 128 * a + 64 * b + 32 * c + 16 * d + 8 * e + 4 * f + 2 * g + h
  PROVE  HasBits(o, a, b, c, d, e, f, g, h)
<1>1. /\ o \div 128 = a
      /\ o \div 64 = 2 * a + b
      /\ o \div 32 = 2 * (2 * a + b) + c
      /\ o \div 16 = 2 * (4 * a + 2 * b + c) + d
  OBVIOUS
<1>2. /\ o \div 8 = 2 * (8 * a + 4 * b + 2 * c + d) + e
      /\ o \div 4 = 2 * (16 * a + 8 * b + 4 * c + 2 * d + e) + f
      /\ o \div 2 = 2 * (32 * a + 16 * b + 8 * c + 4 * d + 2 * e + f) + g
      /\ o \div 1 = 2 * (64 * a + 32 * b + 16 * c + 8 * d + 4 * e + 2 * f + g) + h
  OBVIOUS
<1>3. ASSUME NEW n \in Nat, NEW x \in 0 .. 1 PROVE (2 * n + x) % 2 = x
  OBVIOUS
<1>4. (o \div 128) % 2 = a /\ (o \div 64) % 2 = b /\ (o \div 32) % 2 = c /\ (o \div 16) % 2 = d
  BY <1>1
<1>5. (o \div 8) % 2 = e /\ (o \div 4) % 2 = f /\ (o \div 2) % 2 = g /\ (o \div 1) % 2 = h
  BY <1>2
<1> QED
  BY <1>4, <1>5 DEF HasBits

LEMMA OctetBits ==
  ASSUME NEW bits, NEW first \in Nat, NEW p \in 1 .. 8
  PROVE  BitSet(Octet(bits, first), p) <=> first + (p - 1) \in bits
<1> DEFINE bit(i) == IF first + i \in bits THEN 1 ELSE 0
           o == Octet(bits, first)
<1>1. /\ bit(0) \in 0 .. 1 /\ bit(1) \in 0 .. 1 /\ bit(2) \in 0 .. 1 /\ bit(3) \in 0 .. 1
      /\ bit(4) \in 0 .. 1 /\ bit(5) \in 0 .. 1 /\ bit(6) \in 0 .. 1 /\ bit(7) \in 0 .. 1
  OBVIOUS
<1>2. o = 128 * bit(0) + 64 * bit(1) + 32 * bit(2) + 16 * bit(3)
            + 8 * bit(4) + 4 * bit(5) + 2 * bit(6) + bit(7)
  BY DEF Octet
<1>3. \A i : bit(i) = 1 <=> first + i \in bits
  OBVIOUS
<1> HIDE DEF bit, o
<1>4. /\ (o \div 128) % 2 = bit(0) /\ (o \div 64) % 2 = bit(1)
      /\ (o \div 32) % 2 = bit(2) /\ (o \div 16) % 2 = bit(3)
      /\ (o \div 8) % 2 = bit(4) /\ (o \div 4) % 2 = bit(5)
      /\ (o \div 2) % 2 = bit(6) /\ (o \div 1) % 2 = bit(7)
  <2>1. HasBits(o, bit(0), bit(1), bit(2), bit(3), bit(4), bit(5), bit(6), bit(7))
    BY <1>1, <1>2, HighBits
  <2> QED
    BY <2>1 DEF HasBits
<1>5. /\ Weights[1] = 128 /\ Weights[2] = 64 /\ Weights[3] = 32 /\ Weights[4] = 16
      /\ Weights[5] = 8 /\ Weights[6] = 4 /\ Weights[7] = 2 /\ Weights[8] = 1
  BY DEF Weights
<1>6. (o \div Weights[p]) % 2 = bit(p - 1)
  <2>1. p \in {1, 2, 3, 4, 5, 6, 7, 8}
    OBVIOUS
  <2> QED
    BY <1>4, <1>5, <2>1
<1>7. BitSet(o, p) <=> bit(p - 1) = 1
  BY <1>6 DEF BitSet
<1> QED
  BY <1>3, <1>7 DEF o

TypeOf(w, i, p) == 256 * w + 8 * (i - 1) + p - 1

WindowOf(o, w, width, types) ==
  /\ Len(o) = width + 2 /\ o[1] = w /\ o[2] = width
  /\ \A i \in 1 .. width, p \in 1 .. 8 :
       BitSet(o[i + 2], p) <=> TypeOf(w, i, p) \in types
  /\ \A u \in types : u \div 256 = w =>
       \E i \in 1 .. width, p \in 1 .. 8 : u = TypeOf(w, i, p)

LEMMA WindowIs ==
  ASSUME NEW w \in Nat, NEW types, types \subseteq Nat, NEW t \in types, t \div 256 = w
  PROVE  \E width \in 1 .. 32 : WindowOf(Window(w, types), w, width, types)
<1> DEFINE bits  == {x % 256 : x \in {u \in types : u \div 256 = w}}
           width == Max(bits) \div 8 + 1
           f == [i \in 1 .. width |-> Octet(bits, 8 * (i - 1))]
           head == <<w, width>>
           o == Window(w, types)
<1>1. bits \subseteq 0 .. 255 /\ bits # {}
  <2>1. ASSUME NEW b \in bits PROVE b \in 0 .. 255
    <3>1. PICK x \in types : b = x % 256
      OBVIOUS
    <3>2. x \in Nat
      OBVIOUS
    <3> QED
      BY <3>1, <3>2
  <2>2. t % 256 \in bits
    OBVIOUS
  <2> QED
    BY <2>1, <2>2
<1>2. o = head \o f
  BY <1>1 DEF Window
<1>3. ASSUME NEW b \in 0 .. 255 PROVE b \in bits <=> 256 * w + b \in types
  <2>1. ASSUME b \in bits PROVE 256 * w + b \in types
    <3>1. PICK x \in types : x \div 256 = w /\ b = x % 256
      BY <2>1
    <3>2. x \in Nat
      OBVIOUS
    <3>3. x = 256 * w + b
      BY <3>1, <3>2
    <3> QED
      BY <3>3
  <2>2. ASSUME 256 * w + b \in types PROVE b \in bits
    <3>1. (256 * w + b) \div 256 = w /\ (256 * w + b) % 256 = b
      OBVIOUS
    <3> QED
      BY <2>2, <3>1
  <2> QED
    BY <2>1, <2>2
<1>4. ASSUME NEW u \in types, w = u \div 256
      PROVE  u % 256 \in bits /\ u % 256 \in 0 .. 255 /\ u = 256 * w + (u % 256)
  <2>1. u \in Nat
    OBVIOUS
  <2>2. u % 256 \in 0 .. 255 /\ u = 256 * w + (u % 256)
    BY <1>4, <2>1
  <2>3. u % 256 \in bits
    BY <1>4
  <2> QED
    BY <1>4, <2>2, <2>3
<1> HIDE DEF bits
<1>5. Max(bits) \in 0 .. 255 /\ \A b \in bits : Max(bits) >= b
  <2>1. 255 \in Nat
    OBVIOUS
  <2>2. Max(bits) \in bits /\ \A b \in bits : Max(bits) >= b
    BY <1>1, <2>1, Greatest, Zenon
  <2> QED
    BY <1>1, <2>2
<1>6. width \in Nat /\ width <= 32
  BY <1>5
<1>7. ASSUME NEW b \in bits PROVE b \div 8 + 1 \in 1 .. width /\ (b % 8) + 1 \in 1 .. 8
  <2>1. b \in 0 .. 255 /\ b <= Max(bits)
    BY <1>1, <1>5
  <2>2. b \div 8 <= Max(bits) \div 8
    BY <1>5, <2>1
  <2> QED
    BY <1>5, <2>1, <2>2
<1> HIDE DEF width
<1>8. f \in Seq(Nat) /\ Len(f) = width /\ \A i \in 1 .. width : f[i] = Octet(bits, 8 * (i - 1))
  <2>1. f \in [1 .. width -> Nat]
    BY <1>6, OctetType
  <2>2. \A i \in 1 .. width : f[i] = Octet(bits, 8 * (i - 1))
    OBVIOUS
  <2> HIDE DEF f
  <2> QED
    BY <1>6, <2>1, <2>2, SeqIs
<1> HIDE DEF f
<1>9. head \in Seq(Nat) /\ Len(head) = 2 /\ head[1] = w /\ head[2] = width
  BY <1>6
<1> HIDE DEF head, o
<1>10. /\ Len(o) = 2 + width
       /\ \A i \in 1 .. 2 + width : o[i] = IF i <= 2 THEN head[i] ELSE f[i - 2]
  <2>1. /\ Len(head \o f) = Len(head) + Len(f)
        /\ \A i \in 1 .. Len(head) + Len(f) :
             (head \o f)[i] = IF i <= Len(head) THEN head[i] ELSE f[i - Len(head)]
    BY <1>8, <1>9, ConcatProperties
  <2> QED
    BY <1>2, <1>8, <1>9, <2>1
<1>11. o[1] = w /\ o[2] = width
  BY <1>6, <1>9, <1>10
<1>12. ASSUME NEW i \in 1 .. width, NEW p \in 1 .. 8
       PROVE  BitSet(o[i + 2], p) <=> TypeOf(w, i, p) \in types
  <2>1. i + 2 \in 1 .. 2 + width /\ i + 2 - 2 = i /\ ~(i + 2 <= 2) /\ 8 * (i - 1) \in Nat
    BY <1>6
  <2>2. o[i + 2] = Octet(bits, 8 * (i - 1))
    BY <1>8, <1>10, <2>1
  <2>3. BitSet(o[i + 2], p) <=> 8 * (i - 1) + (p - 1) \in bits
    BY <2>1, <2>2, OctetBits
  <2> DEFINE b == 8 * (i - 1) + (p - 1)
  <2>4. b \in 0 .. 255
    BY <1>6
  <2>5. 256 * w + b = TypeOf(w, i, p)
    BY <1>6 DEF TypeOf
  <2> HIDE DEF b
  <2>6. b \in bits <=> 256 * w + b \in types
    BY <1>3, <2>4
  <2>7. BitSet(o[i + 2], p) <=> b \in bits
    BY <2>3 DEF b
  <2> QED
    BY <2>5, <2>6, <2>7, Zenon
<1>13. ASSUME NEW u \in types, u \div 256 = w
       PROVE  \E i \in 1 .. width, p \in 1 .. 8 : u = TypeOf(w, i, p)
  <2> DEFINE b == u % 256
             i == b \div 8 + 1
             p == (b % 8) + 1
  <2>1. b \in bits /\ b \in 0 .. 255 /\ u = 256 * w + b
    BY <1>4, <1>13
  <2> HIDE DEF b
  <2>2. i \in 1 .. width /\ p \in 1 .. 8
    BY <1>7, <2>1
  <2>3. b = 8 * (i - 1) + (p - 1)
    BY <2>1
  <2> HIDE DEF i, p
  <2>4. u = TypeOf(w, i, p)
    BY <1>6, <2>1, <2>2, <2>3 DEF TypeOf
  <2> QED
    BY <2>2, <2>4
<1>14. Len(o) = width + 2
  BY <1>6, <1>10
<1>15. WindowOf(o, w, width, types)
  BY <1>11, <1>12, <1>13, <1>14, Zenon DEF WindowOf
<1>16. width \in 1 .. 32
  BY <1>5 DEF width
<1> QED
  BY <1>15, <1>16 DEF o

LEMMA TailOf ==
  ASSUME NEW s \in Seq(Nat), NEW t \in Seq(Nat)
  PROVE  SubSeq(s \o t, Len(s) + 1, Len(s \o t)) = t
<1> DEFINE u == s \o t
           r == SubSeq(u, Len(s) + 1, Len(u))
<1>1. /\ u \in Seq(Nat) /\ Len(s) \in Nat /\ Len(t) \in Nat /\ Len(u) = Len(s) + Len(t)
      /\ \A i \in 1 .. Len(s) + Len(t) : u[i] = IF i <= Len(s) THEN s[i] ELSE t[i - Len(s)]
  BY ConcatProperties, LenProperties
<1> HIDE DEF u
<1>2. /\ r \in Seq(Nat) /\ Len(r) = Len(t)
      /\ \A i \in 1 .. Len(t) : r[i] = u[Len(s) + i]
  <2> DEFINE m == Len(s) + 1
             n == Len(u)
  <2>1. m \in 1 .. n + 1 /\ n \in m - 1 .. n /\ m \in Int /\ n \in Int
    BY <1>1
  <2>2. SubSeq(u, m, n) \in Seq(Nat)
    BY <1>1
  <2>3. Len(SubSeq(u, m, n)) = IF m <= n THEN n - m + 1 ELSE 0
    BY <1>1, <2>1
  <2>4. \A i \in 1 .. n - m + 1 : SubSeq(u, m, n)[i] = u[m + i - 1]
    BY <1>1, <2>1
  <2> QED
    BY <1>1, <2>2, <2>3, <2>4
<1> HIDE DEF r
<1>3. ASSUME NEW i \in 1 .. Len(t) PROVE r[i] = t[i]
  <2>1. /\ r[i] = u[Len(s) + i] /\ Len(s) + i \in 1 .. Len(s) + Len(t)
        /\ ~(Len(s) + i <= Len(s)) /\ Len(s) + i - Len(s) = i
    BY <1>1, <1>2
  <2> QED
    BY <1>1, <2>1
<1> QED
  BY <1>2, <1>3, SeqEqual DEF r, u

LEMMA MiddleOf ==
  ASSUME NEW s \in Seq(Nat), NEW t \in Seq(Nat), NEW u \in Seq(Nat)
  PROVE  SubSeq(s \o t \o u, Len(s) + 1, Len(s) + Len(t)) = t
<1> DEFINE v == s \o t
           x == v \o u
           m == Len(s) + 1
           n == Len(s) + Len(t)
           r == SubSeq(x, m, n)
<1>1. /\ v \in Seq(Nat) /\ Len(s) \in Nat /\ Len(t) \in Nat /\ Len(u) \in Nat /\ Len(v) = n
      /\ \A i \in 1 .. n : v[i] = IF i <= Len(s) THEN s[i] ELSE t[i - Len(s)]
  BY ConcatProperties, LenProperties
<1> HIDE DEF v
<1>2. /\ x \in Seq(Nat) /\ Len(x) = n + Len(u)
      /\ \A i \in 1 .. n + Len(u) : x[i] = IF i <= n THEN v[i] ELSE u[i - n]
  <2>1. /\ x \in Seq(Nat) /\ Len(x) = Len(v) + Len(u)
        /\ \A i \in 1 .. Len(v) + Len(u) : x[i] = IF i <= Len(v) THEN v[i] ELSE u[i - Len(v)]
    <3>1. v \in Seq(Nat)
      BY <1>1
    <3> QED
      BY <3>1, ConcatProperties
  <2> QED
    BY <1>1, <2>1
<1> HIDE DEF x
<1>3. r \in Seq(Nat) /\ Len(r) = Len(t) /\ \A i \in 1 .. Len(t) : r[i] = x[Len(s) + i]
  <2>1. m \in Int /\ n \in Int /\ \A i \in m .. n : x[i] \in Nat
    <3>1. m \in Int /\ n \in Int /\ \A i \in m .. n : i \in 1 .. Len(x)
      BY <1>1, <1>2
    <3> QED
      BY <1>2, <3>1, ElementOfSeq
  <2> HIDE DEF m, n
  <2>2. /\ SubSeq(x, m, n) \in Seq(Nat)
        /\ Len(SubSeq(x, m, n)) = IF m <= n THEN n - m + 1 ELSE 0
        /\ \A i \in 1 .. n - m + 1 : SubSeq(x, m, n)[i] = x[m + i - 1]
    BY <2>1, SubSeqProperties
  <2>3. n - m + 1 = Len(t)
    BY <1>1 DEF m, n
  <2>4. (IF m <= n THEN n - m + 1 ELSE 0) = Len(t)
    BY <1>1 DEF m, n
  <2>5. \A i \in 1 .. Len(t) : m + i - 1 = Len(s) + i
    BY <1>1 DEF m
  <2>6. \A i \in 1 .. Len(t) : SubSeq(x, m, n)[i] = x[Len(s) + i]
    BY <2>2, <2>3, <2>5
  <2>7. Len(SubSeq(x, m, n)) = Len(t)
    BY <2>2, <2>4
  <2>8. r = SubSeq(x, m, n)
    OBVIOUS
  <2> HIDE DEF r
  <2> QED
    BY <2>2, <2>6, <2>7, <2>8
<1> HIDE DEF r
<1>4. ASSUME NEW i \in 1 .. Len(t) PROVE r[i] = t[i]
  <2>1. /\ Len(s) + i \in 1 .. n /\ Len(s) + i \in 1 .. n + Len(u) /\ Len(s) + i <= n
        /\ ~(Len(s) + i <= Len(s)) /\ Len(s) + i - Len(s) = i
    BY <1>1
  <2>2. r[i] = x[Len(s) + i]
    BY <1>3
  <2>3. x[Len(s) + i] = v[Len(s) + i]
    BY <1>2, <2>1
  <2>4. v[Len(s) + i] = t[i]
    <3>1. v[Len(s) + i] = IF Len(s) + i <= Len(s) THEN s[Len(s) + i] ELSE t[Len(s) + i - Len(s)]
      BY <1>1, <2>1
    <3> QED
      BY <2>1, <3>1
  <2> QED
    BY <2>2, <2>3, <2>4
<1> QED
  BY <1>3, <1>4, SeqEqual DEF r, x, v

TypesIn(types, w) == {t \in types : t \div 256 = w}

LEMMA WindowSays ==
  ASSUME NEW o, NEW w \in Nat, NEW width \in 1 .. 32, NEW types, WindowOf(o, w, width, types),
         NEW all, \A i \in 1 .. width + 2 : all[i] = o[i]
  PROVE  WindowTypes(all) = TypesIn(types, w)
<1> DEFINE P == {q \in (1 .. width) \X (1 .. 8) : BitSet(all[2 + q[1]], q[2])}
<1>1. /\ Len(o) = width + 2 /\ o[1] = w /\ o[2] = width
      /\ \A i \in 1 .. width, p \in 1 .. 8 : BitSet(o[i + 2], p) <=> TypeOf(w, i, p) \in types
      /\ \A u \in types : u \div 256 = w =>
           \E i \in 1 .. width, p \in 1 .. 8 : u = TypeOf(w, i, p)
  BY DEF WindowOf
<1>2. \A i \in 1 .. width + 2 : all[i] = o[i]
  OBVIOUS
<1>3. all[1] = w /\ all[2] = width
  <2>1. 1 \in 1 .. width + 2 /\ 2 \in 1 .. width + 2
    OBVIOUS
  <2> QED
    BY <1>1, <1>2, <2>1
<1>5. WindowTypes(all) = {TypeOf(w, q[1], q[2]) : q \in P}
  BY <1>3 DEF WindowTypes, BitSet, TypeOf
<1>6. ASSUME NEW i \in 1 .. width, NEW p \in 1 .. 8, BitSet(all[2 + i], p)
      PROVE  /\ TypeOf(w, i, p) \in types
             /\ TypeOf(w, i, p) \div 256 = w
  <2>1. i + 2 \in 1 .. width + 2 /\ 2 + i = i + 2
    OBVIOUS
  <2>2. BitSet(o[i + 2], p)
    BY <1>2, <1>6, <2>1
  <2>3. TypeOf(w, i, p) \in types
    BY <1>1, <2>2, Zenon
  <2> DEFINE b == 8 * (i - 1) + (p - 1)
  <2>4. b \in 0 .. 255 /\ TypeOf(w, i, p) = 256 * w + b
    BY DEF TypeOf
  <2> HIDE DEF b
  <2>5. TypeOf(w, i, p) \div 256 = w
    BY <2>4
  <2> QED
    BY <2>3, <2>5
<1>7. ASSUME NEW t \in types, t \div 256 = w
      PROVE  \E q \in P : t = TypeOf(w, q[1], q[2])
  <2>1. PICK i \in 1 .. width, p \in 1 .. 8 : t = TypeOf(w, i, p)
    BY <1>1, <1>7
  <2>2. BitSet(o[i + 2], p)
    BY <1>1, <2>1
  <2>3. i + 2 \in 1 .. width + 2 /\ 2 + i = i + 2
    OBVIOUS
  <2>4. BitSet(all[2 + i], p)
    BY <1>2, <2>2, <2>3
  <2> DEFINE q == <<i, p>>
  <2>5. q \in P /\ q[1] = i /\ q[2] = p
    BY <2>4
  <2> QED
    BY <2>1, <2>5
<1>8. ASSUME NEW q \in P
      PROVE  TypeOf(w, q[1], q[2]) \in {t \in types : t \div 256 = w}
  <2>1. q[1] \in 1 .. width /\ q[2] \in 1 .. 8 /\ BitSet(all[2 + q[1]], q[2])
    OBVIOUS
  <2> QED
    BY <1>6, <2>1
<1> HIDE DEF P
<1>9. WindowTypes(all) = {t \in types : t \div 256 = w}
  <2>1. ASSUME NEW t \in WindowTypes(all) PROVE t \in {x \in types : x \div 256 = w}
    <3>1. PICK q \in P : t = TypeOf(w, q[1], q[2])
      BY <1>5
    <3> QED
      BY <1>8, <3>1
  <2>2. \A t \in {x \in types : x \div 256 = w} : t \in WindowTypes(all)
    BY <1>5, <1>7, Zenon
  <2> QED
    BY <2>1, <2>2, Zenon
<1> QED
  BY <1>9 DEF TypesIn

LEMMA FirstWindowSays ==
  ASSUME NEW o, NEW width \in 1 .. 32, NEW types, WindowOf(o, 0, width, types),
         NEW all, \A i \in 1 .. width + 2 : all[i] = o[i]
  PROVE  WindowTypes(all) = TypesIn(types, 0)
<1> DEFINE w == 0
<1>1. w \in Nat /\ WindowOf(o, w, width, types)
  OBVIOUS
<1> HIDE DEF w
<1>2. WindowTypes(all) = TypesIn(types, w)
  BY <1>1, WindowSays
<1> QED
  BY <1>2 DEF w

LEMMA BitmapSays ==
  ASSUME NEW types, types \subseteq 0 .. 511, RRSIG \in types
  PROVE  BitmapTypes(TypeBitmap(types)) = types
<1> DEFINE first == Window(0, types)
           second == Window(1, types)
           both == first \o second
           low == {t \in types : t \div 256 = 0}
           high == {t \in types : t \div 256 = 1}
<1>1. types \subseteq Nat /\ first \in Seq(Nat) /\ second \in Seq(Nat) /\ TypeBitmap(types) = both
  <2>1. types \subseteq Nat
    OBVIOUS
  <2> QED
    BY <2>1, WindowType DEF TypeBitmap
<1>2. RRSIG \div 256 = 0
  BY DEF RRSIG
<1>3. \A t \in types : t \div 256 = 0 \/ t \div 256 = 1
  OBVIOUS
<1>4. types = low \cup high
  BY <1>3
<1> HIDE DEF low, high
<1>5. PICK width \in 1 .. 32 : WindowOf(Window(0, types), 0, width, types)
  BY <1>1, <1>2, WindowIs
<1> HIDE DEF first, second
<1>6. WindowTypes(both) = low /\ SubSeq(both, 3 + both[2], Len(both)) = second
  <2>1. WindowOf(first, 0, width, types) /\ 0 \in Nat
    BY <1>5 DEF first
  <2>2. Len(first) = width + 2 /\ first[2] = width
    BY <2>1 DEF WindowOf
  <2>3. \A i \in 1 .. Len(first) + Len(second) : both[i] = IF i <= Len(first) THEN first[i] ELSE second[i - Len(first)]
    BY <1>1, ConcatProperties
  <2>4. Len(second) \in Nat
    BY <1>1, LenProperties
  <2>5. \A i \in 1 .. width + 2 : both[i] = first[i]
    BY <2>2, <2>3, <2>4
  <2>6. SubSeq(both, Len(first) + 1, Len(both)) = second
    BY <1>1, TailOf
  <2> HIDE DEF both
  <2>7. WindowTypes(both) = TypesIn(types, 0)
    <3>1. WindowOf(first, 0, width, types)
      BY <2>1
    <3>2. 0 \in Nat
      OBVIOUS
    <3>3. \A i \in 1 .. width + 2 : both[i] = first[i]
      BY <2>5
    <3> QED
      BY <3>1, <3>3, FirstWindowSays
  <2>8. 2 \in 1 .. width + 2
    OBVIOUS
  <2>9. 3 + both[2] = Len(first) + 1
    BY <2>2, <2>5, <2>7
  <2> QED
    BY <2>6, <2>7, <2>9 DEF low, TypesIn
<1> HIDE DEF both
<1>7. BitmapTypes(both) = low \cup (IF second = <<>> THEN {} ELSE WindowTypes(second))
  BY <1>6 DEF BitmapTypes
<1>8. CASE high = {}
  <2>1. second = <<>>
    <3>1. {t \in types : t \div 256 = 1} = {}
      BY <1>8 DEF high
    <3> QED
      BY <3>1 DEF second, Window
  <2> QED
    BY <1>1, <1>4, <1>7, <1>8, <2>1
<1>9. CASE high # {}
  <2>1. PICK t \in types : t \div 256 = 1
    BY <1>9 DEF high
  <2>2. PICK wide \in 1 .. 32 : WindowOf(Window(1, types), 1, wide, types)
    BY <1>1, <2>1, WindowIs
  <2>3. WindowOf(second, 1, wide, types)
    BY <2>2 DEF second
  <2>4. Len(second) = wide + 2
    BY <2>3 DEF WindowOf
  <2>5. second # <<>>
    BY <1>1, <2>4, EmptySeq
  <2>6. WindowTypes(second) = TypesIn(types, 1)
    <3>1. WindowOf(second, 1, wide, types)
      BY <2>3
    <3>2. 1 \in Nat
      OBVIOUS
    <3>3. \A i \in 1 .. wide + 2 : second[i] = second[i]
      OBVIOUS
    <3> QED
      BY <3>1, <3>2, <3>3, WindowSays
  <2>7. WindowTypes(second) = high
    BY <2>6 DEF high, TypesIn
  <2> QED
    BY <1>1, <1>4, <1>7, <2>5, <2>7
<1> QED
  BY <1>8, <1>9

(* What a record of NSEC says: the next name, and the types.                *)
LEMMA NsecSays ==
  ASSUME NEW next \in Seq(Nat), NEW types, types \subseteq 0 .. 511, RRSIG \in types,
         NEW r, r.data = NsecRdata(next, types)
  PROVE  NextOf(r) = next /\ TypesOf(r) = types
<1> DEFINE one == <<Len(next)>>
           bitmap == TypeBitmap(types)
           d == one \o next \o bitmap
<1>1. /\ one \in Seq(Nat) /\ Len(one) = 1 /\ one[1] = Len(next) /\ Len(next) \in Nat
      /\ bitmap \in Seq(Nat)
  <2>1. types \subseteq Nat
    OBVIOUS
  <2>2. bitmap \in Seq(Nat)
    BY <2>1, NsecRdataType
  <2>3. Len(next) \in Nat
    BY LenProperties
  <2> QED
    BY <2>2, <2>3
<1>2. r.data = d
  BY DEF NsecRdata
<1> HIDE DEF one, bitmap
<1>3. /\ one \o next \in Seq(Nat) /\ Len(one \o next) = 1 + Len(next)
      /\ \A i \in 1 .. 1 + Len(next) : (one \o next)[i] = IF i <= 1 THEN one[i] ELSE next[i - 1]
  <2>1. /\ one \o next \in Seq(Nat) /\ Len(one \o next) = Len(one) + Len(next)
        /\ \A i \in 1 .. Len(one) + Len(next) :
             (one \o next)[i] = IF i <= Len(one) THEN one[i] ELSE next[i - Len(one)]
    <3>1. one \in Seq(Nat) /\ next \in Seq(Nat)
      BY <1>1
    <3> QED
      BY <3>1, ConcatProperties
  <2> QED
    BY <1>1, <2>1
<1>4. d[1] = Len(next)
  <2>1. \A i \in 1 .. Len(one \o next) + Len(bitmap) :
          d[i] = IF i <= Len(one \o next) THEN (one \o next)[i]
                 ELSE bitmap[i - Len(one \o next)]
    BY <1>1, <1>3, ConcatProperties
  <2>2. Len(bitmap) \in Nat
    BY <1>1, LenProperties
  <2>3. 1 \in 1 .. Len(one \o next) + Len(bitmap) /\ 1 <= Len(one \o next) /\ 1 \in 1 .. 1 + Len(next)
    BY <1>1, <1>3, <2>2
  <2>4. d[1] = (one \o next)[1]
    BY <2>1, <2>3
  <2>5. (one \o next)[1] = one[1]
    BY <1>3, <2>3
  <2> QED
    BY <1>1, <2>4, <2>5
<1>5. NextOf(r) = next
  <2>1. SubSeq(d, Len(one) + 1, Len(one) + Len(next)) = next
    BY <1>1, MiddleOf
  <2>2. NextOf(r) = SubSeq(d, 2, d[1] + 1)
    BY <1>2 DEF NextOf
  <2>3. Len(one) + 1 = 2 /\ Len(one) + Len(next) = d[1] + 1
    BY <1>1, <1>4
  <2> QED
    BY <2>1, <2>2, <2>3
<1>6. TypesOf(r) = types
  <2>1. SubSeq(d, Len(one \o next) + 1, Len(d)) = bitmap
    BY <1>1, <1>3, TailOf
  <2>2. TypesOf(r) = BitmapTypes(SubSeq(d, d[1] + 2, Len(d)))
    BY <1>2 DEF TypesOf
  <2>3. Len(one \o next) + 1 = d[1] + 2
    BY <1>1, <1>3, <1>4
  <2> QED
    BY <2>1, <2>2, <2>3, BitmapSays DEF bitmap
<1> QED
  BY <1>5, <1>6

-----------------------------------------------------------------------------
(* The chain of a signed zone: what it has of each type, and where.         *)
ChainRecords(entry) == {r \in ToSet(entry.records) : r.type \in TypeIds}

IsChainRecord(r, z, rows, owners, nsecs) ==
  \/ r \in ToSet(rows)
  \/ r.type \in {SOA, DNSKEY} /\ r.owner = z
  \/ r.type = RRSIG /\ r.owner \in ToSet(owners)
  \/ r.type = NSEC /\ \E i \in 1 .. Len(owners) : r = nsecs[i]

HasChain(R, z, rows, owners, nsecs) ==
  /\ \A r \in R : IsChainRecord(r, z, rows, owners, nsecs)
  /\ \A r \in ToSet(rows) : r \in R /\ r.type \in TypeIds \ {SOA, DNSKEY, NSEC}
  /\ \A i \in 1 .. Len(owners) :
       nsecs[i] \in R /\ \E r \in R : r.type = RRSIG /\ r.owner = owners[i]
  /\ \E r \in R : r.type = DNSKEY /\ r.owner = z

LEMMA SignerTypes ==
  /\ TypeIds \subseteq 0 .. 511
  /\ {SOA, RRSIG, NSEC, DNSKEY} \subseteq TypeIds
  /\ SOA # NSEC /\ SOA # DNSKEY /\ SOA # RRSIG /\ RRSIG # NSEC /\ RRSIG # DNSKEY /\ NSEC # DNSKEY
  /\ SOA \in Nat /\ RRSIG \in Nat /\ NSEC \in Nat /\ DNSKEY \in Nat
BY DEF TypeIds, A, NS, SOA, TXT, RRSIG, NSEC, DNSKEY, CAA

LEMMA ReadyFields ==
  ASSUME NEW owner \in Seq(Nat), NEW type \in Nat, NEW data \in Seq(Nat),
         NEW r, r = Ready(owner, type, data)
  PROVE  r.owner = owner /\ r.type = type /\ r.data = data
<1> DEFINE x == Ready(owner, type, data)
<1>1. x.owner = owner /\ x.type = type /\ x.data = data
  BY DEF Ready, Row
<1> HIDE DEF x
<1>2. r = x
  BY DEF x
<1> QED
  BY <1>1, <1>2

LEMMA ChainRecordsAre ==
  ASSUME NEW z, NEW entry \in Entries, NEW base \in Entries, NEW keys, Parts(z, entry, base, keys)
  PROVE  HasChain(ChainRecords(entry), z, SignedRows(base.records),
                  Owners(z, SignedRows(base.records)), NsecRecords(z, SignedRows(base.records)))
<1> DEFINE R == ChainRecords(entry)
           kept == LiveRows(base.records)
           rows == SignedRows(base.records)
           owners == Owners(z, rows)
           nsecs == NsecRecords(z, rows)
           a == Additions(base, keys)
           key == Zsk(keys)
           signed == RrsetSignatures(rows, key)
           sigs == NsecSignatures(nsecs, key)
           n == Len(owners)
<1>1. /\ z \in Seq(Nat) /\ keys \in Seq(Seq(Nat)) /\ keys # <<>> /\ base.apex = z
      /\ kept \in Seq(Records) /\ rows \in Seq(Records)
      /\ \A r \in ToSet(kept) : IsKept(z, r)
      /\ ToSet(rows) = {r \in ToSet(kept) : ToSign(r)}
  BY DEF Parts
<1>2. /\ a[1] = KeyRecords(z, keys) /\ a[2] = DnskeySignature(base, keys)
      /\ a[3] = signed /\ a[4] = SoaSignature(base, keys)
      /\ a[5] = nsecs /\ a[6] = sigs
  BY <1>1 DEF Additions
<1>3. key \in Seq(Nat) /\ Ksk(keys) \in Seq(Nat)
  BY <1>1, KeysAre
<1>4. /\ ToSet(kept) \subseteq ToSet(entry.records)
      /\ \A p \in 1 .. 6 : a[p] \in Seq(Records) /\ ToSet(a[p]) \subseteq ToSet(entry.records)
      /\ \A r \in ToSet(entry.records) : IsIn(r, kept, a)
  BY PartsAre
<1>5. HasTypes(a, z, keys)
  BY AdditionTypes, Zenon
<1>6. /\ owners \in Seq(Seq(Nat))
      /\ ToSet(owners) = {z} \cup {r.owner : r \in ToSet(rows)}
  BY <1>1, OwnersAre
<1>7. n \in Nat /\ \A o \in ToSet(owners) : \E i \in 1 .. n : owners[i] = o
  <2>1. owners \in Seq(Seq(Nat))
    BY <1>6
  <2> HIDE DEF owners
  <2>2. Len(owners) \in Nat
    BY <2>1, LenProperties
  <2>3. \A o \in ToSet(owners) : \E i \in 1 .. Len(owners) : owners[i] = o
    BY <2>1, SetOf
  <2> QED
    BY <2>2, <2>3
<1>8. \A i \in 1 .. n : owners[i] \in Seq(Nat) /\ owners[i] \in ToSet(owners)
  BY <1>6, SetOf, ElementOfSeq
<1>9. /\ nsecs \in Seq(Records) /\ Len(nsecs) = n
      /\ \A i \in 1 .. n : nsecs[i].owner = owners[i] /\ nsecs[i].type = NSEC
  <2>1. nsecs \in Seq(Added) /\ Len(nsecs) = n
    BY <1>1, NsecRecordsAre
  <2>2. nsecs \in Seq(Records)
    BY <2>1, SeqMonotonic DEF Added
  <2>3. ASSUME NEW i \in 1 .. n PROVE nsecs[i].owner = owners[i] /\ nsecs[i].type = NSEC
    <3>1. /\ owners[i] \in Seq(Nat) /\ After(owners, i) \in Seq(Nat)
          /\ nsecs[i] = Ready(owners[i], NSEC, NsecRdata(After(owners, i), TypesAt(owners[i], z, rows)))
      BY <1>1, NsecRecordsAre
    <3>2. NsecRdata(After(owners, i), TypesAt(owners[i], z, rows)) \in Seq(Nat)
      BY <1>1, <3>1, TypesAtIs, NsecRdataType
    <3> QED
      BY <3>1, <3>2, RowTypes, SignerTypes
  <2> QED
    BY <2>1, <2>2, <2>3
<1> HIDE DEF kept, rows, owners, nsecs, a, signed, sigs, key, n
<1>10. ASSUME NEW r \in R PROVE IsChainRecord(r, z, rows, owners, nsecs)
  <2>1. r \in ToSet(entry.records) /\ r.type \in TypeIds
    BY DEF ChainRecords
  <2>2. IsIn(r, kept, a)
    BY <1>4, <2>1
  <2>3. CASE r \in ToSet(kept)
    <3>1. Live(r) /\ (r.type = SOA => r.owner = z)
      BY <1>1, <2>3 DEF IsKept
    <3>2. CASE r.type = SOA
      BY <3>1, <3>2 DEF IsChainRecord
    <3>3. CASE r.type # SOA
      <4>1. ToSign(r)
        BY <2>1, <3>1, <3>3 DEF ToSign
      <4> QED
        BY <1>1, <2>3, <4>1 DEF IsChainRecord
    <3> QED
      BY <3>2, <3>3
  <2>4. ASSUME NEW p \in 1 .. 6, r \in ToSet(a[p])
        PROVE  IsChainRecord(r, z, rows, owners, nsecs)
    <3>1. CASE p = 1
      <4>1. PICK k \in ToSet(keys) : r = Ready(z, DNSKEY, k)
        BY <1>5, <2>4, <3>1 DEF HasTypes
      <4>2. k \in Seq(Nat)
        BY <1>1, SetOf
      <4>3. r.type = DNSKEY /\ r.owner = z
        BY <1>1, <4>1, <4>2, RowTypes, SignerTypes
      <4> QED
        BY <4>3 DEF IsChainRecord
    <3>2. CASE p = 5
      <4>1. r \in ToSet(nsecs) /\ r.type = NSEC
        BY <1>2, <1>5, <2>4, <3>2 DEF HasTypes
      <4>2. \E i \in 1 .. n : nsecs[i] = r
        BY <1>9, <4>1, SetOf
      <4> QED
        BY <4>1, <4>2 DEF IsChainRecord, n
    <3>3. CASE p \in {2, 3, 4, 6}
      <4>1. r.type = RRSIG
        BY <1>5, <2>4, <3>3 DEF HasTypes
      <4>2. CASE p = 2
        <5>1. r = SignRRset(z, DNSKEY, keys, Ksk(keys))
          BY <1>1, <1>2, <2>4, <4>2 DEF DnskeySignature, ToSet
        <5>2. r.owner = z
          BY <1>1, <1>3, <5>1, SignatureOwner, SignerTypes
        <5> QED
          BY <1>6, <4>1, <5>2 DEF IsChainRecord
      <4>3. CASE p = 4
        <5> DEFINE rdatas == <<SoaRdata(base, LiveRows(base.records))>>
        <5>1. r = SignRRset(z, SOA, rdatas, key)
          BY <1>1, <1>2, <2>4, <4>3 DEF SoaSignature, ToSet, key
        <5>2. rdatas \in Seq(Seq(Nat))
          BY <1>1, SoaRdataType DEF kept
        <5> HIDE DEF rdatas
        <5>3. r.owner = z
          <6>1. SOA \in Nat
            BY SignerTypes
          <6>2. z \in Seq(Nat) /\ key \in Seq(Nat)
            BY <1>1, <1>3
          <6> QED
            BY <5>1, <5>2, <6>1, <6>2, SignatureOwner
        <5> QED
          BY <1>6, <4>1, <5>3 DEF IsChainRecord
      <4>4. CASE p = 3
        <5> DEFINE sets == Rrsets(rows)
        <5>1. signed \in Seq(Added) /\ Len(signed) = Len(sets)
          BY <1>1, <1>3, RrsetSignaturesAre DEF signed
        <5>2. PICK i \in 1 .. Len(sets) : signed[i] = r
          BY <1>2, <2>4, <4>4, <5>1, SetOf
        <5>3. /\ sets[i][1] \in Seq(Nat) /\ sets[i][2] \in Nat
              /\ r = SignRRset(sets[i][1], sets[i][2], RrsetData(rows, sets[i][1], sets[i][2]), key)
          BY <1>1, <1>3, <5>2, RrsetSignaturesAre DEF signed
        <5>4. RrsetData(rows, sets[i][1], sets[i][2]) \in Seq(Seq(Nat))
          BY <1>1, RrsetDataIs
        <5>5. r.owner = sets[i][1]
          BY <1>3, <5>3, <5>4, SignatureOwner
        <5>6. sets[i] \in ToSet(sets)
          <6>1. sets \in Seq(Seq(Nat) \X Nat)
            BY <1>1, RrsetsAre
          <6> HIDE DEF sets
          <6> QED
            BY <6>1, SetOf
        <5>7. ToSet(sets) = {<<x.owner, x.type>> : x \in ToSet(rows)}
          BY <1>1, RrsetsAre
        <5>8. PICK x \in ToSet(rows) : sets[i] = <<x.owner, x.type>>
          BY <5>6, <5>7
        <5>9. r.owner = x.owner
          BY <5>5, <5>8
        <5> QED
          BY <1>6, <4>1, <5>9 DEF IsChainRecord
      <4>5. CASE p = 6
        <5>1. sigs \in Seq(Added) /\ Len(sigs) = n
          BY <1>3, <1>9, NsecSignaturesAre DEF sigs
        <5>2. PICK i \in 1 .. n : sigs[i] = r
          BY <1>2, <2>4, <4>5, <5>1, SetOf
        <5>3. /\ nsecs[i].owner \in Seq(Nat) /\ <<nsecs[i].data>> \in Seq(Seq(Nat))
              /\ r = SignRRset(nsecs[i].owner, NSEC, <<nsecs[i].data>>, key)
          BY <1>3, <1>9, <5>2, NsecSignaturesAre DEF sigs
        <5>4. r.owner = owners[i]
          <6> DEFINE rdatas == <<nsecs[i].data>>
          <6>1. NSEC \in Nat
            BY SignerTypes
          <6>2. rdatas \in Seq(Seq(Nat)) /\ r = SignRRset(nsecs[i].owner, NSEC, rdatas, key)
            BY <5>3
          <6> HIDE DEF rdatas
          <6>3. r.owner = nsecs[i].owner
            <7>1. nsecs[i].owner \in Seq(Nat) /\ key \in Seq(Nat)
              BY <1>3, <5>3
            <7> QED
              BY <6>1, <6>2, <7>1, SignatureOwner
          <6> QED
            BY <1>9, <6>3
        <5> QED
          BY <1>8, <4>1, <5>4 DEF IsChainRecord
      <4> QED
        BY <3>3, <4>2, <4>3, <4>4, <4>5
    <3> QED
      BY <3>1, <3>2, <3>3
  <2> QED
    BY <2>2, <2>3, <2>4 DEF IsIn
<1>11. ASSUME NEW r \in ToSet(rows) PROVE r \in R /\ r.type \in TypeIds \ {SOA, DNSKEY, NSEC}
  <2>1. r \in ToSet(kept) /\ ToSign(r) /\ IsKept(z, r)
    BY <1>1
  <2>2. r.type \in TypeIds \ {SOA, DNSKEY, NSEC}
    BY <2>1 DEF IsKept, ToSign
  <2> QED
    BY <1>4, <2>1, <2>2 DEF ChainRecords
<1>12. ASSUME NEW i \in 1 .. n
       PROVE  nsecs[i] \in R /\ \E r \in R : r.type = RRSIG /\ r.owner = owners[i]
  <2>1. nsecs[i] \in R
    <3>1. nsecs[i] \in ToSet(a[5])
      BY <1>2, <1>9, SetOf
    <3> QED
      BY <1>4, <1>9, <3>1, SignerTypes DEF ChainRecords
  <2> DEFINE r == sigs[i]
  <2>2. sigs \in Seq(Added) /\ Len(sigs) = n
    BY <1>3, <1>9, NsecSignaturesAre DEF sigs
  <2>3. r \in ToSet(a[6])
    BY <1>2, <2>2, SetOf
  <2>4. /\ nsecs[i].owner \in Seq(Nat) /\ <<nsecs[i].data>> \in Seq(Seq(Nat))
        /\ r = SignRRset(nsecs[i].owner, NSEC, <<nsecs[i].data>>, key)
    BY <1>3, <1>9, NsecSignaturesAre DEF sigs
  <2> HIDE DEF r
  <2>5. r.owner = owners[i] /\ r.type = RRSIG
    <3> DEFINE rdatas == <<nsecs[i].data>>
    <3>1. NSEC \in Nat
      BY SignerTypes
    <3>2. rdatas \in Seq(Seq(Nat)) /\ r = SignRRset(nsecs[i].owner, NSEC, rdatas, key)
      BY <2>4
    <3> HIDE DEF rdatas
    <3>3. r.owner = nsecs[i].owner /\ r.type = RRSIG
      <4>1. nsecs[i].owner \in Seq(Nat) /\ key \in Seq(Nat)
        BY <1>3, <2>4
      <4> QED
        BY <3>1, <3>2, <4>1, SignatureOwner
    <3> QED
      BY <1>9, <3>3
  <2>6. r \in R
    BY <1>4, <2>3, <2>5, SignerTypes DEF ChainRecords
  <2> QED
    BY <2>1, <2>5, <2>6
<1>13. \E r \in R : r.type = DNSKEY /\ r.owner = z
  <2> DEFINE k == keys[1]
             r == Ready(z, DNSKEY, k)
  <2>1. k \in ToSet(keys) /\ k \in Seq(Nat)
    BY <1>1, SetOf, LenProperties, EmptySeq, ElementOfSeq
  <2>2. r \in ToSet(a[1])
    BY <1>5, <2>1 DEF HasTypes
  <2> HIDE DEF k
  <2>3. r.type = DNSKEY /\ r.owner = z
    <3>1. z \in Seq(Nat) /\ DNSKEY \in Nat /\ r = Ready(z, DNSKEY, k)
      BY <1>1, SignerTypes
    <3> QED
      BY <2>1, <3>1, ReadyFields
  <2> HIDE DEF r
  <2>4. r \in R
    BY <1>4, <2>2, <2>3, SignerTypes DEF ChainRecords
  <2> QED
    BY <2>3, <2>4
<1> HIDE DEF R
<1>14. HasChain(R, z, rows, owners, nsecs)
  BY <1>10, <1>11, <1>12, <1>13 DEF HasChain, n
<1> QED
  BY <1>14 DEF R, rows, owners, nsecs

-----------------------------------------------------------------------------
(* The order of a chain is that of RFC 4034, and a name below the apex lies *)
(* between just one name and the next.                                      *)
LEMMA BeforeIs ==
  ASSUME NEW a \in Seq(Nat), NEW b \in Seq(Nat)
  PROVE  Before(a, b) <=> Precedes(a, b)
<1> DEFINE m == Min({Len(a), Len(b)})
<1>1. /\ Len(a) \in Nat /\ \A i \in 1 .. Len(a) : a[i] \in Nat
      /\ Len(b) \in Nat /\ \A i \in 1 .. Len(b) : b[i] \in Nat
  BY LenProperties, ElementOfSeq
<1>2. m \in Nat /\ m <= Len(a) /\ m <= Len(b) /\ (m = Len(a) \/ m = Len(b))
  <2>1. {Len(a), Len(b)} \subseteq Nat /\ {Len(a), Len(b)} # {}
    BY <1>1
  <2>2. m \in {Len(a), Len(b)} /\ \A l \in {Len(a), Len(b)} : m <= l
    BY <2>1, Least, Zenon
  <2> QED
    BY <1>1, <2>2
<1>3. ASSUME NEW i \in 0 .. m
      PROVE  SubSeq(a, 1, i) = SubSeq(b, 1, i) <=> \A j \in 1 .. i : a[j] = b[j]
  <2> DEFINE s == SubSeq(a, 1, i)
             t == SubSeq(b, 1, i)
  <2>0. i \in Nat /\ 1 \in Int /\ i \in Int
    BY <1>2
  <2>1. \A j \in 1 .. i : a[j] \in Nat
    BY <1>1, <1>2
  <2>2. \A j \in 1 .. i : b[j] \in Nat
    BY <1>1, <1>2
  <2>3. s \in Seq(Nat) /\ Len(s) = i /\ \A j \in 1 .. i : s[j] = a[j]
    <3>1. SubSeq(a, 1, i) \in Seq(Nat)
      BY <2>0, <2>1, SubSeqProperties
    <3>2. Len(SubSeq(a, 1, i)) = IF 1 <= i THEN i - 1 + 1 ELSE 0
      BY <2>0, <2>1, SubSeqProperties
    <3>3. \A j \in 1 .. i - 1 + 1 : SubSeq(a, 1, i)[j] = a[1 + j - 1]
      BY <2>0, <2>1, SubSeqProperties
    <3> QED
      BY <2>0, <3>1, <3>2, <3>3
  <2>4. t \in Seq(Nat) /\ Len(t) = i /\ \A j \in 1 .. i : t[j] = b[j]
    <3>1. SubSeq(b, 1, i) \in Seq(Nat)
      BY <2>0, <2>2, SubSeqProperties
    <3>2. Len(SubSeq(b, 1, i)) = IF 1 <= i THEN i - 1 + 1 ELSE 0
      BY <2>0, <2>2, SubSeqProperties
    <3>3. \A j \in 1 .. i - 1 + 1 : SubSeq(b, 1, i)[j] = b[1 + j - 1]
      BY <2>0, <2>2, SubSeqProperties
    <3> QED
      BY <2>0, <3>1, <3>2, <3>3
  <2> HIDE DEF s, t
  <2>5. (\A j \in 1 .. i : a[j] = b[j]) => s = t
    BY <2>3, <2>4, SeqEqual
  <2>6. s = t => \A j \in 1 .. i : a[j] = b[j]
    BY <2>3, <2>4
  <2> QED
    BY <2>5, <2>6 DEF s, t
<1>4. ASSUME Before(a, b) PROVE Precedes(a, b)
  <2>1. PICK i \in 0 .. m : /\ SubSeq(a, 1, i) = SubSeq(b, 1, i)
                            /\ i < Len(b) /\ (i = Len(a) \/ a[i + 1] < b[i + 1])
    BY <1>4, Zenon DEF Before
  <2>2. \A j \in 1 .. i : a[j] = b[j]
    BY <1>3, <2>1
  <2> HIDE DEF m
  <2>3. i + 1 \in Nat /\ Decides(i + 1, a, b)
    BY <1>1, <1>2, <2>1, <2>2 DEF Decides
  <2> QED
    BY <2>3, PrecedesIs
<1>5. ASSUME Precedes(a, b) PROVE Before(a, b)
  <2>1. PICK k \in Nat : Decides(k, a, b)
    BY <1>5, PrecedesIs
  <2> DEFINE i == k - 1
  <2> HIDE DEF m
  <2>2. i \in 0 .. m /\ i < Len(b) /\ (i = Len(a) \/ a[i + 1] < b[i + 1])
    BY <1>1, <1>2, <2>1 DEF Decides
  <2>3. \A j \in 1 .. i : a[j] = b[j]
    BY <2>1 DEF Decides
  <2> HIDE DEF i
  <2>4. SubSeq(a, 1, i) = SubSeq(b, 1, i)
    BY <1>3, <2>2, <2>3
  <2> QED
    BY <2>2, <2>4, Zenon DEF Before, m
<1> QED
  BY <1>4, <1>5, Zenon

LEMMA PrefixPrecedes ==
  ASSUME NEW x \in Seq(Nat), NEW y \in Seq(Nat), IsPrefix(x, y), x # y
  PROVE  Precedes(x, y)
<1>1. /\ Len(x) \in Nat /\ \A i \in 1 .. Len(x) : x[i] \in Nat
      /\ Len(y) \in Nat /\ \A i \in 1 .. Len(y) : y[i] \in Nat
  BY LenProperties, ElementOfSeq
<1> DEFINE n == Len(x)
           s == SubSeq(x, 1, n)
           t == SubSeq(y, 1, n)
<1>2. n <= Len(y) /\ s = t
  BY DEF IsPrefix
<1>3. \A i \in 1 .. n : s[i] = x[i] /\ t[i] = y[i]
  BY <1>1, <1>2
<1>4. \A i \in 1 .. n : x[i] = y[i]
  BY <1>2, <1>3
<1>5. n # Len(y)
  BY <1>1, <1>4, SeqEqual
<1>6. Decides(n + 1, x, y)
  BY <1>1, <1>2, <1>4, <1>5 DEF Decides
<1> QED
  BY <1>1, <1>6, PrecedesIs

IsChainOf(owners, z) ==
  /\ owners \in Seq(Seq(Nat)) /\ z \in ToSet(owners)
  /\ \A i \in 1 .. Len(owners) : IsPrefix(z, owners[i])
  /\ \A k, l \in 1 .. Len(owners) : k < l => Precedes(owners[k], owners[l])

LEMMA ChainOrder ==
  ASSUME NEW owners, NEW z \in Seq(Nat), IsChainOf(owners, z)
  PROVE  /\ Len(owners) \in Nat \ {0}
         /\ \A i \in 1 .. Len(owners) : owners[i] \in Seq(Nat) /\ owners[i] \in ToSet(owners)
         /\ \A k, l \in 1 .. Len(owners) : owners[k] = owners[l] => k = l
         /\ owners[1] = z
<1>1. owners \in Seq(Seq(Nat))
  BY DEF IsChainOf
<1>2. /\ Len(owners) \in Nat
      /\ \A i \in 1 .. Len(owners) : owners[i] \in Seq(Nat) /\ owners[i] \in ToSet(owners)
  BY <1>1, SetOf, LenProperties, ElementOfSeq
<1>3. PICK j \in 1 .. Len(owners) : owners[j] = z
  BY <1>1, SetOf DEF IsChainOf
<1>4. Len(owners) \in Nat \ {0} /\ 1 \in 1 .. Len(owners)
  BY <1>2
<1>5. ASSUME NEW k \in 1 .. Len(owners), NEW l \in 1 .. Len(owners), owners[k] = owners[l], k # l
      PROVE  FALSE
  <2>1. k < l \/ l < k
    BY <1>2, <1>5
  <2>2. Precedes(owners[k], owners[l]) \/ Precedes(owners[l], owners[k])
    BY <2>1 DEF IsChainOf
  <2> QED
    BY <1>2, <1>5, <2>2, PrecedesOrders
<1>6. owners[1] = z
  <2> SUFFICES ASSUME owners[1] # z PROVE FALSE
    OBVIOUS
  <2>1. 1 < j
    BY <1>2, <1>3
  <2>2. Precedes(owners[1], z)
    BY <1>3, <1>4, <2>1 DEF IsChainOf
  <2>3. IsPrefix(z, owners[1]) /\ owners[1] \in Seq(Nat)
    BY <1>2, <1>4 DEF IsChainOf
  <2>4. Precedes(z, owners[1])
    BY <2>3, PrefixPrecedes
  <2> QED
    BY <2>2, <2>3, <2>4, PrecedesOrders
<1> QED
  BY <1>2, <1>4, <1>5, <1>6

LEMMA SmallerRemains ==
  ASSUME NEW i \in Nat, NEW n \in Nat, i < n
  PROVE  i % n = i
<1> DEFINE q == i \div n
           r == i % n
<1>1. q \in Int /\ r \in Int /\ i = n * q + r /\ 0 <= r /\ r < n
  OBVIOUS
<1> HIDE DEF q, r
<1>2. ~(q >= 1)
  <2>1. q >= 1 => n * q >= n
    BY <1>1
  <2> QED
    BY <1>1, <2>1
<1>3. ~(q <= -1)
  <2>1. q <= -1 => n * q <= -n
    BY <1>1
  <2> QED
    BY <1>1, <2>1
<1>4. q = 0
  BY <1>1, <1>2, <1>3
<1>5. r = i
  BY <1>1, <1>4
<1> QED
  BY <1>5 DEF r

Between(n, owners, i, z) ==
  /\ Before(owners[i], n)
  /\ Before(n, After(owners, i)) \/ After(owners, i) = z

IsTheOne(n, owners, z, m) ==
  /\ m \in 1 .. Len(owners)
  /\ \A i \in 1 .. Len(owners) : Between(n, owners, i, z) <=> i = m

LEMMA BetweenTwo ==
  ASSUME NEW owners, NEW z \in Seq(Nat), IsChainOf(owners, z),
         NEW n \in Seq(Nat), n \notin ToSet(owners), IsPrefix(z, n)
  PROVE  \E m \in Nat : IsTheOne(n, owners, z, m)
<1> DEFINE L == Len(owners)
           M == {i \in 1 .. L : Precedes(owners[i], n)}
           m == Max(M)
<1>1. /\ L \in Nat \ {0}
      /\ \A i \in 1 .. L : owners[i] \in Seq(Nat) /\ owners[i] \in ToSet(owners)
      /\ \A k, l \in 1 .. L : owners[k] = owners[l] => k = l
      /\ owners[1] = z
  BY ChainOrder
<1>2. \A k, l \in 1 .. L : k < l => Precedes(owners[k], owners[l])
  BY DEF IsChainOf
<1> HIDE DEF L
<1>3. 1 \in M
  <2>1. 1 \in 1 .. L
    BY <1>1
  <2>2. z # n
    BY <1>1, <2>1
  <2>3. Precedes(z, n)
    BY <2>2, PrefixPrecedes
  <2> QED
    BY <1>1, <2>1, <2>3
<1>4. M \subseteq 0 .. L
  BY <1>1
<1>5. \A i \in 1 .. L : i \in M <=> Precedes(owners[i], n)
  OBVIOUS
<1>6. M \subseteq 1 .. L
  OBVIOUS
<1> HIDE DEF M
<1>7. m \in M /\ \A i \in M : m >= i
  <2>1. M # {} /\ L \in Nat
    BY <1>1, <1>3
  <2> QED
    BY <1>4, <2>1, Greatest
<1> HIDE DEF m
<1>8. m \in 1 .. L /\ Precedes(owners[m], n)
  BY <1>5, <1>6, <1>7
<1>9. After(owners, L) = z
  <2>1. (L % L) + 1 = 1
    BY <1>1
  <2> QED
    BY <1>1, <2>1 DEF After, L
<1>10. ASSUME NEW i \in 1 .. L, i < L PROVE After(owners, i) = owners[i + 1] /\ i + 1 \in 1 .. L
  <2>1. i % L = i
    <3>1. i \in Nat /\ L \in Nat
      BY <1>1
    <3> QED
      BY <1>10, <3>1, SmallerRemains, Zenon
  <2> QED
    BY <1>1, <1>10, <2>1 DEF After, L
<1>11. Between(n, owners, m, z)
  <2>1. Before(owners[m], n)
    BY <1>1, <1>8, BeforeIs
  <2>2. CASE m = L
    BY <1>9, <2>1, <2>2 DEF Between
  <2>3. CASE m < L
    <3>1. After(owners, m) = owners[m + 1] /\ m + 1 \in 1 .. L
      BY <1>8, <1>10, <2>3
    <3>2. ~Precedes(owners[m + 1], n)
      <4>1. ~(m >= m + 1)
        BY <1>8
      <4> QED
        BY <1>5, <1>7, <3>1, <4>1
    <3>3. owners[m + 1] \in Seq(Nat) /\ owners[m + 1] # n
      BY <1>1, <3>1
    <3>4. Precedes(n, owners[m + 1])
      BY <3>2, <3>3, PrecedesOrders
    <3>5. Before(n, owners[m + 1])
      BY <3>3, <3>4, BeforeIs
    <3> QED
      BY <2>1, <3>1, <3>5 DEF Between
  <2> QED
    BY <1>1, <1>8, <2>2, <2>3
<1>12. ASSUME NEW i \in 1 .. L, Between(n, owners, i, z) PROVE i = m
  <2> SUFFICES ASSUME i # m PROVE FALSE
    OBVIOUS
  <2>1. Precedes(owners[i], n)
    BY <1>1, <1>12, BeforeIs DEF Between
  <2>2. i < m
    BY <1>5, <1>7, <1>8, <2>1
  <2>3. After(owners, i) = owners[i + 1] /\ i + 1 \in 1 .. L /\ i + 1 <= m
    <3>1. i < L /\ i + 1 <= m
      BY <1>1, <1>8, <2>2
    <3> QED
      BY <1>10, <3>1
  <2>4. owners[i + 1] \in Seq(Nat) /\ owners[m] \in Seq(Nat)
    BY <1>1, <1>8, <2>3
  <2>5. Precedes(owners[i + 1], n)
    <3>1. CASE i + 1 = m
      BY <1>8, <3>1
    <3>2. CASE i + 1 < m
      <4>1. Precedes(owners[i + 1], owners[m])
        BY <1>2, <1>8, <2>3, <3>2
      <4> QED
        BY <1>8, <2>4, <4>1, PrecedesOrders
    <3> QED
      BY <1>8, <2>3, <3>1, <3>2
  <2>6. ~Before(n, owners[i + 1])
    <3>1. ~Precedes(n, owners[i + 1])
      BY <2>4, <2>5, PrecedesOrders
    <3> QED
      BY <2>4, <3>1, BeforeIs
  <2>7. owners[i + 1] # z
    <3>1. 1 \in 1 .. L /\ i + 1 # 1
      BY <1>1
    <3> QED
      BY <1>1, <2>3, <3>1
  <2> QED
    BY <1>12, <2>3, <2>6, <2>7 DEF Between
<1>13. IsTheOne(n, owners, z, m)
  BY <1>8, <1>11, <1>12 DEF IsTheOne, L
<1>14. m \in Nat
  BY <1>8
<1> QED
  BY <1>13, <1>14

-----------------------------------------------------------------------------
(* What the chain says of the names that there are, and of the others.      *)
Links(nsecs, owners, z, rows) ==
  \A i \in 1 .. Len(owners) :
    /\ nsecs[i].owner = owners[i] /\ nsecs[i].type = NSEC
    /\ NextOf(nsecs[i]) = After(owners, i)
    /\ TypesOf(nsecs[i]) = TypesAt(owners[i], z, rows)

OwnersIn(R, z) == {z} \cup {r.owner : r \in R}

IsChain(R, z, rows, owners, nsecs) ==
  /\ z \in Seq(Nat)
  /\ IsChainOf(owners, z)
  /\ ToSet(owners) = {z} \cup {r.owner : r \in ToSet(rows)}
  /\ HasChain(R, z, rows, owners, nsecs)
  /\ Links(nsecs, owners, z, rows)

LEMMA ChainLinks ==
  ASSUME NEW z \in Seq(Nat), NEW rows \in Seq(Records), \A r \in ToSet(rows) : r.type \in TypeIds
  PROVE  Links(NsecRecords(z, rows), Owners(z, rows), z, rows)
<1> DEFINE owners == Owners(z, rows)
           nsecs == NsecRecords(z, rows)
<1> SUFFICES ASSUME NEW i \in 1 .. Len(owners)
             PROVE  /\ nsecs[i].owner = owners[i] /\ nsecs[i].type = NSEC
                    /\ NextOf(nsecs[i]) = After(owners, i)
                    /\ TypesOf(nsecs[i]) = TypesAt(owners[i], z, rows)
  BY DEF Links
<1> DEFINE next == After(owners, i)
           types == TypesAt(owners[i], z, rows)
           r == nsecs[i]
<1>1. /\ owners[i] \in Seq(Nat) /\ next \in Seq(Nat)
      /\ r = Ready(owners[i], NSEC, NsecRdata(next, types))
  BY NsecRecordsAre
<1>2. NsecRdata(next, types) \in Seq(Nat) /\ NSEC \in Nat
  BY <1>1, TypesAtIs, NsecRdataType, SignerTypes
<1>3. types \subseteq 0 .. 511 /\ RRSIG \in types
  <2>1. \A t \in types : t \in TypeIds
    <3>1. SOA \in TypeIds /\ RRSIG \in TypeIds /\ NSEC \in TypeIds /\ DNSKEY \in TypeIds
      BY SignerTypes
    <3>2. \A t \in TypesAt(owners[i], z, rows) : t \in TypeIds
      BY <3>1, Zenon DEF TypesAt
    <3> QED
      BY <3>2
  <2>2. RRSIG \in types
    BY DEF TypesAt
  <2> HIDE DEF types
  <2> QED
    BY <2>1, <2>2, SignerTypes
<1> HIDE DEF owners, next, types, r
<1>4. r.owner = owners[i] /\ r.type = NSEC /\ r.data = NsecRdata(next, types)
  BY <1>1, <1>2, ReadyFields
<1>5. NextOf(r) = next /\ TypesOf(r) = types
  BY <1>1, <1>3, <1>4, NsecSays
<1> QED
  BY <1>4, <1>5 DEF owners, next, types, r

LEMMA PartsChain ==
  ASSUME NEW z, NEW entry \in Entries, NEW base \in Entries, NEW keys, Parts(z, entry, base, keys)
  PROVE  IsChain(ChainRecords(entry), z, SignedRows(base.records),
                 Owners(z, SignedRows(base.records)), NsecRecords(z, SignedRows(base.records)))
<1> DEFINE rows == SignedRows(base.records)
           owners == Owners(z, rows)
           nsecs == NsecRecords(z, rows)
<1>1. /\ z \in Seq(Nat) /\ rows \in Seq(Records)
      /\ \A r \in ToSet(rows) : IsPrefix(z, r.owner) /\ r.type \in TypeIds
  <2>1. \A r \in ToSet(rows) : IsKept(z, r) /\ ToSign(r)
    BY DEF Parts
  <2> QED
    BY <2>1 DEF Parts, IsKept, ToSign
<1>2. HasChain(ChainRecords(entry), z, rows, owners, nsecs)
  BY ChainRecordsAre
<1>3. Links(nsecs, owners, z, rows)
  BY <1>1, ChainLinks
<1>4. /\ owners \in Seq(Seq(Nat))
      /\ ToSet(owners) = {z} \cup {r.owner : r \in ToSet(rows)}
      /\ \A k, l \in 1 .. Len(owners) : k < l => Precedes(owners[k], owners[l])
  BY <1>1, OwnersAre
<1> HIDE DEF rows, owners, nsecs
<1>5. IsPrefix(z, z)
  BY <1>1, LenProperties DEF IsPrefix
<1>6. ASSUME NEW i \in 1 .. Len(owners) PROVE IsPrefix(z, owners[i])
  <2>1. owners[i] \in ToSet(owners)
    BY <1>4, SetOf
  <2> QED
    BY <1>1, <1>4, <1>5, <2>1
<1>7. IsChainOf(owners, z)
  BY <1>4, <1>6 DEF IsChainOf
<1>8. IsChain(ChainRecords(entry), z, rows, owners, nsecs)
  BY <1>1, <1>2, <1>3, <1>4, <1>7 DEF IsChain
<1> QED
  BY <1>8 DEF rows, owners, nsecs

NsecsIn(R) == {r \in R : r.type = NSEC}

LEMMA NsecsAre ==
  ASSUME NEW R, NEW z, NEW rows, NEW owners, NEW nsecs, IsChain(R, z, rows, owners, nsecs)
  PROVE  /\ \A r \in NsecsIn(R) : \E i \in 1 .. Len(owners) : r = nsecs[i]
         /\ \A i \in 1 .. Len(owners) : nsecs[i] \in NsecsIn(R)
<1>1. ASSUME NEW r \in NsecsIn(R) PROVE \E i \in 1 .. Len(owners) : r = nsecs[i]
  <2>1. r \in R /\ r.type = NSEC
    BY DEF NsecsIn
  <2>2. IsChainRecord(r, z, rows, owners, nsecs)
    BY <2>1 DEF IsChain, HasChain
  <2>3. r \notin ToSet(rows)
    BY <2>1 DEF IsChain, HasChain
  <2> QED
    BY <2>1, <2>2, <2>3, SignerTypes DEF IsChainRecord
<1>2. ASSUME NEW i \in 1 .. Len(owners) PROVE nsecs[i] \in NsecsIn(R)
  BY DEF IsChain, HasChain, Links, NsecsIn
<1> QED
  BY <1>1, <1>2

LEMMA ChainOwners ==
  ASSUME NEW R, NEW z, NEW rows, NEW owners, NEW nsecs, IsChain(R, z, rows, owners, nsecs)
  PROVE  ToSet(owners) = OwnersIn(R, z)
<1>1. ToSet(owners) = {z} \cup {r.owner : r \in ToSet(rows)} /\ owners \in Seq(Seq(Nat))
  BY DEF IsChain, IsChainOf
<1>2. \A r \in ToSet(rows) : r \in R
  BY DEF IsChain, HasChain
<1>3. ASSUME NEW r \in R PROVE r.owner \in ToSet(owners)
  <2>1. IsChainRecord(r, z, rows, owners, nsecs)
    BY DEF IsChain, HasChain
  <2>2. CASE \E i \in 1 .. Len(owners) : r = nsecs[i]
    <3>1. PICK i \in 1 .. Len(owners) : r = nsecs[i]
      BY <2>2
    <3>2. r.owner = owners[i]
      BY <3>1 DEF IsChain, Links
    <3> QED
      BY <1>1, <3>2, SetOf
  <2> QED
    BY <1>1, <2>1, <2>2 DEF IsChainRecord
<1> QED
  BY <1>1, <1>2, <1>3 DEF OwnersIn

TypesThere(R, o, z) ==
  {x.type : x \in {y \in R : y.owner = o}} \cup (IF o = z THEN {SOA} ELSE {})

LEMMA ChainTypes ==
  ASSUME NEW R, NEW z, NEW rows, NEW owners, NEW nsecs, IsChain(R, z, rows, owners, nsecs),
         NEW i \in 1 .. Len(owners)
  PROVE  TypesAt(owners[i], z, rows) = TypesThere(R, owners[i], z)
<1> DEFINE o == owners[i]
<1>1. \A r \in R : IsChainRecord(r, z, rows, owners, nsecs)
  BY DEF IsChain, HasChain
<1>2. \A r \in ToSet(rows) : r \in R
  BY DEF IsChain, HasChain
<1>3. PICK sig \in R : sig.type = RRSIG /\ sig.owner = o
  BY DEF IsChain, HasChain
<1>4. PICK key \in R : key.type = DNSKEY /\ key.owner = z
  BY DEF IsChain, HasChain
<1>5. nsecs[i] \in R /\ nsecs[i].type = NSEC /\ nsecs[i].owner = o
  BY DEF IsChain, HasChain, Links
<1>6. \A j \in 1 .. Len(owners) : nsecs[j].type = NSEC
  BY DEF IsChain, Links
<1> HIDE DEF o
<1>7. ASSUME NEW r \in R, r.owner = o PROVE r.type \in TypesAt(o, z, rows)
  <2>1. IsChainRecord(r, z, rows, owners, nsecs)
    BY <1>1
  <2>2. CASE r \in ToSet(rows)
    BY <1>7, <2>2 DEF TypesAt
  <2>3. CASE r.type \in {SOA, DNSKEY} /\ r.owner = z
    BY <1>7, <2>3 DEF TypesAt
  <2>4. CASE r.type \in {RRSIG, NSEC}
    BY <2>4 DEF TypesAt
  <2> QED
    BY <2>1, <2>2, <2>3, <2>4 DEF IsChainRecord
<1>8. ASSUME NEW t \in TypesAt(o, z, rows) PROVE t \in TypesThere(R, o, z)
  <2>1. CASE \E r \in ToSet(rows) : r.owner = o /\ r.type = t
    BY <1>2, <2>1 DEF TypesThere
  <2>2. CASE t = RRSIG
    BY <1>3, <2>2 DEF TypesThere
  <2>3. CASE t = NSEC
    BY <1>5, <2>3 DEF TypesThere
  <2>4. CASE t = SOA /\ o = z
    BY <2>4 DEF TypesThere
  <2>5. CASE t = DNSKEY /\ o = z
    BY <1>4, <2>5 DEF TypesThere
  <2> QED
    BY <2>1, <2>2, <2>3, <2>4, <2>5 DEF TypesAt
<1>9. ASSUME NEW t \in TypesThere(R, o, z) PROVE t \in TypesAt(o, z, rows)
  <2>1. CASE \E r \in R : r.owner = o /\ r.type = t
    BY <1>7, <2>1
  <2>2. CASE t = SOA /\ o = z
    BY <2>2 DEF TypesAt
  <2> QED
    BY <2>1, <2>2 DEF TypesThere
<1> QED
  BY <1>8, <1>9 DEF o

SaysAll(R, o, z) ==
  /\ Cardinality({r \in NsecsIn(R) : r.owner = o}) = 1
  /\ \A r \in NsecsIn(R) : r.owner = o => TypesOf(r) = TypesThere(R, o, z)

LEMMA ChainSays ==
  ASSUME NEW R, NEW z, NEW rows, NEW owners, NEW nsecs, IsChain(R, z, rows, owners, nsecs),
         NEW o \in ToSet(owners)
  PROVE  SaysAll(R, o, z)
<1>1. PICK i \in 1 .. Len(owners) : owners[i] = o
  <2>1. owners \in Seq(Seq(Nat))
    BY DEF IsChain, IsChainOf
  <2> QED
    BY <2>1, SetOf
<1>2. /\ \A r \in NsecsIn(R) : \E j \in 1 .. Len(owners) : r = nsecs[j]
      /\ \A j \in 1 .. Len(owners) : nsecs[j] \in NsecsIn(R)
  BY NsecsAre
<1>3. \A j \in 1 .. Len(owners) :
        nsecs[j].owner = owners[j] /\ TypesOf(nsecs[j]) = TypesAt(owners[j], z, rows)
  BY DEF IsChain, Links
<1>4. \A k, l \in 1 .. Len(owners) : owners[k] = owners[l] => k = l
  <2>1. z \in Seq(Nat) /\ IsChainOf(owners, z)
    BY DEF IsChain
  <2> QED
    BY <2>1, ChainOrder
<1>5. \A r \in NsecsIn(R) : r.owner = o => r = nsecs[i]
  BY <1>1, <1>2, <1>3, <1>4
<1>6. {r \in NsecsIn(R) : r.owner = o} = {nsecs[i]}
  BY <1>1, <1>2, <1>3, <1>5
<1>7. Cardinality({r \in NsecsIn(R) : r.owner = o}) = 1
  BY <1>6, FS_Singleton
<1>8. TypesOf(nsecs[i]) = TypesThere(R, o, z)
  BY <1>1, <1>3, ChainTypes
<1> QED
  BY <1>5, <1>7, <1>8 DEF SaysAll

CoversName(r, n, z) == Before(r.owner, n) /\ (Before(n, NextOf(r)) \/ NextOf(r) = z)

DeniesOnce(R, n, z) == Cardinality({r \in NsecsIn(R) : CoversName(r, n, z)}) = 1

LEMMA ChainDeniesName ==
  ASSUME NEW R, NEW z, NEW rows, NEW owners, NEW nsecs, IsChain(R, z, rows, owners, nsecs),
         NEW n \in Seq(Nat), n \notin ToSet(owners), IsPrefix(z, n)
  PROVE  DeniesOnce(R, n, z)
<1>1. z \in Seq(Nat) /\ IsChainOf(owners, z)
  BY DEF IsChain
<1>2. PICK m \in Nat : IsTheOne(n, owners, z, m)
  BY <1>1, BetweenTwo
<1>3. /\ m \in 1 .. Len(owners)
      /\ \A i \in 1 .. Len(owners) : Between(n, owners, i, z) <=> i = m
  BY <1>2 DEF IsTheOne
<1>4. /\ \A r \in NsecsIn(R) : \E j \in 1 .. Len(owners) : r = nsecs[j]
      /\ \A j \in 1 .. Len(owners) : nsecs[j] \in NsecsIn(R)
  BY NsecsAre
<1>5. ASSUME NEW i \in 1 .. Len(owners) PROVE CoversName(nsecs[i], n, z) <=> i = m
  <2>1. nsecs[i].owner = owners[i] /\ NextOf(nsecs[i]) = After(owners, i)
    BY DEF IsChain, Links
  <2>2. CoversName(nsecs[i], n, z) <=> Between(n, owners, i, z)
    BY <2>1 DEF CoversName, Between
  <2> QED
    BY <1>3, <2>2
<1>6. {r \in NsecsIn(R) : CoversName(r, n, z)} = {nsecs[m]}
  <2>1. ASSUME NEW r \in NsecsIn(R), CoversName(r, n, z) PROVE r = nsecs[m]
    <3>1. PICK i \in 1 .. Len(owners) : r = nsecs[i]
      BY <1>4
    <3> QED
      BY <1>5, <2>1, <3>1
  <2>2. nsecs[m] \in NsecsIn(R) /\ CoversName(nsecs[m], n, z)
    BY <1>3, <1>4, <1>5
  <2> QED
    BY <2>1, <2>2
<1> QED
  BY <1>6, FS_Singleton DEF DeniesOnce

(* Where the data is as it ordinarily is, the chain of a zone that is       *)
(* signed is one: each name that there is has just one record of it, which  *)
(* lists the types that are there, and every name below the apex that is    *)
(* not there lies between one name and the next, in the order of RFC 4034   *)
(* (dnssec-sign.js:161-216, signer/memory.js:126-140).                      *)
THEOREM ChainsDeny == Ordinary => (Spec => []ChainDenies)
<1> SUFFICES ASSUME Ordinary PROVE Spec => []ChainDenies
  OBVIOUS
<1>1. Inv => ChainDenies
  <2> SUFFICES ASSUME Inv, NEW z \in DOMAIN live, IsSigned(live[z])
               PROVE  /\ \A o \in OwnersIn(ChainRecords(live[z]), z) :
                           SaysAll(ChainRecords(live[z]), o, z)
                      /\ \A n \in Names \ OwnersIn(ChainRecords(live[z]), z) :
                           IsPrefix(z, n) => DeniesOnce(ChainRecords(live[z]), n, z)
    BY Zenon DEF ChainDenies, OwnersIn, ChainRecords, SaysAll, NsecsIn, TypesThere, DeniesOnce,
                 CoversName
  <2>1. live \in Zones /\ Genuine(z, live[z])
    BY DEF Inv, Types, LiveFits
  <2>2. z \in Apexes /\ live[z] \in Entries
    BY <2>1, ZonesAre
  <2>3. PICK base \in Entries, found \in KeySets : SignedFrom(z, live[z], base, found)
    BY <2>1 DEF Genuine
  <2>4. live[z].apex = z
    BY <2>1 DEF Genuine
  <2>5. Parts(z, live[z], base, found.keys)
    BY <2>2, <2>3, <2>4, SignedParts, Zenon
  <2> DEFINE R == ChainRecords(live[z])
             rows == SignedRows(base.records)
             owners == Owners(z, rows)
             nsecs == NsecRecords(z, rows)
  <2>6. IsChain(R, z, rows, owners, nsecs)
    BY <2>2, <2>5, PartsChain
  <2> HIDE DEF R, rows, owners, nsecs
  <2>7. ToSet(owners) = OwnersIn(R, z)
    BY <2>6, ChainOwners
  <2>8. \A o \in OwnersIn(R, z) : SaysAll(R, o, z)
    BY <2>6, <2>7, ChainSays
  <2>9. ASSUME NEW n \in Names \ OwnersIn(R, z), IsPrefix(z, n) PROVE DeniesOnce(R, n, z)
    <3>1. n \in Seq(Nat) /\ n \notin ToSet(owners)
      BY <2>7, NativeSigningAssumption
    <3> QED
      BY <2>6, <2>9, <3>1, ChainDeniesName
  <2> QED
    BY <2>8, <2>9 DEF R
<1> QED
  BY <1>1, SpecInv, PTL
=============================================================================
