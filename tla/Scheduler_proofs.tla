--------------------------- MODULE Scheduler_proofs ---------------------------
(***************************************************************************)
(* The scheduler for every number of tasks, every priority range and every *)
(* width of the tick counter: its memory stays well formed, and the time   *)
(* lists stay split at the wrap.  Before that, what the list operators of  *)
(* Queues return, for every list: the elements that stay, their order, and *)
(* that a sorted list stays sorted.                                        *)
(***************************************************************************)
EXTENDS Scheduler, SequenceTheorems, FiniteSetTheorems, WellFoundedInduction, TLAPS

(***************************************************************************)
(* A non-empty set of naturals has a least element.  The searches of the   *)
(* kernel's list walks stop at the first position with some property.      *)
(***************************************************************************)
LEMMA LeastNat ==
  ASSUME NEW T \in SUBSET Nat, T # {}
  PROVE  \E n \in T : \A i \in T : n <= i
<1>1. PICK n \in T : \A i \in T : ~(<<i, n>> \in OpToRel(<, Nat))
  BY NatLessThanWellFounded, WFMin, Zenon
<1>2. SUFFICES ASSUME NEW i \in T PROVE n <= i
  BY <1>1
<1>3. <<i, n>> \in Nat \X Nat
  OBVIOUS
<1>4. ~(i < n)
  BY <1>1, <1>3 DEF OpToRel
<1> QED BY <1>4

-----------------------------------------------------------------------------
(***************************************************************************)
(* KeptUpTo counts: it starts at zero, grows by one at each position that  *)
(* is kept, and never decreases.                                           *)
(***************************************************************************)
LEMMA KeptUpToStep ==
  ASSUME NEW E, NEW s \in Seq(E), NEW S, NEW i \in Nat
  PROVE  /\ KeptUpTo(s, S, 0) = 0
         /\ KeptUpTo(s, S, i) \in Nat
         /\ s[i + 1] \in S    => KeptUpTo(s, S, i + 1) = KeptUpTo(s, S, i) + 1
         /\ s[i + 1] \notin S => KeptUpTo(s, S, i + 1) = KeptUpTo(s, S, i)
<1> DEFINE P(n) == {j \in 1 .. n : s[j] \in S}
<1>1. P(0) = {} /\ KeptUpTo(s, S, 0) = 0
  BY FS_EmptySet DEF KeptUpTo
<1>2. IsFiniteSet(P(i)) /\ Cardinality(P(i)) \in Nat
  <2>1. IsFiniteSet(1 .. i)
    BY FS_Interval
  <2> QED BY <2>1, FS_Subset, FS_CardinalityType
<1>3. s[i + 1] \in S => P(i + 1) = P(i) \cup {i + 1}
  OBVIOUS
<1>4. s[i + 1] \notin S => P(i + 1) = P(i)
  OBVIOUS
<1>5. i + 1 \notin P(i)
  OBVIOUS
<1>6. Cardinality(P(i) \cup {i + 1}) = Cardinality(P(i)) + 1
  BY <1>2, <1>5, FS_AddElement
<1> HIDE DEF P
<1>7. \A n : KeptUpTo(s, S, n) = Cardinality(P(n))
  BY DEF KeptUpTo, P
<1> QED BY <1>1, <1>2, <1>3, <1>4, <1>6, <1>7

\* KeptUpTo never decreases, and grows up to a kept position.
LEMMA KeptUpToMonotone ==
  ASSUME NEW E, NEW s \in Seq(E), NEW S, NEW i \in Nat, NEW j \in Nat, i <= j
  PROVE  /\ KeptUpTo(s, S, i) <= KeptUpTo(s, S, j)
         /\ i < j /\ s[j] \in S => KeptUpTo(s, S, i) < KeptUpTo(s, S, j)
<1> DEFINE P(n) == {l \in 1 .. n : s[l] \in S}
<1>1. P(i) \subseteq P(j)
  OBVIOUS
<1>2. IsFiniteSet(P(j))
  <2>1. IsFiniteSet(1 .. j)
    BY FS_Interval
  <2> QED BY <2>1, FS_Subset
<1>3. /\ Cardinality(P(i)) <= Cardinality(P(j))
      /\ Cardinality(P(j)) = Cardinality(P(i)) => P(j) = P(i)
  BY <1>1, <1>2, FS_Subset
<1>4. i < j /\ s[j] \in S => j \in P(j) /\ j \notin P(i)
  OBVIOUS
<1>5. Cardinality(P(i)) \in Nat /\ Cardinality(P(j)) \in Nat
  BY <1>1, <1>2, FS_Subset, FS_CardinalityType
<1> HIDE DEF P
<1>6. \A n : KeptUpTo(s, S, n) = Cardinality(P(n))
  BY DEF KeptUpTo, P
<1> QED BY <1>3, <1>4, <1>5, <1>6

(***************************************************************************)
(* Position n of the result comes from a kept position of s, and from the  *)
(* one with rank n.                                                        *)
(***************************************************************************)
LEMMA KeptPosProperties ==
  ASSUME NEW E, NEW s \in Seq(E), NEW S, NEW n \in 1 .. KeptLen(s, S)
  PROVE  /\ KeptPos(s, S, n) \in 1 .. Len(s)
         /\ s[KeptPos(s, S, n)] \in S
         /\ KeptUpTo(s, S, KeptPos(s, S, n)) = n
<1> DEFINE T == {i \in Nat : KeptUpTo(s, S, i) >= n}
<1>0. Len(s) \in Nat /\ KeptLen(s, S) \in Nat
  BY LenProperties, KeptUpToStep DEF KeptLen
<1>1. Len(s) \in T
  BY <1>0 DEF KeptLen
<1>2. PICK i \in T : \A j \in T : i <= j
  BY <1>1, LeastNat
<1>3. i \in Nat /\ i <= Len(s) /\ KeptUpTo(s, S, i) >= n
  BY <1>1, <1>2
<1>4. i # 0
  BY <1>0, <1>3, KeptUpToStep
<1>5. i - 1 \in Nat /\ i - 1 \notin T
  BY <1>2, <1>3, <1>4
<1>6. KeptUpTo(s, S, i - 1) < n
  BY <1>0, <1>5, KeptUpToStep
<1>7. /\ KeptUpTo(s, S, i - 1) \in Nat
      /\ s[(i - 1) + 1] \in S    => KeptUpTo(s, S, (i - 1) + 1) = KeptUpTo(s, S, i - 1) + 1
      /\ s[(i - 1) + 1] \notin S => KeptUpTo(s, S, (i - 1) + 1) = KeptUpTo(s, S, i - 1)
  BY <1>5, KeptUpToStep
<1>8. (i - 1) + 1 = i
  BY <1>3
<1>9. s[i] \in S /\ KeptUpTo(s, S, i) = n
  BY <1>0, <1>3, <1>6, <1>7, <1>8
<1>10. i \in 1 .. Len(s)
  BY <1>0, <1>3, <1>4
<1> QED BY <1>9, <1>10 DEF KeptPos

(***************************************************************************)
(* Keep returns a list of the kept elements, all of them and no other.     *)
(***************************************************************************)
LEMMA KeepProperties ==
  ASSUME NEW E, NEW s \in Seq(E), NEW S
  PROVE  /\ Keep(s, S) \in Seq(E)
         /\ Range(Keep(s, S)) = Range(s) \cap S
<1>0. KeptLen(s, S) \in Nat /\ Len(s) \in Nat /\ DOMAIN s = 1 .. Len(s)
  BY LenProperties, KeptUpToStep DEF KeptLen
<1>1. \A n \in 1 .. KeptLen(s, S) : s[KeptPos(s, S, n)] \in E
  BY KeptPosProperties, ElementOfSeq
<1>2. Keep(s, S) \in Seq(E)
  BY <1>0, <1>1, SeqDef DEF Keep
<1>3. Range(Keep(s, S)) \subseteq Range(s) \cap S
  BY <1>0, KeptPosProperties DEF Keep, Range
<1>4. ASSUME NEW x \in Range(s) \cap S
      PROVE  x \in Range(Keep(s, S))
  <2>1. PICK i \in 1 .. Len(s) : s[i] = x
    BY <1>0, <1>4 DEF Range
  <2> DEFINE n == KeptUpTo(s, S, i)
  <2>2. n \in Nat /\ n <= KeptLen(s, S)
    BY <1>0, <2>1, KeptUpToStep, KeptUpToMonotone DEF KeptLen
  <2>3. KeptUpTo(s, S, 0) = 0 /\ KeptUpTo(s, S, 0) < n
    BY <1>0, <1>4, <2>1, KeptUpToStep, KeptUpToMonotone
  <2>4. n \in 1 .. KeptLen(s, S)
    BY <1>0, <2>2, <2>3
  <2> DEFINE j == KeptPos(s, S, n)
  <2>5. j \in 1 .. Len(s) /\ s[j] \in S /\ KeptUpTo(s, S, j) = n
    BY <2>4, KeptPosProperties
  <2>6. ~(i < j) /\ ~(j < i)
    BY <1>0, <1>4, <2>1, <2>5, <2>2, KeptUpToMonotone
  <2>7. i = j
    BY <1>0, <2>1, <2>5, <2>6
  <2>8. Keep(s, S)[n] = x
    BY <2>1, <2>4, <2>7 DEF Keep
  <2>9. n \in DOMAIN Keep(s, S)
    BY <2>4 DEF Keep
  <2> QED BY <2>8, <2>9 DEF Range
<1> QED BY <1>2, <1>3, <1>4

(***************************************************************************)
(* Keep preserves the order of s: a sorted list stays sorted, a list       *)
(* without repetition has none.                                            *)
(***************************************************************************)
LEMMA KeptPosIncreasing ==
  ASSUME NEW E, NEW s \in Seq(E), NEW S,
         NEW m \in 1 .. KeptLen(s, S), NEW n \in 1 .. KeptLen(s, S), m < n
  PROVE  KeptPos(s, S, m) < KeptPos(s, S, n)
<1>1. /\ KeptPos(s, S, m) \in 1 .. Len(s) /\ KeptUpTo(s, S, KeptPos(s, S, m)) = m
      /\ KeptPos(s, S, n) \in 1 .. Len(s) /\ KeptUpTo(s, S, KeptPos(s, S, n)) = n
  BY KeptPosProperties
<1>2. Len(s) \in Nat /\ KeptLen(s, S) \in Nat
  BY LenProperties, KeptUpToStep DEF KeptLen
<1>3. CASE KeptPos(s, S, n) <= KeptPos(s, S, m)
  <2>1. KeptUpTo(s, S, KeptPos(s, S, n)) <= KeptUpTo(s, S, KeptPos(s, S, m))
    BY <1>1, <1>2, <1>3, KeptUpToMonotone
  <2> QED BY <1>1, <1>2, <2>1
<1> QED BY <1>1, <1>2, <1>3

\* Hence order is preserved.
LEMMA KeepOrder ==
  ASSUME NEW E, NEW s \in Seq(E), NEW S, NEW key
  PROVE  /\ Distinct(s) => Distinct(Keep(s, S))
         /\ SortedBy(s, key) => SortedBy(Keep(s, S), key)
<1>0. KeptLen(s, S) \in Nat /\ DOMAIN s = 1 .. Len(s) /\ Len(s) \in Nat
  BY LenProperties, KeptUpToStep DEF KeptLen
<1>1. DOMAIN Keep(s, S) = 1 .. KeptLen(s, S)
  BY DEF Keep
<1>2. ASSUME NEW n \in 1 .. KeptLen(s, S)
      PROVE  Keep(s, S)[n] = s[KeptPos(s, S, n)] /\ KeptPos(s, S, n) \in 1 .. Len(s)
  BY KeptPosProperties DEF Keep
<1>3. SortedBy(s, key) => SortedBy(Keep(s, S), key)
  BY <1>0, <1>1, <1>2, KeptPosIncreasing DEF SortedBy
<1>4. ASSUME Distinct(s), NEW m \in 1 .. KeptLen(s, S), NEW n \in 1 .. KeptLen(s, S),
             Keep(s, S)[m] = Keep(s, S)[n]
      PROVE  m = n
  <2>1. KeptPos(s, S, m) = KeptPos(s, S, n)
    BY <1>0, <1>2, <1>4 DEF Distinct
  <2>2. ~(m < n) /\ ~(n < m)
    BY <1>0, <1>2, <2>1, KeptPosIncreasing
  <2> QED BY <1>0, <2>2
<1> QED BY <1>1, <1>3, <1>4 DEF Distinct

(***************************************************************************)
(* list_delete: everything else stays, in order.                           *)
(***************************************************************************)
LEMMA WithoutProperties ==
  ASSUME NEW E, NEW s \in Seq(E), NEW S, NEW key
  PROVE  /\ Without(s, S) \in Seq(E)
         /\ Range(Without(s, S)) = Range(s) \ S
         /\ Distinct(s) => Distinct(Without(s, S))
         /\ SortedBy(s, key) => SortedBy(Without(s, S), key)
<1>1. Range(s) \cap (Range(s) \ S) = Range(s) \ S
  OBVIOUS
<1> QED BY <1>1, KeepProperties, KeepOrder DEF Without

-----------------------------------------------------------------------------
(***************************************************************************)
(* Linking an element at a position adds that element and nothing else.    *)
(***************************************************************************)
LEMMA InsertAtProperties ==
  ASSUME NEW E, NEW s \in Seq(E), NEW x \in E, NEW i \in 1 .. Len(s) + 1
  PROVE  /\ InsertAt(s, i, x) \in Seq(E)
         /\ Len(InsertAt(s, i, x)) = Len(s) + 1
         /\ \A j \in 1 .. Len(s) + 1 :
              InsertAt(s, i, x)[j] = IF j < i THEN s[j] ELSE IF j = i THEN x ELSE s[j - 1]
         /\ Range(InsertAt(s, i, x)) = Range(s) \cup {x}
<1> DEFINE a == SubSeq(s, 1, i - 1)
           b == SubSeq(s, i, Len(s))
<1>0. Len(s) \in Nat /\ DOMAIN s = 1 .. Len(s) /\ \A j \in 1 .. Len(s) : s[j] \in E
  BY LenProperties, ElementOfSeq
<1>1. a \in Seq(E) /\ Len(a) = i - 1 /\ \A j \in 1 .. i - 1 : a[j] = s[j]
  BY <1>0, SubSeqProperties
<1>2. b \in Seq(E) /\ Len(b) = Len(s) - i + 1 /\ \A j \in 1 .. Len(s) - i + 1 : b[j] = s[i + j - 1]
  BY <1>0, SubSeqProperties
<1>3. <<x>> \in Seq(E) /\ Len(<<x>>) = 1 /\ <<x>>[1] = x
  OBVIOUS
<1> HIDE DEF a, b
<1> DEFINE c == a \o <<x>>
<1>4. /\ c \in Seq(E) /\ Len(c) = i
      /\ \A j \in 1 .. i : c[j] = IF j < i THEN s[j] ELSE x
  BY <1>0, <1>1, <1>3, ConcatProperties
<1>5. InsertAt(s, i, x) = c \o b
  BY DEF InsertAt, a, b
<1> HIDE DEF c
<1>6. /\ c \o b \in Seq(E) /\ Len(c \o b) = Len(s) + 1
      /\ \A j \in 1 .. Len(s) + 1 : (c \o b)[j] = IF j <= i THEN c[j] ELSE b[j - i]
  <2>1. Len(c) + Len(b) = Len(s) + 1
    BY <1>0, <1>2, <1>4
  <2>2. c \in Seq(E) /\ b \in Seq(E) /\ Len(c) = i
    BY <1>2, <1>4
  <2>3. /\ c \o b \in Seq(E) /\ Len(c \o b) = Len(c) + Len(b)
        /\ \A j \in 1 .. Len(c) + Len(b) : (c \o b)[j] = IF j <= Len(c) THEN c[j] ELSE b[j - Len(c)]
    BY <2>2, ConcatProperties
  <2> QED BY <2>1, <2>2, <2>3
<1>7. \A j \in 1 .. Len(s) + 1 :
        InsertAt(s, i, x)[j] = IF j < i THEN s[j] ELSE IF j = i THEN x ELSE s[j - 1]
  BY <1>0, <1>2, <1>4, <1>5, <1>6
<1> DEFINE r == InsertAt(s, i, x)
<1>8. r \in Seq(E) /\ Len(r) = Len(s) + 1 /\ DOMAIN r = 1 .. Len(s) + 1
  BY <1>5, <1>6, LenProperties
<1> HIDE DEF r
<1>9. Range(r) \subseteq Range(s) \cup {x}
  BY <1>0, <1>7, <1>8 DEF Range, r
<1>10. Range(s) \cup {x} \subseteq Range(r)
  <2>1. r[i] = x /\ i \in DOMAIN r
    BY <1>0, <1>7, <1>8 DEF r
  <2>2. ASSUME NEW j \in 1 .. Len(s)
        PROVE  s[j] \in Range(r)
    <3>1. CASE j < i
      BY <1>0, <1>7, <1>8, <3>1 DEF Range, r
    <3>2. CASE i <= j
      <4>1. j + 1 \in DOMAIN r /\ r[j + 1] = s[j]
        BY <1>0, <1>7, <1>8, <3>2 DEF r
      <4> QED BY <4>1 DEF Range
    <3> QED BY <1>0, <3>1, <3>2
  <2> QED BY <1>0, <2>1, <2>2 DEF Range
<1> QED BY <1>7, <1>8, <1>9, <1>10 DEF r

(***************************************************************************)
(* The search of a sorted insertion ends: at the first element with a key  *)
(* above the one of x, or at the end of the list.                          *)
(***************************************************************************)
LEMMA SortedPosProperties ==
  ASSUME NEW E, NEW s \in Seq(E), NEW x \in E, NEW key \in [E -> Int]
  PROVE  /\ SortedPos(s, x, key) \in 1 .. Len(s) + 1
         /\ \A j \in 1 .. SortedPos(s, x, key) - 1 : key[s[j]] <= key[x]
         /\ SortedPos(s, x, key) <= Len(s) => key[x] < key[s[SortedPos(s, x, key)]]
<1> DEFINE T == {i \in 1 .. Len(s) + 1 : i <= Len(s) => key[x] < key[s[i]]}
<1>0. Len(s) \in Nat /\ \A j \in 1 .. Len(s) : s[j] \in E
  BY LenProperties, ElementOfSeq
<1>1. Len(s) + 1 \in T /\ T \in SUBSET Nat
  BY <1>0
<1>2. PICK i \in T : \A j \in T : i <= j
  BY <1>1, LeastNat
<1>3. \A j \in 1 .. i - 1 : key[s[j]] <= key[x]
  BY <1>0, <1>2
<1> QED BY <1>2, <1>3 DEF SortedPos

(***************************************************************************)
(* A sorted insertion adds x and leaves the list sorted.                   *)
(***************************************************************************)
LEMMA InsertSortedProperties ==
  ASSUME NEW E, NEW s \in Seq(E), NEW x \in E, NEW key \in [E -> Int]
  PROVE  /\ InsertSorted(s, x, key) \in Seq(E)
         /\ Range(InsertSorted(s, x, key)) = Range(s) \cup {x}
         /\ Distinct(s) /\ x \notin Range(s) => Distinct(InsertSorted(s, x, key))
         /\ SortedBy(s, key) => SortedBy(InsertSorted(s, x, key), key)
<1> DEFINE i == SortedPos(s, x, key)
           r == InsertSorted(s, x, key)
<1>0. Len(s) \in Nat /\ DOMAIN s = 1 .. Len(s) /\ \A j \in 1 .. Len(s) : s[j] \in E
  BY LenProperties, ElementOfSeq
<1>1. /\ i \in 1 .. Len(s) + 1
      /\ \A j \in 1 .. i - 1 : key[s[j]] <= key[x]
      /\ i <= Len(s) => key[x] < key[s[i]]
  BY SortedPosProperties
<1>2. r = InsertAt(s, i, x)
  BY DEF InsertSorted
<1> HIDE DEF i, r
<1>3. /\ r \in Seq(E) /\ Len(r) = Len(s) + 1 /\ Range(r) = Range(s) \cup {x}
      /\ \A j \in 1 .. Len(s) + 1 : r[j] = IF j < i THEN s[j] ELSE IF j = i THEN x ELSE s[j - 1]
  <2>1. ASSUME NEW l \in 1 .. Len(s) + 1
        PROVE  /\ InsertAt(s, l, x) \in Seq(E) /\ Len(InsertAt(s, l, x)) = Len(s) + 1
               /\ Range(InsertAt(s, l, x)) = Range(s) \cup {x}
               /\ \A j \in 1 .. Len(s) + 1 : InsertAt(s, l, x)[j] =
                    IF j < l THEN s[j] ELSE IF j = l THEN x ELSE s[j - 1]
    BY InsertAtProperties
  <2> QED BY <1>1, <1>2, <2>1
<1>4. DOMAIN r = 1 .. Len(s) + 1
  BY <1>3, LenProperties
<1>5. ASSUME Distinct(s), x \notin Range(s),
             NEW m \in 1 .. Len(s) + 1, NEW n \in 1 .. Len(s) + 1, m < n
      PROVE  r[m] # r[n]
  <2>1. \A a, b \in 1 .. Len(s) : s[a] = s[b] => a = b
    BY <1>0, <1>5 DEF Distinct
  <2>2. \A a \in 1 .. Len(s) : s[a] # x
    BY <1>0, <1>5 DEF Range
  <2>3. CASE m < i /\ n < i
    BY <1>0, <1>1, <1>3, <1>5, <2>1, <2>3
  <2>4. CASE m < i /\ n > i
    <3>1. r[m] = s[m] /\ r[n] = s[n - 1] /\ m \in 1 .. Len(s) /\ n - 1 \in 1 .. Len(s) /\ m # n - 1
      BY <1>0, <1>1, <1>3, <1>5, <2>4
    <3> QED BY <2>1, <3>1
  <2>5. CASE m > i
    <3>1. r[m] = s[m - 1] /\ r[n] = s[n - 1] /\ m - 1 \in 1 .. Len(s) /\ n - 1 \in 1 .. Len(s)
          /\ m - 1 # n - 1
      BY <1>0, <1>1, <1>3, <1>5, <2>5
    <3> QED BY <2>1, <3>1
  <2>6. CASE m = i \/ n = i
    BY <1>0, <1>1, <1>3, <1>5, <2>2, <2>6
  <2> QED BY <1>0, <1>1, <1>5, <2>3, <2>4, <2>5, <2>6
<1>6. ASSUME SortedBy(s, key), NEW m \in 1 .. Len(s) + 1, NEW n \in 1 .. Len(s) + 1, m < n
      PROVE  key[r[m]] <= key[r[n]]
  <2>1. \A a, b \in 1 .. Len(s) : a <= b => key[s[a]] <= key[s[b]]
    <3>1. \A a, b \in 1 .. Len(s) : a < b => key[s[a]] <= key[s[b]]
      BY <1>0, <1>6 DEF SortedBy
    <3>2. \A a \in 1 .. Len(s) : key[s[a]] \in Int
      BY <1>0
    <3> QED BY <1>0, <3>1, <3>2
  <2>2. \A j \in 1 .. Len(s) : key[s[j]] \in Int /\ key[x] \in Int /\ (i <= j => key[x] <= key[s[j]])
    <3>1. \A j \in 1 .. Len(s) : key[s[j]] \in Int /\ key[x] \in Int
      BY <1>0
    <3>2. ASSUME NEW j \in 1 .. Len(s), i <= j PROVE key[x] <= key[s[j]]
      <4>1. i \in 1 .. Len(s) /\ key[x] < key[s[i]] /\ key[s[i]] <= key[s[j]]
        BY <1>0, <1>1, <2>1, <3>2
      <4> QED BY <3>1, <4>1
    <3> QED BY <3>1, <3>2
  <2>3. CASE n < i
    BY <1>0, <1>1, <1>3, <1>6, <2>1, <2>3
  <2>4. CASE n = i
    BY <1>0, <1>1, <1>3, <1>6, <2>4
  <2>5. CASE n > i /\ m < i
    <3>1. r[m] = s[m] /\ r[n] = s[n - 1] /\ m \in 1 .. Len(s) /\ n - 1 \in 1 .. Len(s) /\ m <= n - 1
      BY <1>0, <1>1, <1>3, <1>6, <2>5
    <3> QED BY <2>1, <3>1
  <2>6. CASE n > i /\ m = i
    BY <1>0, <1>1, <1>3, <1>6, <2>2, <2>6
  <2>7. CASE n > i /\ m > i
    <3>1. r[m] = s[m - 1] /\ r[n] = s[n - 1] /\ m - 1 \in 1 .. Len(s) /\ n - 1 \in 1 .. Len(s)
          /\ m - 1 <= n - 1
      BY <1>0, <1>1, <1>3, <1>6, <2>7
    <3> QED BY <2>1, <3>1
  <2> QED BY <1>0, <1>1, <2>3, <2>4, <2>5, <2>6, <2>7
<1>7. Distinct(s) /\ x \notin Range(s) => Distinct(r)
  <2>1. SUFFICES ASSUME Distinct(s), x \notin Range(s), NEW m \in 1 .. Len(s) + 1,
                        NEW n \in 1 .. Len(s) + 1, r[m] = r[n]
                 PROVE  m = n
    BY <1>4 DEF Distinct
  <2>2. ~(m < n) /\ ~(n < m)
    BY <1>5, <2>1
  <2> QED BY <1>0, <2>2
<1>8. SortedBy(s, key) => SortedBy(r, key)
  BY <1>4, <1>6 DEF SortedBy
<1> QED BY <1>3, <1>7, <1>8 DEF r

\* list_delete leaves the other elements, each once.
LEMMA WithoutList ==
  ASSUME NEW E, NEW s \in Seq(E), NEW S
  PROVE  /\ Without(s, S) \in Seq(E)
         /\ Range(Without(s, S)) = Range(s) \ S
         /\ Distinct(s) => Distinct(Without(s, S))
<1> DEFINE key == [x \in E |-> 0]
<1> QED BY ONLY WithoutProperties, s \in Seq(E)

-----------------------------------------------------------------------------
\* A list is empty when nothing is on it.
LEMMA EmptyRange ==
  ASSUME NEW E, NEW s \in Seq(E)
  PROVE  /\ Range(s) \subseteq E
         /\ s = <<>> <=> Range(s) = {}
         /\ s # <<>> => Head(s) \in Range(s)
<1>1. Len(s) \in Nat /\ DOMAIN s = 1 .. Len(s) /\ \A i \in 1 .. Len(s) : s[i] \in E
  BY LenProperties, ElementOfSeq
<1>2. s = <<>> <=> Len(s) = 0
  BY EmptySeq
<1>3. Len(s) # 0 => 1 \in 1 .. Len(s) /\ Head(s) = s[1]
  BY <1>1, <1>2, HeadTailProperties
<1>4. Range(s) \subseteq E
  BY <1>1 DEF Range
<1>5. Len(s) = 0 => Range(s) = {}
  BY <1>1 DEF Range
<1>6. Len(s) # 0 => Head(s) \in Range(s)
  BY <1>1, <1>3 DEF Range
<1> QED BY <1>2, <1>4, <1>5, <1>6

\* The second list follows the first: what is on one of them is on the result,
\* once if the two have nothing in common.
LEMMA ConcatLists ==
  ASSUME NEW E, NEW s \in Seq(E), NEW r \in Seq(E)
  PROVE  /\ s \o r \in Seq(E)
         /\ Range(s \o r) = Range(s) \cup Range(r)
         /\ Distinct(s) /\ Distinct(r) /\ Range(s) \cap Range(r) = {} => Distinct(s \o r)
<1>0. Len(s) \in Nat /\ Len(r) \in Nat /\ DOMAIN s = 1 .. Len(s) /\ DOMAIN r = 1 .. Len(r)
  BY LenProperties
<1>1. /\ s \o r \in Seq(E) /\ Len(s \o r) = Len(s) + Len(r)
      /\ \A i \in 1 .. Len(s) + Len(r) : (s \o r)[i] = IF i <= Len(s) THEN s[i] ELSE r[i - Len(s)]
  BY ConcatProperties
<1> DEFINE w == s \o r
<1>2. DOMAIN w = 1 .. Len(s) + Len(r)
  BY <1>1, LenProperties
<1> HIDE DEF w
<1>3. /\ \A i \in 1 .. Len(s) : i \in DOMAIN w /\ w[i] = s[i]
      /\ \A i \in 1 .. Len(r) : i + Len(s) \in DOMAIN w /\ w[i + Len(s)] = r[i]
  BY <1>0, <1>1, <1>2 DEF w
<1>4. \A i \in DOMAIN w : \/ i \in DOMAIN s /\ w[i] = s[i]
                          \/ i - Len(s) \in DOMAIN r /\ w[i] = r[i - Len(s)]
  BY <1>0, <1>1, <1>2 DEF w
<1>5. Range(w) = Range(s) \cup Range(r)
  BY <1>0, <1>3, <1>4 DEF Range
<1>6. ASSUME Distinct(s), Distinct(r), Range(s) \cap Range(r) = {}
      PROVE  Distinct(w)
  <2> SUFFICES ASSUME NEW i \in DOMAIN w, NEW j \in DOMAIN w, w[i] = w[j] PROVE i = j
    BY DEF Distinct
  <2>0. i \in Int /\ j \in Int
    BY <1>0, <1>2
  <2>1. CASE i \in DOMAIN s /\ w[i] = s[i] /\ j \in DOMAIN s /\ w[j] = s[j]
    BY <2>1, <1>6 DEF Distinct
  <2>2. CASE i - Len(s) \in DOMAIN r /\ w[i] = r[i - Len(s)] /\ j - Len(s) \in DOMAIN r /\ w[j] = r[j - Len(s)]
    <3>1. i - Len(s) = j - Len(s)
      BY <2>2, <1>6 DEF Distinct
    <3> QED BY <3>1, <2>0, <1>0
  <2>3. CASE i \in DOMAIN s /\ w[i] = s[i] /\ j - Len(s) \in DOMAIN r /\ w[j] = r[j - Len(s)]
    BY <2>3, <1>6 DEF Range
  <2>4. CASE j \in DOMAIN s /\ w[j] = s[j] /\ i - Len(s) \in DOMAIN r /\ w[i] = r[i - Len(s)]
    BY <2>4, <1>6 DEF Range
  <2> QED BY <1>4, <2>1, <2>2, <2>3, <2>4
<1> QED BY <1>1, <1>5, <1>6 DEF w

\* list_insert_end.
LEMMA AppendList ==
  ASSUME NEW E, NEW s \in Seq(E), NEW x \in E
  PROVE  /\ Append(s, x) \in Seq(E)
         /\ Range(Append(s, x)) = Range(s) \cup {x}
         /\ Distinct(s) /\ x \notin Range(s) => Distinct(Append(s, x))
<1>1. <<x>> \in Seq(E) /\ Range(<<x>>) = {x} /\ Append(s, x) = s \o <<x>>
  BY DEF Range
<1>2. Distinct(<<x>>)
  BY DEF Distinct
<1> DEFINE w == <<x>>
<1> HIDE DEF w
<1>3. w \in Seq(E) /\ Range(w) = {x} /\ Append(s, x) = s \o w /\ Distinct(w)
  BY <1>1, <1>2 DEF w
<1>4. x \notin Range(s) => Range(s) \cap Range(w) = {}
  BY <1>3
<1>5. /\ s \o w \in Seq(E) /\ Range(s \o w) = Range(s) \cup Range(w)
      /\ Distinct(s) /\ Distinct(w) /\ Range(s) \cap Range(w) = {} => Distinct(s \o w)
  BY <1>3, ConcatLists
<1> QED BY <1>3, <1>4, <1>5

\* The one element of a list of one.
LEMMA OneElement ==
  ASSUME NEW E, NEW x \in E
  PROVE  <<x>> \in Seq(E) /\ Range(<<x>>) = {x} /\ Distinct(<<x>>) /\ <<x>> # <<>>
BY DEF Range, Distinct

\* The rest of a list behind its head.
LEMMA TailList ==
  ASSUME NEW E, NEW s \in Seq(E), s # <<>>, Distinct(s)
  PROVE  /\ Tail(s) \in Seq(E)
         /\ Range(Tail(s)) = Range(s) \ {Head(s)}
         /\ Distinct(Tail(s))
<1>0. Len(s) \in Nat /\ DOMAIN s = 1 .. Len(s)
  BY LenProperties
<1>1. /\ Head(s) = s[1] /\ Tail(s) \in Seq(E) /\ Len(Tail(s)) = Len(s) - 1
      /\ \A i \in 1 .. Len(Tail(s)) : Tail(s)[i] = s[i + 1]
  BY HeadTailProperties
<1>2. Len(s) # 0
  BY EmptySeq
<1> DEFINE w == Tail(s)
<1>3. DOMAIN w = 1 .. Len(s) - 1
  BY <1>1, LenProperties
<1>4. \A i \in DOMAIN w : i \in Int /\ i + 1 \in DOMAIN s /\ i + 1 # 1 /\ w[i] = s[i + 1]
  BY <1>0, <1>1, <1>3
<1>5. 1 \in DOMAIN s /\ \A i \in DOMAIN s : i # 1 => i - 1 \in DOMAIN w /\ w[i - 1] = s[i]
  BY <1>0, <1>1, <1>2, <1>3
<1> HIDE DEF w
<1>6. Range(w) = Range(s) \ {s[1]}
  BY <1>4, <1>5 DEF Range, Distinct
<1>7. Distinct(w)
  BY <1>4 DEF Distinct
<1> QED BY <1>1, <1>6, <1>7 DEF w

\* list_insert_first.
LEMMA InsertFirstList ==
  ASSUME NEW E, NEW s \in Seq(E), NEW x \in E
  PROVE  /\ InsertFirst(s, x) \in Seq(E)
         /\ Range(InsertFirst(s, x)) = Range(s) \cup {x}
         /\ Distinct(s) /\ x \notin Range(s) => Distinct(InsertFirst(s, x))
<1> DEFINE i == IF s = <<>> THEN 1 ELSE 2
           r == InsertAt(s, i, x)
<1>0. Len(s) \in Nat /\ DOMAIN s = 1 .. Len(s) /\ (s = <<>> <=> Len(s) = 0)
  BY LenProperties, EmptySeq
<1>1. i \in 1 .. Len(s) + 1
  BY <1>0
<1> HIDE DEF i
<1>2. /\ r \in Seq(E) /\ Len(r) = Len(s) + 1 /\ Range(r) = Range(s) \cup {x}
      /\ \A j \in 1 .. Len(s) + 1 : r[j] = IF j < i THEN s[j] ELSE IF j = i THEN x ELSE s[j - 1]
  BY <1>1, InsertAtProperties
<1>3. DOMAIN r = 1 .. Len(s) + 1
  BY <1>2, LenProperties
<1>4. ASSUME Distinct(s), x \notin Range(s) PROVE Distinct(r)
  <2>1. \A j \in DOMAIN r : \/ j = i /\ r[j] = x
                            \/ j < i /\ j \in DOMAIN s /\ r[j] = s[j]
                            \/ j > i /\ j - 1 \in DOMAIN s /\ r[j] = s[j - 1]
    BY <1>0, <1>1, <1>2, <1>3
  <2>2. \A j \in DOMAIN s : s[j] # x
    BY <1>4 DEF Range
  <2> HIDE DEF r
  <2> SUFFICES ASSUME NEW a \in DOMAIN r, NEW b \in DOMAIN r, r[a] = r[b] PROVE a = b
    BY DEF Distinct
  <2>3. a \in Int /\ b \in Int /\ i \in Int
    BY <1>0, <1>1, <1>3
  <2>4. \A u, v \in DOMAIN s : s[u] = s[v] => u = v
    BY <1>4 DEF Distinct
  <2> QED BY <2>1, <2>2, <2>3, <2>4
<1> QED BY <1>2, <1>4 DEF i, InsertFirst

-----------------------------------------------------------------------------
(***************************************************************************)
(* The scheduler.                                                          *)
(***************************************************************************)

Queued(m) == UNION {Range(m.ready[p]) : p \in Prio}

\* The idle task never leaves the ready list, so the scheduler always finds a
\* task to run.
IdleReady(m) == Idle \in Range(m.ready[NumPrio])

\* Nobody is both ready and on a time list.
ReadyApart(m) == Queued(m) \cap OnTimeList(m) = {}

Split(m) ==
  /\ SortedBy(m.p_wait, m.deadline) /\ SortedBy(m.pov_wait, m.deadline)
  /\ \A t \in Range(m.p_wait)   : m.jiffies < m.deadline[t]
  /\ \A t \in Range(m.pov_wait) : m.deadline[t] < m.jiffies

\* A thread that has put itself on a time list executes no more than the
\* yield it is before, and cannot lock the scheduler.
CurrentAwake ==
  k.currp \in OnTimeList(k) => k.sched_lock = 0 /\ (call[k.currp].pc = "yield" \/ k.pendsv)

\* The inductive invariant.
SchedInv ==
  /\ TypeOK
  /\ IdleReady(k)
  /\ ReadyApart(k)
  /\ CurrentAwake
  /\ TimeListsSplitAtWrap

-----------------------------------------------------------------------------
(***************************************************************************)
(* Lists of tasks.                                                         *)
(***************************************************************************)
LEMMA Prios == NumPrio \in Nat \ {0} /\ Prio = 0 .. NumPrio /\ NumPrio \in Prio
BY PrioAssumption DEF Prio

\* The tick counter has at least two values.
LEMMA Ticks == MaxTick \in Nat \ {0} /\ Tick = 0 .. MaxTick
BY TimeAssumption DEF Tick

\* No bits are a well-formed set of awaited bits.
LEMMA NoBitsType == NoBits \in EvBits
BY DEF NoBits, EvBits

\* Call records stay well formed when a thread moves on in a call.
LEMMA CallType ==
  /\ NoCall \in Call
  /\ \A c \in Call, o \in Ops, pc \in Pcs :
       /\ [c EXCEPT !.op = o, !.pc = pc] \in Call
       /\ [c EXCEPT !.op = o, !.pc = pc].pc = pc
<1>1. NoCall \in Call
  BY Ticks, NoBitsType DEF Call, NoCall, Ops, Pcs
<1>2. ASSUME NEW c \in Call, NEW o \in Ops, NEW pc \in Pcs
      PROVE  /\ [c EXCEPT !.op = o, !.pc = pc] \in Call
             /\ [c EXCEPT !.op = o, !.pc = pc].pc = pc
  BY DEF Call
<1> QED BY <1>1, <1>2

(***************************************************************************)
(* The search of the scheduler for the first non-empty priority ends.      *)
(***************************************************************************)
LEMMA FirstNonEmpty ==
  ASSUME NEW f \in [Prio -> Seq(Task)], f[NumPrio] # <<>>
  PROVE  LET p == CHOOSE p \in Prio : f[p] # <<>> /\ \A q \in Prio : q < p => f[q] = <<>>
         IN  p \in Prio /\ Head(f[p]) \in Range(f[p]) /\ Head(f[p]) \in Task
<1> DEFINE T == {p \in Prio : f[p] # <<>>}
           P(p) == f[p] # <<>> /\ \A q \in Prio : q < p => f[q] = <<>>
<1>1. T \in SUBSET Nat /\ NumPrio \in T
  BY Prios
<1>2. PICK p \in T : \A i \in T : p <= i
  BY <1>1, LeastNat
<1>3. p \in Prio /\ P(p)
  BY <1>1, <1>2, Prios
<1> DEFINE r == CHOOSE x \in Prio : P(x)
<1>4. r \in Prio /\ P(r)
  BY <1>3
<1> HIDE DEF r
<1>5. f[r] \in Seq(Task) /\ f[r] # <<>>
  BY <1>4
<1>6. Head(f[r]) \in Range(f[r]) /\ Head(f[r]) \in Task
  <2>1. Len(f[r]) \in Nat /\ Len(f[r]) # 0 /\ DOMAIN f[r] = 1 .. Len(f[r])
    BY <1>5, EmptySeq, LenProperties
  <2>2. Head(f[r]) = f[r][1] /\ 1 \in DOMAIN f[r]
    BY <1>5, <2>1
  <2> QED BY <1>5, <2>1, <2>2, ElementOfSeq DEF Range
<1> QED BY <1>4, <1>6 DEF r

\* The elements of a list of tasks are tasks.
LEMMA RangeType ==
  ASSUME NEW s \in Seq(Task)
  PROVE  Range(s) \subseteq Task
BY LenProperties, ElementOfSeq DEF Range

\* Sortedness depends on the keys of the listed elements only.
LEMMA SortedSame ==
  ASSUME NEW s \in Seq(Task), NEW f, NEW g, \A x \in Range(s) : f[x] = g[x], SortedBy(s, f)
  PROVE  SortedBy(s, g)
BY DEF SortedBy, Range

\* Appending lists and elements adds exactly those elements.
LEMMA ConcatRange ==
  ASSUME NEW s \in Seq(Task), NEW r \in Seq(Task)
  PROVE  s \o r \in Seq(Task) /\ Range(s \o r) = Range(s) \cup Range(r)
<1>0. Len(s) \in Nat /\ Len(r) \in Nat /\ DOMAIN s = 1 .. Len(s) /\ DOMAIN r = 1 .. Len(r)
  BY LenProperties
<1>1. /\ s \o r \in Seq(Task) /\ Len(s \o r) = Len(s) + Len(r)
      /\ \A i \in 1 .. Len(s) + Len(r) : (s \o r)[i] = IF i <= Len(s) THEN s[i] ELSE r[i - Len(s)]
  BY ConcatProperties
<1> DEFINE c == s \o r
<1>2. DOMAIN c = 1 .. Len(s) + Len(r)
  BY <1>1, LenProperties
<1> HIDE DEF c
<1>3. Range(c) \subseteq Range(s) \cup Range(r)
  BY <1>0, <1>1, <1>2 DEF Range, c
<1>4. Range(s) \subseteq Range(c)
  BY <1>0, <1>1, <1>2 DEF Range, c
<1>5. ASSUME NEW i \in 1 .. Len(r) PROVE r[i] \in Range(c)
  <2>1. i + Len(s) \in DOMAIN c /\ c[i + Len(s)] = r[i]
    BY <1>0, <1>1, <1>2 DEF c
  <2> QED BY <2>1 DEF Range
<1>6. Range(r) \subseteq Range(c)
  BY <1>0, <1>5 DEF Range
<1> QED BY <1>1, <1>3, <1>4, <1>6 DEF c

\* The same for list_insert_end of one element.
LEMMA AppendRange ==
  ASSUME NEW s \in Seq(Task), NEW t \in Task
  PROVE  Append(s, t) \in Seq(Task) /\ Range(Append(s, t)) = Range(s) \cup {t}
<1>1. <<t>> \in Seq(Task) /\ Range(<<t>>) = {t} /\ Append(s, t) = s \o <<t>>
  BY DEF Range
<1> QED BY <1>1, ConcatRange

-----------------------------------------------------------------------------
(***************************************************************************)
(* What each function of the kernel does to the memory.                    *)
(***************************************************************************)

\* What the advance of time leaves alone, and what it preserves.
TimeStep(m, r) ==
  /\ r \in Kernel
  /\ r.currp = m.currp /\ r.sched_lock = m.sched_lock /\ r.pendsv = m.pendsv
  /\ OnTimeList(r) \subseteq OnTimeList(m)
  /\ IdleReady(m) => IdleReady(r)
  /\ ReadyApart(m) => ReadyApart(r)

\* The types of the fields the scheduler works on.
LEMMA KernelFields ==
  ASSUME NEW m \in Kernel
  PROVE  /\ m.state \in [Task -> State] /\ m.prio \in [Task -> Prio]
         /\ m.deadline \in [Task -> Tick] /\ m.left \in [Task -> Tick]
         /\ m.obj \in [Task -> Msg \cup Sems \cup Mtxs \cup Cvs] /\ m.evbits \in [Task -> EvBits]
         /\ m.ready \in [Prio -> Seq(Task)]
         /\ m.p_wait \in Seq(Task) /\ m.pov_wait \in Seq(Task)
         /\ m.jiffies \in Tick /\ m.skipped \in Tick /\ m.sched_lock \in Nat
         /\ m.currp \in Task /\ m.pendsv \in BOOLEAN /\ m.yield_pending \in BOOLEAN
         /\ m.value \in [Sems -> Int] /\ m.bug \in BOOLEAN
BY DEF Kernel

\* add_ready_list links tasks into the ready list and touches no time list.
LEMMA AddReadyList ==
  ASSUME NEW m \in Kernel, NEW ts \in Seq(Task)
  PROVE  LET r == add_ready_list(m, ts) IN
         /\ r \in Kernel
         /\ r.p_wait = m.p_wait /\ r.pov_wait = m.pov_wait /\ r.deadline = m.deadline
         /\ r.jiffies = m.jiffies /\ r.skipped = m.skipped
         /\ r.currp = m.currp /\ r.sched_lock = m.sched_lock /\ r.pendsv = m.pendsv
         /\ IdleReady(m) => IdleReady(r)
         /\ Queued(r) \subseteq Queued(m) \cup Range(ts)
<1> DEFINE K(p) == Keep(ts, {t \in Task : m.prio[t] = p})
           f == [p \in Prio |-> m.ready[p] \o K(p)]
           g == [t \in Task |-> IF t \in Range(ts) THEN "READY" ELSE m.state[t]]
           b == m.bug \/ \E t \in Range(ts) : m.state[t] \in {"READY", "ZOMBIE"}
           r == [m EXCEPT !.bug = b, !.state = g, !.ready = f]
<1>1. add_ready_list(m, ts) = r
  BY DEF add_ready_list
<1>2. ASSUME NEW p \in Prio
      PROVE  /\ f[p] \in Seq(Task)
             /\ Range(m.ready[p]) \subseteq Range(f[p])
             /\ Range(f[p]) \subseteq Range(m.ready[p]) \cup Range(ts)
  <2>1. K(p) \in Seq(Task) /\ Range(K(p)) \subseteq Range(ts)
    BY KeepProperties
  <2>2. m.ready[p] \in Seq(Task)
    BY KernelFields
  <2> HIDE DEF K
  <2>3. f[p] = m.ready[p] \o K(p)
    OBVIOUS
  <2> QED BY <2>1, <2>2, <2>3, ConcatRange
<1>3. f \in [Prio -> Seq(Task)]
  <2>1. f = [p \in Prio |-> f[p]]
    OBVIOUS
  <2> HIDE DEF f
  <2> QED BY <1>2, <2>1
<1>4. g \in [Task -> State] /\ b \in BOOLEAN
  BY KernelFields DEF State
<1> HIDE DEF K, f, g, b
<1>5. /\ r \in Kernel /\ r.ready = f
      /\ r.p_wait = m.p_wait /\ r.pov_wait = m.pov_wait /\ r.deadline = m.deadline
      /\ r.jiffies = m.jiffies /\ r.skipped = m.skipped
      /\ r.currp = m.currp /\ r.sched_lock = m.sched_lock /\ r.pendsv = m.pendsv
  BY <1>3, <1>4 DEF Kernel
<1> HIDE DEF r
<1>6. IdleReady(m) => IdleReady(r)
  BY <1>2, <1>5, Prios DEF IdleReady
<1>7. Queued(r) \subseteq Queued(m) \cup Range(ts)
  BY <1>2, <1>5 DEF Queued
<1> QED BY <1>1, <1>5, <1>6, <1>7

\* Unlinking tasks from the time lists keeps the rest, sorted and with their deadlines.
LEMMA TimeUnlink ==
  ASSUME NEW m \in Kernel, NEW S
  PROVE  LET r == time_unlink(m, S) IN
         /\ r \in Kernel
         /\ r.ready = m.ready /\ r.jiffies = m.jiffies /\ r.skipped = m.skipped
         /\ r.currp = m.currp /\ r.sched_lock = m.sched_lock /\ r.pendsv = m.pendsv
         /\ Range(r.p_wait) = Range(m.p_wait) \ S
         /\ Range(r.pov_wait) = Range(m.pov_wait) \ S
         /\ \A t \in OnTimeList(r) : r.deadline[t] = m.deadline[t]
         /\ SortedBy(m.p_wait, m.deadline) => SortedBy(r.p_wait, r.deadline)
         /\ SortedBy(m.pov_wait, m.deadline) => SortedBy(r.pov_wait, r.deadline)
<1> DEFINE p == Without(m.p_wait, S)
           q == Without(m.pov_wait, S)
           d == [t \in Task |-> IF t \in S THEN 0 ELSE m.deadline[t]]
           l == [t \in Task |-> IF t \in S THEN 0 ELSE m.left[t]]
           r == [m EXCEPT !.p_wait = p, !.pov_wait = q, !.deadline = d, !.left = l]
<1>1. time_unlink(m, S) = r
  BY DEF time_unlink
<1>2. m.p_wait \in Seq(Task) /\ m.pov_wait \in Seq(Task)
  BY KernelFields
<1>3. /\ p \in Seq(Task) /\ Range(p) = Range(m.p_wait) \ S
      /\ SortedBy(m.p_wait, m.deadline) => SortedBy(p, m.deadline)
  BY <1>2, WithoutProperties
<1>4. /\ q \in Seq(Task) /\ Range(q) = Range(m.pov_wait) \ S
      /\ SortedBy(m.pov_wait, m.deadline) => SortedBy(q, m.deadline)
  BY <1>2, WithoutProperties
<1>5. d \in [Task -> Tick] /\ l \in [Task -> Tick]
  BY KernelFields, Ticks
<1>6. \A t \in Task \ S : d[t] = m.deadline[t]
  OBVIOUS
<1> HIDE DEF p, q, d, l
<1>7. /\ r \in Kernel
      /\ r.p_wait = p /\ r.pov_wait = q /\ r.deadline = d
      /\ r.ready = m.ready /\ r.jiffies = m.jiffies /\ r.skipped = m.skipped
      /\ r.currp = m.currp /\ r.sched_lock = m.sched_lock /\ r.pendsv = m.pendsv
  BY <1>3, <1>4, <1>5 DEF Kernel
<1> HIDE DEF r
<1>8. \A t \in Range(p) \cup Range(q) : d[t] = m.deadline[t]
  BY <1>2, <1>3, <1>4, <1>6, RangeType
<1>9. /\ SortedBy(m.p_wait, m.deadline) => SortedBy(p, d)
      /\ SortedBy(m.pov_wait, m.deadline) => SortedBy(q, d)
  BY <1>3, <1>4, <1>8, SortedSame
<1> QED BY <1>1, <1>3, <1>4, <1>7, <1>8, <1>9 DEF OnTimeList

(***************************************************************************)
(* The walk over the near list ends at the first deadline in the future;   *)
(* in a sorted list nothing behind it is due.                              *)
(***************************************************************************)
LEMMA Expired ==
  ASSUME NEW m \in Kernel, NEW now \in Tick
  PROVE  /\ expired(m, now) \in Seq(Task)
         /\ Range(expired(m, now)) \subseteq Range(m.p_wait)
         /\ Distinct(m.p_wait) => Distinct(expired(m, now))
         /\ SortedBy(m.p_wait, m.deadline) =>
              \A t \in Range(m.p_wait) \ Range(expired(m, now)) : now < m.deadline[t]
<1> DEFINE s == m.p_wait
           P(i) == /\ \A j \in 1 .. i : m.deadline[s[j]] <= now
                   /\ i < Len(s) => now < m.deadline[s[i + 1]]
           T == {i \in 0 .. Len(s) : i < Len(s) => now < m.deadline[s[i + 1]]}
<1>0. s \in Seq(Task) /\ Len(s) \in Nat /\ DOMAIN s = 1 .. Len(s) /\ now \in Nat
  BY KernelFields, LenProperties, Ticks
<1>1. \A j \in 1 .. Len(s) : s[j] \in Task /\ m.deadline[s[j]] \in Int
  BY <1>0, KernelFields, Ticks, ElementOfSeq
<1>2. Len(s) \in T /\ T \in SUBSET Nat
  BY <1>0
<1> HIDE DEF s
<1>3. PICK i \in T : \A j \in T : i <= j
  BY <1>2, LeastNat
<1>4. ASSUME NEW j \in 1 .. i PROVE m.deadline[s[j]] <= now
  <2>0. i \in 0 .. Len(s)
    OBVIOUS
  <2>1. j - 1 \notin T /\ j - 1 \in 0 .. Len(s) /\ j \in 1 .. Len(s)
    <3> HIDE DEF T
    <3> QED BY <1>0, <1>3, <2>0
  <2>2. (j - 1) + 1 = j
    BY <1>0, <1>3
  <2>3. ~(now < m.deadline[s[(j - 1) + 1]])
    BY <2>1
  <2>4. now \in Int /\ m.deadline[s[j]] \in Int /\ ~(now < m.deadline[s[j]])
    BY <1>0, <1>1, <2>1, <2>2, <2>3
  <2> QED BY <2>4
<1>5. i \in 0 .. Len(s) /\ P(i)
  BY <1>3, <1>4
<1> DEFINE n == CHOOSE x \in 0 .. Len(s) : P(x)
<1>6. n \in 0 .. Len(s) /\ P(n)
  BY <1>5
<1>7. expired(m, now) = SubSeq(s, 1, n)
  BY DEF expired, s
<1> HIDE DEF n
<1> DEFINE e == SubSeq(s, 1, n)
<1>8. e \in Seq(Task) /\ Len(e) = n /\ \A j \in 1 .. n : e[j] = s[j]
  BY <1>0, <1>6, SubSeqProperties
<1>9. DOMAIN e = 1 .. n
  BY <1>8, LenProperties
<1> HIDE DEF e
<1>10. Range(e) \subseteq Range(s)
  BY <1>0, <1>6, <1>8, <1>9 DEF Range
<1>11. ASSUME SortedBy(s, m.deadline), NEW t \in Range(s) \ Range(e)
       PROVE  now < m.deadline[t]
  <2>1. PICK j \in 1 .. Len(s) : s[j] = t
    BY <1>0, <1>11 DEF Range
  <2>2. j > n
    BY <1>0, <1>6, <1>8, <1>9, <1>11, <2>1 DEF Range
  <2>3. n + 1 \in 1 .. Len(s) /\ now < m.deadline[s[n + 1]]
    BY <1>0, <1>6, <2>1, <2>2
  <2>4. m.deadline[s[n + 1]] <= m.deadline[s[j]]
    <3>1. CASE j = n + 1
      BY <1>1, <2>3, <3>1
    <3>2. CASE j # n + 1
      <4>1. n + 1 < j
        BY <1>0, <1>6, <2>1, <2>2, <3>2
      <4> QED BY <1>0, <1>11, <2>1, <2>3, <4>1 DEF SortedBy
    <3> QED BY <3>1, <3>2
  <2> QED BY <1>0, <1>1, <2>1, <2>3, <2>4
<1>12. Distinct(s) => Distinct(e)
  <2>1. \A j \in 1 .. n : j \in 1 .. Len(s)
    BY <1>0, <1>6
  <2> QED BY <1>0, <1>8, <1>9, <2>1 DEF Distinct
<1> QED BY <1>7, <1>8, <1>10, <1>11, <1>12 DEF e, s

\* Unlinking waiters from their objects leaves the scheduler's own lists alone.
LEMMA Unlink ==
  ASSUME NEW m \in Kernel, NEW S
  PROVE  LET r == unlink(m, S) IN
         /\ r \in Kernel
         /\ r.ready = m.ready /\ r.jiffies = m.jiffies /\ r.skipped = m.skipped
         /\ r.currp = m.currp /\ r.sched_lock = m.sched_lock /\ r.pendsv = m.pendsv
         /\ r.p_wait = m.p_wait /\ r.pov_wait = m.pov_wait /\ r.deadline = m.deadline
<1> DEFINE w == [o \in Obj |-> Without(m.wait_list[o], S)]
           r == [m EXCEPT !.wait_list = w]
<1>1. \A o \in Obj : m.wait_list[o] \in Seq(Task)
  BY DEF Kernel
<1>2. \A o \in Obj : Without(m.wait_list[o], S) \in Seq(Task)
  BY <1>1, WithoutProperties
<1>3. w \in [Obj -> Seq(Task)]
  BY <1>2
<1>4. unlink(m, S) = r
  BY DEF unlink
<1> HIDE DEF w
<1>5. /\ r \in Kernel
      /\ r.ready = m.ready /\ r.jiffies = m.jiffies /\ r.skipped = m.skipped
      /\ r.currp = m.currp /\ r.sched_lock = m.sched_lock /\ r.pendsv = m.pendsv
      /\ r.p_wait = m.p_wait /\ r.pov_wait = m.pov_wait /\ r.deadline = m.deadline
  BY <1>3 DEF Kernel
<1> QED BY <1>4, <1>5

(***************************************************************************)
(* The expiry repairs a counter by the number of its expired waiters,      *)
(* which is finite.                                                        *)
(***************************************************************************)
LEMMA CountInList ==
  ASSUME NEW s \in Seq(Task), NEW C \in SUBSET Range(s)
  PROVE  Cardinality(C) \in Nat
<1>0. Len(s) \in Nat /\ DOMAIN s = 1 .. Len(s)
  BY LenProperties
<1>1. IsFiniteSet(1 .. Len(s))
  BY <1>0, FS_Interval
<1>2. s \in [1 .. Len(s) -> Range(s)] /\ \A t \in Range(s) : \E i \in 1 .. Len(s) : s[i] = t
  BY <1>0, SeqDef DEF Range
<1>3. s \in Surjection(1 .. Len(s), Range(s))
  BY <1>2 DEF Surjection
<1>4. IsFiniteSet(Range(s))
  BY <1>1, <1>3, FS_Surjection
<1>5. IsFiniteSet(C)
  BY <1>4, FS_Subset
<1> QED BY <1>5, FS_CardinalityType

\* _isix_port_atomic_sem_inc returns a number.
LEMMA SemIncType ==
  ASSUME NEW v \in Int, NEW limit \in Nat, NEW n \in Nat
  PROVE  sem_inc(v, limit, n) \in Int
BY DEF sem_inc

(***************************************************************************)
(* After expire_waiting_tasks nothing on the near list is due any more.    *)
(***************************************************************************)
LEMMA ExpireWaitingTasks ==
  ASSUME NEW m \in Kernel, NEW now \in Tick
  PROVE  LET r == expire_waiting_tasks(m, now) IN
         /\ TimeStep(m, r)
         /\ r.jiffies = m.jiffies /\ r.skipped = m.skipped
         /\ Range(r.p_wait) \subseteq Range(m.p_wait)
         /\ Range(r.pov_wait) \subseteq Range(m.pov_wait)
         /\ \A t \in OnTimeList(r) : r.deadline[t] = m.deadline[t]
         /\ SortedBy(m.p_wait, m.deadline) =>
              /\ SortedBy(r.p_wait, r.deadline)
              /\ \A t \in Range(r.p_wait) : now < r.deadline[t]
         /\ SortedBy(m.pov_wait, m.deadline) => SortedBy(r.pov_wait, r.deadline)
<1> DEFINE ts == expired(m, now)
           S  == Range(ts)
           W  == {t \in S : m.state[t] \in {"WTSEM", "WTEVT", "WTCOND"}}
           u  == unlink(m, W)
           v  == time_unlink(u, S)
           N(s) == Cardinality({t \in W : m.state[t] = "WTSEM" /\ m.obj[t] = s})
           c  == [s \in Sems |-> sem_inc(v.value[s], SemLimit[s], N(s))]
           b  == [t \in Task |-> IF t \in W THEN NoBits ELSE v.evbits[t]]
           o  == [t \in Task |-> IF t \in W THEN ETIMEOUT ELSE v.obj[t]]
           x  == [v EXCEPT !.value = c, !.evbits = b, !.obj = o]
           r  == add_ready_list(x, ts)
<1>1. expire_waiting_tasks(m, now) = r
  BY DEF expire_waiting_tasks
<1>2. /\ ts \in Seq(Task) /\ S \subseteq Range(m.p_wait)
      /\ SortedBy(m.p_wait, m.deadline) => \A t \in Range(m.p_wait) \ S : now < m.deadline[t]
  BY Expired
<1>3. /\ u \in Kernel
      /\ u.ready = m.ready /\ u.jiffies = m.jiffies /\ u.skipped = m.skipped
      /\ u.currp = m.currp /\ u.sched_lock = m.sched_lock /\ u.pendsv = m.pendsv
      /\ u.p_wait = m.p_wait /\ u.pov_wait = m.pov_wait /\ u.deadline = m.deadline
  BY Unlink
<1>4. \A s \in Sems : N(s) \in Nat
  <2> HIDE DEF ts
  <2>1. \A s \in Sems : {t \in W : m.state[t] = "WTSEM" /\ m.obj[t] = s} \in SUBSET Range(ts)
    OBVIOUS
  <2> QED BY <1>2, <2>1, CountInList
<1> HIDE DEF ts, u, N
<1>5. /\ v \in Kernel
      /\ v.ready = m.ready /\ v.jiffies = m.jiffies /\ v.skipped = m.skipped
      /\ v.currp = m.currp /\ v.sched_lock = m.sched_lock /\ v.pendsv = m.pendsv
      /\ Range(v.p_wait) = Range(m.p_wait) \ S
      /\ Range(v.pov_wait) = Range(m.pov_wait) \ S
      /\ \A t \in OnTimeList(v) : v.deadline[t] = m.deadline[t]
      /\ SortedBy(m.p_wait, m.deadline) => SortedBy(v.p_wait, v.deadline)
      /\ SortedBy(m.pov_wait, m.deadline) => SortedBy(v.pov_wait, v.deadline)
  BY <1>3, TimeUnlink
<1> HIDE DEF S, v
<1>6. c \in [Sems -> Int]
  <2>1. \A s \in Sems : v.value[s] \in Int /\ SemLimit[s] \in Nat
    BY <1>5, KernelFields, SemAssumption
  <2>2. \A s \in Sems : sem_inc(v.value[s], SemLimit[s], N(s)) \in Int
    BY <1>4, <2>1, SemIncType
  <2> QED BY <2>2
<1>7. /\ o \in [Task -> Msg \cup Sems \cup Mtxs \cup Cvs]
      /\ b \in [Task -> EvBits]
  BY <1>5, KernelFields, NoBitsType DEF Msg
<1> HIDE DEF b, c, o
<1>8. /\ x \in Kernel
      /\ x.ready = v.ready /\ x.jiffies = v.jiffies /\ x.skipped = v.skipped
      /\ x.currp = v.currp /\ x.sched_lock = v.sched_lock /\ x.pendsv = v.pendsv
      /\ x.p_wait = v.p_wait /\ x.pov_wait = v.pov_wait /\ x.deadline = v.deadline
  BY <1>5, <1>6, <1>7 DEF Kernel
<1> HIDE DEF x
<1>9. /\ r \in Kernel
      /\ r.p_wait = x.p_wait /\ r.pov_wait = x.pov_wait /\ r.deadline = x.deadline
      /\ r.jiffies = x.jiffies /\ r.skipped = x.skipped
      /\ r.currp = x.currp /\ r.sched_lock = x.sched_lock /\ r.pendsv = x.pendsv
      /\ IdleReady(x) => IdleReady(r)
      /\ Queued(r) \subseteq Queued(x) \cup S
  BY <1>2, <1>8, AddReadyList DEF S
<1> HIDE DEF r
<1>10. OnTimeList(r) \subseteq OnTimeList(m) \ S
  BY <1>5, <1>8, <1>9 DEF OnTimeList
<1>11. Queued(x) = Queued(m) /\ (IdleReady(m) <=> IdleReady(x))
  BY <1>5, <1>8 DEF Queued, IdleReady
<1>12. ReadyApart(m) => ReadyApart(r)
  BY <1>9, <1>10, <1>11 DEF ReadyApart
<1>13. TimeStep(m, r)
  BY <1>5, <1>8, <1>9, <1>10, <1>11, <1>12 DEF TimeStep
<1>14. \A t \in OnTimeList(r) : r.deadline[t] = m.deadline[t]
  BY <1>5, <1>8, <1>9 DEF OnTimeList
<1>15. SortedBy(m.p_wait, m.deadline) => \A t \in Range(r.p_wait) : now < r.deadline[t]
  BY <1>2, <1>5, <1>8, <1>9, <1>14 DEF OnTimeList
<1> QED BY <1>1, <1>5, <1>8, <1>9, <1>13, <1>14, <1>15

\* Steps of time compose.
LEMMA TimeStepRefl ==
  ASSUME NEW m \in Kernel
  PROVE  TimeStep(m, m)
BY DEF TimeStep

\* Steps of time compose.
LEMMA TimeStepTrans ==
  ASSUME NEW m, NEW n, NEW r, TimeStep(m, n), TimeStep(n, r)
  PROVE  TimeStep(m, r)
BY DEF TimeStep

(***************************************************************************)
(* Below the wrap the counter moves on and what becomes due expires.       *)
(***************************************************************************)
LEMMA AdvanceWithin ==
  ASSUME NEW m \in Kernel, NEW ticks \in Nat, m.jiffies + ticks \in Tick
  PROVE  LET r == advance_within(m, ticks) IN
         TimeStep(m, r) /\ r.skipped = m.skipped /\ (Split(m) => Split(r))
<1> DEFINE now == m.jiffies + ticks
           n == [m EXCEPT !.jiffies = now]
           r == expire_waiting_tasks(n, now)
<1>1. advance_within(m, ticks) = r
  BY DEF advance_within
<1>2. now \in Tick /\ m.jiffies <= now /\ now \in Nat /\ m.jiffies \in Nat
  BY KernelFields, Ticks
<1> HIDE DEF now
<1>3. /\ n \in Kernel /\ n.jiffies = now
      /\ n.ready = m.ready /\ n.skipped = m.skipped
      /\ n.currp = m.currp /\ n.sched_lock = m.sched_lock /\ n.pendsv = m.pendsv
      /\ n.p_wait = m.p_wait /\ n.pov_wait = m.pov_wait /\ n.deadline = m.deadline
  BY <1>2 DEF Kernel
<1> HIDE DEF n
<1>4. TimeStep(m, n)
  BY <1>3 DEF TimeStep, OnTimeList, IdleReady, ReadyApart, Queued
<1>5. /\ TimeStep(n, r)
      /\ r.jiffies = n.jiffies /\ r.skipped = n.skipped
      /\ Range(r.p_wait) \subseteq Range(n.p_wait)
      /\ Range(r.pov_wait) \subseteq Range(n.pov_wait)
      /\ \A t \in OnTimeList(r) : r.deadline[t] = n.deadline[t]
      /\ SortedBy(n.p_wait, n.deadline) =>
           /\ SortedBy(r.p_wait, r.deadline)
           /\ \A t \in Range(r.p_wait) : now < r.deadline[t]
      /\ SortedBy(n.pov_wait, n.deadline) => SortedBy(r.pov_wait, r.deadline)
  BY <1>2, <1>3, ExpireWaitingTasks
<1> HIDE DEF r
<1>6. TimeStep(m, r)
  BY <1>4, <1>5, TimeStepTrans
<1>7. ASSUME Split(m) PROVE Split(r)
  <2>1. ASSUME NEW t \in Range(r.pov_wait) PROVE r.deadline[t] < r.jiffies
    <3>1. r.deadline[t] = m.deadline[t] /\ m.deadline[t] < m.jiffies
      BY <1>3, <1>5, <1>7 DEF Split, OnTimeList
    <3>2. m.deadline[t] \in Nat
      BY <1>3, <1>5, KernelFields, Ticks, RangeType
    <3> QED BY <1>2, <1>3, <1>5, <3>1, <3>2
  <2> QED BY <1>3, <1>5, <1>7, <2>1 DEF Split
<1> QED BY <1>1, <1>3, <1>5, <1>6, <1>7

(***************************************************************************)
(* At the wrap the near list is empty, and the overflow list takes its     *)
(* place.                                                                  *)
(***************************************************************************)
LEMMA AdvanceToWrap ==
  ASSUME NEW m \in Kernel
  PROVE  LET r == advance_to_wrap(m) IN
         TimeStep(m, r) /\ r.jiffies = 0 /\ r.skipped = m.skipped /\ (Split(m) => Split(r))
<1> DEFINE top == [m EXCEPT !.jiffies = MaxTick]
           n   == IF m.jiffies < MaxTick THEN expire_waiting_tasks(top, MaxTick) ELSE m
           x   == [n EXCEPT !.jiffies = 0, !.p_wait = n.pov_wait, !.pov_wait = n.p_wait]
           r   == expire_waiting_tasks(x, 0)
<1>1. advance_to_wrap(m) = r
  BY DEF advance_to_wrap
<1>2. m.jiffies \in Nat /\ m.jiffies <= MaxTick /\ MaxTick \in Tick /\ 0 \in Tick
  BY KernelFields, Ticks
<1>3. /\ TimeStep(m, n) /\ n.skipped = m.skipped
      /\ Split(m) => /\ Range(n.p_wait) = {}
                     /\ SortedBy(n.pov_wait, n.deadline)
  <2>1. CASE m.jiffies < MaxTick
    <3>1. /\ top \in Kernel
          /\ top.ready = m.ready /\ top.skipped = m.skipped
          /\ top.currp = m.currp /\ top.sched_lock = m.sched_lock /\ top.pendsv = m.pendsv
          /\ top.p_wait = m.p_wait /\ top.pov_wait = m.pov_wait /\ top.deadline = m.deadline
      BY <1>2 DEF Kernel
    <3> HIDE DEF top
    <3>2. TimeStep(m, top)
      BY <3>1 DEF TimeStep, OnTimeList, IdleReady, ReadyApart, Queued
    <3> DEFINE e == expire_waiting_tasks(top, MaxTick)
    <3>3. /\ TimeStep(top, e) /\ e.skipped = top.skipped
          /\ SortedBy(top.p_wait, top.deadline) => \A t \in Range(e.p_wait) : MaxTick < e.deadline[t]
          /\ SortedBy(top.pov_wait, top.deadline) => SortedBy(e.pov_wait, e.deadline)
      BY <1>2, <3>1, ExpireWaitingTasks
    <3>4. n = e
      BY <2>1
    <3> HIDE DEF e
    <3>5. e \in Kernel
      BY <3>3 DEF TimeStep
    <3>6. \A t \in Range(e.p_wait) : e.deadline[t] \in Nat /\ e.deadline[t] <= MaxTick
      BY <3>5, KernelFields, Ticks, RangeType
    <3>7. Split(m) => Range(e.p_wait) = {}
      BY <1>2, <3>1, <3>3, <3>6, Ticks DEF Split
    <3>8. TimeStep(m, e)
      BY <3>2, <3>3, TimeStepTrans
    <3> QED BY <3>1, <3>3, <3>4, <3>7, <3>8 DEF Split
  <2>2. CASE m.jiffies = MaxTick
    <3>1. n = m
      BY <1>2, <2>2
    <3>2. \A t \in Range(m.p_wait) : m.deadline[t] \in Nat /\ m.deadline[t] <= MaxTick
      BY KernelFields, Ticks, RangeType
    <3>3. Split(m) => Range(m.p_wait) = {}
      BY <1>2, <2>2, <3>2, Ticks DEF Split
    <3> QED BY <3>1, <3>3, TimeStepRefl DEF Split
  <2> QED BY <1>2, <2>1, <2>2, Ticks
<1> HIDE DEF n
<1>4. n \in Kernel
  BY <1>3 DEF TimeStep
<1>5. n.p_wait \in Seq(Task) /\ n.pov_wait \in Seq(Task)
  BY <1>4, KernelFields
<1>6. /\ x \in Kernel /\ x.jiffies = 0
      /\ x.ready = n.ready /\ x.skipped = n.skipped
      /\ x.currp = n.currp /\ x.sched_lock = n.sched_lock /\ x.pendsv = n.pendsv
      /\ x.p_wait = n.pov_wait /\ x.pov_wait = n.p_wait /\ x.deadline = n.deadline
  BY <1>2, <1>4, <1>5 DEF Kernel
<1> HIDE DEF x
<1>7. TimeStep(n, x)
  BY <1>6 DEF TimeStep, OnTimeList, IdleReady, ReadyApart, Queued
<1>8. /\ TimeStep(x, r)
      /\ r.jiffies = x.jiffies /\ r.skipped = x.skipped
      /\ Range(r.pov_wait) \subseteq Range(x.pov_wait)
      /\ SortedBy(x.p_wait, x.deadline) =>
           /\ SortedBy(r.p_wait, r.deadline)
           /\ \A t \in Range(r.p_wait) : 0 < r.deadline[t]
  BY <1>2, <1>6, ExpireWaitingTasks
<1> HIDE DEF r
<1>9. TimeStep(m, r)
  BY <1>3, <1>7, <1>8, TimeStepTrans
<1>10. ASSUME Split(m) PROVE Split(r)
  <2>1. Range(r.pov_wait) = {}
    BY <1>3, <1>6, <1>8, <1>10
  <2>2. SortedBy(r.pov_wait, r.deadline)
    BY <2>1 DEF SortedBy, Range
  <2> QED BY <1>3, <1>6, <1>8, <1>10, <2>1, <2>2 DEF Split
<1> QED BY <1>1, <1>3, <1>6, <1>8, <1>9, <1>10

\* advance_jiffies, for every number of ticks below one turn of the counter.
LEMMA AdvanceJiffies ==
  ASSUME NEW m \in Kernel, NEW ticks \in Tick
  PROVE  LET r == advance_jiffies(m, ticks) IN
         TimeStep(m, r) /\ r.skipped = m.skipped /\ (Split(m) => Split(r))
<1> DEFINE w == MaxTick - m.jiffies + 1
           n == advance_to_wrap(m)
           r == advance_jiffies(m, ticks)
<1>0. m.jiffies \in Nat /\ m.jiffies <= MaxTick /\ ticks \in Nat /\ ticks <= MaxTick /\ MaxTick \in Nat
  BY KernelFields, Ticks
<1>1. TimeStep(m, n) /\ n.jiffies = 0 /\ n.skipped = m.skipped /\ (Split(m) => Split(n))
  BY AdvanceToWrap
<1>2. CASE ticks = 0
  <2>1. r = m
    BY <1>0, <1>2 DEF advance_jiffies
  <2> QED BY <2>1, TimeStepRefl
<1>3. CASE ticks > 0 /\ ticks < w
  <2>1. r = advance_within(m, ticks)
    BY <1>0, <1>3 DEF advance_jiffies
  <2>2. m.jiffies + ticks \in Tick
    BY <1>0, <1>3, Ticks
  <2> QED BY <1>0, <2>1, <2>2, AdvanceWithin
<1>4. CASE ticks = w
  <2>1. r = n
    BY <1>0, <1>4 DEF advance_jiffies
  <2> QED BY <1>1, <2>1
<1>5. CASE ticks > w
  <2>1. r = advance_within(n, ticks - w)
    BY <1>0, <1>5 DEF advance_jiffies
  <2>2. ticks - w \in Nat /\ n.jiffies + (ticks - w) \in Tick /\ n \in Kernel
    BY <1>0, <1>1, <1>5, Ticks DEF TimeStep
  <2> HIDE DEF n, w
  <2>3. TimeStep(n, r) /\ r.skipped = n.skipped /\ (Split(n) => Split(r))
    BY <2>1, <2>2, AdvanceWithin
  <2> QED BY <1>1, <2>3, TimeStepTrans
<1> QED BY <1>0, <1>2, <1>3, <1>4, <1>5

(***************************************************************************)
(* The rotation moves the running task within its priority; the scheduler  *)
(* then picks a queued task.                                               *)
(***************************************************************************)
LEMMA Rotate ==
  ASSUME NEW m \in Kernel
  PROVE  LET r == rotate(m) IN
         /\ r \in Kernel
         /\ \A p \in Prio : Range(r.ready[p]) = Range(m.ready[p])
         /\ r.p_wait = m.p_wait /\ r.pov_wait = m.pov_wait /\ r.deadline = m.deadline
         /\ r.jiffies = m.jiffies /\ r.sched_lock = m.sched_lock
<1>1. CASE m.state[m.currp] # "RUNNING"
  BY <1>1 DEF rotate
<1>2. CASE m.state[m.currp] = "RUNNING"
  <2> DEFINE c == m.currp
             A(p) == Append(Without(m.ready[p], {c}), c)
             f == [p \in Prio |-> IF c \in Range(m.ready[p]) THEN A(p) ELSE m.ready[p]]
             b == m.bug \/ \A p \in Prio : c \notin Range(m.ready[p])
             g == [m.state EXCEPT ![c] = "READY"]
             r == [m EXCEPT !.bug = b, !.ready = f, !.state = g]
  <2>1. rotate(m) = r
    BY <1>2 DEF rotate
  <2>2. c \in Task /\ \A p \in Prio : m.ready[p] \in Seq(Task)
    BY KernelFields
  <2> HIDE DEF c
  <2>3. ASSUME NEW p \in Prio
        PROVE  A(p) \in Seq(Task) /\ Range(A(p)) = Range(m.ready[p]) \cup {c}
    <3>1. /\ Without(m.ready[p], {c}) \in Seq(Task)
          /\ Range(Without(m.ready[p], {c})) = Range(m.ready[p]) \ {c}
      BY <2>2, WithoutProperties
    <3>2. Range(A(p)) = (Range(m.ready[p]) \ {c}) \cup {c} /\ A(p) \in Seq(Task)
      BY <2>2, <3>1, AppendRange
    <3> HIDE DEF A
    <3> QED BY <3>2
  <2> HIDE DEF A
  <2>4. f \in [Prio -> Seq(Task)] /\ \A p \in Prio : Range(f[p]) = Range(m.ready[p])
    BY <2>2, <2>3
  <2>5. b \in BOOLEAN /\ g \in [Task -> State]
    BY KernelFields DEF State
  <2> HIDE DEF b, f, g
  <2>6. /\ r \in Kernel /\ r.ready = f
        /\ r.p_wait = m.p_wait /\ r.pov_wait = m.pov_wait /\ r.deadline = m.deadline
        /\ r.jiffies = m.jiffies /\ r.sched_lock = m.sched_lock
    BY <2>4, <2>5 DEF Kernel
  <2> QED BY <2>1, <2>4, <2>6
<1> QED BY <1>1, <1>2

\* _isixp_schedule finds a task, unless the scheduler is locked.
LEMMA Schedule ==
  ASSUME NEW m \in Kernel, IdleReady(m)
  PROVE  LET r == schedule(m) IN
         /\ r \in Kernel /\ IdleReady(r)
         /\ Queued(r) = Queued(m)
         /\ m.sched_lock # 0 => r.currp = m.currp
         /\ m.sched_lock = 0 => r.currp \in Queued(m)
         /\ r.p_wait = m.p_wait /\ r.pov_wait = m.pov_wait /\ r.deadline = m.deadline
         /\ r.jiffies = m.jiffies /\ r.sched_lock = m.sched_lock
<1>1. CASE m.sched_lock # 0
  <2> DEFINE r == [m EXCEPT !.yield_pending = TRUE]
  <2>1. schedule(m) = r
    BY <1>1 DEF schedule
  <2>2. /\ r \in Kernel /\ r.ready = m.ready
        /\ r.p_wait = m.p_wait /\ r.pov_wait = m.pov_wait /\ r.deadline = m.deadline
        /\ r.jiffies = m.jiffies /\ r.sched_lock = m.sched_lock /\ r.currp = m.currp
    BY DEF Kernel
  <2> QED BY <1>1, <2>1, <2>2 DEF IdleReady, Queued
<1>2. CASE m.sched_lock = 0
  <2> DEFINE n == rotate(m)
             p == top_prio(n)
             t == Head(n.ready[p])
             b == n.bug \/ n.state[t] # "READY" \/ n.prio[t] # p
             g == [n.state EXCEPT ![t] = "RUNNING"]
             r == [n EXCEPT !.bug = b, !.currp = t, !.state = g]
  <2>1. schedule(m) = r
    BY <1>2 DEF schedule
  <2>2. /\ n \in Kernel
        /\ \A q \in Prio : Range(n.ready[q]) = Range(m.ready[q])
        /\ n.p_wait = m.p_wait /\ n.pov_wait = m.pov_wait /\ n.deadline = m.deadline
        /\ n.jiffies = m.jiffies /\ n.sched_lock = m.sched_lock
    BY Rotate
  <2> HIDE DEF n
  <2>3. n.ready \in [Prio -> Seq(Task)] /\ n.state \in [Task -> State] /\ n.bug \in BOOLEAN
    BY <2>2, KernelFields
  <2>4. n.ready[NumPrio] # <<>>
    <3>1. Idle \in Range(n.ready[NumPrio])
      BY <2>2, Prios DEF IdleReady
    <3>2. Range(<<>>) = {}
      BY DEF Range
    <3> QED BY <3>1, <3>2
  <2>5. p \in Prio /\ t \in Range(n.ready[p]) /\ t \in Task
    BY <2>3, <2>4, FirstNonEmpty DEF top_prio
  <2> HIDE DEF p, t
  <2>6. b \in BOOLEAN /\ g \in [Task -> State]
    BY <2>3, <2>5 DEF State
  <2> HIDE DEF b, g
  <2>7. /\ r \in Kernel /\ r.ready = n.ready /\ r.currp = t
        /\ r.p_wait = n.p_wait /\ r.pov_wait = n.pov_wait /\ r.deadline = n.deadline
        /\ r.jiffies = n.jiffies /\ r.sched_lock = n.sched_lock
    BY <2>2, <2>5, <2>6 DEF Kernel
  <2> HIDE DEF r
  <2>8. Queued(r) = Queued(m) /\ IdleReady(r)
    BY <2>2, <2>7, Prios DEF Queued, IdleReady
  <2>9. t \in Queued(m)
    BY <2>2, <2>5 DEF Queued
  <2> QED BY <1>2, <2>1, <2>2, <2>7, <2>8, <2>9
<1> QED BY <1>1, <1>2

-----------------------------------------------------------------------------
(***************************************************************************)
(* The deadline of a timed wait: reached in this turn of the counter and   *)
(* then ahead of it, or in the next turn and then behind it.  A timeout is *)
(* shorter than a whole turn, so it never falls on the present tick.       *)
(***************************************************************************)
LEMMA Deadline ==
  ASSUME NEW now \in Tick, NEW timeout \in Tick, timeout # Infinite
  PROVE  LET at == (now + timeout) % (MaxTick + 1) IN
         at \in Tick /\ at # now
<1> DEFINE M == MaxTick + 1
           x == now + timeout
<1>0. now \in Nat /\ timeout \in Nat /\ timeout > 0 /\ now < M /\ timeout < M /\ M \in Nat \ {0}
  BY Ticks DEF Infinite
<1>1. CASE x < M
  <2>1. x % M = x
    BY <1>0, <1>1
  <2> QED BY <1>0, <1>1, <2>1, Ticks
<1>2. CASE x >= M
  <2>1. x = 1 * M + (x - M) /\ x - M \in 0 .. M - 1
    BY <1>0, <1>2
  <2>2. x % M = x - M
    BY <1>0, <1>2, <2>1
  <2> QED BY <1>0, <1>2, <2>2, Ticks
<1> QED BY <1>0, <1>1, <1>2

\* _isixp_set_sleep takes the current task, and no other, off the ready list.
LEMMA SetSleep ==
  ASSUME NEW m \in Kernel, NEW newstate \in State
  PROVE  LET r == set_sleep(m, newstate) IN
         /\ r \in Kernel
         /\ \A p \in Prio : Range(r.ready[p]) = Range(m.ready[p]) \ {m.currp}
         /\ r.p_wait = m.p_wait /\ r.pov_wait = m.pov_wait /\ r.deadline = m.deadline
         /\ r.jiffies = m.jiffies /\ r.sched_lock = m.sched_lock /\ r.currp = m.currp
<1> DEFINE c == m.currp
           f == [p \in Prio |-> Without(m.ready[p], {c})]
           g == [m.state EXCEPT ![c] = newstate]
           r == [m EXCEPT !.ready = f, !.state = g]
<1>1. set_sleep(m, newstate) = r
  <2>1. [m EXCEPT !.ready = f].state = m.state
    BY DEF Kernel
  <2> QED BY <2>1 DEF set_sleep, delete_from_ready_list, Kernel
<1>2. \A p \in Prio : m.ready[p] \in Seq(Task)
  BY KernelFields
<1>3. \A p \in Prio : /\ Without(m.ready[p], {c}) \in Seq(Task)
                      /\ Range(Without(m.ready[p], {c})) = Range(m.ready[p]) \ {c}
  BY <1>2, WithoutProperties
<1>4. f \in [Prio -> Seq(Task)] /\ \A p \in Prio : Range(f[p]) = Range(m.ready[p]) \ {c}
  BY <1>3
<1>5. g \in [Task -> State]
  BY KernelFields
<1> HIDE DEF f, g
<1>6. /\ r \in Kernel /\ r.ready = f
      /\ r.p_wait = m.p_wait /\ r.pov_wait = m.pov_wait /\ r.deadline = m.deadline
      /\ r.jiffies = m.jiffies /\ r.sched_lock = m.sched_lock /\ r.currp = m.currp
  BY <1>4, <1>5 DEF Kernel
<1> QED BY <1>1, <1>4, <1>6

(***************************************************************************)
(* A task that is on no time list goes to the list its deadline belongs    *)
(* to, and the lists stay split.                                           *)
(***************************************************************************)
LEMMA AddTaskToWaitingList ==
  ASSUME NEW m \in Kernel, NEW t \in Task, NEW timeout \in Tick, timeout # Infinite,
         t \notin OnTimeList(m), Split(m)
  PROVE  LET r == add_task_to_waiting_list(m, t, timeout) IN
         /\ r \in Kernel /\ Split(r)
         /\ r.ready = m.ready /\ r.currp = m.currp /\ r.sched_lock = m.sched_lock
         /\ OnTimeList(r) = OnTimeList(m) \cup {t}
<1> DEFINE at == (m.jiffies + timeout) % (MaxTick + 1)
           dl == [m.deadline EXCEPT ![t] = at]
           lf == [m.left EXCEPT ![t] = timeout]
           P  == InsertSorted(m.p_wait, t, dl)
           V  == InsertSorted(m.pov_wait, t, dl)
           rp == [m EXCEPT !.deadline = dl, !.left = lf, !.p_wait = P]
           rv == [m EXCEPT !.deadline = dl, !.left = lf, !.pov_wait = V]
           r  == add_task_to_waiting_list(m, t, timeout)
<1>0. m.jiffies \in Tick /\ m.p_wait \in Seq(Task) /\ m.pov_wait \in Seq(Task)
  BY KernelFields
<1>1. at \in Tick /\ at # m.jiffies
  BY <1>0, Deadline
<1>2. r = IF at < m.jiffies THEN rv ELSE rp
  BY DEF add_task_to_waiting_list, Kernel
<1> HIDE DEF at, r
<1>3. /\ dl \in [Task -> Tick] /\ lf \in [Task -> Tick] /\ dl[t] = at
      /\ \A u \in Task \ {t} : dl[u] = m.deadline[u]
  BY <1>1, KernelFields
<1>4. dl \in [Task -> Int]
  BY <1>3, Ticks
<1> HIDE DEF dl, lf
<1>5. \A u \in OnTimeList(m) : dl[u] = m.deadline[u]
  BY <1>0, <1>3, RangeType DEF OnTimeList
<1>6. SortedBy(m.p_wait, dl) /\ SortedBy(m.pov_wait, dl)
  BY <1>0, <1>5, SortedSame DEF Split, OnTimeList
<1>7. P \in Seq(Task) /\ Range(P) = Range(m.p_wait) \cup {t} /\ SortedBy(P, dl)
  BY <1>0, <1>4, <1>6, InsertSortedProperties
<1>8. V \in Seq(Task) /\ Range(V) = Range(m.pov_wait) \cup {t} /\ SortedBy(V, dl)
  BY <1>0, <1>4, <1>6, InsertSortedProperties
<1> HIDE DEF P, V
<1>9. CASE at < m.jiffies
  <2>1. /\ r \in Kernel
        /\ r.ready = m.ready /\ r.currp = m.currp /\ r.sched_lock = m.sched_lock
        /\ r.p_wait = m.p_wait /\ r.pov_wait = V /\ r.deadline = dl /\ r.jiffies = m.jiffies
    BY <1>2, <1>3, <1>8, <1>9 DEF Kernel
  <2>2. OnTimeList(r) = OnTimeList(m) \cup {t}
    BY <1>8, <2>1 DEF OnTimeList
  <2>3. \A u \in Range(r.p_wait) : r.jiffies < r.deadline[u]
    BY <1>5, <2>1 DEF Split, OnTimeList
  <2>4. \A u \in Range(r.pov_wait) : r.deadline[u] < r.jiffies
    BY <1>3, <1>5, <1>8, <1>9, <2>1 DEF Split, OnTimeList
  <2> QED BY <1>6, <1>8, <2>1, <2>2, <2>3, <2>4 DEF Split, r
<1>10. CASE ~(at < m.jiffies)
  <2>1. /\ r \in Kernel
        /\ r.ready = m.ready /\ r.currp = m.currp /\ r.sched_lock = m.sched_lock
        /\ r.p_wait = P /\ r.pov_wait = m.pov_wait /\ r.deadline = dl /\ r.jiffies = m.jiffies
    BY <1>2, <1>3, <1>7, <1>10 DEF Kernel
  <2>2. OnTimeList(r) = OnTimeList(m) \cup {t}
    BY <1>7, <2>1 DEF OnTimeList
  <2>3. m.jiffies < at
    BY <1>0, <1>1, <1>10, Ticks
  <2>4. \A u \in Range(r.p_wait) : r.jiffies < r.deadline[u]
    BY <1>3, <1>5, <1>7, <2>1, <2>3 DEF Split, OnTimeList
  <2>5. \A u \in Range(r.pov_wait) : r.deadline[u] < r.jiffies
    BY <1>5, <2>1 DEF Split, OnTimeList
  <2> QED BY <1>6, <1>7, <2>1, <2>2, <2>4, <2>5 DEF Split, r
<1> QED BY <1>9, <1>10

\* The wall clock of the model is history only.
LEMMA Pass ==
  ASSUME NEW m \in Kernel
  PROVE  LET r == pass(m) IN
         /\ TimeStep(m, r) /\ (Split(m) => Split(r))
         /\ r.skipped = m.skipped /\ r.jiffies = m.jiffies
<1> DEFINE l == [t \in Task |-> IF t \in OnTimeList(m) /\ m.left[t] > 0
                                THEN m.left[t] - 1 ELSE m.left[t]]
           r == [m EXCEPT !.left = l]
<1>1. pass(m) = r
  BY DEF pass
<1>2. l \in [Task -> Tick]
  BY KernelFields, Ticks
<1> HIDE DEF l
<1>3. /\ r \in Kernel /\ r.ready = m.ready /\ r.skipped = m.skipped /\ r.jiffies = m.jiffies
      /\ r.currp = m.currp /\ r.sched_lock = m.sched_lock /\ r.pendsv = m.pendsv
      /\ r.p_wait = m.p_wait /\ r.pov_wait = m.pov_wait /\ r.deadline = m.deadline
  BY <1>2 DEF Kernel
<1> HIDE DEF r
<1> QED BY <1>1, <1>3 DEF TimeStep, Split, OnTimeList, IdleReady, ReadyApart, Queued

-----------------------------------------------------------------------------
(***************************************************************************)
(* The steps.                                                              *)
(***************************************************************************)
LEMMA SplitIsInvariant == TimeListsSplitAtWrap <=> Split(k)
BY DEF TimeListsSplitAtWrap, Split

\* Only time has passed, then a context switch is requested.
LEMMA RequestSwitch ==
  ASSUME SchedInv, NEW n, TimeStep(k, n), Split(n),
         k' = port_yield(n), call' \in [Task -> Call]
  PROVE  SchedInv'
<1>1. /\ n \in Kernel /\ n.currp = k.currp /\ n.sched_lock = k.sched_lock
      /\ OnTimeList(n) \subseteq OnTimeList(k) /\ IdleReady(n) /\ ReadyApart(n)
  BY DEF TimeStep, SchedInv
<1>2. /\ k' \in Kernel /\ k'.pendsv = TRUE /\ k'.ready = n.ready /\ k'.jiffies = n.jiffies
      /\ k'.currp = n.currp /\ k'.sched_lock = n.sched_lock
      /\ k'.p_wait = n.p_wait /\ k'.pov_wait = n.pov_wait /\ k'.deadline = n.deadline
  BY <1>1 DEF port_yield, Kernel
<1>3. OnTimeList(k)' = OnTimeList(n) /\ IdleReady(k)' /\ ReadyApart(k)'
  BY <1>1, <1>2 DEF OnTimeList, IdleReady, ReadyApart, Queued
<1>4. TimeListsSplitAtWrap'
  BY <1>2 DEF TimeListsSplitAtWrap, Split
<1>5. CurrentAwake'
  BY <1>1, <1>2, <1>3 DEF CurrentAwake, SchedInv
<1> QED BY <1>2, <1>3, <1>4, <1>5 DEF SchedInv, TypeOK

\* A thread that executes outside of a yield is on no time list.
LEMMA ExecAwake ==
  ASSUME SchedInv, NEW t \in Task, Exec(t), call[t].pc # "yield"
  PROVE  t \notin OnTimeList(k)
BY DEF SchedInv, CurrentAwake, Exec

\* The tick interrupt preserves the invariant.
LEMMA SysTickStep ==
  ASSUME SchedInv, SysTick
  PROVE  SchedInv'
<1> DEFINE m == pass(k)
           n == systimer_announce(m)
<1>1. k \in Kernel /\ Split(k) /\ call \in [Task -> Call]
  BY SplitIsInvariant DEF SchedInv, TypeOK
<1>2. TimeStep(k, m) /\ Split(m) /\ m.skipped = k.skipped
  BY <1>1, Pass
<1>3. m \in Kernel /\ m.sched_lock = k.sched_lock
  BY <1>2 DEF TimeStep
<1>4. k' = port_yield(n) /\ call' = call /\ (k.sched_lock # 0 => k.skipped < MaxSkipped)
  BY DEF SysTick
<1> HIDE DEF m
<1>5. TimeStep(m, n) /\ Split(n)
  <2>1. CASE m.sched_lock # 0
    <3> DEFINE s == m.skipped + 1
               r == [m EXCEPT !.skipped = s]
    <3>1. n = r
      BY <2>1 DEF systimer_announce
    <3>2. s \in Tick
      BY <1>2, <1>3, <1>4, <2>1, KernelFields, Ticks, TimeAssumption
    <3> HIDE DEF s, n
    <3>3. /\ r \in Kernel /\ r.ready = m.ready /\ r.jiffies = m.jiffies
          /\ r.currp = m.currp /\ r.sched_lock = m.sched_lock /\ r.pendsv = m.pendsv
          /\ r.p_wait = m.p_wait /\ r.pov_wait = m.pov_wait /\ r.deadline = m.deadline
      BY <1>3, <3>2 DEF Kernel
    <3> HIDE DEF r
    <3> QED BY <1>2, <3>1, <3>3 DEF TimeStep, Split, OnTimeList, IdleReady, ReadyApart, Queued
  <2>2. CASE m.sched_lock = 0
    <3>1. n = advance_jiffies(m, 1) /\ 1 \in Tick
      BY <2>2, Ticks DEF systimer_announce
    <3> QED BY <1>2, <1>3, <3>1, AdvanceJiffies
  <2> QED BY <2>1, <2>2
<1> HIDE DEF n
<1>6. TimeStep(k, n)
  BY <1>2, <1>5, TimeStepTrans
<1> QED BY <1>1, <1>4, <1>5, <1>6, RequestSwitch

\* The context switch preserves it.
LEMMA PendSVStep ==
  ASSUME SchedInv, PendSV
  PROVE  SchedInv'
<1> DEFINE n == schedule(k)
<1>1. k \in Kernel /\ IdleReady(k) /\ ReadyApart(k) /\ Split(k) /\ call \in [Task -> Call]
  BY SplitIsInvariant DEF SchedInv, TypeOK
<1>2. /\ n \in Kernel /\ IdleReady(n) /\ Queued(n) = Queued(k)
      /\ k.sched_lock # 0 => n.currp = k.currp
      /\ k.sched_lock = 0 => n.currp \in Queued(k)
      /\ n.p_wait = k.p_wait /\ n.pov_wait = k.pov_wait /\ n.deadline = k.deadline
      /\ n.jiffies = k.jiffies /\ n.sched_lock = k.sched_lock
  BY <1>1, Schedule
<1>3. k' = [n EXCEPT !.pendsv = FALSE] /\ call' = call
  BY DEF PendSV
<1> HIDE DEF n
<1>4. /\ k' \in Kernel /\ k'.ready = n.ready /\ k'.jiffies = n.jiffies
      /\ k'.currp = n.currp /\ k'.sched_lock = n.sched_lock
      /\ k'.p_wait = n.p_wait /\ k'.pov_wait = n.pov_wait /\ k'.deadline = n.deadline
  BY <1>2, <1>3 DEF Kernel
<1>5. OnTimeList(k)' = OnTimeList(k) /\ Queued(k)' = Queued(k) /\ IdleReady(k)'
  BY <1>2, <1>4 DEF OnTimeList, Queued, IdleReady
<1>6. ReadyApart(k)'
  BY <1>1, <1>5 DEF ReadyApart
<1>7. TimeListsSplitAtWrap'
  BY <1>1, <1>2, <1>4 DEF TimeListsSplitAtWrap, Split
<1>8. CurrentAwake'
  \* A locked scheduler keeps the current task, which is awake; otherwise the
  \* new one comes from the ready list.
  <2>1. SUFFICES ASSUME k'.currp \in OnTimeList(k) PROVE FALSE
    BY <1>5 DEF CurrentAwake
  <2>2. CASE k.sched_lock # 0
    BY <1>2, <1>4, <2>1, <2>2 DEF SchedInv, CurrentAwake
  <2>3. CASE k.sched_lock = 0
    BY <1>1, <1>2, <1>4, <2>1, <2>3 DEF ReadyApart
  <2> QED BY <2>2, <2>3
<1> QED BY <1>1, <1>3, <1>4, <1>5, <1>6, <1>7, <1>8 DEF SchedInv, TypeOK

\* Requests of a context switch by a thread preserve it.
LEMMA YieldSteps ==
  ASSUME SchedInv, NEW t \in Task, Yield(t) \/ YieldCall(t)
  PROVE  SchedInv'
<1>1. k \in Kernel /\ Split(k) /\ TimeStep(k, k) /\ call \in [Task -> Call]
  BY SplitIsInvariant, TimeStepRefl DEF SchedInv, TypeOK
<1>2. k' = port_yield(k)
  BY DEF Yield, YieldCall
<1>3. call' \in [Task -> Call]
  <2>1. CASE Yield(t)
    <3> DEFINE c == IF call[t].op \in {"sleep", "suspend"} THEN NoCall
                    ELSE [call[t] EXCEPT !.pc = "after"]
    <3>1. call' = [call EXCEPT ![t] = c]
      BY <2>1 DEF Yield
    <3>2. c \in Call
      BY <1>1, CallType DEF Call, Pcs
    <3> HIDE DEF c
    <3> QED BY <1>1, <3>1, <3>2
  <2>2. CASE YieldCall(t)
    BY <1>1, <2>2 DEF YieldCall
  <2> QED BY <2>1, <2>2
<1> QED BY <1>1, <1>2, <1>3, RequestSwitch

\* isix_wait preserves it: the caller is on no time list before.
LEMMA WaitStep ==
  ASSUME SchedInv, NEW t \in Task, NEW timeout \in Timeouts, Wait(t, timeout)
  PROVE  SchedInv'
<1> DEFINE n == set_sleep(k, "SLEEPING")
           r == add_task_to_waiting_list(n, t, timeout)
           c == [NoCall EXCEPT !.op = "sleep", !.pc = "yield"]
<1>1. /\ k \in Kernel /\ IdleReady(k) /\ ReadyApart(k) /\ Split(k) /\ call \in [Task -> Call]
      /\ timeout \in Tick
  BY SplitIsInvariant, TimeAssumption DEF SchedInv, TypeOK
<1>2. k.currp = t /\ t # Idle /\ k.sched_lock = 0 /\ Exec(t) /\ call[t].pc = "run"
  BY DEF Wait, MayBlock, Running, Exec
<1>3. t \notin OnTimeList(k)
  BY <1>2, ExecAwake
<1>4. /\ k' = (IF timeout = Infinite THEN n ELSE r)
      /\ call' = [call EXCEPT ![t] = c]
  BY <1>2 DEF Wait, set_sleep_timeout
<1>5. /\ n \in Kernel
      /\ \A p \in Prio : Range(n.ready[p]) = Range(k.ready[p]) \ {t}
      /\ n.p_wait = k.p_wait /\ n.pov_wait = k.pov_wait /\ n.deadline = k.deadline
      /\ n.jiffies = k.jiffies /\ n.sched_lock = k.sched_lock /\ n.currp = k.currp
  <2>1. "SLEEPING" \in State
    BY DEF State
  <2> QED BY <1>1, <1>2, <2>1, SetSleep
<1>6. c \in Call /\ c.pc = "yield"
  BY CallType DEF Ops, Pcs
<1> HIDE DEF n, c
<1>7. OnTimeList(n) = OnTimeList(k) /\ Queued(n) = Queued(k) \ {t} /\ IdleReady(n) /\ Split(n)
  <2>1. OnTimeList(n) = OnTimeList(k) /\ Split(n)
    BY <1>1, <1>5 DEF OnTimeList, Split
  <2>2. Queued(n) = Queued(k) \ {t}
    BY <1>5 DEF Queued
  <2>3. IdleReady(n)
    BY <1>1, <1>2, <1>5, Prios DEF IdleReady
  <2> QED BY <2>1, <2>2, <2>3
<1>8. /\ k' \in Kernel /\ Split(k')
      /\ k'.ready = n.ready /\ k'.currp = t /\ k'.sched_lock = 0
      /\ OnTimeList(k') \subseteq OnTimeList(k) \cup {t}
  <2>1. CASE timeout = Infinite
    BY <1>2, <1>4, <1>5, <1>7, <2>1
  <2>2. CASE timeout # Infinite
    <3>1. /\ r \in Kernel /\ Split(r)
          /\ r.ready = n.ready /\ r.currp = n.currp /\ r.sched_lock = n.sched_lock
          /\ OnTimeList(r) = OnTimeList(n) \cup {t}
      BY <1>1, <1>3, <1>5, <1>7, <2>2, AddTaskToWaitingList
    <3> HIDE DEF r
    <3> QED BY <1>2, <1>4, <1>5, <1>7, <2>2, <3>1
  <2> QED BY <2>1, <2>2
<1>9. Queued(k') = Queued(k) \ {t} /\ IdleReady(k')
  BY <1>7, <1>8 DEF Queued, IdleReady
<1>10. ReadyApart(k)'
  BY <1>1, <1>8, <1>9 DEF ReadyApart
<1>11. call' \in [Task -> Call] /\ call'[t].pc = "yield"
  BY <1>1, <1>4, <1>6
<1>12. CurrentAwake'
  BY <1>8, <1>11 DEF CurrentAwake
<1>13. TimeListsSplitAtWrap'
  BY <1>8 DEF TimeListsSplitAtWrap, Split
<1> QED BY <1>8, <1>9, <1>10, <1>11, <1>12, <1>13 DEF SchedInv, TypeOK

\* _isixp_lock_scheduler and the decrement of the unlock preserve it.
LEMMA LockSteps ==
  ASSUME SchedInv, NEW t \in Task, LockScheduler(t) \/ UnlockScheduler(t)
  PROVE  SchedInv'
<1>1. /\ k \in Kernel /\ IdleReady(k) /\ ReadyApart(k) /\ Split(k) /\ call \in [Task -> Call]
  BY SplitIsInvariant DEF SchedInv, TypeOK
<1>2. k.currp = t /\ Exec(t) /\ call[t].pc = "run"
  BY DEF LockScheduler, UnlockScheduler, Running, Exec
<1>3. t \notin OnTimeList(k)
  BY <1>2, ExecAwake
<1>4. PICK l \in Nat : k' = [k EXCEPT !.sched_lock = l]
  <2>1. k.sched_lock \in Nat
    BY <1>1, KernelFields
  <2>2. CASE LockScheduler(t)
    <3>1. k.sched_lock + 1 \in Nat /\ k' = [k EXCEPT !.sched_lock = k.sched_lock + 1]
      BY <2>1, <2>2 DEF LockScheduler
    <3> QED BY <3>1
  <2>3. CASE UnlockScheduler(t)
    <3>1. k.sched_lock - 1 \in Nat /\ k' = [k EXCEPT !.sched_lock = k.sched_lock - 1]
      BY <2>1, <2>3 DEF UnlockScheduler
    <3> QED BY <3>1
  <2> QED BY <2>2, <2>3
<1>5. call' \in [Task -> Call]
  <2>1. CASE LockScheduler(t)
    BY <1>1, <2>1 DEF LockScheduler
  <2>2. CASE UnlockScheduler(t)
    <3> DEFINE c == IF k.sched_lock = 1 THEN [NoCall EXCEPT !.op = "lock", !.pc = "enter"]
                    ELSE call[t]
    <3>1. call' = [call EXCEPT ![t] = c]
      BY <2>2 DEF UnlockScheduler
    <3>2. c \in Call
      BY <1>1, CallType DEF Ops, Pcs
    <3> HIDE DEF c
    <3> QED BY <1>1, <3>1, <3>2
  <2> QED BY <2>1, <2>2
<1>6. /\ k' \in Kernel /\ k'.ready = k.ready /\ k'.jiffies = k.jiffies /\ k'.currp = t
      /\ k'.p_wait = k.p_wait /\ k'.pov_wait = k.pov_wait /\ k'.deadline = k.deadline
  BY <1>1, <1>2, <1>4 DEF Kernel
<1>7. OnTimeList(k)' = OnTimeList(k) /\ Queued(k)' = Queued(k) /\ IdleReady(k)'
  BY <1>1, <1>6 DEF OnTimeList, Queued, IdleReady
<1>8. ReadyApart(k)' /\ CurrentAwake'
  BY <1>1, <1>3, <1>6, <1>7 DEF ReadyApart, CurrentAwake
<1>9. TimeListsSplitAtWrap'
  BY <1>1, <1>6 DEF TimeListsSplitAtWrap, Split
<1> QED BY <1>5, <1>6, <1>7, <1>8, <1>9 DEF SchedInv, TypeOK

\* The replay of the skipped ticks preserves it.
LEMMA UnlockFlushStep ==
  ASSUME SchedInv, NEW t \in Task, UnlockFlush(t)
  PROVE  SchedInv'
<1> DEFINE n == advance_jiffies(k, k.skipped)
           m == [n EXCEPT !.skipped = 0]
           b == n.pendsv \/ n.yield_pending
<1>1. /\ k \in Kernel /\ IdleReady(k) /\ ReadyApart(k) /\ Split(k) /\ call \in [Task -> Call]
      /\ k.skipped \in Tick
  BY SplitIsInvariant, KernelFields DEF SchedInv, TypeOK
<1>2. k.currp = t /\ Exec(t) /\ call[t].pc = "enter"
  BY DEF UnlockFlush, Exec
<1>3. t \notin OnTimeList(k)
  BY <1>2, ExecAwake
<1>4. TimeStep(k, n) /\ Split(n)
  BY <1>1, AdvanceJiffies
<1>5. k' = unlock_flush(k) /\ call' = [call EXCEPT ![t] = NoCall]
  BY DEF UnlockFlush
<1> HIDE DEF n
<1>6. /\ n \in Kernel /\ n.currp = k.currp
      /\ OnTimeList(n) \subseteq OnTimeList(k) /\ IdleReady(n) /\ ReadyApart(n)
  BY <1>1, <1>4 DEF TimeStep
<1>7. m.pendsv = n.pendsv /\ m.yield_pending = n.yield_pending
  BY <1>6 DEF Kernel
<1>8. k' = [n EXCEPT !.skipped = 0, !.pendsv = b, !.yield_pending = FALSE]
  BY <1>5, <1>6, <1>7 DEF unlock_flush, n, Kernel
<1>9. b \in BOOLEAN /\ 0 \in Tick
  BY <1>6, KernelFields, Ticks
<1> HIDE DEF b, m
<1>10. /\ k' \in Kernel /\ k'.ready = n.ready /\ k'.jiffies = n.jiffies /\ k'.currp = n.currp
       /\ k'.p_wait = n.p_wait /\ k'.pov_wait = n.pov_wait /\ k'.deadline = n.deadline
  BY <1>6, <1>8, <1>9 DEF Kernel
<1>11. OnTimeList(k)' = OnTimeList(n) /\ Queued(k)' = Queued(n) /\ IdleReady(k)'
  BY <1>6, <1>10 DEF OnTimeList, Queued, IdleReady
<1>12. ReadyApart(k)' /\ CurrentAwake'
  BY <1>2, <1>3, <1>6, <1>10, <1>11 DEF ReadyApart, CurrentAwake
<1>13. TimeListsSplitAtWrap'
  BY <1>4, <1>10 DEF TimeListsSplitAtWrap, Split
<1>14. call' \in [Task -> Call]
  BY <1>1, <1>5, CallType
<1> QED BY <1>10, <1>11, <1>12, <1>13, <1>14 DEF SchedInv, TypeOK

\* It holds when the scheduler starts.
LEMMA InitInv ==
  ASSUME Init
  PROVE  SchedInv
<1> DEFINE st == [t \in Task |-> CASE t = InitCurrp -> "RUNNING"
                                   [] t # InitCurrp /\ t \in Range(Boot) \cup {Idle} -> "READY"
                                   [] OTHER -> "NONE"]
<1>1. InitReady \in [Prio -> Seq(Task)] /\ InitReady[NumPrio] = <<Idle>>
  <2>1. Idle \in Task /\ Boot \in Seq(Task) /\ Boot \in Seq(Tasks)
    <3>1. Idle \in Task /\ Tasks \subseteq Task
      BY DEF Task
    <3>2. Boot \in Seq(Tasks)
      BY TaskAssumption
    <3> QED BY <3>1, <3>2
  <2>2. \A p \in Prio : Keep(Boot, {t \in Tasks : BasePrio[t] = p}) \in Seq(Task)
    BY <2>1, KeepProperties
  <2>3. <<Idle>> \in Seq(Task)
    BY <2>1
  <2> QED BY <2>2, <2>3, Prios DEF InitReady
<1>2. InitCurrp \in Task
  <2>1. InitReady[NumPrio] # <<>>
    BY <1>1
  <2> QED BY <1>1, <2>1, FirstNonEmpty DEF InitCurrp
<1>3. InitPrio \in [Task -> Prio]
  BY Prios, PrioAssumption DEF InitPrio, Task
<1>4. st \in [Task -> State]
  BY DEF State
<1>5. SemInit \in [Sems -> Int] /\ 0 \in Tick /\ EOK \in Msg /\ NoBits \in EvBits
  BY SemAssumption, Ticks, NoBitsType DEF Msg
<1> HIDE DEF st
<1>6. InitKernel \in Kernel
  BY <1>1, <1>2, <1>3, <1>4, <1>5 DEF InitKernel, Kernel, st
<1>7. /\ InitKernel.ready = InitReady /\ InitKernel.p_wait = <<>> /\ InitKernel.pov_wait = <<>>
  BY DEF InitKernel
<1>8. k = InitKernel /\ call = [t \in Task |-> NoCall]
  BY DEF Init
<1>9. TypeOK
  BY <1>6, <1>8, CallType DEF TypeOK
<1>10. Range(<<>>) = {} /\ Range(<<Idle>>) = {Idle}
  BY DEF Range
<1>11. OnTimeList(k) = {} /\ IdleReady(k)
  BY <1>1, <1>7, <1>8, <1>10 DEF OnTimeList, IdleReady
<1>12. TimeListsSplitAtWrap
  BY <1>7, <1>8, <1>10 DEF TimeListsSplitAtWrap, SortedBy
<1> QED BY <1>9, <1>11, <1>12 DEF SchedInv, ReadyApart, CurrentAwake

\* Every step preserves it.
LEMMA StepInv ==
  ASSUME SchedInv, [SchedNext]_vars
  PROVE  SchedInv'
<1>1. CASE SysTick
  BY <1>1, SysTickStep
<1>2. CASE PendSV
  BY <1>2, PendSVStep
<1>3. CASE \E t \in Task : Yield(t)
  BY <1>3, YieldSteps
<1>4. CASE SleepOps
  BY <1>4, WaitStep DEF SleepOps
<1>5. CASE \E t \in Task : YieldCall(t)
  BY <1>5, YieldSteps
<1>6. CASE \E t \in Task : LockScheduler(t) \/ UnlockScheduler(t) \/ UnlockFlush(t)
  BY <1>6, LockSteps, UnlockFlushStep
<1>7. CASE UNCHANGED vars
  <2>1. k' = k /\ call' = call
    BY <1>7 DEF vars
  <2> QED BY <2>1 DEF SchedInv, TypeOK, IdleReady, ReadyApart, Queued, OnTimeList,
                      CurrentAwake, TimeListsSplitAtWrap
<1> QED BY <1>1, <1>2, <1>3, <1>4, <1>5, <1>6, <1>7 DEF SchedNext, Machine, SchedOps, ShareOps

\* So it holds in every state.
LEMMA SchedInvHolds == SchedSpec => []SchedInv
<1>1. Init => SchedInv
  BY InitInv
<1>2. SchedInv /\ [SchedNext]_vars => SchedInv'
  BY StepInv
<1> QED BY <1>1, <1>2, PTL DEF SchedSpec

(***************************************************************************)
(* The kernel memory stays well formed under the tick, the context switch, *)
(* isix_wait, isix_yield and the scheduler lock: in particular             *)
(* _isixp_schedule always finds a task, and deadlines and the counter stay *)
(* within their width when they wrap.                                      *)
(***************************************************************************)
THEOREM SchedTypeOK == SchedSpec => []TypeOK
<1>1. SchedInv => TypeOK
  BY DEF SchedInv
<1> QED BY <1>1, SchedInvHolds, PTL

(***************************************************************************)
(* For every width of the tick counter, every set of timeouts and every    *)
(* depth of the scheduler lock: the near list holds, in order, exactly the *)
(* deadlines still ahead in this turn of the counter and the overflow list *)
(* those of the next, also after a replay of skipped ticks that passes the *)
(* wrap (advance_jiffies).                                                 *)
(***************************************************************************)
THEOREM SchedTimeLists == SchedSpec => []TimeListsSplitAtWrap
<1>1. SchedInv => TimeListsSplitAtWrap
  BY DEF SchedInv
<1> QED BY <1>1, SchedInvHolds, PTL
=============================================================================
