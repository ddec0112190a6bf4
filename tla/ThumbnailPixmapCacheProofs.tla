---------------------- MODULE ThumbnailPixmapCacheProofs ----------------------
(***************************************************************************)
(* Proofs about ThumbnailPixmapCache, for any images, thumbnails, workers  *)
(* and sizes of the cache: its two orders, marker and counters, who holds  *)
(* an iterator, that requests are not forgotten nor wake-ups lost.         *)
(*                                                                         *)
(* The two queues are reasoned about by which item comes before which.     *)
(***************************************************************************)
EXTENDS ThumbnailPixmapCache, Functions, SequenceTheorems, FiniteSetTheorems,
        WellFoundedInduction, TLAPS

-----------------------------------------------------------------------------
(* Sequences, sets and numbers.                                            *)

\* Removing one element keeps the others, in their order.
LEMMA RemoveOne ==
  ASSUME NEW S, NEW q \in Seq(S), NEW k \in DOMAIN q
  PROVE  LET r == SubSeq(q, 1, k - 1) \o SubSeq(q, k + 1, Len(q))
         IN /\ r \in Seq(S)
            /\ Len(r) = Len(q) - 1
            /\ \A j \in 1..Len(r) : r[j] = IF j < k THEN q[j] ELSE q[j + 1]
<1> DEFINE n == Len(q)
           a == SubSeq(q, 1, k - 1)
           b == SubSeq(q, k + 1, n)
           r == a \o b
<1>1. n \in Nat /\ DOMAIN q = 1..n /\ k \in 1..n
  BY LenProperties
<1>2. /\ a \in Seq(S) /\ Len(a) = k - 1
      /\ \A j \in 1..(k - 1) : a[j] = q[j]
  BY <1>1, SubSeqProperties
<1>3. /\ b \in Seq(S) /\ Len(b) = n - k
      /\ \A j \in 1..(n - k) : b[j] = q[k + j]
  BY <1>1, SubSeqProperties
<1> HIDE DEF n, a, b
<1>4. /\ r \in Seq(S) /\ Len(r) = n - 1
      /\ \A j \in 1..(n - 1) :
           r[j] = IF j <= k - 1 THEN a[j] ELSE b[j - (k - 1)]
  <2>1. /\ r \in Seq(S) /\ Len(r) = Len(a) + Len(b)
        /\ \A j \in 1..(Len(a) + Len(b)) :
             r[j] = IF j <= Len(a) THEN a[j] ELSE b[j - Len(a)]
    BY <1>2, <1>3, ConcatProperties
  <2>2. Len(a) = k - 1 /\ Len(a) + Len(b) = n - 1
    BY <1>1, <1>2, <1>3
  <2> HIDE DEF r
  <2> QED BY <2>1, <2>2
<1> HIDE DEF r
<1>5. ASSUME NEW j \in 1..(n - 1)
      PROVE  r[j] = IF j < k THEN q[j] ELSE q[j + 1]
  <2>1. CASE j < k
    BY <1>1, <1>2, <1>4, <2>1
  <2>2. CASE ~(j < k)
    <3>1. j - (k - 1) \in 1..(n - k) /\ k + (j - (k - 1)) = j + 1
      BY <1>1, <2>2
    <3>2. r[j] = b[j - (k - 1)]
      BY <1>1, <1>4, <2>2
    <3> QED BY <1>3, <2>2, <3>1, <3>2
  <2> QED BY <2>1, <2>2
<1>6. Len(r) = n - 1 /\ r \in Seq(S)
  BY <1>4
<1>7. \A j \in 1..Len(r) : r[j] = IF j < k THEN q[j] ELSE q[j + 1]
  BY <1>5, <1>6
<1> QED BY <1>6, <1>7 DEF r, n, a, b
-----------------------------------------------------------------------------

\* A sequence of all of S, without repetitions, and its order.
Perm(q, S) == q \in Seq(S) /\ IsInjective(q) /\ Range(q) = S
Before(q, x, y) == \E k, l \in DOMAIN q : k < l /\ q[k] = x /\ q[l] = y

\* What a sequence is made of.
LEMMA PermFacts ==
  ASSUME NEW S, NEW q, Perm(q, S)
  PROVE  /\ Len(q) \in Nat /\ DOMAIN q = 1..Len(q)
         /\ \A k \in DOMAIN q : q[k] \in S
         /\ \A k, l \in DOMAIN q : q[k] = q[l] => k = l
         /\ \A x \in S : \E k \in DOMAIN q : q[k] = x
         /\ \A k \in DOMAIN q : Position(q, q[k]) = k
<1>1. q \in Seq(S)
  BY DEF Perm
<1>2. /\ Len(q) \in Nat /\ DOMAIN q = 1..Len(q)
      /\ \A k \in DOMAIN q : q[k] \in S
  BY <1>1, LenProperties, ElementOfSeq
<1>3. \A k, l \in DOMAIN q : q[k] = q[l] => k = l
  BY DEF Perm, IsInjective
<1>4. \A x \in S : \E k \in DOMAIN q : q[k] = x
  BY DEF Perm, Range
<1>5. \A k \in DOMAIN q : Position(q, q[k]) = k
  BY <1>3 DEF Position
<1> QED BY <1>2, <1>3, <1>4, <1>5

\* A sequence given by its elements.
LEMMA PermIntro ==
  ASSUME NEW S, NEW T, NEW q \in Seq(T),
         \A k \in DOMAIN q : q[k] \in S,
         \A k, l \in DOMAIN q : q[k] = q[l] => k = l,
         \A x \in S : \E k \in DOMAIN q : q[k] = x
  PROVE  Perm(q, S)
<1>1. Len(q) \in Nat /\ q \in [1..Len(q) -> T] /\ DOMAIN q = 1..Len(q)
  BY LenProperties
<1>2. q \in [1..Len(q) -> S]
  BY <1>1
<1>3. q \in Seq(S)
  BY <1>1, <1>2, SeqDef
<1>4. IsInjective(q) /\ Range(q) = S
  BY DEF IsInjective, Range
<1> QED BY <1>3, <1>4 DEF Perm

\* It orders its elements.
LEMMA BeforeOrders ==
  ASSUME NEW S, NEW q, Perm(q, S)
  PROVE  /\ \A x, y : Before(q, x, y) => x \in S /\ y \in S /\ x # y /\ ~Before(q, y, x)
         /\ \A x, y \in S : x # y => Before(q, x, y) \/ Before(q, y, x)
         /\ \A x, y, z : Before(q, x, y) /\ Before(q, y, z) => Before(q, x, z)
<1>1. /\ Len(q) \in Nat /\ DOMAIN q = 1..Len(q)
      /\ \A k \in DOMAIN q : q[k] \in S
      /\ \A k, l \in DOMAIN q : q[k] = q[l] => k = l
      /\ \A x \in S : \E k \in DOMAIN q : q[k] = x
  BY PermFacts
<1>2. ASSUME NEW x, NEW y, Before(q, x, y)
      PROVE  x \in S /\ y \in S /\ x # y /\ ~Before(q, y, x)
  BY <1>1, <1>2 DEF Before
<1>3. ASSUME NEW x \in S, NEW y \in S, x # y
      PROVE  Before(q, x, y) \/ Before(q, y, x)
  <2>1. PICK k \in DOMAIN q, l \in DOMAIN q : q[k] = x /\ q[l] = y
    BY <1>1
  <2>2. k < l \/ l < k
    BY <1>1, <1>3, <2>1
  <2> QED BY <2>1, <2>2 DEF Before
<1>4. ASSUME NEW x, NEW y, NEW z, Before(q, x, y), Before(q, y, z)
      PROVE  Before(q, x, z)
  <2>1. PICK k \in DOMAIN q, l \in DOMAIN q : k < l /\ q[k] = x /\ q[l] = y
    BY <1>4 DEF Before
  <2>2. PICK m \in DOMAIN q, n \in DOMAIN q : m < n /\ q[m] = y /\ q[n] = z
    BY <1>4 DEF Before
  <2>3. l = m /\ k < n
    BY <1>1, <2>1, <2>2
  <2> QED BY <2>1, <2>2, <2>3 DEF Before
<1> QED BY <1>2, <1>3, <1>4

\* Without one of its elements, the others keep their order.
LEMMA WithoutOrder ==
  ASSUME NEW S, NEW q, Perm(q, S), NEW i \in S
  PROVE  LET r == Without(q, i)
         IN /\ Perm(r, S \ {i})
            /\ \A x, y : Before(r, x, y) <=> x # i /\ y # i /\ Before(q, x, y)
<1>1. /\ Len(q) \in Nat /\ DOMAIN q = 1..Len(q)
      /\ \A k \in DOMAIN q : q[k] \in S
      /\ \A k, l \in DOMAIN q : q[k] = q[l] => k = l
      /\ \A x \in S : \E k \in DOMAIN q : q[k] = x
      /\ \A k \in DOMAIN q : Position(q, q[k]) = k
  BY PermFacts
<1>2. PICK p \in DOMAIN q : q[p] = i
  BY <1>1
<1> DEFINE n == Len(q)
           r == SubSeq(q, 1, p - 1) \o SubSeq(q, p + 1, n)
<1>3. Without(q, i) = r
  BY <1>1, <1>2 DEF Without, RemoveAt
<1>4. /\ r \in Seq(S) /\ Len(r) = n - 1
      /\ \A j \in 1..Len(r) : r[j] = IF j < p THEN q[j] ELSE q[j + 1]
  BY RemoveOne DEF Perm
<1> HIDE DEF r, n
<1>5. n \in Nat /\ p \in 1..n /\ DOMAIN q = 1..n /\ DOMAIN r = 1..(n - 1)
  BY <1>1, <1>4, LenProperties DEF n
<1>6. \A k \in DOMAIN r : \E l \in DOMAIN q :
         l # p /\ r[k] = q[l] /\ l = IF k < p THEN k ELSE k + 1
  BY <1>4, <1>5
<1>7. ASSUME NEW l \in DOMAIN q, l # p
      PROVE  \E k \in DOMAIN r : r[k] = q[l] /\ k = IF l < p THEN l ELSE l - 1
  <2>1. CASE l < p
    BY <1>4, <1>5, <2>1
  <2>2. CASE l > p
    <3>1. l - 1 \in DOMAIN r /\ ~(l - 1 < p) /\ l - 1 + 1 = l /\ l - 1 \in 1..Len(r)
      BY <1>4, <1>5, <2>2
    <3>2. r[l - 1] = q[l]
      BY <1>4, <3>1
    <3> QED BY <2>2, <3>1, <3>2, <1>5
  <2> QED BY <1>5, <1>7, <2>1, <2>2
<1>8. Perm(r, S \ {i})
  <2>1. \A k \in DOMAIN r : r[k] \in S \ {i}
    BY <1>1, <1>2, <1>6
  <2>2. ASSUME NEW k \in DOMAIN r, NEW l \in DOMAIN r, r[k] = r[l]
        PROVE  k = l
    <3>1. PICK a \in DOMAIN q : r[k] = q[a] /\ a = IF k < p THEN k ELSE k + 1
      BY <1>6
    <3>2. PICK b \in DOMAIN q : r[l] = q[b] /\ b = IF l < p THEN l ELSE l + 1
      BY <1>6
    <3>3. a = b
      BY <1>1, <2>2, <3>1, <3>2
    <3> QED BY <1>5, <3>1, <3>2, <3>3
  <2>3. \A x \in S \ {i} : \E k \in DOMAIN r : r[k] = x
    BY <1>1, <1>2, <1>7
  <2> QED BY <1>4, <2>1, <2>2, <2>3, PermIntro
<1>9. ASSUME NEW x, NEW y, Before(r, x, y)
      PROVE  x # i /\ y # i /\ Before(q, x, y)
  <2>1. PICK k \in DOMAIN r, l \in DOMAIN r : k < l /\ r[k] = x /\ r[l] = y
    BY <1>9 DEF Before
  <2>2. PICK a \in DOMAIN q : a # p /\ r[k] = q[a] /\ a = IF k < p THEN k ELSE k + 1
    BY <1>6
  <2>3. PICK b \in DOMAIN q : b # p /\ r[l] = q[b] /\ b = IF l < p THEN l ELSE l + 1
    BY <1>6
  <2>4. a < b
    BY <1>5, <2>1, <2>2, <2>3
  <2> QED BY <1>1, <1>2, <2>1, <2>2, <2>3, <2>4 DEF Before
<1>10. ASSUME NEW x, NEW y, x # i, y # i, Before(q, x, y)
       PROVE  Before(r, x, y)
  <2>1. PICK a \in DOMAIN q, b \in DOMAIN q : a < b /\ q[a] = x /\ q[b] = y
    BY <1>10 DEF Before
  <2>2. PICK k \in DOMAIN r : r[k] = q[a] /\ k = IF a < p THEN a ELSE a - 1
    BY <1>2, <1>7, <1>10, <2>1
  <2>3. PICK l \in DOMAIN r : r[l] = q[b] /\ l = IF b < p THEN b ELSE b - 1
    BY <1>2, <1>7, <1>10, <2>1
  <2>4. a # p /\ b # p
    BY <1>2, <1>10, <2>1
  <2>5. k < l
    BY <1>5, <2>1, <2>2, <2>3, <2>4
  <2> QED BY <2>1, <2>2, <2>3, <2>5 DEF Before
<1> QED BY <1>3, <1>8, <1>9, <1>10

\* An element is put at position p of a sequence it is not in.
PutAt(q, p, i, r) ==
  /\ Len(r) = Len(q) + 1
  /\ \A j \in 1..Len(r) : r[j] = IF j < p THEN q[j] ELSE IF j = p THEN i ELSE q[j - 1]

\* It comes behind those that were before p, and before the others.
LEMMA PutOrder ==
  ASSUME NEW S, NEW q, Perm(q, S), NEW i, i \notin S, NEW p \in 1..(Len(q) + 1),
         NEW r \in Seq(S \cup {i}), PutAt(q, p, i, r)
  PROVE  /\ Perm(r, S \cup {i})
         /\ \A x, y : Before(r, x, y) <=>
              \/ Before(q, x, y)
              \/ x = i /\ \E k \in DOMAIN q : k >= p /\ q[k] = y
              \/ y = i /\ \E k \in DOMAIN q : k < p /\ q[k] = x
<1> DEFINE n == Len(q)
<1>1. /\ n \in Nat /\ DOMAIN q = 1..n
      /\ \A k \in DOMAIN q : q[k] \in S
      /\ \A k, l \in DOMAIN q : q[k] = q[l] => k = l
      /\ \A x \in S : \E k \in DOMAIN q : q[k] = x
  BY PermFacts
<1>2. /\ DOMAIN r = 1..(n + 1)
      /\ \A j \in 1..(n + 1) : r[j] = IF j < p THEN q[j] ELSE IF j = p THEN i ELSE q[j - 1]
  BY LenProperties DEF PutAt
<1>3. p \in 1..(n + 1)
  OBVIOUS
<1> HIDE DEF n
<1>4. \A k \in DOMAIN r :
        \/ k = p /\ r[k] = i
        \/ k # p /\ \E l \in DOMAIN q : r[k] = q[l] /\ l = IF k < p THEN k ELSE k - 1
  <2> SUFFICES ASSUME NEW k \in DOMAIN r, k # p
               PROVE  \E l \in DOMAIN q : r[k] = q[l] /\ l = IF k < p THEN k ELSE k - 1
    BY <1>2, <1>3
  <2>1. CASE k < p
    BY <1>1, <1>2, <1>3, <2>1
  <2>2. CASE k > p
    <3>1. k - 1 \in DOMAIN q /\ r[k] = q[k - 1]
      BY <1>1, <1>2, <1>3, <2>2
    <3> QED BY <1>2, <1>3, <2>2, <3>1
  <2> QED BY <1>2, <1>3, <2>1, <2>2
<1>5. ASSUME NEW l \in DOMAIN q
      PROVE  \E k \in DOMAIN r : k # p /\ r[k] = q[l] /\ k = IF l < p THEN l ELSE l + 1
  <2>1. CASE l < p
    BY <1>1, <1>2, <1>3, <2>1
  <2>2. CASE l >= p
    <3>1. l + 1 \in 1..(n + 1) /\ ~(l + 1 < p) /\ l + 1 # p /\ l + 1 - 1 = l
      BY <1>1, <1>3, <2>2
    <3>2. r[l + 1] = q[l]
      <4> DEFINE m == l + 1
      <4>1. m \in 1..(n + 1) /\ ~(m < p) /\ m # p /\ m - 1 = l
        BY <3>1
      <4> HIDE DEF m
      <4>2. r[m] = q[l]
        BY <1>2, <4>1
      <4> QED BY <4>2 DEF m
    <3> QED BY <1>1, <1>2, <1>3, <2>2, <3>1, <3>2
  <2> QED BY <1>1, <1>3, <2>1, <2>2
<1>6. p \in DOMAIN r /\ r[p] = i
  BY <1>1, <1>2, <1>3
<1>7. Perm(r, S \cup {i})
  <2>1. \A k \in DOMAIN r : r[k] \in S \cup {i}
    BY <1>1, <1>4
  <2>2. ASSUME NEW k \in DOMAIN r, NEW l \in DOMAIN r, r[k] = r[l]
        PROVE  k = l
    <3>1. CASE k = p
      BY <1>1, <1>4, <2>2, <3>1
    <3>2. CASE k # p
      <4>1. PICK a \in DOMAIN q : r[k] = q[a] /\ a = IF k < p THEN k ELSE k - 1
        BY <1>4, <3>2
      <4>2. l # p
        BY <1>1, <1>6, <2>2, <4>1
      <4>3. PICK b \in DOMAIN q : r[l] = q[b] /\ b = IF l < p THEN l ELSE l - 1
        BY <1>4, <4>2
      <4>4. a = b
        BY <1>1, <2>2, <4>1, <4>3
      <4> QED BY <1>2, <1>3, <3>2, <4>1, <4>2, <4>3, <4>4
    <3> QED BY <3>1, <3>2
  <2>3. \A x \in S \cup {i} : \E k \in DOMAIN r : r[k] = x
    <3>1. \A x \in S : \E k \in DOMAIN r : r[k] = x
      <4> SUFFICES ASSUME NEW x \in S PROVE \E k \in DOMAIN r : r[k] = x
        OBVIOUS
      <4>1. PICK l \in DOMAIN q : q[l] = x
        BY <1>1
      <4> QED BY <1>5, <4>1
    <3> QED BY <1>6, <3>1
  <2> QED BY <2>1, <2>2, <2>3, PermIntro
<1>8. ASSUME NEW x, NEW y, Before(r, x, y)
      PROVE  \/ Before(q, x, y)
             \/ x = i /\ \E k \in DOMAIN q : k >= p /\ q[k] = y
             \/ y = i /\ \E k \in DOMAIN q : k < p /\ q[k] = x
  <2>1. PICK k \in DOMAIN r, l \in DOMAIN r : k < l /\ r[k] = x /\ r[l] = y
    BY <1>8 DEF Before
  <2>2. CASE k = p
    <3>1. PICK b \in DOMAIN q : r[l] = q[b] /\ b = IF l < p THEN l ELSE l - 1
      BY <1>4, <1>2, <2>1, <2>2
    <3>2. b >= p
      BY <1>2, <1>3, <2>1, <2>2, <3>1
    <3> QED BY <1>6, <2>1, <2>2, <3>1, <3>2
  <2>3. CASE l = p
    <3>1. PICK a \in DOMAIN q : r[k] = q[a] /\ a = IF k < p THEN k ELSE k - 1
      BY <1>4, <1>2, <2>1, <2>3
    <3>2. a < p
      BY <1>2, <1>3, <2>1, <2>3, <3>1
    <3> QED BY <1>6, <2>1, <2>3, <3>1, <3>2
  <2>4. CASE k # p /\ l # p
    <3>1. PICK a \in DOMAIN q : r[k] = q[a] /\ a = IF k < p THEN k ELSE k - 1
      BY <1>4, <2>4
    <3>2. PICK b \in DOMAIN q : r[l] = q[b] /\ b = IF l < p THEN l ELSE l - 1
      BY <1>4, <2>4
    <3>3. a < b
      BY <1>2, <1>3, <2>1, <2>4, <3>1, <3>2
    <3> QED BY <2>1, <3>1, <3>2, <3>3 DEF Before
  <2> QED BY <2>2, <2>3, <2>4
<1>9. ASSUME NEW x, NEW y, Before(q, x, y) PROVE Before(r, x, y)
  <2>1. PICK a \in DOMAIN q, b \in DOMAIN q : a < b /\ q[a] = x /\ q[b] = y
    BY <1>9 DEF Before
  <2>2. PICK k \in DOMAIN r : r[k] = q[a] /\ k = IF a < p THEN a ELSE a + 1
    BY <1>5
  <2>3. PICK l \in DOMAIN r : r[l] = q[b] /\ l = IF b < p THEN b ELSE b + 1
    BY <1>5
  <2>4. k < l
    BY <1>1, <1>3, <2>1, <2>2, <2>3
  <2> QED BY <2>1, <2>2, <2>3, <2>4 DEF Before
<1>10. ASSUME NEW k \in DOMAIN q, k >= p PROVE Before(r, i, q[k])
  <2>1. PICK l \in DOMAIN r : r[l] = q[k] /\ l = IF k < p THEN k ELSE k + 1
    BY <1>5
  <2>2. p < l
    BY <1>1, <1>3, <1>10, <2>1
  <2> QED BY <1>6, <2>1, <2>2 DEF Before
<1>11. ASSUME NEW k \in DOMAIN q, k < p PROVE Before(r, q[k], i)
  <2>1. PICK l \in DOMAIN r : r[l] = q[k] /\ l = IF k < p THEN k ELSE k + 1
    BY <1>5
  <2>2. l < p
    BY <1>1, <1>3, <1>11, <2>1
  <2> QED BY <1>6, <2>1, <2>2 DEF Before
<1> QED BY <1>7, <1>8, <1>9, <1>10, <1>11

\* An element is appended.
LEMMA AppendOrder ==
  ASSUME NEW S, NEW q, Perm(q, S), NEW i, i \notin S
  PROVE  LET r == Append(q, i)
         IN /\ Perm(r, S \cup {i})
            /\ \A x, y : Before(r, x, y) <=> Before(q, x, y) \/ (y = i /\ x \in S)
<1> DEFINE r == Append(q, i)
           p == Len(q) + 1
<1>1. /\ Len(q) \in Nat /\ DOMAIN q = 1..Len(q)
      /\ \A k \in DOMAIN q : q[k] \in S
      /\ \A x \in S : \E k \in DOMAIN q : q[k] = x
  BY PermFacts
<1>2. q \in Seq(S \cup {i})
  BY <1>1, SeqDef DEF Perm
<1>3. /\ r \in Seq(S \cup {i}) /\ Len(r) = Len(q) + 1
      /\ \A k \in 1..Len(q) : r[k] = q[k]
      /\ r[Len(q) + 1] = i
  BY <1>2, AppendProperties
<1> HIDE DEF r
<1>4. PutAt(q, p, i, r) /\ p \in 1..(Len(q) + 1)
  BY <1>1, <1>3 DEF PutAt
<1>5. /\ Perm(r, S \cup {i})
      /\ \A x, y : Before(r, x, y) <=>
           \/ Before(q, x, y)
           \/ x = i /\ \E k \in DOMAIN q : k >= p /\ q[k] = y
           \/ y = i /\ \E k \in DOMAIN q : k < p /\ q[k] = x
  <2> HIDE DEF p
  <2> QED BY <1>3, <1>4, PutOrder
<1>6. \A k \in DOMAIN q : k < p /\ ~(k >= p)
  BY <1>1
<1> QED BY <1>1, <1>5, <1>6 DEF r

\* An element is put in front of all.
LEMMA PrependOrder ==
  ASSUME NEW S, NEW q, Perm(q, S), NEW i, i \notin S
  PROVE  LET r == <<i>> \o q
         IN /\ Perm(r, S \cup {i})
            /\ \A x, y : Before(r, x, y) <=> Before(q, x, y) \/ (x = i /\ y \in S)
<1> DEFINE r == <<i>> \o q
           p == 1
<1>1. /\ Len(q) \in Nat /\ DOMAIN q = 1..Len(q)
      /\ \A k \in DOMAIN q : q[k] \in S
      /\ \A x \in S : \E k \in DOMAIN q : q[k] = x
  BY PermFacts
<1>2. q \in Seq(S \cup {i}) /\ <<i>> \in Seq(S \cup {i}) /\ Len(<<i>>) = 1 /\ <<i>>[1] = i
  BY <1>1, SeqDef DEF Perm
<1>3. /\ r \in Seq(S \cup {i}) /\ Len(r) = Len(q) + 1
      /\ \A j \in 1..(Len(q) + 1) : r[j] = IF j <= 1 THEN <<i>>[j] ELSE q[j - 1]
  <2>1. /\ r \in Seq(S \cup {i}) /\ Len(r) = Len(<<i>>) + Len(q)
        /\ \A j \in 1..(Len(<<i>>) + Len(q)) :
             r[j] = IF j <= Len(<<i>>) THEN <<i>>[j] ELSE q[j - Len(<<i>>)]
    BY <1>2, ConcatProperties
  <2> HIDE DEF r
  <2>2. Len(<<i>>) + Len(q) = Len(q) + 1
    BY <1>1, <1>2
  <2> QED BY <1>1, <1>2, <2>1, <2>2
<1> HIDE DEF r
<1>4. PutAt(q, p, i, r) /\ p \in 1..(Len(q) + 1)
  BY <1>1, <1>2, <1>3 DEF PutAt
<1>5. /\ Perm(r, S \cup {i})
      /\ \A x, y : Before(r, x, y) <=>
           \/ Before(q, x, y)
           \/ x = i /\ \E k \in DOMAIN q : k >= p /\ q[k] = y
           \/ y = i /\ \E k \in DOMAIN q : k < p /\ q[k] = x
  <2> HIDE DEF p
  <2> QED BY <1>3, <1>4, PutOrder
<1>6. \A k \in DOMAIN q : k >= p /\ ~(k < p)
  BY <1>1
<1> QED BY <1>1, <1>5, <1>6 DEF r

\* An element is inserted before another.
LEMMA InsertOrder ==
  ASSUME NEW S, NEW q, Perm(q, S), NEW i, i \notin S, NEW z \in S
  PROVE  LET r == InsertAt(q, Position(q, z), i)
         IN /\ Perm(r, S \cup {i})
            /\ \A x, y : Before(r, x, y) <=>
                 \/ Before(q, x, y)
                 \/ x = i /\ (y = z \/ Before(q, z, y))
                 \/ y = i /\ Before(q, x, z)
<1> DEFINE p == Position(q, z)
           r == InsertAt(q, p, i)
           n == Len(q)
           a == SubSeq(q, 1, p - 1)
           b == SubSeq(q, p, n)
<1>1. /\ n \in Nat /\ DOMAIN q = 1..n
      /\ \A k \in DOMAIN q : q[k] \in S
      /\ \A k, l \in DOMAIN q : q[k] = q[l] => k = l
      /\ \A x \in S : \E k \in DOMAIN q : q[k] = x
      /\ \A k \in DOMAIN q : Position(q, q[k]) = k
  BY PermFacts
<1>2. p \in 1..n /\ q[p] = z
  BY <1>1
<1> HIDE DEF p, n
<1>3. q \in Seq(S \cup {i}) /\ <<i>> \in Seq(S \cup {i}) /\ Len(<<i>>) = 1 /\ <<i>>[1] = i
  BY <1>1, SeqDef DEF Perm, n
<1>4. /\ a \in Seq(S \cup {i}) /\ Len(a) = p - 1
      /\ \A j \in 1..(p - 1) : a[j] = q[j]
  BY <1>1, <1>2, <1>3, SubSeqProperties DEF n
<1>5. /\ b \in Seq(S \cup {i}) /\ Len(b) = n - p + 1
      /\ \A j \in 1..(n - p + 1) : b[j] = q[p + j - 1]
  BY <1>1, <1>2, <1>3, SubSeqProperties DEF n
<1>6. r = (a \o <<i>>) \o b
  BY DEF InsertAt, n
<1> HIDE DEF a, b
<1> DEFINE c == a \o <<i>>
<1>7. /\ c \in Seq(S \cup {i}) /\ Len(c) = p
      /\ \A j \in 1..p : c[j] = IF j < p THEN q[j] ELSE i
  <2>1. /\ c \in Seq(S \cup {i}) /\ Len(c) = Len(a) + Len(<<i>>)
        /\ \A j \in 1..(Len(a) + Len(<<i>>)) :
             c[j] = IF j <= Len(a) THEN a[j] ELSE <<i>>[j - Len(a)]
    BY <1>3, <1>4, ConcatProperties
  <2> HIDE DEF c
  <2>2. Len(a) + Len(<<i>>) = p
    BY <1>2, <1>3, <1>4
  <2>3. ASSUME NEW j \in 1..p PROVE c[j] = IF j < p THEN q[j] ELSE i
    <3>1. CASE j < p
      BY <1>2, <1>4, <2>1, <2>2, <3>1
    <3>2. CASE j = p
      <4>1. ~(j <= Len(a)) /\ j - Len(a) = 1
        BY <1>2, <1>4, <3>2
      <4> QED BY <1>3, <2>1, <2>2, <3>2, <4>1
    <3> QED BY <1>2, <3>1, <3>2
  <2> QED BY <2>1, <2>2, <2>3
<1> HIDE DEF c
<1>8. /\ r \in Seq(S \cup {i}) /\ Len(r) = n + 1
      /\ \A j \in 1..(n + 1) : r[j] = IF j <= p THEN c[j] ELSE b[j - p]
  <2>1. /\ c \o b \in Seq(S \cup {i}) /\ Len(c \o b) = Len(c) + Len(b)
        /\ \A j \in 1..(Len(c) + Len(b)) :
             (c \o b)[j] = IF j <= Len(c) THEN c[j] ELSE b[j - Len(c)]
    BY <1>5, <1>7, ConcatProperties
  <2>2. Len(c) = p /\ Len(c) + Len(b) = n + 1
    BY <1>1, <1>2, <1>5, <1>7
  <2>3. r = c \o b
    BY <1>6 DEF c
  <2> QED BY <2>1, <2>2, <2>3
<1> HIDE DEF r
<1>9. PutAt(q, p, i, r) /\ p \in 1..(Len(q) + 1)
  <2>1. ASSUME NEW j \in 1..(n + 1)
        PROVE  r[j] = IF j < p THEN q[j] ELSE IF j = p THEN i ELSE q[j - 1]
    <3>1. CASE j <= p
      BY <1>2, <1>7, <1>8, <3>1
    <3>2. CASE j > p
      <4>1. j - p \in 1..(n - p + 1) /\ p + (j - p) - 1 = j - 1
        BY <1>1, <1>2, <3>2
      <4> QED BY <1>2, <1>5, <1>8, <3>2, <4>1
    <3> QED BY <1>2, <3>1, <3>2
  <2> QED BY <1>1, <1>2, <1>8, <2>1 DEF PutAt, n
<1>10. /\ Perm(r, S \cup {i})
       /\ \A x, y : Before(r, x, y) <=>
            \/ Before(q, x, y)
            \/ x = i /\ \E k \in DOMAIN q : k >= p /\ q[k] = y
            \/ y = i /\ \E k \in DOMAIN q : k < p /\ q[k] = x
  BY <1>8, <1>9, PutOrder
<1>11. \A y : (\E k \in DOMAIN q : k >= p /\ q[k] = y) <=> y = z \/ Before(q, z, y)
  BY <1>1, <1>2 DEF Before
<1>12. \A x : (\E k \in DOMAIN q : k < p /\ q[k] = x) <=> Before(q, x, z)
  BY <1>1, <1>2 DEF Before
<1> QED BY <1>10, <1>11, <1>12 DEF r, p

\* An element that moves to the front comes before all others.
LEMMA ToFrontOrder ==
  ASSUME NEW S, NEW q, Perm(q, S), NEW i \in S
  PROVE  LET r == ToFront(q, i)
         IN /\ Perm(r, S)
            /\ \A x, y : Before(r, x, y) <=>
                 \/ x # i /\ y # i /\ Before(q, x, y)
                 \/ x = i /\ y \in S \ {i}
<1> DEFINE w == Without(q, i)
<1>1. LET r == Without(q, i)
      IN /\ Perm(r, S \ {i})
         /\ \A x, y : Before(r, x, y) <=> x # i /\ y # i /\ Before(q, x, y)
  BY WithoutOrder
<1>2. /\ Perm(w, S \ {i})
      /\ \A x, y : Before(w, x, y) <=> x # i /\ y # i /\ Before(q, x, y)
  BY <1>1
<1> HIDE DEF w
<1>3. i \notin S \ {i} /\ (S \ {i}) \cup {i} = S
  OBVIOUS
<1> DEFINE T == S \ {i}
<1> HIDE DEF T
<1>4. Perm(w, T) /\ i \notin T
  BY <1>2, <1>3 DEF T
<1>5. LET r == <<i>> \o w
      IN /\ Perm(r, T \cup {i})
         /\ \A x, y : Before(r, x, y) <=> Before(w, x, y) \/ (x = i /\ y \in T)
  BY <1>4, PrependOrder
<1> QED BY <1>2, <1>3, <1>5 DEF T, ToFront, w

\* An element that moves to the back comes after all others.
LEMMA ToBackOrder ==
  ASSUME NEW S, NEW q, Perm(q, S), NEW i \in S
  PROVE  LET r == ToBack(q, i)
         IN /\ Perm(r, S)
            /\ \A x, y : Before(r, x, y) <=>
                 \/ x # i /\ y # i /\ Before(q, x, y)
                 \/ y = i /\ x \in S \ {i}
<1> DEFINE w == Without(q, i)
<1>1. LET r == Without(q, i)
      IN /\ Perm(r, S \ {i})
         /\ \A x, y : Before(r, x, y) <=> x # i /\ y # i /\ Before(q, x, y)
  BY WithoutOrder
<1>2. /\ Perm(w, S \ {i})
      /\ \A x, y : Before(w, x, y) <=> x # i /\ y # i /\ Before(q, x, y)
  BY <1>1
<1> HIDE DEF w
<1>3. i \notin S \ {i} /\ (S \ {i}) \cup {i} = S
  OBVIOUS
<1> DEFINE T == S \ {i}
<1> HIDE DEF T
<1>4. Perm(w, T) /\ i \notin T
  BY <1>2, <1>3 DEF T
<1>5. LET r == Append(w, i)
      IN /\ Perm(r, T \cup {i})
         /\ \A x, y : Before(r, x, y) <=> Before(w, x, y) \/ (y = i /\ x \in T)
  BY <1>4, AppendOrder
<1> QED BY <1>2, <1>3, <1>5 DEF T, ToBack, w

\* Relocation in front of z moves nothing but the element, to just there.
LEMMA RelocateOrder ==
  ASSUME NEW S, NEW q, Perm(q, S), None \notin S, NEW i \in S,
         NEW z \in S \cup {None}
  PROVE  LET r == Relocate(q, z, i)
         IN /\ Perm(r, S)
            /\ \A x, y : x # i /\ y # i => (Before(r, x, y) <=> Before(q, x, y))
            /\ z # i /\ z # None =>
                 \A x : /\ Before(r, x, z) <=> x = i \/ Before(q, x, z)
                        /\ Before(r, z, x) <=> x # i /\ Before(q, z, x)
<1> DEFINE r == Relocate(q, z, i)
           w == Without(q, i)
           T == S \ {i}
<1>1. CASE z = i
  BY <1>1 DEF Relocate
<1>2. CASE z = None
  <2>1. r = ToBack(q, i)
    BY <1>2 DEF Relocate, ToBack
  <2>2. LET b == ToBack(q, i)
        IN /\ Perm(b, S)
           /\ \A x, y : Before(b, x, y) <=>
                \/ x # i /\ y # i /\ Before(q, x, y)
                \/ y = i /\ x \in S \ {i}
    BY ToBackOrder
  <2> HIDE DEF r
  <2>3. /\ Perm(r, S)
        /\ \A x, y : Before(r, x, y) <=>
             \/ x # i /\ y # i /\ Before(q, x, y)
             \/ y = i /\ x \in S \ {i}
    BY <2>1, <2>2
  <2> QED BY <1>2, <2>3 DEF r
<1>3. CASE z # i /\ z # None
  <2>1. r = InsertAt(w, Position(w, z), i)
    BY <1>3 DEF Relocate
  <2>2. LET b == Without(q, i)
        IN /\ Perm(b, S \ {i})
           /\ \A x, y : Before(b, x, y) <=> x # i /\ y # i /\ Before(q, x, y)
    BY WithoutOrder
  <2>3. /\ Perm(w, T)
        /\ \A x, y : Before(w, x, y) <=> x # i /\ y # i /\ Before(q, x, y)
    BY <2>2
  <2>4. i \notin T /\ z \in T /\ T \cup {i} = S
    BY <1>3
  <2> HIDE DEF r, w, T
  <2>5. LET b == InsertAt(w, Position(w, z), i)
        IN /\ Perm(b, T \cup {i})
           /\ \A x, y : Before(b, x, y) <=>
                \/ Before(w, x, y)
                \/ x = i /\ (y = z \/ Before(w, z, y))
                \/ y = i /\ Before(w, x, z)
    BY <2>3, <2>4, InsertOrder
  <2>6. /\ Perm(r, S)
        /\ \A x, y : Before(r, x, y) <=>
             \/ Before(w, x, y)
             \/ x = i /\ (y = z \/ Before(w, z, y))
             \/ y = i /\ Before(w, x, z)
    BY <2>1, <2>4, <2>5
  <2>7. /\ \A x : ~Before(q, x, x)
        /\ \A x, y : Before(q, x, y) => ~Before(q, y, x)
    BY BeforeOrders
  <2>8. \A x, y : x # i /\ y # i => (Before(r, x, y) <=> Before(q, x, y))
    BY <2>3, <2>6
  <2>9. \A x : /\ Before(r, x, z) <=> x = i \/ Before(q, x, z)
               /\ Before(r, z, x) <=> x # i /\ Before(q, z, x)
    BY <1>3, <2>3, <2>6, <2>7
  <2> QED BY <2>6, <2>8, <2>9 DEF r
<1> QED BY <1>1, <1>2, <1>3

\* What follows an element comes after exactly that and what is before it.
LEMMA SuccessorOrder ==
  ASSUME NEW S, NEW q, Perm(q, S), None \notin S, NEW i \in S
  PROVE  LET s == Successor(q, i)
         IN /\ s \in (S \ {i}) \cup {None}
            /\ s = None => \A x \in S \ {i} : Before(q, x, i)
            /\ s # None => /\ Before(q, i, s)
                           /\ \A x : Before(q, x, s) <=> x = i \/ Before(q, x, i)
<1> DEFINE n == Len(q)
           p == Position(q, i)
           s == Successor(q, i)
<1>1. /\ n \in Nat /\ DOMAIN q = 1..n
      /\ \A k \in DOMAIN q : q[k] \in S
      /\ \A k, l \in DOMAIN q : q[k] = q[l] => k = l
      /\ \A x \in S : \E k \in DOMAIN q : q[k] = x
      /\ \A k \in DOMAIN q : Position(q, q[k]) = k
  BY PermFacts
<1>2. p \in 1..n /\ q[p] = i
  BY <1>1
<1>3. s = IF p = n THEN None ELSE q[p + 1]
  BY DEF Successor
<1> HIDE DEF n, p, s
<1>4. CASE p = n
  <2>1. \A x \in S \ {i} : Before(q, x, i)
    <3> SUFFICES ASSUME NEW x \in S \ {i} PROVE Before(q, x, i)
      OBVIOUS
    <3>1. PICK k \in DOMAIN q : q[k] = x
      BY <1>1
    <3>2. k < p
      BY <1>1, <1>2, <1>4, <3>1
    <3> QED BY <1>1, <1>2, <3>1, <3>2 DEF Before
  <2> QED BY <1>3, <1>4, <2>1 DEF s
<1>5. CASE p # n
  <2>1. p + 1 \in DOMAIN q /\ s = q[p + 1] /\ s \in S /\ s # i /\ p < p + 1 /\ p \in DOMAIN q
    BY <1>1, <1>2, <1>3, <1>5
  <2>2. Before(q, i, s)
    BY <1>2, <2>1 DEF Before
  <2>3. ASSUME NEW x, Before(q, x, s) PROVE x = i \/ Before(q, x, i)
    <3>1. PICK k \in DOMAIN q, l \in DOMAIN q : k < l /\ q[k] = x /\ q[l] = s
      BY <2>3 DEF Before
    <3>2. l = p + 1
      BY <1>1, <2>1, <3>1
    <3>3. k = p \/ k < p
      BY <1>1, <1>2, <3>1, <3>2
    <3> QED BY <1>2, <2>1, <3>1, <3>3 DEF Before
  <2>4. ASSUME NEW x, Before(q, x, i) PROVE Before(q, x, s)
    BY <2>2, <2>4, BeforeOrders
  <2> QED BY <2>1, <2>2, <2>3, <2>4 DEF s
<1> QED BY <1>4, <1>5

\* The head comes before all others.
LEMMA HeadOrder ==
  ASSUME NEW S, NEW q, Perm(q, S), q # <<>>
  PROVE  Head(q) \in S /\ \A x \in S \ {Head(q)} : Before(q, Head(q), x)
<1>1. /\ Len(q) \in Nat /\ DOMAIN q = 1..Len(q)
      /\ \A k \in DOMAIN q : q[k] \in S
      /\ \A x \in S : \E k \in DOMAIN q : q[k] = x
  BY PermFacts
<1>2. 1 \in DOMAIN q /\ Head(q) = q[1]
  <2>1. q \in Seq(S)
    BY DEF Perm
  <2>2. Len(q) # 0
    BY <2>1, EmptySeq
  <2> QED BY <1>1, <2>1, <2>2, HeadTailProperties
<1>3. ASSUME NEW x \in S \ {Head(q)} PROVE Before(q, Head(q), x)
  <2>1. PICK k \in DOMAIN q : q[k] = x
    BY <1>1
  <2>2. 1 < k
    BY <1>1, <1>2, <2>1
  <2> QED BY <1>2, <2>1, <2>2 DEF Before
<1> QED BY <1>1, <1>2, <1>3

-----------------------------------------------------------------------------
(* The inductive invariant.  First what m_mutex protects, of any value c.  *)

Shaped(c) ==
  /\ DOMAIN c = {"items", "loadQueue", "removeQueue", "endOfLoadedItems",
                 "numQueuedItems", "numLoadedItems"}
  /\ Known(c) \subseteq Images
  /\ c.items \in [Known(c) -> Item]

\* Both orders hold every item exactly once.
Ordered(c) == Perm(c.loadQueue, Known(c)) /\ Perm(c.removeQueue, Known(c))

\* What is before a QUEUED item is QUEUED.
QueuedAhead(c) ==
  \A i, j \in Known(c) :
    Before(c.loadQueue, i, j) /\ Is(c, j, "QUEUED") => Is(c, i, "QUEUED")

\* What is before the marker is LOADED, what is after it is not.
LoadedAhead(c) ==
  LET eol == c.endOfLoadedItems
  IN /\ eol \in Known(c) \cup {None}
     /\ \A i \in Known(c) :
          /\ eol = None \/ Before(c.removeQueue, i, eol) => Is(c, i, "LOADED")
          /\ Before(c.removeQueue, eol, i) => ~Is(c, i, "LOADED")

Counted(c) ==
  /\ c.numQueuedItems = Cardinality(InStatus(c, "QUEUED"))
  /\ c.numLoadedItems = Cardinality(InStatus(c, "LOADED"))
  /\ c.numLoadedItems <= MaxCachedPixmaps

SoundCache(c) ==
  Shaped(c) /\ Ordered(c) /\ QueuedAhead(c) /\ LoadedAhead(c) /\ Counted(c)

\* Raw iterators, held by the loader and by events, are to different items
\* IN_PROGRESS; and somebody holds one to each of these, if memory lasted.
Held(i) == loading = i \/ \E k \in DOMAIN results : results[k].image = i

IteratorsHeld ==
  /\ loading # None <=> loader \in {"loading", "saving"}
  /\ loading # None => Is(cache, loading, "IN_PROGRESS")
  /\ \A k \in DOMAIN results :
       /\ Is(cache, results[k].image, "IN_PROGRESS")
       /\ results[k].image # loading
       /\ \A l \in DOMAIN results : results[l].image = results[k].image => l = k
  /\ \A i \in InStatus(cache, "IN_PROGRESS") : Held(i) \/ hadOOM

Typed ==
  /\ loader \in {"unstarted", "scanning", "loading", "saving", "resting",
                 "finished"}
  /\ loading \in Images \cup {None}
  /\ loaded \in Versions
  /\ wakeUp \in BOOLEAN
  /\ results \in Seq([image : Images, status : Results, pixmap : Pixmaps])
  /\ loadingNow = None
  /\ handler \subseteq Thumbs
  /\ needsPaint \subseteq Thumbs
  /\ blank \subseteq Thumbs
  /\ imageFile \in [Images -> Versions]
  /\ thumbFile \in [Images -> Versions]
  /\ rewriting \in [Workers -> [image : Images \cup {None}, version : Versions,
                               step : {"idle", "write", "drop"}]]
  /\ \A w \in Workers : rewriting[w].step # "idle" => rewriting[w].image \in Images
  /\ shuttingDown \in BOOLEAN
  /\ hadOOM \in BOOLEAN
  /\ userActions \in 0..MaxUserActions

Inv ==
  /\ SoundCache(cache)
  /\ Typed
  /\ IteratorsHeld
  /\ HandlersKept
  /\ NoLostWakeUp
-----------------------------------------------------------------------------
(* Every operation on the protected state keeps it sound.                  *)

\* What soundness says in short, for use below.
LEMMA CacheFacts ==
  ASSUME NEW c, SoundCache(c)
  PROVE  /\ None \notin Known(c)
         /\ \A i \in Known(c) : i \in Images /\ c.items[i] \in Item
         /\ \A s : IsFiniteSet(InStatus(c, s)) /\ Cardinality(InStatus(c, s)) \in Nat
<1>1. Known(c) \subseteq Images /\ c.items \in [Known(c) -> Item]
  BY DEF SoundCache, Shaped
<1>2. None \notin Images /\ IsFiniteSet(Images)
  BY CacheAssumption DEF CacheAssumption
<1>3. ASSUME NEW s PROVE IsFiniteSet(InStatus(c, s)) /\ Cardinality(InStatus(c, s)) \in Nat
  <2>1. InStatus(c, s) \subseteq Images
    BY <1>1 DEF InStatus
  <2> QED BY <1>2, <2>1, FS_Subset, FS_CardinalityType
<1> QED BY <1>1, <1>2, <1>3

\* An operation that only changes the details of items.
LEMMA DetailsSound ==
  ASSUME NEW c, SoundCache(c), NEW d, Shaped(d), Known(d) = Known(c),
         \A i \in Known(c) : d.items[i].status = c.items[i].status,
         d.loadQueue = c.loadQueue, d.removeQueue = c.removeQueue,
         d.endOfLoadedItems = c.endOfLoadedItems,
         d.numQueuedItems = c.numQueuedItems, d.numLoadedItems = c.numLoadedItems
  PROVE  SoundCache(d) /\ \A i, s : Is(d, i, s) <=> Is(c, i, s)
<1>1. \A i, s : Is(d, i, s) <=> Is(c, i, s)
  BY DEF Is
<1>2. \A s : InStatus(d, s) = InStatus(c, s)
  BY DEF InStatus
<1>3. Ordered(d)
  BY DEF SoundCache, Ordered
<1>4. QueuedAhead(d)
  BY <1>1 DEF SoundCache, QueuedAhead
<1>5. LoadedAhead(d)
  BY <1>1 DEF SoundCache, LoadedAhead
<1>6. Counted(d)
  BY <1>2 DEF SoundCache, Counted
<1> QED BY <1>1, <1>3, <1>4, <1>5, <1>6 DEF SoundCache

\* The item the loader takes, or whose request expires, leaves the QUEUED.
LEMMA TakeSound ==
  ASSUME NEW c, SoundCache(c), NEW i, Is(c, i, "QUEUED")
  PROVE  LET d == QueuedToInProgress(c, i)
         IN /\ SoundCache(d)
            /\ Known(d) = Known(c)
            /\ Is(d, i, "IN_PROGRESS")
            /\ d.items[i].handlers = c.items[i].handlers
            /\ \A j \in Known(c) \ {i} : d.items[j] = c.items[j]
<1> DEFINE d == QueuedToInProgress(c, i)
<1>1. /\ DOMAIN c = {"items", "loadQueue", "removeQueue", "endOfLoadedItems",
                     "numQueuedItems", "numLoadedItems"}
      /\ Known(c) \subseteq Images
      /\ c.items \in [Known(c) -> Item]
      /\ i \in Known(c) /\ c.items[i].status = "QUEUED"
  BY DEF SoundCache, Shaped, Is
<1>2. /\ DOMAIN d = DOMAIN c
      /\ d.items = [c.items EXCEPT ![i].status = "IN_PROGRESS"]
      /\ d.loadQueue = ToBack(c.loadQueue, i)
      /\ d.removeQueue = c.removeQueue
      /\ d.endOfLoadedItems = c.endOfLoadedItems
      /\ d.numQueuedItems = c.numQueuedItems - 1
      /\ d.numLoadedItems = c.numLoadedItems
  BY <1>1 DEF QueuedToInProgress, BehindQueued
<1> HIDE DEF d
<1>3. /\ Known(d) = Known(c)
      /\ d.items[i] = [c.items[i] EXCEPT !.status = "IN_PROGRESS"]
      /\ \A j \in Known(c) \ {i} : d.items[j] = c.items[j]
  BY <1>1, <1>2 DEF Known
<1>4. /\ c.items[i] \in Item /\ d.items[i].status = "IN_PROGRESS"
      /\ d.items[i].handlers = c.items[i].handlers
      /\ d.items[i] \in Item
  BY <1>1, <1>3 DEF Item, Statuses
<1>5. /\ \A j, s : j # i => (Is(d, j, s) <=> Is(c, j, s))
      /\ Is(d, i, "IN_PROGRESS") /\ ~Is(d, i, "QUEUED") /\ ~Is(d, i, "LOADED")
      /\ ~Is(c, i, "LOADED")
  BY <1>1, <1>3, <1>4 DEF Is
<1>6. Shaped(d)
  <2>1. d.items \in [Known(d) -> Item]
    BY <1>1, <1>2, <1>3, <1>4 DEF Known
  <2> QED BY <1>1, <1>2, <1>3, <2>1 DEF Shaped
<1>7. /\ Perm(d.loadQueue, Known(c))
      /\ \A x, y : Before(d.loadQueue, x, y) <=>
           \/ x # i /\ y # i /\ Before(c.loadQueue, x, y)
           \/ y = i /\ x \in Known(c) \ {i}
  <2>1. Perm(c.loadQueue, Known(c))
    BY DEF SoundCache, Ordered
  <2>2. LET r == ToBack(c.loadQueue, i)
        IN /\ Perm(r, Known(c))
           /\ \A x, y : Before(r, x, y) <=>
                \/ x # i /\ y # i /\ Before(c.loadQueue, x, y)
                \/ y = i /\ x \in Known(c) \ {i}
    BY <1>1, <2>1, ToBackOrder
  <2> QED BY <1>2, <2>2
<1>8. Ordered(d)
  BY <1>2, <1>3, <1>7 DEF SoundCache, Ordered
<1>9. QueuedAhead(d)
  BY <1>3, <1>5, <1>7 DEF SoundCache, QueuedAhead
<1>10. LoadedAhead(d)
  <2>1. \A j : Is(d, j, "LOADED") <=> Is(c, j, "LOADED")
    BY <1>5
  <2> QED BY <1>2, <1>3, <2>1 DEF SoundCache, LoadedAhead
<1>11. Counted(d)
  <2>1. InStatus(d, "QUEUED") = InStatus(c, "QUEUED") \ {i} /\ i \in InStatus(c, "QUEUED")
    <3>1. \A j, s : j \in InStatus(d, s) <=> Is(d, j, s)
      BY DEF InStatus, Is
    <3>2. \A j, s : j \in InStatus(c, s) <=> Is(c, j, s)
      BY DEF InStatus, Is
    <3>3. \A j : j \in InStatus(d, "QUEUED") <=> j \in InStatus(c, "QUEUED") /\ j # i
      BY <1>5, <3>1, <3>2
    <3> QED BY <3>2, <3>3
  <2>2. InStatus(d, "LOADED") = InStatus(c, "LOADED")
    BY <1>1, <1>3, <1>4 DEF InStatus
  <2>3. IsFiniteSet(InStatus(c, "QUEUED"))
    BY CacheFacts
  <2>4. Cardinality(InStatus(d, "QUEUED")) = Cardinality(InStatus(c, "QUEUED")) - 1
    BY <2>1, <2>3, FS_RemoveElement
  <2> QED BY <1>2, <2>2, <2>4 DEF SoundCache, Counted
<1> QED BY <1>3, <1>4, <1>5, <1>6, <1>8, <1>9, <1>10, <1>11 DEF SoundCache, d

\* An item is erased, whatever its status; the marker moves on if need be.
LEMMA RemoveSound ==
  ASSUME NEW c, SoundCache(c), NEW i \in Known(c)
  PROVE  LET d == RemoveItemLocked(c, i)
         IN /\ SoundCache(d)
            /\ Known(d) = Known(c) \ {i}
            /\ \A j \in Known(d) : d.items[j] = c.items[j]
            /\ d.numLoadedItems = c.numLoadedItems
                                    - (IF Is(c, i, "LOADED") THEN 1 ELSE 0)
<1> DEFINE d == RemoveItemLocked(c, i)
           S == Known(c)
<1>1. /\ S \subseteq Images
      /\ c.items \in [S -> Item]
      /\ Perm(c.loadQueue, S) /\ Perm(c.removeQueue, S)
      /\ None \notin S
  BY CacheFacts DEF SoundCache, Shaped, Ordered
<1>2. /\ DOMAIN d = {"items", "loadQueue", "removeQueue", "endOfLoadedItems",
                     "numQueuedItems", "numLoadedItems"}
      /\ d.items = [j \in S \ {i} |-> c.items[j]]
      /\ d.loadQueue = Without(c.loadQueue, i)
      /\ d.removeQueue = Without(c.removeQueue, i)
      /\ d.endOfLoadedItems = MarkerAfterRemoval(c, i)
      /\ d.numQueuedItems = c.numQueuedItems - Uncounted(c, i, "QUEUED")
      /\ d.numLoadedItems = c.numLoadedItems - Uncounted(c, i, "LOADED")
  BY DEF RemoveItemLocked
<1> HIDE DEF d
<1>3. Known(d) = S \ {i} /\ \A j \in Known(d) : d.items[j] = c.items[j]
  BY <1>2 DEF Known
<1>4. Shaped(d)
  BY <1>1, <1>2, <1>3 DEF Shaped
<1>5. \A j, s : Is(d, j, s) <=> j # i /\ Is(c, j, s)
  BY <1>3 DEF Is
<1>6. /\ Perm(d.loadQueue, S \ {i})
      /\ \A x, y : Before(d.loadQueue, x, y) <=> x # i /\ y # i /\ Before(c.loadQueue, x, y)
  <2>1. LET r == Without(c.loadQueue, i)
        IN /\ Perm(r, S \ {i})
           /\ \A x, y : Before(r, x, y) <=> x # i /\ y # i /\ Before(c.loadQueue, x, y)
    BY <1>1, WithoutOrder
  <2> QED BY <1>2, <2>1
<1>7. /\ Perm(d.removeQueue, S \ {i})
      /\ \A x, y : Before(d.removeQueue, x, y) <=> x # i /\ y # i /\ Before(c.removeQueue, x, y)
  <2>1. LET r == Without(c.removeQueue, i)
        IN /\ Perm(r, S \ {i})
           /\ \A x, y : Before(r, x, y) <=> x # i /\ y # i /\ Before(c.removeQueue, x, y)
    BY <1>1, WithoutOrder
  <2> QED BY <1>2, <2>1
<1>8. Ordered(d)
  BY <1>3, <1>6, <1>7 DEF Ordered
<1>9. QueuedAhead(d)
  BY <1>3, <1>5, <1>6 DEF SoundCache, QueuedAhead
<1>10. LoadedAhead(d)
  <2> DEFINE old == c.endOfLoadedItems
             new == d.endOfLoadedItems
  <2>1. /\ old \in S \cup {None}
        /\ \A j \in S : /\ old = None \/ Before(c.removeQueue, j, old) => Is(c, j, "LOADED")
                        /\ Before(c.removeQueue, old, j) => ~Is(c, j, "LOADED")
    BY DEF SoundCache, LoadedAhead
  <2>2. CASE old # i
    <3>1. new = old
      BY <1>2, <2>2 DEF MarkerAfterRemoval
    <3>2. new \in Known(d) \cup {None}
      BY <1>3, <2>1, <2>2, <3>1
    <3> QED BY <1>3, <1>5, <1>7, <2>1, <3>1, <3>2 DEF LoadedAhead
  <2>3. CASE old = i
    <3>1. new = Successor(c.removeQueue, i)
      BY <1>2, <2>3 DEF MarkerAfterRemoval
    <3>2. LET s == Successor(c.removeQueue, i)
          IN /\ s \in (S \ {i}) \cup {None}
             /\ s = None => \A x \in S \ {i} : Before(c.removeQueue, x, i)
             /\ s # None => /\ Before(c.removeQueue, i, s)
                            /\ \A x : Before(c.removeQueue, x, s) <=>
                                        x = i \/ Before(c.removeQueue, x, i)
      BY <1>1, SuccessorOrder
    <3> HIDE DEF old, new
    <3>3. /\ new \in (S \ {i}) \cup {None}
          /\ new = None => \A x \in S \ {i} : Before(c.removeQueue, x, i)
          /\ new # None => /\ Before(c.removeQueue, i, new)
                           /\ \A x : Before(c.removeQueue, x, new) <=>
                                       x = i \/ Before(c.removeQueue, x, i)
      BY <3>1, <3>2
    <3>4. \A x, y, z : Before(c.removeQueue, x, y) /\ Before(c.removeQueue, y, z)
                         => Before(c.removeQueue, x, z)
      BY <1>1, BeforeOrders
    <3>5. ~Before(d.removeQueue, None, None) /\ \A x : ~Before(d.removeQueue, None, x)
      BY <1>1, <1>7, BeforeOrders
    <3>6. ASSUME NEW j \in Known(d), new = None \/ Before(d.removeQueue, j, new)
          PROVE  Is(d, j, "LOADED")
      <4>1. Before(c.removeQueue, j, i)
        BY <1>1, <1>3, <1>7, <3>3, <3>5, <3>6
      <4> QED BY <1>3, <1>5, <2>1, <2>3, <4>1
    <3>7. ASSUME NEW j \in Known(d), Before(d.removeQueue, new, j)
          PROVE  ~Is(d, j, "LOADED")
      <4>1. new # None /\ Before(c.removeQueue, new, j)
        BY <1>7, <3>5, <3>7
      <4>2. Before(c.removeQueue, i, j)
        BY <3>3, <3>4, <4>1
      <4> QED BY <1>3, <1>5, <2>1, <2>3, <4>2
    <3> QED BY <1>3, <3>3, <3>6, <3>7 DEF LoadedAhead, new
  <2> QED BY <2>2, <2>3
<1>11. Counted(d) /\ d.numLoadedItems = c.numLoadedItems - (IF Is(c, i, "LOADED") THEN 1 ELSE 0)
  <2>1. \A s : InStatus(d, s) = InStatus(c, s) \ {i}
    BY <1>3 DEF InStatus
  <2>2. \A s : i \in InStatus(c, s) <=> Is(c, i, s)
    BY DEF InStatus, Is
  <2>3. \A s : IsFiniteSet(InStatus(c, s)) /\ Cardinality(InStatus(c, s)) \in Nat
    BY CacheFacts
  <2>4. ASSUME NEW s
        PROVE  Cardinality(InStatus(d, s)) = Cardinality(InStatus(c, s)) - Uncounted(c, i, s)
    <3>1. Cardinality(InStatus(c, s) \ {i}) =
            IF i \in InStatus(c, s) THEN Cardinality(InStatus(c, s)) - 1
            ELSE Cardinality(InStatus(c, s))
      BY <2>3, FS_RemoveElement
    <3> QED BY <2>1, <2>2, <2>3, <3>1 DEF Uncounted
  <2>5. /\ c.numQueuedItems = Cardinality(InStatus(c, "QUEUED"))
        /\ c.numLoadedItems = Cardinality(InStatus(c, "LOADED"))
        /\ c.numLoadedItems <= MaxCachedPixmaps
    BY DEF SoundCache, Counted
  <2>6. MaxCachedPixmaps \in Nat
    BY CacheAssumption DEF CacheAssumption
  <2>7. /\ d.numQueuedItems = Cardinality(InStatus(d, "QUEUED"))
        /\ d.numLoadedItems = Cardinality(InStatus(d, "LOADED"))
    BY <1>2, <2>4, <2>5
  <2>8. d.numLoadedItems <= MaxCachedPixmaps
    BY <1>2, <2>3, <2>5, <2>6 DEF Uncounted
  <2>9. d.numLoadedItems = c.numLoadedItems - (IF Is(c, i, "LOADED") THEN 1 ELSE 0)
    BY <1>2 DEF Uncounted
  <2> QED BY <2>7, <2>8, <2>9 DEF Counted
<1> QED BY <1>3, <1>4, <1>8, <1>9, <1>10, <1>11 DEF SoundCache, d

\* What is evicted when the cache is full is a LOADED item: the assertion
\* of removeExcessLocked().
LEMMA HeadIsLoaded ==
  ASSUME NEW c, SoundCache(c), EvictionIsDue(c)
  PROVE  c.removeQueue # <<>> /\ Is(c, Head(c.removeQueue), "LOADED")
<1> DEFINE S == Known(c)
           h == Head(c.removeQueue)
           eol == c.endOfLoadedItems
<1>1. /\ Perm(c.removeQueue, S)
      /\ eol \in S \cup {None}
      /\ \A i \in S : /\ eol = None \/ Before(c.removeQueue, i, eol) => Is(c, i, "LOADED")
                      /\ Before(c.removeQueue, eol, i) => ~Is(c, i, "LOADED")
  BY DEF SoundCache, Ordered, LoadedAhead
<1>2. PICK x \in S : Is(c, x, "LOADED")
  <2>1. Cardinality(InStatus(c, "LOADED")) >= MaxCachedPixmaps
    BY DEF SoundCache, Counted, EvictionIsDue
  <2>2. MaxCachedPixmaps \in Nat \ {0}
    BY CacheAssumption DEF CacheAssumption
  <2>3. Cardinality(InStatus(c, "LOADED")) \in Nat
    BY CacheFacts
  <2>4. InStatus(c, "LOADED") # {}
    BY <2>1, <2>2, <2>3, FS_EmptySet
  <2> QED BY <2>4 DEF InStatus, Is
<1>3. c.removeQueue # <<>>
  <2>1. \A y \in S : \E k \in DOMAIN c.removeQueue : c.removeQueue[k] = y
    BY <1>1, PermFacts
  <2> QED BY <1>2, <2>1
<1>4. h \in S /\ \A y \in S \ {h} : Before(c.removeQueue, h, y)
  BY <1>1, <1>3, HeadOrder
<1>5. Is(c, h, "LOADED")
  <2>1. CASE x = h
    BY <1>2, <2>1
  <2>2. CASE eol = None
    BY <1>1, <1>4, <2>2
  <2>3. CASE eol \in S /\ eol # h
    BY <1>1, <1>4, <2>3
  <2>4. CASE eol = h /\ x # h
    BY <1>1, <1>2, <1>4, <2>4
  <2> QED BY <1>1, <2>1, <2>2, <2>3, <2>4
<1> QED BY <1>3, <1>5

\* Eviction makes room for one more LOADED item and erases no other.
LEMMA ExcessSound ==
  ASSUME NEW c, SoundCache(c)
  PROVE  LET d == RemoveExcessLocked(c)
         IN /\ SoundCache(d)
            /\ Known(d) \subseteq Known(c)
            /\ \A j \in Known(d) : d.items[j] = c.items[j]
            /\ \A j \in Known(c) : Is(c, j, "LOADED") \/ j \in Known(d)
            /\ d.numLoadedItems < MaxCachedPixmaps
<1> DEFINE d == RemoveExcessLocked(c)
           h == Head(c.removeQueue)
<1>1. /\ c.numLoadedItems \in Nat /\ MaxCachedPixmaps \in Nat
      /\ c.numLoadedItems <= MaxCachedPixmaps
  BY CacheFacts, CacheAssumption DEF CacheAssumption, SoundCache, Counted
<1>2. CASE EvictionIsDue(c)
  <2>1. h \in Known(c) /\ Is(c, h, "LOADED")
    BY <1>2, HeadIsLoaded DEF Is
  <2>2. d = RemoveItemLocked(c, h)
    BY <1>2 DEF RemoveExcessLocked
  <2> HIDE DEF h, d
  <2>3. LET r == RemoveItemLocked(c, h)
        IN /\ SoundCache(r)
           /\ Known(r) = Known(c) \ {h}
           /\ \A j \in Known(r) : r.items[j] = c.items[j]
           /\ r.numLoadedItems = c.numLoadedItems
                                   - (IF Is(c, h, "LOADED") THEN 1 ELSE 0)
    BY <2>1, RemoveSound
  <2>4. /\ SoundCache(d)
        /\ Known(d) = Known(c) \ {h}
        /\ \A j \in Known(d) : d.items[j] = c.items[j]
        /\ d.numLoadedItems = c.numLoadedItems - 1
    BY <2>1, <2>2, <2>3
  <2>5. d.numLoadedItems < MaxCachedPixmaps
    BY <1>1, <2>4
  <2> QED BY <2>1, <2>4, <2>5 DEF d
<1>3. CASE ~EvictionIsDue(c)
  <2>1. d = c
    BY <1>3 DEF RemoveExcessLocked
  <2>2. c.numLoadedItems < MaxCachedPixmaps
    BY <1>1, <1>3 DEF EvictionIsDue
  <2> QED BY <2>1, <2>2
<1> QED BY <1>2, <1>3

\* A load result that failed: the item keeps its place among those that are
\* not LOADED.
LEMMA FailedSound ==
  ASSUME NEW c, SoundCache(c), NEW e, Is(c, e.image, "IN_PROGRESS"),
         e.pixmap \in Pixmaps
  PROVE  LET d == StoreFailed(c, e)
         IN /\ SoundCache(d)
            /\ Known(d) = Known(c)
            /\ Is(d, e.image, "LOAD_FAILED")
            /\ \A j \in Known(c) \ {e.image} : d.items[j] = c.items[j]
<1> DEFINE d == StoreFailed(c, e)
           i == e.image
<1>1. /\ DOMAIN c = {"items", "loadQueue", "removeQueue", "endOfLoadedItems",
                     "numQueuedItems", "numLoadedItems"}
      /\ Known(c) \subseteq Images
      /\ c.items \in [Known(c) -> Item]
      /\ i \in Known(c) /\ c.items[i].status = "IN_PROGRESS"
  BY DEF SoundCache, Shaped, Is
<1>2. /\ DOMAIN d = DOMAIN c
      /\ d.items = [c.items EXCEPT ![i] = [@ EXCEPT !.status = "LOAD_FAILED",
                                                    !.pixmap = e.pixmap,
                                                    !.handlers = {}]]
      /\ d.loadQueue = ToBack(c.loadQueue, i)
      /\ d.removeQueue = c.removeQueue
      /\ d.endOfLoadedItems = c.endOfLoadedItems
      /\ d.numQueuedItems = c.numQueuedItems
      /\ d.numLoadedItems = c.numLoadedItems
  BY <1>1 DEF StoreFailed
<1> HIDE DEF d
<1>3. /\ Known(d) = Known(c)
      /\ d.items[i] = [c.items[i] EXCEPT !.status = "LOAD_FAILED",
                                         !.pixmap = e.pixmap, !.handlers = {}]
      /\ \A j \in Known(c) \ {i} : d.items[j] = c.items[j]
  BY <1>1, <1>2 DEF Known
<1> HIDE DEF i
<1>4. /\ c.items[i] \in Item /\ d.items[i].status = "LOAD_FAILED"
      /\ d.items[i] \in Item
  <2> DEFINE pix == e.pixmap
  <2>1. c.items[i] \in Item
    BY <1>1
  <2>2. pix \in Pixmaps /\ d.items[i] = [c.items[i] EXCEPT !.status = "LOAD_FAILED",
                                         !.pixmap = pix, !.handlers = {}]
    BY <1>3
  <2> HIDE DEF pix
  <2> QED BY <2>1, <2>2 DEF Item, Statuses
<1>5. /\ \A j, s : j # i => (Is(d, j, s) <=> Is(c, j, s))
      /\ Is(d, i, "LOAD_FAILED") /\ ~Is(d, i, "QUEUED") /\ ~Is(d, i, "LOADED")
      /\ ~Is(c, i, "LOADED") /\ ~Is(c, i, "QUEUED")
  BY <1>1, <1>3, <1>4 DEF Is
<1>6. Shaped(d)
  <2>1. d.items \in [Known(d) -> Item]
    BY <1>1, <1>2, <1>3, <1>4 DEF Known
  <2> QED BY <1>1, <1>2, <1>3, <2>1 DEF Shaped
<1>7. /\ Perm(d.loadQueue, Known(c))
      /\ \A x, y : Before(d.loadQueue, x, y) <=>
           \/ x # i /\ y # i /\ Before(c.loadQueue, x, y)
           \/ y = i /\ x \in Known(c) \ {i}
  <2>1. Perm(c.loadQueue, Known(c))
    BY DEF SoundCache, Ordered
  <2>2. LET r == ToBack(c.loadQueue, i)
        IN /\ Perm(r, Known(c))
           /\ \A x, y : Before(r, x, y) <=>
                \/ x # i /\ y # i /\ Before(c.loadQueue, x, y)
                \/ y = i /\ x \in Known(c) \ {i}
    BY <1>1, <2>1, ToBackOrder
  <2> QED BY <1>2, <2>2
<1>8. Ordered(d)
  BY <1>2, <1>3, <1>7 DEF SoundCache, Ordered
<1>9. QueuedAhead(d)
  BY <1>3, <1>5, <1>7 DEF SoundCache, QueuedAhead
<1>10. LoadedAhead(d)
  <2>1. \A j : Is(d, j, "LOADED") <=> Is(c, j, "LOADED")
    BY <1>5
  <2> QED BY <1>2, <1>3, <2>1 DEF SoundCache, LoadedAhead
<1>11. Counted(d)
  <2>1. \A j, s : j \in InStatus(d, s) <=> Is(d, j, s)
    BY DEF InStatus, Is
  <2>2. \A j, s : j \in InStatus(c, s) <=> Is(c, j, s)
    BY DEF InStatus, Is
  <2>3. InStatus(d, "QUEUED") = InStatus(c, "QUEUED")
    BY <1>5, <2>1, <2>2
  <2>4. InStatus(d, "LOADED") = InStatus(c, "LOADED")
    BY <1>5, <2>1, <2>2
  <2> QED BY <1>2, <2>3, <2>4 DEF SoundCache, Counted
<1> QED BY <1>3, <1>5, <1>6, <1>8, <1>9, <1>10, <1>11 DEF SoundCache, d, i

\* A load result that succeeded: after an eviction if need be, the item
\* becomes LOADED and the last candidate for removal.
LEMMA LoadedSound ==
  ASSUME NEW c, SoundCache(c), NEW e, Is(c, e.image, "IN_PROGRESS"),
         e.pixmap \in Pixmaps
  PROVE  LET d == StoreLoaded(c, e)
         IN /\ SoundCache(d)
            /\ Known(d) \subseteq Known(c)
            /\ Is(d, e.image, "LOADED")
            /\ \A j \in Known(d) \ {e.image} : d.items[j] = c.items[j]
            /\ \A j \in Known(c) : Is(c, j, "LOADED") \/ j \in Known(d)
<1> DEFINE d == StoreLoaded(c, e)
           i == e.image
           m == RemoveExcessLocked(c)
<1>1. /\ SoundCache(m)
      /\ Known(m) \subseteq Known(c)
      /\ \A j \in Known(m) : m.items[j] = c.items[j]
      /\ \A j \in Known(c) : Is(c, j, "LOADED") \/ j \in Known(m)
      /\ m.numLoadedItems < MaxCachedPixmaps
  <2>1. LET r == RemoveExcessLocked(c)
        IN /\ SoundCache(r)
           /\ Known(r) \subseteq Known(c)
           /\ \A j \in Known(r) : r.items[j] = c.items[j]
           /\ \A j \in Known(c) : Is(c, j, "LOADED") \/ j \in Known(r)
           /\ r.numLoadedItems < MaxCachedPixmaps
    BY ExcessSound
  <2> QED BY <2>1
<1>2. d = [m EXCEPT !.items[i].status   = "LOADED",
                    !.items[i].pixmap   = IF e.pixmap = NoPixmap THEN @ ELSE e.pixmap,
                    !.items[i].handlers = {},
                    !.numLoadedItems    = @ + 1,
                    !.removeQueue       = Relocate(@, m.endOfLoadedItems, i),
                    !.loadQueue         = ToBack(@, i)]
  BY DEF StoreLoaded
<1> HIDE DEF m, d
<1>3. /\ DOMAIN m = {"items", "loadQueue", "removeQueue", "endOfLoadedItems",
                     "numQueuedItems", "numLoadedItems"}
      /\ Known(m) \subseteq Images
      /\ m.items \in [Known(m) -> Item]
  BY <1>1 DEF SoundCache, Shaped
<1>4. i \in Known(m) /\ m.items[i].status = "IN_PROGRESS"
  BY <1>1 DEF Is
<1> HIDE DEF i
<1> DEFINE pix == IF e.pixmap = NoPixmap THEN m.items[i].pixmap ELSE e.pixmap
<1>5. /\ DOMAIN d = DOMAIN m
      /\ d.loadQueue = ToBack(m.loadQueue, i)
      /\ d.removeQueue = Relocate(m.removeQueue, m.endOfLoadedItems, i)
      /\ d.endOfLoadedItems = m.endOfLoadedItems
      /\ d.numQueuedItems = m.numQueuedItems
      /\ d.numLoadedItems = m.numLoadedItems + 1
  BY <1>2, <1>3
<1>6. /\ DOMAIN d.items = DOMAIN m.items
      /\ d.items[i] = [m.items[i] EXCEPT !.status = "LOADED",
                                         !.pixmap = pix, !.handlers = {}]
      /\ \A j \in Known(m) \ {i} : d.items[j] = m.items[j]
  <2>1. m.items[i] \in Item /\ DOMAIN m.items[i] = {"status", "age", "handlers", "pixmap", "raced"}
    BY <1>3, <1>4 DEF Item
  <2> QED BY <1>2, <1>3, <1>4, <2>1 DEF Known
<1>7. Known(d) = Known(m)
  BY <1>6 DEF Known
<1>8. m.items[i] \in Item /\ d.items[i].status = "LOADED" /\ d.items[i] \in Item
  <2>1. m.items[i] \in Item
    BY <1>3, <1>4
  <2>2. pix \in Pixmaps
    BY <2>1 DEF Item
  <2> HIDE DEF pix
  <2> QED BY <1>6, <2>1, <2>2 DEF Item, Statuses
<1> HIDE DEF pix
<1>9. /\ \A j, s : j # i => (Is(d, j, s) <=> Is(m, j, s))
      /\ Is(d, i, "LOADED") /\ ~Is(d, i, "QUEUED") /\ ~Is(m, i, "QUEUED")
      /\ ~Is(m, i, "LOADED")
  BY <1>4, <1>6, <1>7, <1>8 DEF Is
<1>10. Shaped(d)
  <2>1. \A j \in Known(d) : d.items[j] \in Item
    BY <1>3, <1>6, <1>7, <1>8
  <2>2. d.items = [j \in Known(d) |-> d.items[j]]
    <3>1. d.items = [m.items EXCEPT ![i] = d.items[i]]
      <4>1. m.items[i] \in Item /\ DOMAIN m.items[i] = {"status", "age", "handlers", "pixmap", "raced"}
        BY <1>3, <1>4 DEF Item
      <4> QED BY <1>2, <1>3, <1>4, <4>1 DEF Known
    <3> QED BY <1>6, <1>7, <3>1 DEF Known
  <2>3. d.items \in [Known(d) -> Item]
    BY <2>1, <2>2
  <2> QED BY <1>3, <1>5, <1>7, <2>3 DEF Shaped
<1>11. /\ Perm(m.loadQueue, Known(m)) /\ Perm(m.removeQueue, Known(m))
       /\ None \notin Known(m)
  BY <1>1, CacheFacts DEF SoundCache, Ordered
<1>12. /\ Perm(d.loadQueue, Known(m))
       /\ \A x, y : Before(d.loadQueue, x, y) <=>
            \/ x # i /\ y # i /\ Before(m.loadQueue, x, y)
            \/ y = i /\ x \in Known(m) \ {i}
  <2>1. LET r == ToBack(m.loadQueue, i)
        IN /\ Perm(r, Known(m))
           /\ \A x, y : Before(r, x, y) <=>
                \/ x # i /\ y # i /\ Before(m.loadQueue, x, y)
                \/ y = i /\ x \in Known(m) \ {i}
    BY <1>4, <1>11, ToBackOrder
  <2> QED BY <1>5, <2>1
<1> DEFINE eol == m.endOfLoadedItems
<1>13. /\ eol \in Known(m) /\ eol # None
       /\ \A j \in Known(m) : /\ Before(m.removeQueue, j, eol) => Is(m, j, "LOADED")
                              /\ Before(m.removeQueue, eol, j) => ~Is(m, j, "LOADED")
  BY <1>1, <1>4, <1>9 DEF SoundCache, LoadedAhead
<1>14. /\ Perm(d.removeQueue, Known(m))
       /\ eol # i =>
            \A x : /\ Before(d.removeQueue, x, eol) <=> x = i \/ Before(m.removeQueue, x, eol)
                   /\ Before(d.removeQueue, eol, x) <=> x # i /\ Before(m.removeQueue, eol, x)
       /\ eol = i => d.removeQueue = m.removeQueue
  <2> HIDE DEF eol
  <2>1. LET r == Relocate(m.removeQueue, eol, i)
        IN /\ Perm(r, Known(m))
           /\ \A x, y : x # i /\ y # i => (Before(r, x, y) <=> Before(m.removeQueue, x, y))
           /\ eol # i /\ eol # None =>
                \A x : /\ Before(r, x, eol) <=> x = i \/ Before(m.removeQueue, x, eol)
                       /\ Before(r, eol, x) <=> x # i /\ Before(m.removeQueue, eol, x)
    BY <1>4, <1>11, <1>13, RelocateOrder
  <2>2. d.removeQueue = Relocate(m.removeQueue, eol, i)
    BY <1>5 DEF eol
  <2>3. eol = i => d.removeQueue = m.removeQueue
    BY <2>2 DEF Relocate
  <2> QED BY <1>13, <2>1, <2>2, <2>3
<1>15. Ordered(d)
  BY <1>7, <1>12, <1>14 DEF Ordered
<1>16. QueuedAhead(d)
  BY <1>1, <1>7, <1>9, <1>12 DEF SoundCache, QueuedAhead
<1>17. LoadedAhead(d)
  <2>1. \A x : ~Before(m.removeQueue, x, x)
    BY <1>11, BeforeOrders
  <2>2. \A j \in Known(d) :
          /\ Before(d.removeQueue, j, eol) => Is(d, j, "LOADED")
          /\ Before(d.removeQueue, eol, j) => ~Is(d, j, "LOADED")
    <3>1. CASE eol = i
      BY <1>7, <1>9, <1>13, <1>14, <2>1, <3>1
    <3>2. CASE eol # i
      BY <1>7, <1>9, <1>13, <1>14, <3>2
    <3> QED BY <3>1, <3>2
  <2> QED BY <1>5, <1>7, <1>13, <2>2 DEF LoadedAhead
<1>18. Counted(d)
  <2>1. \A j, s : j \in InStatus(d, s) <=> Is(d, j, s)
    BY DEF InStatus, Is
  <2>2. \A j, s : j \in InStatus(m, s) <=> Is(m, j, s)
    BY DEF InStatus, Is
  <2>3. InStatus(d, "QUEUED") = InStatus(m, "QUEUED")
    BY <1>9, <2>1, <2>2
  <2>4. InStatus(d, "LOADED") = InStatus(m, "LOADED") \cup {i} /\ i \notin InStatus(m, "LOADED")
    BY <1>9, <2>1, <2>2
  <2>5. IsFiniteSet(InStatus(m, "LOADED")) /\ Cardinality(InStatus(m, "LOADED")) \in Nat
    BY <1>1, CacheFacts
  <2>6. Cardinality(InStatus(d, "LOADED")) = Cardinality(InStatus(m, "LOADED")) + 1
    BY <2>4, <2>5, FS_AddElement
  <2>7. /\ m.numQueuedItems = Cardinality(InStatus(m, "QUEUED"))
        /\ m.numLoadedItems = Cardinality(InStatus(m, "LOADED"))
    BY <1>1 DEF SoundCache, Counted
  <2>8. MaxCachedPixmaps \in Nat
    BY CacheAssumption DEF CacheAssumption
  <2>9. d.numLoadedItems <= MaxCachedPixmaps
    BY <1>1, <1>5, <2>5, <2>7, <2>8
  <2> QED BY <1>5, <2>3, <2>6, <2>7, <2>9 DEF Counted
<1>19. SoundCache(d)
  BY <1>10, <1>15, <1>16, <1>17, <1>18 DEF SoundCache
<1> QED BY <1>1, <1>6, <1>7, <1>9, <1>19 DEF d, i

\* A new request: a QUEUED item in front of all others, and the last one to
\* be removed.
WithNew(c, i, t) ==
  [items            |-> [j \in Known(c) \cup {i} |->
                           IF j = i THEN NewItem("QUEUED", {t}, NoPixmap)
                           ELSE c.items[j]],
   loadQueue        |-> <<i>> \o c.loadQueue,
   removeQueue      |-> Append(c.removeQueue, i),
   endOfLoadedItems |-> IF c.endOfLoadedItems = None THEN i
                        ELSE c.endOfLoadedItems,
   numQueuedItems   |-> c.numQueuedItems + 1,
   numLoadedItems   |-> c.numLoadedItems]

\* It keeps the orders, the marker and the counters.
LEMMA NewSound ==
  ASSUME NEW c, SoundCache(c), NEW i \in Images \ Known(c), NEW t \in Thumbs
  PROVE  LET d == WithNew(c, i, t)
         IN /\ SoundCache(d)
            /\ Known(d) = Known(c) \cup {i}
            /\ Is(d, i, "QUEUED") /\ d.items[i].handlers = {t}
            /\ \A j \in Known(c) : d.items[j] = c.items[j]
<1> DEFINE S == Known(c)
           d == WithNew(c, i, t)
<1>1. /\ S \subseteq Images
      /\ c.items \in [S -> Item]
      /\ Perm(c.loadQueue, S) /\ Perm(c.removeQueue, S)
      /\ None \notin S
      /\ i \notin S /\ i # None
  BY CacheFacts, CacheAssumption DEF CacheAssumption, SoundCache, Shaped, Ordered
<1>2. /\ DOMAIN d = {"items", "loadQueue", "removeQueue", "endOfLoadedItems",
                     "numQueuedItems", "numLoadedItems"}
      /\ d.items = [j \in S \cup {i} |->
                      IF j = i THEN NewItem("QUEUED", {t}, NoPixmap) ELSE c.items[j]]
      /\ d.loadQueue = <<i>> \o c.loadQueue
      /\ d.removeQueue = Append(c.removeQueue, i)
      /\ d.endOfLoadedItems = IF c.endOfLoadedItems = None THEN i ELSE c.endOfLoadedItems
      /\ d.numQueuedItems = c.numQueuedItems + 1
      /\ d.numLoadedItems = c.numLoadedItems
  BY DEF WithNew
<1> HIDE DEF d
<1>3. /\ Known(d) = S \cup {i}
      /\ d.items[i] = NewItem("QUEUED", {t}, NoPixmap)
      /\ \A j \in S : d.items[j] = c.items[j]
  BY <1>1, <1>2 DEF Known
<1>4. d.items[i].status = "QUEUED" /\ d.items[i].handlers = {t} /\ d.items[i] \in Item
  <2>1. ExpirationThreshold \in Nat /\ 0 \in 0..(ExpirationThreshold + 1)
    BY CacheAssumption DEF CacheAssumption
  <2>2. NoPixmap \in Pixmaps /\ {t} \in SUBSET Thumbs /\ "QUEUED" \in Statuses
    BY DEF Pixmaps, Statuses
  <2> QED BY <1>3, <2>1, <2>2 DEF Item, NewItem
<1>5. /\ \A j, s : j # i => (Is(d, j, s) <=> Is(c, j, s))
      /\ Is(d, i, "QUEUED") /\ ~Is(d, i, "LOADED")
      /\ ~Is(c, i, "QUEUED") /\ ~Is(c, i, "LOADED")
  BY <1>1, <1>3, <1>4 DEF Is
<1>6. Shaped(d)
  <2>1. d.items \in [Known(d) -> Item]
    <3>1. \A j \in S \cup {i} : d.items[j] \in Item
      BY <1>1, <1>3, <1>4
    <3>2. d.items = [j \in S \cup {i} |-> d.items[j]]
      BY <1>2
    <3> QED BY <1>3, <3>1, <3>2
  <2> QED BY <1>1, <1>2, <1>3, <2>1 DEF Shaped
<1>7. /\ Perm(d.loadQueue, S \cup {i})
      /\ \A x, y : Before(d.loadQueue, x, y) <=>
           Before(c.loadQueue, x, y) \/ (x = i /\ y \in S)
  <2> DEFINE q == c.loadQueue
  <2>1. Perm(q, S)
    BY <1>1
  <2> HIDE DEF q, S
  <2>2. LET r == <<i>> \o q
        IN /\ Perm(r, S \cup {i})
           /\ \A x, y : Before(r, x, y) <=> Before(q, x, y) \/ (x = i /\ y \in S)
    BY <1>1, <2>1, PrependOrder
  <2> QED BY <1>2, <2>2 DEF q
<1>8. /\ Perm(d.removeQueue, S \cup {i})
      /\ \A x, y : Before(d.removeQueue, x, y) <=>
           Before(c.removeQueue, x, y) \/ (y = i /\ x \in S)
  <2> DEFINE q == c.removeQueue
  <2>1. Perm(q, S)
    BY <1>1
  <2> HIDE DEF q, S
  <2>2. LET r == Append(q, i)
        IN /\ Perm(r, S \cup {i})
           /\ \A x, y : Before(r, x, y) <=> Before(q, x, y) \/ (y = i /\ x \in S)
    BY <1>1, <2>1, AppendOrder
  <2> QED BY <1>2, <2>2 DEF q
<1>9. Ordered(d)
  BY <1>3, <1>7, <1>8 DEF Ordered
<1>10. QueuedAhead(d)
  <2>1. \A x, y : Before(c.loadQueue, x, y) => x \in S /\ y \in S
    BY <1>1, BeforeOrders
  <2>2. \A x, y \in S : Before(c.loadQueue, x, y) /\ Is(c, y, "QUEUED") => Is(c, x, "QUEUED")
    BY DEF SoundCache, QueuedAhead
  <2>3. ASSUME NEW x, NEW y, Before(d.loadQueue, x, y), Is(d, y, "QUEUED"), x # i
        PROVE  Is(d, x, "QUEUED")
    <3>1. Before(c.loadQueue, x, y) /\ x \in S /\ y \in S /\ y # i
      BY <1>1, <1>7, <2>1, <2>3
    <3> QED BY <1>5, <2>2, <2>3, <3>1
  <2> QED BY <1>5, <2>3 DEF QueuedAhead
<1>11. LoadedAhead(d)
  <2> DEFINE old == c.endOfLoadedItems
             new == d.endOfLoadedItems
  <2>1. /\ old \in S \cup {None}
        /\ \A j \in S : /\ old = None \/ Before(c.removeQueue, j, old) => Is(c, j, "LOADED")
                        /\ Before(c.removeQueue, old, j) => ~Is(c, j, "LOADED")
    BY DEF SoundCache, LoadedAhead
  <2>2. new = IF old = None THEN i ELSE old
    BY <1>2
  <2>3. \A x, y : Before(c.removeQueue, x, y) => x \in S /\ y \in S
    BY <1>1, BeforeOrders
  <2> HIDE DEF old, new
  <2>4. new \in Known(d) /\ new # None
    BY <1>1, <1>3, <2>1, <2>2
  <2>5. ASSUME NEW j \in Known(d), Before(d.removeQueue, j, new)
        PROVE  Is(d, j, "LOADED")
    <3>1. j # i /\ j \in S
      BY <1>1, <1>3, <1>8, <2>1, <2>3, <2>5
    <3>2. old = None \/ Before(c.removeQueue, j, old)
      BY <1>1, <1>8, <2>1, <2>2, <2>5
    <3> QED BY <1>5, <2>1, <3>1, <3>2
  <2>6. ASSUME NEW j \in Known(d), Before(d.removeQueue, new, j), Is(d, j, "LOADED")
        PROVE  FALSE
    <3>1. j # i /\ j \in S
      BY <1>3, <1>5, <2>6
    <3>2. Before(c.removeQueue, new, j) /\ new \in S
      BY <1>8, <2>3, <2>6, <3>1
    <3>3. new = old
      BY <1>1, <2>2, <3>2
    <3> QED BY <1>5, <2>1, <2>6, <3>1, <3>2, <3>3
  <2> QED BY <2>4, <2>5, <2>6 DEF LoadedAhead, new
<1>12. Counted(d)
  <2>1. \A j, s : j \in InStatus(d, s) <=> Is(d, j, s)
    BY DEF InStatus, Is
  <2>2. \A j, s : j \in InStatus(c, s) <=> Is(c, j, s)
    BY DEF InStatus, Is
  <2>3. InStatus(d, "LOADED") = InStatus(c, "LOADED")
    BY <1>5, <2>1, <2>2
  <2>4. InStatus(d, "QUEUED") = InStatus(c, "QUEUED") \cup {i} /\ i \notin InStatus(c, "QUEUED")
    BY <1>5, <2>1, <2>2
  <2>5. IsFiniteSet(InStatus(c, "QUEUED")) /\ Cardinality(InStatus(c, "QUEUED")) \in Nat
    BY CacheFacts
  <2>6. Cardinality(InStatus(d, "QUEUED")) = Cardinality(InStatus(c, "QUEUED")) + 1
    BY <2>4, <2>5, FS_AddElement
  <2> QED BY <1>2, <2>3, <2>6 DEF SoundCache, Counted
<1> QED BY <1>3, <1>4, <1>5, <1>6, <1>9, <1>10, <1>11, <1>12 DEF SoundCache, d

\* A request for an item that is already on its way: a QUEUED one is moved
\* to the front, where the loader finds it next.
WithHandler(c, i, t) ==
  [c EXCEPT !.items[i].handlers = @ \cup {t},
            !.loadQueue = IF Is(c, i, "QUEUED") THEN ToFront(@, i) ELSE @]

\* It keeps the orders, the marker and the counters.
LEMMA PendingSound ==
  ASSUME NEW c, SoundCache(c), NEW i, NEW t \in Thumbs,
         Is(c, i, "QUEUED") \/ Is(c, i, "IN_PROGRESS")
  PROVE  LET d == WithHandler(c, i, t)
         IN /\ SoundCache(d)
            /\ Known(d) = Known(c)
            /\ d.items[i].handlers = c.items[i].handlers \cup {t}
            /\ d.items[i].status = c.items[i].status
            /\ \A j \in Known(c) \ {i} : d.items[j] = c.items[j]
<1> DEFINE d == WithHandler(c, i, t)
<1>1. /\ DOMAIN c = {"items", "loadQueue", "removeQueue", "endOfLoadedItems",
                     "numQueuedItems", "numLoadedItems"}
      /\ Known(c) \subseteq Images
      /\ c.items \in [Known(c) -> Item]
      /\ Perm(c.loadQueue, Known(c)) /\ Perm(c.removeQueue, Known(c))
      /\ i \in Known(c)
  BY DEF SoundCache, Shaped, Is, Ordered
<1>2. /\ DOMAIN d = DOMAIN c
      /\ d.items = [c.items EXCEPT ![i].handlers = @ \cup {t}]
      /\ d.loadQueue = IF Is(c, i, "QUEUED") THEN ToFront(c.loadQueue, i) ELSE c.loadQueue
      /\ d.removeQueue = c.removeQueue
      /\ d.endOfLoadedItems = c.endOfLoadedItems
      /\ d.numQueuedItems = c.numQueuedItems
      /\ d.numLoadedItems = c.numLoadedItems
  BY <1>1 DEF WithHandler
<1> HIDE DEF d
<1>3. /\ Known(d) = Known(c)
      /\ d.items[i] = [c.items[i] EXCEPT !.handlers = @ \cup {t}]
      /\ \A j \in Known(c) \ {i} : d.items[j] = c.items[j]
  BY <1>1, <1>2 DEF Known
<1>4. /\ d.items[i].status = c.items[i].status
      /\ d.items[i].handlers = c.items[i].handlers \cup {t}
      /\ d.items[i] \in Item
  <2>1. c.items[i] \in Item
    BY <1>1
  <2> QED BY <1>3, <2>1 DEF Item
<1>5. \A j, s : Is(d, j, s) <=> Is(c, j, s)
  BY <1>1, <1>3, <1>4 DEF Is
<1>6. Shaped(d)
  <2>1. d.items \in [Known(d) -> Item]
    <3>1. \A j \in Known(c) : d.items[j] \in Item
      BY <1>1, <1>3, <1>4
    <3>2. d.items = [j \in Known(c) |-> d.items[j]]
      BY <1>1, <1>2
    <3> QED BY <1>3, <3>1, <3>2
  <2> QED BY <1>1, <1>2, <1>3, <2>1 DEF Shaped
<1>7. /\ Perm(d.loadQueue, Known(c))
      /\ \A x, y : Before(d.loadQueue, x, y) =>
           Before(c.loadQueue, x, y) \/ (x = i /\ Is(c, i, "QUEUED"))
  <2>1. CASE Is(c, i, "QUEUED")
    <3>1. LET r == ToFront(c.loadQueue, i)
          IN /\ Perm(r, Known(c))
             /\ \A x, y : Before(r, x, y) <=>
                  \/ x # i /\ y # i /\ Before(c.loadQueue, x, y)
                  \/ x = i /\ y \in Known(c) \ {i}
      BY <1>1, ToFrontOrder
    <3> QED BY <1>2, <2>1, <3>1
  <2>2. CASE ~Is(c, i, "QUEUED")
    BY <1>1, <1>2, <2>2
  <2> QED BY <2>1, <2>2
<1>8. Ordered(d)
  BY <1>1, <1>2, <1>3, <1>7 DEF Ordered
<1>9. QueuedAhead(d)
  BY <1>3, <1>5, <1>7 DEF SoundCache, QueuedAhead
<1>10. LoadedAhead(d)
  BY <1>2, <1>3, <1>5 DEF SoundCache, LoadedAhead
<1>11. Counted(d)
  <2>1. \A s : InStatus(d, s) = InStatus(c, s)
    BY <1>5 DEF InStatus, Is
  <2> QED BY <1>2, <2>1 DEF SoundCache, Counted
<1> QED BY <1>3, <1>4, <1>6, <1>8, <1>9, <1>10, <1>11 DEF SoundCache, d

\* A request for a LOADED item makes it the last candidate for removal.
LEMMA TouchSound ==
  ASSUME NEW c, SoundCache(c), NEW i, Is(c, i, "LOADED"), NEW d,
         d = [c EXCEPT !.removeQueue = Relocate(@, c.endOfLoadedItems, i)]
  PROVE  SoundCache(d) /\ d.items = c.items /\ Known(d) = Known(c)
<1>1. /\ DOMAIN c = {"items", "loadQueue", "removeQueue", "endOfLoadedItems",
                     "numQueuedItems", "numLoadedItems"}
      /\ Perm(c.loadQueue, Known(c)) /\ Perm(c.removeQueue, Known(c))
      /\ i \in Known(c) /\ None \notin Known(c)
  BY CacheFacts DEF SoundCache, Shaped, Is, Ordered
<1>2. /\ DOMAIN d = DOMAIN c
      /\ d.items = c.items
      /\ d.loadQueue = c.loadQueue
      /\ d.removeQueue = Relocate(c.removeQueue, c.endOfLoadedItems, i)
      /\ d.endOfLoadedItems = c.endOfLoadedItems
      /\ d.numQueuedItems = c.numQueuedItems
      /\ d.numLoadedItems = c.numLoadedItems
  BY <1>1
<1>3. Known(d) = Known(c) /\ (\A s : InStatus(d, s) = InStatus(c, s))
        /\ \A j, s : Is(d, j, s) <=> Is(c, j, s)
  BY <1>2 DEF Known, Is, InStatus
<1> DEFINE eol == c.endOfLoadedItems
<1>4. /\ eol \in Known(c) \cup {None}
      /\ \A j \in Known(c) :
           /\ eol = None \/ Before(c.removeQueue, j, eol) => Is(c, j, "LOADED")
           /\ Before(c.removeQueue, eol, j) => ~Is(c, j, "LOADED")
  BY DEF SoundCache, LoadedAhead
<1>5. /\ Perm(d.removeQueue, Known(c))
      /\ eol # i /\ eol # None =>
           \A x : /\ Before(d.removeQueue, x, eol) <=> x = i \/ Before(c.removeQueue, x, eol)
                  /\ Before(d.removeQueue, eol, x) <=> x # i /\ Before(c.removeQueue, eol, x)
      /\ eol = i => d.removeQueue = c.removeQueue
  <2>1. d.removeQueue = Relocate(c.removeQueue, eol, i)
    BY <1>2
  <2> HIDE DEF eol
  <2>2. LET r == Relocate(c.removeQueue, eol, i)
        IN /\ Perm(r, Known(c))
           /\ \A x, y : x # i /\ y # i => (Before(r, x, y) <=> Before(c.removeQueue, x, y))
           /\ eol # i /\ eol # None =>
                \A x : /\ Before(r, x, eol) <=> x = i \/ Before(c.removeQueue, x, eol)
                       /\ Before(r, eol, x) <=> x # i /\ Before(c.removeQueue, eol, x)
    BY <1>1, <1>4, RelocateOrder
  <2>3. eol = i => d.removeQueue = c.removeQueue
    BY <2>1 DEF Relocate
  <2> QED BY <2>1, <2>2, <2>3
<1>6. LoadedAhead(d)
  <2>1. ASSUME NEW j \in Known(d)
        PROVE  /\ eol = None \/ Before(d.removeQueue, j, eol) => Is(d, j, "LOADED")
               /\ Before(d.removeQueue, eol, j) => ~Is(d, j, "LOADED")
    <3>1. CASE eol = None
      <4>1. \A x : ~Before(d.removeQueue, None, x)
        BY <1>1, <1>5, BeforeOrders
      <4> QED BY <1>3, <1>4, <3>1, <4>1
    <3>2. CASE eol = i
      BY <1>3, <1>4, <1>5, <3>2
    <3>3. CASE eol # None /\ eol # i
      BY <1>3, <1>4, <1>5, <3>3
    <3> QED BY <3>1, <3>2, <3>3
  <2> QED BY <1>2, <1>3, <1>4, <2>1 DEF LoadedAhead
<1>7. Shaped(d) /\ Ordered(d) /\ QueuedAhead(d) /\ Counted(d)
  BY <1>1, <1>2, <1>3, <1>5 DEF SoundCache, Shaped, Ordered, QueuedAhead, Counted
<1> QED BY <1>2, <1>3, <1>6, <1>7 DEF SoundCache

\* Attempts and changes of the directory make every item older, and replaced
\* thumbnails take their handlers along: details, as far as soundness goes.
LEMMA EveryItemSound ==
  ASSUME NEW c, SoundCache(c), NEW f,
         f \in [Known(c) -> Item], \A i \in Known(c) : f[i].status = c.items[i].status
  PROVE  LET d == [c EXCEPT !.items = f]
         IN SoundCache(d) /\ d.items = f /\ Known(d) = Known(c)
<1> DEFINE d == [c EXCEPT !.items = f]
<1>1. DOMAIN c = {"items", "loadQueue", "removeQueue", "endOfLoadedItems",
                  "numQueuedItems", "numLoadedItems"} /\ Known(c) \subseteq Images
  BY DEF SoundCache, Shaped
<1>2. /\ DOMAIN d = DOMAIN c
      /\ d.items = f
      /\ d.loadQueue = c.loadQueue
      /\ d.removeQueue = c.removeQueue
      /\ d.endOfLoadedItems = c.endOfLoadedItems
      /\ d.numQueuedItems = c.numQueuedItems
      /\ d.numLoadedItems = c.numLoadedItems
  BY <1>1
<1> HIDE DEF d
<1>3. Known(d) = Known(c) /\ Shaped(d)
  BY <1>1, <1>2 DEF Known, Shaped
<1>4. SoundCache(d)
  BY <1>2, <1>3, DetailsSound
<1> QED BY <1>2, <1>3, <1>4 DEF d

\* A load result of any kind: its item is LOADED, LOAD_FAILED or gone, and
\* only LOADED items are evicted.
Answered(c, e) ==
  CASE e.status = "LOADED"      -> StoreLoaded(c, e)
    [] e.status = "LOAD_FAILED" -> StoreFailed(c, e)
    [] OTHER                    -> RemoveItemLocked(c, e.image)

LEMMA AnswerSound ==
  ASSUME NEW c, SoundCache(c), NEW e, Is(c, e.image, "IN_PROGRESS"),
         e.pixmap \in Pixmaps
  PROVE  LET d == Answered(c, e)
         IN /\ SoundCache(d)
            /\ \A j, s : j # e.image /\ s # "LOADED" => (Is(d, j, s) <=> Is(c, j, s))
            /\ \A j \in Known(d) \ {e.image} : d.items[j] = c.items[j]
            /\ ~Is(d, e.image, "QUEUED") /\ ~Is(d, e.image, "IN_PROGRESS")
<1> DEFINE d == Answered(c, e)
           i == e.image
<1>1. i \in Known(c)
  BY DEF Is
<1>2. CASE e.status = "LOADED"
  <2>1. LET r == StoreLoaded(c, e)
        IN /\ SoundCache(r)
           /\ Known(r) \subseteq Known(c)
           /\ Is(r, e.image, "LOADED")
           /\ \A j \in Known(r) \ {e.image} : r.items[j] = c.items[j]
           /\ \A j \in Known(c) : Is(c, j, "LOADED") \/ j \in Known(r)
    BY LoadedSound
  <2>2. d = StoreLoaded(c, e)
    BY <1>2 DEF Answered
  <2> HIDE DEF d
  <2>3. /\ SoundCache(d)
        /\ Known(d) \subseteq Known(c)
        /\ Is(d, i, "LOADED")
        /\ \A j \in Known(d) \ {i} : d.items[j] = c.items[j]
        /\ \A j \in Known(c) : Is(c, j, "LOADED") \/ j \in Known(d)
    BY <2>1, <2>2
  <2>4. \A j, s : j # i /\ s # "LOADED" => (Is(d, j, s) <=> Is(c, j, s))
    BY <2>3 DEF Is
  <2>5. ~Is(d, i, "QUEUED") /\ ~Is(d, i, "IN_PROGRESS")
    BY <2>3 DEF Is
  <2> QED BY <2>3, <2>4, <2>5 DEF d
<1>3. CASE e.status = "LOAD_FAILED"
  <2>1. LET r == StoreFailed(c, e)
        IN /\ SoundCache(r)
           /\ Known(r) = Known(c)
           /\ Is(r, e.image, "LOAD_FAILED")
           /\ \A j \in Known(c) \ {e.image} : r.items[j] = c.items[j]
    BY FailedSound
  <2>2. d = StoreFailed(c, e)
    BY <1>3 DEF Answered
  <2> HIDE DEF d
  <2>3. /\ SoundCache(d)
        /\ Known(d) = Known(c)
        /\ Is(d, i, "LOAD_FAILED")
        /\ \A j \in Known(c) \ {i} : d.items[j] = c.items[j]
    BY <2>1, <2>2
  <2>4. \A j, s : j # i /\ s # "LOADED" => (Is(d, j, s) <=> Is(c, j, s))
    BY <2>3 DEF Is
  <2>5. ~Is(d, i, "QUEUED") /\ ~Is(d, i, "IN_PROGRESS")
    BY <2>3 DEF Is
  <2> QED BY <2>3, <2>4, <2>5 DEF d
<1>4. CASE e.status # "LOADED" /\ e.status # "LOAD_FAILED"
  <2>1. LET r == RemoveItemLocked(c, i)
        IN /\ SoundCache(r)
           /\ Known(r) = Known(c) \ {i}
           /\ \A j \in Known(r) : r.items[j] = c.items[j]
           /\ r.numLoadedItems = c.numLoadedItems
                                   - (IF Is(c, i, "LOADED") THEN 1 ELSE 0)
    <3> HIDE DEF i
    <3> QED BY <1>1, RemoveSound
  <2>2. d = RemoveItemLocked(c, i)
    BY <1>4 DEF Answered
  <2> HIDE DEF d
  <2>3. /\ SoundCache(d)
        /\ Known(d) = Known(c) \ {i}
        /\ \A j \in Known(d) : d.items[j] = c.items[j]
    BY <2>1, <2>2
  <2>4. \A j, s : j # i => (Is(d, j, s) <=> Is(c, j, s))
    BY <2>3 DEF Is
  <2>5. ~Is(d, i, "QUEUED") /\ ~Is(d, i, "IN_PROGRESS")
    BY <2>3 DEF Is
  <2> QED BY <2>3, <2>4, <2>5 DEF d
<1> QED BY <1>2, <1>3, <1>4
-----------------------------------------------------------------------------
(* The invariant holds initially.                                          *)

LEMMA InitInv == Init => Inv
<1> SUFFICES ASSUME Init PROVE Inv
  OBVIOUS
<1>1. /\ cache = EmptyCache /\ loader = "unstarted" /\ loading = None
      /\ results = <<>> /\ handler = {} /\ loadingNow = None
  BY DEF Init
<1>2. Known(cache) = {}
  BY <1>1 DEF EmptyCache, Known
<1>3. Shaped(cache)
  <2>1. cache.items \in [{} -> Item]
    BY <1>1 DEF EmptyCache
  <2> QED BY <1>1, <1>2, <2>1 DEF Shaped, EmptyCache
<1>4. Ordered(cache)
  <2>1. Perm(<<>>, {})
    BY DEF Perm, IsInjective, Range
  <2> QED BY <1>1, <1>2, <2>1 DEF Ordered, EmptyCache
<1>5. QueuedAhead(cache)
  BY <1>2 DEF QueuedAhead
<1>6. LoadedAhead(cache)
  BY <1>1, <1>2 DEF LoadedAhead, EmptyCache
<1>7. Counted(cache)
  <2>1. \A s : InStatus(cache, s) = {}
    BY <1>2 DEF InStatus
  <2>2. MaxCachedPixmaps \in Nat
    BY CacheAssumption DEF CacheAssumption
  <2>3. cache.numQueuedItems = 0 /\ cache.numLoadedItems = 0
    BY <1>1 DEF EmptyCache
  <2> QED BY <2>1, <2>2, <2>3, FS_EmptySet DEF Counted
<1>8. Typed
  <2>1. MaxVersion \in Nat \ {0} /\ 0 \in Versions /\ 1 \in Versions /\ MaxUserActions \in Nat
    BY CacheAssumption DEF CacheAssumption, Versions
  <2>2. imageFile \in [Images -> Versions] /\ thumbFile \in [Images -> Versions]
    BY <2>1 DEF Init
  <2>3. /\ rewriting \in [Workers -> [image : Images \cup {None}, version : Versions,
                                      step : {"idle", "write", "drop"}]]
        /\ \A w \in Workers : rewriting[w].step = "idle"
    BY <2>1 DEF Init, NotRewriting
  <2>4. userActions \in 0..MaxUserActions
    BY <2>1 DEF Init
  <2>5. wakeUp \in BOOLEAN /\ shuttingDown \in BOOLEAN /\ hadOOM \in BOOLEAN
    BY DEF Init
  <2>6. /\ results \in Seq([image : Images, status : Results, pixmap : Pixmaps])
        /\ loaded \in Versions
        /\ handler \subseteq Thumbs /\ needsPaint \subseteq Thumbs /\ blank \subseteq Thumbs
    BY <2>1 DEF Init
  <2> QED BY <1>1, <2>2, <2>3, <2>4, <2>5, <2>6 DEF Typed
<1>9. IteratorsHeld
  <2>1. InStatus(cache, "IN_PROGRESS") = {}
    BY <1>2 DEF InStatus
  <2> QED BY <1>1, <2>1 DEF IteratorsHeld
<1>10. HandlersKept /\ NoLostWakeUp
  BY <1>1, <1>2 DEF HandlersKept, NoLostWakeUp, InStatus
<1> QED BY <1>3, <1>4, <1>5, <1>6, <1>7, <1>8, <1>9, <1>10 DEF Inv, SoundCache
-----------------------------------------------------------------------------
(* Facts shared by the steps.                                              *)

\* Nothing is taken up, answered or requested anew: then the iterators and
\* the wake-up are as good as before.
LEMMA SameWork ==
  ASSUME IteratorsHeld, NoLostWakeUp,
         UNCHANGED <<loader, loading, wakeUp, results, shuttingDown, hadOOM>>,
         \A j : \A s \in {"QUEUED", "IN_PROGRESS"} :
           Is(cache', j, s) <=> Is(cache, j, s)
  PROVE  IteratorsHeld' /\ NoLostWakeUp'
<1>1. \A j, s : (j \in InStatus(cache, s) <=> Is(cache, j, s))
                /\ (j \in InStatus(cache', s) <=> Is(cache', j, s))
  BY DEF InStatus, Is
<1>2. InStatus(cache', "IN_PROGRESS") = InStatus(cache, "IN_PROGRESS")
      /\ InStatus(cache', "QUEUED") = InStatus(cache, "QUEUED")
  BY <1>1
<1>3. IteratorsHeld'
  <2>1. \A j : Is(cache', j, "IN_PROGRESS") <=> Is(cache, j, "IN_PROGRESS")
    OBVIOUS
  <2> QED BY <1>2, <2>1 DEF IteratorsHeld, Held
<1>4. NoLostWakeUp'
  BY <1>2 DEF NoLostWakeUp
<1> QED BY <1>3, <1>4

\* No handler is added, and no item with handlers changes in what matters.
LEMMA SameHandlers ==
  ASSUME HandlersKept, handler' = handler,
         \A j : \A s \in {"QUEUED", "IN_PROGRESS"} : Is(cache, j, s) =>
           Is(cache', j, s) /\ cache'.items[j].handlers = cache.items[j].handlers
  PROVE  HandlersKept'
  BY DEF HandlersKept

\* Saving a thumbnail keeps the files' versions.
LEMMA SaveTyped ==
  ASSUME thumbFile \in [Images -> Versions], NEW i \in Images, NEW v \in Versions,
         SaveThumb(i, v)
  PROVE  thumbFile' \in [Images -> Versions]
  BY DEF SaveThumb

\* An event is posted, after those that are there.
LEMMA PostedLast ==
  ASSUME NEW T, results \in Seq(T), NEW e \in T, results' = Append(results, e)
  PROVE  /\ results' \in Seq(T)
         /\ Len(results) \in Nat
         /\ DOMAIN results = 1..Len(results) /\ DOMAIN results' = 1..(Len(results) + 1)
         /\ \A k \in DOMAIN results : results'[k] = results[k]
         /\ results'[Len(results) + 1] = e
  BY AppendProperties, LenProperties
-----------------------------------------------------------------------------
(* GUI thread.                                                             *)

\* A paint event, with whatever it requests.
LEMMA PaintInv ==
  ASSUME Inv, NEW t \in Thumbs, Paint(t)
  PROVE  Inv'
<1> DEFINE i == ImageOf[t]
<1>1. /\ SoundCache(cache) /\ Typed /\ IteratorsHeld /\ HandlersKept /\ NoLostWakeUp
      /\ i \in Images
  BY CacheAssumption DEF CacheAssumption, Inv
<1>2. /\ needsPaint' = needsPaint \ {t}
      /\ UNCHANGED <<results, loadingNow, imageFile, thumbFile, rewriting,
                     shuttingDown, hadOOM, userActions>>
      /\ blank' \in {blank \ {t}, blank \cup {t}}
      /\ \/ t \in handler /\ UNCHANGED <<cache, loader, loading, loaded, wakeUp, handler>>
         \/ t \notin handler /\ RequestLoaded(i)
         \/ t \notin handler /\ RequestFailed(i)
         \/ t \notin handler /\ RequestPending(t, i)
         \/ t \notin handler /\ RequestNew(t, i)
  BY DEF Paint, loaderVars, fileVars, endVars
<1> HIDE DEF i
<1>3. ASSUME handler' \in {handler, handler \cup {t}}, loader' \in {loader, "scanning"},
             wakeUp' \in {wakeUp, TRUE}, UNCHANGED <<loading, loaded>>
      PROVE  Typed'
  BY <1>1, <1>2, <1>3 DEF Typed
<1>4. ASSUME UNCHANGED <<cache, loader, loading, loaded, wakeUp, handler>>
      PROVE  Inv'
  <2>1. SoundCache(cache')
    BY <1>1, <1>4
  <2>2. \A j, s : Is(cache', j, s) <=> Is(cache, j, s)
    BY <1>4
  <2>3. IteratorsHeld' /\ NoLostWakeUp'
    BY <1>1, <1>2, <1>4, <2>2, SameWork
  <2>4. HandlersKept'
    BY <1>1, <1>4 DEF HandlersKept
  <2>5. Typed'
    BY <1>3, <1>4
  <2> QED BY <2>1, <2>3, <2>4, <2>5 DEF Inv
<1>5. CASE RequestLoaded(i)
  <2>1. /\ Is(cache, i, "LOADED")
        /\ cache' = [cache EXCEPT !.removeQueue = Relocate(@, cache.endOfLoadedItems, i)]
        /\ UNCHANGED <<loader, loading, loaded, wakeUp, handler>>
    BY <1>5 DEF RequestLoaded, TouchLoaded, loaderVars
  <2>2. SoundCache(cache') /\ cache'.items = cache.items /\ Known(cache') = Known(cache)
    BY <1>1, <2>1, TouchSound
  <2>3. \A j, s : Is(cache', j, s) <=> Is(cache, j, s)
    BY <2>2 DEF Is
  <2>4. IteratorsHeld' /\ NoLostWakeUp'
    BY <1>1, <1>2, <2>1, <2>3, SameWork
  <2>5. HandlersKept'
    BY <1>1, <2>1, <2>2, <2>3, SameHandlers
  <2>6. Typed'
    BY <1>3, <2>1
  <2> QED BY <2>2, <2>4, <2>5, <2>6 DEF Inv
<1>6. CASE RequestFailed(i)
  BY <1>4, <1>6 DEF RequestFailed, loaderVars
<1>7. CASE RequestPending(t, i)
  <2>1. /\ Is(cache, i, "QUEUED") \/ Is(cache, i, "IN_PROGRESS")
        /\ cache' = [cache EXCEPT
                       !.items[i].handlers = @ \cup {t},
                       !.loadQueue = IF Is(cache, i, "QUEUED") THEN ToFront(@, i) ELSE @]
        /\ handler' = handler \cup {t}
        /\ UNCHANGED <<loader, loading, loaded, wakeUp>>
    BY <1>7 DEF RequestPending, loaderVars
  <2>2. /\ SoundCache(cache')
        /\ Known(cache') = Known(cache)
        /\ cache'.items[i].handlers = cache.items[i].handlers \cup {t}
        /\ cache'.items[i].status = cache.items[i].status
        /\ \A j \in Known(cache) \ {i} : cache'.items[j] = cache.items[j]
    <3>1. LET d == WithHandler(cache, i, t)
          IN /\ SoundCache(d)
             /\ Known(d) = Known(cache)
             /\ d.items[i].handlers = cache.items[i].handlers \cup {t}
             /\ d.items[i].status = cache.items[i].status
             /\ \A j \in Known(cache) \ {i} : d.items[j] = cache.items[j]
      BY <1>1, <2>1, PendingSound
    <3>2. cache' = WithHandler(cache, i, t)
      BY <2>1 DEF WithHandler
    <3> QED BY <3>1, <3>2
  <2>3. \A j, s : Is(cache', j, s) <=> Is(cache, j, s)
    BY <2>2 DEF Is
  <2>4. IteratorsHeld' /\ NoLostWakeUp'
    BY <1>1, <1>2, <2>1, <2>3, SameWork
  <2>5. HandlersKept'
    <3> SUFFICES ASSUME NEW u \in handler'
                 PROVE  \E s \in {"QUEUED", "IN_PROGRESS"} :
                          Is(cache', ImageOf[u], s) /\ u \in cache'.items[ImageOf[u]].handlers
      BY DEF HandlersKept
    <3>1. CASE u = t
      BY <2>1, <2>2, <2>3, <3>1 DEF i
    <3>2. CASE u # t
      <4>1. PICK s \in {"QUEUED", "IN_PROGRESS"} :
              Is(cache, ImageOf[u], s) /\ u \in cache.items[ImageOf[u]].handlers
        BY <1>1, <2>1, <3>2 DEF HandlersKept
      <4>2. u \in cache'.items[ImageOf[u]].handlers
        BY <2>2, <4>1 DEF Is
      <4> QED BY <2>3, <4>1, <4>2
    <3> QED BY <3>1, <3>2
  <2>6. Typed'
    BY <1>3, <2>1
  <2> QED BY <2>2, <2>4, <2>5, <2>6 DEF Inv
<1>8. CASE RequestNew(t, i)
  <2>1. /\ i \in Images \ Known(cache)
        /\ handler' = handler \cup {t}
        /\ UNCHANGED <<loading, loaded>>
        /\ \/ /\ FirstQueued(cache)
              /\ \/ loader' = "scanning" /\ loader = "unstarted" /\ wakeUp' = wakeUp
                 \/ wakeUp' = TRUE /\ loader' = loader
           \/ ~FirstQueued(cache) /\ UNCHANGED <<loader, wakeUp>>
    BY <1>1, <1>8 DEF RequestNew, WakeLoader, loaderVars
  <2>2. /\ SoundCache(cache')
        /\ Known(cache') = Known(cache) \cup {i}
        /\ Is(cache', i, "QUEUED") /\ cache'.items[i].handlers = {t}
        /\ \A j \in Known(cache) : cache'.items[j] = cache.items[j]
    <3>1. LET d == WithNew(cache, i, t)
          IN /\ SoundCache(d)
             /\ Known(d) = Known(cache) \cup {i}
             /\ Is(d, i, "QUEUED") /\ d.items[i].handlers = {t}
             /\ \A j \in Known(cache) : d.items[j] = cache.items[j]
      BY <1>1, <2>1, NewSound
    <3>2. cache' = WithNew(cache, i, t)
      BY <1>8 DEF RequestNew, EndWithNewItem, WithNew
    <3> QED BY <3>1, <3>2
  <2>3. \A j, s : Is(cache', j, s) <=> Is(cache, j, s) \/ (j = i /\ s = "QUEUED")
    BY <2>1, <2>2 DEF Is
  <2>4. IteratorsHeld'
    <3>1. \A j : Is(cache', j, "IN_PROGRESS") <=> Is(cache, j, "IN_PROGRESS")
      BY <2>3
    <3>2. InStatus(cache', "IN_PROGRESS") = InStatus(cache, "IN_PROGRESS")
      <4>1. \A j, s : (j \in InStatus(cache, s) <=> Is(cache, j, s))
                      /\ (j \in InStatus(cache', s) <=> Is(cache', j, s))
        BY DEF InStatus, Is
      <4> QED BY <3>1, <4>1
    <3>3. loader' \in {"loading", "saving"} <=> loader \in {"loading", "saving"}
      BY <2>1
    <3> QED BY <1>1, <1>2, <2>1, <3>1, <3>2, <3>3 DEF IteratorsHeld, Held
  <2>5. NoLostWakeUp'
    <3>1. CASE FirstQueued(cache)
      BY <2>1, <3>1 DEF NoLostWakeUp
    <3>2. CASE ~FirstQueued(cache)
      <4>1. InStatus(cache, "QUEUED") # {}
        BY <1>1, <3>2, FS_EmptySet DEF SoundCache, Counted, FirstQueued
      <4> QED BY <1>1, <1>2, <2>1, <3>2, <4>1 DEF NoLostWakeUp
    <3> QED BY <3>1, <3>2
  <2>6. HandlersKept'
    <3> SUFFICES ASSUME NEW u \in handler'
                 PROVE  \E s \in {"QUEUED", "IN_PROGRESS"} :
                          Is(cache', ImageOf[u], s) /\ u \in cache'.items[ImageOf[u]].handlers
      BY DEF HandlersKept
    <3>1. CASE u = t
      BY <2>2, <3>1 DEF i
    <3>2. CASE u # t
      <4>1. PICK s \in {"QUEUED", "IN_PROGRESS"} :
              Is(cache, ImageOf[u], s) /\ u \in cache.items[ImageOf[u]].handlers
        BY <1>1, <2>1, <3>2 DEF HandlersKept
      <4>2. u \in cache'.items[ImageOf[u]].handlers
        BY <2>2, <4>1 DEF Is
      <4> QED BY <2>3, <4>1, <4>2
    <3> QED BY <3>1, <3>2
  <2>7. Typed'
    BY <1>3, <2>1
  <2> QED BY <2>2, <2>4, <2>5, <2>6, <2>7 DEF Inv
<1> QED BY <1>2, <1>4, <1>5, <1>6, <1>7, <1>8

\* A load result is processed and its handlers are called.
LEMMA ResultInv ==
  ASSUME Inv, ProcessLoadResult
  PROVE  Inv'
<1> DEFINE e == Head(results)
           i == e.image
           Events == [image : Images, status : Results, pixmap : Pixmaps]
<1>1. SoundCache(cache) /\ Typed /\ IteratorsHeld /\ HandlersKept /\ NoLostWakeUp
  BY DEF Inv
<1>2. /\ cache' = Answered(cache, e)
      /\ Notify(cache.items[i].handlers, e.status)
      /\ results' = Tail(results)
      /\ results # <<>>
      /\ UNCHANGED <<loader, loading, loaded, wakeUp, loadingNow, imageFile, thumbFile,
                     rewriting, shuttingDown, hadOOM, userActions>>
  BY DEF ProcessLoadResult, Answered, loaderVars, fileVars, endVars
<1>3. /\ results \in Seq(Events) /\ Len(results) \in Nat /\ Len(results) > 0
      /\ DOMAIN results = 1..Len(results)
      /\ results' \in Seq(Events)
      /\ DOMAIN results' = 1..(Len(results) - 1)
      /\ \A k \in DOMAIN results' : results'[k] = results[k + 1]
      /\ e = results[1] /\ e \in Events
  <2>1. results \in Seq(Events)
    BY <1>1 DEF Typed
  <2> HIDE DEF Events
  <2> QED BY <1>2, <2>1, HeadTailProperties, EmptySeq, LenProperties, ElementOfSeq
<1> HIDE DEF e
<1>4. /\ e.pixmap \in Pixmaps /\ Is(cache, i, "IN_PROGRESS") /\ i # loading
      /\ \A k \in DOMAIN results : results[k].image = i => k = 1
  <2>1. 1 \in DOMAIN results
    BY <1>3
  <2> QED BY <1>1, <1>3, <2>1 DEF IteratorsHeld
<1>5. /\ SoundCache(cache')
      /\ \A j, s : j # i /\ s # "LOADED" => (Is(cache', j, s) <=> Is(cache, j, s))
      /\ \A j \in Known(cache') \ {i} : cache'.items[j] = cache.items[j]
      /\ ~Is(cache', i, "QUEUED") /\ ~Is(cache', i, "IN_PROGRESS")
  <2>1. LET d == Answered(cache, e)
        IN /\ SoundCache(d)
           /\ \A j, s : j # e.image /\ s # "LOADED" => (Is(d, j, s) <=> Is(cache, j, s))
           /\ \A j \in Known(d) \ {e.image} : d.items[j] = cache.items[j]
           /\ ~Is(d, e.image, "QUEUED") /\ ~Is(d, e.image, "IN_PROGRESS")
    BY <1>1, <1>4, AnswerSound
  <2> QED BY <1>2, <2>1
<1> HIDE DEF i, Events
<1>6. \A j, s : (j \in InStatus(cache, s) <=> Is(cache, j, s))
                /\ (j \in InStatus(cache', s) <=> Is(cache', j, s))
  BY DEF InStatus, Is
<1>7. Typed'
  <2>1. /\ handler' = handler \ cache.items[i].handlers
        /\ blank' \subseteq blank
        /\ needsPaint' \subseteq needsPaint \cup handler
    BY <1>2 DEF Notify
  <2> QED BY <1>1, <1>2, <1>3, <2>1 DEF Typed, Events
<1>8. IteratorsHeld'
  <2>1. loading # None => Is(cache', loading, "IN_PROGRESS")
    BY <1>1, <1>4, <1>5 DEF IteratorsHeld
  <2>2. ASSUME NEW k \in DOMAIN results'
        PROVE  /\ Is(cache', results'[k].image, "IN_PROGRESS")
               /\ results'[k].image # loading
               /\ \A l \in DOMAIN results' : results'[l].image = results'[k].image => l = k
    <3>1. \A l \in DOMAIN results' :
            l + 1 \in DOMAIN results /\ results'[l] = results[l + 1] /\ l + 1 # 1
      BY <1>3
    <3>2. results[k + 1].image # i
      BY <1>4, <3>1
    <3>3. Is(cache', results'[k].image, "IN_PROGRESS")
      BY <1>1, <1>5, <3>1, <3>2 DEF IteratorsHeld
    <3>4. results'[k].image # loading
      BY <1>1, <3>1 DEF IteratorsHeld
    <3>5. ASSUME NEW l \in DOMAIN results', results'[l].image = results'[k].image
          PROVE  l = k
      <4>1. l + 1 = k + 1
        BY <1>1, <3>1, <3>5 DEF IteratorsHeld
      <4> QED BY <1>3, <4>1
    <3> QED BY <3>3, <3>4, <3>5
  <2>3. ASSUME NEW j \in InStatus(cache', "IN_PROGRESS"), ~hadOOM'
        PROVE  Held(j)'
    <3>1. j # i /\ j \in InStatus(cache, "IN_PROGRESS")
      BY <1>5, <1>6
    <3>2. Held(j)
      BY <1>1, <1>2, <2>3, <3>1 DEF IteratorsHeld
    <3>3. CASE loading = j
      BY <1>2, <3>3 DEF Held
    <3>4. CASE loading # j
      <4>1. PICK k \in DOMAIN results : results[k].image = j
        BY <3>2, <3>4 DEF Held
      <4>2. k # 1
        BY <1>3, <3>1, <4>1 DEF i
      <4>3. k - 1 \in DOMAIN results' /\ (k - 1) + 1 = k
        BY <1>3, <4>2
      <4>4. results'[k - 1] = results[k]
        BY <1>3, <4>3
      <4> QED BY <4>1, <4>3, <4>4 DEF Held
    <3> QED BY <3>3, <3>4
  <2>4. loading' # None <=> loader' \in {"loading", "saving"}
    BY <1>1, <1>2 DEF IteratorsHeld
  <2> QED BY <1>2, <2>1, <2>2, <2>3, <2>4 DEF IteratorsHeld
<1>9. HandlersKept'
  <2> SUFFICES ASSUME NEW u \in handler'
               PROVE  \E s \in {"QUEUED", "IN_PROGRESS"} :
                        Is(cache', ImageOf[u], s) /\ u \in cache'.items[ImageOf[u]].handlers
    BY DEF HandlersKept
  <2>1. u \in handler /\ u \notin cache.items[i].handlers
    BY <1>2 DEF Notify
  <2>2. PICK s \in {"QUEUED", "IN_PROGRESS"} :
          Is(cache, ImageOf[u], s) /\ u \in cache.items[ImageOf[u]].handlers
    BY <1>1, <2>1 DEF HandlersKept
  <2>3. ImageOf[u] # i
    BY <2>1, <2>2
  <2>4. Is(cache', ImageOf[u], s)
    BY <1>5, <2>2, <2>3
  <2>5. ImageOf[u] \in Known(cache')
    BY <2>4 DEF Is
  <2> QED BY <1>5, <2>2, <2>3, <2>4, <2>5
<1>10. NoLostWakeUp'
  <2>1. InStatus(cache', "QUEUED") \subseteq InStatus(cache, "QUEUED")
    BY <1>5, <1>6
  <2> QED BY <1>1, <1>2, <2>1 DEF NoLostWakeUp
<1> QED BY <1>5, <1>7, <1>8, <1>9, <1>10 DEF Inv

\* A thumbnail is exposed.
LEMMA ExposeInv ==
  ASSUME Inv, NEW t \in Thumbs, Expose(t)
  PROVE  Inv'
<1>1. /\ SoundCache(cache) /\ Typed /\ IteratorsHeld /\ HandlersKept /\ NoLostWakeUp
      /\ userActions' \in 0..MaxUserActions
      /\ needsPaint' = needsPaint \cup {t}
      /\ UNCHANGED <<cache, loader, loading, loaded, wakeUp, results, loadingNow, handler,
                     blank, imageFile, thumbFile, rewriting, shuttingDown, hadOOM>>
  <2>1. userActions \in 0..MaxUserActions /\ userActions < MaxUserActions
        /\ userActions' = userActions + 1 /\ MaxUserActions \in Nat
    BY CacheAssumption DEF CacheAssumption, Inv, Typed, Expose, UserActs
  <2>2. userActions' \in 0..MaxUserActions
    BY <2>1
  <2> QED BY <2>2 DEF Inv, Expose, UserActs, GuiIdle, loaderVars, fileVars
<1>2. SoundCache(cache') /\ \A j, s : Is(cache', j, s) <=> Is(cache, j, s)
  BY <1>1
<1>3. IteratorsHeld' /\ NoLostWakeUp'
  BY <1>1, <1>2, SameWork
<1>4. HandlersKept'
  BY <1>1 DEF HandlersKept
<1>5. Typed'
  BY <1>1 DEF Typed
<1> QED BY <1>2, <1>3, <1>4, <1>5 DEF Inv

\* A thumbnail object is replaced: the handler goes with the old one.
LEMMA ReplaceInv ==
  ASSUME Inv, NEW t \in Thumbs, ReplaceThumb(t)
  PROVE  Inv'
<1> DEFINE f == [i \in Known(cache) |-> [cache.items[i] EXCEPT !.handlers = @ \ {t}]]
<1>1. /\ SoundCache(cache) /\ Typed /\ IteratorsHeld /\ HandlersKept /\ NoLostWakeUp
      /\ userActions' \in 0..MaxUserActions
      /\ handler' = handler \ {t}
      /\ needsPaint' = needsPaint \cup {t}
      /\ blank' = blank \cup {t}
      /\ cache' = [cache EXCEPT !.items = f]
      /\ UNCHANGED <<loader, loading, loaded, wakeUp, results, loadingNow,
                     imageFile, thumbFile, rewriting, shuttingDown, hadOOM>>
  <2>1. userActions \in 0..MaxUserActions /\ userActions < MaxUserActions
        /\ userActions' = userActions + 1 /\ MaxUserActions \in Nat
    BY CacheAssumption DEF CacheAssumption, Inv, Typed, ReplaceThumb, UserActs
  <2>2. userActions' \in 0..MaxUserActions
    BY <2>1
  <2> QED BY <2>2 DEF Inv, ReplaceThumb, UserActs, GuiIdle, loaderVars, fileVars
<1>2. \A i \in Known(cache) : /\ f[i] \in Item /\ f[i].status = cache.items[i].status
                              /\ f[i].handlers = cache.items[i].handlers \ {t}
  <2> SUFFICES ASSUME NEW i \in Known(cache)
               PROVE  /\ f[i] \in Item /\ f[i].status = cache.items[i].status
                      /\ f[i].handlers = cache.items[i].handlers \ {t}
    OBVIOUS
  <2>1. cache.items[i] \in Item
    BY <1>1, CacheFacts
  <2>2. f[i] = [cache.items[i] EXCEPT !.handlers = @ \ {t}]
    OBVIOUS
  <2> HIDE DEF f
  <2> QED BY <2>1, <2>2 DEF Item
<1>3. f \in [Known(cache) -> Item]
  BY <1>2
<1> HIDE DEF f
<1>4. SoundCache(cache') /\ cache'.items = f /\ Known(cache') = Known(cache)
  <2>1. LET d == [cache EXCEPT !.items = f]
        IN SoundCache(d) /\ d.items = f /\ Known(d) = Known(cache)
    BY <1>1, <1>2, <1>3, EveryItemSound
  <2> QED BY <1>1, <2>1
<1>5. \A j, s : Is(cache', j, s) <=> Is(cache, j, s)
  BY <1>2, <1>4 DEF Is
<1>6. IteratorsHeld' /\ NoLostWakeUp'
  BY <1>1, <1>5, SameWork
<1>7. HandlersKept'
  <2> SUFFICES ASSUME NEW u \in handler'
               PROVE  \E s \in {"QUEUED", "IN_PROGRESS"} :
                        Is(cache', ImageOf[u], s) /\ u \in cache'.items[ImageOf[u]].handlers
    BY DEF HandlersKept
  <2>1. u # t /\ u \in handler
    BY <1>1
  <2>2. PICK s \in {"QUEUED", "IN_PROGRESS"} :
          Is(cache, ImageOf[u], s) /\ u \in cache.items[ImageOf[u]].handlers
    BY <1>1, <2>1 DEF HandlersKept
  <2>3. ImageOf[u] \in Known(cache)
    BY <2>2 DEF Is
  <2>4. u \in cache'.items[ImageOf[u]].handlers
    BY <1>2, <1>4, <2>1, <2>2, <2>3
  <2> QED BY <1>5, <2>2, <2>4
<1>8. Typed'
  BY <1>1 DEF Typed
<1> QED BY <1>4, <1>6, <1>7, <1>8 DEF Inv

\* The thumbnail directory changes: all requests expire.
LEMMA SetThumbDirInv ==
  ASSUME Inv, SetThumbDir
  PROVE  Inv'
<1> DEFINE f == [i \in Known(cache) |->
                   [cache.items[i] EXCEPT !.age = ExpirationThreshold + 1]]
<1>1. /\ SoundCache(cache) /\ Typed /\ IteratorsHeld /\ HandlersKept /\ NoLostWakeUp
      /\ userActions' \in 0..MaxUserActions
      /\ cache' = [cache EXCEPT !.items = f]
      /\ UNCHANGED <<loader, loading, loaded, wakeUp, results, loadingNow, handler,
                     needsPaint, blank, imageFile, thumbFile, rewriting, shuttingDown,
                     hadOOM>>
  <2>1. userActions \in 0..MaxUserActions /\ userActions < MaxUserActions
        /\ userActions' = userActions + 1 /\ MaxUserActions \in Nat
    BY CacheAssumption DEF CacheAssumption, Inv, Typed, SetThumbDir, UserActs
  <2>2. userActions' \in 0..MaxUserActions
    BY <2>1
  <2> QED BY <2>2 DEF Inv, SetThumbDir, AllExpired, UserActs, GuiIdle, loaderVars,
                       thumbVars, fileVars
<1>2. \A i \in Known(cache) : /\ f[i] \in Item /\ f[i].status = cache.items[i].status
                              /\ f[i].handlers = cache.items[i].handlers
  <2> SUFFICES ASSUME NEW i \in Known(cache)
               PROVE  /\ f[i] \in Item /\ f[i].status = cache.items[i].status
                      /\ f[i].handlers = cache.items[i].handlers
    OBVIOUS
  <2>1. cache.items[i] \in Item
    BY <1>1, CacheFacts
  <2>2. f[i] = [cache.items[i] EXCEPT !.age = ExpirationThreshold + 1]
    OBVIOUS
  <2>3. ExpirationThreshold + 1 \in 0..(ExpirationThreshold + 1)
    BY CacheAssumption DEF CacheAssumption
  <2> HIDE DEF f
  <2> QED BY <2>1, <2>2, <2>3 DEF Item
<1>3. f \in [Known(cache) -> Item]
  BY <1>2
<1> HIDE DEF f
<1>4. SoundCache(cache') /\ cache'.items = f /\ Known(cache') = Known(cache)
  <2>1. LET d == [cache EXCEPT !.items = f]
        IN SoundCache(d) /\ d.items = f /\ Known(d) = Known(cache)
    BY <1>1, <1>2, <1>3, EveryItemSound
  <2> QED BY <1>1, <2>1
<1>5. \A j, s : Is(cache', j, s) <=> Is(cache, j, s)
  BY <1>2, <1>4 DEF Is
<1>6. IteratorsHeld' /\ NoLostWakeUp'
  BY <1>1, <1>5, SameWork
<1>7. HandlersKept'
  <2>1. \A j, s : Is(cache, j, s) => cache'.items[j].handlers = cache.items[j].handlers
    BY <1>2, <1>4 DEF Is
  <2> QED BY <1>1, <1>5, <2>1, SameHandlers
<1>8. Typed'
  BY <1>1 DEF Typed
<1> QED BY <1>4, <1>6, <1>7, <1>8 DEF Inv

\* The destructor starts.
LEMMA ShutdownInv ==
  ASSUME Inv, Shutdown
  PROVE  Inv'
<1>1. /\ SoundCache(cache) /\ Typed /\ IteratorsHeld /\ HandlersKept /\ NoLostWakeUp
      /\ shuttingDown' = TRUE
      /\ UNCHANGED <<cache, loader, loading, loaded, wakeUp, results, loadingNow, handler,
                     needsPaint, blank, imageFile, thumbFile, rewriting, hadOOM,
                     userActions>>
  BY DEF Inv, Shutdown, loaderVars, thumbVars, fileVars
<1>2. SoundCache(cache')
  BY <1>1
<1>3. IteratorsHeld'
  BY <1>1 DEF IteratorsHeld, InStatus, Held
<1>4. HandlersKept' /\ NoLostWakeUp'
  BY <1>1 DEF HandlersKept, NoLostWakeUp
<1>5. Typed'
  BY <1>1 DEF Typed
<1> QED BY <1>2, <1>3, <1>4, <1>5 DEF Inv
-----------------------------------------------------------------------------
(* The loader thread.                                                      *)

\* It goes to rest, is woken up, or finishes: what it holds does not change.
LEMMA LoaderTurnsInv ==
  ASSUME Inv, LoaderRests \/ LoaderWakes \/ LoaderFinishes
  PROVE  Inv'
<1>1. /\ SoundCache(cache) /\ Typed /\ IteratorsHeld /\ HandlersKept /\ NoLostWakeUp
      /\ UNCHANGED <<cache, loading, loaded, results, loadingNow, handler,
                     needsPaint, blank, imageFile, thumbFile, rewriting, shuttingDown,
                     hadOOM, userActions>>
      /\ loader \in {"scanning", "resting"}
      /\ loader' \in {"resting", "scanning", "finished"}
      /\ wakeUp' \in {FALSE, wakeUp}
  BY DEF Inv, LoaderRests, LoaderWakes, LoaderFinishes, QuitReceived, thumbVars,
         fileVars, endVars
<1>2. SoundCache(cache')
  BY <1>1
<1>3. IteratorsHeld'
  BY <1>1 DEF IteratorsHeld, InStatus, Held
<1>4. HandlersKept'
  BY <1>1 DEF HandlersKept
<1>5. NoLostWakeUp'
  <2>1. CASE LoaderRests /\ ~shuttingDown
    <3>1. InStatus(cache, "QUEUED") = {}
      <4> SUFFICES ASSUME NEW j \in InStatus(cache, "QUEUED") PROVE FALSE
        OBVIOUS
      <4> DEFINE h == Head(cache.loadQueue)
      <4>1. j \in Known(cache) /\ Is(cache, j, "QUEUED")
        BY DEF InStatus, Is
      <4>2. Perm(cache.loadQueue, Known(cache)) /\ QueuedAhead(cache)
        BY <1>1 DEF SoundCache, Ordered
      <4>3. cache.loadQueue # <<>>
        <5>1. \A y \in Known(cache) : \E k \in DOMAIN cache.loadQueue : cache.loadQueue[k] = y
          BY <4>2, PermFacts
        <5> QED BY <4>1, <5>1
      <4>4. h \in Known(cache) /\ \A y \in Known(cache) \ {h} : Before(cache.loadQueue, h, y)
        BY <4>2, <4>3, HeadOrder
      <4>5. ~Is(cache, h, "QUEUED")
        BY <2>1, <4>3 DEF LoaderRests
      <4> HIDE DEF h
      <4> QED BY <4>1, <4>2, <4>4, <4>5 DEF QueuedAhead
    <3> QED BY <1>1, <3>1 DEF NoLostWakeUp
  <2>2. CASE shuttingDown
    BY <1>1, <2>2 DEF NoLostWakeUp
  <2>3. CASE LoaderWakes
    BY <1>1, <2>3 DEF NoLostWakeUp, LoaderWakes
  <2> QED BY <2>1, <2>2, <2>3 DEF LoaderFinishes, QuitReceived
<1>6. Typed'
  <2>1. wakeUp' \in BOOLEAN
    BY <1>1 DEF Typed
  <2> QED BY <1>1, <2>1 DEF Typed
<1> QED BY <1>2, <1>3, <1>4, <1>5, <1>6 DEF Inv

\* It finds a request expired, and posts that.
LEMMA LoaderExpiresInv ==
  ASSUME Inv, LoaderExpires
  PROVE  Inv'
<1> DEFINE Events == [image : Images, status : Results, pixmap : Pixmaps]
<1>1. PICK i \in Known(cache) :
        /\ LoaderTakes(i)
        /\ cache' = QueuedToInProgress(cache, i)
        /\ results' = Append(results, Event(i, "REQUEST_EXPIRED", NoPixmap))
        /\ UNCHANGED <<loader, loading, loaded, wakeUp, loadingNow, handler,
                       needsPaint, blank, imageFile, thumbFile, rewriting, shuttingDown,
                       hadOOM, userActions>>
  BY DEF LoaderExpires, loaderVars, thumbVars, fileVars, endVars
<1>2. /\ SoundCache(cache) /\ Typed /\ IteratorsHeld /\ HandlersKept /\ NoLostWakeUp
      /\ Is(cache, i, "QUEUED") /\ loader = "scanning" /\ i \in Images
  BY <1>1, CacheFacts DEF Inv, LoaderTakes
<1>3. /\ SoundCache(cache')
      /\ Known(cache') = Known(cache)
      /\ Is(cache', i, "IN_PROGRESS")
      /\ cache'.items[i].handlers = cache.items[i].handlers
      /\ \A j \in Known(cache) \ {i} : cache'.items[j] = cache.items[j]
  <2>1. LET d == QueuedToInProgress(cache, i)
        IN /\ SoundCache(d)
           /\ Known(d) = Known(cache)
           /\ Is(d, i, "IN_PROGRESS")
           /\ d.items[i].handlers = cache.items[i].handlers
           /\ \A j \in Known(cache) \ {i} : d.items[j] = cache.items[j]
    BY <1>2, TakeSound
  <2> QED BY <1>1, <2>1
<1> DEFINE e == Event(i, "REQUEST_EXPIRED", NoPixmap)
<1>4. e \in Events /\ e.image = i
  BY <1>2 DEF Event, Results, Pixmaps
<1> HIDE DEF e
<1>5. /\ results' \in Seq(Events)
      /\ Len(results) \in Nat
      /\ DOMAIN results = 1..Len(results) /\ DOMAIN results' = 1..(Len(results) + 1)
      /\ \A k \in DOMAIN results : results'[k] = results[k]
      /\ results'[Len(results) + 1] = e
  <2>1. results \in Seq(Events)
    BY <1>2 DEF Typed
  <2>2. results' = Append(results, e)
    BY <1>1 DEF e
  <2> HIDE DEF Events
  <2> QED BY <1>4, <2>1, <2>2, PostedLast
<1>6. \A j, s : j # i => (Is(cache', j, s) <=> Is(cache, j, s))
  BY <1>3 DEF Is
<1>7. ~Is(cache, i, "IN_PROGRESS") /\ loading = None
  BY <1>2 DEF Is, IteratorsHeld
<1>8. \A j, s : (j \in InStatus(cache, s) <=> Is(cache, j, s))
                /\ (j \in InStatus(cache', s) <=> Is(cache', j, s))
  BY DEF InStatus, Is
<1>9. IteratorsHeld'
  <2>1. ASSUME NEW k \in DOMAIN results'
        PROVE  /\ Is(cache', results'[k].image, "IN_PROGRESS")
               /\ results'[k].image # None
               /\ \A l \in DOMAIN results' : results'[l].image = results'[k].image => l = k
    <3>1. \A l \in DOMAIN results :
            /\ Is(cache, results[l].image, "IN_PROGRESS") /\ results[l].image # i
            /\ \A m \in DOMAIN results : results[m].image = results[l].image => m = l
      BY <1>2, <1>7 DEF IteratorsHeld
    <3>2. \A l \in DOMAIN results' : l \in DOMAIN results \/ l = Len(results) + 1
      BY <1>5
    <3>3. Is(cache', results'[k].image, "IN_PROGRESS")
      BY <1>3, <1>4, <1>5, <1>6, <3>1, <3>2
    <3>4. results'[k].image # None
      BY <1>3, <3>3, CacheFacts DEF Is
    <3>5. \A l \in DOMAIN results' : results'[l].image = results'[k].image => l = k
      BY <1>4, <1>5, <3>1, <3>2
    <3> QED BY <3>3, <3>4, <3>5
  <2>2. ASSUME NEW j \in InStatus(cache', "IN_PROGRESS"), ~hadOOM
        PROVE  Held(j)'
    <3>1. CASE j = i
      <4>1. Len(results) + 1 \in DOMAIN results' /\ results'[Len(results) + 1].image = i
        BY <1>4, <1>5
      <4> QED BY <3>1, <4>1 DEF Held
    <3>2. CASE j # i
      <4>1. PICK k \in DOMAIN results : results[k].image = j
        BY <1>2, <1>6, <1>7, <1>8, <2>2, <3>2, CacheFacts DEF IteratorsHeld, Held, Is
      <4>2. k \in DOMAIN results' /\ results'[k].image = j
        BY <1>5, <4>1
      <4> QED BY <4>2 DEF Held
    <3> QED BY <3>1, <3>2
  <2> QED BY <1>1, <1>2, <1>7, <2>1, <2>2 DEF IteratorsHeld
<1>10. HandlersKept'
  <2> SUFFICES ASSUME NEW u \in handler'
               PROVE  \E s \in {"QUEUED", "IN_PROGRESS"} :
                        Is(cache', ImageOf[u], s) /\ u \in cache'.items[ImageOf[u]].handlers
    BY DEF HandlersKept
  <2>1. PICK s \in {"QUEUED", "IN_PROGRESS"} :
          Is(cache, ImageOf[u], s) /\ u \in cache.items[ImageOf[u]].handlers
    BY <1>1, <1>2 DEF HandlersKept
  <2>2. u \in cache'.items[ImageOf[u]].handlers
    BY <1>3, <2>1 DEF Is
  <2>3. ImageOf[u] # i => Is(cache', ImageOf[u], s)
    BY <1>6, <2>1
  <2> QED BY <1>3, <2>2, <2>3
<1>11. NoLostWakeUp'
  BY <1>1, <1>2 DEF NoLostWakeUp
<1>12. Typed'
  BY <1>1, <1>2, <1>5 DEF Typed
<1> QED BY <1>3, <1>9, <1>10, <1>11, <1>12 DEF Inv

\* It takes a request up; every other gets older.
LEMMA LoaderBeginsInv ==
  ASSUME Inv, LoaderBegins
  PROVE  Inv'
<1>1. PICK i \in Known(cache) :
        /\ LoaderTakes(i)
        /\ cache' = Older(QueuedToInProgress(cache, i))
        /\ loader' = "loading"
        /\ loading' = i
        /\ UNCHANGED <<loaded, wakeUp, results, loadingNow, handler,
                       needsPaint, blank, imageFile, thumbFile, rewriting, shuttingDown,
                       hadOOM, userActions>>
  BY DEF LoaderBegins, thumbVars, fileVars, endVars
<1>2. /\ SoundCache(cache) /\ Typed /\ IteratorsHeld /\ HandlersKept /\ NoLostWakeUp
      /\ Is(cache, i, "QUEUED") /\ loader = "scanning" /\ i \in Images /\ i # None
  BY <1>1, CacheFacts DEF Inv, LoaderTakes
<1> DEFINE m == QueuedToInProgress(cache, i)
           f == [j \in Known(m) |->
                   [m.items[j] EXCEPT !.age = IF @ > ExpirationThreshold THEN @ ELSE @ + 1]]
<1>3. /\ SoundCache(m)
      /\ Known(m) = Known(cache)
      /\ Is(m, i, "IN_PROGRESS")
      /\ m.items[i].handlers = cache.items[i].handlers
      /\ \A j \in Known(cache) \ {i} : m.items[j] = cache.items[j]
  <2>1. LET d == QueuedToInProgress(cache, i)
        IN /\ SoundCache(d)
           /\ Known(d) = Known(cache)
           /\ Is(d, i, "IN_PROGRESS")
           /\ d.items[i].handlers = cache.items[i].handlers
           /\ \A j \in Known(cache) \ {i} : d.items[j] = cache.items[j]
    BY <1>2, TakeSound
  <2> QED BY <2>1
<1>4. cache' = [m EXCEPT !.items = f]
  BY <1>1 DEF Older
<1> HIDE DEF m
<1>5. \A j \in Known(m) : /\ f[j] \in Item /\ f[j].status = m.items[j].status
                          /\ f[j].handlers = m.items[j].handlers
  <2> SUFFICES ASSUME NEW j \in Known(m)
               PROVE  /\ f[j] \in Item /\ f[j].status = m.items[j].status
                      /\ f[j].handlers = m.items[j].handlers
    OBVIOUS
  <2> DEFINE old == m.items[j]
             age == IF old.age > ExpirationThreshold THEN old.age ELSE old.age + 1
  <2>1. old \in Item
    BY <1>3, CacheFacts
  <2>2. f[j] = [old EXCEPT !.age = age]
    OBVIOUS
  <2>3. age \in 0..(ExpirationThreshold + 1)
    <3>1. old.age \in 0..(ExpirationThreshold + 1)
      BY <2>1 DEF Item
    <3> HIDE DEF old
    <3> QED BY <3>1, CacheAssumption DEF CacheAssumption
  <2> HIDE DEF f, old, age
  <2>4. f[j] \in Item /\ f[j].status = old.status /\ f[j].handlers = old.handlers
    BY <2>1, <2>2, <2>3 DEF Item
  <2> QED BY <2>4 DEF old
<1>6. f \in [Known(m) -> Item]
  BY <1>5
<1> HIDE DEF f
<1>7. SoundCache(cache') /\ cache'.items = f /\ Known(cache') = Known(m)
  <2>1. LET d == [m EXCEPT !.items = f]
        IN SoundCache(d) /\ d.items = f /\ Known(d) = Known(m)
    BY <1>3, <1>5, <1>6, EveryItemSound
  <2> QED BY <1>4, <2>1
<1>8. \A j, s : j # i => (Is(cache', j, s) <=> Is(cache, j, s))
  BY <1>3, <1>5, <1>7 DEF Is
<1>9. Is(cache', i, "IN_PROGRESS")
  BY <1>3, <1>5, <1>7 DEF Is
<1>10. \A j \in Known(cache) : cache'.items[j].handlers = cache.items[j].handlers
  BY <1>3, <1>5, <1>7
<1>11. ~Is(cache, i, "IN_PROGRESS") /\ loading = None
  BY <1>2 DEF Is, IteratorsHeld
<1>12. \A j, s : (j \in InStatus(cache, s) <=> Is(cache, j, s))
                 /\ (j \in InStatus(cache', s) <=> Is(cache', j, s))
  BY DEF InStatus, Is
<1>13. IteratorsHeld'
  <2>1. \A k \in DOMAIN results : /\ Is(cache, results[k].image, "IN_PROGRESS")
                                  /\ results[k].image # i
    BY <1>2, <1>11 DEF IteratorsHeld
  <2>2. \A k \in DOMAIN results : Is(cache', results[k].image, "IN_PROGRESS")
    BY <1>8, <2>1
  <2>3. ASSUME NEW j \in InStatus(cache', "IN_PROGRESS"), ~hadOOM
        PROVE  Held(j)'
    <3>1. CASE j = i
      BY <1>1, <3>1 DEF Held
    <3>2. CASE j # i
      <4>1. PICK k \in DOMAIN results : results[k].image = j
        BY <1>2, <1>8, <1>11, <1>12, <2>3, <3>2, CacheFacts DEF IteratorsHeld, Held, Is
      <4> QED BY <1>1, <4>1 DEF Held
    <3> QED BY <3>1, <3>2
  <2> QED BY <1>1, <1>2, <1>9, <2>1, <2>2, <2>3 DEF IteratorsHeld
<1>14. HandlersKept'
  <2> SUFFICES ASSUME NEW u \in handler'
               PROVE  \E s \in {"QUEUED", "IN_PROGRESS"} :
                        Is(cache', ImageOf[u], s) /\ u \in cache'.items[ImageOf[u]].handlers
    BY DEF HandlersKept
  <2>1. PICK s \in {"QUEUED", "IN_PROGRESS"} :
          Is(cache, ImageOf[u], s) /\ u \in cache.items[ImageOf[u]].handlers
    BY <1>1, <1>2 DEF HandlersKept
  <2>2. u \in cache'.items[ImageOf[u]].handlers
    BY <1>10, <2>1 DEF Is
  <2>3. ImageOf[u] # i => Is(cache', ImageOf[u], s)
    BY <1>8, <2>1
  <2> QED BY <1>9, <2>2, <2>3
<1>15. NoLostWakeUp'
  BY <1>1 DEF NoLostWakeUp
<1>16. Typed'
  BY <1>1, <1>2 DEF Typed
<1> QED BY <1>7, <1>13, <1>14, <1>15, <1>16 DEF Inv

\* It gives its iterator away with the result it posts.
LEMMA PostsHeld ==
  ASSUME Inv, loader \in {"loading", "saving"}, NEW s \in Results, NEW v \in Pixmaps,
         LoaderPosts(s, v), UNCHANGED <<cache, hadOOM>>
  PROVE  /\ IteratorsHeld'
         /\ results' \in Seq([image : Images, status : Results, pixmap : Pixmaps])
<1> DEFINE Events == [image : Images, status : Results, pixmap : Pixmaps]
           e == Event(loading, s, v)
<1>1. /\ SoundCache(cache) /\ Typed /\ IteratorsHeld
      /\ loading \in Images /\ loading # None
      /\ loader' = "scanning" /\ loading' = None
      /\ results' = Append(results, e)
  BY DEF Inv, IteratorsHeld, Typed, LoaderPosts
<1>2. e \in Events /\ e.image = loading
  BY <1>1 DEF Event
<1> HIDE DEF e
<1>3. /\ results' \in Seq(Events)
      /\ Len(results) \in Nat
      /\ DOMAIN results = 1..Len(results) /\ DOMAIN results' = 1..(Len(results) + 1)
      /\ \A k \in DOMAIN results : results'[k] = results[k]
      /\ results'[Len(results) + 1] = e
  <2>1. results \in Seq(Events)
    BY <1>1 DEF Typed
  <2> HIDE DEF Events
  <2> QED BY <1>1, <1>2, <2>1, PostedLast
<1>4. ASSUME NEW k \in DOMAIN results'
      PROVE  /\ Is(cache, results'[k].image, "IN_PROGRESS")
             /\ results'[k].image # None
             /\ \A l \in DOMAIN results' : results'[l].image = results'[k].image => l = k
  <2>1. \A l \in DOMAIN results :
          /\ Is(cache, results[l].image, "IN_PROGRESS") /\ results[l].image # loading
          /\ \A m \in DOMAIN results : results[m].image = results[l].image => m = l
    BY <1>1 DEF IteratorsHeld
  <2>2. \A l \in DOMAIN results' : l \in DOMAIN results \/ l = Len(results) + 1
    BY <1>3
  <2>3. Is(cache, loading, "IN_PROGRESS")
    BY <1>1 DEF IteratorsHeld
  <2>4. Is(cache, results'[k].image, "IN_PROGRESS")
    BY <1>2, <1>3, <2>1, <2>2, <2>3
  <2>5. results'[k].image # None
    BY <1>1, <2>4, CacheFacts DEF Is
  <2>6. \A l \in DOMAIN results' : results'[l].image = results'[k].image => l = k
    BY <1>2, <1>3, <2>1, <2>2
  <2> QED BY <2>4, <2>5, <2>6
<1>5. ASSUME NEW j \in InStatus(cache, "IN_PROGRESS"), ~hadOOM
      PROVE  Held(j)'
  <2>1. CASE j = loading
    <3>1. Len(results) + 1 \in DOMAIN results' /\ results'[Len(results) + 1].image = j
      BY <1>2, <1>3, <2>1
    <3> QED BY <3>1 DEF Held
  <2>2. CASE j # loading
    <3>1. PICK k \in DOMAIN results : results[k].image = j
      BY <1>1, <1>5, <2>2 DEF IteratorsHeld, Held
    <3>2. k \in DOMAIN results' /\ results'[k].image = j
      BY <1>3, <3>1
    <3> QED BY <3>2 DEF Held
  <2> QED BY <2>1, <2>2
<1>6. InStatus(cache', "IN_PROGRESS") = InStatus(cache, "IN_PROGRESS")
  OBVIOUS
<1>7. IteratorsHeld'
  BY <1>1, <1>4, <1>5, <1>6 DEF IteratorsHeld
<1> QED BY <1>3, <1>7

\* It has read a thumbnail or an image, or found none.
LEMMA LoaderReadsInv ==
  ASSUME Inv, LoaderReads
  PROVE  Inv'
<1>1. /\ SoundCache(cache) /\ Typed /\ IteratorsHeld /\ HandlersKept /\ NoLostWakeUp
      /\ loader = "loading"
      /\ UNCHANGED <<cache, wakeUp, loadingNow, handler, needsPaint, blank, imageFile,
                     thumbFile, rewriting, shuttingDown, hadOOM, userActions>>
      /\ loading \in Images
  BY DEF Inv, LoaderReads, IteratorsHeld, Typed, thumbVars, fileVars, endVars
<1>2. SoundCache(cache')
  BY <1>1
<1>3. HandlersKept'
  BY <1>1 DEF HandlersKept
<1>4. /\ thumbFile[loading] \in Versions /\ imageFile[loading] \in Versions
      /\ 0 \in Versions /\ Versions \subseteq Pixmaps
  <2>1. 0 \in Versions
    BY CacheAssumption DEF CacheAssumption, Versions
  <2> QED BY <1>1, <2>1 DEF Typed, Pixmaps
<1>5. CASE \E s \in Results, v \in Pixmaps : LoaderPosts(s, v)
  <2>1. PICK s \in Results, v \in Pixmaps : LoaderPosts(s, v)
    BY <1>5
  <2>2. /\ IteratorsHeld'
        /\ results' \in Seq([image : Images, status : Results, pixmap : Pixmaps])
    BY <1>1, <2>1, PostsHeld
  <2>3. loader' = "scanning" /\ loading' = None /\ loaded' = 0
    BY <2>1 DEF LoaderPosts
  <2>4. Typed' /\ NoLostWakeUp'
    BY <1>1, <1>4, <2>2, <2>3 DEF Typed, NoLostWakeUp
  <2> QED BY <1>2, <1>3, <2>2, <2>4 DEF Inv
<1>6. CASE /\ loader' = "saving"
           /\ loaded' = imageFile[loading]
           /\ UNCHANGED <<loading, results>>
  <2>1. IteratorsHeld'
    BY <1>1, <1>6 DEF IteratorsHeld, InStatus, Held
  <2>2. Typed' /\ NoLostWakeUp'
    BY <1>1, <1>4, <1>6 DEF Typed, NoLostWakeUp
  <2> QED BY <1>2, <1>3, <2>1, <2>2 DEF Inv
<1>7. "LOADED" \in Results /\ "LOAD_FAILED" \in Results
  BY DEF Results
<1> QED BY <1>4, <1>5, <1>6, <1>7 DEF LoaderReads

\* It has saved the thumbnail of the image it read, or failed to.
LEMMA LoaderSavesInv ==
  ASSUME Inv, LoaderSaves
  PROVE  Inv'
<1>1. /\ SoundCache(cache) /\ Typed /\ IteratorsHeld /\ HandlersKept /\ NoLostWakeUp
      /\ loader = "saving" /\ LoaderPosts("LOADED", loaded) /\ SaveThumb(loading, loaded)
      /\ UNCHANGED <<cache, wakeUp, loadingNow, handler, needsPaint, blank, imageFile,
                     rewriting, shuttingDown, hadOOM, userActions>>
      /\ loading \in Images /\ loaded \in Versions
  BY DEF Inv, LoaderSaves, IteratorsHeld, Typed, thumbVars, endVars
<1>2. SoundCache(cache') /\ HandlersKept'
  BY <1>1 DEF HandlersKept
<1>3. "LOADED" \in Results /\ loaded \in Pixmaps
  BY <1>1 DEF Results, Pixmaps
<1>4. /\ IteratorsHeld'
      /\ results' \in Seq([image : Images, status : Results, pixmap : Pixmaps])
  BY <1>1, <1>3, PostsHeld
<1>5. thumbFile' \in [Images -> Versions]
  BY <1>1, SaveTyped DEF Typed
<1>6. loader' = "scanning" /\ loading' = None /\ loaded' \in Versions
  BY <1>1, CacheAssumption DEF CacheAssumption, LoaderPosts, Versions
<1>7. Typed' /\ NoLostWakeUp'
  BY <1>1, <1>4, <1>5, <1>6 DEF Typed, NoLostWakeUp
<1> QED BY <1>2, <1>4, <1>7 DEF Inv

\* Memory runs out: the item in its hands stays IN_PROGRESS for good.
LEMMA LoaderRunsOutOfMemoryInv ==
  ASSUME Inv, LoaderRunsOutOfMemory
  PROVE  Inv'
<1>1. /\ SoundCache(cache) /\ Typed /\ IteratorsHeld /\ HandlersKept /\ NoLostWakeUp
      /\ loader' = "scanning" /\ loading' = None /\ loaded' = 0 /\ hadOOM' = TRUE
      /\ UNCHANGED <<cache, wakeUp, results, loadingNow, handler, needsPaint, blank,
                     imageFile, thumbFile, rewriting, shuttingDown, userActions>>
  BY DEF Inv, LoaderRunsOutOfMemory, thumbVars, fileVars
<1>2. SoundCache(cache') /\ HandlersKept' /\ NoLostWakeUp'
  BY <1>1 DEF HandlersKept, NoLostWakeUp
<1>3. IteratorsHeld'
  <2>1. \A k \in DOMAIN results : results[k].image # None
    BY <1>1, CacheFacts DEF IteratorsHeld, Is
  <2> QED BY <1>1, <2>1 DEF IteratorsHeld
<1>4. Typed'
  <2>1. 0 \in Versions
    BY CacheAssumption DEF CacheAssumption, Versions
  <2> QED BY <1>1, <2>1 DEF Typed
<1> QED BY <1>2, <1>3, <1>4 DEF Inv
-----------------------------------------------------------------------------
(* Worker threads.                                                         *)

\* Files are written: what the mutex protects does not change.
LEMMA WritesInv ==
  ASSUME Inv,
         \/ \E i \in Images : EnsureThumbnailExists(i)
         \/ \E w \in Workers : RewriteThumb(w) \/ \E i \in Outputs : WriteOutput(w, i)
  PROVE  Inv'
<1>1. /\ SoundCache(cache) /\ Typed /\ IteratorsHeld /\ HandlersKept /\ NoLostWakeUp
      /\ UNCHANGED <<cache, loader, loading, loaded, wakeUp, results, loadingNow, handler,
                     needsPaint, blank, shuttingDown, hadOOM, userActions>>
  BY DEF Inv, EnsureThumbnailExists, RewriteThumb, WriteOutput, loaderVars, thumbVars,
         endVars
<1>2. SoundCache(cache') /\ HandlersKept'
  BY <1>1 DEF HandlersKept
<1>3. IteratorsHeld' /\ NoLostWakeUp'
  <2>1. \A j, s : Is(cache', j, s) <=> Is(cache, j, s)
    BY <1>1
  <2> QED BY <1>1, <2>1, SameWork
<1> DEFINE Work == [image : Images \cup {None}, version : Versions,
                    step : {"idle", "write", "drop"}]
<1>4. /\ imageFile' \in [Images -> Versions] /\ thumbFile' \in [Images -> Versions]
      /\ rewriting' \in [Workers -> Work]
      /\ \A w \in Workers : rewriting'[w].step # "idle" => rewriting'[w].image \in Images
  <2>1. /\ imageFile \in [Images -> Versions] /\ thumbFile \in [Images -> Versions]
        /\ rewriting \in [Workers -> Work]
        /\ \A w \in Workers : rewriting[w].step # "idle" => rewriting[w].image \in Images
        /\ Outputs \subseteq Images /\ MaxVersion \in Nat
    BY <1>1, CacheAssumption DEF CacheAssumption, Typed
  <2>2. NotRewriting \in Work /\ NotRewriting.step = "idle"
    BY <2>1 DEF NotRewriting, Versions
  <2>3. CASE \E i \in Images : EnsureThumbnailExists(i)
    <3>1. PICK i \in Images : SaveThumb(i, imageFile[i])
      BY <2>3 DEF EnsureThumbnailExists
    <3>2. UNCHANGED <<imageFile, rewriting>>
      BY <2>3 DEF EnsureThumbnailExists
    <3>3. imageFile[i] \in Versions
      BY <2>1
    <3>4. thumbFile' \in [Images -> Versions]
      BY <2>1, <3>1, <3>3, SaveTyped
    <3> QED BY <2>1, <3>2, <3>4
  <2>4. ASSUME NEW w \in Workers, RewriteThumb(w)
        PROVE  /\ imageFile' \in [Images -> Versions] /\ thumbFile' \in [Images -> Versions]
               /\ rewriting' \in [Workers -> Work]
               /\ \A v \in Workers : rewriting'[v].step # "idle" => rewriting'[v].image \in Images
    <3> DEFINE r == rewriting[w]
    <3>1. /\ r \in Work /\ r.step = "write" /\ imageFile' = imageFile
          /\ \/ /\ thumbFile' = [thumbFile EXCEPT ![r.image] = r.version]
                /\ rewriting' = [rewriting EXCEPT ![w] = [r EXCEPT !.step = "drop"]]
             \/ /\ rewriting' = [rewriting EXCEPT ![w] = NotRewriting]
                /\ thumbFile' = thumbFile
      BY <2>1, <2>4 DEF RewriteThumb
    <3>2. r.image \in Images /\ r.version \in Versions
      BY <2>1, <3>1
    <3>3. [r EXCEPT !.step = "drop"] \in Work /\ [r EXCEPT !.step = "drop"].image = r.image
      BY <3>1
    <3> HIDE DEF r, Work
    <3> QED BY <2>1, <2>2, <3>1, <3>2, <3>3
  <2>5. ASSUME NEW w \in Workers, NEW i \in Outputs, WriteOutput(w, i)
        PROVE  /\ imageFile' \in [Images -> Versions] /\ thumbFile' \in [Images -> Versions]
               /\ rewriting' \in [Workers -> Work]
               /\ \A v \in Workers : rewriting'[v].step # "idle" => rewriting'[v].image \in Images
    <3> DEFINE r == [image |-> i, version |-> imageFile[i] + 1, step |-> "write"]
    <3>1. /\ imageFile[i] < MaxVersion
          /\ imageFile' = [imageFile EXCEPT ![i] = imageFile[i] + 1]
          /\ rewriting' = [rewriting EXCEPT ![w] = r]
          /\ thumbFile' = thumbFile
      BY <2>5 DEF WriteOutput
    <3>2. i \in Images /\ imageFile[i] + 1 \in Versions
      BY <2>1, <3>1 DEF Versions
    <3>3. r \in Work /\ r.image \in Images
      BY <3>2
    <3> HIDE DEF r, Work
    <3> QED BY <2>1, <3>1, <3>2, <3>3
  <2>6. \/ \E i \in Images : EnsureThumbnailExists(i)
        \/ \E w \in Workers : RewriteThumb(w)
        \/ \E w \in Workers, i \in Outputs : WriteOutput(w, i)
    OBVIOUS
  <2> HIDE DEF Work
  <2> QED BY <2>3, <2>4, <2>5, <2>6
<1>5. Typed'
  BY <1>1, <1>4 DEF Typed
<1> QED BY <1>2, <1>3, <1>5 DEF Inv

\* The second half of recreateThumbnail(): the item of the old image goes,
\* unless it is QUEUED or IN_PROGRESS.
LEMMA DropInv ==
  ASSUME Inv, NEW w \in Workers, DropRewritten(w)
  PROVE  Inv'
<1> DEFINE i == rewriting[w].image
           g == [cache.items EXCEPT ![i].raced = TRUE]
           Work == [image : Images \cup {None}, version : Versions,
                    step : {"idle", "write", "drop"}]
<1>1. /\ SoundCache(cache) /\ Typed /\ IteratorsHeld /\ HandlersKept /\ NoLostWakeUp
      /\ UNCHANGED <<loader, loading, loaded, wakeUp, results, loadingNow, handler,
                     needsPaint, blank, imageFile, thumbFile, shuttingDown, hadOOM,
                     userActions>>
      /\ rewriting' = [rewriting EXCEPT ![w] = NotRewriting]
  BY DEF Inv, DropRewritten, loaderVars, thumbVars, endVars
<1>2. /\ SoundCache(cache')
      /\ \A j : \A s \in {"QUEUED", "IN_PROGRESS"} : Is(cache', j, s) <=> Is(cache, j, s)
      /\ \A j \in Known(cache') : cache'.items[j].handlers = cache.items[j].handlers
  <2>1. CASE \E s \in DroppedStatuses : Is(cache, i, s)
    <3>1. cache' = RemoveItemLocked(cache, i) /\ i \in Known(cache)
      BY <2>1 DEF DropRewritten, Is
    <3>2. ~Is(cache, i, "QUEUED") /\ ~Is(cache, i, "IN_PROGRESS")
      BY <2>1 DEF DroppedStatuses, Is
    <3> HIDE DEF i
    <3>3. LET d == RemoveItemLocked(cache, i)
          IN /\ SoundCache(d)
             /\ Known(d) = Known(cache) \ {i}
             /\ \A j \in Known(d) : d.items[j] = cache.items[j]
             /\ d.numLoadedItems = cache.numLoadedItems
                                     - (IF Is(cache, i, "LOADED") THEN 1 ELSE 0)
      BY <1>1, <3>1, RemoveSound
    <3>4. /\ SoundCache(cache') /\ Known(cache') = Known(cache) \ {i}
          /\ \A j \in Known(cache') : cache'.items[j] = cache.items[j]
      BY <3>1, <3>3
    <3>5. \A j, s : Is(cache', j, s) <=> j # i /\ Is(cache, j, s)
      BY <3>4 DEF Is
    <3> QED BY <3>2, <3>4, <3>5
  <2>2. CASE Is(cache, i, "IN_PROGRESS")
    <3>1. DOMAIN cache = {"items", "loadQueue", "removeQueue", "endOfLoadedItems",
                          "numQueuedItems", "numLoadedItems"}
      BY <1>1 DEF SoundCache, Shaped
    <3>2. ~\E s \in DroppedStatuses : Is(cache, i, s)
      BY <2>2 DEF DroppedStatuses, Is
    <3>3. cache' = [cache EXCEPT !.items = g]
      BY <2>2, <3>1, <3>2 DEF DropRewritten
    <3>4. \A j \in Known(cache) : /\ g[j] \in Item /\ g[j].status = cache.items[j].status
                                  /\ g[j].handlers = cache.items[j].handlers
      <4>1. cache.items \in [Known(cache) -> Item]
        BY <1>1 DEF SoundCache, Shaped
      <4> HIDE DEF i
      <4> SUFFICES ASSUME NEW j \in Known(cache)
                   PROVE  /\ g[j] \in Item /\ g[j].status = cache.items[j].status
                          /\ g[j].handlers = cache.items[j].handlers
        OBVIOUS
      <4>2. g[j] = IF j = i THEN [cache.items[j] EXCEPT !.raced = TRUE] ELSE cache.items[j]
        BY <4>1
      <4>3. cache.items[j] \in Item
        BY <4>1
      <4> HIDE DEF g
      <4> QED BY <4>2, <4>3 DEF Item
    <3>5. g \in [Known(cache) -> Item]
      <4>1. g = [j \in Known(cache) |-> g[j]]
        BY DEF Known
      <4> HIDE DEF g
      <4> QED BY <3>4, <4>1
    <3> HIDE DEF g
    <3>6. SoundCache(cache') /\ cache'.items = g /\ Known(cache') = Known(cache)
      <4>1. LET d == [cache EXCEPT !.items = g]
            IN SoundCache(d) /\ d.items = g /\ Known(d) = Known(cache)
        BY <1>1, <3>4, <3>5, EveryItemSound
      <4> QED BY <3>3, <4>1
    <3>7. \A j, s : Is(cache', j, s) <=> Is(cache, j, s)
      BY <3>4, <3>6 DEF Is
    <3> QED BY <3>4, <3>6, <3>7
  <2>3. CASE ~(\E s \in DroppedStatuses : Is(cache, i, s)) /\ ~Is(cache, i, "IN_PROGRESS")
    <3>1. cache' = cache
      BY <2>3 DEF DropRewritten
    <3> QED BY <1>1, <3>1
  <2> QED BY <2>1, <2>2, <2>3
<1>3. IteratorsHeld' /\ NoLostWakeUp'
  BY <1>1, <1>2, SameWork
<1>4. HandlersKept'
  <2>1. \A j : \A s \in {"QUEUED", "IN_PROGRESS"} : Is(cache, j, s) =>
          Is(cache', j, s) /\ cache'.items[j].handlers = cache.items[j].handlers
    BY <1>2 DEF Is
  <2> QED BY <1>1, <2>1, SameHandlers
<1>5. Typed'
  <2>1. NotRewriting \in Work /\ NotRewriting.step = "idle"
    BY CacheAssumption DEF CacheAssumption, NotRewriting, Versions
  <2>2. /\ rewriting \in [Workers -> Work]
        /\ \A v \in Workers : rewriting[v].step # "idle" => rewriting[v].image \in Images
    BY <1>1 DEF Typed
  <2>3. /\ rewriting' \in [Workers -> Work]
        /\ \A v \in Workers : rewriting'[v].step # "idle" => rewriting'[v].image \in Images
    <3> HIDE DEF Work
    <3> QED BY <1>1, <2>1, <2>2
  <2> QED BY <1>1, <2>3 DEF Typed
<1> QED BY <1>2, <1>3, <1>4, <1>5 DEF Inv
-----------------------------------------------------------------------------
(* The theorems.                                                           *)

\* Every step keeps the invariant.
LEMMA StepInv == Inv /\ [Next]_vars => Inv'
<1> SUFFICES ASSUME Inv, [Next]_vars PROVE Inv'
  OBVIOUS
<1>1. CASE \E t \in Thumbs : Paint(t) \/ Expose(t) \/ ReplaceThumb(t)
  BY <1>1, PaintInv, ExposeInv, ReplaceInv
<1>2. CASE ProcessLoadResult
  BY <1>2, ResultInv
<1>3. CASE Loader
  BY <1>3, LoaderTurnsInv, LoaderExpiresInv, LoaderBeginsInv, LoaderReadsInv,
     LoaderSavesInv DEF Loader
<1>4. CASE LoaderRunsOutOfMemory
  BY <1>4, LoaderRunsOutOfMemoryInv
<1>5. CASE \E w \in Workers : Worker(w)
  BY <1>5, WritesInv, DropInv DEF Worker
<1>6. CASE \E i \in Images : EnsureThumbnailExists(i)
  BY <1>6, WritesInv
<1>7. CASE SetThumbDir
  BY <1>7, SetThumbDirInv
<1>8. CASE Shutdown
  BY <1>8, ShutdownInv
<1>9. CASE Destroyed \/ UNCHANGED vars
  <2>1. UNCHANGED vars
    BY <1>9 DEF Destroyed
  <2> QED BY <2>1 DEF vars, Inv, Typed, IteratorsHeld, HandlersKept, NoLostWakeUp, Held
<1> QED BY <1>1, <1>2, <1>3, <1>4, <1>5, <1>6, <1>7, <1>8, <1>9 DEF Next

\* The inductive invariant, of every behaviour in which the size of the
\* thumbnails does not change.
THEOREM AlwaysSound == Spec => []Inv
<1> QED BY InitInv, StepInv, PTL DEF Spec

\* A sequence in which every element occurs once is as long as their set.
LEMMA PermIsPermutation ==
  ASSUME NEW S, IsFiniteSet(S), NEW q, Perm(q, S)
  PROVE  Permutation(q, S)
<1>1. /\ Len(q) \in Nat /\ DOMAIN q = 1..Len(q)
      /\ \A k \in DOMAIN q : q[k] \in S
      /\ \A k, l \in DOMAIN q : q[k] = q[l] => k = l
      /\ \A x \in S : \E k \in DOMAIN q : q[k] = x
  BY PermFacts
<1>2. q \in Seq(S) /\ q \in [1..Len(q) -> S]
  BY <1>1, LenProperties DEF Perm
<1>3. q \in Surjection(1..Len(q), S) /\ q \in Injection(1..Len(q), S)
  BY <1>1, <1>2 DEF Surjection, Injection, IsInjective
<1>4. IsFiniteSet(1..Len(q)) /\ Cardinality(1..Len(q)) = Len(q)
  BY <1>1, FS_Interval
<1>5. Cardinality(S) = Cardinality(1..Len(q))
  BY <1>3, <1>4, FS_Surjection
<1> QED BY <1>1, <1>2, <1>4, <1>5 DEF Permutation

\* The two orders of the container hold every item exactly once, and all
\* else has its type.
THEOREM AlwaysTyped == Spec => []TypeOK
<1>1. Inv => TypeOK
  <2> SUFFICES ASSUME Inv PROVE TypeOK
    OBVIOUS
  <2>1. SoundCache(cache) /\ Typed
    BY DEF Inv
  <2>2. /\ Known(cache) \subseteq Images
        /\ cache.items \in [Known(cache) -> Item]
        /\ cache.endOfLoadedItems \in Known(cache) \cup {None}
        /\ Perm(cache.loadQueue, Known(cache)) /\ Perm(cache.removeQueue, Known(cache))
    BY <2>1 DEF SoundCache, Shaped, Ordered, LoadedAhead
  <2>3. IsFiniteSet(Known(cache))
    BY <2>2, CacheAssumption, FS_Subset DEF CacheAssumption
  <2>4. Permutation(cache.loadQueue, Known(cache)) /\ Permutation(cache.removeQueue, Known(cache))
    BY <2>2, <2>3, PermIsPermutation
  <2>5. cache.numQueuedItems \in Int /\ cache.numLoadedItems \in Int
    BY <2>1, CacheFacts DEF SoundCache, Counted
  <2> QED BY <2>1, <2>2, <2>4, <2>5 DEF TypeOK, Typed
<1> QED BY <1>1, AlwaysSound, PTL

\* m_loadQueue: all QUEUED items precede any others.
THEOREM QueuedAlwaysFirst == Spec => []QueuedFirst
<1>1. Inv => QueuedFirst
  <2> SUFFICES ASSUME Inv, NEW k \in DOMAIN cache.loadQueue,
                      Is(cache, cache.loadQueue[k], "QUEUED"), NEW j \in 1..k
               PROVE  Is(cache, cache.loadQueue[j], "QUEUED")
    BY DEF QueuedFirst
  <2> DEFINE q == cache.loadQueue
  <2>1. Perm(q, Known(cache)) /\ QueuedAhead(cache)
    BY DEF Inv, SoundCache, Ordered
  <2>2. /\ Len(q) \in Nat /\ DOMAIN q = 1..Len(q)
        /\ \A n \in DOMAIN q : q[n] \in Known(cache)
    BY <2>1, PermFacts
  <2>3. j \in DOMAIN q /\ (j = k \/ j < k)
    BY <2>2
  <2>4. CASE j < k
    <3>1. Before(q, q[j], q[k]) /\ q[j] \in Known(cache) /\ q[k] \in Known(cache)
      BY <2>2, <2>3, <2>4 DEF Before
    <3> QED BY <2>1, <3>1 DEF QueuedAhead
  <2> QED BY <2>3, <2>4
<1> QED BY <1>1, AlwaysSound, PTL

\* m_removeQueue: all LOADED items precede any others, and m_endOfLoadedItems
\* is where they meet.
THEOREM MarkerAlwaysSeparates == Spec => []MarkerSeparates
<1>1. Inv => MarkerSeparates
  <2> DEFINE q == cache.removeQueue
             m == cache.endOfLoadedItems
             eol == IF m = None THEN Len(q) + 1 ELSE Position(q, m)
  <2> SUFFICES ASSUME Inv, NEW k \in DOMAIN q
               PROVE  /\ k < eol => Is(cache, q[k], "LOADED")
                      /\ k > eol => ~Is(cache, q[k], "LOADED")
    BY DEF MarkerSeparates
  <2>1. /\ Perm(q, Known(cache))
        /\ m \in Known(cache) \cup {None}
        /\ \A i \in Known(cache) :
             /\ m = None \/ Before(q, i, m) => Is(cache, i, "LOADED")
             /\ Before(q, m, i) => ~Is(cache, i, "LOADED")
    BY DEF Inv, SoundCache, Ordered, LoadedAhead
  <2>2. /\ Len(q) \in Nat /\ DOMAIN q = 1..Len(q)
        /\ \A n \in DOMAIN q : q[n] \in Known(cache)
        /\ \A x \in Known(cache) : \E n \in DOMAIN q : q[n] = x
        /\ \A n \in DOMAIN q : Position(q, q[n]) = n
    BY <2>1, PermFacts
  <2> HIDE DEF q, m
  <2>3. CASE m = None
    BY <2>1, <2>2, <2>3
  <2>4. CASE m # None
    <3>1. eol \in DOMAIN q /\ q[eol] = m
      BY <2>1, <2>2, <2>4
    <3> HIDE DEF eol
    <3>2. k < eol => Before(q, q[k], m)
      BY <3>1 DEF Before
    <3>3. k > eol => Before(q, m, q[k])
      BY <2>2, <3>1 DEF Before
    <3> QED BY <2>1, <2>2, <3>2, <3>3
  <2> QED BY <2>3, <2>4
<1> QED BY <1>1, AlwaysSound, PTL

\* The counters agree with the items.
THEOREM CountersAlwaysExact == Spec => []CountersExact
<1>1. Inv => CountersExact
  BY DEF Inv, SoundCache, Counted, CountersExact
<1> QED BY <1>1, AlwaysSound, PTL

\* The cache never holds more pixmaps than it may.
THEOREM CapacityAlwaysRespected == Spec => []CapacityRespected
<1>1. Inv => CapacityRespected
  BY DEF Inv, SoundCache, Counted, CapacityRespected
<1> QED BY <1>1, AlwaysSound, PTL

\* Without a change of size, what is evicted is LOADED, as the assertion in
\* removeExcessLocked() says; with one it may not be.
THEOREM OnlyLoadedEvicted == Spec => []EvictsLoaded
<1>1. Inv => EvictsLoaded
  BY HeadIsLoaded DEF Inv, EvictsLoaded
<1> QED BY <1>1, AlwaysSound, PTL

\* Raw iterators to items point to items IN_PROGRESS, two never to the same,
\* and an item IN_PROGRESS has one unless memory ran out.
THEOREM IteratorsAlwaysValid == Spec => []IteratorsValid
<1>1. Inv => IteratorsValid
  <2> SUFFICES ASSUME Inv, NEW i \in Images
               PROVE  /\ Owners(i) <= 1
                      /\ Owners(i) = 1 => Is(cache, i, "IN_PROGRESS")
                      /\ Is(cache, i, "IN_PROGRESS") => Owners(i) = 1 \/ hadOOM
    BY DEF IteratorsValid
  <2>1. IteratorsHeld /\ i # None
    BY CacheAssumption DEF CacheAssumption, Inv
  <2>2. \A k, l \in ResultsFor(i) : k = l
    BY <2>1 DEF ResultsFor, IteratorsHeld
  <2>3. \A k \in ResultsFor(i) : loading # i /\ Is(cache, i, "IN_PROGRESS")
    BY <2>1 DEF ResultsFor, IteratorsHeld
  <2>4. CASE ResultsFor(i) = {}
    <3>1. Owners(i) = IF loading = i THEN 1 ELSE 0
      BY <2>4, FS_EmptySet DEF Owners
    <3>2. Is(cache, i, "IN_PROGRESS") => loading = i \/ hadOOM
      BY <2>1, <2>4 DEF IteratorsHeld, Held, ResultsFor, InStatus, Is
    <3> QED BY <2>1, <3>1, <3>2 DEF IteratorsHeld
  <2>5. CASE ResultsFor(i) # {}
    <3>1. PICK k \in ResultsFor(i) : ResultsFor(i) = {k}
      BY <2>2, <2>5
    <3>2. Cardinality(ResultsFor(i)) = 1
      BY <3>1, FS_Singleton
    <3>3. Owners(i) = 1
      BY <2>3, <3>1, <3>2 DEF Owners
    <3> QED BY <2>3, <3>1, <3>3
  <2> QED BY <2>4, <2>5
<1> QED BY <1>1, AlwaysSound, PTL

\* A thumbnail that waits is registered with an item that will produce a
\* result.
THEOREM HandlersAlwaysKept == Spec => []HandlersKept
<1>1. Inv => HandlersKept
  BY DEF Inv
<1> QED BY <1>1, AlwaysSound, PTL

\* No QUEUED item is left with a loader that sleeps and will not be woken.
THEOREM NoWakeUpLost == Spec => []NoLostWakeUp
<1>1. Inv => NoLostWakeUp
  BY DEF Inv
<1> QED BY <1>1, AlwaysSound, PTL
-----------------------------------------------------------------------------
(* What is in memory is what is on disk, or is about to be dropped.        *)

\* A version of the image that a file shows now.
Good(i, v) == v = imageFile[i] \/ (v > 0 /\ v = thumbFile[i])

\* What is on its way to an item IN_PROGRESS.
Coming(i) ==
  /\ \A k \in DOMAIN results :
       results[k].image = i /\ results[k].status # "REQUEST_EXPIRED"
       => Good(i, results[k].pixmap)
  /\ loading = i /\ loader = "saving" => loaded > 0 /\ Good(i, loaded)

Fresh(i) ==
  LET item == cache.items[i]
  IN \/ i \in Unwritable \/ Rewrites(i) \/ item.raced
     \/ /\ item.status \in {"LOADED", "LOAD_FAILED"} => Good(i, item.pixmap)
        /\ item.status = "IN_PROGRESS" => Coming(i)

AllFresh == \A i \in Known(cache) : Fresh(i)

\* An item that stays as it is, while its files do.
LEMMA FreshKept ==
  ASSUME NEW i, Fresh(i), cache'.items[i].status = cache.items[i].status,
         cache'.items[i].pixmap = cache.items[i].pixmap,
         cache'.items[i].raced = cache.items[i].raced,
         imageFile'[i] = imageFile[i], thumbFile'[i] = thumbFile[i],
         Rewrites(i) => Rewrites(i)', Coming(i) => Coming(i)'
  PROVE  Fresh(i)'
<1>1. Good(i, cache.items[i].pixmap) => Good(i, cache.items[i].pixmap)'
  BY DEF Good
<1> QED BY <1>1 DEF Fresh

\* The files, the loader and the results stay, and items but for the new ones.
LEMMA QuietFresh ==
  ASSUME AllFresh, UNCHANGED <<imageFile, thumbFile, rewriting, results>>,
         loader' = "saving" => UNCHANGED <<loader, loading, loaded>>,
         \A i \in Known(cache') :
           \/ cache'.items[i].status = "QUEUED"
           \/ /\ i \in Known(cache)
              /\ cache'.items[i].status = cache.items[i].status
              /\ cache'.items[i].pixmap = cache.items[i].pixmap
              /\ cache'.items[i].raced = cache.items[i].raced
  PROVE  AllFresh'
<1>1. ASSUME NEW i \in Known(cache') PROVE Fresh(i)'
  <2>1. CASE cache'.items[i].status = "QUEUED"
    BY <2>1 DEF Fresh
  <2>2. CASE /\ i \in Known(cache)
             /\ cache'.items[i].status = cache.items[i].status
             /\ cache'.items[i].pixmap = cache.items[i].pixmap
             /\ cache'.items[i].raced = cache.items[i].raced
    <3>1. Coming(i) => Coming(i)'
      BY DEF Coming, Good
    <3>2. Fresh(i) /\ (Rewrites(i) => Rewrites(i)')
      BY <2>2 DEF AllFresh, Rewrites
    <3> QED BY <2>2, <3>1, <3>2, FreshKept
  <2> QED BY <2>1, <2>2
<1> QED BY <1>1 DEF AllFresh

\* What the GUI thread does to items, but for answers.
LEMMA GuiFresh ==
  ASSUME Inv, AllFresh,
         \/ \E t \in Thumbs : Paint(t) \/ Expose(t) \/ ReplaceThumb(t)
         \/ SetThumbDir \/ Shutdown \/ Destroyed
  PROVE  AllFresh'
<1>1. SoundCache(cache)
  BY DEF Inv
<1>2. /\ DOMAIN cache = {"items", "loadQueue", "removeQueue", "endOfLoadedItems",
                         "numQueuedItems", "numLoadedItems"}
      /\ cache.items \in [Known(cache) -> Item]
      /\ \A i \in Known(cache) : cache.items[i] \in Item
  BY <1>1 DEF SoundCache, Shaped
<1>3. UNCHANGED <<imageFile, thumbFile, rewriting, results>>
  BY DEF Paint, Expose, ReplaceThumb, SetThumbDir, Shutdown, Destroyed, fileVars, vars
<1>4. loader' = "saving" => UNCHANGED <<loader, loading, loaded>>
  BY DEF Paint, Expose, ReplaceThumb, SetThumbDir, Shutdown, Destroyed, loaderVars, vars,
         RequestLoaded, RequestFailed, RequestPending, RequestNew, WakeLoader
<1>5. ASSUME NEW i \in Known(cache')
      PROVE  \/ cache'.items[i].status = "QUEUED"
             \/ /\ i \in Known(cache)
                /\ cache'.items[i].status = cache.items[i].status
                /\ cache'.items[i].pixmap = cache.items[i].pixmap
                /\ cache'.items[i].raced = cache.items[i].raced
  <2>1. CASE \E t \in Thumbs : Paint(t)
    <3>1. PICK t \in Thumbs : Paint(t)
      BY <2>1
    <3>2. CASE t \in handler \/ RequestFailed(ImageOf[t])
      BY <3>1, <3>2 DEF Paint, RequestLoaded, RequestPending, RequestNew, RequestFailed, Is
    <3>3. CASE RequestLoaded(ImageOf[t])
      <4>1. cache'.items = cache.items
        BY <1>2, <3>3 DEF RequestLoaded, TouchLoaded
      <4> QED BY <4>1 DEF Known
    <3>4. CASE RequestPending(t, ImageOf[t])
      <4> DEFINE j == ImageOf[t]
      <4>1. cache'.items = [cache.items EXCEPT ![j].handlers = @ \cup {t}]
        BY <1>2, <3>4 DEF RequestPending
      <4> QED BY <1>2, <4>1 DEF Known, Item
    <3>5. CASE RequestNew(t, ImageOf[t])
      <4> DEFINE j == ImageOf[t]
      <4>1. cache'.items = [k \in Known(cache) \cup {j} |->
                              IF k = j THEN NewItem("QUEUED", {t}, NoPixmap)
                              ELSE cache.items[k]]
        BY <3>5 DEF RequestNew
      <4>2. NewItem("QUEUED", {t}, NoPixmap).status = "QUEUED"
        BY DEF NewItem
      <4> QED BY <4>1, <4>2 DEF Known
    <3> QED BY <3>1, <3>2, <3>3, <3>4, <3>5 DEF Paint
  <2>2. CASE \E t \in Thumbs : Expose(t)
    BY <2>2 DEF Expose
  <2>3. CASE \E t \in Thumbs : ReplaceThumb(t)
    <3>1. PICK t \in Thumbs : ReplaceThumb(t)
      BY <2>3
    <3>2. cache'.items = [j \in Known(cache) |-> [cache.items[j] EXCEPT !.handlers = @ \ {t}]]
      BY <1>2, <3>1 DEF ReplaceThumb
    <3> QED BY <1>2, <3>2 DEF Known, Item
  <2>4. CASE SetThumbDir
    <3>1. cache'.items = [j \in Known(cache) |->
                            [cache.items[j] EXCEPT !.age = ExpirationThreshold + 1]]
      BY <1>2, <2>4 DEF SetThumbDir, AllExpired
    <3> QED BY <1>2, <3>1 DEF Known, Item
  <2>5. CASE Shutdown \/ Destroyed
    BY <2>5 DEF Shutdown, Destroyed, vars
  <2> QED BY <2>1, <2>2, <2>3, <2>4, <2>5
<1> QED BY <1>3, <1>4, <1>5, QuietFresh

\* The item that a result is for, in what the result brings.
LEMMA AnsweredItem ==
  ASSUME NEW c, SoundCache(c), NEW e, Is(c, e.image, "IN_PROGRESS"),
         e.pixmap \in Pixmaps, e.status \in Results, e.status # "REQUEST_EXPIRED"
  PROVE  LET item == Answered(c, e).items[e.image]
         IN /\ item.raced = c.items[e.image].raced
            /\ e.pixmap # NoPixmap => item.pixmap = e.pixmap
<1> DEFINE i == e.image
           d == Answered(c, e)
<1>1. /\ DOMAIN c = {"items", "loadQueue", "removeQueue", "endOfLoadedItems",
                     "numQueuedItems", "numLoadedItems"}
      /\ c.items \in [Known(c) -> Item]
      /\ i \in Known(c) /\ c.items[i] \in Item /\ c.items[i].status = "IN_PROGRESS"
  BY DEF SoundCache, Shaped, Is
<1>2. CASE e.status = "LOADED"
  <2> DEFINE m == RemoveExcessLocked(c)
             new == IF e.pixmap = NoPixmap THEN m.items[i].pixmap ELSE e.pixmap
  <2>1. LET r == RemoveExcessLocked(c)
        IN /\ SoundCache(r)
           /\ Known(r) \subseteq Known(c)
           /\ \A j \in Known(r) : r.items[j] = c.items[j]
           /\ \A j \in Known(c) : Is(c, j, "LOADED") \/ j \in Known(r)
           /\ r.numLoadedItems < MaxCachedPixmaps
    BY ExcessSound
  <2>2. i \in Known(m) /\ m.items[i] = c.items[i]
    BY <1>1, <2>1 DEF Is
  <2>3. DOMAIN m = {"items", "loadQueue", "removeQueue", "endOfLoadedItems",
                    "numQueuedItems", "numLoadedItems"}
    BY <2>1 DEF SoundCache, Shaped
  <2>4. d = StoreLoaded(c, e)
    BY <1>2 DEF Answered
  <2> HIDE DEF m
  <2>5. StoreLoaded(c, e) =
          [m EXCEPT !.items[i].status   = "LOADED",
                    !.items[i].pixmap   = IF e.pixmap = NoPixmap THEN @ ELSE e.pixmap,
                    !.items[i].handlers = {},
                    !.numLoadedItems    = @ + 1,
                    !.removeQueue       = Relocate(@, m.endOfLoadedItems, i),
                    !.loadQueue         = ToBack(@, i)]
    BY DEF StoreLoaded, m
  <2>6. d.items = [m.items EXCEPT ![i] =
                     [m.items[i] EXCEPT !.status = "LOADED", !.pixmap = new, !.handlers = {}]]
    BY <2>2, <2>3, <2>4, <2>5 DEF Known
  <2> HIDE DEF d, new
  <2>7. d.items[i] = [m.items[i] EXCEPT !.status = "LOADED", !.pixmap = new, !.handlers = {}]
    BY <2>2, <2>6 DEF Known
  <2>8. d.items[i].pixmap = new /\ d.items[i].raced = m.items[i].raced
    BY <1>1, <2>2, <2>7 DEF Item
  <2> QED BY <2>2, <2>8 DEF new, d
<1>3. CASE e.status = "LOAD_FAILED"
  <2>1. d.items = [c.items EXCEPT ![i] = [@ EXCEPT !.status = "LOAD_FAILED",
                                                   !.pixmap = e.pixmap,
                                                   !.handlers = {}]]
    BY <1>1, <1>3 DEF Answered, StoreFailed, Known
  <2> HIDE DEF d
  <2>2. d.items[i] = [c.items[i] EXCEPT !.status = "LOAD_FAILED", !.pixmap = e.pixmap,
                                        !.handlers = {}]
    BY <1>1, <2>1 DEF Known
  <2> QED BY <1>1, <2>2 DEF Item, d
<1> QED BY <1>2, <1>3 DEF Results

\* An answer brings what is on disk.
LEMMA ResultFresh ==
  ASSUME Inv, AllFresh, ProcessLoadResult
  PROVE  AllFresh'
<1> DEFINE e == Head(results)
           i == e.image
           Events == [image : Images, status : Results, pixmap : Pixmaps]
<1>1. SoundCache(cache) /\ Typed /\ IteratorsHeld
  BY DEF Inv
<1>2. /\ cache' = Answered(cache, e)
      /\ results' = Tail(results) /\ results # <<>>
      /\ UNCHANGED <<loader, loading, loaded, imageFile, thumbFile, rewriting>>
  BY DEF ProcessLoadResult, Answered, loaderVars, fileVars
<1>3. /\ DOMAIN results = 1..Len(results) /\ Len(results) \in Nat /\ Len(results) > 0
      /\ DOMAIN results' = 1..(Len(results) - 1)
      /\ \A k \in DOMAIN results' : results'[k] = results[k + 1]
      /\ e = results[1] /\ e \in Events
  <2>1. results \in Seq(Events)
    BY <1>1 DEF Typed
  <2> HIDE DEF Events
  <2> QED BY <1>2, <2>1, HeadTailProperties, EmptySeq, LenProperties, ElementOfSeq
<1> HIDE DEF e
<1>4. /\ e.pixmap \in Pixmaps /\ e.status \in Results /\ Is(cache, i, "IN_PROGRESS")
      /\ 1 \in DOMAIN results
  <2>1. 1 \in DOMAIN results
    BY <1>3
  <2> QED BY <1>1, <1>3, <2>1 DEF IteratorsHeld
<1>5. /\ Known(cache') \subseteq Known(cache)
      /\ \A j \in Known(cache') \ {i} : cache'.items[j] = cache.items[j]
      /\ e.status = "REQUEST_EXPIRED" => i \notin Known(cache')
  <2>1. i \in Known(cache)
    BY <1>4 DEF Is
  <2>2. CASE e.status = "LOADED"
    <3>1. LET d == StoreLoaded(cache, e)
          IN /\ SoundCache(d)
             /\ Known(d) \subseteq Known(cache)
             /\ Is(d, e.image, "LOADED")
             /\ \A j \in Known(d) \ {e.image} : d.items[j] = cache.items[j]
             /\ \A j \in Known(cache) : Is(cache, j, "LOADED") \/ j \in Known(d)
      BY <1>1, <1>4, LoadedSound
    <3>2. cache' = StoreLoaded(cache, e)
      BY <1>2, <2>2 DEF Answered
    <3> QED BY <2>2, <3>1, <3>2
  <2>3. CASE e.status = "LOAD_FAILED"
    <3>1. LET d == StoreFailed(cache, e)
          IN /\ SoundCache(d)
             /\ Known(d) = Known(cache)
             /\ Is(d, e.image, "LOAD_FAILED")
             /\ \A j \in Known(cache) \ {e.image} : d.items[j] = cache.items[j]
      BY <1>1, <1>4, FailedSound
    <3>2. cache' = StoreFailed(cache, e)
      BY <1>2, <2>3 DEF Answered
    <3> QED BY <2>3, <3>1, <3>2
  <2>4. CASE e.status = "REQUEST_EXPIRED"
    <3>1. cache' = RemoveItemLocked(cache, i)
      BY <1>2, <2>4 DEF Answered
    <3>2. cache'.items = [j \in Known(cache) \ {i} |-> cache.items[j]]
      BY <3>1 DEF RemoveItemLocked
    <3> QED BY <3>2 DEF Known
  <2> QED BY <1>4, <2>2, <2>3, <2>4 DEF Results
<1>6. e.status # "REQUEST_EXPIRED" =>
        /\ cache'.items[i].raced = cache.items[i].raced
        /\ e.pixmap # NoPixmap => cache'.items[i].pixmap = e.pixmap
  <2>1. SUFFICES ASSUME e.status # "REQUEST_EXPIRED"
                 PROVE  /\ cache'.items[i].raced = cache.items[i].raced
                        /\ e.pixmap # NoPixmap => cache'.items[i].pixmap = e.pixmap
    OBVIOUS
  <2>2. LET item == Answered(cache, e).items[e.image]
        IN /\ item.raced = cache.items[e.image].raced
           /\ e.pixmap # NoPixmap => item.pixmap = e.pixmap
    BY <1>1, <1>4, <2>1, AnsweredItem
  <2> QED BY <1>2, <2>2
<1>7. ASSUME NEW j \in Known(cache') PROVE Fresh(j)'
  <2>1. Fresh(j) /\ j \in Known(cache)
    BY <1>5 DEF AllFresh
  <2>2. CASE j # i
    <3>1. Coming(j) => Coming(j)'
      <4>1. \A k \in DOMAIN results' : k + 1 \in DOMAIN results
        BY <1>3
      <4> QED BY <1>2, <1>3, <4>1 DEF Coming, Good
    <3>2. Rewrites(j) => Rewrites(j)'
      BY <1>2 DEF Rewrites
    <3> QED BY <1>2, <1>5, <2>1, <2>2, <3>1, <3>2, FreshKept
  <2>3. CASE j = i /\ ~(i \in Unwritable \/ Rewrites(i) \/ cache.items[i].raced)
    <3>1. Coming(i) /\ e.status # "REQUEST_EXPIRED"
      BY <1>4, <1>5, <2>1, <2>3 DEF Fresh, Is
    <3>2. Good(i, e.pixmap)
      BY <1>3, <1>4, <3>1 DEF Coming
    <3>3. e.pixmap # NoPixmap
      <4>1. i \in Images
        BY <1>1, <2>1, <2>3, CacheFacts
      <4>2. imageFile[i] \in Versions /\ thumbFile[i] \in Versions
        BY <1>1, <4>1 DEF Typed
      <4> QED BY <3>2, <4>2, CacheAssumption DEF CacheAssumption, Good, NoPixmap, Versions
    <3>4. cache'.items[i].pixmap = e.pixmap
      BY <1>6, <3>1, <3>3
    <3>5. cache'.items[i].status # "IN_PROGRESS"
      <4>1. LET d == Answered(cache, e)
            IN /\ SoundCache(d)
               /\ \A k, s : k # e.image /\ s # "LOADED" => (Is(d, k, s) <=> Is(cache, k, s))
               /\ \A k \in Known(d) \ {e.image} : d.items[k] = cache.items[k]
               /\ ~Is(d, e.image, "QUEUED") /\ ~Is(d, e.image, "IN_PROGRESS")
        BY <1>1, <1>4, AnswerSound
      <4> QED BY <1>2, <2>3, <4>1 DEF Is
    <3>6. Good(j, cache.items[j].pixmap)'
      BY <1>2, <2>3, <3>2, <3>4 DEF Good
    <3>7. cache'.items[j].status # "IN_PROGRESS"
      BY <2>3, <3>5
    <3> QED BY <3>6, <3>7 DEF Fresh
  <2>4. CASE j = i /\ (i \in Unwritable \/ Rewrites(i) \/ cache.items[i].raced)
    <3>1. Rewrites(j) => Rewrites(j)'
      BY <1>2 DEF Rewrites
    <3>2. cache'.items[j].raced = cache.items[j].raced
      BY <1>5, <1>6, <2>4
    <3>3. j \in Unwritable \/ Rewrites(j) \/ cache.items[j].raced
      BY <2>4
    <3> QED BY <3>1, <3>2, <3>3 DEF Fresh
  <2> QED BY <2>2, <2>3, <2>4
<1> QED BY <1>7 DEF AllFresh

\* An item QUEUED has no answer on its way, when the loader takes it.
LEMMA TakenFresh ==
  ASSUME Inv, AllFresh, NEW i \in Known(cache), Is(cache, i, "QUEUED"),
         UNCHANGED <<imageFile, thumbFile, rewriting>>, loader' # "saving",
         loader # "saving",
         Known(cache') = Known(cache),
         \A j \in Known(cache) \ {i} :
           /\ cache'.items[j].status = cache.items[j].status
           /\ cache'.items[j].pixmap = cache.items[j].pixmap
           /\ cache'.items[j].raced = cache.items[j].raced,
         Is(cache', i, "IN_PROGRESS"),
         \/ results' = results
         \/ results' = Append(results, Event(i, "REQUEST_EXPIRED", NoPixmap))
  PROVE  AllFresh'
<1>1. Typed /\ IteratorsHeld
  BY DEF Inv
<1>2. \A k \in DOMAIN results : results[k].image # i
  BY <1>1 DEF IteratorsHeld, Is
<1>3. \A k \in DOMAIN results' :
        \/ k \in DOMAIN results /\ results'[k] = results[k]
        \/ results'[k].status = "REQUEST_EXPIRED"
  <2>1. CASE results' = results
    BY <2>1
  <2>2. CASE results' = Append(results, Event(i, "REQUEST_EXPIRED", NoPixmap))
    <3> DEFINE Events == [image : Images, status : Results, pixmap : Pixmaps]
               e == Event(i, "REQUEST_EXPIRED", NoPixmap)
    <3>1. i \in Images
      BY CacheFacts DEF Inv
    <3>2. e \in Events /\ e.status = "REQUEST_EXPIRED"
      BY <3>1 DEF Event, Results, Pixmaps
    <3>3. results \in Seq(Events)
      BY <1>1 DEF Typed
    <3> HIDE DEF Events, e
    <3>4. results' = Append(results, e)
      BY <2>2 DEF e
    <3>5. /\ results' \in Seq(Events)
          /\ Len(results) \in Nat
          /\ DOMAIN results = 1..Len(results) /\ DOMAIN results' = 1..(Len(results) + 1)
          /\ \A k \in DOMAIN results : results'[k] = results[k]
          /\ results'[Len(results) + 1] = e
      BY <3>2, <3>3, <3>4, PostedLast
    <3> QED BY <3>2, <3>5
  <2> QED BY <2>1, <2>2
<1>4. ASSUME NEW j \in Known(cache') PROVE Fresh(j)'
  <2>1. CASE j = i
    <3>1. Coming(j)'
      BY <1>2, <1>3, <2>1 DEF Coming
    <3>2. cache'.items[j].status = "IN_PROGRESS"
      BY <2>1 DEF Is
    <3> QED BY <3>1, <3>2 DEF Fresh
  <2>2. CASE j # i
    <3>1. Coming(j) => Coming(j)'
      BY <1>3 DEF Coming, Good
    <3>2. Fresh(j) /\ (Rewrites(j) => Rewrites(j)')
      BY DEF AllFresh, Rewrites
    <3> QED BY <2>2, <3>1, <3>2, FreshKept
  <2> QED BY <2>1, <2>2
<1> QED BY <1>4 DEF AllFresh

\* The loader takes an item, or tells that its request is too old.
LEMMA TakesFresh ==
  ASSUME Inv, AllFresh, LoaderExpires \/ LoaderBegins
  PROVE  AllFresh'
<1>1. PICK i \in Known(cache) :
        /\ LoaderTakes(i)
        /\ \/ /\ cache' = QueuedToInProgress(cache, i)
              /\ results' = Append(results, Event(i, "REQUEST_EXPIRED", NoPixmap))
              /\ loader' = loader
           \/ /\ cache' = Older(QueuedToInProgress(cache, i))
              /\ results' = results /\ loader' = "loading"
        /\ UNCHANGED <<imageFile, thumbFile, rewriting>>
  BY DEF LoaderExpires, LoaderBegins, loaderVars, fileVars
<1>2. /\ SoundCache(cache) /\ Is(cache, i, "QUEUED")
      /\ loader # "saving" /\ loader' # "saving"
  BY <1>1 DEF Inv, LoaderTakes
<1> DEFINE m == QueuedToInProgress(cache, i)
<1>3. /\ SoundCache(m) /\ Known(m) = Known(cache)
      /\ Is(m, i, "IN_PROGRESS")
      /\ \A j \in Known(cache) \ {i} : m.items[j] = cache.items[j]
  <2>1. LET d == QueuedToInProgress(cache, i)
        IN /\ SoundCache(d)
           /\ Known(d) = Known(cache)
           /\ Is(d, i, "IN_PROGRESS")
           /\ d.items[i].handlers = cache.items[i].handlers
           /\ \A j \in Known(cache) \ {i} : d.items[j] = cache.items[j]
    BY <1>2, TakeSound
  <2> QED BY <2>1
<1> HIDE DEF m
<1>4. /\ Known(cache') = Known(cache)
      /\ Is(cache', i, "IN_PROGRESS")
      /\ \A j \in Known(cache) \ {i} :
           /\ cache'.items[j].status = cache.items[j].status
           /\ cache'.items[j].pixmap = cache.items[j].pixmap
           /\ cache'.items[j].raced = cache.items[j].raced
  <2>1. CASE cache' = m
    BY <1>3, <2>1
  <2>2. CASE cache' = Older(m)
    <3>1. /\ DOMAIN m = {"items", "loadQueue", "removeQueue", "endOfLoadedItems",
                         "numQueuedItems", "numLoadedItems"}
          /\ \A j \in Known(m) : m.items[j] \in Item
      BY <1>3, CacheFacts DEF SoundCache, Shaped
    <3>2. cache'.items = [j \in Known(m) |->
            [m.items[j] EXCEPT !.age = IF @ > ExpirationThreshold THEN @ ELSE @ + 1]]
      BY <2>2, <3>1 DEF Older
    <3>3. /\ Known(cache') = Known(m)
          /\ \A j \in Known(m) : /\ cache'.items[j].status = m.items[j].status
                                 /\ cache'.items[j].pixmap = m.items[j].pixmap
                                 /\ cache'.items[j].raced = m.items[j].raced
      BY <3>1, <3>2 DEF Known, Item
    <3> QED BY <1>3, <3>3 DEF Is
  <2> QED BY <1>1, <2>1, <2>2 DEF m
<1> QED BY <1>1, <1>2, <1>4, TakenFresh

\* The loader posts what it found, having saved the thumbnail of that or not.
LEMMA PostedFresh ==
  ASSUME Inv, AllFresh, loader \in {"loading", "saving"},
         NEW s \in Results, NEW v \in Pixmaps, LoaderPosts(s, v), NEW i, i = loading,
         i \in Unwritable \/ Rewrites(i) \/ cache.items[i].raced \/ Good(i, v)',
         UNCHANGED <<cache, imageFile, rewriting>>,
         \A j \in Images \ {loading} : thumbFile'[j] = thumbFile[j]
  PROVE  AllFresh'
<1> DEFINE Events == [image : Images, status : Results, pixmap : Pixmaps]
           e == Event(loading, s, v)
<1>1. /\ SoundCache(cache) /\ Typed /\ IteratorsHeld
      /\ loading \in Images /\ Is(cache, loading, "IN_PROGRESS")
      /\ loader' = "scanning" /\ loading' = None
      /\ results' = Append(results, e)
  BY DEF Inv, IteratorsHeld, Typed, LoaderPosts
<1>2. e \in Events /\ e.image = loading /\ e.status = s /\ e.pixmap = v
  BY <1>1 DEF Event
<1> HIDE DEF e
<1>3. /\ results' \in Seq(Events)
      /\ Len(results) \in Nat
      /\ DOMAIN results = 1..Len(results) /\ DOMAIN results' = 1..(Len(results) + 1)
      /\ \A k \in DOMAIN results : results'[k] = results[k]
      /\ results'[Len(results) + 1] = e
  <2>1. results \in Seq(Events)
    BY <1>1 DEF Typed
  <2> HIDE DEF Events
  <2> QED BY <1>1, <1>2, <2>1, PostedLast
<1>4. \A k \in DOMAIN results' : k \in DOMAIN results \/ results'[k] = e
  BY <1>3
<1>5. ASSUME NEW j \in Known(cache') PROVE Fresh(j)'
  <2>1. Fresh(j) /\ j \in Images /\ (Rewrites(j) => Rewrites(j)')
    BY <1>1, CacheFacts DEF AllFresh, Rewrites
  <2>2. CASE j # loading
    <3>1. Coming(j) => Coming(j)'
      BY <1>1, <1>2, <1>3, <1>4, <2>1, <2>2 DEF Coming, Good
    <3> QED BY <2>1, <2>2, <3>1, FreshKept
  <2>3. CASE j = loading /\ (j \in Unwritable \/ Rewrites(j) \/ cache.items[j].raced)
    BY <2>1, <2>3 DEF Fresh
  <2>4. CASE j = i /\ Good(i, v)'
    <3>1. \A k \in DOMAIN results : results[k].image # j
      BY <1>1, <2>4 DEF IteratorsHeld
    <3>2. \A k \in DOMAIN results' :
            results'[k].image = j => results'[k].pixmap = v
      BY <1>2, <1>3, <1>4, <3>1
    <3>3. v = imageFile'[j] \/ (v > 0 /\ v = thumbFile'[j])
      BY <2>4 DEF Good
    <3>4. Coming(j)'
      BY <1>1, <3>2, <3>3 DEF Coming, Good
    <3>5. cache'.items[j].status = "IN_PROGRESS"
      BY <1>1, <2>4 DEF Is
    <3> QED BY <3>4, <3>5 DEF Fresh
  <2> QED BY <2>2, <2>3, <2>4
<1> QED BY <1>5 DEF AllFresh

\* The loader looks for the thumbnail, then for the image, and saves.
LEMMA LoaderFresh ==
  ASSUME Inv, AllFresh, LoaderReads \/ LoaderSaves
  PROVE  AllFresh'
<1> DEFINE i == loading
<1>1. /\ SoundCache(cache) /\ Typed /\ IteratorsHeld
      /\ i \in Images /\ Is(cache, i, "IN_PROGRESS") /\ i \in Known(cache)
      /\ loader \in {"loading", "saving"}
  BY DEF Inv, IteratorsHeld, Typed, LoaderReads, LoaderSaves, Is
<1>2. /\ thumbFile[i] \in Versions /\ imageFile[i] \in Versions /\ loaded \in Versions
      /\ 0 \in Versions /\ Versions \subseteq Pixmaps
      /\ \A v \in Versions : v \in Nat
  <2>1. 0 \in Versions /\ \A v \in Versions : v \in Nat
    BY CacheAssumption DEF CacheAssumption, Versions
  <2> QED BY <1>1, <2>1 DEF Typed, Pixmaps
<1>3. "LOADED" \in Results /\ "LOAD_FAILED" \in Results
  BY DEF Results
<1>4. CASE LoaderReads
  <2>1. UNCHANGED <<cache, imageFile, thumbFile, rewriting>>
    BY <1>4 DEF LoaderReads, fileVars
  <2>2. CASE thumbFile[i] > 0 /\ LoaderPosts("LOADED", thumbFile[i])
    <3> DEFINE v == thumbFile[i]
    <3>1. PICK j, u : j = i /\ u = v
      OBVIOUS
    <3>2. Good(j, u)'
      BY <2>1, <2>2, <3>1 DEF Good
    <3> QED BY <1>1, <1>2, <1>3, <2>1, <2>2, <3>1, <3>2, PostedFresh
  <2>3. CASE imageFile[i] = 0 /\ LoaderPosts("LOAD_FAILED", 0)
    <3>1. PICK j : j = i
      OBVIOUS
    <3>2. Good(j, 0)'
      BY <2>1, <2>3, <3>1 DEF Good
    <3> QED BY <1>1, <1>2, <1>3, <2>1, <2>3, <3>1, <3>2, PostedFresh
  <2>4. CASE /\ imageFile[i] > 0 /\ loader' = "saving" /\ loaded' = imageFile[i]
             /\ UNCHANGED <<loading, results>>
    <3> SUFFICES ASSUME NEW j \in Known(cache') PROVE Fresh(j)'
      BY DEF AllFresh
    <3>1. Fresh(j) /\ (Rewrites(j) => Rewrites(j)')
      BY <2>1 DEF AllFresh, Rewrites
    <3>2. CASE j # i
      <4>1. Coming(j) => Coming(j)'
        BY <2>1, <2>4, <3>2 DEF Coming, Good
      <4> QED BY <2>1, <3>1, <4>1, FreshKept
    <3>3. CASE j = i
      <4>1. \A k \in DOMAIN results : results[k].image # j
        BY <1>1, <3>3 DEF IteratorsHeld
      <4>2. Coming(j)'
        BY <2>1, <2>4, <3>3, <4>1 DEF Coming, Good
      <4>3. cache'.items[j].status = "IN_PROGRESS"
        BY <1>1, <2>1, <3>3 DEF Is
      <4> QED BY <4>2, <4>3 DEF Fresh
    <3> QED BY <3>2, <3>3
  <2> QED BY <1>4, <2>2, <2>3, <2>4 DEF LoaderReads
<1>5. CASE LoaderSaves
  <2>1. /\ loader = "saving" /\ SaveThumb(i, loaded) /\ LoaderPosts("LOADED", loaded)
        /\ UNCHANGED <<cache, imageFile, rewriting>>
    BY <1>5 DEF LoaderSaves
  <2>2. PICK j, v : j = i /\ v = loaded
    OBVIOUS
  <2>3. \A k \in Images \ {j} : thumbFile'[k] = thumbFile[k]
    BY <1>1, <2>1, <2>2 DEF SaveThumb, Typed
  <2>4. j \in Unwritable \/ Rewrites(j) \/ cache.items[j].raced \/ (v > 0 /\ Good(j, v))
    <3>1. Fresh(j)
      BY <1>1, <2>2 DEF AllFresh
    <3>2. cache.items[j].status = "IN_PROGRESS"
      BY <1>1, <2>2 DEF Is
    <3> QED BY <2>1, <2>2, <3>1, <3>2 DEF Fresh, Coming
  <2>5. j \in Unwritable \/ thumbFile'[j] = v
    BY <1>1, <2>1, <2>2 DEF SaveThumb, Typed
  <2>6. j \in Unwritable \/ Rewrites(j) \/ cache.items[j].raced \/ Good(j, v)'
    BY <2>1, <2>4, <2>5 DEF Good
  <2> QED BY <1>1, <1>2, <1>3, <2>1, <2>2, <2>3, <2>6, PostedFresh
<1> QED BY <1>4, <1>5

\* It rests, wakes, finishes, or runs out of memory.
LEMMA IdleFresh ==
  ASSUME AllFresh, LoaderRests \/ LoaderWakes \/ LoaderFinishes \/ LoaderRunsOutOfMemory
  PROVE  AllFresh'
<1>1. UNCHANGED <<cache, imageFile, thumbFile, rewriting, results>> /\ loader' # "saving"
  BY DEF LoaderRests, LoaderWakes, LoaderFinishes, LoaderRunsOutOfMemory, fileVars
<1> QED BY <1>1, QuietFresh

\* Files are written: one that is not there yet, or one that its worker is to
\* drop from memory.
LEMMA WritesFresh ==
  ASSUME Inv, AllFresh,
         \/ \E i \in Images : EnsureThumbnailExists(i)
         \/ \E w \in Workers : RewriteThumb(w) \/ \E i \in Outputs : WriteOutput(w, i)
  PROVE  AllFresh'
<1>1. SoundCache(cache) /\ Typed
  BY DEF Inv
<1>2. UNCHANGED <<cache, loader, loading, loaded, results>>
  BY DEF EnsureThumbnailExists, RewriteThumb, WriteOutput, loaderVars
<1>3. \A j \in Known(cache) : Fresh(j) /\ j \in Images
  BY <1>1, CacheFacts DEF AllFresh
<1>4. CASE \E i \in Images : EnsureThumbnailExists(i)
  <2>1. PICK i \in Images : EnsureThumbnailExists(i)
    BY <1>4
  <2>2. UNCHANGED <<imageFile, rewriting>> /\ SaveThumb(i, imageFile[i]) /\ thumbFile[i] = 0
    BY <2>1 DEF EnsureThumbnailExists
  <2>3. \A j \in Images : thumbFile'[j] = thumbFile[j] \/ thumbFile[j] = 0
    BY <1>1, <2>2 DEF SaveThumb, Typed
  <2>4. ASSUME NEW j \in Known(cache') PROVE Fresh(j)'
    <3>1. \A v : Good(j, v) => v = imageFile'[j] \/ (v > 0 /\ v = thumbFile'[j])
      BY <1>2, <1>3, <2>2, <2>3 DEF Good
    <3>2. Coming(j) => Coming(j)'
      BY <1>2, <3>1 DEF Coming, Good
    <3>3. Rewrites(j) => Rewrites(j)'
      BY <2>2 DEF Rewrites
    <3>4. Good(j, cache.items[j].pixmap) => Good(j, cache.items[j].pixmap)'
      BY <1>2, <3>1 DEF Good
    <3> QED BY <1>2, <1>3, <3>2, <3>3, <3>4 DEF Fresh
  <2> QED BY <2>4 DEF AllFresh
<1>5. CASE \E w \in Workers : RewriteThumb(w) \/ \E i \in Outputs : WriteOutput(w, i)
  <2>1. PICK w \in Workers : RewriteThumb(w) \/ \E i \in Outputs : WriteOutput(w, i)
    BY <1>5
  <2>2. PICK i : /\ \A j \in Images \ {i} : /\ thumbFile'[j] = thumbFile[j]
                                            /\ imageFile'[j] = imageFile[j]
                 /\ \A j \in Images \ {i} : rewriting[w].image # j
                 /\ \A u \in Workers \ {w} : rewriting'[u] = rewriting[u]
                 /\ i \in Unwritable \/ rewriting'[w].image = i
    <3>1. /\ thumbFile \in [Images -> Versions] /\ imageFile \in [Images -> Versions]
          /\ DOMAIN rewriting = Workers
          /\ rewriting[w] \in [image : Images \cup {None}, version : Versions,
                               step : {"idle", "write", "drop"}]
      BY <1>1 DEF Typed
    <3>2. CASE RewriteThumb(w)
      <4>1. rewriting'[w].image = rewriting[w].image \/ rewriting[w].image \in Unwritable
        BY <3>1, <3>2 DEF RewriteThumb
      <4>2. /\ imageFile' = imageFile
            /\ \A j \in Images \ {rewriting[w].image} : thumbFile'[j] = thumbFile[j]
            /\ \A u \in Workers \ {w} : rewriting'[u] = rewriting[u]
        BY <3>1, <3>2 DEF RewriteThumb
      <4> QED BY <4>1, <4>2
    <3>3. CASE \E i \in Outputs : WriteOutput(w, i)
      <4>1. PICK i \in Outputs : WriteOutput(w, i)
        BY <3>3
      <4>2. rewriting[w].image = None /\ None \notin Images
        BY <4>1, CacheAssumption DEF WriteOutput, NotRewriting, CacheAssumption
      <4>3. /\ rewriting'[w].image = i /\ thumbFile' = thumbFile
            /\ \A j \in Images \ {i} : imageFile'[j] = imageFile[j]
            /\ \A u \in Workers \ {w} : rewriting'[u] = rewriting[u]
        BY <3>1, <4>1 DEF WriteOutput
      <4> QED BY <4>2, <4>3
    <3> QED BY <2>1, <3>2, <3>3
  <2>3. ASSUME NEW j \in Known(cache') PROVE Fresh(j)'
    <3>1. j \in Images /\ Fresh(j)
      BY <1>2, <1>3
    <3>2. CASE j = i
      BY <2>2, <3>2 DEF Fresh, Rewrites
    <3>3. CASE j # i
      <4>1. Rewrites(j) => Rewrites(j)'
        BY <2>2, <3>1, <3>3 DEF Rewrites
      <4>2. Coming(j) => Coming(j)'
        BY <1>2, <2>2, <3>1, <3>3 DEF Coming, Good
      <4> QED BY <1>2, <2>2, <3>1, <3>3, <4>1, <4>2, FreshKept
    <3> QED BY <3>2, <3>3
  <2> QED BY <2>3 DEF AllFresh
<1> QED BY <1>4, <1>5

\* A worker drops what it has rewritten, or leaves word that it should be.
LEMMA DropFresh ==
  ASSUME Inv, AllFresh, NEW w \in Workers, DropRewritten(w)
  PROVE  AllFresh'
<1>1. SoundCache(cache) /\ Typed
  BY DEF Inv
<1>2. PICK i : i = rewriting[w].image
  OBVIOUS
<1>3. /\ UNCHANGED <<loader, loading, loaded, results, imageFile, thumbFile>>
      /\ rewriting' = [rewriting EXCEPT ![w] = NotRewriting]
      /\ DOMAIN rewriting = Workers
  BY <1>1 DEF DropRewritten, loaderVars, Typed
<1>4. /\ DOMAIN cache = {"items", "loadQueue", "removeQueue", "endOfLoadedItems",
                         "numQueuedItems", "numLoadedItems"}
      /\ cache.items \in [Known(cache) -> Item]
      /\ \A j \in Known(cache) : cache.items[j] \in Item
  BY <1>1 DEF SoundCache, Shaped
<1>5. /\ Known(cache') \subseteq Known(cache)
      /\ \A j \in Known(cache') \ {i} : cache'.items[j] = cache.items[j]
      /\ i \in Known(cache') => cache'.items[i].status = "QUEUED" \/ cache'.items[i].raced
  <2>1. CASE \E s \in DroppedStatuses : Is(cache, i, s)
    <3>1. cache'.items = [j \in Known(cache) \ {i} |-> cache.items[j]]
      BY <1>2, <2>1 DEF DropRewritten, RemoveItemLocked
    <3> QED BY <3>1 DEF Known
  <2>2. CASE Is(cache, i, "IN_PROGRESS")
    <3>1. ~\E s \in DroppedStatuses : Is(cache, i, s)
      BY <2>2 DEF DroppedStatuses, Is
    <3>2. cache' = [cache EXCEPT !.items[i].raced = TRUE]
      BY <1>2, <2>2, <3>1 DEF DropRewritten
    <3>3. cache'.items = [cache.items EXCEPT ![i].raced = TRUE]
      BY <1>4, <3>2
    <3> QED BY <1>4, <3>3 DEF Known, Item
  <2>3. CASE ~(\E s \in DroppedStatuses : Is(cache, i, s)) /\ ~Is(cache, i, "IN_PROGRESS")
    <3>1. cache' = cache
      BY <1>2, <2>3 DEF DropRewritten
    <3>2. i \in Known(cache) => cache.items[i].status = "QUEUED"
      BY <1>4, <2>3 DEF DroppedStatuses, Is, Item, Statuses
    <3> QED BY <3>1, <3>2
  <2> QED BY <2>1, <2>2, <2>3
<1>6. ASSUME NEW j \in Known(cache') PROVE Fresh(j)'
  <2>1. CASE j = i
    BY <1>5, <2>1 DEF Fresh
  <2>2. CASE j # i
    <3>1. Rewrites(j) => Rewrites(j)'
      BY <1>2, <1>3, <2>2 DEF Rewrites
    <3>2. Coming(j) => Coming(j)'
      BY <1>3 DEF Coming, Good
    <3>3. Fresh(j)
      BY <1>5 DEF AllFresh
    <3> QED BY <1>3, <1>5, <2>2, <3>1, <3>2, <3>3, FreshKept
  <2> QED BY <2>1, <2>2
<1> QED BY <1>6 DEF AllFresh

\* What is in memory is on disk, unless the worker that replaced it is about to
\* drop it, could not write the thumbnail, or raced with the loader.
THEOREM StaleOnlyForAWhile == Spec => []StaleOnlyByAcceptedRace
<1>1. Init => AllFresh
  BY DEF Init, EmptyCache, AllFresh, Known
<1>2. Inv /\ AllFresh /\ [Next]_vars => AllFresh'
  <2> SUFFICES ASSUME Inv, AllFresh, [Next]_vars PROVE AllFresh'
    OBVIOUS
  <2>1. CASE UNCHANGED vars
    <3>1. Destroyed \/ UNCHANGED <<cache, loader, loading, loaded, imageFile, thumbFile,
                                   rewriting, results>>
      BY <2>1 DEF vars
    <3> QED BY <3>1, GuiFresh, QuietFresh
  <2>2. CASE Loader
    BY <2>2, TakesFresh, LoaderFresh, IdleFresh DEF Loader
  <2>3. CASE \E w \in Workers : Worker(w)
    BY <2>3, WritesFresh, DropFresh DEF Worker
  <2> QED BY <2>1, <2>2, <2>3, GuiFresh, ResultFresh, IdleFresh, WritesFresh DEF Next
<1>3. AllFresh => StaleOnlyByAcceptedRace
  BY DEF AllFresh, Fresh, Good, StaleOnlyByAcceptedRace, InStatus
<1> QED BY <1>1, <1>2, <1>3, AlwaysSound, PTL DEF Spec
=============================================================================
