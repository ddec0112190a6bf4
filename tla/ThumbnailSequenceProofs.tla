---------------------- MODULE ThumbnailSequenceProofs ----------------------
(***************************************************************************)
(* The thumbnail list is sound, whatever images a project has and however  *)
(* long a session: loops over the selected items see all of them, one of   *)
(* them is the leader, which is the only one flagged, and of the image     *)
(* that the window shows; another stage or another order keeps what is     *)
(* selected; and the list is in order, as far as it has heard of changes.  *)
(***************************************************************************)
EXTENDS ThumbnailSequence, SequenceTheorems, FiniteSetTheorems, WellFoundedInduction, TLAPS

-----------------------------------------------------------------------------
(* Numbers and recursion.                                                  *)

\* A non-empty set of natural numbers has a least element.
LEMMA LeastNatural ==
  ASSUME NEW S \in SUBSET Nat, S # {}
  PROVE  \E t \in S : \A u \in S : t <= u
<1> DEFINE R == {ss \in Nat \X Nat : ss[1] < ss[2]}
<1>1. IsWellFoundedOn(R, Nat)
  BY NatLessThanWellFounded DEF OpToRel
<1>2. PICK t \in S : \A u \in S : ~ (<<u, t>> \in R)
  <2> HIDE DEF R
  <2> QED BY <1>1, WFMin
<1>3. ASSUME NEW u \in S PROVE t <= u
  <2>1. u \in Nat /\ t \in Nat
    OBVIOUS
  <2>2. <<u, t>> \in Nat \X Nat /\ <<u, t>>[1] = u /\ <<u, t>>[2] = t
    BY <2>1
  <2>3. ~ (u < t)
    BY <1>2, <2>2
  <2> QED BY <2>1, <2>3
<1> QED
  BY <1>3

\* Induction up to n, for a set: it has all numbers if it has 0 and, with any
\* number below n, the next one.
LEMMA UpTo ==
  ASSUME NEW n \in Nat, NEW P, 0 \in P,
         \A k \in 0..n : k < n /\ k \in P => k + 1 \in P
  PROVE  \A k \in 0..n : k \in P
<1> DEFINE Bad == {k \in 0..n : k \notin P}
<1>1. SUFFICES ASSUME Bad # {} PROVE FALSE
  OBVIOUS
<1>2. Bad \in SUBSET Nat
  OBVIOUS
<1>3. PICK t \in Bad : \A u \in Bad : t <= u
  <2> HIDE DEF Bad
  <2> QED BY <1>1, <1>2, LeastNatural
<1>4. t \in 0..n /\ t \notin P /\ t # 0
  OBVIOUS
<1>5. t - 1 \in 0..n /\ t - 1 < n /\ t - 1 \in P
  BY <1>3, <1>4
<1> QED
  BY <1>4, <1>5

\* A function defined by a first value and a step from each value to the next.
Follows(f, n, base, step) ==
  f[0] = base /\ \A k \in 1..n : f[k] = step[<<k, f[k - 1]>>]
LEMMA StepByStep ==
  ASSUME NEW n, n \in Nat, NEW T, NEW base, base \in T,
         NEW step, step \in [(1..n) \X T -> T]
  PROVE  \E f \in [0..n -> T] : Follows(f, n, base, step)
<1> DEFINE Is(f, m) == /\ f \in [0..m -> T] /\ f[0] = base
                       /\ \A k \in 1..m : f[k] = step[<<k, f[k - 1]>>]
           P == {m \in 0..n : \E f : Is(f, m)}
<1>1. 0 \in P
  <2> DEFINE f == [k \in 0..0 |-> base]
  <2>1. Is(f, 0)
    OBVIOUS
  <2>2. \E h : Is(h, 0)
    <3> HIDE DEF Is, f
    <3> QED BY <2>1
  <2>3. 0 \in 0..n
    OBVIOUS
  <2> HIDE DEF Is
  <2> QED BY <2>2, <2>3
<1>2. ASSUME NEW m \in 0..n, m < n, m \in P PROVE m + 1 \in P
  <2>1. PICK f : Is(f, m)
    BY <1>2
  <2> DEFINE g == [k \in 0..(m + 1) |-> IF k = m + 1 THEN step[<<m + 1, f[m]>>] ELSE f[k]]
  <2>2. step[<<m + 1, f[m]>>] \in T
    <3>1. f[m] \in T /\ m + 1 \in 1..n
      BY <1>2, <2>1
    <3> QED BY <3>1
  <2>3. g \in [0..(m + 1) -> T] /\ g[0] = base
    BY <2>1, <2>2
  <2>4. ASSUME NEW k \in 1..(m + 1)
        PROVE  g[k] = step[<<k, g[k - 1]>>]
    <3>1. CASE k = m + 1
      <4>1. g[m + 1] = step[<<m + 1, f[m]>>] /\ g[m] = f[m] /\ k - 1 = m
        BY <3>1
      <4> HIDE DEF g
      <4> QED BY <3>1, <4>1
    <3>2. CASE k # m + 1
      <4>1. k \in 1..m /\ g[k] = f[k] /\ g[k - 1] = f[k - 1]
        BY <3>2
      <4>2. f[k] = step[<<k, f[k - 1]>>]
        BY <2>1, <4>1
      <4> HIDE DEF g
      <4> QED BY <4>1, <4>2
    <3> QED BY <3>1, <3>2
  <2>5. \E h : Is(h, m + 1)
    <3>1. Is(g, m + 1)
      <4> HIDE DEF g
      <4> QED BY <2>3, <2>4
    <3> HIDE DEF Is, g
    <3> QED BY <3>1
  <2>6. m + 1 \in 0..n
    BY <1>2
  <2> HIDE DEF Is
  <2> QED BY <2>5, <2>6
<1>3. \A k \in 0..n : k \in P
  <2> HIDE DEF P
  <2> QED BY <1>1, <1>2, UpTo
<1>4. n \in P
  <2> HIDE DEF P
  <2> QED BY <1>3
<1> QED
  BY <1>4 DEF Follows
-----------------------------------------------------------------------------
(* Sequences.                                                              *)

\* Among(s, A) takes items of s at growing places, all those that are in A.
LEMMA AmongTakes ==
  ASSUME NEW S, NEW s \in Seq(S), NEW A
  PROVE  LET r == Among(s, A)
         IN /\ r \in Seq(S)
            /\ \E at \in [1..Len(r) -> 1..Len(s)] :
                 /\ \A k \in 1..Len(r) : r[k] = s[at[k]] /\ r[k] \in A
                 /\ \A j, k \in 1..Len(r) : j < k => at[j] < at[k]
                 /\ \A i \in 1..Len(s) : s[i] \in A => \E k \in 1..Len(r) : at[k] = i
<1> DEFINE N == Len(s)
           Next1(n, r) == IF s[n] \in A THEN Append(r, s[n]) ELSE r
           Def(f) == f = [n \in 0..N |-> IF n = 0 THEN <<>>
                                       ELSE IF s[n] \in A THEN Append(f[n - 1], s[n])
                                                          ELSE f[n - 1]]
           step == [x \in (1..N) \X Seq(S) |-> Next1(x[1], x[2])]
<1>1. N \in Nat /\ DOMAIN s = 1..N /\ \A n \in 1..N : s[n] \in S
  BY LenProperties, ElementOfSeq
<1>2. \A n \in 1..N, r \in Seq(S) : Next1(n, r) \in Seq(S) /\ step[<<n, r>>] = Next1(n, r)
  BY <1>1, AppendProperties
<1>3. \E f : Def(f)
  <2>1. <<>> \in Seq(S) /\ step \in [(1..N) \X Seq(S) -> Seq(S)]
    BY <1>2, EmptySeq
  <2>2. PICK f \in [0..N -> Seq(S)] :
          f[0] = <<>> /\ \A k \in 1..N : f[k] = step[<<k, f[k - 1]>>]
    <3> DEFINE T == Seq(S)
               e == <<>>
    <3>1. N \in Nat /\ e \in T /\ step \in [(1..N) \X T -> T]
      BY <1>1, <2>1
    <3>2. \E f \in [0..N -> T] : Follows(f, N, e, step)
      <4> HIDE DEF N, step, T, e
      <4> QED BY <3>1, StepByStep
    <3> QED BY <3>2 DEF Follows
  <2>3. \A k \in 0..N : f[k] \in Seq(S)
    OBVIOUS
  <2>4. \A k \in 1..N : f[k] = Next1(k, f[k - 1])
    <3> SUFFICES ASSUME NEW k \in 1..N PROVE f[k] = Next1(k, f[k - 1])
      OBVIOUS
    <3>1. k - 1 \in 0..N
      BY <1>1
    <3>2. f[k - 1] \in Seq(S)
      BY <2>3, <3>1
    <3> HIDE DEF step, Next1, N
    <3> QED BY <1>2, <2>2, <3>2
  <2>5. f = [n \in 0..N |-> f[n]]
    BY <2>2
  <2>6. \A n \in 0..N : f[n] = IF n = 0 THEN <<>>
                                ELSE IF s[n] \in A THEN Append(f[n - 1], s[n]) ELSE f[n - 1]
    <3> TAKE n \in 0..N
    <3>1. CASE n = 0
      BY <2>2, <3>1
    <3>2. CASE n # 0
      <4>1. n \in 1..N
        BY <1>1, <3>2
      <4> QED BY <2>4, <3>2, <4>1
    <3> QED BY <3>1, <3>2
  <2>7. Def(f)
    <3> HIDE DEF N
    <3> QED BY <2>5, <2>6
  <2> HIDE DEF Def
  <2> QED BY <2>7
<1> DEFINE f == CHOOSE h : Def(h)
<1>4. Def(f)
  <2> HIDE DEF Def
  <2> QED BY <1>3
<1>5. Among(s, A) = f[N]
  BY DEF Among
<1> HIDE DEF f
<1>6. f[0] = <<>> /\ \A n \in 1..N : f[n] = Next1(n, f[n - 1])
  <2>1. f[0] = <<>>
    <3>1. 0 \in 0..N
      BY <1>1
    <3> HIDE DEF N
    <3> QED BY <1>4, <3>1
  <2>2. ASSUME NEW n \in 1..N PROVE f[n] = Next1(n, f[n - 1])
    <3>1. n \in 0..N /\ n # 0
      BY <1>1
    <3> HIDE DEF N
    <3> QED BY <1>4, <3>1
  <2> QED BY <2>1, <2>2
<1> DEFINE Along(at, r, n) ==
             /\ \A k \in 1..Len(r) : r[k] = s[at[k]] /\ r[k] \in A
             /\ \A j, k \in 1..Len(r) : j < k => at[j] < at[k]
             /\ \A i \in 1..n : s[i] \in A => \E k \in 1..Len(r) : at[k] = i
           Good(r, n) ==
             /\ r \in Seq(S)
             /\ \E at \in [1..Len(r) -> 1..n] : Along(at, r, n)
           P == {n \in 0..N : Good(f[n], n)}
<1> HIDE DEF Def
<1>7. 0 \in P
  <2>1. Good(<<>>, 0)
    <3> DEFINE at == [k \in 1..0 |-> 0]
               e == <<>>
    <3>1. Len(e) = 0 /\ e \in Seq(S)
      BY EmptySeq
    <3>2. at \in [1..Len(e) -> 1..0]
      BY <3>1
    <3>3. Along(at, e, 0)
      <4> HIDE DEF e
      <4> QED BY <3>1
    <3>4. Good(e, 0)
      <4> HIDE DEF e, at, Along
      <4> QED BY <3>1, <3>2, <3>3
    <3> QED BY <3>4
  <2> HIDE DEF Good
  <2> QED BY <1>1, <1>6, <2>1
<1>8. ASSUME NEW n \in 0..N, n < N, n \in P PROVE n + 1 \in P
  <2>1. n + 1 \in 1..N /\ n + 1 \in 0..N /\ (n + 1) - 1 = n
    BY <1>1, <1>8
  <2> DEFINE r == f[n]
             q == f[n + 1]
             m == Len(r)
  <2>2. q = Next1(n + 1, r)
    <3> HIDE DEF Next1, N, P
    <3> QED BY <1>6, <2>1
  <2>3. r \in Seq(S) /\ m \in Nat
    BY <1>8, LenProperties
  <2>4. PICK at \in [1..m -> 1..n] :
          /\ \A k \in 1..m : r[k] = s[at[k]] /\ r[k] \in A
          /\ \A j, k \in 1..m : j < k => at[j] < at[k]
          /\ \A i \in 1..n : s[i] \in A => \E k \in 1..m : at[k] = i
    BY <1>8
  <2>5. \A k \in 1..m : at[k] \in 1..n
    BY <2>4
  <2>6. CASE s[n + 1] \in A
    <3> DEFINE to == [k \in 1..(m + 1) |-> IF k = m + 1 THEN n + 1 ELSE at[k]]
    <3>1. /\ q \in Seq(S) /\ Len(q) = m + 1 /\ q[m + 1] = s[n + 1]
          /\ \A k \in 1..m : q[k] = r[k]
      <4>1. q = Append(r, s[n + 1])
        BY <2>2, <2>6
      <4>2. s[n + 1] \in S
        BY <1>1, <2>1
      <4> HIDE DEF q, r
      <4> QED BY <2>3, <4>1, <4>2, AppendProperties
    <3> HIDE DEF q, r, m
    <3>2. to \in [1..(m + 1) -> 1..(n + 1)]
      BY <2>1, <2>3, <2>5
    <3>3. \A k \in 1..m : to[k] = at[k]
      BY <2>3
    <3>4. to[m + 1] = n + 1
      BY <2>3
    <3> HIDE DEF to
    <3>5. \A k \in 1..(m + 1) : q[k] = s[to[k]] /\ q[k] \in A
      <4> TAKE k \in 1..(m + 1)
      <4>1. CASE k = m + 1
        BY <2>6, <3>1, <3>4, <4>1
      <4>2. CASE k # m + 1
        <5>1. k \in 1..m
          BY <2>3, <4>2
        <5> QED BY <2>4, <3>1, <3>3, <5>1
      <4> QED BY <4>1, <4>2
    <3>6. \A j, k \in 1..(m + 1) : j < k => to[j] < to[k]
      <4> SUFFICES ASSUME NEW j \in 1..(m + 1), NEW k \in 1..(m + 1), j < k
                   PROVE  to[j] < to[k]
        OBVIOUS
      <4>1. j \in 1..m /\ to[j] = at[j] /\ at[j] \in 1..n
        BY <2>3, <2>5, <3>3
      <4>2. CASE k = m + 1
        BY <3>4, <4>1, <4>2
      <4>3. CASE k # m + 1
        BY <2>3, <2>4, <3>3, <4>1, <4>3
      <4> QED BY <4>2, <4>3
    <3>7. \A i \in 1..(n + 1) : s[i] \in A => \E k \in 1..(m + 1) : to[k] = i
      <4> SUFFICES ASSUME NEW i \in 1..(n + 1), s[i] \in A
                   PROVE  \E k \in 1..(m + 1) : to[k] = i
        OBVIOUS
      <4>1. CASE i = n + 1
        BY <2>3, <3>4, <4>1
      <4>2. CASE i # n + 1
        <5>1. PICK k \in 1..m : at[k] = i
          BY <2>4, <4>2
        <5> QED BY <2>3, <3>3, <5>1
      <4> QED BY <4>1, <4>2
    <3>8. Along(to, q, n + 1) /\ to \in [1..Len(q) -> 1..(n + 1)]
      BY <3>1, <3>2, <3>5, <3>6, <3>7
    <3>9. Good(q, n + 1)
      <4> HIDE DEF Along
      <4> QED BY <3>1, <3>8
    <3> HIDE DEF Good
    <3> QED BY <2>1, <3>9 DEF q
  <2>7. CASE s[n + 1] \notin A
    <3>1. q = r
      BY <2>2, <2>7
    <3> HIDE DEF q, r, m
    <3>2. at \in [1..m -> 1..(n + 1)]
      BY <2>1, <2>4, <2>5
    <3>3. \A i \in 1..(n + 1) : s[i] \in A => \E k \in 1..m : at[k] = i
      BY <2>4, <2>7
    <3>4. Along(at, r, n + 1) /\ at \in [1..Len(r) -> 1..(n + 1)]
      BY <2>3, <2>4, <3>2, <3>3 DEF m
    <3>5. Good(r, n + 1)
      <4> HIDE DEF Along
      <4> QED BY <2>3, <3>4
    <3> HIDE DEF Good
    <3> QED BY <2>1, <3>1, <3>5 DEF q
  <2> QED BY <2>6, <2>7
<1>9. Good(f[N], N)
  <2>1. \A n \in 0..N : n \in P
    <3> HIDE DEF P, N
    <3> QED BY <1>1, <1>7, <1>8, UpTo
  <2>2. N \in P
    <3> HIDE DEF P, N
    <3> QED BY <1>1, <2>1
  <2> QED BY <2>2
<1> QED
  BY <1>5, <1>9

\* Among() keeps exactly what is in A, and each item once.
LEMMA AmongFacts ==
  ASSUME NEW S, NEW s \in Seq(S), NEW A
  PROVE  /\ Among(s, A) \in Seq(S)
         /\ Range(Among(s, A)) = Range(s) \cap A
         /\ IsInjective(s) => IsInjective(Among(s, A))
<1> DEFINE r == Among(s, A)
           n == Len(r)
           N == Len(s)
<1>1. r \in Seq(S) /\ n \in Nat /\ N \in Nat /\ DOMAIN r = 1..n /\ DOMAIN s = 1..N
  BY AmongTakes, LenProperties
<1>2. PICK at \in [1..n -> 1..N] :
        /\ \A k \in 1..n : r[k] = s[at[k]] /\ r[k] \in A
        /\ \A j, k \in 1..n : j < k => at[j] < at[k]
        /\ \A i \in 1..N : s[i] \in A => \E k \in 1..n : at[k] = i
  BY AmongTakes
<1> HIDE DEF r, n, N
<1>3. \A k \in 1..n : at[k] \in 1..N
  BY <1>2
<1>4. Range(r) = Range(s) \cap A
  <2>1. ASSUME NEW k \in 1..n PROVE r[k] \in Range(s) \cap A
    BY <1>1, <1>2, <1>3 DEF Range
  <2>2. ASSUME NEW i \in 1..N, s[i] \in A PROVE s[i] \in Range(r)
    <3>1. PICK k \in 1..n : at[k] = i
      BY <1>2, <2>2
    <3> QED BY <1>1, <1>2, <3>1 DEF Range
  <2> QED BY <1>1, <2>1, <2>2 DEF Range
<1>5. ASSUME IsInjective(s) PROVE IsInjective(r)
  <2> SUFFICES ASSUME NEW j \in 1..n, NEW k \in 1..n, r[j] = r[k] PROVE j = k
    BY <1>1 DEF IsInjective
  <2>1. at[j] = at[k]
    BY <1>1, <1>2, <1>3, <1>5 DEF IsInjective
  <2>2. at[j] \in Int /\ j \in Int /\ k \in Int
    BY <1>3
  <2> QED BY <1>2, <2>1, <2>2
<1> QED
  BY <1>1, <1>4, <1>5 DEF r

LEMMA ExceptFacts ==
  ASSUME NEW S, NEW s \in Seq(S), NEW A
  PROVE  /\ Except(s, A) \in Seq(S)
         /\ Range(Except(s, A)) = Range(s) \ A
         /\ IsInjective(s) => IsInjective(Except(s, A))
<1>1. Range(s) \cap (Range(s) \ A) = Range(s) \ A
  OBVIOUS
<1> QED
  BY <1>1, AmongFacts DEF Except

\* In s, what is in A comes first.
Ahead(s, A) == \A i, j \in DOMAIN s : i < j /\ s[j] \in A => s[i] \in A

LEMMA AmongAhead ==
  ASSUME NEW S, NEW s \in Seq(S), NEW A, NEW B, Ahead(s, B)
  PROVE  Ahead(Among(s, A), B)
<1> DEFINE r == Among(s, A)
           n == Len(r)
           N == Len(s)
<1>1. r \in Seq(S) /\ n \in Nat /\ N \in Nat /\ DOMAIN r = 1..n /\ DOMAIN s = 1..N
  BY AmongTakes, LenProperties
<1>2. PICK at \in [1..n -> 1..N] :
        /\ \A k \in 1..n : r[k] = s[at[k]]
        /\ \A j, k \in 1..n : j < k => at[j] < at[k]
  BY AmongTakes
<1> HIDE DEF r, n, N
<1>3. \A k \in 1..n : at[k] \in 1..N
  BY <1>2
<1> QED
  BY <1>1, <1>2, <1>3 DEF Ahead, r

\* Joining sequences that have nothing in common, what is in A being in s only.
LEMMA Joined ==
  ASSUME NEW S, NEW s \in Seq(S), NEW t \in Seq(S)
  PROVE  /\ s \o t \in Seq(S)
         /\ Range(s \o t) = Range(s) \cup Range(t)
         /\ IsInjective(s) /\ IsInjective(t) /\ Range(s) \cap Range(t) = {}
              => IsInjective(s \o t)
<1> DEFINE r == s \o t
           m == Len(s)
           n == Len(t)
<1>1. /\ m \in Nat /\ n \in Nat /\ DOMAIN s = 1..m /\ DOMAIN t = 1..n
      /\ r \in Seq(S) /\ DOMAIN r = 1..(m + n)
      /\ \A i \in 1..(m + n) : r[i] = IF i <= m THEN s[i] ELSE t[i - m]
  BY ConcatProperties, LenProperties
<1>2. Range(r) = Range(s) \cup Range(t)
  BY RangeConcatenation
<1> HIDE DEF r, m, n
<1>3. ASSUME IsInjective(s), IsInjective(t), Range(s) \cap Range(t) = {}
      PROVE  IsInjective(r)
  <2> SUFFICES ASSUME NEW i \in 1..(m + n), NEW j \in 1..(m + n), r[i] = r[j]
               PROVE  i = j
    BY <1>1 DEF IsInjective
  <2>1. ASSUME NEW k \in 1..(m + n), k <= m
        PROVE  k \in DOMAIN s /\ r[k] = s[k] /\ r[k] \in Range(s)
    BY <1>1, <2>1 DEF Range
  <2>2. ASSUME NEW k \in 1..(m + n), ~(k <= m)
        PROVE  k - m \in DOMAIN t /\ r[k] = t[k - m] /\ r[k] \in Range(t)
    <3>1. k - m \in DOMAIN t /\ r[k] = t[k - m]
      BY <1>1, <2>2
    <3> QED BY <3>1 DEF Range
  <2>3. (i <= m) <=> (j <= m)
    BY <1>3, <2>1, <2>2
  <2>4. CASE i <= m
    <3>1. i \in DOMAIN s /\ j \in DOMAIN s /\ s[i] = s[j]
      BY <2>1, <2>3, <2>4
    <3> QED BY <1>3, <3>1 DEF IsInjective
  <2>5. CASE ~(i <= m)
    <3>1. i - m \in DOMAIN t /\ j - m \in DOMAIN t /\ t[i - m] = t[j - m]
      BY <2>2, <2>3, <2>5
    <3>2. i - m = j - m
      BY <1>3, <3>1 DEF IsInjective
    <3> QED BY <1>1, <3>2
  <2> QED BY <2>4, <2>5
<1> QED
  BY <1>1, <1>2, <1>3 DEF r

\* What is in A comes first in s and t joined if it does in s and is not in t,
\* or if s has nothing else and it does in t.
LEMMA JoinedAhead ==
  ASSUME NEW S, NEW s \in Seq(S), NEW t \in Seq(S), NEW A,
         \/ Ahead(s, A) /\ Range(t) \cap A = {}
         \/ Ahead(t, A) /\ Range(s) \subseteq A
  PROVE  Ahead(s \o t, A)
<1> DEFINE r == s \o t
           m == Len(s)
           n == Len(t)
<1>1. /\ m \in Nat /\ n \in Nat /\ DOMAIN s = 1..m /\ DOMAIN t = 1..n
      /\ DOMAIN r = 1..(m + n)
      /\ \A i \in 1..(m + n) : r[i] = IF i <= m THEN s[i] ELSE t[i - m]
  BY ConcatProperties, LenProperties
<1> HIDE DEF r, m, n
<1> SUFFICES ASSUME NEW i \in 1..(m + n), NEW j \in 1..(m + n), i < j, r[j] \in A
             PROVE  r[i] \in A
  BY <1>1 DEF Ahead, r
<1>2. ASSUME NEW k \in 1..(m + n), k <= m
      PROVE  k \in DOMAIN s /\ r[k] = s[k] /\ r[k] \in Range(s)
  BY <1>1, <1>2 DEF Range
<1>3. ASSUME NEW k \in 1..(m + n), ~(k <= m)
      PROVE  k - m \in DOMAIN t /\ r[k] = t[k - m] /\ r[k] \in Range(t)
  <2>1. k - m \in DOMAIN t /\ r[k] = t[k - m]
    BY <1>1, <1>3
  <2> QED BY <2>1 DEF Range
<1>4. CASE Ahead(s, A) /\ Range(t) \cap A = {}
  <2>1. j <= m
    BY <1>3, <1>4
  <2>2. i <= m
    BY <1>1, <2>1
  <2>3. s[j] \in A /\ i \in DOMAIN s /\ j \in DOMAIN s /\ r[i] = s[i]
    BY <1>2, <2>1, <2>2
  <2> QED BY <1>4, <2>3 DEF Ahead
<1>5. CASE Ahead(t, A) /\ Range(s) \subseteq A
  <2>1. CASE i <= m
    BY <1>2, <1>5, <2>1
  <2>2. CASE ~(i <= m)
    <3>1. ~(j <= m)
      BY <1>1, <2>2
    <3>2. /\ i - m \in DOMAIN t /\ j - m \in DOMAIN t /\ t[j - m] \in A
          /\ r[i] = t[i - m] /\ i - m < j - m
      BY <1>1, <1>3, <2>2, <3>1
    <3> QED BY <1>5, <3>2 DEF Ahead
  <2> QED BY <2>1, <2>2
<1> QED
  BY <1>4, <1>5

\* A sequence of one item, and one turned around.
LEMMA OneItem ==
  ASSUME NEW S, NEW p \in S
  PROVE  <<p>> \in Seq(S) /\ IsInjective(<<p>>) /\ Range(<<p>>) = {p} /\ Len(<<p>>) = 1
<1> DEFINE q == <<p>>
<1>1. q \in Seq(S) /\ Len(q) = 1 /\ q[1] = p /\ DOMAIN q = 1..1
  OBVIOUS
<1> HIDE DEF q
<1>2. IsInjective(q) /\ Range(q) = {p}
  BY <1>1 DEF IsInjective, Range
<1> QED
  BY <1>1, <1>2 DEF q

LEMMA ReverseFacts ==
  ASSUME NEW S, NEW s \in Seq(S)
  PROVE  /\ Reverse(s) \in Seq(S) /\ Len(Reverse(s)) = Len(s)
         /\ Range(Reverse(s)) = Range(s)
         /\ IsInjective(s) => IsInjective(Reverse(s))
<1> DEFINE r == Reverse(s)
           n == Len(s)
<1>1. n \in Nat /\ DOMAIN s = 1..n /\ \A i \in 1..n : s[i] \in S
  BY LenProperties, ElementOfSeq
<1>2. \A i \in 1..n : (n - i) + 1 \in 1..n
  BY <1>1
<1>3. r \in [1..n -> S] /\ \A i \in 1..n : r[i] = s[(n - i) + 1]
  <2> HIDE DEF n
  <2> QED BY <1>1, <1>2 DEF Reverse, n
<1>4. r \in Seq(S) /\ Len(r) = n /\ DOMAIN r = 1..n
  <2> HIDE DEF r, n
  <2>1. r \in Seq(S)
    BY <1>1, <1>3, IsASeq
  <2> QED BY <1>1, <1>3, <2>1, LenProperties
<1> HIDE DEF r, n
<1>5. Range(r) = Range(s)
  <2>1. \A i \in 1..n : r[i] \in Range(s)
    BY <1>1, <1>2, <1>3 DEF Range
  <2>2. ASSUME NEW i \in 1..n PROVE s[i] \in Range(r)
    <3> DEFINE k == (n - i) + 1
    <3>1. k \in 1..n /\ (n - k) + 1 = i
      BY <1>1
    <3> HIDE DEF k
    <3> QED BY <1>3, <1>4, <3>1 DEF Range
  <2> QED BY <1>1, <1>4, <2>1, <2>2 DEF Range
<1>6. ASSUME IsInjective(s) PROVE IsInjective(r)
  <2> SUFFICES ASSUME NEW i \in 1..n, NEW j \in 1..n, r[i] = r[j] PROVE i = j
    BY <1>4 DEF IsInjective
  <2>1. (n - i) + 1 = (n - j) + 1
    BY <1>1, <1>2, <1>3, <1>6 DEF IsInjective
  <2> QED BY <1>1, <2>1
<1> QED
  BY <1>4, <1>5, <1>6 DEF r, n

\* A part of a sequence.
Items(s, m, n) == {s[i] : i \in m..n}

LEMMA PartFacts ==
  ASSUME NEW S, NEW s \in Seq(S), NEW m, m \in Int, NEW n, n \in Int, 1 <= m, n <= Len(s)
  PROVE  /\ SubSeq(s, m, n) \in Seq(S)
         /\ Range(SubSeq(s, m, n)) = Items(s, m, n)
         /\ IsInjective(s) => IsInjective(SubSeq(s, m, n))
<1> DEFINE r == SubSeq(s, m, n)
           N == Len(s)
           L == IF m <= n THEN n - m + 1 ELSE 0
<1>1. N \in Nat /\ DOMAIN s = 1..N /\ \A i \in 1..N : s[i] \in S
  BY LenProperties, ElementOfSeq
<1>2. m..n \subseteq 1..N
  BY <1>1
<1>3. /\ r \in Seq(S) /\ Len(r) = L
      /\ \A i \in 1..(n - m + 1) : r[i] = s[m + i - 1]
  BY <1>1, <1>2, SubSeqProperties
<1>4. DOMAIN r = 1..L /\ L \in Nat /\ 1..L = 1..(n - m + 1)
  BY <1>3, LenProperties
<1> HIDE DEF r, N, L
<1>5. Range(r) = {s[i] : i \in m..n}
  <2>1. ASSUME NEW i \in DOMAIN r PROVE r[i] \in {s[j] : j \in m..n}
    <3>1. i \in 1..(n - m + 1) /\ m + i - 1 \in m..n
      BY <1>4
    <3> QED BY <1>3, <3>1
  <2>2. ASSUME NEW j \in m..n PROVE s[j] \in Range(r)
    <3>1. j - m + 1 \in 1..(n - m + 1) /\ m + (j - m + 1) - 1 = j
      OBVIOUS
    <3>2. r[j - m + 1] = s[j]
      BY <1>3, <3>1
    <3> QED BY <1>4, <3>1, <3>2 DEF Range
  <2> QED BY <2>1, <2>2 DEF Range
<1>6. ASSUME IsInjective(s) PROVE IsInjective(r)
  <2> SUFFICES ASSUME NEW i \in DOMAIN r, NEW j \in DOMAIN r, r[i] = r[j] PROVE i = j
    BY DEF IsInjective
  <2>1. /\ i \in 1..(n - m + 1) /\ j \in 1..(n - m + 1)
        /\ m + i - 1 \in 1..N /\ m + j - 1 \in 1..N
    BY <1>2, <1>4
  <2>2. s[m + i - 1] = s[m + j - 1]
    BY <1>3, <2>1
  <2>3. m + i - 1 = m + j - 1
    BY <1>1, <1>6, <2>1, <2>2 DEF IsInjective
  <2> QED BY <2>1, <2>3
<1> QED
  BY <1>3, <1>5, <1>6 DEF r, Items

\* An item put in at some place.
LEMMA InsertFacts ==
  ASSUME NEW S, NEW s \in Seq(S), NEW k, k \in 1..(Len(s) + 1), NEW p \in S
  PROVE  /\ InsertAt(s, k, p) \in Seq(S)
         /\ Range(InsertAt(s, k, p)) = Range(s) \cup {p}
         /\ IsInjective(s) /\ p \notin Range(s) => IsInjective(InsertAt(s, k, p))
<1> DEFINE N == Len(s)
           a == SubSeq(s, 1, k - 1)
           b == SubSeq(s, k, N)
           c == <<p>>
<1>1. N \in Nat /\ DOMAIN s = 1..N /\ k \in Int /\ 1 <= k /\ k - 1 <= N /\ k - 1 \in Int
  BY LenProperties
<1>2. /\ a \in Seq(S) /\ Range(a) = Items(s, 1, k - 1)
      /\ IsInjective(s) => IsInjective(a)
  <2> DEFINE j == k - 1
             one == 1
  <2>1. j \in Int /\ one \in Int /\ 1 <= one /\ j <= Len(s)
    BY <1>1
  <2> HIDE DEF j, one
  <2>2. /\ SubSeq(s, one, j) \in Seq(S) /\ Range(SubSeq(s, one, j)) = Items(s, one, j)
        /\ IsInjective(s) => IsInjective(SubSeq(s, one, j))
    BY <2>1, PartFacts
  <2> QED BY <2>2 DEF j, one
<1>3. /\ b \in Seq(S) /\ Range(b) = Items(s, k, N)
      /\ IsInjective(s) => IsInjective(b)
  <2>1. N \in Int /\ k \in Int /\ 1 <= k /\ N <= Len(s)
    BY <1>1
  <2> HIDE DEF N
  <2>2. /\ SubSeq(s, k, N) \in Seq(S) /\ Range(SubSeq(s, k, N)) = Items(s, k, N)
        /\ IsInjective(s) => IsInjective(SubSeq(s, k, N))
    BY <2>1, PartFacts
  <2> QED BY <2>2
<1>4. c \in Seq(S) /\ IsInjective(c) /\ Range(c) = {p}
  BY OneItem
<1> HIDE DEF N, a, b, c
<1>5. Range(a) \cup Range(b) = Range(s)
  <2>1. Items(s, 1, k - 1) \cup Items(s, k, N) = Items(s, 1, N)
    BY <1>1 DEF Items
  <2>2. Items(s, 1, N) = Range(s)
    BY <1>1 DEF Items, Range
  <2> QED BY <1>2, <1>3, <2>1, <2>2
<1>6. IsInjective(s) => Range(a) \cap Range(b) = {}
  BY <1>1, <1>2, <1>3 DEF IsInjective, Items
<1>7. /\ a \o c \in Seq(S) /\ Range(a \o c) = Range(a) \cup {p}
      /\ IsInjective(s) /\ p \notin Range(s) => IsInjective(a \o c)
  BY <1>2, <1>4, <1>5, Joined
<1>8. /\ (a \o c) \o b \in Seq(S) /\ Range((a \o c) \o b) = Range(s) \cup {p}
      /\ IsInjective(s) /\ p \notin Range(s) => IsInjective((a \o c) \o b)
  <2> DEFINE d == a \o c
  <2>1. Range(d) \cup Range(b) = Range(s) \cup {p}
    BY <1>5, <1>7
  <2>2. IsInjective(s) /\ p \notin Range(s) => Range(d) \cap Range(b) = {}
    BY <1>5, <1>6, <1>7
  <2>3. d \in Seq(S) /\ (IsInjective(s) /\ p \notin Range(s) => IsInjective(d))
    BY <1>7
  <2> HIDE DEF d
  <2>4. /\ d \o b \in Seq(S) /\ Range(d \o b) = Range(s) \cup {p}
        /\ IsInjective(s) /\ p \notin Range(s) => IsInjective(d \o b)
    BY <1>3, <2>1, <2>2, <2>3, Joined
  <2> QED BY <2>4 DEF d
<1> QED
  BY <1>8 DEF InsertAt, N, a, b, c

\* The place of an item.
LEMMA PositionFacts ==
  ASSUME NEW S, NEW l, l.order \in Seq(S), NEW p, p \in Range(l.order)
  PROVE  Position(l, p) \in 1..Len(l.order) /\ l.order[Position(l, p)] = p
<1>1. DOMAIN l.order = 1..Len(l.order)
  BY LenProperties
<1>2. \E i \in DOMAIN l.order : l.order[i] = p
  BY DEF Range
<1> QED
  BY <1>1, <1>2 DEF Position

\* itemInsertPosition() finds a place there is, whatever the order, between two
\* neighbours that the item may stand next to.
LEMMA InsertPlace ==
  ASSUME NEW S, NEW s \in Seq(S), NEW st, NEW inc, NEW p, NEW pInc,
         NEW hint, hint \in 1..(Len(s) + 1)
  PROVE  LET at == ItemInsertPosition(st, inc, s, p, pInc, hint)
         IN /\ at \in 1..(Len(s) + 1)
            /\ ~Natural(st) /\ at > 1 =>
                 \/ Precedes(st, s[at - 1], s[at - 1] \in inc, p, pInc)
                 \/ ~Precedes(st, p, pInc, s[at - 1], s[at - 1] \in inc)
            /\ ~Natural(st) /\ at <= Len(s) =>
                 ~Precedes(st, s[at], s[at] \in inc, p, pInc)
<1> DEFINE N == Len(s)
           After(j) == Precedes(st, p, pInc, s[j], s[j] \in inc)
           Ahd(j) == Precedes(st, s[j], s[j] \in inc, p, pInc)
           start == BackFrom(st, inc, s, p, pInc, hint)
<1>1. N \in Nat /\ hint \in Nat /\ hint >= 1 /\ hint <= N + 1
  BY LenProperties
<1>2. start \in 1..hint /\ (start > 1 => ~After(start - 1))
  <2> DEFINE Back(k) == /\ \A j \in k..hint - 1 : After(j)
                        /\ k > 1 => ~After(k - 1)
             Free(k) == \A j \in k..hint - 1 : After(j)
             K == {k \in 1..hint : Free(k)}
  <2> HIDE DEF After
  <2>1. hint \in K
    BY <1>1
  <2>2. K \in SUBSET Nat /\ K # {}
    <3> HIDE DEF Free
    <3> QED BY <2>1
  <2>3. PICK k \in K : \A u \in K : k <= u
    <3> HIDE DEF K
    <3> QED BY <2>2, LeastNatural
  <2>4. k \in 1..hint /\ Free(k)
    <3> HIDE DEF Free
    <3> QED BY <2>3
  <2>5. ASSUME k > 1 PROVE ~After(k - 1)
    <3> SUFFICES ASSUME After(k - 1) PROVE FALSE
      OBVIOUS
    <3>1. k - 1 \in 1..hint
      BY <1>1, <2>4, <2>5
    <3>2. \A j \in (k - 1)..hint - 1 : After(j)
      <4> TAKE j \in (k - 1)..hint - 1
      <4>1. j = k - 1 \/ j \in k..hint - 1
        BY <1>1, <2>4
      <4> QED BY <2>4, <4>1
    <3>3. k - 1 \in K
      <4>1. Free(k - 1)
        BY <3>2
      <4> HIDE DEF Free
      <4> QED BY <3>1, <4>1
    <3>4. k <= k - 1
      BY <2>3, <3>3
    <3> QED BY <2>4, <3>4
  <2>6. \E i \in 1..hint : Back(i)
    BY <2>4, <2>5
  <2>7. start = CHOOSE i \in 1..hint : Back(i)
    BY DEF BackFrom, After
  <2> HIDE DEF start
  <2>8. start \in 1..hint /\ Back(start)
    <3> HIDE DEF Back
    <3> QED BY <2>6, <2>7
  <2> QED BY <2>8
<1> DEFINE at == ForwardFrom(st, inc, s, p, pInc, start)
<1>3. /\ at \in start..(N + 1)
      /\ \A j \in start..at - 1 : Ahd(j)
      /\ at <= N => ~Ahd(at)
  <2> HIDE DEF at, After
  <2> DEFINE Forth(k) == /\ \A j \in start..k - 1 : Ahd(j)
                         /\ k <= N => ~Ahd(k)
             K == {k \in start..(N + 1) : k <= N => ~Ahd(k)}
  <2> HIDE DEF Ahd, start
  <2>1. N + 1 \in K
    BY <1>1, <1>2
  <2>2. K \in SUBSET Nat /\ K # {}
    BY <1>2, <2>1
  <2>3. PICK k \in K : \A u \in K : k <= u
    <3> HIDE DEF K
    <3> QED BY <2>2, LeastNatural
  <2>4. k \in start..(N + 1) /\ (k <= N => ~Ahd(k))
    BY <2>3
  <2>5. ASSUME NEW j \in start..k - 1 PROVE Ahd(j)
    <3> SUFFICES ASSUME ~Ahd(j) PROVE FALSE
      OBVIOUS
    <3>1. j \in start..(N + 1) /\ j < k
      BY <1>1, <1>2, <2>4, <2>5
    <3>2. j \in K
      BY <3>1
    <3> QED BY <2>3, <3>1, <3>2
  <2>6. \E i \in start..(N + 1) : Forth(i)
    BY <2>4, <2>5
  <2>7. at = CHOOSE i \in start..(N + 1) : Forth(i)
    BY DEF at, ForwardFrom, Ahd
  <2>8. at \in start..(N + 1) /\ Forth(at)
    <3> HIDE DEF Forth
    <3> QED BY <2>6, <2>7
  <2> QED BY <2>8
<1>4. ~Natural(st) => ItemInsertPosition(st, inc, s, p, pInc, hint) = at
  BY DEF ItemInsertPosition
<1>5. Natural(st) => ItemInsertPosition(st, inc, s, p, pInc, hint) = hint
  BY DEF ItemInsertPosition
<1> DEFINE place == ItemInsertPosition(st, inc, s, p, pInc, hint)
<1> HIDE DEF N, start, at, After, Ahd, place
<1>6. at \in 1..(N + 1)
  BY <1>1, <1>2, <1>3
<1>7. at > 1 => Ahd(at - 1) \/ ~After(at - 1)
  <2>1. CASE at = start
    BY <1>2, <2>1
  <2>2. CASE at # start
    <3>1. at - 1 \in start..at - 1
      BY <1>1, <1>2, <1>3, <2>2
    <3> QED BY <1>3, <3>1
  <2> QED BY <2>1, <2>2
<1>8. place \in 1..(N + 1)
  BY <1>1, <1>4, <1>5, <1>6 DEF N, place
<1>9. ~Natural(st) /\ place > 1 => Ahd(place - 1) \/ ~After(place - 1)
  BY <1>4, <1>7 DEF place
<1>10. ~Natural(st) /\ place <= N => ~Ahd(place)
  BY <1>3, <1>4 DEF place
<1> QED
  BY <1>8, <1>9, <1>10 DEF place, N, Ahd, After

\* One step of sorting.
LEMMA PlacedFacts ==
  ASSUME NEW S, NEW s \in Seq(S), NEW st, NEW inc, NEW p \in S
  PROVE  /\ Placed(st, inc, s, p) \in Seq(S)
         /\ Range(Placed(st, inc, s, p)) = Range(s) \cup {p}
         /\ IsInjective(s) /\ p \notin Range(s) => IsInjective(Placed(st, inc, s, p))
<1> DEFINE later == {j \in DOMAIN s : Precedes(st, p, p \in inc, s[j], s[j] \in inc)}
           k == IF later = {} THEN Len(s) + 1 ELSE Min(later)
<1>1. Len(s) \in Nat /\ DOMAIN s = 1..Len(s)
  BY LenProperties
<1>2. later \subseteq DOMAIN s /\ Placed(st, inc, s, p) = InsertAt(s, k, p)
  BY DEF Placed
<1> HIDE DEF later
<1>3. k \in 1..(Len(s) + 1)
  <2>1. CASE later = {}
    BY <1>1, <2>1
  <2>2. CASE later # {}
    <3>1. later \in SUBSET Nat
      BY <1>1, <1>2
    <3>2. \E t \in later : \A u \in later : t <= u
      BY <2>2, <3>1, LeastNatural
    <3>3. Min(later) \in later
      BY <3>2 DEF Min
    <3> QED BY <1>1, <1>2, <2>2, <3>3
  <2> QED BY <2>1, <2>2
<1> HIDE DEF k
<1>4. /\ InsertAt(s, k, p) \in Seq(S)
      /\ Range(InsertAt(s, k, p)) = Range(s) \cup {p}
      /\ IsInjective(s) /\ p \notin Range(s) => IsInjective(InsertAt(s, k, p))
  BY <1>3, InsertFacts
<1> QED
  BY <1>2, <1>4

\* orderItems() places one item after the other.
PlacedInTurn(f, st, inc, s) ==
  /\ f[0] = <<>> /\ \A n \in 1..Len(s) : f[n] = Placed(st, inc, f[n - 1], s[n])
  /\ ~Natural(st) => Sorted(st, inc, s) = f[Len(s)]
LEMMA SortedSteps ==
  ASSUME NEW S, NEW s \in Seq(S), NEW st, NEW inc
  PROVE  \E f : PlacedInTurn(f, st, inc, s)
<1> DEFINE N == Len(s)
           Def(f) == f = [n \in 0..N |-> IF n = 0 THEN <<>> ELSE Placed(st, inc, f[n - 1], s[n])]
           step == [x \in (1..N) \X Seq(S) |-> Placed(st, inc, x[2], s[x[1]])]
<1>1. N \in Nat /\ DOMAIN s = 1..N /\ \A n \in 1..N : s[n] \in S
  BY LenProperties, ElementOfSeq
<1>2. \A n \in 1..N, r \in Seq(S) :
        /\ Placed(st, inc, r, s[n]) \in Seq(S)
        /\ step[<<n, r>>] = Placed(st, inc, r, s[n])
  BY <1>1, PlacedFacts
<1>3. \E f : Def(f)
  <2>1. <<>> \in Seq(S) /\ step \in [(1..N) \X Seq(S) -> Seq(S)]
    BY <1>2, EmptySeq
  <2>2. PICK f \in [0..N -> Seq(S)] :
          f[0] = <<>> /\ \A k \in 1..N : f[k] = step[<<k, f[k - 1]>>]
    <3> DEFINE T == Seq(S)
               e == <<>>
    <3>1. N \in Nat /\ e \in T /\ step \in [(1..N) \X T -> T]
      BY <1>1, <2>1
    <3>2. \E f \in [0..N -> T] : Follows(f, N, e, step)
      <4> HIDE DEF N, step, T, e
      <4> QED BY <3>1, StepByStep
    <3> QED BY <3>2 DEF Follows
  <2>3. \A k \in 1..N : f[k] = Placed(st, inc, f[k - 1], s[k])
    <3> SUFFICES ASSUME NEW k \in 1..N PROVE f[k] = Placed(st, inc, f[k - 1], s[k])
      OBVIOUS
    <3>1. k - 1 \in 0..N
      BY <1>1
    <3>2. f[k - 1] \in Seq(S)
      BY <2>2, <3>1
    <3> HIDE DEF step, N
    <3> QED BY <1>2, <2>2, <3>2
  <2>4. f = [n \in 0..N |-> f[n]]
    BY <2>2
  <2>5. \A n \in 0..N : f[n] = IF n = 0 THEN <<>> ELSE Placed(st, inc, f[n - 1], s[n])
    <3> TAKE n \in 0..N
    <3>1. CASE n = 0
      BY <2>2, <3>1
    <3>2. CASE n # 0
      <4>1. n \in 1..N
        BY <1>1, <3>2
      <4> QED BY <2>3, <3>2, <4>1
    <3> QED BY <3>1, <3>2
  <2>6. Def(f)
    <3> HIDE DEF N
    <3> QED BY <2>4, <2>5
  <2> HIDE DEF Def
  <2> QED BY <2>6
<1> DEFINE f == CHOOSE h : Def(h)
<1>4. Def(f)
  <2> HIDE DEF Def
  <2> QED BY <1>3
<1>5. ~Natural(st) => Sorted(st, inc, s) = f[N]
  BY DEF Sorted
<1> HIDE DEF f
<1>6. f[0] = <<>>
  <2>1. 0 \in 0..N
    BY <1>1
  <2> HIDE DEF N
  <2> QED BY <1>4, <2>1
<1>7. ASSUME NEW n \in 1..N PROVE f[n] = Placed(st, inc, f[n - 1], s[n])
  <2>1. n \in 0..N /\ n # 0
    BY <1>1
  <2> HIDE DEF N
  <2> QED BY <1>4, <2>1
<1> HIDE DEF Def, step, f
<1>8. PlacedInTurn(f, st, inc, s)
  BY <1>5, <1>6, <1>7 DEF PlacedInTurn
<1> QED
  BY <1>8

\* orderItems() keeps the items.
LEMMA SortedFacts ==
  ASSUME NEW S, NEW s \in Seq(S), IsInjective(s), NEW st, NEW inc
  PROVE  /\ Sorted(st, inc, s) \in Seq(S) /\ IsInjective(Sorted(st, inc, s))
         /\ Range(Sorted(st, inc, s)) = Range(s)
<1> DEFINE N == Len(s)
<1>1. N \in Nat /\ DOMAIN s = 1..N /\ \A n \in 1..N : s[n] \in S
  BY LenProperties, ElementOfSeq
<1>2. PICK f : PlacedInTurn(f, st, inc, s)
  BY SortedSteps
<1>3. ~Natural(st) => Sorted(st, inc, s) = f[N]
  BY <1>2 DEF PlacedInTurn
<1>4. f[0] = <<>>
  BY <1>2 DEF PlacedInTurn
<1>5. ASSUME NEW n \in 1..N PROVE f[n] = Placed(st, inc, f[n - 1], s[n])
  BY <1>2 DEF PlacedInTurn
<1> DEFINE Good(r, n) == r \in Seq(S) /\ IsInjective(r) /\ Range(r) = Items(s, 1, n)
           P == {n \in 0..N : Good(f[n], n)}
<1>6. 0 \in P
  <2> DEFINE e == <<>>
  <2>1. e \in Seq(S) /\ Range(e) = {} /\ IsInjective(e) /\ Items(s, 1, 0) = {}
    BY EmptySeq DEF Range, IsInjective, Items
  <2>2. Good(e, 0)
    <3> HIDE DEF e
    <3> QED BY <2>1
  <2> HIDE DEF Good
  <2> QED BY <1>1, <1>4, <2>2
<1>7. ASSUME NEW n \in 0..N, n < N, n \in P PROVE n + 1 \in P
  <2>1. n + 1 \in 1..N /\ n + 1 \in 0..N /\ (n + 1) - 1 = n
    BY <1>1, <1>7
  <2> DEFINE r == f[n]
             q == f[n + 1]
             p == s[n + 1]
  <2>2. q = Placed(st, inc, r, p)
    <3> HIDE DEF N, P
    <3> QED BY <1>5, <2>1
  <2>3. p \in S /\ Good(r, n)
    BY <1>1, <1>7, <2>1
  <2>4. p \notin Items(s, 1, n) /\ Items(s, 1, n + 1) = Items(s, 1, n) \cup {p}
    <3>1. \A i \in 1..(n + 1) : i \in 1..n \/ i = n + 1
      OBVIOUS
    <3>2. \A i \in 1..n : i \in DOMAIN s /\ n + 1 \in DOMAIN s /\ i # n + 1 /\ i \in 1..(n + 1)
      BY <1>1, <2>1
    <3>3. \A i \in 1..n : s[i] # s[n + 1]
      BY <3>2 DEF IsInjective
    <3>4. n + 1 \in 1..(n + 1)
      OBVIOUS
    <3> QED BY <3>1, <3>2, <3>3, <3>4 DEF Items
  <2> HIDE DEF q, r, p
  <2>5. Good(q, n + 1)
    <3>1. /\ Placed(st, inc, r, p) \in Seq(S)
          /\ Range(Placed(st, inc, r, p)) = Range(r) \cup {p}
          /\ IsInjective(r) /\ p \notin Range(r) => IsInjective(Placed(st, inc, r, p))
      <4>1. r \in Seq(S)
        BY <2>3
      <4> HIDE DEF Good
      <4> QED BY <2>3, <4>1, PlacedFacts
    <3> QED BY <2>2, <2>3, <2>4, <3>1
  <2> HIDE DEF Good
  <2> QED BY <2>1, <2>5 DEF q
<1>8. Good(f[N], N)
  <2>1. \A n \in 0..N : n \in P
    <3> HIDE DEF P, N
    <3> QED BY <1>1, <1>6, <1>7, UpTo
  <2>2. N \in P
    <3> HIDE DEF P, N
    <3> QED BY <1>1, <2>1
  <2> QED BY <2>2
<1>9. Items(s, 1, N) = Range(s)
  BY <1>1 DEF Items, Range
<1>10. CASE Natural(st)
  BY <1>10 DEF Sorted
<1>11. CASE ~Natural(st)
  BY <1>3, <1>8, <1>9, <1>11
<1> QED
  BY <1>10, <1>11

\* What the first n of some sequences have.
AllOf(seqs, n) == UNION {Range(seqs[i]) : i \in 1..n}

\* Sequences without repetitions, and with nothing in common, one after another.
LEMMA FlattenFacts ==
  ASSUME NEW S, NEW seqs \in Seq(Seq(S)),
         \A i \in 1..Len(seqs) : IsInjective(seqs[i]),
         \A i, j \in 1..Len(seqs) : i # j => Range(seqs[i]) \cap Range(seqs[j]) = {}
  PROVE  /\ FlattenSeq(seqs) \in Seq(S) /\ IsInjective(FlattenSeq(seqs))
         /\ Range(FlattenSeq(seqs)) = AllOf(seqs, Len(seqs))
<1> DEFINE N == Len(seqs)
           Def(f) == f = [i \in 1..N |-> IF i = 1 THEN seqs[i] ELSE f[i - 1] \o seqs[i]]
           step == [x \in (1..N) \X Seq(S) |-> x[2] \o seqs[x[1]]]
<1>1. N \in Nat /\ DOMAIN seqs = 1..N /\ \A n \in 1..N : seqs[n] \in Seq(S)
  BY LenProperties, ElementOfSeq
<1>2. \A n \in 1..N, r \in Seq(S) :
        /\ r \o seqs[n] \in Seq(S)
        /\ step[<<n, r>>] = r \o seqs[n]
  BY <1>1, ConcatProperties
<1>3. \E f : Def(f)
  <2>1. <<>> \in Seq(S) /\ step \in [(1..N) \X Seq(S) -> Seq(S)]
    BY <1>2, EmptySeq
  <2>2. PICK g \in [0..N -> Seq(S)] :
          g[0] = <<>> /\ \A k \in 1..N : g[k] = step[<<k, g[k - 1]>>]
    <3> DEFINE T == Seq(S)
               e == <<>>
    <3>1. N \in Nat /\ e \in T /\ step \in [(1..N) \X T -> T]
      BY <1>1, <2>1
    <3>2. \E g \in [0..N -> T] : Follows(g, N, e, step)
      <4> HIDE DEF N, step, T, e
      <4> QED BY <3>1, StepByStep
    <3> QED BY <3>2 DEF Follows
  <2>3. \A k \in 1..N : g[k] = g[k - 1] \o seqs[k]
    <3> SUFFICES ASSUME NEW k \in 1..N PROVE g[k] = g[k - 1] \o seqs[k]
      OBVIOUS
    <3>1. k - 1 \in 0..N
      BY <1>1
    <3>2. g[k - 1] \in Seq(S)
      BY <2>2, <3>1
    <3> HIDE DEF step, N
    <3> QED BY <1>2, <2>2, <3>2
  <2> DEFINE f == [i \in 1..N |-> g[i]]
  <2>4. ASSUME NEW i \in 1..N
        PROVE  f[i] = IF i = 1 THEN seqs[i] ELSE f[i - 1] \o seqs[i]
    <3>1. f[i] = g[i - 1] \o seqs[i]
      BY <2>3
    <3>2. CASE i = 1
      <4>1. seqs[i] \in Seq(S) /\ g[i - 1] = <<>>
        BY <1>1, <2>2, <3>2
      <4>2. <<>> \o seqs[i] = seqs[i]
        BY <4>1, ConcatEmptySeq
      <4> HIDE DEF f
      <4> QED BY <3>1, <3>2, <4>1, <4>2
    <3>3. CASE i # 1
      <4>1. i - 1 \in 1..N
        BY <1>1, <3>3
      <4>2. f[i - 1] = g[i - 1]
        BY <4>1
      <4> HIDE DEF f
      <4> QED BY <3>1, <3>3, <4>2
    <3> QED BY <3>2, <3>3
  <2>5. f = [i \in 1..N |-> f[i]]
    OBVIOUS
  <2>6. Def(f)
    <3> HIDE DEF N, f
    <3> QED BY <2>4, <2>5
  <2> HIDE DEF Def, f
  <2> QED BY <2>6
<1> DEFINE f == CHOOSE h : Def(h)
<1>4. Def(f)
  <2> HIDE DEF Def
  <2> QED BY <1>3
<1>5. FlattenSeq(seqs) = IF N = 0 THEN seqs ELSE f[N]
  BY DEF FlattenSeq
<1> HIDE DEF f
<1>6. N # 0 => f[1] = seqs[1]
  <2>1. N # 0 => 1 \in 1..N
    BY <1>1
  <2> HIDE DEF N
  <2> QED BY <1>4, <2>1
<1>7. ASSUME NEW i \in 1..N, i # 1 PROVE f[i] = f[i - 1] \o seqs[i]
  <2> HIDE DEF N
  <2> QED BY <1>4, <1>7
<1> HIDE DEF Def, step
<1> DEFINE Good(r, n) == r \in Seq(S) /\ IsInjective(r) /\ Range(r) = AllOf(seqs, n)
           P == {n \in 0..N : n = 0 \/ Good(f[n], n)}
<1>8. 0 \in P
  BY <1>1
<1>9. ASSUME NEW n \in 0..N, n < N, n \in P PROVE n + 1 \in P
  <2>1. n + 1 \in 1..N /\ n + 1 \in 0..N /\ (n + 1) - 1 = n
    BY <1>1, <1>9
  <2> DEFINE r == f[n]
             q == f[n + 1]
             t == seqs[n + 1]
  <2>2. t \in Seq(S) /\ IsInjective(t)
    BY <1>1, <2>1
  <2>3. AllOf(seqs, n + 1) = AllOf(seqs, n) \cup Range(t)
    <3>1. \A i \in 1..(n + 1) : i \in 1..n \/ i = n + 1
      OBVIOUS
    <3>2. 1..n \subseteq 1..(n + 1) /\ n + 1 \in 1..(n + 1)
      OBVIOUS
    <3> QED BY <3>1, <3>2 DEF AllOf
  <2>4. CASE n = 0
    <3>1. q = t /\ AllOf(seqs, n) = {}
      BY <1>6, <2>1, <2>4 DEF AllOf
    <3> HIDE DEF q, r, t, N
    <3>2. Good(q, n + 1)
      BY <2>2, <2>3, <3>1
    <3> HIDE DEF Good
    <3> QED BY <2>1, <3>2 DEF q
  <2>5. CASE n # 0
    <3>1. q = r \o t
      <4>1. n + 1 # 1
        BY <2>5
      <4> HIDE DEF N, P
      <4> QED BY <1>7, <2>1, <4>1
    <3>2. Good(r, n)
      BY <1>9, <2>5
    <3>3. AllOf(seqs, n) \cap Range(t) = {}
      <4>1. \A i \in 1..n : i \in 1..N /\ i # n + 1
        BY <1>1, <2>1
      <4>2. \A i \in 1..n : Range(seqs[i]) \cap Range(seqs[n + 1]) = {}
        BY <2>1, <4>1
      <4> QED BY <4>2 DEF AllOf
    <3> HIDE DEF q, r, t, N
    <3>4. /\ r \o t \in Seq(S) /\ Range(r \o t) = Range(r) \cup Range(t)
          /\ IsInjective(r \o t)
      BY <2>2, <3>2, <3>3, Joined
    <3>5. Good(q, n + 1)
      BY <2>3, <3>1, <3>2, <3>4
    <3> HIDE DEF Good
    <3> QED BY <2>1, <3>5 DEF q
  <2> QED BY <2>4, <2>5
<1>10. N = 0 \/ Good(f[N], N)
  <2>1. \A n \in 0..N : n \in P
    <3> HIDE DEF P, N
    <3> QED BY <1>1, <1>8, <1>9, UpTo
  <2>2. N \in P
    <3> HIDE DEF P, N
    <3> QED BY <1>1, <2>1
  <2> QED BY <2>2
<1>11. CASE N = 0
  <2> DEFINE e == <<>>
  <2>1. seqs = e
    BY <1>11, EmptySeq, LenProperties
  <2>2. e \in Seq(S) /\ Range(e) = {} /\ IsInjective(e)
    BY EmptySeq DEF Range, IsInjective
  <2>3. AllOf(seqs, N) = {}
    BY <1>11 DEF AllOf
  <2> HIDE DEF e, N
  <2> QED BY <1>5, <1>11, <2>1, <2>2, <2>3 DEF N
<1>12. CASE N # 0
  BY <1>5, <1>10, <1>12
<1> QED
  BY <1>11, <1>12
-----------------------------------------------------------------------------
(* The images of a project and their pages.                                *)

ImageRecords == [id : ImageIds, halves : SUBSET {"left", "right"}]

\* Each image is in a project once.
ProjectSound(images) ==
  /\ images \in Seq(ImageRecords)
  /\ \A i, j \in DOMAIN images : images[i].id = images[j].id => i = j

SubPagesOf(image, view) ==
  IF view = "image" \/ image.halves = {} THEN {"single"} ELSE image.halves
ListedOf(image, view) == {image.id} \X SubPagesOf(image, view)

LEMMA SubPagesFacts ==
  ASSUME NEW image \in ImageRecords, NEW view
  PROVE  /\ SubPages(image, view) \in Seq({"single", "left", "right"})
         /\ IsInjective(SubPages(image, view))
         /\ Range(SubPages(image, view)) = SubPagesOf(image, view)
<1> DEFINE S == {"single", "left", "right"}
<1>1. CASE view = "image" \/ image.halves = {}
  <2>1. SubPages(image, view) = <<"single">> /\ SubPagesOf(image, view) = {"single"}
    BY <1>1 DEF SubPages, SubPagesOf
  <2>2. "single" \in S
    OBVIOUS
  <2> HIDE DEF S
  <2>3. /\ <<"single">> \in Seq(S) /\ IsInjective(<<"single">>)
        /\ Range(<<"single">>) = {"single"}
    BY <2>2, OneItem
  <2> QED BY <2>1, <2>3 DEF S
<1>2. CASE ~(view = "image" \/ image.halves = {})
  <2> DEFINE h == Halves
             A == image.halves
  <2>1. /\ h \in Seq(S) /\ Len(h) = 2 /\ DOMAIN h = 1..2
        /\ h[1] = "left" /\ h[2] = "right"
    BY DEF Halves
  <2>2. SubPages(image, view) = Among(h, A) /\ SubPagesOf(image, view) = A
    BY <1>2 DEF SubPages, SubPagesOf
  <2>3. A \subseteq {"left", "right"}
    BY DEF ImageRecords
  <2> HIDE DEF h, S, A
  <2>4. IsInjective(h) /\ Range(h) = {"left", "right"}
    BY <2>1 DEF IsInjective, Range
  <2>5. /\ Among(h, A) \in Seq(S) /\ Range(Among(h, A)) = Range(h) \cap A
        /\ IsInjective(Among(h, A))
    BY <2>1, <2>4, AmongFacts
  <2> QED BY <2>2, <2>3, <2>4, <2>5 DEF S
<1> QED
  BY <1>1, <1>2

LEMMA PagesOfFacts ==
  ASSUME NEW image \in ImageRecords, NEW view
  PROVE  /\ PagesOf(image, view) \in Seq(Pages)
         /\ IsInjective(PagesOf(image, view))
         /\ Range(PagesOf(image, view)) = ListedOf(image, view)
<1> DEFINE s == SubPages(image, view)
           r == PagesOf(image, view)
           S == {"single", "left", "right"}
           n == Len(s)
<1>1. s \in Seq(S) /\ IsInjective(s) /\ Range(s) = SubPagesOf(image, view)
  BY SubPagesFacts
<1>2. n \in Nat /\ DOMAIN s = 1..n /\ \A i \in 1..n : s[i] \in S
  BY <1>1, LenProperties, ElementOfSeq
<1>3. r = [i \in DOMAIN s |-> <<image.id, s[i]>>]
  BY DEF PagesOf
<1>4. image.id \in ImageIds
  BY DEF ImageRecords
<1> HIDE DEF s, n, r
<1>5. \A i \in 1..n : r[i] = <<image.id, s[i]>> /\ r[i] \in Pages
  BY <1>2, <1>3, <1>4 DEF Pages
<1>6. DOMAIN r = 1..n /\ r \in [1..n -> Pages]
  BY <1>2, <1>3, <1>5
<1>7. r \in Seq(Pages)
  BY <1>2, <1>6, IsASeq
<1>8. IsInjective(r)
  <2> SUFFICES ASSUME NEW i \in 1..n, NEW j \in 1..n, r[i] = r[j] PROVE i = j
    BY <1>6 DEF IsInjective
  <2>1. s[i] = s[j]
    BY <1>5
  <2> QED BY <1>1, <1>2, <2>1 DEF IsInjective
<1>9. Range(r) = ListedOf(image, view)
  <2>1. ASSUME NEW i \in 1..n PROVE r[i] \in ListedOf(image, view)
    <3>1. s[i] \in SubPagesOf(image, view)
      BY <1>1, <1>2 DEF Range
    <3>2. <<image.id, s[i]>> \in ListedOf(image, view)
      BY <3>1 DEF ListedOf
    <3> QED BY <1>5, <3>2
  <2>2. ASSUME NEW p \in ListedOf(image, view) PROVE p \in Range(r)
    <3>1. PICK h \in SubPagesOf(image, view) : p = <<image.id, h>>
      BY DEF ListedOf
    <3>2. PICK i \in 1..n : s[i] = h
      BY <1>1, <1>2, <3>1 DEF Range
    <3> QED BY <1>5, <1>6, <3>1, <3>2 DEF Range
  <2> QED BY <1>6, <2>1, <2>2 DEF Range
<1> QED
  BY <1>7, <1>8, <1>9 DEF r

\* The pages of a project, as far as it is looked at in some view.
PagesIn(images, view) == UNION {ListedOf(images[i], view) : i \in DOMAIN images}

LEMMA PageSequenceFacts ==
  ASSUME NEW images, ProjectSound(images), NEW st
  PROVE  /\ PageSequence(images, st) \in Seq(Pages)
         /\ IsInjective(PageSequence(images, st))
         /\ Range(PageSequence(images, st)) = PagesIn(images, st.view)
<1> DEFINE n == Len(images)
           view == st.view
           seqs == [i \in DOMAIN images |-> PagesOf(images[i], view)]
           pages == FlattenSeq(seqs)
<1>1. images \in Seq(ImageRecords) /\ n \in Nat /\ DOMAIN images = 1..n
  BY LenProperties DEF ProjectSound
<1>2. \A i \in 1..n : images[i] \in ImageRecords
  BY <1>1, ElementOfSeq
<1>3. PageSequence(images, st) = IF st.reversed THEN Reverse(pages) ELSE pages
  BY DEF PageSequence
<1> HIDE DEF n, view
<1>4. ASSUME NEW i \in 1..n
      PROVE  /\ seqs[i] \in Seq(Pages) /\ IsInjective(seqs[i])
             /\ Range(seqs[i]) = ListedOf(images[i], view)
  BY <1>1, <1>2, PagesOfFacts
<1>5. seqs \in Seq(Seq(Pages)) /\ Len(seqs) = n /\ DOMAIN seqs = 1..n
  <2>1. seqs \in [1..n -> Seq(Pages)] /\ DOMAIN seqs = 1..n
    BY <1>1, <1>4
  <2> HIDE DEF seqs
  <2>2. seqs \in Seq(Seq(Pages))
    BY <1>1, <2>1, IsASeq
  <2> QED BY <1>1, <2>1, <2>2, LenProperties
<1> HIDE DEF seqs
<1>6. \A i, j \in 1..n : i # j => Range(seqs[i]) \cap Range(seqs[j]) = {}
  <2> TAKE i \in 1..n, j \in 1..n
  <2> HAVE i # j
  <2>1. images[i].id # images[j].id
    BY <1>1 DEF ProjectSound
  <2>2. ListedOf(images[i], view) \cap ListedOf(images[j], view) = {}
    BY <2>1 DEF ListedOf
  <2> QED BY <1>4, <2>2
<1>7. /\ pages \in Seq(Pages) /\ IsInjective(pages)
      /\ Range(pages) = AllOf(seqs, n)
  BY <1>4, <1>5, <1>6, FlattenFacts
<1>8. AllOf(seqs, n) = PagesIn(images, view)
  <2>1. \A i \in 1..n : Range(seqs[i]) = ListedOf(images[i], view)
    BY <1>4
  <2> QED BY <1>1, <2>1 DEF AllOf, PagesIn
<1> HIDE DEF pages
<1>9. /\ Reverse(pages) \in Seq(Pages) /\ IsInjective(Reverse(pages))
      /\ Range(Reverse(pages)) = Range(pages)
  BY <1>7, ReverseFacts
<1> QED
  BY <1>3, <1>7, <1>8, <1>9 DEF view
-----------------------------------------------------------------------------
(* The selection of the list.                                              *)

ListType ==
  [order : Seq(Pages), pool : Seq(Pages), selected : SUBSET Pages,
   flagged : SUBSET Pages, leader : Pages \cup {NoPage}, incomplete : SUBSET Pages]

\* Both orders have the same items, each once, and what is selected is among them.
Shaped(l) ==
  /\ l \in ListType
  /\ IsInjective(l.order) /\ IsInjective(l.pool) /\ Range(l.order) = Range(l.pool)
  /\ l.selected \subseteq Range(l.pool)

\* Selected items are in front.
InFront(l) == Ahead(l.pool, l.selected)

\* The leader is the only item flagged, and there is one while any is selected.
Led(l) ==
  /\ l.flagged = {l.leader} \ {NoPage}
  /\ l.leader = NoPage => l.selected = {}
  /\ l.leader # NoPage => l.leader \in l.selected

WellMade(l) == Shaped(l) /\ InFront(l) /\ Led(l)

LEMMA NoPageIsNone == NoPage \notin Pages
<1>1. None \notin ImageIds
  BY SequenceAssumption DEF ImageIds
<1> QED
  BY <1>1 DEF NoPage, Pages

LEMMA ListFacts ==
  ASSUME NEW l, Shaped(l)
  PROVE  /\ l \in ListType /\ l.order \in Seq(Pages) /\ l.pool \in Seq(Pages)
         /\ l.selected \subseteq Pages /\ l.flagged \subseteq Pages
         /\ l.leader \in Pages \cup {NoPage} /\ l.incomplete \subseteq Pages
         /\ Range(l.order) \subseteq Pages
<1>1. l \in ListType
  BY DEF Shaped
<1>2. l.order \in Seq(Pages)
  BY <1>1 DEF ListType
<1>3. Range(l.order) \subseteq Pages
  BY <1>2, RangeOfSeq
<1> QED
  BY <1>1, <1>3 DEF ListType

\* A loop over the selected items that stops at the first that is not sees them all.
LEMMA SelectedSeen ==
  ASSUME NEW l, Shaped(l), InFront(l)
  PROVE  SelectedItems(l) = l.selected
<1> DEFINE n == Len(l.pool)
<1>1. n \in Nat /\ DOMAIN l.pool = 1..n
  BY ListFacts, LenProperties
<1>2. \A p \in SelectedItems(l) : p \in l.selected
  <2> SUFFICES ASSUME NEW i \in DOMAIN l.pool,
                      \A k \in 1..i : l.pool[k] \in l.selected
               PROVE  l.pool[i] \in l.selected
    BY DEF SelectedItems
  <2> QED BY <1>1
<1>3. ASSUME NEW p \in l.selected PROVE p \in SelectedItems(l)
  <2>1. PICK i \in 1..n : l.pool[i] = p
    BY <1>1 DEF Shaped, Range
  <2> HIDE DEF n
  <2>2. \A k \in 1..i : l.pool[k] \in l.selected
    <3> TAKE k \in 1..i
    <3>1. k = i \/ (k < i /\ k \in 1..n)
      BY <1>1
    <3> QED BY <1>1, <1>3, <2>1, <3>1 DEF InFront, Ahead
  <2> QED BY <1>1, <2>1, <2>2 DEF SelectedItems
<1> QED
  BY <1>2, <1>3

LEMMA AnotherSelected ==
  ASSUME NEW l, Shaped(l), InFront(l), MultipleItemsSelected(l), NEW p
  PROVE  \E q \in l.selected : q # p
<1>1. Len(l.pool) \in Nat /\ DOMAIN l.pool = 1..Len(l.pool)
  BY ListFacts, LenProperties
<1>2. 1 \in DOMAIN l.pool /\ 2 \in DOMAIN l.pool
  BY <1>1 DEF MultipleItemsSelected
<1>3. l.pool[1] # l.pool[2]
  BY <1>2 DEF Shaped, IsInjective
<1> QED
  BY <1>3 DEF MultipleItemsSelected

\* An item that becomes the leader when no other is flagged.
LEMMA NewLeaderFields ==
  ASSUME NEW l \in ListType, NEW p \in Pages
  PROVE  /\ NewLeader(l, p) \in ListType
         /\ NewLeader(l, p).order = l.order
         /\ NewLeader(l, p).pool = <<p>> \o Except(l.pool, {p})
         /\ NewLeader(l, p).selected = l.selected \cup {p}
         /\ NewLeader(l, p).flagged = l.flagged \cup {p}
         /\ NewLeader(l, p).leader = p
<1> DEFINE e == Except(l.pool, {p})
           o == <<p>>
<1>1. o \o e \in Seq(Pages)
  <2>1. l.pool \in Seq(Pages)
    BY DEF ListType
  <2>2. e \in Seq(Pages)
    BY <2>1, ExceptFacts
  <2>3. o \in Seq(Pages)
    BY OneItem
  <2> HIDE DEF e, o
  <2> QED BY <2>2, <2>3, ConcatProperties
<1> DEFINE q == o \o e
<1>2. NewLeader(l, p) = [l EXCEPT !.pool = q, !.selected = @ \cup {p},
                                  !.flagged = @ \cup {p}, !.leader = p]
  <2> HIDE DEF o, e
  <2> QED BY DEF NewLeader, MoveToSelected, SetSelectionLeader, ListType, e, o
<1>3. q \in Seq(Pages)
  BY <1>1
<1> HIDE DEF q
<1>4. NewLeader(l, p) \in ListType
  <2> DEFINE sel == l.selected \cup {p}
             flg == l.flagged \cup {p}
  <2>1. sel \in SUBSET Pages /\ flg \in SUBSET Pages
    BY DEF ListType
  <2>2. NewLeader(l, p) = [l EXCEPT !.pool = q, !.selected = sel, !.flagged = flg,
                                    !.leader = p]
    BY <1>2
  <2> HIDE DEF sel, flg
  <2> QED BY <1>3, <2>1, <2>2 DEF ListType
<1>5. /\ NewLeader(l, p).order = l.order /\ NewLeader(l, p).pool = q
      /\ NewLeader(l, p).selected = l.selected \cup {p}
      /\ NewLeader(l, p).flagged = l.flagged \cup {p} /\ NewLeader(l, p).leader = p
  BY <1>2 DEF ListType
<1> QED
  BY <1>4, <1>5 DEF q

LEMMA NewLeaderMade ==
  ASSUME NEW l, Shaped(l), InFront(l), l.flagged = {}, NEW p, p \in Range(l.order)
  PROVE  /\ WellMade(NewLeader(l, p)) /\ NewLeader(l, p).leader = p
         /\ NewLeader(l, p).order = l.order
         /\ NewLeader(l, p).selected = l.selected \cup {p}
<1> DEFINE m == NewLeader(l, p)
           e == Except(l.pool, {p})
           o == <<p>>
<1>1. l \in ListType /\ p \in Pages /\ l.pool \in Seq(Pages) /\ l.selected \subseteq Range(l.pool)
      /\ p \in Range(l.pool) /\ IsInjective(l.pool) /\ IsInjective(l.order)
      /\ Range(l.order) = Range(l.pool)
  BY ListFacts DEF Shaped
<1>2. /\ m.order = l.order /\ m.pool = o \o e
      /\ m.selected = l.selected \cup {p} /\ m.flagged = {p}
      /\ m.leader = p /\ m \in ListType
  <2>1. l \in ListType /\ p \in Pages
    BY <1>1
  <2>2. /\ m.order = l.order /\ m.pool = o \o e
        /\ m.selected = l.selected \cup {p} /\ m.flagged = l.flagged \cup {p}
        /\ m.leader = p /\ m \in ListType
    BY <2>1, NewLeaderFields
  <2> HIDE DEF m, o, e
  <2> QED BY <2>2
<1>3. e \in Seq(Pages) /\ Range(e) = Range(l.pool) \ {p} /\ IsInjective(e)
  BY <1>1, ExceptFacts
<1>4. o \in Seq(Pages) /\ Range(o) = {p} /\ IsInjective(o)
  BY <1>1, OneItem
<1>5. Ahead(e, l.selected)
  BY <1>1, AmongAhead DEF Except, InFront
<1> HIDE DEF m, e, o
<1>6. Ahead(e, l.selected \cup {p})
  <2>1. \A i \in DOMAIN e : e[i] # p
    BY <1>3 DEF Range
  <2> QED BY <1>5, <2>1 DEF Ahead
<1>7. Range(o) \cap Range(e) = {} /\ Range(o) \subseteq l.selected \cup {p}
      /\ Range(o) \cup Range(e) = Range(l.pool)
  BY <1>1, <1>3, <1>4
<1>8. IsInjective(o \o e) /\ Range(o \o e) = Range(l.pool)
  BY <1>3, <1>4, <1>7, Joined
<1>9. Ahead(o \o e, l.selected \cup {p})
  BY <1>3, <1>4, <1>6, <1>7, JoinedAhead
<1>10. Shaped(m)
  BY <1>1, <1>2, <1>8 DEF Shaped
<1>11. InFront(m)
  BY <1>2, <1>9 DEF InFront
<1>12. p # NoPage
  BY <1>1, NoPageIsNone
<1>13. Led(m)
  BY <1>2, <1>12 DEF Led
<1> QED
  BY <1>2, <1>10, <1>11, <1>13 DEF WellMade, m

\* A list in which only flags and the leader are others.
LEMMA FlagsOnly ==
  ASSUME NEW l, Shaped(l), InFront(l), NEW m, m \in ListType,
         m.order = l.order, m.pool = l.pool, m.selected = l.selected
  PROVE  Shaped(m) /\ InFront(m)
BY DEF Shaped, InFront

\* An item that becomes the leader instead of the one there is.
LEMMA LeaderInsteadMade ==
  ASSUME NEW l, WellMade(l), NEW p, p \in Range(l.order)
  PROVE  /\ WellMade(LeaderInstead(l, p)) /\ LeaderInstead(l, p).leader = p
         /\ LeaderInstead(l, p).order = l.order
<1> DEFINE m == SetSelectionLeader(l, OldLeader(l), FALSE)
           f == {}
           x == l.leader
           m1 == [l EXCEPT !.flagged = f, !.leader = x]
<1>1. Shaped(l) /\ InFront(l) /\ l.flagged = OldLeader(l) /\ l \in ListType
  BY ListFacts DEF WellMade, Led, OldLeader
<1>2. m = m1
  <2>1. l.flagged \ OldLeader(l) = {}
    BY <1>1
  <2> QED BY <1>1, <2>1 DEF SetSelectionLeader, ListType
<1>3. f \in SUBSET Pages /\ x \in Pages \cup {NoPage}
  BY <1>1, ListFacts
<1>4. Shaped(m1) /\ InFront(m1) /\ m1.order = l.order /\ m1.flagged = f
  <2> HIDE DEF f, x
  <2>1. /\ m1 \in ListType /\ m1.order = l.order /\ m1.pool = l.pool
        /\ m1.selected = l.selected /\ m1.flagged = f
    BY <1>1, <1>3 DEF ListType
  <2> HIDE DEF m1
  <2> QED BY <1>1, <2>1, FlagsOnly
<1> HIDE DEF m, m1, x
<1>5. Shaped(m) /\ InFront(m) /\ m.order = l.order /\ m.flagged = {}
  BY <1>2, <1>4
<1> HIDE DEF f
<1>6. p \in Range(m.order)
  BY <1>5
<1>7. /\ WellMade(NewLeader(m, p)) /\ NewLeader(m, p).leader = p
      /\ NewLeader(m, p).order = m.order
  BY <1>5, <1>6, NewLeaderMade
<1> QED
  BY <1>5, <1>7 DEF LeaderInstead, m

\* A plain click.
LEMMA SelectNoModifiersMade ==
  ASSUME NEW l, WellMade(l), NEW p, p \in Range(l.order)
  PROVE  /\ WellMade(SelectNoModifiers(l, p)) /\ SelectNoModifiers(l, p).leader = p
         /\ SelectNoModifiers(l, p).order = l.order
<1> DEFINE m == Cleared(l)
<1>1. Shaped(l) /\ InFront(l) /\ l \in ListType /\ SelectedItems(l) = l.selected
  BY ListFacts, SelectedSeen DEF WellMade
<1>2. l.flagged \ l.selected = {}
  BY DEF WellMade, Led
<1>3. m = [l EXCEPT !.selected = {}, !.flagged = {}, !.leader = NoPage]
  BY <1>1, <1>2 DEF Cleared, SetSelected, ListType
<1>4. /\ m \in ListType /\ m.order = l.order /\ m.pool = l.pool /\ m.selected = {}
      /\ m.flagged = {}
  BY <1>1, <1>3 DEF ListType
<1> HIDE DEF m
<1>5. Shaped(m) /\ InFront(m)
  BY <1>1, <1>4 DEF Shaped, InFront, Ahead
<1>6. p \in Range(m.order)
  BY <1>4
<1>7. /\ WellMade(NewLeader(m, p)) /\ NewLeader(m, p).leader = p
      /\ NewLeader(m, p).order = m.order
  BY <1>4, <1>5, <1>6, NewLeaderMade
<1> QED
  BY <1>4, <1>7 DEF SelectNoModifiers, m

\* setSelection() that keeps the selection.
LEMMA SelectionKeptMade ==
  ASSUME NEW l, WellMade(l), NEW p, p \in Range(l.order)
  PROVE  /\ WellMade(SetSelection(l, p, TRUE)) /\ SetSelection(l, p, TRUE).leader = p
         /\ SetSelection(l, p, TRUE).order = l.order
<1>1. Shaped(l) /\ InFront(l) /\ l.flagged = OldLeader(l) /\ l \in ListType
  BY ListFacts DEF WellMade, Led, OldLeader
<1>2. CASE l.leader = p
  <2>1. SetSelection(l, p, TRUE) = l
    BY <1>2 DEF SetSelection, LeaderReset
  <2> QED BY <1>2, <2>1
<1>3. CASE l.leader # p
  <2> DEFINE m == LeaderReset(l, p)
             f == {}
             x == NoPage
             m1 == [l EXCEPT !.flagged = f, !.leader = x]
  <2>1. m = m1
    <3>1. l.flagged \ OldLeader(l) = {}
      BY <1>1
    <3> QED BY <1>1, <1>3, <3>1 DEF LeaderReset, SetSelectionLeader, ListType
  <2>2. f \in SUBSET Pages /\ x \in Pages \cup {NoPage}
    OBVIOUS
  <2>3. Shaped(m1) /\ InFront(m1) /\ m1.order = l.order /\ m1.flagged = f
    <3> HIDE DEF f, x
    <3>1. /\ m1 \in ListType /\ m1.order = l.order /\ m1.pool = l.pool
          /\ m1.selected = l.selected /\ m1.flagged = f
      BY <1>1, <2>2 DEF ListType
    <3> HIDE DEF m1
    <3> QED BY <1>1, <3>1, FlagsOnly
  <2> HIDE DEF m, m1, x
  <2>4. Shaped(m) /\ InFront(m) /\ m.order = l.order /\ m.flagged = {}
    BY <2>1, <2>3
  <2> HIDE DEF f
  <2>5. p \in Range(m.order)
    BY <2>4
  <2>6. /\ WellMade(NewLeader(m, p)) /\ NewLeader(m, p).leader = p
        /\ NewLeader(m, p).order = m.order
    BY <2>4, <2>5, NewLeaderMade
  <2>7. SetSelection(l, p, TRUE) = NewLeader(m, p)
    BY <1>3 DEF SetSelection, m
  <2> QED BY <2>4, <2>6, <2>7
<1> QED
  BY <1>2, <1>3

\* setSelection() of one page only: what else was selected goes to the end.
LEMMA OthersClearedMade ==
  ASSUME NEW l, WellMade(l), NEW p, p \in Range(l.order)
  PROVE  /\ Shaped(OthersCleared(l, p)) /\ InFront(OthersCleared(l, p))
         /\ OthersCleared(l, p).order = l.order
         /\ OthersCleared(l, p).selected \subseteq {p}
         /\ l.leader = p => Led(OthersCleared(l, p))
         /\ l.leader # p => OthersCleared(l, p).flagged = {}
         /\ OthersCleared(l, p).leader = IF l.leader = p THEN p ELSE NoPage
<1> DEFINE others == l.selected \ {p}
           m == OthersCleared(l, p)
           a == Except(l.pool, others)
           b == Among(l.pool, others)
           q == a \o b
           sel == l.selected \ others
           flg == l.flagged \ others
           x == IF l.leader \in others THEN NoPage ELSE l.leader
<1>1. /\ Shaped(l) /\ InFront(l) /\ Led(l) /\ l \in ListType /\ SelectedItems(l) = l.selected
      /\ l.pool \in Seq(Pages) /\ IsInjective(l.pool) /\ l.selected \subseteq Range(l.pool)
      /\ Range(l.order) = Range(l.pool)
  BY ListFacts, SelectedSeen DEF WellMade, Shaped
<1>2. a \in Seq(Pages) /\ IsInjective(a) /\ Range(a) = Range(l.pool) \ others
  BY <1>1, ExceptFacts
<1>3. b \in Seq(Pages) /\ IsInjective(b) /\ Range(b) = Range(l.pool) \cap others
  BY <1>1, AmongFacts
<1>4. Ahead(a, l.selected)
  BY <1>1, AmongAhead DEF Except, InFront
<1>5. Ahead(a, sel) /\ Range(b) \cap sel = {}
  <2>1. \A i \in DOMAIN a : a[i] \notin others
    BY <1>2 DEF Range
  <2>2. Ahead(a, sel)
    <3> HIDE DEF a, others
    <3> QED BY <1>4, <2>1 DEF Ahead
  <2> QED BY <1>3, <2>2
<1>6. m = [l EXCEPT !.pool = q, !.selected = sel, !.flagged = flg, !.leader = x]
  <2> HIDE DEF a, b
  <2> QED BY <1>1 DEF OthersCleared, SetSelected, ListType, a, b
<1>7. sel \subseteq {p} /\ sel \subseteq Range(l.pool)
  BY <1>1
<1>8. /\ l.leader = p => flg = {p} \ {NoPage} /\ x = p /\ (p # NoPage => p \in sel)
                         /\ (p = NoPage => sel = {})
      /\ l.leader # p => flg = {} /\ x = NoPage
  BY <1>1 DEF Led
<1>9. sel \in SUBSET Pages /\ flg \in SUBSET Pages /\ x \in Pages \cup {NoPage}
  BY <1>1, ListFacts
<1> HIDE DEF a, b, sel, flg, x, others, m
<1>10. Range(a) \cap Range(b) = {} /\ Range(a) \cup Range(b) = Range(l.pool)
  BY <1>2, <1>3
<1>11. q \in Seq(Pages) /\ IsInjective(q) /\ Range(q) = Range(l.pool)
  BY <1>2, <1>3, <1>10, Joined
<1>12. Ahead(q, sel)
  BY <1>2, <1>3, <1>5, JoinedAhead
<1> HIDE DEF q
<1>13. m \in ListType
  BY <1>1, <1>6, <1>9, <1>11 DEF ListType
<1>14. /\ m.order = l.order /\ m.pool = q /\ m.selected = sel /\ m.flagged = flg
       /\ m.leader = x
  BY <1>1, <1>6 DEF ListType
<1>15. Shaped(m) /\ InFront(m)
  BY <1>1, <1>7, <1>11, <1>12, <1>13, <1>14 DEF Shaped, InFront
<1>16. l.leader = p => Led(m)
  BY <1>8, <1>14 DEF Led
<1> QED
  BY <1>7, <1>8, <1>14, <1>15, <1>16 DEF m

LEMMA SelectionSetMade ==
  ASSUME NEW l, WellMade(l), NEW p, p \in Range(l.order)
  PROVE  /\ WellMade(SetSelection(l, p, FALSE)) /\ SetSelection(l, p, FALSE).leader = p
         /\ SetSelection(l, p, FALSE).order = l.order
         /\ SetSelection(l, p, FALSE).selected = {p}
<1> DEFINE m == OthersCleared(l, p)
<1>1. /\ Shaped(m) /\ InFront(m) /\ m.order = l.order /\ m.selected \subseteq {p}
      /\ l.leader = p => Led(m)
      /\ l.leader # p => m.flagged = {}
      /\ m.leader = IF l.leader = p THEN p ELSE NoPage
  BY OthersClearedMade
<1>2. CASE l.leader = p
  <2>1. SetSelection(l, p, FALSE) = m
    BY <1>2 DEF SetSelection
  <2>2. p # NoPage
    BY ListFacts, NoPageIsNone DEF WellMade
  <2> HIDE DEF m
  <2>3. m.selected = {p}
    BY <1>1, <1>2, <2>2 DEF Led
  <2> QED BY <1>1, <1>2, <2>1, <2>3 DEF WellMade
<1>3. CASE l.leader # p
  <2>1. SetSelection(l, p, FALSE) = NewLeader(m, p)
    BY <1>3 DEF SetSelection
  <2> HIDE DEF m
  <2>2. p \in Range(m.order)
    BY <1>1
  <2>3. m.flagged = {}
    BY <1>1, <1>3
  <2>4. Shaped(m) /\ InFront(m)
    BY <1>1
  <2>5. /\ WellMade(NewLeader(m, p)) /\ NewLeader(m, p).leader = p
        /\ NewLeader(m, p).order = m.order
        /\ NewLeader(m, p).selected = m.selected \cup {p}
    BY <2>2, <2>3, <2>4, NewLeaderMade
  <2> QED BY <1>1, <2>1, <2>5
<1> QED
  BY <1>2, <1>3

\* What is between two items of the list, and these.
LEMMA BetweenFacts ==
  ASSUME NEW l, Shaped(l), NEW p, p \in Range(l.order), NEW q, q \in Range(l.order)
  PROVE  /\ Between(l, p, q) \in Seq(Pages) /\ IsInjective(Between(l, p, q))
         /\ Range(Between(l, p, q)) \subseteq Range(l.order)
         /\ p \in Range(Between(l, p, q)) /\ q \in Range(Between(l, p, q))
<1> DEFINE i == Position(l, p)
           j == Position(l, q)
           o == l.order
           n == Len(o)
<1>1. o \in Seq(Pages) /\ n \in Nat /\ DOMAIN o = 1..n /\ IsInjective(o)
  BY ListFacts, LenProperties DEF Shaped
<1>2. i \in 1..n /\ o[i] = p
  BY <1>1, PositionFacts
<1>3. j \in 1..n /\ o[j] = q
  BY <1>1, PositionFacts
<1>4. Between(l, p, q) = IF i <= j THEN SubSeq(o, i, j) ELSE SubSeq(o, j, i)
  BY DEF Between
<1> HIDE DEF i, j, o
<1>5. ASSUME NEW a, a \in 1..n, NEW b, b \in 1..n, a <= b
      PROVE  /\ SubSeq(o, a, b) \in Seq(Pages) /\ IsInjective(SubSeq(o, a, b))
             /\ Range(SubSeq(o, a, b)) \subseteq Range(o)
             /\ o[a] \in Range(SubSeq(o, a, b)) /\ o[b] \in Range(SubSeq(o, a, b))
  <2>1. a \in Int /\ b \in Int /\ 1 <= a /\ b <= Len(o)
    BY <1>1, <1>5
  <2>2. /\ SubSeq(o, a, b) \in Seq(Pages) /\ IsInjective(SubSeq(o, a, b))
        /\ Range(SubSeq(o, a, b)) = Items(o, a, b)
    BY <1>1, <2>1, PartFacts
  <2>3. Items(o, a, b) \subseteq Range(o) /\ o[a] \in Items(o, a, b) /\ o[b] \in Items(o, a, b)
    <3>1. a..b \subseteq 1..n /\ a \in a..b /\ b \in a..b
      BY <1>1, <1>5
    <3> QED BY <1>1, <3>1 DEF Items, Range
  <2> QED BY <2>2, <2>3
<1>6. CASE i <= j
  BY <1>2, <1>3, <1>4, <1>5, <1>6 DEF o
<1>7. CASE ~(i <= j)
  <2>1. j <= i
    BY <1>1, <1>2, <1>3, <1>7
  <2> QED BY <1>2, <1>3, <1>4, <1>5, <1>7, <2>1 DEF o
<1> QED
  BY <1>6, <1>7

\* A click with Shift.
LEMMA SelectWithShiftMade ==
  ASSUME NEW l, WellMade(l), NEW p, p \in Range(l.order)
  PROVE  /\ WellMade(SelectWithShift(l, p)) /\ SelectWithShift(l, p).leader = p
         /\ SelectWithShift(l, p).order = l.order
<1>1. CASE l.leader = NoPage
  <2>1. SelectWithShift(l, p) = SelectNoModifiers(l, p)
    BY <1>1 DEF SelectWithShift
  <2> QED BY <2>1, SelectNoModifiersMade
<1>2. CASE l.leader # NoPage /\ l.leader = p
  BY <1>2 DEF SelectWithShift
<1>3. CASE l.leader # NoPage /\ l.leader # p
  <2> DEFINE m == SelectWithShift(l, p)
             span == Between(l, l.leader, p)
             R == Range(span)
             a == Reverse(span)
             b == Except(l.pool, R)
             q == a \o b
             sel == (l.selected \cup R) \cup {p}
             flg == (l.flagged \ {l.leader}) \cup {p}
  <2>1. /\ Shaped(l) /\ InFront(l) /\ Led(l) /\ l \in ListType
        /\ l.pool \in Seq(Pages) /\ IsInjective(l.pool) /\ l.selected \subseteq Range(l.pool)
        /\ Range(l.order) = Range(l.pool) /\ Range(l.order) \subseteq Pages
    BY ListFacts DEF WellMade, Shaped
  <2>2. l.leader \in Range(l.order)
    BY <1>3, <2>1 DEF Led
  <2>3. /\ span \in Seq(Pages) /\ IsInjective(span) /\ R \subseteq Range(l.pool) /\ p \in R
    BY <2>1, <2>2, BetweenFacts
  <2>4. a \in Seq(Pages) /\ IsInjective(a) /\ Range(a) = R
    BY <2>3, ReverseFacts
  <2>5. b \in Seq(Pages) /\ IsInjective(b) /\ Range(b) = Range(l.pool) \ R
    BY <2>1, ExceptFacts
  <2>6. Ahead(b, l.selected)
    BY <2>1, AmongAhead DEF Except, InFront
  <2>7. m = [l EXCEPT !.pool = q, !.selected = sel, !.flagged = flg, !.leader = p]
    <3> HIDE DEF a, b
    <3> QED BY <1>3, <2>1 DEF SelectWithShift, SetSelected, SetSelectionLeader, ListType, a, b
  <2>8. flg = {p}
    BY <1>3, <2>1 DEF Led
  <2>9. sel \subseteq Range(l.pool) /\ R \subseteq sel /\ p \in sel /\ p # NoPage
    BY <2>1, <2>3, NoPageIsNone
  <2>10. Ahead(b, sel)
    <3>1. \A i \in DOMAIN b : b[i] \notin R
      BY <2>5 DEF Range
    <3>2. \A i \in DOMAIN b : b[i] \in sel <=> b[i] \in l.selected
      BY <2>3, <3>1
    <3> HIDE DEF b, sel
    <3> QED BY <2>6, <3>2 DEF Ahead
  <2>11. sel \in SUBSET Pages /\ flg \in SUBSET Pages /\ p \in Pages
    BY <2>1, <2>8, <2>9
  <2> HIDE DEF a, b, R, sel, flg, span, m
  <2>12. Range(a) \cap Range(b) = {} /\ Range(a) \cup Range(b) = Range(l.pool)
    BY <2>3, <2>4, <2>5
  <2>13. q \in Seq(Pages) /\ IsInjective(q) /\ Range(q) = Range(l.pool)
    BY <2>4, <2>5, <2>12, Joined
  <2>14. Ahead(q, sel)
    BY <2>4, <2>5, <2>9, <2>10, JoinedAhead
  <2> HIDE DEF q
  <2>15. m \in ListType
    BY <2>1, <2>7, <2>11, <2>13 DEF ListType
  <2>16. /\ m.order = l.order /\ m.pool = q /\ m.selected = sel /\ m.flagged = flg
         /\ m.leader = p
    BY <2>1, <2>7 DEF ListType
  <2>17. Shaped(m) /\ InFront(m)
    BY <2>1, <2>9, <2>13, <2>14, <2>15, <2>16 DEF Shaped, InFront
  <2>18. Led(m)
    BY <2>8, <2>9, <2>16 DEF Led
  <2> QED BY <2>16, <2>17, <2>18 DEF WellMade, m
<1> QED
  BY <1>1, <1>2, <1>3

\* Some selected item is the nearest.
LEMMA NearestFacts ==
  ASSUME NEW l, Shaped(l), NEW p, p \in Range(l.order), l.selected # {}
  PROVE  Nearest(l, p) \in l.selected
<1> DEFINE i == Position(l, p)
           o == l.order
           n == Len(o)
           far(j) == IF j < i THEN 2 * (i - j) - 1 ELSE 2 * (j - i)
           D == {j \in 1..n : o[j] \in l.selected}
           F == {far(j) : j \in D}
<1>1. o \in Seq(Pages) /\ n \in Nat /\ DOMAIN o = 1..n /\ l.selected \subseteq Range(o)
  BY ListFacts, LenProperties DEF Shaped
<1>2. i \in 1..n
  BY <1>1, PositionFacts
<1> HIDE DEF i
<1>3. \A j \in 1..n : far(j) \in Nat
  BY <1>1, <1>2
<1>4. D # {} /\ D \subseteq 1..n
  BY <1>1 DEF Range
<1>5. PICK j \in D : \A k \in D : far(j) <= far(k)
  <2>1. F \in SUBSET Nat /\ F # {}
    <3> HIDE DEF far, D
    <3> QED BY <1>3, <1>4
  <2>2. PICK t \in F : \A u \in F : t <= u
    <3> HIDE DEF F
    <3> QED BY <2>1, LeastNatural
  <2> HIDE DEF far, D
  <2> QED BY <2>2
<1> DEFINE Best(x) == /\ o[x] \in l.selected
                      /\ \A k \in DOMAIN o : o[k] \in l.selected => far(x) <= far(k)
<1>6. j \in DOMAIN o /\ Best(j)
  <2>1. \A k \in DOMAIN o : o[k] \in l.selected => k \in D
    BY <1>1
  <2>2. j \in DOMAIN o /\ o[j] \in l.selected
    BY <1>1
  <2> HIDE DEF far, D
  <2> QED BY <1>5, <2>1, <2>2
<1>7. Nearest(l, p) = o[CHOOSE x \in DOMAIN o : Best(x)]
  BY DEF Nearest, i
<1> DEFINE c == CHOOSE x \in DOMAIN o : Best(x)
<1>8. Best(c)
  <2> HIDE DEF Best
  <2> QED BY <1>6
<1> HIDE DEF c
<1>9. o[c] \in l.selected
  BY <1>8
<1> QED
  BY <1>7, <1>9 DEF c

\* A click with Ctrl.
LEMMA SelectWithControlMade ==
  ASSUME NEW l, WellMade(l), NEW p, p \in Range(l.order)
  PROVE  /\ WellMade(SelectWithControl(l, p))
         /\ SelectWithControl(l, p).order = l.order
<1>1. CASE p \notin l.selected
  <2>1. SelectWithControl(l, p) = LeaderInstead(l, p)
    BY <1>1 DEF SelectWithControl
  <2> QED BY <2>1, LeaderInsteadMade
<1>2. CASE p \in l.selected /\ ~MultipleItemsSelected(l)
  BY <1>2 DEF SelectWithControl
<1>3. CASE p \in l.selected /\ MultipleItemsSelected(l)
  <2> DEFINE w == MoveToUnselected(SetSelected(l, {p}, FALSE), p)
             e == Except(l.pool, {p})
             o == <<p>>
             q == Append(e, p)
             sel == l.selected \ {p}
             flg == l.flagged \ {p}
  <2>1. /\ Shaped(l) /\ InFront(l) /\ Led(l) /\ l \in ListType
        /\ l.pool \in Seq(Pages) /\ IsInjective(l.pool) /\ l.selected \subseteq Range(l.pool)
        /\ Range(l.order) = Range(l.pool) /\ p \in Pages /\ l.flagged \subseteq Pages
        /\ l.selected \subseteq Pages /\ p \in Range(l.pool)
    BY ListFacts DEF WellMade, Shaped
  <2>2. e \in Seq(Pages) /\ IsInjective(e) /\ Range(e) = Range(l.pool) \ {p}
    BY <2>1, ExceptFacts
  <2>3. Ahead(e, l.selected)
    BY <2>1, AmongAhead DEF Except, InFront
  <2>4. o \in Seq(Pages) /\ IsInjective(o) /\ Range(o) = {p}
    BY <2>1, OneItem
  <2>5. q = e \o o
    BY <2>1, <2>2, AppendIsConcat
  <2>6. Ahead(e, sel) /\ Range(o) \cap sel = {}
    <3>1. \A i \in DOMAIN e : e[i] # p
      BY <2>2 DEF Range
    <3>2. Ahead(e, sel)
      <4> HIDE DEF e
      <4> QED BY <2>3, <3>1 DEF Ahead
    <3> QED BY <2>4, <3>2
  <2>7. w = [l EXCEPT !.pool = q, !.selected = sel, !.flagged = flg]
    <3> HIDE DEF e
    <3> QED BY <2>1 DEF MoveToUnselected, SetSelected, ListType, e
  <2>8. sel \in SUBSET Pages /\ flg \in SUBSET Pages /\ sel \subseteq Range(l.pool)
    BY <2>1
  <2>9. sel # {}
    BY <2>1, <1>3, AnotherSelected
  <2> HIDE DEF e, o, w, q, sel, flg
  <2>10. Range(e) \cap Range(o) = {} /\ Range(e) \cup Range(o) = Range(l.pool)
    BY <2>1, <2>2, <2>4
  <2>11. q \in Seq(Pages) /\ IsInjective(q) /\ Range(q) = Range(l.pool)
    BY <2>2, <2>4, <2>5, <2>10, Joined
  <2>12. Ahead(q, sel)
    BY <2>2, <2>4, <2>5, <2>6, JoinedAhead
  <2>13. w \in ListType
    BY <2>1, <2>7, <2>8, <2>11 DEF ListType
  <2>14. /\ w.order = l.order /\ w.pool = q /\ w.selected = sel /\ w.flagged = flg
         /\ w.leader = l.leader
    BY <2>1, <2>7 DEF ListType
  <2>15. Shaped(w) /\ InFront(w)
    BY <2>1, <2>8, <2>11, <2>12, <2>13, <2>14 DEF Shaped, InFront
  <2>16. CASE l.leader # p
    <3>1. SelectWithControl(l, p) = w
      BY <1>3, <2>14, <2>16 DEF SelectWithControl, w
    <3>2. Led(w)
      BY <1>3, <2>1, <2>14, <2>16 DEF Led, sel, flg
    <3> QED BY <2>14, <2>15, <3>1, <3>2 DEF WellMade
  <2>17. CASE l.leader = p
    <3> DEFINE next == Nearest(w, p)
               f == {next}
               m == [w EXCEPT !.flagged = f, !.leader = next]
    <3>1. p \in Range(w.order) /\ w.selected # {}
      BY <2>9, <2>14
    <3>2. next \in w.selected
      BY <2>15, <3>1, NearestFacts
    <3>3. next \in Pages /\ next # NoPage
      BY <2>8, <2>14, <3>2, NoPageIsNone
    <3> HIDE DEF next
    <3>4. flg = {}
      BY <2>1, <2>17 DEF Led, flg
    <3>5. SelectWithControl(l, p) = [SetSelectionLeader(w, {next}, TRUE) EXCEPT !.leader = next]
      BY <1>3, <2>14, <2>17 DEF SelectWithControl, w, next
    <3>6. w.selected \cup {next} = w.selected /\ w.flagged \cup {next} = f
      BY <2>14, <3>2, <3>4
    <3>7. SelectWithControl(l, p) = m
      BY <2>13, <3>5, <3>6 DEF SetSelectionLeader, ListType
    <3>8. f \in SUBSET Pages
      BY <3>3
    <3>9. /\ m.order = w.order /\ m.pool = w.pool /\ m.selected = w.selected
          /\ m.flagged = {next} /\ m.leader = next
      BY <2>13 DEF ListType
    <3> HIDE DEF f
    <3>10. m \in ListType
      BY <2>13, <3>3, <3>8 DEF ListType
    <3> HIDE DEF m
    <3>11. Shaped(m) /\ InFront(m)
      BY <2>15, <3>9, <3>10, FlagsOnly
    <3>12. Led(m)
      BY <3>2, <3>3, <3>9 DEF Led
    <3> QED BY <2>14, <3>7, <3>9, <3>11, <3>12 DEF WellMade
  <2> QED BY <2>16, <2>17
<1> QED
  BY <1>1, <1>2, <1>3

\* A sequence without the item at one place.
LEMMA RemoveFacts ==
  ASSUME NEW S, NEW s \in Seq(S), IsInjective(s), NEW k, k \in 1..Len(s)
  PROVE  /\ RemoveAt(s, k) \in Seq(S) /\ IsInjective(RemoveAt(s, k))
         /\ Len(RemoveAt(s, k)) = Len(s) - 1
         /\ Range(RemoveAt(s, k)) = Range(s) \ {s[k]}
<1> DEFINE N == Len(s)
           j == k - 1
           i == k + 1
           one == 1
           a == SubSeq(s, one, j)
           b == SubSeq(s, i, N)
<1>1. /\ N \in Nat /\ DOMAIN s = 1..N /\ k \in Int /\ 1 <= k /\ k <= N
      /\ \A x \in 1..N : s[x] \in S
  BY LenProperties, ElementOfSeq
<1>2. /\ one \in Int /\ j \in Int /\ i \in Int /\ N \in Int
      /\ 1 <= one /\ j <= Len(s) /\ 1 <= i /\ N <= Len(s)
  BY <1>1
<1>3. Len(a) = k - 1
  <2>1. \A x \in one..j : s[x] \in S
    BY <1>1
  <2>2. Len(SubSeq(s, one, j)) = IF one <= j THEN j - one + 1 ELSE 0
    <3> HIDE DEF one, j
    <3> QED BY <1>2, <2>1, SubSeqProperties
  <2> HIDE DEF a
  <2> QED BY <1>1, <2>2 DEF a
<1>4. Len(b) = N - k
  <2>1. \A x \in i..N : s[x] \in S
    BY <1>1
  <2>2. Len(SubSeq(s, i, N)) = IF i <= N THEN N - i + 1 ELSE 0
    <3> HIDE DEF i, N
    <3> QED BY <1>2, <2>1, SubSeqProperties
  <2>3. (IF i <= N THEN N - i + 1 ELSE 0) = N - k
    <3> HIDE DEF N
    <3> QED BY <1>1
  <2> HIDE DEF i, N
  <2> QED BY <2>2, <2>3 DEF b
<1>5. a \in Seq(S) /\ IsInjective(a) /\ Range(a) = Items(s, one, j)
  <2> HIDE DEF one, j
  <2> QED BY <1>2, PartFacts
<1>6. b \in Seq(S) /\ IsInjective(b) /\ Range(b) = Items(s, i, N)
  <2> HIDE DEF i, N
  <2> QED BY <1>2, PartFacts
<1>7. /\ Items(s, one, j) \cap Items(s, i, N) = {}
      /\ Items(s, one, j) \cup Items(s, i, N) = Range(s) \ {s[k]}
  <2>1. \A x \in 1..N : x # k => x \in one..j \/ x \in i..N
    BY <1>1
  <2>2. \A x \in one..j : x \in 1..N /\ x # k /\ x \notin i..N
    BY <1>1
  <2>3. \A x \in i..N : x \in 1..N /\ x # k
    BY <1>1
  <2> HIDE DEF one, j, i, N
  <2>4. k \in 1..N
    BY <1>1
  <2>5. \A x, y \in 1..N : s[x] = s[y] => x = y
    BY <1>1 DEF IsInjective
  <2>6. Range(s) = {s[x] : x \in 1..N}
    BY <1>1 DEF Range
  <2>7. \A v : v \in Items(s, one, j) <=> \E x \in one..j : v = s[x]
    BY DEF Items
  <2>8. \A v : v \in Items(s, i, N) <=> \E x \in i..N : v = s[x]
    BY DEF Items
  <2>9. Items(s, one, j) \cap Items(s, i, N) = {}
    BY <2>2, <2>3, <2>5, <2>7, <2>8
  <2>10. Items(s, one, j) \cup Items(s, i, N) = Range(s) \ {s[k]}
    <3>1. ASSUME NEW v, v \in Range(s) \ {s[k]}
          PROVE  v \in Items(s, one, j) \cup Items(s, i, N)
      BY <2>1, <2>6, <2>7, <2>8, <3>1
    <3>2. ASSUME NEW v, v \in Items(s, one, j) \cup Items(s, i, N)
          PROVE  v \in Range(s) \ {s[k]}
      BY <2>2, <2>3, <2>4, <2>5, <2>6, <2>7, <2>8, <3>2
    <3> QED BY <3>1, <3>2
  <2> QED BY <2>9, <2>10
<1>8. RemoveAt(s, k) = a \o b
  BY DEF RemoveAt
<1> HIDE DEF a, b, one, j, i
<1>9. /\ a \o b \in Seq(S) /\ IsInjective(a \o b) /\ Range(a \o b) = Range(s) \ {s[k]}
  BY <1>5, <1>6, <1>7, Joined
<1>10. Len(a \o b) = N - 1
  <2>1. Len(a \o b) = Len(a) + Len(b)
    BY <1>5, <1>6, ConcatProperties
  <2> HIDE DEF N
  <2> QED BY <1>1, <1>3, <1>4, <2>1
<1> QED
  BY <1>8, <1>9, <1>10

\* A list in which only the order of items is another.
LEMMA OrderOnly ==
  ASSUME NEW l, WellMade(l), NEW m, m \in ListType,
         IsInjective(m.order), Range(m.order) = Range(l.order),
         m.pool = l.pool, m.selected = l.selected, m.flagged = l.flagged,
         m.leader = l.leader
  PROVE  WellMade(m)
BY DEF WellMade, Shaped, InFront, Led

\* invalidateThumbnail().
LEMMA InvalidatedMade ==
  ASSUME NEW l, WellMade(l), NEW p, p \in Range(l.order)
  PROVE  /\ WellMade(Invalidated(l, p)) /\ Invalidated(l, p).leader = l.leader
         /\ Range(Invalidated(l, p).order) = Range(l.order)
<1> DEFINE m == Invalidated(l, p)
           inc == IF p \in facts.complete THEN l.incomplete \ {p} ELSE l.incomplete \cup {p}
           from == Position(l, p)
           rest == RemoveAt(l.order, from)
           pInc == p \in inc
           at == ItemInsertPosition(stage, inc, rest, p, p \in inc, from)
           o == InsertAt(rest, at, p)
           n == Len(l.order)
<1>1. /\ l \in ListType /\ l.order \in Seq(Pages) /\ IsInjective(l.order)
      /\ p \in Pages /\ l.incomplete \subseteq Pages
  BY ListFacts DEF WellMade, Shaped
<1>2. from \in 1..n /\ l.order[from] = p
  BY <1>1, PositionFacts
<1>3. n \in Nat
  BY <1>1, LenProperties
<1>4. inc \in SUBSET Pages
  BY <1>1
<1> HIDE DEF from, inc
<1>5. /\ rest \in Seq(Pages) /\ IsInjective(rest) /\ Len(rest) = n - 1
      /\ Range(rest) = Range(l.order) \ {p}
  BY <1>1, <1>2, RemoveFacts
<1> HIDE DEF rest
<1>6. at \in 1..(Len(rest) + 1)
  <2>1. from \in 1..(Len(rest) + 1)
    BY <1>2, <1>3, <1>5
  <2> QED BY <1>5, <2>1, InsertPlace
<1>7. m = [l EXCEPT !.incomplete = inc, !.order = o]
  <2> HIDE DEF at, o
  <2> QED BY DEF Invalidated, o, at, rest, from, inc
<1> HIDE DEF at
<1>8. o \in Seq(Pages) /\ Range(o) = Range(rest) \cup {p} /\ IsInjective(o)
  <2>1. rest \in Seq(Pages) /\ p \in Pages /\ IsInjective(rest) /\ p \notin Range(rest)
    BY <1>1, <1>5
  <2>2. /\ InsertAt(rest, at, p) \in Seq(Pages)
        /\ Range(InsertAt(rest, at, p)) = Range(rest) \cup {p}
        /\ IsInjective(rest) /\ p \notin Range(rest) => IsInjective(InsertAt(rest, at, p))
    BY ONLY <2>1, <1>6, InsertFacts
  <2> QED BY <2>1, <2>2
<1>9. Range(o) = Range(l.order)
  BY <1>5, <1>8
<1> HIDE DEF o, m
<1>10. m \in ListType
  BY <1>1, <1>4, <1>7, <1>8 DEF ListType
<1>11. /\ m.order = o /\ m.pool = l.pool /\ m.selected = l.selected
       /\ m.flagged = l.flagged /\ m.leader = l.leader
  BY <1>1, <1>7 DEF ListType
<1>12. WellMade(m)
  BY <1>8, <1>9, <1>10, <1>11, OrderOnly
<1> QED
  BY <1>9, <1>11, <1>12 DEF m

\* invalidateAllThumbnails().
LEMMA AllInvalidatedMade ==
  ASSUME NEW l, WellMade(l), NEW st
  PROVE  /\ WellMade(AllInvalidated(l, st)) /\ AllInvalidated(l, st).leader = l.leader
         /\ AllInvalidated(l, st).selected = l.selected
         /\ Range(AllInvalidated(l, st).order) = Range(l.order)
<1> DEFINE m == AllInvalidated(l, st)
           inc == Range(l.order) \ facts.complete
           o == Sorted(st, inc, l.order)
<1>1. /\ l \in ListType /\ l.order \in Seq(Pages) /\ IsInjective(l.order)
      /\ Range(l.order) \subseteq Pages
  BY ListFacts DEF WellMade, Shaped
<1>2. inc \in SUBSET Pages
  BY <1>1
<1>3. o \in Seq(Pages) /\ IsInjective(o) /\ Range(o) = Range(l.order)
  BY <1>1, SortedFacts
<1>4. m = [l EXCEPT !.incomplete = inc, !.order = o]
  <2> HIDE DEF inc
  <2> QED BY <1>1 DEF AllInvalidated, inc, ListType
<1> HIDE DEF o, m, inc
<1>5. m \in ListType
  BY <1>1, <1>2, <1>3, <1>4 DEF ListType
<1>6. /\ m.order = o /\ m.pool = l.pool /\ m.selected = l.selected
      /\ m.flagged = l.flagged /\ m.leader = l.leader
  BY <1>1, <1>4 DEF ListType
<1>7. WellMade(m)
  BY <1>3, <1>5, <1>6, OrderOnly
<1> QED
  BY <1>3, <1>6, <1>7 DEF m
-----------------------------------------------------------------------------
(* The list that is made anew.                                             *)

\* Both ends of a sequence are among its items.
LEMMA EndFacts ==
  ASSUME NEW S, NEW s \in Seq(S), s # <<>>
  PROVE  Head(s) \in Range(s) /\ Last(s) \in Range(s)
<1>1. Len(s) \in Nat /\ DOMAIN s = 1..Len(s) /\ Len(s) # 0
  BY LenProperties, EmptySeq
<1>2. 1 \in DOMAIN s /\ Len(s) \in DOMAIN s
  BY <1>1
<1>3. Head(s) = s[1] /\ Last(s) = s[Len(s)]
  BY <1>1, HeadTailProperties DEF Last
<1> QED
  BY <1>2, <1>3 DEF Range

LEMMA EmptyListMade == WellMade(EmptyList) /\ Range(EmptyList.order) = {}
<1> DEFINE e == <<>>
           o == {}
<1>1. e \in Seq(Pages) /\ IsInjective(e) /\ Range(e) = {} /\ DOMAIN e = {}
  BY EmptySeq DEF IsInjective, Range
<1>2. o \in SUBSET Pages /\ NoPage \in Pages \cup {NoPage}
  OBVIOUS
<1>3. EmptyList = [order |-> e, pool |-> e, selected |-> o, flagged |-> o,
                   leader |-> NoPage, incomplete |-> o]
  BY DEF EmptyList
<1> HIDE DEF e
<1>4. EmptyList \in ListType
  <2> HIDE DEF o
  <2> QED BY <1>1, <1>2, <1>3 DEF ListType
<1>5. /\ EmptyList.order = e /\ EmptyList.pool = e /\ EmptyList.selected = {}
      /\ EmptyList.flagged = {} /\ EmptyList.leader = NoPage
  BY <1>3
<1> QED
  BY <1>1, <1>4, <1>5 DEF WellMade, Shaped, InFront, Led, Ahead

\* Some page is of the image of x.
OfImage(pages, x) == \E p \in pages : p[1] = x[1]

\* The leader is looked for among the pages that are selected again.
LEMMA LeaderAmongFacts ==
  ASSUME NEW s \in Seq(Pages), s # <<>>, NEW x
  PROVE  /\ LeaderAmong(s, x) \in Range(s)
         /\ x \in Range(s) => LeaderAmong(s, x) = x
         /\ OfImage(Range(s), x) => LeaderAmong(s, x)[1] = x[1]
<1> DEFINE A == {p \in Range(s) : p[1] = x[1]}
           same == Among(s, A)
<1>1. same \in Seq(Pages) /\ Range(same) = Range(s) \cap A
  BY AmongFacts
<1>2. Range(same) = A
  BY <1>1
<1>3. Last(s) \in Range(s)
  BY EndFacts
<1>4. LeaderAmong(s, x) = IF x \in Range(s) THEN x
                          ELSE IF same # <<>> THEN Head(same) ELSE Last(s)
  BY DEF LeaderAmong
<1> HIDE DEF same
<1>5. CASE x \in Range(s)
  BY <1>4, <1>5
<1>6. CASE x \notin Range(s) /\ same # <<>>
  <2>1. Head(same) \in Range(same)
    BY <1>1, <1>6, EndFacts
  <2> QED BY <1>2, <1>4, <1>6, <2>1
<1>7. CASE x \notin Range(s) /\ same = <<>>
  <2> DEFINE e == <<>>
  <2>1. Range(e) = {}
    BY DEF Range
  <2> HIDE DEF e
  <2>2. A = {}
    BY <1>2, <1>7, <2>1 DEF e
  <2>3. ~OfImage(Range(s), x)
    BY <2>2 DEF OfImage
  <2> QED BY <1>3, <1>4, <1>7, <2>3
<1> QED
  BY <1>5, <1>6, <1>7

\* The pages that are selected when the list is made anew with some pages.
SelectedAgain(l, pages, keep) ==
  WereSelected(Range(pages), IF keep THEN SelectedItems(l) ELSE {})

\* reset(): of the selection, what is listed again is in front.
LEMMA RefilledMade ==
  ASSUME NEW l, NEW pages \in Seq(Pages), IsInjective(pages), NEW keep
  PROVE  /\ WellMade(Refilled(l, pages, keep))
         /\ Refilled(l, pages, keep).order = pages
         /\ Refilled(l, pages, keep).selected = SelectedAgain(l, pages, keep)
         /\ l.leader \in SelectedAgain(l, pages, keep) => Refilled(l, pages, keep).leader = l.leader
         /\ OfImage(SelectedAgain(l, pages, keep), l.leader)
              => Refilled(l, pages, keep).leader[1] = l.leader[1]
<1> DEFINE were == SelectedAgain(l, pages, keep)
           m == Refilled(l, pages, keep)
           found == Among(pages, were)
           a == Reverse(found)
           b == Except(pages, were)
           q == a \o b
           x == IF found = <<>> THEN NoPage ELSE LeaderAmong(found, l.leader)
           f == {x} \ {NoPage}
           o == {}
<1>1. were \subseteq Range(pages) /\ Range(pages) \subseteq Pages
  BY RangeOfSeq DEF SelectedAgain, WereSelected
<1> HIDE DEF were
<1>2. found \in Seq(Pages) /\ IsInjective(found) /\ Range(found) = were
  <2>1. /\ found \in Seq(Pages) /\ Range(found) = Range(pages) \cap were
        /\ IsInjective(found)
    BY AmongFacts
  <2> HIDE DEF found
  <2> QED BY <1>1, <2>1
<1>3. b \in Seq(Pages) /\ IsInjective(b) /\ Range(b) = Range(pages) \ were
  BY ExceptFacts
<1>4. m = [order |-> pages, pool |-> q, selected |-> Range(found), flagged |-> f,
           leader |-> x, incomplete |-> o]
  <2>1. WereSelected(Range(pages), IF keep THEN SelectedItems(l) ELSE {}) = were
    BY DEF were, SelectedAgain
  <2>2. m = [EmptyList EXCEPT !.order = pages, !.pool = q, !.selected = Range(found),
                              !.leader = x, !.flagged = f]
    <3> HIDE DEF SelectedAgain, were
    <3> QED BY <2>1, Zenon DEF Refilled
  <2> HIDE DEF q, x, f, m
  <2> QED BY <2>2 DEF EmptyList
<1> HIDE DEF m, b, found
<1>5. a \in Seq(Pages) /\ IsInjective(a) /\ Range(a) = were
  BY <1>2, ReverseFacts
<1> HIDE DEF a
<1>6. Range(a) \cap Range(b) = {} /\ Range(a) \cup Range(b) = Range(pages)
  BY <1>1, <1>3, <1>5
<1>7. q \in Seq(Pages) /\ IsInjective(q) /\ Range(q) = Range(pages)
  BY <1>3, <1>5, <1>6, Joined
<1>8. Ahead(q, were)
  <2>1. Ahead(a, were) /\ Range(b) \cap were = {}
    <3>1. \A i \in DOMAIN a : a[i] \in were
      BY <1>5 DEF Range
    <3> QED BY <1>3, <3>1 DEF Ahead
  <2> QED BY <1>3, <1>5, <2>1, JoinedAhead
<1> HIDE DEF q
<1>9. /\ found = <<>> => x = NoPage /\ were = {}
      /\ found # <<>> => x \in were
      /\ l.leader \in were => x = l.leader
      /\ OfImage(were, l.leader) => x[1] = l.leader[1]
  <2>1. CASE found = <<>>
    <3> DEFINE e == <<>>
    <3>1. Range(e) = {}
      BY DEF Range
    <3> HIDE DEF e
    <3>2. were = {}
      BY <1>2, <2>1, <3>1 DEF e
    <3> QED BY <2>1, <3>2 DEF OfImage
  <2>2. CASE found # <<>>
    <3>1. /\ LeaderAmong(found, l.leader) \in Range(found)
          /\ l.leader \in Range(found) => LeaderAmong(found, l.leader) = l.leader
          /\ OfImage(Range(found), l.leader) => LeaderAmong(found, l.leader)[1] = l.leader[1]
      BY <1>2, <2>2, LeaderAmongFacts
    <3> QED BY <1>2, <2>2, <3>1
  <2> QED BY <2>1, <2>2
<1>10. x \in Pages \cup {NoPage} /\ f = {x} \ {NoPage} /\ f \in SUBSET Pages
       /\ (x = NoPage => were = {}) /\ (x # NoPage => x \in were)
  BY <1>1, <1>9, NoPageIsNone
<1> HIDE DEF x, f
<1>11. o \in SUBSET Pages /\ were \in SUBSET Pages
  BY <1>1
<1> HIDE DEF o
<1>12. m \in ListType
  BY <1>2, <1>4, <1>7, <1>10, <1>11 DEF ListType
<1>13. /\ m.order = pages /\ m.pool = q /\ m.selected = were /\ m.flagged = f
       /\ m.leader = x
  BY <1>2, <1>4
<1>14. Shaped(m) /\ InFront(m)
  BY <1>1, <1>7, <1>8, <1>12, <1>13 DEF Shaped, InFront
<1>15. Led(m)
  BY <1>10, <1>13 DEF Led
<1> QED
  BY <1>9, <1>13, <1>14, <1>15 DEF WellMade, m, were

LEMMA ResetMade ==
  ASSUME NEW l, NEW pages \in Seq(Pages), IsInjective(pages), NEW keep, NEW st
  PROVE  /\ WellMade(Reset(l, pages, keep, st))
         /\ Range(Reset(l, pages, keep, st).order) = Range(pages)
         /\ Reset(l, pages, keep, st).selected = SelectedAgain(l, pages, keep)
         /\ l.leader \in SelectedAgain(l, pages, keep) => Reset(l, pages, keep, st).leader = l.leader
         /\ OfImage(SelectedAgain(l, pages, keep), l.leader)
              => Reset(l, pages, keep, st).leader[1] = l.leader[1]
<1>1. CASE pages = <<>>
  <2> DEFINE e == <<>>
  <2>1. Range(e) = {}
    BY DEF Range
  <2> HIDE DEF e
  <2>2. Range(pages) = {}
    BY <1>1, <2>1 DEF e
  <2>3. SelectedAgain(l, pages, keep) = {}
    BY <2>2 DEF SelectedAgain, WereSelected
  <2>4. Reset(l, pages, keep, st) = EmptyList /\ EmptyList.selected = {}
    BY <1>1 DEF Reset, EmptyList
  <2> QED BY <2>2, <2>3, <2>4, EmptyListMade DEF OfImage
<1>2. CASE pages # <<>>
  <2> DEFINE r == Refilled(l, pages, keep)
  <2>1. /\ WellMade(r) /\ r.order = pages /\ r.selected = SelectedAgain(l, pages, keep)
        /\ l.leader \in SelectedAgain(l, pages, keep) => r.leader = l.leader
        /\ OfImage(SelectedAgain(l, pages, keep), l.leader) => r.leader[1] = l.leader[1]
    BY RefilledMade
  <2>2. Reset(l, pages, keep, st) = AllInvalidated(r, st)
    BY <1>2 DEF Reset
  <2> HIDE DEF r
  <2>3. /\ WellMade(AllInvalidated(r, st)) /\ AllInvalidated(r, st).leader = r.leader
        /\ AllInvalidated(r, st).selected = r.selected
        /\ Range(AllInvalidated(r, st).order) = Range(r.order)
    BY <2>1, AllInvalidatedMade
  <2> QED BY <2>1, <2>2, <2>3
<1> QED
  BY <1>1, <1>2
-----------------------------------------------------------------------------
(* Items that come and go.                                                 *)

LEMMA LeastOf ==
  ASSUME NEW S \in SUBSET Nat, S # {}
  PROVE  Min(S) \in S /\ \A u \in S : Min(S) <= u
<1>1. \E t \in S : \A u \in S : t <= u
  BY LeastNatural
<1> QED
  BY <1>1 DEF Min

LEMMA InsertHintFacts ==
  ASSUME NEW l, l.order \in Seq(Pages), NEW side, NEW image,
         image = None \/ <<image, "single">> \in Range(l.order)
  PROVE  InsertHint(l, side, image) \in 1..(Len(l.order) + 1)
<1> DEFINE n == Len(l.order)
           pos == Position(l, <<image, "single">>)
           next == {k \in pos + 1..n : l.order[k][1] # image} \cup {n + 1}
<1>1. n \in Nat
  BY LenProperties
<1>2. InsertHint(l, side, image) =
        IF image = None THEN n + 1
        ELSE IF side = "before" THEN pos
        ELSE IF Natural(stage) THEN Min(next) ELSE pos + 1
  BY DEF InsertHint
<1>3. CASE image = None
  BY <1>1, <1>2, <1>3
<1>4. CASE image # None
  <2>1. pos \in 1..n
    BY <1>4, PositionFacts
  <2> HIDE DEF pos, n
  <2>2. next \in SUBSET Nat /\ next # {} /\ next \subseteq 1..(n + 1)
    BY <1>1, <2>1
  <2> HIDE DEF next
  <2>3. Min(next) \in 1..(n + 1)
    BY <2>2, LeastOf
  <2>4. pos \in 1..(n + 1) /\ pos + 1 \in 1..(n + 1)
    BY <1>1, <2>1
  <2> QED BY <1>2, <1>4, <2>3, <2>4 DEF n
<1> QED
  BY <1>3, <1>4

\* insert() of one item: it is not selected, and behind what is.
LEMMA InsertItemMade ==
  ASSUME NEW l, WellMade(l), NEW p \in Pages, p \notin Range(l.order), NEW side, NEW image
  PROVE  /\ WellMade(InsertItem(l, p, side, image))
         /\ InsertItem(l, p, side, image).leader = l.leader
         /\ InsertItem(l, p, side, image).selected = l.selected
         /\ Range(InsertItem(l, p, side, image).order) \subseteq Range(l.order) \cup {p}
<1> DEFINE m == InsertItem(l, p, side, image)
           hint == InsertHint(l, side, image)
           at == ItemInsertPosition(stage, l.incomplete, l.order, p, TRUE, hint)
           o == InsertAt(l.order, at, p)
           one == <<p>>
           q == Append(l.pool, p)
           inc == l.incomplete \cup ({p} \ facts.complete)
<1>1. /\ Shaped(l) /\ InFront(l) /\ Led(l) /\ l \in ListType
      /\ l.order \in Seq(Pages) /\ IsInjective(l.order)
      /\ l.pool \in Seq(Pages) /\ IsInjective(l.pool) /\ l.selected \subseteq Range(l.pool)
      /\ Range(l.order) = Range(l.pool) /\ l.incomplete \subseteq Pages
  BY ListFacts DEF WellMade, Shaped
<1>2. CASE image # None /\ <<image, "single">> \notin Range(l.order)
  <2>1. m = l
    BY <1>2 DEF InsertItem
  <2> QED BY <1>1, <2>1
<1>3. CASE image = None \/ <<image, "single">> \in Range(l.order)
  <2>1. hint \in 1..(Len(l.order) + 1)
    BY <1>1, <1>3, InsertHintFacts
  <2>2. m = [l EXCEPT !.order = o, !.pool = q, !.incomplete = inc]
    BY <1>3 DEF InsertItem
  <2>3. inc \in SUBSET Pages
    BY <1>1
  <2> HIDE DEF hint, inc, m
  <2>4. at \in 1..(Len(l.order) + 1)
    BY <1>1, <2>1, InsertPlace
  <2> HIDE DEF at
  <2>5. /\ InsertAt(l.order, at, p) \in Seq(Pages)
        /\ Range(InsertAt(l.order, at, p)) = Range(l.order) \cup {p}
        /\ IsInjective(l.order) /\ p \notin Range(l.order)
             => IsInjective(InsertAt(l.order, at, p))
    BY <1>1, <2>4, InsertFacts
  <2>6. o \in Seq(Pages) /\ Range(o) = Range(l.order) \cup {p} /\ IsInjective(o)
    BY <1>1, <2>5
  <2> HIDE DEF o
  <2>7. one \in Seq(Pages) /\ IsInjective(one) /\ Range(one) = {p}
    BY OneItem
  <2>8. q = l.pool \o one
    BY <1>1, AppendIsConcat
  <2> HIDE DEF one, q
  <2>9. Range(l.pool) \cap Range(one) = {} /\ Range(one) \cap l.selected = {}
    BY <1>1, <2>7
  <2>10. q \in Seq(Pages) /\ IsInjective(q) /\ Range(q) = Range(l.pool) \cup {p}
    BY <1>1, <2>7, <2>8, <2>9, Joined
  <2>11. Ahead(q, l.selected)
    <3>1. Ahead(l.pool, l.selected)
      BY <1>1 DEF InFront
    <3> QED BY <1>1, <2>7, <2>8, <2>9, <3>1, JoinedAhead
  <2>12. m \in ListType
    BY <1>1, <2>2, <2>3, <2>6, <2>10 DEF ListType
  <2>13. /\ m.order = o /\ m.pool = q /\ m.selected = l.selected
         /\ m.flagged = l.flagged /\ m.leader = l.leader
    BY <1>1, <2>2 DEF ListType
  <2>14. Shaped(m) /\ InFront(m) /\ Led(m)
    BY <1>1, <2>6, <2>10, <2>11, <2>12, <2>13 DEF Shaped, InFront, Led
  <2> QED BY <2>6, <2>13, <2>14 DEF WellMade, m
<1> QED
  BY <1>2, <1>3

\* insert() of the pages of an image.
LEMMA InsertAllMade ==
  ASSUME NEW l, WellMade(l), NEW pages \in Seq(Pages), IsInjective(pages),
         Range(pages) # {}, Range(pages) \cap Range(l.order) = {}, NEW side, NEW image
  PROVE  /\ WellMade(InsertAll(l, pages, side, image))
         /\ InsertAll(l, pages, side, image).leader = l.leader
         /\ InsertAll(l, pages, side, image).selected = l.selected
         /\ Range(InsertAll(l, pages, side, image).order)
              \subseteq Range(l.order) \cup Range(pages)
<1> DEFINE p == pages[1]
           q == pages[2]
           f == InsertItem(l, p, side, image)
           other == q[1]
           m == InsertItem(f, q, side, other)
<1>1. Len(pages) \in Nat /\ DOMAIN pages = 1..Len(pages) /\ Len(pages) # 0
  <2>1. Len(pages) \in Nat /\ DOMAIN pages = 1..Len(pages)
    BY LenProperties
  <2> QED BY <2>1 DEF Range
<1>2. 1 \in DOMAIN pages /\ (Len(pages) # 1 => 2 \in DOMAIN pages)
  BY <1>1
<1>3. p \in Pages /\ p \in Range(pages) /\ p \notin Range(l.order)
  BY <1>1, <1>2, ElementOfSeq DEF Range
<1>4. InsertAll(l, pages, side, image) = IF Len(pages) = 1 THEN f ELSE m
  BY DEF InsertAll
<1> HIDE DEF p, other
<1>5. /\ WellMade(f) /\ f.leader = l.leader /\ f.selected = l.selected
      /\ Range(f.order) \subseteq Range(l.order) \cup {p}
  <2>1. /\ WellMade(InsertItem(l, p, side, image))
        /\ InsertItem(l, p, side, image).leader = l.leader
        /\ InsertItem(l, p, side, image).selected = l.selected
        /\ Range(InsertItem(l, p, side, image).order) \subseteq Range(l.order) \cup {p}
    BY <1>3, InsertItemMade
  <2> QED BY <2>1
<1>6. CASE Len(pages) = 1
  BY <1>3, <1>4, <1>5, <1>6
<1>7. CASE Len(pages) # 1
  <2>1. q \in Pages /\ q \in Range(pages) /\ q \notin Range(l.order)
    BY <1>1, <1>2, <1>7, ElementOfSeq DEF Range
  <2>2. q # p
    BY <1>2, <1>7 DEF IsInjective, p
  <2> HIDE DEF q, f
  <2>3. q \notin Range(f.order)
    BY <1>5, <2>1, <2>2
  <2>4. /\ WellMade(m) /\ m.leader = f.leader /\ m.selected = f.selected
        /\ Range(m.order) \subseteq Range(f.order) \cup {q}
    <3>1. WellMade(f)
      BY <1>5
    <3>2. /\ WellMade(InsertItem(f, q, side, other))
          /\ InsertItem(f, q, side, other).leader = f.leader
          /\ InsertItem(f, q, side, other).selected = f.selected
          /\ Range(InsertItem(f, q, side, other).order) \subseteq Range(f.order) \cup {q}
      BY <2>1, <2>3, <3>1, InsertItemMade
    <3> QED BY <3>2
  <2> HIDE DEF m
  <2> QED BY <1>3, <1>4, <1>5, <1>7, <2>1, <2>4
<1> QED
  BY <1>6, <1>7

\* Items that leave the list: the leader goes only with all that is selected.
LEMMA WithoutItemsMade ==
  ASSUME NEW l, WellMade(l), NEW ps, l.leader \in ps => l.selected \subseteq ps
  PROVE  /\ WellMade(WithoutItems(l, ps))
         /\ Range(WithoutItems(l, ps).order) = Range(l.order) \ ps
         /\ WithoutItems(l, ps).leader = IF l.leader \in ps THEN NoPage ELSE l.leader
<1> DEFINE m == WithoutItems(l, ps)
           o == Except(l.order, ps)
           q == Except(l.pool, ps)
           sel == l.selected \ ps
           flg == l.flagged \ ps
           inc == l.incomplete \ ps
           x == IF l.leader \in ps THEN NoPage ELSE l.leader
<1>1. /\ Shaped(l) /\ InFront(l) /\ Led(l) /\ l \in ListType
      /\ l.order \in Seq(Pages) /\ IsInjective(l.order)
      /\ l.pool \in Seq(Pages) /\ IsInjective(l.pool) /\ l.selected \subseteq Range(l.pool)
      /\ Range(l.order) = Range(l.pool) /\ l.incomplete \subseteq Pages
      /\ l.selected \subseteq Pages /\ l.flagged \subseteq Pages
      /\ l.leader \in Pages \cup {NoPage}
  BY ListFacts DEF WellMade, Shaped
<1>2. o \in Seq(Pages) /\ IsInjective(o) /\ Range(o) = Range(l.order) \ ps
  BY <1>1, ExceptFacts
<1>3. q \in Seq(Pages) /\ IsInjective(q) /\ Range(q) = Range(l.pool) \ ps
  BY <1>1, ExceptFacts
<1>4. Ahead(q, l.selected)
  BY <1>1, AmongAhead DEF Except, InFront
<1>5. m = [l EXCEPT !.order = o, !.pool = q, !.selected = sel, !.flagged = flg,
                    !.incomplete = inc, !.leader = x]
  <2> HIDE DEF o, q
  <2> QED BY <1>1 DEF WithoutItems, ListType, o, q
<1>6. /\ sel \in SUBSET Pages /\ flg \in SUBSET Pages /\ inc \in SUBSET Pages
      /\ x \in Pages \cup {NoPage}
  BY <1>1
<1>7. Ahead(q, sel)
  <2>1. \A i \in DOMAIN q : q[i] \notin ps
    BY <1>3 DEF Range
  <2> HIDE DEF q
  <2> QED BY <1>4, <2>1 DEF Ahead
<1>8. sel \subseteq Range(q)
  BY <1>1, <1>3
<1>9. flg = {x} \ {NoPage} /\ (x = NoPage => sel = {}) /\ (x # NoPage => x \in sel)
  BY <1>1 DEF Led
<1> HIDE DEF m, o, q, sel, flg, inc, x
<1>10. m \in ListType
  BY <1>1, <1>2, <1>3, <1>5, <1>6 DEF ListType
<1>11. /\ m.order = o /\ m.pool = q /\ m.selected = sel /\ m.flagged = flg /\ m.leader = x
  BY <1>1, <1>5 DEF ListType
<1>12. Shaped(m) /\ InFront(m) /\ Led(m)
  BY <1>1, <1>2, <1>3, <1>7, <1>8, <1>9, <1>10, <1>11 DEF Shaped, InFront, Led
<1> QED
  BY <1>2, <1>11, <1>12 DEF WellMade, m, x

\* The item that is selected in place of those that go is one that stays.
LEMMA SelectedInsteadFacts ==
  ASSUME WellMade(list), NEW pages, pages \subseteq Range(list.order), pages # {}
  PROVE  SelectedInstead(pages) = NoPage \/ SelectedInstead(pages) \in Range(list.order) \ pages
<1> DEFINE o == list.order
           S == {i \in DOMAIN o : o[i] \in pages}
           first == Min(S)
           kept == Except(o, pages)
<1>1. /\ o \in Seq(Pages) /\ Len(o) \in Nat /\ DOMAIN o = 1..Len(o)
  BY ListFacts, LenProperties DEF WellMade
<1>2. kept \in Seq(Pages) /\ Range(kept) = Range(o) \ pages
  BY <1>1, ExceptFacts
<1>3. SelectedInstead(pages) = IF kept = <<>> THEN NoPage
                               ELSE IF first = 1 THEN Head(kept) ELSE o[first - 1]
  BY DEF SelectedInstead
<1>4. S \in SUBSET Nat /\ S # {} /\ S \subseteq 1..Len(o)
  BY <1>1 DEF Range
<1>5. first \in S /\ \A u \in S : first <= u
  <2> HIDE DEF S
  <2> QED BY <1>4, LeastOf
<1> HIDE DEF kept, first
<1>6. CASE kept = <<>>
  BY <1>3, <1>6
<1>7. CASE kept # <<>> /\ first = 1
  <2>1. Head(kept) \in Range(kept)
    BY <1>2, <1>7, EndFacts
  <2> QED BY <1>2, <1>3, <1>7, <2>1
<1>8. CASE kept # <<>> /\ first # 1
  <2>1. first - 1 \in 1..Len(o) /\ first - 1 \notin S
    BY <1>1, <1>4, <1>5, <1>8
  <2>2. o[first - 1] \in Range(o) \ pages
    BY <1>1, <2>1 DEF Range
  <2> QED BY <1>3, <1>8, <2>2
<1> QED
  BY <1>6, <1>7, <1>8

\* The page that is shown again after a batch is listed.
LEMMA RestoredFacts ==
  ASSUME NEW l, WellMade(l), NEW p
  PROVE  /\ l.order = <<>> => Restored(l, p) = NoPage
         /\ l.order # <<>> => Restored(l, p) \in Range(l.order)
<1> DEFINE a == <<p[1], "left">>
           b == <<p[1], "right">>
           c == <<p[1], "single">>
           S == Pages \cup {p, a, b, c}
           forms == <<p, a, b, c>>
           there == Among(forms, Range(l.order))
           q == there \o l.order
<1>1. l.order \in Seq(S)
  <2>1. l.order \in Seq(Pages)
    BY ListFacts DEF WellMade
  <2>2. l.order \in [1..Len(l.order) -> S] /\ Len(l.order) \in Nat
    <3>1. l.order \in [1..Len(l.order) -> Pages] /\ Len(l.order) \in Nat
      BY <2>1, LenProperties, ElementOfSeq
    <3> QED BY <3>1
  <2> HIDE DEF S
  <2> QED BY <2>2, IsASeq
<1>2. forms \in Seq(S)
  <2>1. p \in S /\ a \in S /\ b \in S /\ c \in S
    OBVIOUS
  <2> HIDE DEF S, a, b, c
  <2> QED BY <2>1
<1>3. Restored(l, p) = IF l.order = <<>> THEN NoPage ELSE Head(q)
  BY DEF Restored
<1> HIDE DEF S, forms
<1>4. there \in Seq(S) /\ Range(there) \subseteq Range(l.order)
  <2>1. there \in Seq(S) /\ Range(there) = Range(forms) \cap Range(l.order)
    BY <1>2, AmongFacts
  <2> QED BY <2>1
<1> HIDE DEF there
<1>5. q \in Seq(S) /\ Range(q) = Range(there) \cup Range(l.order)
  BY <1>1, <1>4, Joined
<1>6. ASSUME l.order # <<>> PROVE Head(q) \in Range(l.order)
  <2>1. Len(q) # 0
    <3>1. Len(q) = Len(there) + Len(l.order) /\ Len(there) \in Nat /\ Len(l.order) \in Nat
      BY <1>1, <1>4, ConcatProperties, LenProperties
    <3>2. Len(l.order) # 0
      BY <1>1, <1>6, EmptySeq
    <3> HIDE DEF q
    <3> QED BY <3>1, <3>2
  <2>2. q # <<>>
    BY <2>1
  <2> HIDE DEF q
  <2>3. Head(q) \in Range(q)
    BY <1>5, <2>2, EndFacts
  <2> QED BY <1>4, <1>5, <2>3
<1> QED
  BY <1>3, <1>6
-----------------------------------------------------------------------------
(* The project under the list.                                             *)

\* Each image is in a project once, said of its records.
LEMMA SoundRecords ==
  ASSUME NEW images \in Seq(ImageRecords)
  PROVE  ProjectSound(images) <=>
           /\ IsInjective(images)
           /\ \A a, b \in Range(images) : a.id = b.id => a = b
<1>1. ASSUME ProjectSound(images)
      PROVE  /\ IsInjective(images)
             /\ \A a, b \in Range(images) : a.id = b.id => a = b
  BY <1>1 DEF ProjectSound, IsInjective, Range
<1>2. ASSUME IsInjective(images), \A a, b \in Range(images) : a.id = b.id => a = b
      PROVE  ProjectSound(images)
  <2> SUFFICES ASSUME NEW i \in DOMAIN images, NEW j \in DOMAIN images,
                      images[i].id = images[j].id
               PROVE  i = j
    BY DEF ProjectSound
  <2>1. images[i] \in Range(images) /\ images[j] \in Range(images)
    BY DEF Range
  <2>2. images[i] = images[j]
    BY <1>2, <2>1
  <2> QED BY <1>2, <2>2 DEF IsInjective
<1> QED
  BY <1>1, <1>2

\* What removePages() makes of an image that stays.
Lessened(image, pages) ==
  [image EXCEPT !.halves = @ \ RemovedHalves(image, pages)]
LessenedIn(r, i, images, pages) ==
  \E image \in Range(images) : Stays(image, pages) /\ r[i] = Lessened(image, pages)

LEMMA RemovedFacts ==
  ASSUME NEW images, ProjectSound(images), NEW pages
  PROVE  /\ ProjectSound(RemovedFrom(images, pages))
         /\ \A i \in DOMAIN RemovedFrom(images, pages) :
              LessenedIn(RemovedFrom(images, pages), i, images, pages)
<1> DEFINE A == {image \in Range(images) : Stays(image, pages)}
           kept == Among(images, A)
           n == Len(kept)
           r == [i \in DOMAIN kept |-> Lessened(kept[i], pages)]
<1>1. images \in Seq(ImageRecords) /\ IsInjective(images)
      /\ \A a, b \in Range(images) : a.id = b.id => a = b
  BY SoundRecords DEF ProjectSound
<1>2. /\ kept \in Seq(ImageRecords) /\ IsInjective(kept)
      /\ Range(kept) = Range(images) \cap A
  BY <1>1, AmongFacts
<1>3. RemovedFrom(images, pages) = r
  BY DEF RemovedFrom, Lessened
<1> HIDE DEF kept
<1>4. n \in Nat /\ DOMAIN kept = 1..n /\ \A i \in 1..n : kept[i] \in ImageRecords
  BY <1>2, LenProperties, ElementOfSeq
<1> HIDE DEF n
<1>5. ASSUME NEW a \in ImageRecords
      PROVE  Lessened(a, pages) \in ImageRecords /\ Lessened(a, pages).id = a.id
  BY DEF ImageRecords, Lessened
<1>6. \A i \in 1..n : r[i] \in ImageRecords /\ r[i].id = kept[i].id
                      /\ r[i] = Lessened(kept[i], pages) /\ kept[i] \in Range(kept)
  BY <1>4, <1>5 DEF Range
<1>7. r \in [1..n -> ImageRecords] /\ DOMAIN r = 1..n
  <2>1. r = [i \in 1..n |-> Lessened(kept[i], pages)]
    BY <1>4
  <2> QED BY <1>4, <1>5, <2>1
<1> HIDE DEF r
<1>8. r \in Seq(ImageRecords)
  BY <1>4, <1>7, IsASeq
<1>9. ProjectSound(r)
  <2> SUFFICES ASSUME NEW i \in 1..n, NEW j \in 1..n, r[i].id = r[j].id
               PROVE  i = j
    BY <1>7, <1>8 DEF ProjectSound
  <2>1. kept[i] \in Range(images) /\ kept[j] \in Range(images) /\ kept[i].id = kept[j].id
    BY <1>2, <1>6
  <2>2. kept[i] = kept[j]
    BY <1>1, <2>1
  <2> QED BY <1>2, <1>4, <2>2 DEF IsInjective
<1>10. ASSUME NEW i \in 1..n PROVE LessenedIn(r, i, images, pages)
  <2>1. kept[i] \in Range(images) /\ Stays(kept[i], pages)
    BY <1>2, <1>6
  <2> QED BY <1>6, <2>1 DEF LessenedIn
<1> QED
  BY <1>3, <1>7, <1>9, <1>10

\* Of an image that has one page now, the list does not show the other.
HalfAgrees(image, listed) ==
  \A h \in {"left", "right"} :
    image.halves = {h} => \A p \in listed : p[1] = image.id => p[2] \in {"single", h}
HalvesAgree(images, listed) == \A image \in Range(images) : HalfAgrees(image, listed)

LEMMA FewerAgree ==
  ASSUME NEW images, NEW listed, HalvesAgree(images, listed), NEW fewer,
         fewer \subseteq listed
  PROVE  HalvesAgree(images, fewer)
BY DEF HalvesAgree, HalfAgrees

LEMMA ListedAgree ==
  ASSUME NEW images, ProjectSound(images), NEW view
  PROVE  HalvesAgree(images, PagesIn(images, view))
<1> SUFFICES ASSUME NEW a \in Range(images), NEW h \in {"left", "right"}, a.halves = {h},
                    NEW p \in PagesIn(images, view), p[1] = a.id
             PROVE  p[2] \in {"single", h}
  BY DEF HalvesAgree, HalfAgrees
<1>1. PICK i \in DOMAIN images : p \in ListedOf(images[i], view)
  BY DEF PagesIn
<1>2. PICK q \in SubPagesOf(images[i], view) : p = <<images[i].id, q>>
  BY <1>1 DEF ListedOf
<1>3. images[i] = a
  BY <1>2 DEF ProjectSound, Range
<1>4. q \in SubPagesOf(a, view)
  BY <1>2, <1>3
<1>5. q \in {"single", h}
  BY <1>4 DEF SubPagesOf
<1> QED
  BY <1>2, <1>5

\* A page of an image that is in the project, in some form, is listed.
LEMMA SomePageListed ==
  ASSUME NEW images, ProjectSound(images), NEW view, NEW i \in DOMAIN images
  PROVE  \E p \in PagesIn(images, view) : p[1] = images[i].id
<1>1. images[i] \in ImageRecords
  BY ElementOfSeq, LenProperties DEF ProjectSound
<1>2. PICK h : h \in SubPagesOf(images[i], view)
  BY DEF SubPagesOf
<1>3. <<images[i].id, h>> \in ListedOf(images[i], view)
  BY <1>2 DEF ListedOf
<1> QED
  BY <1>3 DEF PagesIn

LEMMA ListedImages ==
  ASSUME NEW images, ProjectSound(images), NEW view, NEW p \in PagesIn(images, view)
  PROVE  /\ p[1] \in ImageIds
         /\ \E image \in Range(images) :
              p[1] = image.id /\ image \in ImageRecords
              /\ \A h \in SubPagesOf(image, view) : <<image.id, h>> \in PagesIn(images, view)
<1>1. PICK i \in DOMAIN images : p \in ListedOf(images[i], view)
  BY DEF PagesIn
<1>2. images[i] \in ImageRecords /\ images[i] \in Range(images)
  BY ElementOfSeq, LenProperties DEF ProjectSound, Range
<1>3. p[1] = images[i].id
  BY <1>1 DEF ListedOf
<1>4. \A h \in SubPagesOf(images[i], view) : <<images[i].id, h>> \in PagesIn(images, view)
  BY DEF ListedOf, PagesIn
<1>5. images[i].id \in ImageIds
  BY <1>2 DEF ImageRecords
<1> QED
  BY <1>2, <1>3, <1>4, <1>5

\* A page that was selected is found again, in one form or the other, when its
\* image is listed.
LEMMA SelectedAgainFacts ==
  ASSUME NEW images, ProjectSound(images), NEW listed, HalvesAgree(images, listed),
         NEW view, NEW selected, selected \subseteq listed, listed \subseteq Pages,
         NEW q \in selected, NEW p \in PagesIn(images, view), p[1] = q[1]
  PROVE  OfImage(WereSelected(PagesIn(images, view), selected), q)
<1> DEFINE P == PagesIn(images, view)
           W == WereSelected(P, selected)
<1>1. PICK image \in Range(images) :
        /\ p[1] = image.id /\ image \in ImageRecords
        /\ \A h \in SubPagesOf(image, view) : <<image.id, h>> \in P
  BY ListedImages
<1> HIDE DEF P
<1>2. q \in listed /\ q \in Pages
  OBVIOUS
<1>3. q = <<image.id, q[2]>> /\ q[2] \in {"single", "left", "right"}
  <2>1. PICK a \in ImageIds, h \in {"single", "left", "right"} : q = <<a, h>>
    BY <1>2 DEF Pages
  <2>2. q[1] = a /\ q[2] = h
    BY <2>1
  <2> QED BY <1>1, <2>1, <2>2
<1>4. image.halves \subseteq {"left", "right"}
  BY <1>1 DEF ImageRecords
<1>5. CASE view = "image" \/ image.halves = {}
  <2> DEFINE r == <<image.id, "single">>
  <2>1. r \in P
    BY <1>1, <1>5 DEF SubPagesOf
  <2>2. /\ q[2] = "left" => <<r[1], "left">> \in selected
        /\ q[2] = "right" => <<r[1], "right">> \in selected
        /\ q[2] = "single" => r \in selected
    BY <1>3
  <2>3. r \in W
    BY <1>3, <2>1, <2>2 DEF WereSelected
  <2> HIDE DEF W
  <2> QED BY <1>1, <2>3 DEF OfImage, W, P
<1>6. CASE ~(view = "image" \/ image.halves = {})
  <2>1. SubPagesOf(image, view) = image.halves
    BY <1>6 DEF SubPagesOf
  <2>2. CASE q[2] \in image.halves
    <3>1. q \in P
      BY <1>1, <1>3, <2>1, <2>2
    <3>2. q \in W
      BY <3>1 DEF WereSelected
    <3> HIDE DEF W
    <3> QED BY <3>2 DEF OfImage, W, P
  <2>3. CASE q[2] = "single"
    <3>1. PICK h \in image.halves : TRUE
      BY <1>6
    <3> DEFINE r == <<image.id, h>>
    <3>2. r \in P /\ r[2] # "single" /\ <<r[1], "single">> = q
      BY <1>1, <1>3, <1>4, <2>1, <2>3, <3>1
    <3>3. r \in W
      BY <3>2 DEF WereSelected
    <3> HIDE DEF W
    <3> QED BY <1>1, <3>3 DEF OfImage, W, P
  <2>4. CASE q[2] \notin image.halves /\ q[2] # "single"
    <3>1. PICK h \in {"left", "right"} : image.halves = {h} /\ h # q[2]
      BY <1>3, <1>4, <1>6, <2>4
    <3>2. HalfAgrees(image, listed)
      BY DEF HalvesAgree
    <3>3. q[2] \in {"single", h}
      BY <1>1, <1>2, <3>1, <3>2 DEF HalfAgrees
    <3> QED BY <2>4, <3>1, <3>3
  <2> QED BY <2>2, <2>3, <2>4
<1> QED
  BY <1>5, <1>6
-----------------------------------------------------------------------------
(* The invariant, action by action.                                        *)

\* The window is told of the leader, unless it was of one whose image had gone.
LeaderIsShown == ~lost /\ list.leader # NoPage => current[1] = list.leader[1]

\* The inductive invariant: the list is well made, for a project that has each
\* image once, and lists of an image with one page no half but that.
SelectionInvariant ==
  /\ ProjectSound(project)
  /\ WellMade(list)
  /\ HalvesAgree(project, Range(list.order))
  /\ LeaderIsShown

LEMMA InvariantFacts ==
  ASSUME SelectionInvariant
  PROVE  /\ SelectedItems(list) = list.selected
         /\ list.selected \subseteq Range(list.order) /\ Range(list.order) \subseteq Pages
         /\ list.leader # NoPage => list.leader \in list.selected
         /\ list.leader = NoPage => list.selected = {}
BY SelectedSeen, ListFacts DEF SelectionInvariant, WellMade, Shaped, Led

LEMMA InvariantImplies == SelectionInvariant => SelectionSound
BY InvariantFacts DEF SelectionInvariant, SelectionSound, WellMade, Led, LeaderIsShown

\* SelectedPage takes what it is told, or something of the same image.
LEMMA SetCurrentImage ==
  ASSUME NEW p, NEW view
  PROVE  SetCurrent(p, view)[1] = p[1]
BY DEF SetCurrent

\* A handler that changes neither the project nor which items there are, and
\* tells the window of the new leader, or changes none.
LEMMA SameItems ==
  ASSUME SelectionInvariant, project' = project, WellMade(list'),
         Range(list'.order) = Range(list.order),
         \/ current'[1] = list'.leader[1]
         \/ list'.leader = list.leader /\ current' = current /\ lost' = lost
  PROVE  SelectionInvariant'
BY DEF SelectionInvariant, LeaderIsShown

LEMMA ClickKeeps ==
  ASSUME SelectionInvariant, NEW p, NEW how \in {"plain", "shift", "ctrl"}, Click(p, how)
  PROVE  SelectionInvariant'
<1> DEFINE new == CASE how = "plain" -> SelectNoModifiers(list, p)
                    [] how = "shift" -> SelectWithShift(list, p)
                    [] how = "ctrl"  -> SelectWithControl(list, p)
           quiet == \/ how = "shift" /\ list.leader = p
                    \/ how = "ctrl" /\ new.leader = list.leader /\ new.leader # p
<1>1. WellMade(list) /\ p \in Range(list.order)
  BY DEF SelectionInvariant, Click, Listed
<1>2. /\ list' = new /\ project' = project
      /\ ~quiet => current' = SetCurrent(new.leader, stage.view)
      /\ quiet => current' = current /\ lost' = lost
  BY DEF Click, Emit, Untold
<1>3. WellMade(new) /\ new.order = list.order /\ (how # "ctrl" => new.leader = p)
  <2>1. CASE how = "plain"
    <3>1. new = SelectNoModifiers(list, p)
      BY <2>1
    <3> QED BY <1>1, <2>1, <3>1, SelectNoModifiersMade
  <2>2. CASE how = "shift"
    <3>1. new = SelectWithShift(list, p)
      BY <2>2
    <3> QED BY <1>1, <2>2, <3>1, SelectWithShiftMade
  <2>3. CASE how = "ctrl"
    <3>1. new = SelectWithControl(list, p)
      BY <2>3
    <3> QED BY <1>1, <2>3, <3>1, SelectWithControlMade
  <2> QED BY <2>1, <2>2, <2>3
<1> HIDE DEF new
<1>4. quiet => new.leader = list.leader
  BY <1>3
<1> HIDE DEF quiet
<1>5. ~quiet => current'[1] = new.leader[1]
  BY <1>2, SetCurrentImage
<1> QED
  BY <1>2, <1>3, <1>4, <1>5, SameItems

LEMMA GoToPageKeeps ==
  ASSUME SelectionInvariant, NEW p, NEW keep \in BOOLEAN, GoToPage(p, keep)
  PROVE  SelectionInvariant'
<1>1. /\ WellMade(list) /\ p \in Range(list.order) /\ project' = project
      /\ current'[1] = p[1] /\ list' = SetSelection(list, p, keep)
  BY SetCurrentImage DEF SelectionInvariant, GoToPage, Listed, Emit
<1>2. WellMade(list') /\ list'.leader = p /\ list'.order = list.order
  <2>1. CASE keep = TRUE
    <3>1. list' = SetSelection(list, p, TRUE)
      BY <1>1, <2>1
    <3>2. /\ WellMade(SetSelection(list, p, TRUE)) /\ SetSelection(list, p, TRUE).leader = p
          /\ SetSelection(list, p, TRUE).order = list.order
      BY <1>1, SelectionKeptMade
    <3> QED BY <3>1, <3>2
  <2>2. CASE keep = FALSE
    <3>1. list' = SetSelection(list, p, FALSE)
      BY <1>1, <2>2
    <3>2. /\ WellMade(SetSelection(list, p, FALSE)) /\ SetSelection(list, p, FALSE).leader = p
          /\ SetSelection(list, p, FALSE).order = list.order
      BY <1>1, SelectionSetMade
    <3> QED BY <3>1, <3>2
  <2> QED BY <2>1, <2>2
<1> QED
  BY <1>1, <1>2, SameItems

\* The images of some pages.
ImagesOf(pages) == {p[1] : p \in pages}

\* Another stage or order, which is also the step that SelectionKept speaks of.
LEMMA RearrangeKeeps ==
  ASSUME SelectionInvariant, NEW st, Rearrange(st)
  PROVE  /\ SelectionInvariant'
         /\ ImagesOf(list'.selected)
              = ImagesOf(list.selected) \cap ImagesOf(Range(list'.order))
         /\ list.leader[1] \in ImagesOf(Range(list'.order))
              => list'.leader[1] = list.leader[1]
         /\ list.leader \in Range(list'.order) => list'.leader = list.leader
<1> DEFINE pages == PageSequence(project, st)
           r == Reset(list, pages, TRUE, st)
           P == PagesIn(project, st.view)
           W == SelectedAgain(list, pages, TRUE)
<1>1. /\ ProjectSound(project) /\ WellMade(list) /\ HalvesAgree(project, Range(list.order))
      /\ SelectedItems(list) = list.selected
      /\ list.selected \subseteq Range(list.order) /\ Range(list.order) \subseteq Pages
      /\ list.leader # NoPage => list.leader \in list.selected
      /\ list.leader = NoPage => list.selected = {}
  BY InvariantFacts DEF SelectionInvariant
<1>2. /\ list' = r /\ project' = project
      /\ r.leader # NoPage =>
           /\ current' = SetCurrent(list.leader, st.view)
           /\ lost' = \A i \in DOMAIN project : project[i].id # list.leader[1]
  BY DEF Rearrange
<1>3. pages \in Seq(Pages) /\ IsInjective(pages) /\ Range(pages) = P
  BY <1>1, PageSequenceFacts
<1> HIDE DEF pages, P
<1>4. /\ WellMade(r) /\ Range(r.order) = P /\ r.selected = W
      /\ list.leader \in W => r.leader = list.leader
      /\ OfImage(W, list.leader) => r.leader[1] = list.leader[1]
  <2> DEFINE keep == TRUE
  <2> HIDE DEF keep
  <2>1. /\ WellMade(Reset(list, pages, keep, st))
        /\ Range(Reset(list, pages, keep, st).order) = Range(pages)
        /\ Reset(list, pages, keep, st).selected = SelectedAgain(list, pages, keep)
        /\ list.leader \in SelectedAgain(list, pages, keep)
             => Reset(list, pages, keep, st).leader = list.leader
        /\ OfImage(SelectedAgain(list, pages, keep), list.leader)
             => Reset(list, pages, keep, st).leader[1] = list.leader[1]
    BY <1>3, ResetMade
  <2> USE DEF keep
  <2> QED BY <1>3, <2>1
<1>5. W = WereSelected(P, list.selected)
  BY <1>1, <1>3 DEF SelectedAgain
<1> HIDE DEF r, W
<1>6. ASSUME NEW q \in list.selected, NEW p \in P, p[1] = q[1]
      PROVE  OfImage(W, q)
  <2>1. OfImage(WereSelected(PagesIn(project, st.view), list.selected), q)
    BY <1>1, <1>6, SelectedAgainFacts DEF P
  <2> QED BY <1>5, <2>1 DEF P
<1>7. /\ W \subseteq P
      /\ \A w \in W : \E q \in list.selected : q[1] = w[1]
      /\ \A w \in P : w \in list.selected => w \in W
  <2>1. W \subseteq P /\ \A w \in P : w \in list.selected => w \in W
    BY <1>5 DEF WereSelected
  <2>2. ASSUME NEW w \in W PROVE \E q \in list.selected : q[1] = w[1]
    <3>1. CASE w \in list.selected
      BY <3>1
    <3>2. ASSUME NEW h, <<w[1], h>> \in list.selected
          PROVE  \E q \in list.selected : q[1] = w[1]
      <4>1. <<w[1], h>>[1] = w[1]
        OBVIOUS
      <4> QED BY <3>2, <4>1
    <3>3. \/ w \in list.selected
          \/ \E h \in {"single", "left", "right"} : <<w[1], h>> \in list.selected
      BY <1>5 DEF WereSelected
    <3> QED BY <3>1, <3>2, <3>3
  <2> QED BY <2>1, <2>2
<1>8. ImagesOf(W) = ImagesOf(list.selected) \cap ImagesOf(P)
  <2>1. ASSUME NEW x \in ImagesOf(W) PROVE x \in ImagesOf(list.selected) \cap ImagesOf(P)
    BY <1>7 DEF ImagesOf
  <2>2. ASSUME NEW x \in ImagesOf(list.selected) \cap ImagesOf(P) PROVE x \in ImagesOf(W)
    <3>1. PICK q \in list.selected, p \in P : q[1] = x /\ p[1] = x
      BY DEF ImagesOf
    <3>2. OfImage(W, q)
      BY <1>6, <3>1
    <3> QED BY <3>1, <3>2 DEF OfImage, ImagesOf
  <2> QED BY <2>1, <2>2
<1>9. list.leader[1] \in ImagesOf(P) => r.leader[1] = list.leader[1]
  <2> SUFFICES ASSUME NEW p \in P, p[1] = list.leader[1]
               PROVE  r.leader[1] = list.leader[1]
    BY DEF ImagesOf
  <2>1. p[1] \in ImageIds
    BY <1>1, ListedImages DEF P
  <2>2. list.leader # NoPage
    BY <2>1, SequenceAssumption DEF NoPage, ImageIds
  <2>3. OfImage(W, list.leader)
    BY <1>1, <1>6, <2>2
  <2> QED BY <1>4, <2>3
<1>10. list.leader \in P => r.leader = list.leader
  <2> SUFFICES ASSUME list.leader \in P PROVE r.leader = list.leader
    OBVIOUS
  <2>1. list.leader # NoPage
    <3>1. P \subseteq Pages
      BY <1>3, RangeOfSeq
    <3> QED BY <3>1, NoPageIsNone
  <2> QED BY <1>1, <1>4, <1>7, <2>1
<1>11. r.leader # NoPage /\ ~lost' => current'[1] = r.leader[1]
  <2> SUFFICES ASSUME r.leader # NoPage, ~lost' PROVE current'[1] = r.leader[1]
    OBVIOUS
  <2>1. PICK i \in DOMAIN project : project[i].id = list.leader[1]
    BY <1>2
  <2>2. list.leader[1] \in ImagesOf(P)
    BY <1>1, <2>1, SomePageListed DEF ImagesOf, P
  <2> QED BY <1>2, <1>9, <2>2, SetCurrentImage
<1>12. HalvesAgree(project, P)
  BY <1>1, ListedAgree DEF P
<1>13. SelectionInvariant'
  BY <1>1, <1>2, <1>4, <1>11, <1>12 DEF SelectionInvariant, LeaderIsShown
<1> QED
  BY <1>2, <1>4, <1>8, <1>9, <1>10, <1>13

LEMMA StopBatchKeeps ==
  ASSUME SelectionInvariant, NEW p, StopBatchProcessing(p)
  PROVE  SelectionInvariant'
<1> DEFINE pages == PageSequence(project, stage)
           l == Reset(list, pages, FALSE, stage)
           P == PagesIn(project, stage.view)
           W == SelectedAgain(list, pages, FALSE)
<1>1. ProjectSound(project)
  BY DEF SelectionInvariant
<1>2. pages \in Seq(Pages) /\ IsInjective(pages) /\ Range(pages) = P
  BY <1>1, PageSequenceFacts
<1> HIDE DEF pages, P
<1>3. WellMade(l) /\ Range(l.order) = P /\ l.selected = W
  <2> DEFINE keep == FALSE
  <2> HIDE DEF keep
  <2>1. /\ WellMade(Reset(list, pages, keep, stage))
        /\ Range(Reset(list, pages, keep, stage).order) = Range(pages)
        /\ Reset(list, pages, keep, stage).selected = SelectedAgain(list, pages, keep)
        /\ list.leader \in SelectedAgain(list, pages, keep)
             => Reset(list, pages, keep, stage).leader = list.leader
        /\ OfImage(SelectedAgain(list, pages, keep), list.leader)
             => Reset(list, pages, keep, stage).leader[1] = list.leader[1]
    BY <1>2, ResetMade
  <2> USE DEF keep
  <2> QED BY <1>2, <2>1
<1>4. W = {}
  BY DEF SelectedAgain, WereSelected
<1>5. PICK before :
        LET at == Restored(l, GetCurrent(before, stage.view))
        IN /\ list' = IF at = NoPage THEN l ELSE SetSelection(l, at, FALSE)
           /\ current' = IF at # NoPage /\ (stage.view = "page" \/ at[1] # before[1])
                         THEN at ELSE before
  BY DEF StopBatchProcessing, l, pages
<1>6. project' = project
  BY DEF StopBatchProcessing
<1> HIDE DEF l, W
<1> DEFINE shown == GetCurrent(before, stage.view)
           at == Restored(l, shown)
<1>7. at = NoPage \/ at \in Range(l.order)
  <2> HIDE DEF shown
  <2> QED BY <1>3, RestoredFacts
<1>8. /\ list' = IF at = NoPage THEN l ELSE SetSelection(l, at, FALSE)
      /\ current' = IF at # NoPage /\ (stage.view = "page" \/ at[1] # before[1])
                    THEN at ELSE before
  BY <1>5
<1> HIDE DEF at
<1>9. HalvesAgree(project, P)
  BY <1>1, ListedAgree DEF P
<1>10. CASE at = NoPage
  <2>1. list' = l
    BY <1>8, <1>10
  <2>2. l.leader = NoPage
    BY <1>3, <1>4 DEF WellMade, Led
  <2> QED BY <1>1, <1>3, <1>6, <1>9, <2>1, <2>2 DEF SelectionInvariant, LeaderIsShown
<1>11. CASE at # NoPage
  <2>1. at \in Range(l.order)
    BY <1>7, <1>11
  <2>2. /\ WellMade(SetSelection(l, at, FALSE)) /\ SetSelection(l, at, FALSE).leader = at
        /\ SetSelection(l, at, FALSE).order = l.order
    BY <1>3, <2>1, SelectionSetMade
  <2>3. list' = SetSelection(l, at, FALSE) /\ current'[1] = at[1]
    BY <1>8, <1>11
  <2> QED BY <1>1, <1>3, <1>6, <1>9, <2>2, <2>3 DEF SelectionInvariant, LeaderIsShown
<1> QED
  BY <1>10, <1>11

LEMMA InvalidateThumbnailKeeps ==
  ASSUME SelectionInvariant, NEW p, InvalidateThumbnail(p)
  PROVE  SelectionInvariant'
<1>1. /\ WellMade(list) /\ p \in Range(list.order) /\ project' = project
      /\ list' = Invalidated(list, p)
      /\ \/ list.leader = p /\ current' = SetCurrent(p, stage.view)
         \/ current' = current /\ lost' = lost
  BY DEF SelectionInvariant, InvalidateThumbnail, Listed, Emit, Untold
<1>2. /\ WellMade(list') /\ list'.leader = list.leader
      /\ Range(list'.order) = Range(list.order)
  BY <1>1, InvalidatedMade
<1> QED
  BY <1>1, <1>2, SetCurrentImage, SameItems

LEMMA InvalidateAllThumbnailsKeeps ==
  ASSUME SelectionInvariant, InvalidateAllThumbnails
  PROVE  SelectionInvariant'
<1>1. /\ WellMade(list) /\ project' = project /\ list' = AllInvalidated(list, stage)
      /\ current' = current /\ lost' = lost
  BY DEF SelectionInvariant, InvalidateAllThumbnails
<1>2. /\ WellMade(list') /\ list'.leader = list.leader
      /\ Range(list'.order) = Range(list.order)
  BY <1>1, AllInvalidatedMade
<1> QED
  BY <1>1, <1>2, SameItems

LEMMA SplitImageKeeps ==
  ASSUME SelectionInvariant, NEW i \in DOMAIN project, SplitImage(i)
  PROVE  SelectionInvariant'
<1> DEFINE both == {"left", "right"}
           h == both \ project[i].halves
           image == [project[i] EXCEPT !.halves = h]
           n == Len(project)
<1>1. /\ project \in Seq(ImageRecords) /\ n \in Nat /\ DOMAIN project = 1..n
      /\ \A j \in 1..n : project[j] \in ImageRecords
  BY LenProperties, ElementOfSeq DEF SelectionInvariant, ProjectSound
<1>2. /\ project' = [project EXCEPT ![i] = image] /\ list' = list
      /\ current' = current /\ lost' = lost /\ h \in {{}, both}
  BY DEF SplitImage
<1>3. image \in ImageRecords /\ image.id = project[i].id /\ image.halves = h
  BY <1>1, <1>2 DEF ImageRecords
<1> HIDE DEF image, n, h
<1>4. /\ DOMAIN project' = 1..n
      /\ \A j \in 1..n : project'[j] = IF j = i THEN image ELSE project[j]
      /\ project' \in [1..n -> ImageRecords]
  BY <1>1, <1>2, <1>3
<1>5. project' \in Seq(ImageRecords)
  BY <1>1, <1>4, IsASeq
<1>6. ProjectSound(project')
  <2>1. \A j \in 1..n : project'[j].id = project[j].id
    BY <1>3, <1>4
  <2>2. \A j, k \in 1..n : project[j].id = project[k].id => j = k
    BY <1>1 DEF SelectionInvariant, ProjectSound
  <2> QED BY <1>4, <1>5, <2>1, <2>2 DEF ProjectSound
<1>7. HalvesAgree(project', Range(list.order))
  <2> SUFFICES ASSUME NEW j \in 1..n
               PROVE  HalfAgrees(project'[j], Range(list.order))
    BY <1>4 DEF HalvesAgree, Range
  <2>1. CASE j = i
    <3>1. project'[j] = image
      BY <1>4, <2>1
    <3>2. \A x \in {"left", "right"} : image.halves # {x}
      BY <1>2, <1>3
    <3> QED BY <3>1, <3>2 DEF HalfAgrees
  <2>2. CASE j # i
    <3>1. project'[j] = project[j] /\ project[j] \in Range(project)
      BY <1>1, <1>4, <2>2 DEF Range
    <3> QED BY <3>1 DEF SelectionInvariant, HalvesAgree
  <2> QED BY <2>1, <2>2
<1> QED
  BY <1>2, <1>6, <1>7 DEF SelectionInvariant, LeaderIsShown

LEMMA InsertImageKeeps ==
  ASSUME SelectionInvariant, NEW side \in {"before", "after"}, NEW image,
         NEW halves \in {{}, {"left", "right"}}, InsertImage(side, image, halves)
  PROVE  SelectionInvariant'
<1> DEFINE new == [id |-> NewImage, halves |-> halves]
           at == {i \in DOMAIN project : project[i].id = image}
           place == IF at = {} THEN Len(project) + 1
                    ELSE Min(at) + (IF side = "after" THEN 1 ELSE 0)
           pages == PagesOf(new, stage.view)
           placed == IF side = "before" THEN Reverse(pages) ELSE pages
           L == Range(list.order)
<1>1. /\ ProjectSound(project) /\ WellMade(list) /\ HalvesAgree(project, L)
      /\ project \in Seq(ImageRecords)
      /\ Len(project) \in Nat /\ DOMAIN project = 1..Len(project)
  BY LenProperties DEF SelectionInvariant, ProjectSound
<1>2. /\ \A i \in DOMAIN project : project[i].id # NewImage
      /\ \A p \in L : p[1] # NewImage
      /\ project' = InsertAt(project, place, new)
      /\ list' = InsertAll(list, placed, side, image)
      /\ current' = current /\ lost' = lost
  BY DEF InsertImage, Listed
<1>3. new \in ImageRecords /\ new.id = NewImage /\ new.halves = halves
  <2>1. NewImage \in ImageIds /\ halves \in SUBSET {"left", "right"}
    BY DEF ImageIds
  <2> QED BY <2>1 DEF ImageRecords
<1>4. place \in 1..(Len(project) + 1)
  <2>1. at \in SUBSET Nat /\ at \subseteq 1..Len(project)
    BY <1>1
  <2>2. at # {} => Min(at) \in 1..Len(project)
    <3> HIDE DEF at
    <3> QED BY <2>1, LeastOf
  <2> HIDE DEF at
  <2> QED BY <1>1, <2>2
<1> HIDE DEF new, place
<1>5. ProjectSound(project') /\ Range(project') = Range(project) \cup {new}
  <2>1. /\ IsInjective(project)
        /\ \A a, b \in Range(project) : a.id = b.id => a = b
    BY <1>1, SoundRecords
  <2>2. new \notin Range(project) /\ \A a \in Range(project) : a.id # new.id
    BY <1>2, <1>3 DEF Range
  <2>3. /\ InsertAt(project, place, new) \in Seq(ImageRecords)
        /\ Range(InsertAt(project, place, new)) = Range(project) \cup {new}
        /\ IsInjective(project) /\ new \notin Range(project)
             => IsInjective(InsertAt(project, place, new))
    BY <1>1, <1>3, <1>4, InsertFacts
  <2>4. /\ project' \in Seq(ImageRecords) /\ IsInjective(project')
        /\ Range(project') = Range(project) \cup {new}
    BY <1>2, <2>1, <2>2, <2>3
  <2>5. \A a, b \in Range(project') : a.id = b.id => a = b
    BY <2>1, <2>2, <2>4
  <2> QED BY <2>4, <2>5, SoundRecords
<1>6. /\ pages \in Seq(Pages) /\ IsInjective(pages)
      /\ Range(pages) = ListedOf(new, stage.view)
  BY <1>3, PagesOfFacts
<1>7. /\ ListedOf(new, stage.view) # {}
      /\ \A p \in ListedOf(new, stage.view) : p[1] = NewImage
  <2>1. SubPagesOf(new, stage.view) # {}
    BY DEF SubPagesOf
  <2>2. PICK h : h \in SubPagesOf(new, stage.view)
    BY <2>1
  <2>3. <<new.id, h>> \in ListedOf(new, stage.view)
    BY <2>2 DEF ListedOf
  <2>4. ASSUME NEW p \in ListedOf(new, stage.view) PROVE p[1] = NewImage
    BY <1>3, <2>4 DEF ListedOf
  <2> QED BY <2>3, <2>4
<1> HIDE DEF pages
<1>8. placed \in Seq(Pages) /\ IsInjective(placed) /\ Range(placed) = Range(pages)
  BY <1>6, ReverseFacts
<1> HIDE DEF placed
<1>9. Range(placed) # {} /\ Range(placed) \cap Range(list.order) = {}
  BY <1>2, <1>6, <1>7, <1>8
<1>10. /\ WellMade(list') /\ list'.leader = list.leader
       /\ Range(list'.order) \subseteq L \cup Range(placed)
  <2>1. /\ WellMade(InsertAll(list, placed, side, image))
        /\ InsertAll(list, placed, side, image).leader = list.leader
        /\ Range(InsertAll(list, placed, side, image).order)
             \subseteq Range(list.order) \cup Range(placed)
    BY <1>1, <1>8, <1>9, InsertAllMade
  <2> QED BY <1>2, <2>1
<1>11. HalvesAgree(project', Range(list'.order))
  <2> SUFFICES ASSUME NEW a \in Range(project'), NEW h \in {"left", "right"},
                      a.halves = {h}, NEW p \in Range(list'.order), p[1] = a.id
               PROVE  p[2] \in {"single", h}
    BY DEF HalvesAgree, HalfAgrees
  <2>1. a # new
    BY <1>3
  <2>2. a \in Range(project) /\ a.id # NewImage
    BY <1>2, <1>5, <2>1 DEF Range
  <2>3. p \in L
    BY <1>6, <1>7, <1>8, <1>10, <2>2
  <2> QED BY <1>1, <2>2, <2>3 DEF HalvesAgree, HalfAgrees
<1> QED
  BY <1>2, <1>5, <1>10, <1>11 DEF SelectionInvariant, LeaderIsShown

LEMMA RemoveFromProjectKeeps ==
  ASSUME SelectionInvariant, RemoveFromProject
  PROVE  SelectionInvariant'
<1> DEFINE pages == SelectedItems(list)
           next == SelectedInstead(pages)
           L == Range(list.order)
<1>1. /\ ProjectSound(project) /\ WellMade(list) /\ HalvesAgree(project, L)
      /\ pages = list.selected /\ pages \subseteq L
      /\ list.leader # NoPage => list.leader \in list.selected
  BY InvariantFacts DEF SelectionInvariant
<1>2. /\ pages # {} /\ project' = RemovedFrom(project, pages)
      /\ \/ /\ next # NoPage /\ current' = SetCurrent(next, stage.view)
            /\ list' = WithoutItems(SetSelection(list, next, FALSE), pages)
         \/ list' = WithoutItems(list, pages)
  BY DEF RemoveFromProject, Emit
<1> HIDE DEF pages
<1>3. next = NoPage \/ next \in L \ pages
  BY <1>1, <1>2, SelectedInsteadFacts
<1> HIDE DEF next
<1>4. /\ WellMade(list') /\ Range(list'.order) = L \ pages
      /\ list'.leader # NoPage => current'[1] = list'.leader[1]
  <2>1. CASE /\ next # NoPage /\ current' = SetCurrent(next, stage.view)
             /\ list' = WithoutItems(SetSelection(list, next, FALSE), pages)
    <3> DEFINE m == SetSelection(list, next, FALSE)
    <3>1. next \in Range(list.order) /\ next \notin pages
      BY <1>3, <2>1
    <3>2. WellMade(m) /\ m.leader = next /\ m.order = list.order
      BY <1>1, <3>1, SelectionSetMade
    <3>3. list' = WithoutItems(m, pages)
      BY <2>1
    <3> HIDE DEF m
    <3>4. /\ WellMade(WithoutItems(m, pages))
          /\ Range(WithoutItems(m, pages).order) = Range(m.order) \ pages
          /\ WithoutItems(m, pages).leader = IF m.leader \in pages THEN NoPage ELSE m.leader
      BY <3>1, <3>2, WithoutItemsMade
    <3> QED BY <2>1, <3>1, <3>2, <3>3, <3>4, SetCurrentImage
  <2>2. CASE list' = WithoutItems(list, pages)
    <3>1. /\ WellMade(WithoutItems(list, pages))
          /\ Range(WithoutItems(list, pages).order) = L \ pages
          /\ WithoutItems(list, pages).leader
               = IF list.leader \in pages THEN NoPage ELSE list.leader
      BY <1>1, WithoutItemsMade
    <3> QED BY <1>1, <2>2, <3>1
  <2> QED BY <1>2, <2>1, <2>2
<1>5. /\ ProjectSound(project')
      /\ \A i \in DOMAIN project' : LessenedIn(project', i, project, pages)
  BY <1>1, <1>2, RemovedFacts
<1>6. HalvesAgree(project', L \ pages)
  <2> SUFFICES ASSUME NEW i \in DOMAIN project', NEW h \in {"left", "right"},
                      project'[i].halves = {h}, NEW p \in L \ pages, p[1] = project'[i].id
               PROVE  p[2] \in {"single", h}
    BY DEF HalvesAgree, HalfAgrees, Range
  <2>1. PICK a \in Range(project) :
          Stays(a, pages) /\ project'[i] = Lessened(a, pages)
    BY <1>5 DEF LessenedIn
  <2> DEFINE gone == RemovedHalves(a, pages)
  <2>2. a \in ImageRecords
    BY <1>1, RangeOfSeq DEF ProjectSound
  <2>3. project'[i].id = a.id /\ project'[i].halves = a.halves \ gone
    BY <2>1, <2>2 DEF Lessened, ImageRecords
  <2>4. gone = {} \/ a.halves = {"left", "right"}
    BY <2>1 DEF Stays
  <2>5. \A x \in gone : <<a.id, x>> \in pages
    BY DEF RemovedHalves
  <2> HIDE DEF gone
  <2>6. CASE gone = {}
    <3>1. a.halves = {h} /\ p \in L /\ p[1] = a.id
      BY <2>3, <2>6
    <3> QED BY <1>1, <3>1 DEF HalvesAgree, HalfAgrees
  <2>7. CASE gone # {}
    <3>1. \A x \in {"left", "right"} : x # h => x \in gone
      BY <2>3, <2>4, <2>7
    <3>2. p \in Pages
      BY <1>1, ListFacts DEF WellMade
    <3>3. p = <<a.id, p[2]>> /\ p[2] \in {"single", "left", "right"}
      <4>1. PICK x \in ImageIds, y \in {"single", "left", "right"} : p = <<x, y>>
        BY <3>2 DEF Pages
      <4>2. p[1] = x /\ p[2] = y
        BY <4>1
      <4> QED BY <2>3, <4>1, <4>2
    <3> QED BY <2>5, <3>1, <3>3
  <2> QED BY <2>6, <2>7
<1> QED
  BY <1>4, <1>5, <1>6 DEF SelectionInvariant, LeaderIsShown

\* A project is opened with its first image selected.
LEMMA OpenedMade ==
  ASSUME NEW images, ProjectSound(images), NEW st
  PROVE  /\ WellMade(Opened(images, st))
         /\ Range(Opened(images, st).order) = PagesIn(images, st.view)
<1> DEFINE pages == PageSequence(images, st)
           P == PagesIn(images, st.view)
           inc == Range(pages) \ facts.complete
           shown == [EmptyList EXCEPT !.order = pages, !.pool = pages, !.incomplete = inc]
<1>1. pages \in Seq(Pages) /\ IsInjective(pages) /\ Range(pages) = P
  BY PageSequenceFacts
<1>2. Opened(images, st) = IF pages = <<>> THEN EmptyList ELSE NewLeader(shown, Head(pages))
  BY DEF Opened
<1>3. /\ EmptyList \in ListType /\ EmptyList.selected = {} /\ EmptyList.flagged = {}
  BY EmptyListMade DEF WellMade, Shaped, EmptyList
<1>4. inc \in SUBSET Pages
  BY <1>1, RangeOfSeq
<1> DEFINE x == EmptyList
           m == [x EXCEPT !.order = pages, !.pool = pages, !.incomplete = inc]
<1>5. shown = m
  OBVIOUS
<1> HIDE DEF pages, inc, P, shown, x
<1>6. /\ m \in ListType /\ m.order = pages /\ m.pool = pages /\ m.selected = {}
      /\ m.flagged = {}
  BY <1>1, <1>3, <1>4 DEF ListType, x
<1> HIDE DEF m
<1>7. Shaped(m) /\ InFront(m)
  BY <1>1, <1>6 DEF Shaped, InFront, Ahead
<1>8. CASE pages = <<>>
  <2> DEFINE e == <<>>
  <2>1. Range(e) = {}
    BY DEF Range
  <2> HIDE DEF e
  <2>2. P = {}
    BY <1>1, <1>8, <2>1 DEF e
  <2> QED BY <1>2, <1>8, <2>2, EmptyListMade DEF P
<1>9. CASE pages # <<>>
  <2> DEFINE p == Head(pages)
  <2>1. p \in Range(m.order)
    BY <1>1, <1>6, <1>9, EndFacts
  <2> HIDE DEF p
  <2>2. WellMade(NewLeader(m, p)) /\ NewLeader(m, p).order = m.order
    BY <1>6, <1>7, <2>1, NewLeaderMade
  <2> QED BY <1>1, <1>2, <1>5, <1>6, <1>9, <2>2 DEF P, p
<1> QED
  BY <1>8, <1>9

LEMMA InitMakes == Init => SelectionInvariant
<1> SUFFICES ASSUME Init PROVE SelectionInvariant
  OBVIOUS
<1> DEFINE n == Len(Images)
<1>1. n \in Nat /\ DOMAIN Images = 1..n /\ IsInjective(Images)
  BY SequenceAssumption, LenProperties
<1>2. PICK halves \in [DOMAIN Images -> {{}, {"left", "right"}, {"right"}}] :
        project = [i \in DOMAIN Images |-> [id |-> Images[i], halves |-> halves[i]]]
  BY DEF Init
<1>3. \A i \in 1..n : Images[i] \in ImageIds /\ halves[i] \in SUBSET {"left", "right"}
  BY <1>1, <1>2 DEF ImageIds, Range
<1> HIDE DEF n
<1>4. /\ DOMAIN project = 1..n
      /\ \A i \in 1..n : project[i].id = Images[i] /\ project[i] \in ImageRecords
  BY <1>1, <1>2, <1>3 DEF ImageRecords
<1>5. project \in Seq(ImageRecords)
  <2>1. project \in [1..n -> ImageRecords]
    BY <1>1, <1>2, <1>4
  <2> QED BY <1>1, <2>1, IsASeq
<1>6. ProjectSound(project)
  BY <1>1, <1>4, <1>5 DEF ProjectSound, IsInjective
<1>7. list = Opened(project, stage) /\ current = list.leader
  BY DEF Init
<1>8. WellMade(list) /\ Range(list.order) = PagesIn(project, stage.view)
  BY <1>6, <1>7, OpenedMade
<1>9. HalvesAgree(project, Range(list.order))
  BY <1>6, <1>8, ListedAgree
<1> QED
  BY <1>6, <1>7, <1>8, <1>9 DEF SelectionInvariant, LeaderIsShown

\* No step breaks the invariant, and only another stage or order changes stage.
LEMMA NextKeeps ==
  ASSUME SelectionInvariant, [Next]_vars
  PROVE  SelectionInvariant' /\ (stage' = stage \/ \E st : Rearrange(st))
<1>1. CASE UNCHANGED vars
  BY <1>1 DEF vars, SelectionInvariant, LeaderIsShown
<1>2. ASSUME NEW p, NEW how \in {"plain", "shift", "ctrl"}, Click(p, how)
      PROVE  SelectionInvariant' /\ stage' = stage
  BY <1>2, ClickKeeps DEF Click
<1>3. ASSUME NEW p, NEW keep \in BOOLEAN, GoToPage(p, keep)
      PROVE  SelectionInvariant' /\ stage' = stage
  BY <1>3, GoToPageKeeps DEF GoToPage
<1>4. ASSUME NEW p, StopBatchProcessing(p) PROVE SelectionInvariant' /\ stage' = stage
  BY <1>4, StopBatchKeeps DEF StopBatchProcessing
<1>5. ASSUME NEW p, ChangePage(p) PROVE SelectionInvariant' /\ stage' = stage
  BY <1>5 DEF ChangePage, SelectionInvariant, LeaderIsShown
<1>6. ASSUME NEW p, InvalidateThumbnail(p) PROVE SelectionInvariant' /\ stage' = stage
  BY <1>6, InvalidateThumbnailKeeps DEF InvalidateThumbnail
<1>7. ASSUME NEW st, Rearrange(st) PROVE SelectionInvariant'
  BY <1>7, RearrangeKeeps
<1>8. CASE InvalidateAllThumbnails
  BY <1>8, InvalidateAllThumbnailsKeeps DEF InvalidateAllThumbnails
<1>9. CASE RemoveFromProject
  BY <1>9, RemoveFromProjectKeeps DEF RemoveFromProject
<1>10. ASSUME NEW i \in DOMAIN project, SplitImage(i)
       PROVE  SelectionInvariant' /\ stage' = stage
  BY <1>10, SplitImageKeeps DEF SplitImage
<1>11. ASSUME NEW side \in {"before", "after"}, NEW image,
              NEW halves \in {{}, {"left", "right"}}, InsertImage(side, image, halves)
       PROVE  SelectionInvariant' /\ stage' = stage
  BY <1>11, InsertImageKeeps DEF InsertImage
<1>12. CASE SwitchStage
  BY <1>7, <1>12 DEF SwitchStage
<1>13. CASE PageOrderingChanged
  BY <1>7, <1>13 DEF PageOrderingChanged
<1> QED
  BY <1>1, <1>2, <1>3, <1>4, <1>5, <1>6, <1>8, <1>9, <1>10, <1>11, <1>12, <1>13 DEF Next

\* The list stays well made, whatever a user does to it and to the project.
THEOREM ListAlwaysWellMade == Spec => []SelectionInvariant
<1>1. SelectionInvariant /\ [Next]_vars => SelectionInvariant'
  BY NextKeeps
<1> QED
  BY <1>1, InitMakes, PTL DEF Spec

\* Whatever a user does to the selection, the list and the project, loops over
\* the selected items see all of them, the leader is one of these and the only
\* one flagged, and it is of the image that the window shows.
THEOREM SelectionAlwaysSound == Spec => []SelectionSound
BY ListAlwaysWellMade, InvariantImplies, PTL

\* Another stage or order keeps what is selected: the images, and the leader.
THEOREM SelectionAlwaysKept == Spec => SelectionKept
<1> DEFINE Carried ==
             /\ ImagesOf(list'.selected)
                  = ImagesOf(list.selected) \cap ImagesOf(Range(list'.order))
             /\ list.leader[1] \in ImagesOf(Range(list'.order))
                  => list'.leader[1] = list.leader[1]
             /\ list.leader \in Range(list'.order) => list'.leader = list.leader
           Step == stage' # stage =>
             LET images(ps) == {p[1] : p \in ps}
                 listed     == images(Range(list'.order))
             IN /\ images(list'.selected) = images(list.selected) \cap listed
                /\ list.leader[1] \in listed => list'.leader[1] = list.leader[1]
                /\ list.leader \in Range(list'.order) => list'.leader = list.leader
<1>1. SelectionInvariant /\ [Next]_vars => (stage' # stage => Carried)
  BY NextKeeps, RearrangeKeeps
<1>2. SelectionInvariant /\ [Next]_vars => [Step]_vars
  BY <1>1 DEF ImagesOf
<1> HIDE DEF Step, Carried
<1>3. Spec => [][Step]_vars
  BY <1>2, ListAlwaysWellMade, PTL DEF Spec
<1> QED
  BY <1>3, PTL DEF SelectionKept, Step
-----------------------------------------------------------------------------
(* The order of the list.                                                  *)

Orders == {"natural", "width", "split", "deviation", "completeness"}
\* Whole images are ordered by split type, and listed by themselves.
StageSound(st) ==
  /\ st \in [view : {"image", "page"}, order : Orders, reversed : BOOLEAN]
  /\ st.order = "split" => st.view = "image"
Listable(st) == {p \in Pages : st.view = "image" => p[2] = "single"}
KeysOfPages == [Pages -> Nat \cup {Unknown}]
FactsTyped == facts \in [key : KeysOfPages, complete : SUBSET Pages]

\* Deviations are integers: the mean is over finitely many pages.
LEMMA PagesFinite == IsFiniteSet(Pages)
<1> DEFINE n == Len(Images)
           kinds == {"single", "left", "right"}
<1>1. /\ n \in Nat /\ DOMAIN Images = 1..n /\ Images \in [1..n -> Range(Images)]
      /\ \A image \in Range(Images) : \E i \in 1..n : Images[i] = image
  BY SequenceAssumption, LenProperties DEF Range
<1> HIDE DEF n
<1>2. IsFiniteSet(Range(Images))
  <2>1. Images \in Surjection(1..n, Range(Images))
    BY <1>1 DEF Surjection
  <2>2. n \in Int /\ 1 \in Int
    BY <1>1
  <2>3. IsFiniteSet(1..n)
    BY <2>2, FS_Interval
  <2> QED BY <2>1, <2>3, FS_Surjection
<1>3. IsFiniteSet(ImageIds)
  BY <1>2, FS_AddElement DEF ImageIds
<1>4. IsFiniteSet(kinds)
  <2>1. IsFiniteSet({"single"} \cup {"left"})
    BY FS_Singleton, FS_AddElement
  <2>2. IsFiniteSet(({"single"} \cup {"left"}) \cup {"right"})
    BY <2>1, FS_AddElement
  <2>3. kinds = ({"single"} \cup {"left"}) \cup {"right"}
    OBVIOUS
  <2> QED BY <2>2, <2>3
<1> HIDE DEF kinds
<1>5. IsFiniteSet(ImageIds \X kinds)
  BY <1>3, <1>4, FS_Product
<1> QED
  BY <1>5 DEF Pages, kinds

LEMMA TotalNatural ==
  ASSUME NEW key \in KeysOfPages
  PROVE  Total(key) \in Nat /\ Cardinality(Known(key)) \in Nat
<1> DEFINE units == [p \in Known(key) |-> {p} \X (1..key[p])]
           S == {{p} \X (1..key[p]) : p \in Known(key)}
<1>1. IsFiniteSet(Known(key)) /\ \A p \in Known(key) : key[p] \in Nat
  <2>1. Known(key) \in SUBSET Pages
    BY DEF Known
  <2> QED BY <2>1, PagesFinite, FS_Subset DEF Known, KeysOfPages
<1>2. units \in Surjection(Known(key), S)
  BY DEF Surjection
<1>3. IsFiniteSet(S)
  <2> HIDE DEF units, S
  <2> QED BY <1>1, <1>2, FS_Surjection
<1>4. \A T \in S : IsFiniteSet(T)
  <2> SUFFICES ASSUME NEW p \in Known(key) PROVE IsFiniteSet({p} \X (1..key[p]))
    OBVIOUS
  <2>1. IsFiniteSet(1..key[p])
    BY <1>1, FS_Interval
  <2>2. IsFiniteSet({p})
    BY FS_Singleton
  <2> QED BY <2>1, <2>2, FS_Product
<1>5. IsFiniteSet(UNION S)
  <2> HIDE DEF S
  <2> QED BY <1>3, <1>4, FS_UNION
<1>6. Cardinality(UNION S) \in Nat
  BY <1>5, FS_CardinalityType
<1>7. Cardinality(Known(key)) \in Nat
  BY <1>1, FS_CardinalityType
<1> QED
  BY <1>6, <1>7 DEF Total

LEMMA DeviationInteger ==
  ASSUME NEW key \in KeysOfPages, NEW p \in Pages
  PROVE  key[p] \in Int /\ Deviation(key, p) \in Int
<1>1. key[p] \in Nat \cup {-1}
  BY DEF KeysOfPages, Unknown
<1>2. CASE p \in Known(key)
  <2>1. Total(key) \in Nat /\ Cardinality(Known(key)) \in Nat
    BY TotalNatural
  <2>2. PICK c, t \in Nat : c = Cardinality(Known(key)) /\ t = Total(key)
    BY <2>1
  <2>3. c * key[p] \in Int
    BY <1>1, <2>2
  <2>4. Distance(c * key[p], t) \in Int
    BY <2>2, <2>3 DEF Distance
  <2> QED BY <1>1, <1>2, <2>2, <2>4 DEF Deviation
<1>3. CASE p \notin Known(key)
  BY <1>1, <1>3 DEF Deviation
<1> QED
  BY <1>2, <1>3

LEMMA PlaceOfImage ==
  ASSUME NEW image, image \in ImageIds
  PROVE  Place(image) \in Int
<1> DEFINE all == Append(Images, NewImage)
           n == Len(Images)
<1>1. /\ Images \in Seq(STRING) /\ NewImage \in STRING /\ n \in Nat
      /\ DOMAIN Images = 1..n
  BY SequenceAssumption, LenProperties
<1>2. /\ DOMAIN all = 1..(n + 1) /\ all[n + 1] = NewImage
      /\ \A i \in 1..n : all[i] = Images[i]
  <2> DEFINE S == STRING
  <2>1. Images \in Seq(S) /\ NewImage \in S
    BY <1>1
  <2> HIDE DEF S
  <2>2. /\ Append(Images, NewImage) \in Seq(S)
        /\ Len(Append(Images, NewImage)) = Len(Images) + 1
        /\ Append(Images, NewImage)[Len(Images) + 1] = NewImage
        /\ \A i \in 1..Len(Images) : Append(Images, NewImage)[i] = Images[i]
    BY <2>1, AppendProperties
  <2> HIDE DEF n
  <2>3. /\ all \in Seq(S) /\ Len(all) = n + 1 /\ all[n + 1] = NewImage
        /\ \A i \in 1..n : all[i] = Images[i]
    BY <2>2 DEF n
  <2> HIDE DEF all
  <2> QED BY <2>3, LenProperties
<1> HIDE DEF all, n
<1>3. \E i \in DOMAIN all : all[i] = image
  <2>1. CASE image = NewImage
    <3>1. n + 1 \in DOMAIN all
      BY <1>1, <1>2
    <3> QED BY <1>2, <2>1, <3>1
  <2>2. CASE image \in Range(Images)
    <3>1. PICK i \in 1..n : Images[i] = image
      BY <1>1, <2>2 DEF Range
    <3> QED BY <1>1, <1>2, <3>1
  <2> QED BY <2>1, <2>2 DEF ImageIds
<1>4. Place(image) = CHOOSE i \in DOMAIN all : all[i] = image
  BY DEF Place, all
<1>5. Place(image) \in DOMAIN all
  BY <1>3, <1>4
<1> QED
  BY <1>1, <1>2, <1>5

\* p may stand before q: nothing puts q in front.
May(st, inc, p, q) == ~Before(st, inc, q, p)

LEMMA SplitOrder ==
  ASSUME NEW p \in Pages, NEW q \in Pages, p[2] = "single", q[2] = "single"
  PROVE  /\ Older(p, q) <=> Place(p[1]) < Place(q[1])
         /\ Place(p[1]) \in Int /\ Place(q[1]) \in Int
<1>1. p[1] \in ImageIds /\ q[1] \in ImageIds
  BY DEF Pages
<1>2. Place(p[1]) \in Int /\ Place(q[1]) \in Int
  BY <1>1, PlaceOfImage
<1> QED
  BY <1>2 DEF Older

\* Of any two pages one may stand before the other, as the order says.
LEMMA MayStand ==
  ASSUME NEW st, StageSound(st), ~Natural(st), FactsTyped, NEW inc,
         NEW p \in Listable(st), NEW q \in Listable(st)
  PROVE  /\ Precedes(st, p, p \in inc, q, q \in inc) => May(st, inc, p, q)
         /\ ~Precedes(st, p, p \in inc, q, q \in inc) => May(st, inc, q, p)
<1> DEFINE P(x, y) == ByOrder(st.order, x, x \in inc, y, y \in inc)
<1>1. /\ P(p, q) => ~(P(q, p) /\ ~P(p, q))
      /\ ~P(p, q) => ~(P(p, q) /\ ~P(q, p))
  OBVIOUS
<1> HIDE DEF P
<1>2. Precedes(st, p, p \in inc, q, q \in inc) <=> IF st.reversed THEN P(q, p) ELSE P(p, q)
  BY DEF Precedes, P
<1>3. Precedes(st, q, q \in inc, p, p \in inc) <=> IF st.reversed THEN P(p, q) ELSE P(q, p)
  BY DEF Precedes, P
<1> QED
  BY <1>2, <1>3 DEF May, Before

\* No three pages go round in a circle.
LEMMA MayFollow ==
  ASSUME NEW st, StageSound(st), FactsTyped, NEW inc,
         NEW p \in Listable(st), NEW q \in Listable(st), NEW r \in Listable(st),
         May(st, inc, p, q), May(st, inc, q, r)
  PROVE  May(st, inc, p, r)
<1> DEFINE key == facts.key
           dev(x) == Deviation(key, x)
<1>1. /\ p \in Pages /\ q \in Pages /\ r \in Pages
      /\ \A x \in Pages : key[x] \in Int /\ dev(x) \in Int
  BY DeviationInteger DEF Listable, FactsTyped
<1> DEFINE P(x, y) == ByOrder(st.order, x, x \in inc, y, y \in inc)
           B(x, y) == P(x, y) /\ ~P(y, x)
<1>2. \A x, y \in Pages : Before(st, inc, x, y) <=>
        ~Natural(st) /\ IF st.reversed THEN B(y, x) ELSE B(x, y)
  BY DEF Before, Precedes
<1>3. SUFFICES ASSUME ~Natural(st)
               PROVE  /\ ~B(q, p) /\ ~B(r, q) => ~B(r, p)
                      /\ ~B(p, q) /\ ~B(q, r) => ~B(p, r)
  <2> HIDE DEF B
  <2> QED BY <1>1, <1>2 DEF May
<1>4. st.order \in {"width", "split", "deviation", "completeness"}
  BY <1>3 DEF StageSound, Natural, Orders
<1>5. CASE st.order = "width"
  <2> DEFINE back == {x \in Pages : x \in inc \/ key[x] = Unknown}
  <2>1. \A x, y \in Pages : P(x, y) <=>
          IF (x \in back) # (y \in back) THEN y \in back ELSE key[x] < key[y]
    BY <1>5 DEF ByOrder, Measured
  <2> HIDE DEF P, back, key
  <2> QED BY <1>1, <2>1
<1>6. CASE st.order = "deviation"
  <2>1. \A x, y \in Pages : P(x, y) <=>
          IF (x \in inc) # (y \in inc) THEN x \in inc ELSE dev(x) > dev(y)
    BY <1>6 DEF ByOrder
  <2> HIDE DEF P, dev
  <2> QED BY <1>1, <2>1
<1>7. CASE st.order = "completeness"
  <2>1. \A x, y \in Pages : P(x, y) <=> ((x \in inc) # (y \in inc) => y \in inc)
    BY <1>7 DEF ByOrder
  <2> HIDE DEF P
  <2> QED BY <1>1, <2>1
<1>8. CASE st.order = "split"
  <2>1. p[2] = "single" /\ q[2] = "single" /\ r[2] = "single"
    BY <1>8 DEF StageSound, Listable
  <2>2. \A x, y \in {p, q, r} :
          /\ Older(x, y) <=> Place(x[1]) < Place(y[1])
          /\ Place(x[1]) \in Int
    BY <1>1, <2>1, SplitOrder
  <2>3. \A x, y \in {p, q, r} : P(x, y) <=>
          IF (x \in inc) # (y \in inc) THEN y \in inc
          ELSE IF x \in inc \/ key[x] = key[y] THEN Place(x[1]) < Place(y[1])
          ELSE IF Unknown \in {key[x], key[y]} THEN key[y] = Unknown
          ELSE key[x] < key[y]
    <3> SUFFICES ASSUME NEW x \in {p, q, r}, NEW y \in {p, q, r}
                 PROVE  P(x, y) <=>
                   IF (x \in inc) # (y \in inc) THEN y \in inc
                   ELSE IF x \in inc \/ key[x] = key[y] THEN Place(x[1]) < Place(y[1])
                   ELSE IF Unknown \in {key[x], key[y]} THEN key[y] = Unknown
                   ELSE key[x] < key[y]
      OBVIOUS
    <3>1. P(x, y) <=>
            IF (x \in inc) # (y \in inc) THEN y \in inc
            ELSE IF x \in inc \/ key[x] = key[y] THEN Older(x, y)
            ELSE IF Unknown \in {key[x], key[y]} THEN key[y] = Unknown
            ELSE key[x] < key[y]
      BY <1>8 DEF ByOrder
    <3> QED BY <2>2, <3>1
  <2> HIDE DEF P, key
  <2> QED BY <1>1, <2>2, <2>3
<1> QED
  BY <1>4, <1>5, <1>6, <1>7, <1>8

\* s is in order, but for some pages.
InOrder(st, inc, s, others) ==
  \A i, j \in DOMAIN s :
    i < j /\ s[i] \notin others /\ s[j] \notin others => May(st, inc, s[i], s[j])

\* What is where after an item was put in, or taken out.
LEMMA InsertItems ==
  ASSUME NEW S, NEW s \in Seq(S), NEW k, k \in 1..(Len(s) + 1), NEW p \in S
  PROVE  LET r == InsertAt(s, k, p)
         IN /\ DOMAIN r = 1..(Len(s) + 1) /\ r[k] = p
            /\ \A i \in 1..(k - 1) : r[i] = s[i]
            /\ \A i \in (k + 1)..(Len(s) + 1) : r[i] = s[i - 1]
<1> DEFINE N == Len(s)
           j == k - 1
           one == 1
           a == SubSeq(s, one, j)
           b == SubSeq(s, k, N)
           c == <<p>>
           d == a \o c
           r == d \o b
<1>1. /\ N \in Nat /\ DOMAIN s = 1..N /\ k \in Int /\ 1 <= k /\ k <= N + 1
      /\ \A x \in 1..N : s[x] \in S
  BY LenProperties, ElementOfSeq
<1>2. a \in Seq(S) /\ Len(a) = k - 1 /\ \A i \in 1..(k - 1) : a[i] = s[i]
  <2>1. one \in Int /\ j \in Int /\ \A x \in one..j : s[x] \in S
    BY <1>1
  <2> HIDE DEF one, j
  <2>2. /\ SubSeq(s, one, j) \in Seq(S)
        /\ Len(SubSeq(s, one, j)) = IF one <= j THEN j - one + 1 ELSE 0
        /\ \A i \in 1..(j - one + 1) : SubSeq(s, one, j)[i] = s[one + i - 1]
    BY <2>1, SubSeqProperties
  <2> HIDE DEF a
  <2>3. /\ a \in Seq(S) /\ Len(a) = IF one <= j THEN j - one + 1 ELSE 0
        /\ \A i \in 1..(j - one + 1) : a[i] = s[one + i - 1]
    BY <2>2 DEF a
  <2> QED BY <1>1, <2>3 DEF one, j
<1>3. b \in Seq(S) /\ Len(b) = N - k + 1 /\ \A i \in 1..(N - k + 1) : b[i] = s[k + i - 1]
  <2>1. \A x \in k..N : s[x] \in S
    BY <1>1
  <2> HIDE DEF N
  <2>2. /\ SubSeq(s, k, N) \in Seq(S)
        /\ Len(SubSeq(s, k, N)) = IF k <= N THEN N - k + 1 ELSE 0
        /\ \A i \in 1..(N - k + 1) : SubSeq(s, k, N)[i] = s[k + i - 1]
    BY <1>1, <2>1, SubSeqProperties
  <2> QED BY <1>1, <2>2
<1>4. c \in Seq(S) /\ Len(c) = 1 /\ c[1] = p
  OBVIOUS
<1> HIDE DEF a, b, c, j, one, N
<1>5. /\ d \in Seq(S) /\ Len(d) = k /\ d[k] = p
      /\ \A i \in 1..(k - 1) : d[i] = s[i]
  <2>1. /\ a \o c \in Seq(S) /\ Len(a \o c) = Len(a) + Len(c)
        /\ \A i \in 1..(Len(a) + Len(c)) :
             (a \o c)[i] = IF i <= Len(a) THEN a[i] ELSE c[i - Len(a)]
    BY <1>2, <1>4, ConcatProperties
  <2> HIDE DEF d
  <2>2. /\ d \in Seq(S) /\ Len(d) = k
        /\ \A i \in 1..k : d[i] = IF i <= k - 1 THEN a[i] ELSE c[i - (k - 1)]
    BY <1>1, <1>2, <1>4, <2>1 DEF d
  <2>3. k - (k - 1) = 1
    BY <1>1
  <2> QED BY <1>1, <1>2, <1>4, <2>2, <2>3
<1> HIDE DEF d
<1>6. /\ DOMAIN r = 1..(N + 1) /\ \A i \in 1..k : r[i] = d[i]
      /\ \A i \in (k + 1)..(N + 1) : r[i] = s[i - 1]
  <2>1. /\ d \o b \in Seq(S) /\ Len(d \o b) = Len(d) + Len(b)
        /\ \A i \in 1..(Len(d) + Len(b)) :
             (d \o b)[i] = IF i <= Len(d) THEN d[i] ELSE b[i - Len(d)]
    BY <1>3, <1>5, ConcatProperties
  <2> HIDE DEF r
  <2>2. /\ r \in Seq(S) /\ Len(r) = N + 1
        /\ \A i \in 1..(N + 1) : r[i] = IF i <= k THEN d[i] ELSE b[i - k]
    BY <1>1, <1>3, <1>5, <2>1 DEF r
  <2>3. DOMAIN r = 1..(N + 1)
    BY <2>2, LenProperties
  <2>4. ASSUME NEW i \in (k + 1)..(N + 1) PROVE r[i] = s[i - 1]
    <3>1. i \in 1..(N + 1) /\ ~(i <= k) /\ i - k \in 1..(N - k + 1) /\ k + (i - k) - 1 = i - 1
      BY <1>1
    <3> QED BY <1>3, <2>2, <3>1
  <2>5. \A i \in 1..k : r[i] = d[i]
    BY <1>1, <2>2
  <2> QED BY <2>3, <2>4, <2>5
<1>7. InsertAt(s, k, p) = r
  BY DEF InsertAt, r, d, a, b, c, j, one, N
<1> HIDE DEF r
<1> QED
  BY <1>1, <1>5, <1>6, <1>7 DEF N

LEMMA RemoveItems ==
  ASSUME NEW S, NEW s \in Seq(S), NEW k, k \in 1..Len(s)
  PROVE  LET r == RemoveAt(s, k)
         IN /\ DOMAIN r = 1..(Len(s) - 1)
            /\ \A i \in 1..(k - 1) : r[i] = s[i]
            /\ \A i \in k..(Len(s) - 1) : r[i] = s[i + 1]
<1> DEFINE N == Len(s)
           j == k - 1
           n == k + 1
           one == 1
           a == SubSeq(s, one, j)
           b == SubSeq(s, n, N)
           r == a \o b
<1>1. /\ N \in Nat /\ DOMAIN s = 1..N /\ k \in Int /\ 1 <= k /\ k <= N
      /\ \A x \in 1..N : s[x] \in S
  BY LenProperties, ElementOfSeq
<1>2. a \in Seq(S) /\ Len(a) = k - 1 /\ \A i \in 1..(k - 1) : a[i] = s[i]
  <2>1. one \in Int /\ j \in Int /\ \A x \in one..j : s[x] \in S
    BY <1>1
  <2> HIDE DEF one, j
  <2>2. /\ SubSeq(s, one, j) \in Seq(S)
        /\ Len(SubSeq(s, one, j)) = IF one <= j THEN j - one + 1 ELSE 0
        /\ \A i \in 1..(j - one + 1) : SubSeq(s, one, j)[i] = s[one + i - 1]
    BY <2>1, SubSeqProperties
  <2> HIDE DEF a
  <2>3. /\ a \in Seq(S) /\ Len(a) = IF one <= j THEN j - one + 1 ELSE 0
        /\ \A i \in 1..(j - one + 1) : a[i] = s[one + i - 1]
    BY <2>2 DEF a
  <2> QED BY <1>1, <2>3 DEF one, j
<1>3. b \in Seq(S) /\ Len(b) = N - k /\ \A i \in 1..(N - k) : b[i] = s[k + i]
  <2>1. n \in Int /\ N \in Int /\ \A x \in n..N : s[x] \in S
    BY <1>1
  <2> HIDE DEF n, N
  <2>2. /\ SubSeq(s, n, N) \in Seq(S)
        /\ Len(SubSeq(s, n, N)) = IF n <= N THEN N - n + 1 ELSE 0
        /\ \A i \in 1..(N - n + 1) : SubSeq(s, n, N)[i] = s[n + i - 1]
    BY <2>1, SubSeqProperties
  <2> HIDE DEF b
  <2>3. /\ b \in Seq(S) /\ Len(b) = IF n <= N THEN N - n + 1 ELSE 0
        /\ \A i \in 1..(N - n + 1) : b[i] = s[n + i - 1]
    BY <2>2 DEF b
  <2>4. N - n + 1 = N - k /\ \A i \in 1..(N - k) : n + i - 1 = k + i
    BY <1>1 DEF n
  <2> QED BY <1>1, <2>3, <2>4 DEF n
<1> HIDE DEF a, b, j, n, one, N
<1>4. /\ DOMAIN r = 1..(N - 1) /\ \A i \in 1..(k - 1) : r[i] = a[i]
      /\ \A i \in k..(N - 1) : r[i] = s[i + 1]
  <2>1. /\ a \o b \in Seq(S) /\ Len(a \o b) = Len(a) + Len(b)
        /\ \A i \in 1..(Len(a) + Len(b)) :
             (a \o b)[i] = IF i <= Len(a) THEN a[i] ELSE b[i - Len(a)]
    BY <1>2, <1>3, ConcatProperties
  <2> HIDE DEF r
  <2>2. /\ r \in Seq(S) /\ Len(r) = N - 1
        /\ \A i \in 1..(N - 1) : r[i] = IF i <= k - 1 THEN a[i] ELSE b[i - (k - 1)]
    BY <1>1, <1>2, <1>3, <2>1 DEF r
  <2>3. DOMAIN r = 1..(N - 1)
    BY <2>2, LenProperties
  <2>4. ASSUME NEW i \in k..(N - 1) PROVE r[i] = s[i + 1]
    <3>1. /\ i \in 1..(N - 1) /\ ~(i <= k - 1) /\ i - (k - 1) \in 1..(N - k)
          /\ k + (i - (k - 1)) = i + 1
      BY <1>1
    <3> QED BY <1>3, <2>2, <3>1
  <2>5. \A i \in 1..(k - 1) : r[i] = a[i]
    BY <1>1, <2>2
  <2> QED BY <2>3, <2>4, <2>5
<1>5. RemoveAt(s, k) = r
  BY DEF RemoveAt, r, a, b, j, n, one, N
<1> HIDE DEF r
<1> QED
  BY <1>1, <1>2, <1>4, <1>5 DEF N

\* An item put between two that it may stand between leaves the order.
LEMMA InsertInOrder ==
  ASSUME NEW st, StageSound(st), FactsTyped, NEW inc, NEW s \in Seq(Listable(st)),
         InOrder(st, inc, s, {}), NEW p \in Listable(st), NEW k, k \in 1..(Len(s) + 1),
         k > 1 => May(st, inc, s[k - 1], p), k <= Len(s) => May(st, inc, p, s[k])
  PROVE  InOrder(st, inc, InsertAt(s, k, p), {})
<1> DEFINE N == Len(s)
           r == InsertAt(s, k, p)
<1>1. /\ N \in Nat /\ DOMAIN s = 1..N /\ k \in Int /\ 1 <= k /\ k <= N + 1
      /\ \A x \in 1..N : s[x] \in Listable(st)
  BY LenProperties, ElementOfSeq
<1>2. /\ DOMAIN r = 1..(N + 1) /\ r[k] = p
      /\ \A i \in 1..(k - 1) : r[i] = s[i]
      /\ \A i \in (k + 1)..(N + 1) : r[i] = s[i - 1]
  BY InsertItems
<1>3. \A i, j \in 1..N : i < j => May(st, inc, s[i], s[j])
  BY <1>1 DEF InOrder
<1> HIDE DEF r, N
<1>4. ASSUME NEW i \in 1..(k - 1) PROVE May(st, inc, s[i], p)
  <2>1. i \in 1..N /\ k - 1 \in 1..N /\ k > 1 /\ (i = k - 1 \/ i < k - 1)
    BY <1>1
  <2>2. May(st, inc, s[k - 1], p)
    BY <2>1
  <2>3. i < k - 1 => May(st, inc, s[i], s[k - 1])
    BY <1>3, <2>1
  <2> QED BY <1>1, <2>1, <2>2, <2>3, MayFollow
<1>5. ASSUME NEW i \in k..N PROVE May(st, inc, p, s[i])
  <2>1. i \in 1..N /\ k \in 1..N /\ (i = k \/ k < i)
    BY <1>1
  <2>2. May(st, inc, p, s[k])
    BY <1>1, <2>1 DEF N
  <2>3. k < i => May(st, inc, s[k], s[i])
    BY <1>3, <2>1
  <2> QED BY <1>1, <2>1, <2>2, <2>3, MayFollow
<1>6. ASSUME NEW i \in 1..(N + 1), NEW j \in 1..(N + 1), i < j
      PROVE  May(st, inc, r[i], r[j])
  <2>1. CASE i < k /\ j < k
    <3>1. i \in 1..(k - 1) /\ j \in 1..(k - 1) /\ i \in 1..N /\ j \in 1..N
      BY <1>1, <2>1
    <3> QED BY <1>2, <1>3, <1>6, <3>1
  <2>2. CASE i < k /\ j = k
    <3>1. i \in 1..(k - 1)
      BY <1>1, <2>2
    <3> QED BY <1>2, <1>4, <2>2, <3>1
  <2>3. CASE i < k /\ j > k
    <3>1. /\ i \in 1..(k - 1) /\ j \in (k + 1)..(N + 1) /\ i \in 1..N /\ j - 1 \in 1..N
          /\ i < j - 1
      BY <1>1, <2>3
    <3> QED BY <1>2, <1>3, <3>1
  <2>4. CASE i = k /\ j > k
    <3>1. j \in (k + 1)..(N + 1) /\ j - 1 \in k..N
      BY <1>1, <2>4
    <3> QED BY <1>2, <1>5, <2>4, <3>1
  <2>5. CASE i > k
    <3>1. /\ i \in (k + 1)..(N + 1) /\ j \in (k + 1)..(N + 1)
          /\ i - 1 \in 1..N /\ j - 1 \in 1..N /\ i - 1 < j - 1
      BY <1>1, <1>6, <2>5
    <3> QED BY <1>2, <1>3, <3>1
  <2>6. \/ i < k /\ (j < k \/ j = k \/ j > k)
        \/ i = k /\ j > k
        \/ i > k
    BY <1>1, <1>6
  <2> QED BY <2>1, <2>2, <2>3, <2>4, <2>5, <2>6
<1> QED
  BY <1>2, <1>6 DEF InOrder, r

\* Without an order any list is in it.
LEMMA NaturalInOrder ==
  ASSUME NEW st, Natural(st)
  PROVE  \A inc, s, others : InOrder(st, inc, s, others)
BY DEF InOrder, May, Before

\* What an order places is in order.
LEMMA PlacedInOrder ==
  ASSUME NEW st, StageSound(st), ~Natural(st), FactsTyped, NEW inc,
         NEW s \in Seq(Listable(st)), InOrder(st, inc, s, {}), NEW p \in Listable(st)
  PROVE  InOrder(st, inc, Placed(st, inc, s, p), {})
<1> DEFINE later == {j \in DOMAIN s : Precedes(st, p, p \in inc, s[j], s[j] \in inc)}
           k == IF later = {} THEN Len(s) + 1 ELSE Min(later)
<1>1. /\ Len(s) \in Nat /\ DOMAIN s = 1..Len(s)
      /\ \A x \in 1..Len(s) : s[x] \in Listable(st)
  BY LenProperties, ElementOfSeq
<1>2. Placed(st, inc, s, p) = InsertAt(s, k, p)
  BY DEF Placed
<1>3. ASSUME NEW j \in 1..Len(s)
      PROVE  /\ j \in later => May(st, inc, p, s[j])
             /\ j \notin later => May(st, inc, s[j], p)
  BY <1>1, MayStand
<1>4. later \subseteq 1..Len(s)
  BY <1>1
<1> HIDE DEF later
<1>5. /\ k \in 1..(Len(s) + 1) /\ (k <= Len(s) => k \in later)
      /\ \A j \in 1..Len(s) : j < k => j \notin later
  <2>1. CASE later = {}
    BY <1>1, <2>1
  <2>2. CASE later # {}
    <3>1. later \in SUBSET Nat
      BY <1>1, <1>4
    <3>2. Min(later) \in later /\ \A u \in later : Min(later) <= u
      BY <2>2, <3>1, LeastOf
    <3>3. k = Min(later)
      BY <2>2
    <3> HIDE DEF k
    <3>4. k \in later /\ \A u \in later : k <= u
      BY <3>2, <3>3
    <3> QED BY <1>1, <1>4, <3>4
  <2> QED BY <2>1, <2>2
<1> HIDE DEF k
<1>6. k > 1 => May(st, inc, s[k - 1], p)
  BY <1>1, <1>3, <1>5
<1>7. k <= Len(s) => May(st, inc, p, s[k])
  BY <1>1, <1>3, <1>5
<1>8. InOrder(st, inc, InsertAt(s, k, p), {})
  BY <1>5, <1>6, <1>7, InsertInOrder
<1> QED
  BY <1>2, <1>8

\* orderItems() brings pages into order.
LEMMA SortedInOrder ==
  ASSUME NEW st, StageSound(st), FactsTyped, NEW inc, NEW s \in Seq(Listable(st))
  PROVE  InOrder(st, inc, Sorted(st, inc, s), {})
<1> DEFINE N == Len(s)
           L == Listable(st)
           Good(r) == r \in Seq(L) /\ InOrder(st, inc, r, {})
<1>1. N \in Nat /\ \A n \in 1..N : s[n] \in L
  BY LenProperties, ElementOfSeq
<1>2. PICK f : PlacedInTurn(f, st, inc, s)
  BY SortedSteps
<1>3. CASE Natural(st)
  BY <1>3, NaturalInOrder
<1>4. CASE ~Natural(st)
  <2> DEFINE P == {n \in 0..N : Good(f[n])}
  <2>1. 0 \in P
    <3> DEFINE e == <<>>
    <3>1. e \in Seq(L) /\ DOMAIN e = {}
      BY EmptySeq
    <3> HIDE DEF e
    <3>2. Good(e)
      BY <3>1 DEF InOrder
    <3>3. f[0] = e
      BY <1>2 DEF PlacedInTurn, e
    <3> HIDE DEF Good
    <3> QED BY <1>1, <3>2, <3>3
  <2>2. ASSUME NEW n \in 0..N, n < N, n \in P PROVE n + 1 \in P
    <3>1. n + 1 \in 1..N /\ n + 1 \in 0..N /\ (n + 1) - 1 = n
      BY <1>1, <2>2
    <3> DEFINE r == f[n]
               p == s[n + 1]
    <3>2. f[n + 1] = Placed(st, inc, r, p)
      BY <1>2, <3>1 DEF PlacedInTurn
    <3>3. p \in L /\ Good(r)
      BY <1>1, <2>2, <3>1
    <3> HIDE DEF r, p
    <3>4. Good(Placed(st, inc, r, p))
      <4>1. r \in Seq(Listable(st)) /\ p \in Listable(st) /\ InOrder(st, inc, r, {})
        BY <3>3
      <4>2. InOrder(st, inc, Placed(st, inc, r, p), {})
        BY <1>4, <4>1, PlacedInOrder
      <4>3. Placed(st, inc, r, p) \in Seq(Listable(st))
        BY <4>1, PlacedFacts
      <4> QED BY <4>2, <4>3
    <3> HIDE DEF Good
    <3> QED BY <3>1, <3>2, <3>4
  <2>3. \A n \in 0..N : n \in P
    <3> HIDE DEF P, N
    <3> QED BY <1>1, <2>1, <2>2, UpTo
  <2>4. Good(f[N])
    <3>1. N \in P
      <4> HIDE DEF P, N
      <4> QED BY <1>1, <2>3
    <3> QED BY <3>1
  <2>5. Sorted(st, inc, s) = f[N]
    BY <1>2, <1>4 DEF PlacedInTurn
  <2> QED BY <2>4, <2>5
<1> QED
  BY <1>3, <1>4

\* Pages that leave take nothing out of order.
LEMMA AmongInOrder ==
  ASSUME NEW st, NEW inc, NEW S, NEW s \in Seq(S), NEW others,
         InOrder(st, inc, s, others), NEW A
  PROVE  InOrder(st, inc, Among(s, A), others)
<1> DEFINE r == Among(s, A)
           n == Len(r)
           N == Len(s)
<1>1. r \in Seq(S) /\ n \in Nat /\ N \in Nat /\ DOMAIN r = 1..n /\ DOMAIN s = 1..N
  BY AmongTakes, LenProperties
<1>2. PICK at \in [1..n -> 1..N] :
        /\ \A k \in 1..n : r[k] = s[at[k]]
        /\ \A j, k \in 1..n : j < k => at[j] < at[k]
  BY AmongTakes
<1> HIDE DEF r, n, N
<1>3. ASSUME NEW j \in 1..n, NEW k \in 1..n, j < k, r[j] \notin others, r[k] \notin others
      PROVE  May(st, inc, r[j], r[k])
  <2>1. at[j] \in 1..N /\ at[k] \in 1..N /\ at[j] < at[k]
    BY <1>2, <1>3
  <2> QED BY <1>1, <1>2, <1>3, <2>1 DEF InOrder
<1> QED
  BY <1>1, <1>3 DEF InOrder, r

LEMMA SeqOfListable ==
  ASSUME NEW S, NEW s \in Seq(S), NEW L, Range(s) \subseteq L
  PROVE  s \in Seq(L)
<1>1. /\ Len(s) \in Nat /\ DOMAIN s = 1..Len(s) /\ s \in [1..Len(s) -> S]
      /\ \A i \in 1..Len(s) : s[i] \in L
  BY LenProperties DEF Range
<1>2. s \in [1..Len(s) -> L]
  BY <1>1
<1> QED
  BY <1>1, <1>2, IsASeq

\* Whether a page may stand before another does not depend on a third.
LEMMA MayAlike ==
  ASSUME NEW st, NEW a, NEW b, NEW p, NEW q, p \in a <=> p \in b, q \in a <=> q \in b
  PROVE  May(st, a, p, q) <=> May(st, b, p, q)
<1>1. (p \in a) = (p \in b) /\ (q \in a) = (q \in b)
  OBVIOUS
<1> QED
  BY <1>1 DEF May, Before

LEMMA PagesListable ==
  ASSUME NEW images, ProjectSound(images), NEW st
  PROVE  /\ PageSequence(images, st) \in Seq(Pages)
         /\ Range(PageSequence(images, st)) \subseteq Listable(st)
<1>1. /\ PageSequence(images, st) \in Seq(Pages)
      /\ Range(PageSequence(images, st)) = PagesIn(images, st.view)
  BY PageSequenceFacts
<1>2. ASSUME NEW p \in PagesIn(images, st.view), st.view = "image"
      PROVE  p[2] = "single"
  <2>1. PICK i \in DOMAIN images : p \in ListedOf(images[i], "image")
    BY <1>2 DEF PagesIn
  <2> QED BY <2>1 DEF ListedOf, SubPagesOf
<1>3. PagesIn(images, st.view) \subseteq Pages
  BY <1>1, RangeOfSeq
<1> QED
  BY <1>1, <1>2, <1>3 DEF Listable

\* invalidateAllThumbnails() and reset().
LEMMA AllInvalidatedInOrder ==
  ASSUME NEW l \in ListType, NEW st, StageSound(st), FactsTyped,
         Range(l.order) \subseteq Listable(st)
  PROVE  LET m == AllInvalidated(l, st) IN InOrder(st, m.incomplete, m.order, {})
<1> DEFINE inc == Range(l.order) \ facts.complete
           o == Sorted(st, inc, l.order)
           m == AllInvalidated(l, st)
<1>1. m = [l EXCEPT !.incomplete = inc, !.order = o]
  <2> HIDE DEF inc
  <2> QED BY DEF AllInvalidated, inc, ListType
<1>2. l.order \in Seq(Listable(st))
  <2>1. l.order \in Seq(Pages)
    BY DEF ListType
  <2> QED BY <2>1, SeqOfListable
<1> HIDE DEF inc
<1>3. InOrder(st, inc, Sorted(st, inc, l.order), {})
  BY <1>2, SortedInOrder
<1> HIDE DEF o, m
<1>4. m.incomplete = inc /\ m.order = o
  BY <1>1 DEF ListType
<1> QED
  BY <1>3, <1>4 DEF o, m

LEMMA ResetInOrder ==
  ASSUME NEW l, NEW pages \in Seq(Pages), IsInjective(pages), NEW keep, NEW st,
         StageSound(st), FactsTyped, Range(pages) \subseteq Listable(st)
  PROVE  LET m == Reset(l, pages, keep, st) IN InOrder(st, m.incomplete, m.order, {})
<1>1. CASE pages = <<>>
  <2>1. Reset(l, pages, keep, st) = EmptyList
    BY <1>1 DEF Reset
  <2>2. DOMAIN EmptyList.order = {}
    BY DEF EmptyList
  <2> QED BY <2>1, <2>2 DEF InOrder
<1>2. CASE pages # <<>>
  <2> DEFINE r == Refilled(l, pages, keep)
  <2>1. WellMade(r) /\ r.order = pages
    <3>1. /\ WellMade(Refilled(l, pages, keep))
          /\ Refilled(l, pages, keep).order = pages
          /\ Refilled(l, pages, keep).selected = SelectedAgain(l, pages, keep)
          /\ l.leader \in SelectedAgain(l, pages, keep)
               => Refilled(l, pages, keep).leader = l.leader
          /\ OfImage(SelectedAgain(l, pages, keep), l.leader)
               => Refilled(l, pages, keep).leader[1] = l.leader[1]
      BY RefilledMade
    <3> QED BY <3>1
  <2>2. Reset(l, pages, keep, st) = AllInvalidated(r, st)
    BY <1>2 DEF Reset
  <2> HIDE DEF r
  <2>3. r \in ListType
    BY <2>1 DEF WellMade, Shaped
  <2>4. InOrder(st, AllInvalidated(r, st).incomplete, AllInvalidated(r, st).order, {})
    BY <2>1, <2>3, AllInvalidatedInOrder
  <2> QED BY <2>2, <2>4
<1> QED
  BY <1>1, <1>2

\* An item goes where itemInsertPosition() says.
LEMMA PlaceInOrder ==
  ASSUME NEW st, StageSound(st), FactsTyped, NEW inc, NEW s \in Seq(Listable(st)),
         InOrder(st, inc, s, {}), NEW p \in Listable(st),
         NEW was, \A q \in Range(s) : q \in was <=> q \in inc, NEW pInc, pInc = (p \in inc),
         NEW hint, hint \in 1..(Len(s) + 1)
  PROVE  InOrder(st, inc,
                 InsertAt(s, ItemInsertPosition(st, was, s, p, pInc, hint), p), {})
<1> DEFINE at == ItemInsertPosition(st, was, s, p, pInc, hint)
<1>1. /\ Len(s) \in Nat /\ DOMAIN s = 1..Len(s)
      /\ \A x \in 1..Len(s) : s[x] \in Listable(st)
  BY LenProperties, ElementOfSeq
<1>2. /\ at \in 1..(Len(s) + 1)
      /\ ~Natural(st) /\ at > 1 =>
           \/ Precedes(st, s[at - 1], s[at - 1] \in was, p, pInc)
           \/ ~Precedes(st, p, pInc, s[at - 1], s[at - 1] \in was)
      /\ ~Natural(st) /\ at <= Len(s) =>
           ~Precedes(st, s[at], s[at] \in was, p, pInc)
  BY InsertPlace
<1> HIDE DEF at
<1>3. CASE Natural(st)
  BY <1>3, NaturalInOrder
<1>4. CASE ~Natural(st)
  <2>1. at > 1 => May(st, inc, s[at - 1], p)
    <3> SUFFICES ASSUME at > 1 PROVE May(st, inc, s[at - 1], p)
      OBVIOUS
    <3>1. at - 1 \in DOMAIN s /\ s[at - 1] \in Listable(st)
      BY <1>1, <1>2
    <3>2. (s[at - 1] \in was) = (s[at - 1] \in inc)
      BY <3>1 DEF Range
    <3>3. \/ Precedes(st, s[at - 1], s[at - 1] \in inc, p, p \in inc)
          \/ ~Precedes(st, p, p \in inc, s[at - 1], s[at - 1] \in inc)
      BY <1>2, <1>4, <3>2
    <3> QED BY <1>4, <3>1, <3>3, MayStand
  <2>2. at <= Len(s) => May(st, inc, p, s[at])
    <3> SUFFICES ASSUME at <= Len(s) PROVE May(st, inc, p, s[at])
      OBVIOUS
    <3>1. at \in DOMAIN s /\ s[at] \in Listable(st)
      BY <1>1, <1>2
    <3>2. (s[at] \in was) = (s[at] \in inc)
      BY <3>1 DEF Range
    <3>3. ~Precedes(st, s[at], s[at] \in inc, p, p \in inc)
      BY <1>2, <1>4, <3>2
    <3> QED BY <1>4, <3>1, <3>3, MayStand
  <2>3. InOrder(st, inc, InsertAt(s, at, p), {})
    BY <1>2, <2>1, <2>2, InsertInOrder
  <2> QED BY <2>3 DEF at
<1> QED
  BY <1>3, <1>4

\* invalidateThumbnail() of the only page that may be out of place.
LEMMA InvalidatedInOrder ==
  ASSUME NEW l, WellMade(l), NEW p, p \in Range(l.order), StageSound(stage), FactsTyped,
         Range(l.order) \subseteq Listable(stage),
         InOrder(stage, l.incomplete, l.order, {p})
  PROVE  LET m == Invalidated(l, p) IN InOrder(stage, m.incomplete, m.order, {})
<1> DEFINE inc == IF p \in facts.complete THEN l.incomplete \ {p} ELSE l.incomplete \cup {p}
           from == Position(l, p)
           rest == RemoveAt(l.order, from)
           at == ItemInsertPosition(stage, inc, rest, p, p \in inc, from)
           o == InsertAt(rest, at, p)
           m == Invalidated(l, p)
           n == Len(l.order)
           L == Listable(stage)
<1>1. /\ l \in ListType /\ l.order \in Seq(Pages) /\ IsInjective(l.order)
      /\ DOMAIN l.order = 1..n /\ n \in Nat /\ p \in L
  BY ListFacts, LenProperties DEF WellMade, Shaped
<1>2. from \in 1..n /\ l.order[from] = p
  BY <1>1, PositionFacts
<1>3. \A x : x # p => (x \in l.incomplete <=> x \in inc)
  OBVIOUS
<1> HIDE DEF from, inc
<1>4. /\ rest \in Seq(Pages) /\ Len(rest) = n - 1
      /\ Range(rest) = Range(l.order) \ {p}
  BY <1>1, <1>2, RemoveFacts
<1>5. /\ DOMAIN rest = 1..(n - 1)
      /\ \A i \in 1..(from - 1) : rest[i] = l.order[i]
      /\ \A i \in from..(n - 1) : rest[i] = l.order[i + 1]
  BY <1>1, <1>2, RemoveItems
<1>6. m = [l EXCEPT !.incomplete = inc, !.order = o]
  <2> HIDE DEF at, o
  <2> QED BY DEF Invalidated, o, at, rest, from, inc
<1> HIDE DEF rest, m, n
<1>7. rest \in Seq(L)
  BY <1>4, SeqOfListable
<1>8. InOrder(stage, inc, rest, {})
  <2> SUFFICES ASSUME NEW i \in 1..(n - 1), NEW j \in 1..(n - 1), i < j
               PROVE  May(stage, inc, rest[i], rest[j])
    BY <1>5 DEF InOrder
  <2> DEFINE old(k) == IF k < from THEN k ELSE k + 1
  <2>1. \A k \in 1..(n - 1) : rest[k] = l.order[old(k)] /\ old(k) \in 1..n
    BY <1>1, <1>2, <1>5
  <2>2. old(i) < old(j)
    BY <1>2
  <2>3. rest[i] # p /\ rest[j] # p
    BY <1>4, <1>5 DEF Range
  <2> HIDE DEF old
  <2>4. May(stage, l.incomplete, rest[i], rest[j])
    BY <1>1, <2>1, <2>2, <2>3 DEF InOrder
  <2> QED BY <1>3, <2>3, <2>4, MayAlike
<1>9. InOrder(stage, inc, o, {})
  <2>1. from \in 1..(Len(rest) + 1)
    BY <1>1, <1>2, <1>4
  <2> QED BY <1>1, <1>7, <1>8, <2>1, PlaceInOrder
<1> HIDE DEF o
<1>10. m.incomplete = inc /\ m.order = o
  BY <1>1, <1>6 DEF ListType
<1> QED
  BY <1>9, <1>10 DEF m

\* insert() of a page that is incomplete, as insert() takes it to be.
LEMMA InsertItemInOrder ==
  ASSUME NEW l, WellMade(l), NEW p \in Listable(stage), p \notin Range(l.order),
         p \notin facts.complete, NEW side, NEW image, StageSound(stage), FactsTyped,
         Range(l.order) \subseteq Listable(stage),
         InOrder(stage, l.incomplete, l.order, {})
  PROVE  LET m == InsertItem(l, p, side, image)
         IN /\ InOrder(stage, m.incomplete, m.order, {})
            /\ Range(m.order) \subseteq Listable(stage)
<1> DEFINE m == InsertItem(l, p, side, image)
           hint == InsertHint(l, side, image)
           yes == TRUE
           at == ItemInsertPosition(stage, l.incomplete, l.order, p, yes, hint)
           o == InsertAt(l.order, at, p)
           q == Append(l.pool, p)
           inc == l.incomplete \cup ({p} \ facts.complete)
           L == Listable(stage)
<1>1. l \in ListType /\ l.order \in Seq(Pages) /\ WellMade(l) /\ p \in Pages
  BY ListFacts DEF WellMade, Listable
<1>2. l.order \in Seq(L)
  BY <1>1, SeqOfListable
<1>3. CASE image # None /\ <<image, "single">> \notin Range(l.order)
  <2>1. m = l
    BY <1>3 DEF InsertItem
  <2> QED BY <2>1
<1>4. CASE image = None \/ <<image, "single">> \in Range(l.order)
  <2>1. hint \in 1..(Len(l.order) + 1)
    BY <1>1, <1>4, InsertHintFacts
  <2>2. m = [l EXCEPT !.order = o, !.pool = q, !.incomplete = inc]
    BY <1>4 DEF InsertItem
  <2>3. /\ \A x \in Range(l.order) : x \in l.incomplete <=> x \in inc
        /\ yes = (p \in inc)
    OBVIOUS
  <2> HIDE DEF hint, inc, m, q, yes
  <2>4. InOrder(stage, inc, l.order, {})
    <3>1. ASSUME NEW i \in DOMAIN l.order, NEW j \in DOMAIN l.order, i < j
          PROVE  May(stage, inc, l.order[i], l.order[j])
      <4>1. l.order[i] \in Range(l.order) /\ l.order[j] \in Range(l.order)
        BY DEF Range
      <4>2. May(stage, l.incomplete, l.order[i], l.order[j])
        BY <3>1 DEF InOrder
      <4> QED BY <2>3, <4>1, <4>2, MayAlike
    <3> QED BY <3>1 DEF InOrder
  <2>5. InOrder(stage, inc, o, {})
    BY <1>2, <2>1, <2>3, <2>4, PlaceInOrder
  <2>6. at \in 1..(Len(l.order) + 1)
    BY <1>1, <2>1, InsertPlace
  <2>7. /\ InsertAt(l.order, at, p) \in Seq(Pages)
        /\ Range(InsertAt(l.order, at, p)) = Range(l.order) \cup {p}
        /\ IsInjective(l.order) /\ p \notin Range(l.order)
             => IsInjective(InsertAt(l.order, at, p))
    <3> HIDE DEF at
    <3> QED BY ONLY <1>1, <2>6, InsertFacts
  <2> HIDE DEF o, at
  <2>8. m.incomplete = inc /\ m.order = o
    BY <1>1, <2>2 DEF ListType
  <2>9. Range(m.order) \subseteq L
    BY <2>7, <2>8 DEF o
  <2> QED BY <2>5, <2>8, <2>9 DEF m
<1> QED
  BY <1>3, <1>4

LEMMA InsertAllInOrder ==
  ASSUME NEW l, WellMade(l), NEW pages \in Seq(Pages), IsInjective(pages),
         Range(pages) # {}, Range(pages) \cap Range(l.order) = {}, NEW side, NEW image,
         Range(pages) \subseteq Listable(stage), Range(pages) \cap facts.complete = {},
         StageSound(stage), FactsTyped, Range(l.order) \subseteq Listable(stage),
         InOrder(stage, l.incomplete, l.order, {})
  PROVE  LET m == InsertAll(l, pages, side, image)
         IN InOrder(stage, m.incomplete, m.order, {})
<1> DEFINE p == pages[1]
           q == pages[2]
           f == InsertItem(l, p, side, image)
           other == q[1]
           m == InsertItem(f, q, side, other)
<1>1. Len(pages) \in Nat /\ DOMAIN pages = 1..Len(pages) /\ Len(pages) # 0
  <2>1. Len(pages) \in Nat /\ DOMAIN pages = 1..Len(pages)
    BY LenProperties
  <2> QED BY <2>1 DEF Range
<1>2. 1 \in DOMAIN pages /\ (Len(pages) # 1 => 2 \in DOMAIN pages)
  BY <1>1
<1>3. /\ p \in Range(pages) /\ p \in Listable(stage) /\ p \notin Range(l.order)
      /\ p \notin facts.complete /\ p \in Pages
  BY <1>1, <1>2 DEF Range, Listable
<1>4. InsertAll(l, pages, side, image) = IF Len(pages) = 1 THEN f ELSE m
  BY DEF InsertAll
<1> HIDE DEF p, other
<1>5. /\ WellMade(f) /\ Range(f.order) \subseteq Range(l.order) \cup {p}
      /\ InOrder(stage, f.incomplete, f.order, {})
      /\ Range(f.order) \subseteq Listable(stage)
  <2>1. /\ WellMade(InsertItem(l, p, side, image))
        /\ Range(InsertItem(l, p, side, image).order) \subseteq Range(l.order) \cup {p}
    BY <1>3, InsertItemMade
  <2>2. /\ InOrder(stage, f.incomplete, f.order, {})
        /\ Range(f.order) \subseteq Listable(stage)
    BY <1>3, InsertItemInOrder
  <2> QED BY <2>1, <2>2
<1>6. CASE Len(pages) = 1
  BY <1>4, <1>5, <1>6
<1>7. CASE Len(pages) # 1
  <2>1. /\ q \in Range(pages) /\ q \in Listable(stage) /\ q \notin Range(l.order)
        /\ q \notin facts.complete
    BY <1>2, <1>7 DEF Range
  <2>2. q # p
    BY <1>2, <1>7 DEF IsInjective, p
  <2> HIDE DEF q, f
  <2>3. q \notin Range(f.order)
    BY <1>5, <2>1, <2>2
  <2>4. InOrder(stage, m.incomplete, m.order, {})
    BY <1>5, <2>1, <2>3, InsertItemInOrder
  <2> HIDE DEF m
  <2> QED BY <1>4, <1>7, <2>4
<1> QED
  BY <1>6, <1>7

\* Whether thumbnails are complete is no matter of what is selected.
Has(l) == "incomplete" \in DOMAIN l
Same(m, l) == Has(m) /\ m.incomplete = l.incomplete

LEMMA FlagsSame ==
  ASSUME NEW l, Has(l), NEW ps, NEW p
  PROVE  /\ Same(SetSelected(l, ps, TRUE), l) /\ Same(SetSelected(l, ps, FALSE), l)
         /\ Same(SetSelectionLeader(l, ps, TRUE), l)
         /\ Same(SetSelectionLeader(l, ps, FALSE), l)
         /\ Same(MoveToSelected(l, p), l) /\ Same(MoveToUnselected(l, p), l)
         /\ Same([l EXCEPT !.leader = p], l) /\ Same([l EXCEPT !.pool = ps], l)
BY DEF Has, Same, SetSelected, SetSelectionLeader, MoveToSelected, MoveToUnselected

LEMMA NewLeaderSame ==
  ASSUME NEW l, Has(l), NEW p
  PROVE  Same(NewLeader(l, p), l)
<1> DEFINE a == [l EXCEPT !.leader = p]
           b == SetSelectionLeader(a, {p}, TRUE)
<1>1. Same(a, l)
  BY FlagsSame
<1> HIDE DEF a
<1>2. Same(b, a)
  BY <1>1, FlagsSame DEF Same
<1> HIDE DEF b
<1>3. Same(MoveToSelected(b, p), b)
  BY <1>2, FlagsSame DEF Same
<1> QED
  BY <1>1, <1>2, <1>3 DEF NewLeader, Same, a, b

LEMMA SelectNoModifiersSame ==
  ASSUME NEW l, Has(l), NEW p
  PROVE  Same(SelectNoModifiers(l, p), l)
<1> DEFINE a == SetSelected(l, SelectedItems(l), FALSE)
           b == Cleared(l)
<1>1. Same(a, l)
  BY FlagsSame
<1>2. b = [a EXCEPT !.leader = NoPage]
  BY DEF Cleared
<1> HIDE DEF a, b
<1>3. Same(b, a)
  BY <1>1, <1>2, FlagsSame DEF Same
<1>4. Same(NewLeader(b, p), b)
  BY <1>3, NewLeaderSame DEF Same
<1> QED
  BY <1>1, <1>3, <1>4 DEF SelectNoModifiers, Same, b

LEMMA SelectWithShiftSame ==
  ASSUME NEW l, Has(l), NEW p
  PROVE  Same(SelectWithShift(l, p), l)
<1> DEFINE span == Between(l, l.leader, p)
           all  == SetSelected(l, Range(span), TRUE)
           tops == [all EXCEPT !.pool = Reverse(span) \o Except(@, Range(span))]
           x == SetSelectionLeader(tops, {l.leader}, FALSE)
           y == SetSelectionLeader(x, {p}, TRUE)
           z == [y EXCEPT !.leader = p]
<1>1. Same(all, l)
  BY FlagsSame
<1> HIDE DEF span, all
<1>2. Same(tops, all)
  BY <1>1 DEF Has, Same
<1> HIDE DEF tops
<1>3. Same(x, tops)
  BY <1>2, FlagsSame DEF Same
<1> HIDE DEF x
<1>4. Same(y, x)
  BY <1>3, FlagsSame DEF Same
<1> HIDE DEF y
<1>5. Same(z, y)
  BY <1>4, FlagsSame DEF Same
<1> HIDE DEF z
<1>6. SelectWithShift(l, p) = IF l.leader = NoPage THEN SelectNoModifiers(l, p)
                              ELSE IF l.leader = p THEN l ELSE z
  BY DEF SelectWithShift, z, y, x, tops, all, span
<1>7. Same(z, l)
  BY <1>1, <1>2, <1>3, <1>4, <1>5 DEF Same
<1> QED
  BY <1>6, <1>7, SelectNoModifiersSame DEF Same

LEMMA SelectWithControlSame ==
  ASSUME NEW l, Has(l), NEW p
  PROVE  Same(SelectWithControl(l, p), l)
<1> DEFINE a == SetSelectionLeader(l, OldLeader(l), FALSE)
           b == SetSelected(l, {p}, FALSE)
           c == MoveToUnselected(b, p)
           next == Nearest(c, p)
           d == SetSelectionLeader(c, {next}, TRUE)
           e == [d EXCEPT !.leader = next]
<1>1. Same(a, l) /\ Same(b, l)
  BY FlagsSame
<1> HIDE DEF a, b
<1>2. Same(NewLeader(a, p), a)
  BY <1>1, NewLeaderSame DEF Same
<1>3. Same(c, b)
  BY <1>1, FlagsSame DEF Same
<1> HIDE DEF c, next
<1>4. Same(d, c)
  BY <1>3, FlagsSame DEF Same
<1> HIDE DEF d
<1>5. Same(e, d)
  BY <1>4, FlagsSame DEF Same
<1> HIDE DEF e
<1>6. SelectWithControl(l, p) =
        IF p \notin l.selected THEN NewLeader(a, p)
        ELSE IF ~MultipleItemsSelected(l) THEN l
        ELSE IF l.leader # p THEN c ELSE e
  BY <1>3 DEF SelectWithControl, LeaderInstead, a, b, c, d, e, next
<1> QED
  BY <1>1, <1>2, <1>3, <1>4, <1>5, <1>6 DEF Same

LEMMA SetSelectionSame ==
  ASSUME NEW l, Has(l), NEW p, NEW keep
  PROVE  Same(SetSelection(l, p, keep), l)
<1> DEFINE others == SelectedItems(l) \ {p}
           a == SetSelected(l, others, FALSE)
           b == OthersCleared(l, p)
           c == SetSelectionLeader(l, OldLeader(l), FALSE)
           d == LeaderReset(l, p)
           e == IF keep THEN d ELSE b
<1>1. Same(a, l) /\ Same(c, l)
  BY FlagsSame
<1>2. b = [a EXCEPT !.pool = Except(@, others) \o Among(@, others),
                    !.leader = IF @ \in others THEN NoPage ELSE @]
  BY DEF OthersCleared
<1> HIDE DEF a, b, others
<1>3. Same(b, l)
  BY <1>1, <1>2 DEF Has, Same
<1> HIDE DEF c
<1>4. d = IF l.leader = p THEN l ELSE [c EXCEPT !.leader = NoPage]
  BY DEF LeaderReset, c
<1> HIDE DEF d
<1>5. Same(d, l)
  BY <1>1, <1>4 DEF Has, Same
<1>6. Same(e, l)
  BY <1>3, <1>5
<1> HIDE DEF e
<1>7. Same(NewLeader(e, p), e)
  BY <1>6, NewLeaderSame DEF Same
<1>8. SetSelection(l, p, keep) = IF l.leader = p THEN e ELSE NewLeader(e, p)
  BY DEF SetSelection, e, d, b
<1> QED
  BY <1>6, <1>7, <1>8 DEF Same
-----------------------------------------------------------------------------
(* The invariant of the order, action by action.                           *)

\* Unless a page was put in its place while others had moved, only those pages
\* can be out of order that the list has not heard of.
OrderInvariant ==
  /\ StageSound(stage) /\ FactsTyped
  /\ Range(list.order) \subseteq Listable(stage)
  /\ ~scrambled => InOrder(stage, list.incomplete, list.order, unheard)

LEMMA OrderImplies == OrderInvariant => SortedUnlessOvertaken
<1> SUFFICES ASSUME OrderInvariant, unheard = {}, ~scrambled,
                    NEW i \in DOMAIN list.order, NEW j \in DOMAIN list.order, i < j
             PROVE  ~Before(stage, list.incomplete, list.order[j], list.order[i])
  BY DEF SortedUnlessOvertaken
<1>1. InOrder(stage, list.incomplete, list.order, {})
  BY DEF OrderInvariant
<1> QED
  BY <1>1 DEF InOrder, May

\* Pages p and q have the values they had, and compare by them as they did.
Unmoved(st, p, q) ==
  /\ facts'.key[p] = facts.key[p] /\ facts'.key[q] = facts.key[q]
  /\ Alike(facts.key, facts'.key, st.order, p, q)

\* An order that held before holds after, for pages that it saw no change of.
LEMMA OrderCarries ==
  ASSUME NEW st, StageSound(st), stage' = st, NEW inc, NEW others,
         InOrder(st, inc, list'.order, others),
         \A p \in Range(list'.order) : p \notin unheard' =>
           /\ p \notin others
           /\ p \in list'.incomplete <=> p \in inc,
         \A p, q \in Range(list'.order) : p \notin unheard' /\ q \notin unheard' =>
           Unmoved(st, p, q)
  PROVE  InOrder(stage, list.incomplete, list.order, unheard)'
<1> SUFFICES ASSUME NEW i \in DOMAIN list'.order, NEW j \in DOMAIN list'.order, i < j,
                    list'.order[i] \notin unheard', list'.order[j] \notin unheard'
             PROVE  May(stage, list.incomplete, list.order[i], list.order[j])'
  BY DEF InOrder
<1>1. PICK p, q : p = list'.order[i] /\ q = list'.order[j]
  OBVIOUS
<1>2. p \in Range(list'.order) /\ q \in Range(list'.order)
  BY <1>1 DEF Range
<1>3. May(st, inc, p, q)
  BY <1>1, <1>2 DEF InOrder
<1>4. /\ (p \in list'.incomplete) = (p \in inc)
      /\ (q \in list'.incomplete) = (q \in inc)
      /\ Unmoved(st, p, q)
  BY <1>1, <1>2
<1>5. CASE st.order = "deviation"
  <2>1. /\ Deviation(facts'.key, p) > Deviation(facts'.key, q)
             <=> Deviation(facts.key, p) > Deviation(facts.key, q)
        /\ Deviation(facts'.key, q) > Deviation(facts'.key, p)
             <=> Deviation(facts.key, q) > Deviation(facts.key, p)
    BY <1>4, <1>5 DEF Unmoved, Alike, Rank
  <2> QED
    BY <1>1, <1>3, <1>4, <1>5, <2>1 DEF May, Before, Precedes, ByOrder, Natural
<1>6. CASE st.order \in {"width", "split", "completeness"}
  <2>1. facts'.key[p] = facts.key[p] /\ facts'.key[q] = facts.key[q]
    BY <1>4 DEF Unmoved
  <2>2. \A x, y \in {p, q} :
          ByOrder(st.order, x, x \in list.incomplete, y, y \in list.incomplete)'
            <=> ByOrder(st.order, x, x \in inc, y, y \in inc)
    <3> SUFFICES ASSUME NEW x \in {p, q}, NEW y \in {p, q}
                 PROVE  ByOrder(st.order, x, x \in list.incomplete, y, y \in list.incomplete)'
                          <=> ByOrder(st.order, x, x \in inc, y, y \in inc)
      OBVIOUS
    <3>1. /\ facts'.key[x] = facts.key[x] /\ (x \in list'.incomplete) = (x \in inc)
          /\ facts'.key[y] = facts.key[y] /\ (y \in list'.incomplete) = (y \in inc)
      BY <1>4, <2>1
    <3>2. CASE st.order = "width"
      <4> DEFINE wide(z) == z \notin inc /\ facts.key[z] # Unknown
      <4>1. ByOrder(st.order, x, x \in inc, y, y \in inc)
              <=> IF wide(x) # wide(y) THEN wide(x) ELSE facts.key[x] < facts.key[y]
        BY <3>2 DEF ByOrder, Measured
      <4> DEFINE newer(z) == z \notin list'.incomplete /\ facts'.key[z] # Unknown
      <4>2. ByOrder(st.order, x, x \in list.incomplete, y, y \in list.incomplete)'
              <=> IF newer(x) # newer(y) THEN newer(x) ELSE facts'.key[x] < facts'.key[y]
        BY <3>2 DEF ByOrder, Measured
      <4>3. newer(x) = wide(x) /\ newer(y) = wide(y)
        BY <3>1
      <4> HIDE DEF newer, wide
      <4> QED BY <3>1, <4>1, <4>2, <4>3
    <3>3. CASE st.order = "split"
      BY <3>1, <3>3 DEF ByOrder
    <3>4. CASE st.order = "completeness"
      BY <3>1, <3>4 DEF ByOrder
    <3> QED BY <1>6, <3>2, <3>3, <3>4
  <2> DEFINE new(x, y) == ByOrder(st.order, x, x \in list.incomplete, y, y \in list.incomplete)'
             old(x, y) == ByOrder(st.order, x, x \in inc, y, y \in inc)
  <2>3. /\ Before(stage, list.incomplete, q, p)'
             <=> /\ st.order # "natural"
                 /\ IF st.reversed THEN new(p, q) ELSE new(q, p)
                 /\ ~IF st.reversed THEN new(q, p) ELSE new(p, q)
        /\ Before(st, inc, q, p)
             <=> /\ st.order # "natural"
                 /\ IF st.reversed THEN old(p, q) ELSE old(q, p)
                 /\ ~IF st.reversed THEN old(q, p) ELSE old(p, q)
    BY DEF Before, Precedes, Natural
  <2>4. /\ new(p, q) <=> old(p, q)
        /\ new(q, p) <=> old(q, p)
    BY <2>2
  <2> HIDE DEF new, old
  <2> QED
    BY <1>1, <1>3, <2>3, <2>4 DEF May
<1>7. CASE st.order = "natural"
  BY <1>7 DEF May, Before, Natural
<1> QED
  BY <1>5, <1>6, <1>7 DEF StageSound, Orders

\* Pages that are brought into order afresh.
LEMMA FreshOrder ==
  ASSUME NEW st, StageSound(st), FactsTyped, stage' = st, facts' = facts,
         Range(list'.order) \subseteq Listable(st),
         InOrder(st, list'.incomplete, list'.order, {})
  PROVE  OrderInvariant'
<1>1. InOrder(stage, list.incomplete, list.order, unheard)'
  <2> DEFINE none == {}
             inc == list'.incomplete
  <2>1. InOrder(st, inc, list'.order, none)
    OBVIOUS
  <2>2. \A p \in Range(list'.order) : p \notin unheard' =>
          /\ p \notin none
          /\ p \in list'.incomplete <=> p \in inc
    OBVIOUS
  <2>4. \A p, q \in Range(list'.order) : Unmoved(st, p, q)
    BY DEF Unmoved, Alike
  <2> HIDE DEF none, inc
  <2> QED BY <2>1, <2>2, <2>4, OrderCarries
<1> QED
  BY <1>1 DEF OrderInvariant, FactsTyped

\* Pages that stay as they are, or go.
LEMMA OrderStays ==
  ASSUME OrderInvariant, stage' = stage, facts' = facts, scrambled' = scrambled,
         Range(list'.order) \subseteq Range(list.order),
         InOrder(stage, list.incomplete, list.order, unheard) =>
           InOrder(stage, list.incomplete, list'.order, unheard),
         \A p \in Range(list'.order) : /\ p \in list'.incomplete <=> p \in list.incomplete
                                       /\ p \in unheard <=> p \in unheard'
  PROVE  OrderInvariant'
<1>1. ASSUME ~scrambled PROVE InOrder(stage, list.incomplete, list.order, unheard)'
  <2> DEFINE inc == list.incomplete
             others == unheard
  <2>1. InOrder(stage, inc, list'.order, others)
    BY <1>1 DEF OrderInvariant
  <2>2. \A p \in Range(list'.order) : p \notin unheard' =>
          /\ p \notin others
          /\ p \in list'.incomplete <=> p \in inc
    OBVIOUS
  <2>4. \A p, q \in Range(list'.order) : Unmoved(stage, p, q)
    BY DEF Unmoved, Alike
  <2>3. StageSound(stage)
    BY DEF OrderInvariant
  <2> HIDE DEF inc, others
  <2> QED BY <2>1, <2>2, <2>3, <2>4, OrderCarries
<1> QED
  BY <1>1 DEF OrderInvariant, FactsTyped

LEMMA ClickOrders ==
  ASSUME SelectionInvariant, OrderInvariant, NEW p, NEW how \in {"plain", "shift", "ctrl"},
         Click(p, how)
  PROVE  OrderInvariant'
<1>1. /\ WellMade(list) /\ p \in Range(list.order) /\ list \in ListType
      /\ Has(list)
  BY ListFacts DEF SelectionInvariant, Click, Listed, WellMade, ListType, Has
<1>2. list'.order = list.order /\ list'.incomplete = list.incomplete
  <2>1. CASE how = "plain"
    <3>1. list' = SelectNoModifiers(list, p)
      BY <2>1 DEF Click
    <3> QED BY <1>1, <3>1, SelectNoModifiersMade, SelectNoModifiersSame DEF Same
  <2>2. CASE how = "shift"
    <3>1. list' = SelectWithShift(list, p)
      BY <2>2 DEF Click
    <3> QED BY <1>1, <3>1, SelectWithShiftMade, SelectWithShiftSame DEF Same
  <2>3. CASE how = "ctrl"
    <3>1. list' = SelectWithControl(list, p)
      BY <2>3 DEF Click
    <3> QED BY <1>1, <3>1, SelectWithControlMade, SelectWithControlSame DEF Same
  <2> QED BY <2>1, <2>2, <2>3
<1> QED
  BY <1>2, OrderStays DEF Click

LEMMA GoToPageOrders ==
  ASSUME SelectionInvariant, OrderInvariant, NEW p, NEW keep \in BOOLEAN, GoToPage(p, keep)
  PROVE  OrderInvariant'
<1>1. /\ WellMade(list) /\ p \in Range(list.order) /\ Has(list)
      /\ list' = SetSelection(list, p, keep)
  BY ListFacts DEF SelectionInvariant, GoToPage, Listed, WellMade, ListType, Has
<1>2. list'.incomplete = list.incomplete
  BY <1>1, SetSelectionSame DEF Same
<1>3. list'.order = list.order
  <2>1. CASE keep = TRUE
    <3>1. /\ WellMade(SetSelection(list, p, TRUE)) /\ SetSelection(list, p, TRUE).leader = p
          /\ SetSelection(list, p, TRUE).order = list.order
      BY <1>1, SelectionKeptMade
    <3> QED BY <1>1, <2>1, <3>1
  <2>2. CASE keep = FALSE
    <3>1. /\ WellMade(SetSelection(list, p, FALSE)) /\ SetSelection(list, p, FALSE).leader = p
          /\ SetSelection(list, p, FALSE).order = list.order
          /\ SetSelection(list, p, FALSE).selected = {p}
      BY <1>1, SelectionSetMade
    <3> QED BY <1>1, <2>2, <3>1
  <2> QED BY <2>1, <2>2
<1> QED
  BY <1>2, <1>3, OrderStays DEF GoToPage

LEMMA RearrangeOrders ==
  ASSUME SelectionInvariant, OrderInvariant, NEW st, StageSound(st), Rearrange(st)
  PROVE  OrderInvariant'
<1> DEFINE pages == PageSequence(project, st)
           keep == TRUE
           m == Reset(list, pages, keep, st)
<1>1. /\ pages \in Seq(Pages) /\ Range(pages) \subseteq Listable(st) /\ IsInjective(pages)
  BY PagesListable, PageSequenceFacts DEF SelectionInvariant
<1>2. list' = m /\ stage' = st /\ facts' = facts
  BY DEF Rearrange
<1> HIDE DEF pages, keep
<1>3. InOrder(st, m.incomplete, m.order, {})
  BY <1>1, ResetInOrder DEF OrderInvariant
<1>4. Range(m.order) = Range(pages)
  <2>1. /\ WellMade(Reset(list, pages, keep, st))
        /\ Range(Reset(list, pages, keep, st).order) = Range(pages)
        /\ Reset(list, pages, keep, st).selected = SelectedAgain(list, pages, keep)
        /\ list.leader \in SelectedAgain(list, pages, keep)
             => Reset(list, pages, keep, st).leader = list.leader
        /\ OfImage(SelectedAgain(list, pages, keep), list.leader)
             => Reset(list, pages, keep, st).leader[1] = list.leader[1]
    BY <1>1, ResetMade
  <2> QED BY <2>1
<1> HIDE DEF m
<1> QED
  BY <1>1, <1>2, <1>3, <1>4, FreshOrder DEF OrderInvariant

LEMMA StopBatchOrders ==
  ASSUME SelectionInvariant, OrderInvariant, NEW p, StopBatchProcessing(p)
  PROVE  OrderInvariant'
<1> DEFINE pages == PageSequence(project, stage)
           keep == FALSE
           l == Reset(list, pages, keep, stage)
<1>1. /\ pages \in Seq(Pages) /\ Range(pages) \subseteq Listable(stage) /\ IsInjective(pages)
  BY PagesListable, PageSequenceFacts DEF SelectionInvariant
<1>2. PICK before :
        LET at == Restored(l, GetCurrent(before, stage.view))
        IN list' = IF at = NoPage THEN l ELSE SetSelection(l, at, FALSE)
  BY DEF StopBatchProcessing
<1>3. stage' = stage /\ facts' = facts
  BY DEF StopBatchProcessing
<1> HIDE DEF pages, keep
<1>4. InOrder(stage, l.incomplete, l.order, {})
  BY <1>1, ResetInOrder DEF OrderInvariant
<1>5. WellMade(l) /\ Range(l.order) = Range(pages)
  <2>1. /\ WellMade(Reset(list, pages, keep, stage))
        /\ Range(Reset(list, pages, keep, stage).order) = Range(pages)
        /\ Reset(list, pages, keep, stage).selected = SelectedAgain(list, pages, keep)
        /\ list.leader \in SelectedAgain(list, pages, keep)
             => Reset(list, pages, keep, stage).leader = list.leader
        /\ OfImage(SelectedAgain(list, pages, keep), list.leader)
             => Reset(list, pages, keep, stage).leader[1] = list.leader[1]
    BY <1>1, ResetMade
  <2> QED BY <2>1
<1> DEFINE shown == GetCurrent(before, stage.view)
           at == Restored(l, shown)
<1> HIDE DEF l
<1>6. list' = IF at = NoPage THEN l ELSE SetSelection(l, at, FALSE)
  BY <1>2
<1>7. at = NoPage \/ at \in Range(l.order)
  <2> HIDE DEF shown
  <2> QED BY <1>5, RestoredFacts
<1> HIDE DEF at
<1>8. list'.order = l.order /\ list'.incomplete = l.incomplete
  <2>1. CASE at = NoPage
    BY <1>6, <2>1
  <2>2. CASE at # NoPage
    <3> DEFINE no == FALSE
    <3>1. /\ WellMade(SetSelection(l, at, FALSE)) /\ SetSelection(l, at, FALSE).leader = at
          /\ SetSelection(l, at, FALSE).order = l.order
          /\ SetSelection(l, at, FALSE).selected = {at}
      BY <1>5, <1>7, <2>2, SelectionSetMade
    <3>2. Has(l)
      BY <1>5, ListFacts DEF WellMade, ListType, Has
    <3>3. list' = SetSelection(l, at, no)
      BY <1>6, <2>2
    <3> HIDE DEF no
    <3>4. Same(SetSelection(l, at, no), l)
      BY <3>2, SetSelectionSame
    <3> QED BY <3>1, <3>3, <3>4 DEF Same, no
  <2> QED BY <2>1, <2>2
<1> QED
  BY <1>1, <1>3, <1>4, <1>5, <1>8, FreshOrder DEF OrderInvariant

LEMMA ChangePageOrders ==
  ASSUME OrderInvariant, NEW p \in Pages, ChangePage(p)
  PROVE  OrderInvariant'
<1>1. /\ list' = list /\ stage' = stage /\ scrambled' = scrambled
      /\ unheard \subseteq unheard'
  BY DEF ChangePage
<1>2. facts \in [key : KeysOfPages, complete : SUBSET Pages]
  BY DEF OrderInvariant, FactsTyped
<1>3. FactsTyped'
  <2>1. ASSUME NEW k \in Keys \cup {Unknown}, facts' = [facts EXCEPT !.key[p] = k]
        PROVE  FactsTyped'
    <3>1. k \in Nat \cup {Unknown}
      BY SequenceAssumption
    <3> DEFINE key == [facts.key EXCEPT ![p] = k]
    <3>2. key \in KeysOfPages
      BY <1>2, <3>1 DEF KeysOfPages
    <3>3. facts' = [facts EXCEPT !.key = key]
      BY <1>2, <2>1
    <3> HIDE DEF key
    <3>4. facts' \in [key : KeysOfPages, complete : SUBSET Pages]
      BY <1>2, <3>2, <3>3
    <3> QED BY <3>4 DEF FactsTyped
  <2>2. ASSUME NEW c \in SUBSET Pages, facts' = [facts EXCEPT !.complete = c]
        PROVE  FactsTyped'
    BY <1>2, <2>2 DEF FactsTyped
  <2> DEFINE c == IF p \in facts.complete THEN facts.complete \ {p}
                  ELSE facts.complete \cup {p}
  <2>3. c \in SUBSET Pages
    BY <1>2
  <2>4. \/ \E k \in Keys \cup {Unknown} : facts' = [facts EXCEPT !.key[p] = k]
        \/ facts' = [facts EXCEPT !.complete = c]
    BY DEF ChangePage
  <2> HIDE DEF c
  <2> QED BY <2>1, <2>2, <2>3, <2>4
<1>5. \A q, r \in Range(list.order) : q \notin unheard' /\ r \notin unheard' =>
        Unmoved(stage, q, r)
  <2> SUFFICES ASSUME NEW q \in Range(list.order), NEW r \in Range(list.order),
                      q \notin unheard', r \notin unheard'
               PROVE  Unmoved(stage, q, r)
    OBVIOUS
  <2> DEFINE others == Listed \ {p}
  <2>1. unheard' = unheard \cup {p} \cup
          {x \in others : \E y \in others : ~Alike(facts.key, facts'.key, stage.order, x, y)}
    BY DEF ChangePage
  <2>2. q \in others /\ r \in others
    BY <2>1 DEF Listed
  <2> HIDE DEF others
  <2>3. Alike(facts.key, facts'.key, stage.order, q, r)
    BY <2>1, <2>2
  <2>4. q \in Pages /\ r \in Pages /\ q # p /\ r # p
    BY <2>1 DEF OrderInvariant, Listable
  <2>5. facts'.key[q] = facts.key[q] /\ facts'.key[r] = facts.key[r]
    BY <1>2, <2>4 DEF ChangePage, KeysOfPages
  <2> QED BY <2>3, <2>5 DEF Unmoved
<1>4. ASSUME ~scrambled PROVE InOrder(stage, list.incomplete, list.order, unheard)'
  <2> DEFINE st == stage
             inc == list.incomplete
             others == unheard
  <2>1. InOrder(st, inc, list'.order, others)
    BY <1>1, <1>4 DEF OrderInvariant
  <2>2. \A q \in Range(list'.order) : q \notin unheard' =>
          /\ q \notin others
          /\ q \in list'.incomplete <=> q \in inc
    BY <1>1
  <2>3. stage' = st /\ StageSound(st)
    BY <1>1 DEF OrderInvariant
  <2>4. \A q, r \in Range(list'.order) : q \notin unheard' /\ r \notin unheard' =>
          Unmoved(st, q, r)
    BY <1>1, <1>5
  <2> HIDE DEF st, inc, others
  <2> QED BY <2>1, <2>2, <2>3, <2>4, OrderCarries
<1> QED
  BY <1>1, <1>3, <1>4 DEF OrderInvariant

LEMMA InvalidateThumbnailOrders ==
  ASSUME SelectionInvariant, OrderInvariant, NEW p, InvalidateThumbnail(p)
  PROVE  OrderInvariant'
<1>1. /\ WellMade(list) /\ p \in Range(list.order) /\ list' = Invalidated(list, p)
      /\ stage' = stage /\ facts' = facts
      /\ scrambled' = (scrambled \/ unheard \ {p} # {})
  BY DEF SelectionInvariant, InvalidateThumbnail, Listed
<1>2. /\ StageSound(stage) /\ FactsTyped /\ Range(list.order) \subseteq Listable(stage)
  BY DEF OrderInvariant
<1>3. Range(list'.order) \subseteq Listable(stage)
  BY <1>1, <1>2, InvalidatedMade
<1>4. CASE scrambled'
  BY <1>1, <1>2, <1>3, <1>4 DEF OrderInvariant, FactsTyped
<1>5. CASE ~scrambled'
  <2>1. ~scrambled /\ \A q \in unheard : q = p
    BY <1>1, <1>5
  <2>2. InOrder(stage, list.incomplete, list.order, {p})
    BY <2>1 DEF OrderInvariant, InOrder
  <2>3. InOrder(stage, Invalidated(list, p).incomplete, Invalidated(list, p).order, {})
    BY <1>1, <1>2, <2>2, InvalidatedInOrder
  <2> QED BY <1>1, <1>2, <1>3, <2>3, FreshOrder
<1> QED
  BY <1>4, <1>5

LEMMA InvalidateAllThumbnailsOrders ==
  ASSUME SelectionInvariant, OrderInvariant, InvalidateAllThumbnails
  PROVE  OrderInvariant'
<1>1. /\ WellMade(list) /\ list \in ListType /\ list' = AllInvalidated(list, stage)
      /\ stage' = stage /\ facts' = facts
  BY DEF SelectionInvariant, InvalidateAllThumbnails, WellMade, Shaped
<1>2. /\ StageSound(stage) /\ FactsTyped /\ Range(list.order) \subseteq Listable(stage)
  BY DEF OrderInvariant
<1> DEFINE m == AllInvalidated(list, stage)
<1>3. Range(m.order) \subseteq Listable(stage)
  BY <1>1, <1>2, AllInvalidatedMade
<1>4. InOrder(stage, m.incomplete, m.order, {})
  BY <1>1, <1>2, AllInvalidatedInOrder
<1> QED
  BY <1>1, <1>2, <1>3, <1>4, FreshOrder

LEMMA InsertImageOrders ==
  ASSUME SelectionInvariant, OrderInvariant, NEW side \in {"before", "after"}, NEW image,
         NEW halves \in {{}, {"left", "right"}}, InsertImage(side, image, halves)
  PROVE  OrderInvariant'
<1> DEFINE new == [id |-> NewImage, halves |-> halves]
           pages == PagesOf(new, stage.view)
           placed == IF side = "before" THEN Reverse(pages) ELSE pages
           m == InsertAll(list, placed, side, image)
<1>1. /\ WellMade(list) /\ StageSound(stage) /\ FactsTyped
      /\ Range(list.order) \subseteq Listable(stage)
  BY DEF SelectionInvariant, OrderInvariant
<1>2. /\ \A p \in Range(list.order) : p[1] # NewImage
      /\ list' = m /\ stage' = stage /\ facts' = facts /\ unheard' = unheard
      /\ scrambled' = (scrambled \/ unheard # {} \/ Range(pages) \cap facts.complete # {})
  BY DEF InsertImage, Listed
<1>3. new \in ImageRecords /\ new.id = NewImage
  <2>1. NewImage \in ImageIds /\ halves \in SUBSET {"left", "right"}
    BY DEF ImageIds
  <2> QED BY <2>1 DEF ImageRecords
<1> HIDE DEF new
<1>4. /\ pages \in Seq(Pages) /\ IsInjective(pages)
      /\ Range(pages) = ListedOf(new, stage.view)
  BY <1>3, PagesOfFacts
<1>5. /\ Range(pages) # {} /\ Range(pages) \subseteq Listable(stage)
      /\ \A p \in Range(pages) : p[1] = NewImage
  <2>1. /\ SubPagesOf(new, stage.view) # {}
        /\ stage.view = "image" => SubPagesOf(new, stage.view) = {"single"}
    BY DEF SubPagesOf
  <2>2. PICK h : h \in SubPagesOf(new, stage.view)
    BY <2>1
  <2>3. <<new.id, h>> \in Range(pages)
    BY <1>4, <2>2 DEF ListedOf
  <2>4. ASSUME NEW p \in Range(pages)
        PROVE  p \in Listable(stage) /\ p[1] = NewImage
    <3>1. p \in Pages
      BY <1>4, RangeOfSeq
    <3>2. p[1] = NewImage /\ p[2] \in SubPagesOf(new, stage.view)
      BY <1>3, <1>4 DEF ListedOf
    <3> QED BY <2>1, <3>1, <3>2 DEF Listable
  <2> QED BY <2>3, <2>4
<1> HIDE DEF pages
<1>6. placed \in Seq(Pages) /\ IsInjective(placed) /\ Range(placed) = Range(pages)
  BY <1>4, ReverseFacts
<1> HIDE DEF placed
<1>7. Range(placed) # {} /\ Range(placed) \cap Range(list.order) = {}
  BY <1>2, <1>5, <1>6
<1>8. Range(m.order) \subseteq Listable(stage)
  <2>1. /\ WellMade(InsertAll(list, placed, side, image))
        /\ InsertAll(list, placed, side, image).leader = list.leader
        /\ InsertAll(list, placed, side, image).selected = list.selected
        /\ Range(InsertAll(list, placed, side, image).order)
             \subseteq Range(list.order) \cup Range(placed)
    BY <1>1, <1>6, <1>7, InsertAllMade
  <2> QED BY <1>1, <1>5, <1>6, <2>1
<1>9. CASE scrambled'
  <2> HIDE DEF m
  <2> QED BY <1>1, <1>2, <1>8, <1>9 DEF OrderInvariant, FactsTyped
<1>10. CASE ~scrambled'
  <2>1. ~scrambled /\ unheard = {} /\ Range(placed) \cap facts.complete = {}
    BY <1>2, <1>6, <1>10
  <2>2. InOrder(stage, list.incomplete, list.order, {})
    BY <2>1 DEF OrderInvariant
  <2>3. Range(placed) \subseteq Listable(stage)
    BY <1>5, <1>6
  <2>4. InOrder(stage, m.incomplete, m.order, {})
    BY <1>1, <1>6, <1>7, <2>1, <2>2, <2>3, InsertAllInOrder
  <2> HIDE DEF m
  <2> QED BY <1>1, <1>2, <1>8, <2>4, FreshOrder
<1> QED
  BY <1>9, <1>10

LEMMA RemoveFromProjectOrders ==
  ASSUME SelectionInvariant, OrderInvariant, RemoveFromProject
  PROVE  OrderInvariant'
<1> DEFINE pages == SelectedItems(list)
           next == SelectedInstead(pages)
           kept == Range(list.order) \ pages
<1>1. /\ WellMade(list) /\ list \in ListType /\ list.order \in Seq(Pages)
      /\ pages = list.selected /\ pages # {} /\ pages \subseteq Range(list.order)
  BY InvariantFacts, ListFacts DEF SelectionInvariant, WellMade, RemoveFromProject
<1>2. /\ stage' = stage /\ facts' = facts /\ scrambled' = scrambled
      /\ unheard' = unheard \ pages
      /\ \/ /\ next # NoPage
            /\ list' = WithoutItems(SetSelection(list, next, FALSE), pages)
         \/ list' = WithoutItems(list, pages)
  BY DEF RemoveFromProject
<1> HIDE DEF pages
<1>3. next = NoPage \/ next \in Range(list.order) \ pages
  BY <1>1, SelectedInsteadFacts
<1> HIDE DEF next
<1>4. PICK l \in ListType :
        /\ l.order = list.order /\ l.incomplete = list.incomplete
        /\ list' = WithoutItems(l, pages)
  <2>1. CASE next # NoPage /\ list' = WithoutItems(SetSelection(list, next, FALSE), pages)
    <3> DEFINE no == FALSE
               m == SetSelection(list, next, no)
    <3>1. next \in Range(list.order)
      BY <1>3, <2>1
    <3>2. /\ WellMade(SetSelection(list, next, FALSE))
          /\ SetSelection(list, next, FALSE).leader = next
          /\ SetSelection(list, next, FALSE).order = list.order
          /\ SetSelection(list, next, FALSE).selected = {next}
      BY <1>1, <3>1, SelectionSetMade
    <3>3. WellMade(m) /\ m.order = list.order /\ list' = WithoutItems(m, pages)
      BY <2>1, <3>2
    <3> HIDE DEF no
    <3>4. Has(list)
      BY <1>1 DEF ListType, Has
    <3>5. Same(SetSelection(list, next, no), list)
      BY <3>4, SetSelectionSame
    <3> HIDE DEF m
    <3>6. m \in ListType /\ m.incomplete = list.incomplete
      BY <3>3, <3>5, ListFacts DEF WellMade, Same, m
    <3> QED BY <3>3, <3>6
  <2>2. CASE list' = WithoutItems(list, pages)
    BY <1>1, <2>2
  <2> QED BY <1>2, <2>1, <2>2
<1>5. /\ list'.order = Except(list.order, pages)
      /\ list'.incomplete = list.incomplete \ pages
  BY <1>4 DEF WithoutItems, ListType
<1>6. Range(list'.order) = kept
  <2>1. /\ Except(list.order, pages) \in Seq(Pages)
        /\ Range(Except(list.order, pages)) = Range(list.order) \ pages
        /\ IsInjective(list.order) => IsInjective(Except(list.order, pages))
    BY <1>1, ExceptFacts
  <2> QED BY <1>5, <2>1
<1>7. InOrder(stage, list.incomplete, list.order, unheard) =>
        InOrder(stage, list.incomplete, list'.order, unheard)
  <2> SUFFICES ASSUME InOrder(stage, list.incomplete, list.order, unheard)
               PROVE  InOrder(stage, list.incomplete, list'.order, unheard)
    OBVIOUS
  <2>1. InOrder(stage, list.incomplete, Among(list.order, kept), unheard)
    BY <1>1, AmongInOrder
  <2> QED BY <1>5, <2>1 DEF Except
<1>8. \A p \in Range(list'.order) : /\ p \in list'.incomplete <=> p \in list.incomplete
                                    /\ p \in unheard <=> p \in unheard'
  BY <1>2, <1>5, <1>6
<1> QED
  BY <1>2, <1>6, <1>7, <1>8, OrderStays

LEMMA InitOrders == Init => OrderInvariant
<1> SUFFICES ASSUME Init PROVE OrderInvariant
  OBVIOUS
<1>1. /\ stage = [view |-> "image", order |-> "natural", reversed |-> FALSE]
      /\ \E key \in Saved : facts = [key |-> key, complete |-> Known(key)]
      /\ list = Opened(project, stage)
  BY DEF Init
<1>2. StageSound(stage) /\ Natural(stage)
  BY <1>1 DEF StageSound, Orders, Natural
<1>3. FactsTyped
  <2>1. PICK key \in Saved : facts = [key |-> key, complete |-> Known(key)]
    BY <1>1
  <2>2. key \in KeysOfPages
    BY SequenceAssumption DEF KeysOfPages
  <2>3. Known(key) \in SUBSET Pages
    BY DEF Known
  <2> QED BY <2>1, <2>2, <2>3 DEF FactsTyped
<1>4. ProjectSound(project)
  BY InitMakes DEF SelectionInvariant
<1>5. Range(list.order) = PagesIn(project, stage.view)
  BY <1>1, <1>4, OpenedMade
<1>6. Range(list.order) \subseteq Listable(stage)
  BY <1>4, <1>5, PagesListable, PageSequenceFacts
<1>7. InOrder(stage, list.incomplete, list.order, unheard)
  BY <1>2, NaturalInOrder
<1> QED
  BY <1>2, <1>3, <1>6, <1>7 DEF OrderInvariant

LEMMA NextOrders ==
  ASSUME SelectionInvariant, OrderInvariant, [Next]_vars
  PROVE  OrderInvariant'
<1>1. CASE UNCHANGED vars
  BY <1>1, OrderStays DEF vars
<1>2. ASSUME NEW p, NEW how \in {"plain", "shift", "ctrl"}, Click(p, how)
      PROVE  OrderInvariant'
  BY <1>2, ClickOrders
<1>3. ASSUME NEW p, NEW keep \in BOOLEAN, GoToPage(p, keep)
      PROVE  OrderInvariant'
  BY <1>3, GoToPageOrders
<1>4. ASSUME NEW p, StopBatchProcessing(p) PROVE OrderInvariant'
  BY <1>4, StopBatchOrders
<1>5. ASSUME NEW p, ChangePage(p) PROVE OrderInvariant'
  <2>1. p \in Pages
    BY <1>5 DEF ChangePage, Listed, OrderInvariant, Listable
  <2> QED BY <1>5, <2>1, ChangePageOrders
<1>6. ASSUME NEW p, InvalidateThumbnail(p) PROVE OrderInvariant'
  BY <1>6, InvalidateThumbnailOrders
<1>7. ASSUME NEW st, StageSound(st), Rearrange(st) PROVE OrderInvariant'
  BY <1>7, RearrangeOrders
<1>8. CASE InvalidateAllThumbnails
  BY <1>8, InvalidateAllThumbnailsOrders
<1>9. CASE RemoveFromProject
  BY <1>9, RemoveFromProjectOrders
<1>10. ASSUME NEW i \in DOMAIN project, SplitImage(i) PROVE OrderInvariant'
  BY <1>10, OrderStays DEF SplitImage
<1>11. ASSUME NEW side \in {"before", "after"}, NEW image,
              NEW halves \in {{}, {"left", "right"}}, InsertImage(side, image, halves)
       PROVE  OrderInvariant'
  BY <1>11, InsertImageOrders
<1>12. stage \in [view : {"image", "page"}, order : Orders, reversed : BOOLEAN]
  BY DEF OrderInvariant, StageSound
<1>13. CASE SwitchStage
  <2>1. PICK view \in {"image", "page"} :
          \E order \in (IF view = "image" THEN {"natural", "split"}
                        ELSE {"natural", "width", "deviation", "completeness"}) :
            Rearrange([stage EXCEPT !.view = view, !.order = order])
    BY <1>13 DEF SwitchStage
  <2>2. PICK order \in Orders :
          /\ order = "split" => view = "image"
          /\ Rearrange([stage EXCEPT !.view = view, !.order = order])
    BY <2>1 DEF Orders
  <2>3. StageSound([stage EXCEPT !.view = view, !.order = order])
    BY <1>12, <2>2 DEF StageSound
  <2> QED BY <1>7, <2>2, <2>3
<1>14. CASE PageOrderingChanged
  <2>1. PICK order \in (IF stage.view = "image" THEN {"natural", "split"}
                       ELSE {"natural", "width", "deviation", "completeness"}),
             reversed \in BOOLEAN :
          Rearrange([stage EXCEPT !.order = order, !.reversed = reversed])
    BY <1>14 DEF PageOrderingChanged
  <2>2. order \in Orders /\ (order = "split" => stage.view = "image")
    BY DEF Orders
  <2>3. StageSound([stage EXCEPT !.order = order, !.reversed = reversed])
    BY <1>12, <2>2 DEF StageSound
  <2> QED BY <1>7, <2>1, <2>3
<1> QED
  BY <1>1, <1>2, <1>3, <1>4, <1>5, <1>6, <1>8, <1>9, <1>10, <1>11, <1>13, <1>14 DEF Next

\* When the list has heard of every change it is in order, whatever has been
\* selected, inserted or removed meanwhile; but for what SortedUnlessOvertaken
\* excepts.
THEOREM AlwaysInOrder == Spec => []SortedUnlessOvertaken
<1> DEFINE Both == SelectionInvariant /\ OrderInvariant
<1>1. Init => Both
  BY InitMakes, InitOrders
<1>2. Both /\ [Next]_vars => Both'
  BY NextKeeps, NextOrders
<1>3. Both => SortedUnlessOvertaken
  BY OrderImplies
<1> QED
  BY <1>1, <1>2, <1>3, PTL DEF Spec
==============================================================================
