------------------------ MODULE ArchiveExportProofs ------------------------
(***************************************************************************)
(* Proofs about ArchiveExport for any archive and any request: an export   *)
(* that came to its end holds exactly the window that was asked for, and   *)
(* its times go on from file to file.                                      *)
(*                                                                         *)
(* There are two halves.  What send reads is SentInv: the muxer has got    *)
(* the window of the files chosen, as far as they are read, from its first *)
(* key frame on.  What files chooses is FilesGiveWindow: a recording that  *)
(* it leaves out is lost or has no packet in the window, and sortPath      *)
(* leaves what it takes as it is.                                          *)
(***************************************************************************)
EXTENDS ArchiveExport, WellFoundedInduction, TLAPS

-----------------------------------------------------------------------------
(* The recursive functions of ArchiveFiles.  The library's induction theorems *)
(* take an operator; the lemmas here take a set.                              *)

\* A set of numbers that is not empty has a least element.
LEMMA LeastNat ==
  ASSUME NEW S, S \subseteq Nat, S # {}
  PROVE  \E m \in S : \A n \in S : m <= n
<1> DEFINE R == OpToRel(<, Nat)
<1>1. IsWellFoundedOn(R, Nat)
  BY NatLessThanWellFounded, Zenon
<1>2. \A m, n \in Nat : <<m, n>> \in R <=> m < n
  BY DEF OpToRel
<1> HIDE DEF R
<1>3. PICK m \in S : \A n \in S : ~(<<n, m>> \in R)
  BY <1>1, WFMin, Zenon
<1>4. \A n \in S : ~(n < m)
  BY <1>2, <1>3
<1> QED BY <1>4

\* Induction over a set of numbers.
LEMMA Induction ==
  ASSUME NEW P, 0 \in P, \A n \in Nat : n \in P => n + 1 \in P
  PROVE  \A n \in Nat : n \in P
<1> DEFINE S == Nat \ P
<1>1. SUFFICES ASSUME S # {} PROVE FALSE
  OBVIOUS
<1>2. PICK n \in S : \A j \in S : n <= j
  <2>1. S \subseteq Nat
    OBVIOUS
  <2> HIDE DEF S
  <2> QED BY <1>1, <2>1, LeastNat
<1>3. n # 0 /\ n - 1 \in Nat /\ n - 1 \notin S
  BY <1>2
<1> QED BY <1>3

\* f unfolds the recursion that begins at base and goes on with step, up to n.
Unfolds(f, X, base, step, n) ==
  /\ f \in [0..n -> X]
  /\ f[0] = base
  /\ \A i \in 1..n : f[i] = step[i][f[i - 1]]

\* Every recursion on the numbers up to n has a solution.
LEMMA Recursion ==
  ASSUME NEW X, NEW base \in X, NEW step \in [Nat -> [X -> X]]
  PROVE  \A n \in Nat : \E f : Unfolds(f, X, base, step, n)
<1> DEFINE P == {n \in Nat : \E f : Unfolds(f, X, base, step, n)}
<1>1. 0 \in P
  <2>1. Unfolds([i \in 0..0 |-> base], X, base, step, 0)
    BY DEF Unfolds
  <2> QED BY <2>1
<1>2. ASSUME NEW n \in Nat, n \in P PROVE n + 1 \in P
  <2>1. PICK f : Unfolds(f, X, base, step, n)
    BY <1>2
  <2> DEFINE g == [i \in 0..n + 1 |-> IF i = n + 1 THEN step[n + 1][f[n]] ELSE f[i]]
  <2>2. Unfolds(g, X, base, step, n + 1)
    <3>1. f \in [0..n -> X] /\ step[n + 1][f[n]] \in X
      BY <2>1 DEF Unfolds
    <3>2. g \in [0..n + 1 -> X] /\ g[0] = base
      BY <2>1, <3>1 DEF Unfolds
    <3>3. ASSUME NEW i \in 1..n + 1
          PROVE  g[i] = step[i][g[i - 1]]
      <4>1. CASE i = n + 1
        <5>1. g[i] = step[n + 1][f[n]] /\ i - 1 = n /\ g[n] = f[n]
          BY <4>1
        <5> QED BY <4>1, <5>1
      <4>2. CASE i # n + 1
        <5>1. i \in 1..n /\ g[i] = f[i] /\ g[i - 1] = f[i - 1]
          BY <4>2
        <5> QED BY <2>1, <5>1 DEF Unfolds
      <4> QED BY <4>1, <4>2
    <3> HIDE DEF g
    <3> QED BY <3>2, <3>3 DEF Unfolds
  <2> QED BY <2>2
<1> HIDE DEF P
<1>3. \A n \in Nat : n \in P
  BY <1>1, <1>2, Induction
<1> QED BY <1>3 DEF P
-----------------------------------------------------------------------------
Sorted(s) == \A i, j \in DOMAIN s : i < j => s[i].start <= s[j].start
Holds(s, f) == \E i \in DOMAIN s : s[i] = f

\* A recording begins at an integer time.
LEMMA StartType == \A f \in Recording : f.start \in Int
  BY DEF Recording, Times

\* A duration is cut by less than a second.
LEMMA DurationCut ==
  ASSUME NEW f \in Recording
  PROVE  /\ f.dur \in Nat /\ f.dur \div Second \in Nat
         /\ FileDuration(f) = (f.dur \div Second) * Second /\ FileDuration(f) \in Nat
         /\ FileDuration(f) <= f.dur /\ f.dur < FileDuration(f) + Second
<1>1. f.dur \in Nat
  BY DEF Recording
<1> DEFINE d == f.dur
           q == d \div Second
<1>2. d \in Nat /\ Second \in Nat /\ Second > 0
  BY <1>1, SecondAssumption
<1> HIDE DEF d
<1>3. q \in Nat /\ q * Second <= d /\ d < q * Second + Second
  BY <1>2
<1>4. q * Second \in Nat
  BY <1>2, <1>3
<1> QED BY <1>1, <1>3, <1>4 DEF FileDuration, d

\* A time of whole seconds.
LEMMA WholeSeconds ==
  ASSUME NEW t \in Times
  PROVE  t \in Int /\ \E n \in Int : t = n * Second
<1>1. t \in Int /\ t % Second = 0 /\ Second \in Nat /\ Second > 0
  BY SecondAssumption DEF Times
<1>2. t \div Second \in Int /\ t = Second * (t \div Second) + (t % Second)
  BY <1>1
<1>3. t = (t \div Second) * Second
  BY <1>1, <1>2
<1> QED BY <1>1, <1>2, <1>3

\* Cut to seconds, a file reaches into a request when a second of it does.
LEMMA CoversASecond ==
  ASSUME NEW f \in Recording, NEW t \in Times
  PROVE  Covers(f, t) <=> f.start + f.dur >= t + Second
<1> DEFINE q == f.dur \div Second
           D == FileDuration(f)
<1>1. q \in Nat /\ D = q * Second /\ D \in Nat /\ f.dur \in Nat /\ D <= f.dur /\ f.dur < D + Second
  BY DurationCut
<1>2. PICK a \in Int : f.start = a * Second
  BY WholeSeconds DEF Recording
<1>3. PICK b \in Int : t = b * Second
  BY WholeSeconds
<1>4. Second \in Nat /\ Second > 0 /\ f.start \in Int /\ t \in Int
  BY SecondAssumption, StartType, WholeSeconds
<1> HIDE DEF q, D
<1>5. f.start + D = (a + q) * Second
  BY <1>1, <1>2, <1>4
<1>6. ASSUME f.start + D > t PROVE f.start + D >= t + Second
  <2>1. a + q > b
    <3> SUFFICES ASSUME a + q <= b PROVE FALSE
      BY <1>1
    <3>1. (a + q) * Second <= b * Second
      BY <1>1, <1>4
    <3> QED BY <1>1, <1>3, <1>4, <1>5, <1>6, <3>1
  <2>2. (a + q) * Second >= (b + 1) * Second
    BY <1>1, <1>4, <2>1
  <2>3. (b + 1) * Second = t + Second
    BY <1>3, <1>4
  <2> QED BY <1>5, <2>2, <2>3
<1>7. f.start + D > t <=> f.start + f.dur >= t + Second
  BY <1>1, <1>4, <1>6
<1> QED BY <1>7 DEF Covers, D

\* Insert puts one recording where it belongs.
LEMMA InsertSorts ==
  ASSUME NEW s \in Seq(Recording), NEW f \in Recording, Sorted(s)
  PROVE  /\ Insert(s, f) \in Seq(Recording)
         /\ Len(Insert(s, f)) = Len(s) + 1
         /\ Sorted(Insert(s, f))
         /\ \A g : Holds(Insert(s, f), g) <=> g = f \/ Holds(s, g)
<1> DEFINE Fits(k) == /\ \A i \in 1..k : s[i].start <= f.start
                      /\ k < Len(s) => s[k + 1].start > f.start
           k == CHOOSE k \in 0..Len(s) : Fits(k)
           r == Insert(s, f)
<1>0. /\ Len(s) \in Nat /\ DOMAIN s = 1..Len(s) /\ f.start \in Int
      /\ \A i \in 1..Len(s) : s[i] \in Recording /\ s[i].start \in Int
  BY StartType
<1>1. \E m \in 0..Len(s) : Fits(m)
  <2> DEFINE S == {i \in 1..Len(s) : s[i].start > f.start}
  <2>1. CASE S = {}
    <3>1. Fits(Len(s))
      BY <1>0, <2>1
    <3> QED BY <1>0, <3>1
  <2>2. CASE S # {}
    <3>1. PICK m \in S : \A i \in S : m <= i
      <4>1. S \subseteq Nat
        OBVIOUS
      <4> HIDE DEF S
      <4> QED BY <2>2, <4>1, LeastNat
    <3>2. Fits(m - 1)
      <4>1. m \in 1..Len(s) /\ s[m].start > f.start
        BY <3>1
      <4>2. \A i \in 1..m - 1 : s[i].start <= f.start
        <5> TAKE i \in 1..m - 1
        <5>1. i \in 1..Len(s) /\ i \notin S
          BY <1>0, <3>1, <4>1
        <5> QED BY <1>0, <5>1
      <4> QED BY <1>0, <4>1, <4>2
    <3> HIDE DEF Fits
    <3> QED BY <1>0, <3>1, <3>2
  <2> QED BY <2>1, <2>2
<1>2. k \in 0..Len(s) /\ Fits(k)
  BY <1>1
<1>3. r = SubSeq(s, 1, k) \o <<f>> \o SubSeq(s, k + 1, Len(s))
  BY DEF Insert
<1> HIDE DEF k, r
<1>4. /\ r \in Seq(Recording) /\ Len(r) = Len(s) + 1
      /\ \A i \in 1..Len(s) + 1 :
           r[i] = IF i <= k THEN s[i] ELSE IF i = k + 1 THEN f ELSE s[i - 1]
  <2> DEFINE a == SubSeq(s, 1, k)
             b == SubSeq(s, k + 1, Len(s))
             c == a \o <<f>>
  <2>1. /\ a \in Seq(Recording) /\ Len(a) = k
        /\ \A i \in 1..k : a[i] = s[i]
    BY <1>0, <1>2
  <2>2. /\ b \in Seq(Recording) /\ Len(b) = Len(s) - k
        /\ \A i \in 1..Len(s) - k : b[i] = s[k + i]
    <3>1. Len(s) \in Nat /\ k \in Nat /\ k <= Len(s) /\ s \in Seq(Recording)
      BY <1>0, <1>2
    <3>2. \A i \in k + 1..Len(s) : s[i] \in Recording
      BY <3>1
    <3>3. b \in Seq(Recording) /\ Len(b) = Len(s) - k
      BY <3>1, <3>2
    <3>4. b = [i \in 1..Len(s) - (k + 1) + 1 |-> s[i + (k + 1) - 1]]
      BY <3>1
    <3>5. \A i \in 1..Len(s) - k : b[i] = s[k + i]
      <4> TAKE i \in 1..Len(s) - k
      <4>1. i \in 1..Len(s) - (k + 1) + 1 /\ i + (k + 1) - 1 = k + i
        BY <3>1
      <4> HIDE DEF b
      <4> QED BY <3>4, <4>1
    <3> QED BY <3>3, <3>5
  <2> HIDE DEF a, b
  <2>3. /\ c \in Seq(Recording) /\ Len(c) = k + 1
        /\ \A i \in 1..k + 1 : c[i] = IF i = k + 1 THEN f ELSE s[i]
    BY <1>2, <2>1
  <2> HIDE DEF c
  <2>4. r = c \o b
    BY <1>3 DEF a, b, c
  <2>5. /\ r \in Seq(Recording) /\ Len(r) = Len(s) + 1
        /\ \A i \in 1..Len(s) + 1 : r[i] = IF i <= k + 1 THEN c[i] ELSE b[i - (k + 1)]
    BY <1>0, <1>2, <2>2, <2>3, <2>4
  <2>6. ASSUME NEW i \in 1..Len(s) + 1
        PROVE  r[i] = IF i <= k THEN s[i] ELSE IF i = k + 1 THEN f ELSE s[i - 1]
    <3>1. CASE i <= k + 1
      BY <1>0, <1>2, <2>3, <2>5, <3>1
    <3>2. CASE i > k + 1
      <4> DEFINE j == i - (k + 1)
      <4>1. j \in 1..Len(s) - k /\ k + j = i - 1
        <5> HIDE DEF Fits
        <5> QED BY <1>0, <1>2, <3>2
      <4>2. r[i] = b[j]
        BY <1>0, <1>2, <2>5, <3>2
      <4>3. b[j] = s[k + j]
        BY <2>2, <4>1
      <4> QED BY <1>0, <1>2, <3>2, <4>1, <4>2, <4>3
    <3> QED BY <1>0, <1>2, <3>1, <3>2
  <2> QED BY <2>5, <2>6
<1>5. Sorted(r)
  <2>1. ASSUME NEW i \in 1..Len(s) + 1, NEW j \in 1..Len(s) + 1, i < j
        PROVE  r[i].start <= r[j].start
    <3>1. \A a, b \in 1..Len(s) : a <= b => s[a].start <= s[b].start
      BY <1>0 DEF Sorted
    <3>2. \A a \in 1..Len(s) : a > k => s[a].start > f.start
      <4> TAKE a \in 1..Len(s)
      <4>1. a > k => k + 1 \in 1..Len(s) /\ k < Len(s)
        BY <1>0, <1>2
      <4>2. k < Len(s) => s[k + 1].start > f.start
        BY <1>2
      <4> HIDE DEF Fits
      <4>3. a > k => s[k + 1].start <= s[a].start
        BY <1>0, <1>2, <3>1, <4>1
      <4>4. \A b \in 1..Len(s) : s[b].start \in Int
        BY <1>0 DEF Recording
      <4>5. f.start \in Int
        BY <1>0
      <4> QED BY <4>1, <4>2, <4>3, <4>4, <4>5
    <3>3. CASE j <= k
      <4>1. i <= k /\ i \in 1..Len(s) /\ j \in 1..Len(s)
        BY <1>0, <1>2, <2>1, <3>3
      <4>2. r[i] = s[i] /\ r[j] = s[j]
        BY <1>4, <3>3, <4>1
      <4> QED BY <2>1, <3>1, <4>1, <4>2
    <3>4. CASE j = k + 1
      <4>1. i <= k /\ i \in 1..Len(s)
        BY <1>0, <1>2, <2>1, <3>4
      <4>2. r[i] = s[i] /\ r[j] = f
        BY <1>2, <1>4, <3>4, <4>1
      <4> QED BY <1>2, <4>1, <4>2
    <3>5. CASE j > k + 1
      <4>1. r[j] = s[j - 1] /\ j - 1 \in 1..Len(s) /\ j - 1 > k
        BY <1>0, <1>2, <1>4, <3>5
      <4>2. CASE i <= k
        <5>1. i \in 1..Len(s) /\ r[i] = s[i] /\ i <= j - 1
          BY <1>0, <1>2, <1>4, <2>1, <4>1, <4>2
        <5> QED BY <3>1, <4>1, <5>1
      <4>3. CASE i = k + 1
        <5>1. r[i] = f /\ s[j - 1].start > f.start /\ s[j - 1].start \in Int
          BY <1>0, <1>2, <1>4, <3>2, <4>1, <4>3
        <5> QED BY <1>0, <4>1, <5>1
      <4>4. CASE i > k + 1
        <5>1. r[i] = s[i - 1] /\ i - 1 \in 1..Len(s) /\ i - 1 <= j - 1
          BY <1>0, <1>2, <1>4, <2>1, <4>4
        <5> QED BY <3>1, <4>1, <5>1
      <4> QED BY <1>0, <1>2, <4>2, <4>3, <4>4
    <3> QED BY <1>0, <1>2, <3>3, <3>4, <3>5
  <2>2. DOMAIN r = 1..Len(s) + 1
    BY <1>4
  <2> QED BY <2>1, <2>2 DEF Sorted
<1>6. ASSUME NEW g
      PROVE  Holds(r, g) <=> g = f \/ Holds(s, g)
  <2>1. k + 1 \in 1..Len(s) + 1 /\ r[k + 1] = f
    BY <1>0, <1>2, <1>4
  <2>2. \A i \in 1..Len(s) : \E j \in 1..Len(s) + 1 : r[j] = s[i]
    <3> TAKE i \in 1..Len(s)
    <3>1. CASE i <= k
      BY <1>0, <1>4, <3>1
    <3>2. CASE i > k
      <4>1. i + 1 \in 1..Len(s) + 1 /\ r[i + 1] = s[i]
        BY <1>0, <1>2, <1>4, <3>2
      <4> QED BY <4>1
    <3> QED BY <1>0, <1>2, <3>1, <3>2
  <2>3. \A i \in 1..Len(s) + 1 : r[i] = f \/ \E j \in 1..Len(s) : s[j] = r[i]
    <3> TAKE i \in 1..Len(s) + 1
    <3>1. CASE i <= k
      BY <1>0, <1>2, <1>4, <3>1
    <3>2. CASE i > k + 1
      <4>1. i - 1 \in 1..Len(s) /\ r[i] = s[i - 1]
        BY <1>0, <1>2, <1>4, <3>2
      <4> QED BY <4>1
    <3>3. CASE i = k + 1
      BY <2>1, <3>3
    <3> QED BY <1>0, <1>2, <3>1, <3>2, <3>3
  <2>4. DOMAIN r = 1..Len(s) + 1
    BY <1>4
  <2> QED BY <1>0, <2>1, <2>2, <2>3, <2>4 DEF Holds
<1> QED BY <1>4, <1>5, <1>6 DEF r

\* sortPath keeps every recording and orders them by time.
LEMMA SortPathSorts ==
  ASSUME NEW s \in Seq(Recording)
  PROVE  /\ sortPath(s) \in Seq(Recording)
         /\ Len(sortPath(s)) = Len(s)
         /\ Sorted(sortPath(s))
         /\ \A g : Holds(sortPath(s), g) <=> Holds(s, g)
<1> DEFINE N == Len(s)
           Solves(f) == f = [n \in 0..N |->
                               IF n = 0 THEN <<>> ELSE Insert(f[n - 1], s[n])]
           h == CHOOSE f : Solves(f)
           X == {t \in Seq(Recording) : Sorted(t)}
<1>0. N \in Nat /\ \A i \in 1..N : s[i] \in Recording
  OBVIOUS
<1>1. Solves(h)
  <2> DEFINE step == [n \in Nat |-> [t \in X |->
                        IF n \in 1..N THEN Insert(t, s[n]) ELSE t]]
  <2>1. step \in [Nat -> [X -> X]]
    <3>1. \A n \in Nat, t \in X : (IF n \in 1..N THEN Insert(t, s[n]) ELSE t) \in X
      BY <1>0, InsertSorts
    <3> HIDE DEF X
    <3> QED BY <3>1
  <2>2. <<>> \in X
    BY DEF Sorted
  <2>3. \A n \in 1..N, t \in X : step[n][t] = Insert(t, s[n])
    BY <1>0
  <2> HIDE DEF step, X
  <2>4. PICK f : Unfolds(f, X, <<>>, step, N)
    BY <1>0, <2>1, <2>2, Recursion
  <2>5. \A i \in 0..N : f[i] = IF i = 0 THEN <<>> ELSE Insert(f[i - 1], s[i])
    <3> TAKE i \in 0..N
    <3>1. i # 0 => f[i - 1] \in X /\ i \in 1..N
      BY <1>0, <2>4 DEF Unfolds
    <3> QED BY <2>3, <2>4, <3>1 DEF Unfolds
  <2>6. Solves(f)
    BY <2>4, <2>5 DEF Unfolds
  <2> QED BY <2>6
<1>2. sortPath(s) = h[N]
  BY DEF sortPath
<1> HIDE DEF h
<1> DEFINE Done(n) == /\ h[n] \in Seq(Recording) /\ Len(h[n]) = n /\ Sorted(h[n])
                      /\ \A g : Holds(h[n], g) <=> \E i \in 1..n : s[i] = g
           P == {n \in Nat : n <= N => Done(n)}
<1>3. 0 \in P
  <2>1. h[0] = <<>>
    BY <1>0, <1>1
  <2>2. Done(0)
    BY <2>1 DEF Sorted, Holds
  <2> QED BY <2>2
<1>4. ASSUME NEW n \in Nat, n \in P PROVE n + 1 \in P
  <2> SUFFICES ASSUME n + 1 <= N PROVE Done(n + 1)
    OBVIOUS
  <2>1. h[n + 1] = Insert(h[n], s[n + 1]) /\ s[n + 1] \in Recording
    BY <1>0, <1>1
  <2>2. Done(n)
    BY <1>0, <1>4
  <2>3. /\ h[n + 1] \in Seq(Recording) /\ Len(h[n + 1]) = n + 1 /\ Sorted(h[n + 1])
        /\ \A g : Holds(h[n + 1], g) <=> g = s[n + 1] \/ Holds(h[n], g)
    <3> HIDE DEF h
    <3>1. h[n] \in Seq(Recording) /\ Sorted(h[n]) /\ Len(h[n]) = n
      BY <2>2
    <3> DEFINE t == h[n]
               f == s[n + 1]
    <3>2. t \in Seq(Recording) /\ Sorted(t) /\ Len(t) = n /\ f \in Recording
      BY <2>1, <3>1
    <3> HIDE DEF t, f
    <3>3. /\ Insert(t, f) \in Seq(Recording) /\ Len(Insert(t, f)) = n + 1
          /\ Sorted(Insert(t, f))
          /\ \A g : Holds(Insert(t, f), g) <=> g = f \/ Holds(t, g)
      BY <3>2, InsertSorts
    <3> QED BY <2>1, <3>3 DEF t, f
  <2>4. \A g : (\E i \in 1..n + 1 : s[i] = g) <=> g = s[n + 1] \/ \E i \in 1..n : s[i] = g
    OBVIOUS
  <2> QED BY <2>2, <2>3, <2>4
<1> HIDE DEF P
<1>5. \A n \in Nat : n \in P
  BY <1>3, <1>4, Induction
<1>6. Done(N)
  <2>1. N \in P
    BY <1>0, <1>5
  <2> HIDE DEF Done, N
  <2> QED BY <1>0, <2>1 DEF P
<1>7. \A g : Holds(s, g) <=> \E i \in 1..N : s[i] = g
  BY DEF Holds
<1> QED BY <1>2, <1>6, <1>7

\* The walk visits recordings.
LEMMA WalkType ==
  ASSUME NEW folders \in Seq(Seq(Recording))
  PROVE  Walk(folders) \in Seq(Recording)
<1> DEFINE N == Len(folders)
           Solves(f) == f = [n \in 0..N |-> IF n = 0 THEN <<>> ELSE f[n - 1] \o folders[n]]
           h == CHOOSE f : Solves(f)
           X == Seq(Recording)
<1>0. N \in Nat /\ \A i \in 1..N : folders[i] \in X
  OBVIOUS
<1>1. Solves(h)
  <2> DEFINE step == [n \in Nat |-> [t \in X |-> IF n \in 1..N THEN t \o folders[n] ELSE t]]
  <2>1. step \in [Nat -> [X -> X]] /\ <<>> \in X
    <3>1. \A n \in Nat, t \in X : (IF n \in 1..N THEN t \o folders[n] ELSE t) \in X
      BY <1>0
    <3>2. <<>> \in X
      OBVIOUS
    <3> HIDE DEF X
    <3> QED BY <3>1, <3>2
  <2> HIDE DEF X
  <2>2. \A n \in 1..N, t \in X : step[n][t] = t \o folders[n]
    <3> HIDE DEF N
    <3>1. 1..N \subseteq Nat
      BY <1>0
    <3> QED BY <3>1
  <2> HIDE DEF step
  <2>3. PICK f : Unfolds(f, X, <<>>, step, N)
    BY <1>0, <2>1, Recursion
  <2>4. \A i \in 0..N : f[i] = IF i = 0 THEN <<>> ELSE f[i - 1] \o folders[i]
    <3> TAKE i \in 0..N
    <3> HIDE DEF N
    <3>1. CASE i = 0
      BY <2>3, <3>1 DEF Unfolds
    <3>2. CASE i # 0
      <4>1. i \in 1..N /\ i - 1 \in 0..N
        BY <1>0, <3>2
      <4>2. f[i - 1] \in X /\ f[i] = step[i][f[i - 1]]
        BY <2>3, <4>1 DEF Unfolds
      <4> QED BY <2>2, <3>2, <4>1, <4>2
    <3> QED BY <3>1, <3>2
  <2>5. Solves(f)
    BY <2>3, <2>4 DEF Unfolds
  <2> QED BY <2>5
<1>2. Walk(folders) = h[N]
  BY DEF Walk
<1> HIDE DEF h
<1> DEFINE P == {n \in Nat : n <= N => h[n] \in X}
<1>3. 0 \in P
  <2>1. h[0] = <<>>
    BY <1>0, <1>1
  <2>2. h[0] \in X
    BY <2>1
  <2> QED BY <2>2
<1>4. ASSUME NEW n \in Nat, n \in P PROVE n + 1 \in P
  <2> SUFFICES ASSUME n + 1 <= N PROVE h[n + 1] \in X
    OBVIOUS
  <2>1. h[n + 1] = h[n] \o folders[n + 1] /\ folders[n + 1] \in X
    <3>1. n + 1 \in 0..N /\ n + 1 \in 1..N /\ n + 1 # 0 /\ (n + 1) - 1 = n
      BY <1>0
    <3> HIDE DEF N
    <3> QED BY <1>0, <1>1, <3>1
  <2>2. h[n] \in X
    BY <1>0, <1>4
  <2> QED BY <2>1, <2>2
<1> HIDE DEF P
<1>5. \A n \in Nat : n \in P
  BY <1>3, <1>4, Induction
<1>6. h[N] \in X
  <2>1. N \in P
    BY <1>0, <1>5
  <2> HIDE DEF N, X
  <2> QED BY <1>0, <2>1 DEF P
<1> QED BY <1>2, <1>6

-----------------------------------------------------------------------------
(* Sequences.                                                              *)

\* Two recursions that begin alike and go on alike are the same.
LEMMA SameTo ==
  ASSUME NEW n \in Nat, NEW f, NEW g, f[0] = g[0],
         \A i \in 1..n : f[i - 1] = g[i - 1] => f[i] = g[i]
  PROVE  \A i \in 0..n : f[i] = g[i]
<1> DEFINE P == {i \in Nat : i <= n => f[i] = g[i]}
<1>1. 0 \in P
  OBVIOUS
<1>2. ASSUME NEW i \in Nat, i \in P PROVE i + 1 \in P
  <2> SUFFICES ASSUME i + 1 <= n PROVE f[i + 1] = g[i + 1]
    OBVIOUS
  <2>1. i + 1 \in 1..n /\ (i + 1) - 1 = i /\ f[i] = g[i]
    BY <1>2
  <2> QED BY <2>1
<1> HIDE DEF P
<1>3. \A i \in Nat : i \in P
  BY <1>1, <1>2, Induction
<1> QED BY <1>3 DEF P

\* The recursion of Kept, unfolded.
KeptTo(h, s, S) ==
  h = [n \in 0..Len(s) |->
         IF n = 0 THEN <<>>
         ELSE IF s[n] \in S THEN Append(h[n - 1], s[n]) ELSE h[n - 1]]

LEMMA KeptUnfolds ==
  ASSUME NEW X, NEW s \in Seq(X), NEW S
  PROVE  \E h : KeptTo(h, s, S) /\ h \in [0..Len(s) -> Seq(X)] /\ Kept(s, S) = h[Len(s)]
<1> DEFINE N == Len(s)
           Y == Seq(X)
           step == [n \in Nat |-> [t \in Y |->
                      IF n \in 1..N /\ s[n] \in S THEN Append(t, s[n]) ELSE t]]
           h == CHOOSE h : KeptTo(h, s, S)
<1>0. N \in Nat /\ \A i \in 1..N : s[i] \in X
  OBVIOUS
<1>1. step \in [Nat -> [Y -> Y]] /\ <<>> \in Y
  <2>1. \A n \in Nat, t \in Y : (IF n \in 1..N /\ s[n] \in S THEN Append(t, s[n]) ELSE t) \in Y
    BY <1>0
  <2>2. <<>> \in Y
    OBVIOUS
  <2> HIDE DEF Y
  <2> QED BY <2>1, <2>2
<1>2. \A n \in 1..N, t \in Y : step[n][t] = IF s[n] \in S THEN Append(t, s[n]) ELSE t
  BY <1>0
<1> HIDE DEF step, Y
<1>3. PICK f : Unfolds(f, Y, <<>>, step, N)
  BY <1>0, <1>1, Recursion
<1>4. \A n \in 0..N : f[n] = IF n = 0 THEN <<>>
                             ELSE IF s[n] \in S THEN Append(f[n - 1], s[n]) ELSE f[n - 1]
  <2> TAKE n \in 0..N
  <2> HIDE DEF N
  <2>1. CASE n = 0
    BY <1>3, <2>1 DEF Unfolds
  <2>2. CASE n # 0
    <3>1. n \in 1..N /\ n - 1 \in 0..N
      BY <1>0, <2>2
    <3>2. f[n - 1] \in Y /\ f[n] = step[n][f[n - 1]]
      BY <1>3, <3>1 DEF Unfolds
    <3> QED BY <1>2, <2>2, <3>1, <3>2
  <2> QED BY <2>1, <2>2
<1>5. KeptTo(f, s, S)
  BY <1>3, <1>4 DEF Unfolds, KeptTo
<1>6. KeptTo(h, s, S)
  BY <1>5
<1>7. Kept(s, S) = h[N]
  BY DEF Kept, KeptTo
<1> HIDE DEF h
<1>8. h \in [0..N -> Y]
  <2>1. \A i \in 0..N : h[i] = f[i]
    <3>1. h[0] = f[0] /\ \A i \in 1..N : h[i - 1] = f[i - 1] => h[i] = f[i]
      <4>1. h[0] = <<>> /\ f[0] = <<>>
        BY <1>0, <1>4, <1>6 DEF KeptTo
      <4>2. ASSUME NEW i \in 1..N, h[i - 1] = f[i - 1] PROVE h[i] = f[i]
        <5>1. i \in 0..N /\ i # 0
          BY <1>0
        <5> QED BY <1>4, <1>6, <4>2, <5>1 DEF KeptTo
      <4> QED BY <4>1, <4>2
    <3>2. N \in Nat
      BY <1>0
    <3> HIDE DEF N
    <3> QED BY <3>1, <3>2, SameTo, SMTT(40)
  <2>2. h = [i \in 0..N |-> h[i]]
    BY <1>6 DEF KeptTo
  <2> QED BY <1>3, <2>1, <2>2 DEF Unfolds
<1> QED BY <1>6, <1>7, <1>8 DEF Y

\* Kept goes through a sequence from its beginning.
LEMMA KeptFacts ==
  ASSUME NEW X, NEW s \in Seq(X), NEW S
  PROVE  Kept(s, S) \in Seq(X) /\ Kept(<<>>, S) = <<>>
<1>1. Kept(s, S) \in Seq(X)
  <2>1. PICK h : KeptTo(h, s, S) /\ h \in [0..Len(s) -> Seq(X)] /\ Kept(s, S) = h[Len(s)]
    BY KeptUnfolds
  <2> QED BY <2>1
<1>2. Kept(<<>>, S) = <<>>
  <2> DEFINE t == <<>>
  <2>1. t \in Seq(X) /\ Len(t) = 0
    OBVIOUS
  <2> HIDE DEF t
  <2>2. PICK h : KeptTo(h, t, S) /\ Kept(t, S) = h[Len(t)]
    BY <2>1, KeptUnfolds
  <2> QED BY <2>1, <2>2 DEF KeptTo, t
<1> QED BY <1>1, <1>2

LEMMA KeptNext ==
  ASSUME NEW X, NEW s \in Seq(X), NEW S, NEW e \in X
  PROVE  Kept(Append(s, e), S) = IF e \in S THEN Append(Kept(s, S), e) ELSE Kept(s, S)
<1> DEFINE t == Append(s, e)
           N == Len(s)
<1>1. /\ t \in Seq(X) /\ Len(t) = N + 1 /\ N \in Nat /\ t[N + 1] = e
      /\ \A i \in 1..N : t[i] = s[i]
  OBVIOUS
<1> HIDE DEF t
<1>2. PICK h : KeptTo(h, s, S) /\ Kept(s, S) = h[Len(s)]
  BY KeptUnfolds
<1>3. PICK g : KeptTo(g, t, S) /\ Kept(t, S) = g[Len(t)]
  BY <1>1, KeptUnfolds
<1> HIDE DEF N
<1>4. h[0] = g[0] /\ \A i \in 1..N : h[i - 1] = g[i - 1] => h[i] = g[i]
  <2>1. h[0] = <<>> /\ g[0] = <<>>
    BY <1>1, <1>2, <1>3 DEF KeptTo, N
  <2>2. ASSUME NEW i \in 1..N, h[i - 1] = g[i - 1] PROVE h[i] = g[i]
    <3>1. i \in 0..Len(s) /\ i \in 0..Len(t) /\ i # 0 /\ t[i] = s[i]
      BY <1>1 DEF N
    <3> QED BY <1>2, <1>3, <2>2, <3>1 DEF KeptTo
  <2> QED BY <2>1, <2>2
<1>5. h[N] = g[N]
  <2>1. N \in Nat /\ N \in 0..N
    BY <1>1
  <2>2. \A i \in 0..N : h[i] = g[i]
    BY <1>4, <2>1, SameTo, ZenonT(60)
  <2> QED BY <2>1, <2>2
<1>6. g[N + 1] = IF e \in S THEN Append(g[N], e) ELSE g[N]
  <2>1. N + 1 \in 0..Len(t) /\ N + 1 # 0 /\ (N + 1) - 1 = N
    BY <1>1
  <2> QED BY <1>1, <1>3, <2>1 DEF KeptTo
<1> QED BY <1>1, <1>2, <1>3, <1>5, <1>6 DEF t, N

\* The recursion of FlattenSeq, unfolded.
FlatTo(h, ss) ==
  h = [i \in 1..Len(ss) |-> IF i = 1 THEN ss[i] ELSE h[i - 1] \o ss[i]]

LEMMA FlatUnfolds ==
  ASSUME NEW X, NEW ss \in Seq(Seq(X)), ss # <<>>
  PROVE  \E h : FlatTo(h, ss) /\ h \in [1..Len(ss) -> Seq(X)] /\ FlattenSeq(ss) = h[Len(ss)]
<1> DEFINE N == Len(ss)
           Y == Seq(X)
           step == [n \in Nat |-> [t \in Y |->
                      IF n = 1 THEN ss[1] ELSE IF n \in 1..N THEN t \o ss[n] ELSE t]]
           h == CHOOSE h : FlatTo(h, ss)
<1>0. N \in Nat /\ N > 0 /\ \A i \in 1..N : ss[i] \in Y
  OBVIOUS
<1>1. step \in [Nat -> [Y -> Y]] /\ <<>> \in Y
  <2>1. \A n \in Nat, t \in Y :
          (IF n = 1 THEN ss[1] ELSE IF n \in 1..N THEN t \o ss[n] ELSE t) \in Y
    <3>1. \A t, u \in Y : t \o u \in Y
      OBVIOUS
    <3>2. ss[1] \in Y
      BY <1>0
    <3> HIDE DEF Y, N
    <3> QED BY <1>0, <3>1, <3>2
  <2>2. <<>> \in Y
    OBVIOUS
  <2> HIDE DEF Y
  <2> QED BY <2>1, <2>2
<1>2. \A n \in 1..N, t \in Y : step[n][t] = IF n = 1 THEN ss[n] ELSE t \o ss[n]
  <2> HIDE DEF Y
  <2> QED BY <1>0
<1> HIDE DEF step, Y
<1>3. PICK f : Unfolds(f, Y, <<>>, step, N)
  BY <1>0, <1>1, Recursion
<1> DEFINE k == [i \in 1..N |-> f[i]]
<1>4. \A n \in 1..N : k[n] \in Y /\ k[n] = IF n = 1 THEN ss[n] ELSE k[n - 1] \o ss[n]
  <2> TAKE n \in 1..N
  <2> HIDE DEF N
  <2>1. /\ n \in 0..N /\ n - 1 \in 0..N /\ n \in 1..N
        /\ n # 1 => n - 1 \in 1..N
    BY <1>0
  <2>2. f[n] \in Y /\ f[n - 1] \in Y /\ f[n] = step[n][f[n - 1]]
    BY <1>3, <2>1 DEF Unfolds
  <2>3. f[n] = IF n = 1 THEN ss[n] ELSE f[n - 1] \o ss[n]
    BY <1>2, <2>1, <2>2
  <2> QED BY <2>1, <2>2, <2>3
<1>5. FlatTo(k, ss)
  <2>1. k = [i \in 1..N |-> k[i]]
    OBVIOUS
  <2> HIDE DEF k
  <2> QED BY <1>4, <2>1 DEF FlatTo
<1>6. FlatTo(h, ss)
  <2> HIDE DEF k
  <2> QED BY <1>5
<1>7. FlattenSeq(ss) = h[N]
  BY <1>0 DEF FlattenSeq, FlatTo
<1> HIDE DEF h, k
<1>8. h \in [1..N -> Y]
  <2> DEFINE a == [i \in 0..N - 1 |-> h[i + 1]]
             b == [i \in 0..N - 1 |-> k[i + 1]]
  <2>1. a[0] = b[0] /\ \A i \in 1..N - 1 : a[i - 1] = b[i - 1] => a[i] = b[i]
    <3>1. h[1] = k[1] /\ \A i \in 1..N : i # 1 /\ h[i - 1] = k[i - 1] => h[i] = k[i]
      <4>1. 1 \in 1..N
        BY <1>0
      <4>2. \A i \in 1..N : h[i] = IF i = 1 THEN ss[i] ELSE h[i - 1] \o ss[i]
        BY <1>6 DEF FlatTo
      <4> HIDE DEF N
      <4>3. h[1] = k[1]
        BY <1>4, <4>1, <4>2
      <4>4. ASSUME NEW i \in 1..N, i # 1, h[i - 1] = k[i - 1] PROVE h[i] = k[i]
        <5>1. h[i] = h[i - 1] \o ss[i]
          BY <4>2, <4>4
        <5>2. k[i] = k[i - 1] \o ss[i]
          BY <1>4, <4>4
        <5> QED BY <4>4, <5>1, <5>2
      <4> QED BY <4>3, <4>4
    <3>2. a[0] = h[1] /\ b[0] = k[1]
      BY <1>0
    <3>3. ASSUME NEW i \in 1..N - 1, a[i - 1] = b[i - 1] PROVE a[i] = b[i]
      <4>1. i + 1 \in 1..N /\ i + 1 # 1 /\ (i + 1) - 1 = i /\ i \in 0..N - 1
            /\ i - 1 \in 0..N - 1 /\ (i - 1) + 1 = i
        BY <1>0
      <4>2. a[i] = h[i + 1] /\ b[i] = k[i + 1] /\ a[i - 1] = h[i] /\ b[i - 1] = k[i]
        BY <4>1
      <4> QED BY <3>1, <3>3, <4>1, <4>2
    <3> QED BY <3>1, <3>2, <3>3
  <2>2. \A i \in 0..N - 1 : a[i] = b[i]
    <3>1. N - 1 \in Nat
      BY <1>0
    <3> HIDE DEF a, b, N
    <3> QED BY <2>1, <3>1, SameTo, Zenon
  <2>3. \A i \in 1..N : h[i] = k[i]
    <3> TAKE i \in 1..N
    <3>1. i - 1 \in 0..N - 1 /\ (i - 1) + 1 = i
      BY <1>0
    <3>2. a[i - 1] = h[i] /\ b[i - 1] = k[i]
      BY <3>1
    <3> QED BY <2>2, <3>1, <3>2
  <2>4. h = [i \in 1..N |-> h[i]]
    BY <1>6 DEF FlatTo
  <2> QED BY <1>4, <2>3, <2>4
<1> QED BY <1>6, <1>7, <1>8 DEF Y

LEMMA FlattenFacts ==
  ASSUME NEW X, NEW ss \in Seq(Seq(X))
  PROVE  /\ FlattenSeq(<<>>) = <<>>
         /\ FlattenSeq(ss) \in Seq(X)
         /\ \A s \in Seq(X) : FlattenSeq(Append(ss, s)) = FlattenSeq(ss) \o s
<1>1. FlattenSeq(<<>>) = <<>>
  BY DEF FlattenSeq
<1>2. FlattenSeq(ss) \in Seq(X)
  <2>1. CASE ss = <<>>
    <3>1. <<>> \in Seq(X)
      OBVIOUS
    <3> QED BY <1>1, <2>1, <3>1
  <2>2. CASE ss # <<>>
    <3>1. PICK h : /\ FlatTo(h, ss) /\ h \in [1..Len(ss) -> Seq(X)]
                   /\ FlattenSeq(ss) = h[Len(ss)]
      BY <2>2, FlatUnfolds
    <3>2. Len(ss) \in 1..Len(ss)
      BY <2>2
    <3> QED BY <3>1, <3>2
  <2> QED BY <2>1, <2>2
<1>3. ASSUME NEW s \in Seq(X)
      PROVE  FlattenSeq(Append(ss, s)) = FlattenSeq(ss) \o s
  <2> DEFINE tt == Append(ss, s)
             N == Len(ss)
             Y == Seq(X)
  <2>0. s \in Y /\ ss \in Seq(Y)
    OBVIOUS
  <2>1. /\ tt \in Seq(Y) /\ Len(tt) = N + 1 /\ N \in Nat /\ tt[N + 1] = s
        /\ \A i \in 1..N : tt[i] = ss[i]
    <3> HIDE DEF Y
    <3> QED BY <2>0
  <2> HIDE DEF tt
  <2>2. tt # <<>>
    <3>1. Len(<<>>) = 0 /\ Len(tt) # 0
      BY <2>1
    <3> QED BY <3>1
  <2>3. PICK g : FlatTo(g, tt) /\ FlattenSeq(tt) = g[Len(tt)]
    BY <2>1, <2>2, FlatUnfolds
  <2>4. CASE ss = <<>>
    <3>1. g[1] = s /\ Len(tt) = 1
      BY <2>1, <2>3, <2>4 DEF FlatTo
    <3>2. <<>> \o s = s
      OBVIOUS
    <3> QED BY <1>1, <2>3, <2>4, <3>1, <3>2 DEF tt
  <2>5. CASE ss # <<>>
    <3>1. PICK h : FlatTo(h, ss) /\ FlattenSeq(ss) = h[Len(ss)]
      BY <2>5, FlatUnfolds
    <3>2. N > 0
      BY <2>5
    <3> DEFINE a == [i \in 0..N - 1 |-> h[i + 1]]
               b == [i \in 0..N - 1 |-> g[i + 1]]
    <3>3. /\ h[1] = g[1] /\ \A i \in 1..N : i # 1 /\ h[i - 1] = g[i - 1] => h[i] = g[i]
      <4>1. h[1] = ss[1] /\ g[1] = tt[1] /\ tt[1] = ss[1]
        BY <2>1, <2>3, <3>1, <3>2 DEF FlatTo
      <4>2. ASSUME NEW i \in 1..N, i # 1, h[i - 1] = g[i - 1] PROVE h[i] = g[i]
        <5>1. i \in 1..Len(tt) /\ tt[i] = ss[i]
          BY <2>1
        <5>2. g[i] = g[i - 1] \o ss[i]
          BY <2>3, <4>2, <5>1 DEF FlatTo
        <5>3. h[i] = h[i - 1] \o ss[i]
          BY <3>1, <4>2 DEF FlatTo
        <5> QED BY <4>2, <5>2, <5>3
      <4> QED BY <4>1, <4>2
    <3> HIDE DEF N
    <3>4. a[0] = b[0] /\ \A i \in 1..N - 1 : a[i - 1] = b[i - 1] => a[i] = b[i]
      <4>1. a[0] = h[1] /\ b[0] = g[1]
        BY <2>1, <3>2
      <4>2. ASSUME NEW i \in 1..N - 1, a[i - 1] = b[i - 1] PROVE a[i] = b[i]
        <5>1. i + 1 \in 1..N /\ i + 1 # 1 /\ (i + 1) - 1 = i /\ i \in 0..N - 1
              /\ i - 1 \in 0..N - 1 /\ (i - 1) + 1 = i
          BY <2>1
        <5>2. a[i] = h[i + 1] /\ b[i] = g[i + 1] /\ a[i - 1] = h[i] /\ b[i - 1] = g[i]
          BY <5>1
        <5> QED BY <3>3, <4>2, <5>1, <5>2
      <4> QED BY <3>3, <4>1, <4>2
    <3>5. a[N - 1] = b[N - 1]
      <4>1. N - 1 \in Nat
        BY <2>1, <3>2
      <4> HIDE DEF a, b
      <4>2. \A i \in 0..N - 1 : a[i] = b[i]
        BY <3>4, <4>1, SameTo, Zenon
      <4> QED BY <4>1, <4>2
    <3>6. h[N] = g[N]
      <4>1. N - 1 \in 0..N - 1 /\ (N - 1) + 1 = N
        BY <2>1, <3>2
      <4> QED BY <3>5, <4>1
    <3>7. g[N + 1] = g[N] \o s
      <4>1. N + 1 \in 1..Len(tt) /\ N + 1 # 1 /\ (N + 1) - 1 = N
        BY <2>1, <3>2
      <4> QED BY <2>1, <2>3, <4>1 DEF FlatTo
    <3> QED BY <2>1, <2>3, <3>1, <3>6, <3>7 DEF tt, N
  <2> QED BY <2>4, <2>5
<1> QED BY <1>1, <1>2, <1>3

\* A prefix grows element by element.
LEMMA PrefixFacts ==
  ASSUME NEW X, NEW s \in Seq(X)
  PROVE  /\ SubSeq(s, 1, 0) = <<>>
         /\ SubSeq(s, 1, Len(s)) = s
         /\ \A n \in 0..Len(s) : SubSeq(s, 1, n) \in Seq(X) /\ Len(SubSeq(s, 1, n)) = n
         /\ \A n \in 0..Len(s) - 1 : SubSeq(s, 1, n + 1) = Append(SubSeq(s, 1, n), s[n + 1])
<1>1. SubSeq(s, 1, 0) = <<>>
  OBVIOUS
<1>2. SubSeq(s, 1, Len(s)) = s
  OBVIOUS
<1>3. \A n \in 0..Len(s) : SubSeq(s, 1, n) \in Seq(X) /\ Len(SubSeq(s, 1, n)) = n
  OBVIOUS
<1>4. ASSUME NEW n \in 0..Len(s) - 1
      PROVE  SubSeq(s, 1, n + 1) = Append(SubSeq(s, 1, n), s[n + 1])
  <2> DEFINE a == SubSeq(s, 1, n + 1)
             b == SubSeq(s, 1, n)
             c == Append(b, s[n + 1])
  <2>1. a \in Seq(X) /\ Len(a) = n + 1 /\ \A i \in 1..n + 1 : a[i] = s[i]
    OBVIOUS
  <2>2. b \in Seq(X) /\ Len(b) = n /\ \A i \in 1..n : b[i] = s[i]
    OBVIOUS
  <2>3. s[n + 1] \in X
    OBVIOUS
  <2> HIDE DEF a, b
  <2>4. c \in Seq(X) /\ Len(c) = n + 1 /\ \A i \in 1..n + 1 : c[i] = s[i]
    BY <2>2, <2>3
  <2> HIDE DEF c
  <2>5. a = c
    BY <2>1, <2>4
  <2> QED BY <2>5 DEF a, b, c
<1> QED BY <1>1, <1>2, <1>3, <1>4

\* Nothing is kept of a sequence that has nothing of S.
LEMMA KeptNone ==
  ASSUME NEW X, NEW s \in Seq(X), NEW S, \A i \in 1..Len(s) : s[i] \notin S
  PROVE  Kept(s, S) = <<>>
<1>1. PICK h : KeptTo(h, s, S) /\ Kept(s, S) = h[Len(s)]
  BY KeptUnfolds
<1> DEFINE N == Len(s)
           P == {i \in Nat : i <= N => h[i] = <<>>}
<1>2. N \in Nat
  OBVIOUS
<1>3. 0 \in P
  <2>1. 0 \in 0..N
    BY <1>2
  <2> QED BY <1>1, <2>1 DEF KeptTo
<1>4. ASSUME NEW i \in Nat, i \in P PROVE i + 1 \in P
  <2> SUFFICES ASSUME i + 1 <= N PROVE h[i + 1] = <<>>
    OBVIOUS
  <2>1. i + 1 \in 0..N /\ i + 1 \in 1..N /\ i + 1 # 0 /\ (i + 1) - 1 = i /\ h[i] = <<>>
    BY <1>2, <1>4
  <2> QED BY <1>1, <2>1 DEF KeptTo
<1> HIDE DEF P
<1>5. \A i \in Nat : i \in P
  BY <1>3, <1>4, Induction
<1> QED BY <1>1, <1>2, <1>5 DEF P

\* What is kept of a prefix is a prefix of what is kept.
IsPrefixOf(t, u) == Len(t) <= Len(u) /\ \A i \in 1..Len(t) : t[i] = u[i]
LEMMA KeptPrefix ==
  ASSUME NEW X, NEW s \in Seq(X), NEW S, NEW n \in 0..Len(s)
  PROVE  IsPrefixOf(Kept(SubSeq(s, 1, n), S), Kept(s, S))
<1> DEFINE N == Len(s)
           U(m) == Kept(SubSeq(s, 1, m), S)
           P == {d \in Nat : n + d <= N => IsPrefixOf(U(n), U(n + d))}
<1>0. N \in Nat /\ n \in Nat /\ n <= N /\ \A i \in 1..N : s[i] \in X
  OBVIOUS
<1>1. \A m \in 0..N : U(m) \in Seq(X)
  BY PrefixFacts, KeptFacts
<1>2. \A m \in 0..N - 1 : U(m + 1) = IF s[m + 1] \in S THEN Append(U(m), s[m + 1]) ELSE U(m)
  <2> TAKE m \in 0..N - 1
  <2> DEFINE t == SubSeq(s, 1, m)
             e == s[m + 1]
  <2>1. t \in Seq(X) /\ e \in X /\ SubSeq(s, 1, m + 1) = Append(t, e)
    BY <1>0, PrefixFacts
  <2> HIDE DEF t, e
  <2>2. Kept(Append(t, e), S) = IF e \in S THEN Append(Kept(t, S), e) ELSE Kept(t, S)
    <3>1. t \in Seq(X) /\ e \in X
      BY <2>1
    <3> QED BY <3>1, KeptNext
  <2> QED BY <2>1, <2>2 DEF t, e
<1> HIDE DEF U
<1>3. 0 \in P
  <2>1. n + 0 = n
    BY <1>0
  <2>2. IsPrefixOf(U(n), U(n))
    <3>1. Len(U(n)) \in Nat
      BY <1>0, <1>1
    <3> QED BY <3>1 DEF IsPrefixOf
  <2> QED BY <2>1, <2>2
<1>4. ASSUME NEW d \in Nat, d \in P PROVE d + 1 \in P
  <2> SUFFICES ASSUME n + (d + 1) <= N PROVE IsPrefixOf(U(n), U(n + (d + 1)))
    OBVIOUS
  <2> DEFINE t == U(n)
             u == U(n + d)
             e == s[n + d + 1]
  <2>1. /\ n + d \in 0..N - 1 /\ n + d \in 0..N /\ n + (d + 1) = (n + d) + 1 /\ n + d <= N
        /\ n + d + 1 \in 1..N
    BY <1>0
  <2>2. /\ t \in Seq(X) /\ u \in Seq(X) /\ e \in X /\ IsPrefixOf(t, u)
        /\ U(n + (d + 1)) = IF e \in S THEN Append(u, e) ELSE u
    BY <1>0, <1>1, <1>2, <1>4, <2>1
  <2> HIDE DEF t, u, e
  <2>3. IsPrefixOf(t, Append(u, e))
    <3>1. Len(Append(u, e)) = Len(u) + 1 /\ Len(u) \in Nat /\ Len(t) \in Nat
          /\ \A i \in 1..Len(u) : Append(u, e)[i] = u[i]
      BY <2>2
    <3>2. \A i \in 1..Len(t) : i \in 1..Len(u) /\ t[i] = u[i]
      BY <2>2, <3>1 DEF IsPrefixOf
    <3> QED BY <2>2, <3>1, <3>2 DEF IsPrefixOf
  <2> QED BY <2>2, <2>3 DEF t
<1> HIDE DEF P
<1>5. \A d \in Nat : d \in P
  BY <1>3, <1>4, Induction
<1>6. IsPrefixOf(U(n), U(N))
  <2> DEFINE d == N - n
  <2>1. d \in Nat /\ n + d = N
    BY <1>0
  <2> HIDE DEF d, N
  <2>2. d \in P
    BY <1>5, <2>1
  <2> QED BY <1>0, <2>1, <2>2 DEF P
<1>7. SubSeq(s, 1, N) = s
  BY PrefixFacts
<1> QED BY <1>6, <1>7 DEF U

-----------------------------------------------------------------------------
(* The window of a file and of a sequence of files.                        *)

Pieces == Recording \X Packet

LEMMA PacketsFacts ==
  ASSUME NEW f \in Recording
  PROVE  /\ Packets(f) \in Seq(Pieces)
         /\ Len(Packets(f)) = Len(f.pkts)
         /\ \A k \in 1..Len(f.pkts) :
              Packets(f)[k] = <<f, f.pkts[k]>> /\ f.pkts[k] \in Packet
         /\ Range(Packets(f)) = {<<f, f.pkts[k]>> : k \in 1..Len(f.pkts)}
<1>1. f.pkts \in Seq(Packet)
  BY DEF Recording
<1> DEFINE p == f.pkts
<1>2. p \in Seq(Packet)
  BY <1>1
<1>3. Packets(f) = [k \in DOMAIN p |-> <<f, p[k]>>]
  BY DEF Packets
<1> HIDE DEF p
<1>4. DOMAIN p = 1..Len(p) /\ Len(p) \in Nat /\ \A k \in 1..Len(p) : p[k] \in Packet
  BY <1>2
<1>5. \A k \in 1..Len(p) : <<f, p[k]>> \in Pieces
  BY <1>4 DEF Pieces
<1>6. /\ Packets(f) \in Seq(Pieces) /\ Len(Packets(f)) = Len(p)
      /\ \A k \in 1..Len(p) : Packets(f)[k] = <<f, p[k]>>
  BY <1>3, <1>4, <1>5
<1>7. Range(Packets(f)) = {<<f, p[k]>> : k \in 1..Len(p)}
  BY <1>3, <1>4 DEF Range
<1> QED BY <1>4, <1>6, <1>7 DEF p

LEMMA WindowFacts ==
  ASSUME NEW f \in Recording
  PROVE  Window(f) \in Seq(Pieces)
BY PacketsFacts, KeptFacts DEF Window

\* A file without a packet between start and end has an empty window.
LEMMA EmptyWindow ==
  ASSUME NEW f \in Recording,
         \A k \in 1..Len(f.pkts) :
           ~(start <= f.start + f.pkts[k].t /\ f.start + f.pkts[k].t <= end)
  PROVE  Window(f) = <<>>
<1> DEFINE s == Packets(f)
<1>1. s \in Seq(Pieces) /\ Len(s) = Len(f.pkts)
  BY PacketsFacts
<1>2. \A i \in 1..Len(s) : s[i] \notin Inside(f)
  <2> TAKE i \in 1..Len(s)
  <2>1. s[i] = <<f, f.pkts[i]>>
    BY <1>1, PacketsFacts
  <2>2. s[i][1] = f /\ s[i][2] = f.pkts[i]
    BY <2>1
  <2> QED BY <1>1, <2>2 DEF Inside, At
<1> HIDE DEF s
<1>3. Kept(s, Inside(f)) = <<>>
  BY <1>1, <1>2, KeptNone
<1> QED BY <1>3 DEF Window, s

LEMMA WindowsFacts ==
  ASSUME NEW fs \in Seq(Recording)
  PROVE  /\ Windows(<<>>) = <<>>
         /\ Windows(fs) \in Seq(Pieces)
         /\ \A f \in Recording : Windows(Append(fs, f)) = Windows(fs) \o Window(f)
<1> DEFINE Each(gs) == [i \in DOMAIN gs |-> Window(gs[i])]
<1>1. ASSUME NEW gs \in Seq(Recording)
      PROVE  /\ Each(gs) \in Seq(Seq(Pieces)) /\ Len(Each(gs)) = Len(gs)
             /\ \A i \in 1..Len(gs) : Each(gs)[i] = Window(gs[i])
  <2> DEFINE Y == Seq(Pieces)
  <2>1. DOMAIN gs = 1..Len(gs) /\ Len(gs) \in Nat /\ \A i \in 1..Len(gs) : Window(gs[i]) \in Y
    BY WindowFacts
  <2> HIDE DEF Y
  <2>2. /\ Each(gs) \in Seq(Y) /\ Len(Each(gs)) = Len(gs)
        /\ \A i \in 1..Len(gs) : Each(gs)[i] = Window(gs[i])
    BY <2>1
  <2> QED BY <2>2 DEF Y
<1>2. Windows(<<>>) = <<>>
  <2>1. Each(<<>>) = <<>>
    OBVIOUS
  <2>2. FlattenSeq(<<>>) = <<>>
    BY DEF FlattenSeq
  <2>3. Windows(<<>>) = FlattenSeq(Each(<<>>))
    BY DEF Windows
  <2> HIDE DEF Each
  <2> QED BY <2>1, <2>2, <2>3
<1>3. Windows(fs) \in Seq(Pieces)
  BY <1>1, FlattenFacts DEF Windows
<1>4. ASSUME NEW f \in Recording
      PROVE  Windows(Append(fs, f)) = Windows(fs) \o Window(f)
  <2> DEFINE gs == Append(fs, f)
             N == Len(fs)
             Y == Seq(Pieces)
             w == Window(f)
  <2>1. /\ gs \in Seq(Recording) /\ Len(gs) = N + 1 /\ N \in Nat /\ gs[N + 1] = f
        /\ \A i \in 1..N : gs[i] = fs[i]
    OBVIOUS
  <2>2. w \in Y
    BY WindowFacts
  <2> DEFINE a == Each(fs)
             b == Each(gs)
  <2>3. /\ a \in Seq(Y) /\ Len(a) = N /\ \A i \in 1..N : a[i] = Window(fs[i])
    BY <1>1
  <2> HIDE DEF gs
  <2>4. /\ b \in Seq(Y) /\ Len(b) = N + 1 /\ \A i \in 1..N + 1 : b[i] = Window(gs[i])
    BY <1>1, <2>1
  <2>5. \A i \in 1..N : b[i] = a[i]
    BY <2>1, <2>3, <2>4
  <2>6. b[N + 1] = w
    BY <2>1, <2>4
  <2> HIDE DEF a, b, Y, w, N
  <2>7. b = Append(a, w)
    <3> DEFINE c == Append(a, w)
    <3>1. c \in Seq(Y) /\ Len(c) = N + 1 /\ \A i \in 1..N + 1 : c[i] = b[i]
      BY <2>1, <2>2, <2>3, <2>5, <2>6
    <3> HIDE DEF c
    <3>2. b = c
      BY <2>4, <3>1
    <3> QED BY <3>2 DEF c
  <2>8. FlattenSeq(b) = FlattenSeq(a) \o w
    BY <2>2, <2>3, <2>7, FlattenFacts DEF Y
  <2> QED BY <2>8 DEF Windows, a, b, gs, w
<1> QED BY <1>2, <1>3, <1>4

-----------------------------------------------------------------------------
(* What files chooses.                                                     *)

\* A file that is not earlier than the others goes behind them.
LEMMA InsertLast ==
  ASSUME NEW s \in Seq(Recording), NEW f \in Recording,
         \A i \in 1..Len(s) : s[i].start <= f.start
  PROVE  Insert(s, f) = Append(s, f)
<1> DEFINE Fits(k) == /\ \A i \in 1..k : s[i].start <= f.start
                      /\ k < Len(s) => s[k + 1].start > f.start
           k == CHOOSE k \in 0..Len(s) : Fits(k)
<1>0. /\ Len(s) \in Nat /\ f.start \in Int
      /\ \A i \in 1..Len(s) : s[i] \in Recording /\ s[i].start \in Int
  BY StartType
<1>1. Len(s) \in 0..Len(s) /\ Fits(Len(s))
  BY <1>0
<1>2. k \in 0..Len(s) /\ Fits(k)
  <2> HIDE DEF Fits
  <2> QED BY <1>1
<1>3. Insert(s, f) = SubSeq(s, 1, k) \o <<f>> \o SubSeq(s, k + 1, Len(s))
  BY DEF Insert
<1> HIDE DEF k
<1>4. k = Len(s)
  <2> SUFFICES ASSUME k # Len(s) PROVE FALSE
    OBVIOUS
  <2>1. k + 1 \in 1..Len(s) /\ k < Len(s)
    BY <1>0, <1>2
  <2>2. s[k + 1].start > f.start /\ s[k + 1].start <= f.start /\ s[k + 1].start \in Int
    BY <1>0, <1>2, <2>1
  <2> QED BY <1>0, <2>2
<1>5. SubSeq(s, 1, k) = s /\ SubSeq(s, k + 1, Len(s)) = <<>>
  BY <1>0, <1>4
<1>6. (s \o <<f>>) \o <<>> = Append(s, f)
  <2>1. s \o <<f>> = Append(s, f) /\ s \o <<f>> \in Seq(Recording)
    OBVIOUS
  <2>2. \A t \in Seq(Recording) : t \o <<>> = t
    OBVIOUS
  <2> QED BY <2>1, <2>2
<1> QED BY <1>3, <1>5, <1>6

\* sortPath leaves files as they are that are in order already.
LEMMA SortPathStays ==
  ASSUME NEW s \in Seq(Recording), Sorted(s)
  PROVE  sortPath(s) = s
<1> DEFINE N == Len(s)
           Solves(f) == f = [n \in 0..N |-> IF n = 0 THEN <<>> ELSE Insert(f[n - 1], s[n])]
           h == CHOOSE f : Solves(f)
           g == [n \in 0..N |-> SubSeq(s, 1, n)]
           Step(f) == \A n \in 1..N : f[n] = Insert(f[n - 1], s[n])
<1>0. N \in Nat /\ DOMAIN s = 1..N /\ \A i \in 1..N : s[i] \in Recording
  OBVIOUS
<1>1. g[0] = <<>> /\ Step(g)
  <2>1. g[0] = <<>>
    BY <1>0, PrefixFacts
  <2>2. ASSUME NEW n \in 1..N PROVE g[n] = Insert(g[n - 1], s[n])
    <3> DEFINE m == n - 1
               t == SubSeq(s, 1, m)
    <3>1. m \in 0..N - 1 /\ m \in 0..N /\ m + 1 = n /\ n \in 0..N
      BY <1>0
    <3>2. t \in Seq(Recording) /\ Len(t) = m /\ SubSeq(s, 1, m + 1) = Append(t, s[m + 1])
      <4> HIDE DEF m
      <4> QED BY <1>0, <3>1, PrefixFacts
    <3>3. \A i \in 1..m : t[i] = s[i]
      BY <1>0, <3>1
    <3>4. \A i \in 1..m : s[i].start <= s[n].start
      <4> TAKE i \in 1..m
      <4>1. i \in 1..N /\ i < n
        BY <1>0, <3>1
      <4> QED BY <1>0, <4>1 DEF Sorted
    <3>5. s[n] \in Recording
      BY <1>0
    <3> HIDE DEF t, m
    <3>6. Insert(t, s[n]) = Append(t, s[n])
      BY <3>2, <3>3, <3>4, <3>5, InsertLast
    <3>7. g[n] = Append(t, s[n])
      BY <3>1, <3>2
    <3>8. g[n - 1] = t
      BY <3>1 DEF t, m
    <3> QED BY <3>6, <3>7, <3>8
  <2> HIDE DEF g
  <2> QED BY <2>1, <2>2
<1>2. Solves(g)
  <2>1. \A n \in 0..N : g[n] = IF n = 0 THEN <<>> ELSE Insert(g[n - 1], s[n])
    <3> HIDE DEF g, N
    <3> TAKE n \in 0..N
    <3>1. n # 0 => n \in 1..N
      BY <1>0
    <3> QED BY <1>1, <3>1
  <2>2. g = [n \in 0..N |-> g[n]]
    OBVIOUS
  <2> HIDE DEF g
  <2> QED BY <2>1, <2>2
<1>3. Solves(h)
  <2> HIDE DEF g
  <2> QED BY <1>2
<1>4. sortPath(s) = h[N]
  BY DEF sortPath
<1> HIDE DEF h
<1>5. h[0] = g[0] /\ \A n \in 1..N : h[n - 1] = g[n - 1] => h[n] = g[n]
  <2>1. h[0] = <<>>
    BY <1>0, <1>3
  <2>2. ASSUME NEW n \in 1..N, h[n - 1] = g[n - 1] PROVE h[n] = g[n]
    <3>1. n \in 0..N /\ n # 0
      BY <1>0
    <3>2. h[n] = Insert(h[n - 1], s[n])
      BY <1>3, <3>1
    <3> HIDE DEF g
    <3> QED BY <1>1, <2>2, <3>2
  <2> HIDE DEF g
  <2> QED BY <1>1, <2>1, <2>2
<1>6. h[N] = g[N]
  <2>1. N \in Nat /\ N \in 0..N
    BY <1>0
  <2> HIDE DEF g, N, Solves
  <2>2. \A i \in 0..N : h[i] = g[i]
    BY <1>5, <2>1, SameTo, SMTT(40)
  <2> QED BY <2>1, <2>2
<1>7. g[N] = s
  BY <1>0, PrefixFacts
<1> QED BY <1>4, <1>6, <1>7

\* The recursion of files, unfolded: h[n] are the files taken of the first n.
Takes(paths, f) ==
  /\ f.usable
  /\ f.start <= end
  /\ checkDuration => FileDuration(f) > 0
  /\ f.start >= start \/ TakenEarly(paths, f, start, fileStart, checkDuration)
TakenTo(h, all) ==
  h = [n \in 0..Len(all) |->
         IF n = 0 THEN <<>>
         ELSE IF Takes(h[n - 1], all[n]) THEN Append(h[n - 1], all[n]) ELSE h[n - 1]]
Chosen == files(dirs, start, end, fileStart, checkDuration)

LEMMA FilesUnfold ==
  ASSUME dirs \in Seq(Seq(Recording))
  PROVE  \E h : /\ TakenTo(h, Walk(dirs))
                /\ \A n \in 0..Len(Walk(dirs)) : h[n] \in Seq(Recording)
                /\ Chosen = sortPath(h[Len(Walk(dirs))])
<1> DEFINE all == Walk(dirs)
           N == Len(all)
           h == CHOOSE h : TakenTo(h, all)
           Y == Seq(Recording)
<1>1. Chosen = sortPath(h[N])
  BY DEF Chosen, files, TakenTo, Takes
<1>2. all \in Y
  BY WalkType
<1> HIDE DEF all
<1>0. N \in Nat /\ \A i \in 1..N : all[i] \in Recording
  BY <1>2
<1> DEFINE step == [n \in Nat |-> [t \in Y |->
                      IF n \in 1..N /\ Takes(t, all[n]) THEN Append(t, all[n]) ELSE t]]
<1>3. step \in [Nat -> [Y -> Y]] /\ <<>> \in Y
  <2>1. \A n \in Nat, t \in Y :
          (IF n \in 1..N /\ Takes(t, all[n]) THEN Append(t, all[n]) ELSE t) \in Y
    BY <1>0
  <2>2. <<>> \in Y
    OBVIOUS
  <2> HIDE DEF Y
  <2> QED BY <2>1, <2>2
<1>4. \A n \in 1..N, t \in Y :
        step[n][t] = IF Takes(t, all[n]) THEN Append(t, all[n]) ELSE t
  <2> HIDE DEF Y
  <2> QED BY <1>0
<1> HIDE DEF step, Y
<1>5. PICK f : Unfolds(f, Y, <<>>, step, N)
  BY <1>0, <1>3, Recursion
<1>6. \A n \in 0..N : f[n] \in Y
                      /\ f[n] = IF n = 0 THEN <<>>
                                ELSE IF Takes(f[n - 1], all[n]) THEN Append(f[n - 1], all[n])
                                     ELSE f[n - 1]
  <2> TAKE n \in 0..N
  <2> HIDE DEF N
  <2>1. CASE n = 0
    BY <1>5, <2>1 DEF Unfolds
  <2>2. CASE n # 0
    <3>1. n \in 1..N /\ n - 1 \in 0..N
      BY <1>0, <2>2
    <3>2. f[n - 1] \in Y /\ f[n] \in Y /\ f[n] = step[n][f[n - 1]]
      BY <1>5, <3>1 DEF Unfolds
    <3> QED BY <1>4, <2>2, <3>1, <3>2
  <2> QED BY <2>1, <2>2
<1>7. TakenTo(f, all)
  <2>1. f = [n \in 0..N |-> f[n]]
    BY <1>5 DEF Unfolds
  <2> QED BY <1>6, <2>1 DEF TakenTo
<1>8. TakenTo(h, all)
  BY <1>7
<1> HIDE DEF h
<1>9. \A n \in 0..N : h[n] = f[n]
  <2>1. h[0] = f[0] /\ \A n \in 1..N : h[n - 1] = f[n - 1] => h[n] = f[n]
    <3>1. h[0] = <<>> /\ f[0] = <<>>
      BY <1>0, <1>7, <1>8 DEF TakenTo
    <3>2. ASSUME NEW n \in 1..N, h[n - 1] = f[n - 1] PROVE h[n] = f[n]
      <4>1. n \in 0..N /\ n # 0
        BY <1>0
      <4>2. h[n] = IF Takes(h[n - 1], all[n]) THEN Append(h[n - 1], all[n]) ELSE h[n - 1]
        BY <1>8, <4>1 DEF TakenTo
      <4>3. f[n] = IF Takes(f[n - 1], all[n]) THEN Append(f[n - 1], all[n]) ELSE f[n - 1]
        BY <1>6, <4>1
      <4> QED BY <3>2, <4>2, <4>3
    <3> QED BY <3>1, <3>2
  <2>2. N \in Nat
    BY <1>0
  <2> HIDE DEF N
  <2> QED BY <2>1, <2>2, SameTo, ZenonT(60)
<1>10. \A n \in 0..N : h[n] \in Y
  BY <1>6, <1>9
<1> QED BY <1>1, <1>8, <1>10 DEF all, Y

LEMMA FilesType ==
  ASSUME dirs \in Seq(Seq(Recording))
  PROVE  Chosen \in Seq(Recording)
<1>1. PICK h : /\ \A n \in 0..Len(Walk(dirs)) : h[n] \in Seq(Recording)
               /\ Chosen = sortPath(h[Len(Walk(dirs))])
  BY FilesUnfold
<1>2. Len(Walk(dirs)) \in 0..Len(Walk(dirs))
  BY WalkType
<1> QED BY <1>1, <1>2, SortPathSorts

\* A file that files leaves out, although it is usable and not lost, has nothing
\* in the window.
LEMMA LeftOut ==
  ASSUME NEW f \in Recording, NEW paths, start \in Times, end \in Times,
         checkDuration \in BOOLEAN, f.usable, ~Lost(f), ~Takes(paths, f),
         checkDuration \/ (f.start < start /\ Window(f) # <<>> => f.name = fileStart),
         checkDuration /\ paths # <<>> => f.start >= start
  PROVE  Window(f) = <<>>
<1>1. /\ f.start \in Int /\ f.dur \in Nat /\ start \in Int /\ end \in Int
      /\ FileDuration(f) \in Nat /\ f.dur < FileDuration(f) + Second
      /\ \A k \in 1..Len(f.pkts) : f.pkts[k].t \in Nat
  <2>1. f.start \in Int /\ start \in Int /\ end \in Int
    BY StartType, WholeSeconds
  <2>2. ASSUME NEW k \in 1..Len(f.pkts) PROVE f.pkts[k].t \in Nat
    <3>1. f.pkts[k] \in Packet
      BY PacketsFacts
    <3> QED BY <3>1 DEF Packet
  <2> QED BY <2>1, <2>2, DurationCut
<1>2. SUFFICES ASSUME Window(f) # <<>> PROVE FALSE
  OBVIOUS
<1>3. PICK k \in 1..Len(f.pkts) : start <= f.start + f.pkts[k].t /\ f.start + f.pkts[k].t <= end
  BY <1>2, EmptyWindow
<1>4. f.start <= end
  <2> DEFINE t == f.pkts[k].t
  <2>1. t \in Nat /\ f.start + t <= end
    BY <1>1, <1>3
  <2> HIDE DEF t
  <2> QED BY <1>1, <2>1
<1>5. CASE checkDuration
  <2>1. f.dur >= Second /\ (f.start < start => f.start + f.dur >= start + Second)
    <3>1. Second \in Nat
      BY SecondAssumption
    <3> QED BY <1>1, <1>5, <3>1 DEF Lost
  <2>2. FileDuration(f) > 0
    <3>1. Second \in Nat
      BY SecondAssumption
    <3> QED BY <1>1, <2>1, <3>1
  <2>3. f.start < start /\ ~TakenEarly(paths, f, start, fileStart, checkDuration)
    BY <1>1, <1>4, <2>2 DEF Takes
  <2>4. paths = <<>>
    BY <1>1, <1>5, <2>3
  <2> QED BY <1>5, <2>1, <2>3, <2>4, CoversASecond DEF TakenEarly
<1>6. CASE ~checkDuration
  <2>1. f.start < start /\ ~TakenEarly(paths, f, start, fileStart, checkDuration)
    BY <1>1, <1>4, <1>6 DEF Takes
  <2> QED BY <1>2, <1>6, <2>1 DEF TakenEarly
<1> QED BY <1>5, <1>6

\* A file that files takes, none that reaches into the request being taken
\* before it if it is early, is not lost.
LEMMA TakenFound ==
  ASSUME NEW f \in Recording, NEW paths, start \in Times, end \in Times,
         checkDuration \in BOOLEAN, Takes(paths, f),
         checkDuration /\ paths # <<>> => f.start >= start
  PROVE  ~Lost(f)
<1>1. SUFFICES ASSUME checkDuration
               PROVE  f.dur >= Second /\ (f.start < start => f.start + f.dur >= start + Second)
  <2>1. f.dur \in Nat /\ Second \in Nat /\ f.start \in Int /\ start \in Int
    BY DurationCut, SecondAssumption, StartType, WholeSeconds
  <2> QED BY <2>1 DEF Lost
<1>2. f.dur >= Second
  <2> DEFINE q == f.dur \div Second
  <2>1. q \in Nat /\ FileDuration(f) = q * Second /\ FileDuration(f) <= f.dur
        /\ f.dur \in Nat /\ Second \in Nat
    BY DurationCut, SecondAssumption
  <2>2. FileDuration(f) > 0
    BY <1>1 DEF Takes
  <2> HIDE DEF q
  <2>3. q # 0
    BY <2>1, <2>2
  <2>4. q * Second >= Second
    BY <2>1, <2>3
  <2> QED BY <2>1, <2>4
<1>3. ASSUME f.start < start PROVE f.start + f.dur >= start + Second
  <2>1. f.start \in Int /\ start \in Int
    BY StartType, WholeSeconds
  <2>2. ~(f.start >= start)
    BY <1>3, <2>1
  <2>3. paths = <<>> /\ Covers(f, start)
    BY <1>1, <2>2 DEF Takes, TakenEarly
  <2> QED BY <2>3, CoversASecond
<1> QED BY <1>2, <1>3

\* The files chosen have the window of all recordings that are not lost.
LEMMA FilesGiveWindow ==
  ASSUME dirs \in Seq(Seq(Recording)), start \in Times, end \in Times,
         checkDuration \in BOOLEAN, Consistent, Named
  PROVE  Windows(Chosen) = Windows(Found)
<1> DEFINE all == Walk(dirs)
           N == Len(all)
           S == {f \in Range(all) : f.usable}
           T == {f \in Range(all) : f.usable /\ ~Lost(f)}
           U(n) == Kept(SubSeq(all, 1, n), S)
           F(n) == Kept(SubSeq(all, 1, n), T)
<1>1. all \in Seq(Recording)
  BY WalkType
<1>2. PICK h : /\ TakenTo(h, all)
               /\ \A n \in 0..N : h[n] \in Seq(Recording)
               /\ Chosen = sortPath(h[N])
  BY FilesUnfold
<1>3. Usable \in Seq(Recording) /\ Found = F(N)
  <2>1. SubSeq(all, 1, N) = all
    BY <1>1, PrefixFacts
  <2> QED BY <1>1, <2>1, KeptFacts DEF Usable, Found
<1>4. U(0) = <<>> /\ F(0) = <<>>
  <2>1. SubSeq(all, 1, 0) = <<>>
    BY <1>1, PrefixFacts
  <2>2. Kept(<<>>, S) = <<>> /\ Kept(<<>>, T) = <<>>
    <3> HIDE DEF all, S, T
    <3> QED BY <1>1, KeptFacts
  <2> QED BY <2>1, <2>2
<1>5. \A n \in 0..N : U(n) \in Seq(Recording) /\ F(n) \in Seq(Recording)
  BY <1>1, PrefixFacts, KeptFacts
<1>6. \A n \in 0..N - 1 :
        /\ U(n + 1) = IF all[n + 1].usable THEN Append(U(n), all[n + 1]) ELSE U(n)
        /\ F(n + 1) = IF all[n + 1].usable /\ ~Lost(all[n + 1])
                      THEN Append(F(n), all[n + 1]) ELSE F(n)
  <2> TAKE n \in 0..N - 1
  <2> DEFINE t == SubSeq(all, 1, n)
             e == all[n + 1]
  <2>1. t \in Seq(Recording) /\ e \in Recording /\ SubSeq(all, 1, n + 1) = Append(t, e)
    BY <1>1, PrefixFacts
  <2>2. (e \in S <=> e.usable) /\ (e \in T <=> e.usable /\ ~Lost(e))
    <3>1. n + 1 \in DOMAIN all
      BY <1>1
    <3>2. e \in Range(all)
      BY <3>1 DEF Range
    <3> HIDE DEF e, all
    <3> QED BY <3>2
  <2> HIDE DEF t, e, S, T
  <2>3. /\ Kept(Append(t, e), S) = IF e \in S THEN Append(Kept(t, S), e) ELSE Kept(t, S)
        /\ Kept(Append(t, e), T) = IF e \in T THEN Append(Kept(t, T), e) ELSE Kept(t, T)
    BY <2>1, KeptNext
  <2> QED BY <2>1, <2>2, <2>3 DEF t, e
<1>7. \A n \in 0..N : IsPrefixOf(U(n), Usable)
  BY <1>1, KeptPrefix DEF Usable
<1>8. N \in Nat /\ \A i \in 1..N : all[i] \in Recording
  BY <1>1
<1> HIDE DEF all, U, S, F, T
<1> DEFINE Reaches(u) == \E i \in 1..Len(u) : u[i].start + FileDuration(u[i]) > start
           Done(n) == /\ Windows(h[n]) = Windows(F(n))
                      /\ \A g : Holds(h[n], g) => Holds(U(n), g)
                      /\ Sorted(h[n])
                      /\ checkDuration /\ h[n] # <<>> => Reaches(U(n))
           P == {n \in Nat : n <= N => Done(n)}
<1>9. 0 \in P
  <2>1. h[0] = <<>>
    BY <1>2, <1>8 DEF TakenTo
  <2>2. Done(0)
    BY <1>4, <2>1 DEF Sorted, Holds
  <2> HIDE DEF Done
  <2> QED BY <2>2
<1>10. ASSUME NEW n \in Nat, n \in P PROVE n + 1 \in P
  <2> SUFFICES ASSUME n + 1 <= N PROVE Done(n + 1)
    OBVIOUS
  <2> DEFINE f == all[n + 1]
             u == U(n)
             p == h[n]
             v == U(n + 1)
             x == F(n)
             y == F(n + 1)
             q == h[n + 1]
             m == Len(u)
  <2>1. n \in 0..N - 1 /\ n \in 0..N /\ n + 1 \in 0..N /\ n + 1 \in 1..N
    BY <1>8
  <2>2. /\ f \in Recording /\ u \in Seq(Recording) /\ v \in Seq(Recording)
        /\ p \in Seq(Recording) /\ q \in Seq(Recording) /\ m \in Nat
        /\ x \in Seq(Recording) /\ y \in Seq(Recording)
    BY <1>2, <1>5, <1>8, <2>1
  <2>3. /\ v = IF f.usable THEN Append(u, f) ELSE u
        /\ y = IF f.usable /\ ~Lost(f) THEN Append(x, f) ELSE x
    BY <1>6, <2>1
  <2>4. q = IF Takes(p, f) THEN Append(p, f) ELSE p
    <3>1. n + 1 # 0 /\ (n + 1) - 1 = n
      BY <2>1
    <3> HIDE DEF N
    <3> QED BY <1>2, <2>1, <3>1 DEF TakenTo, N
  <2>5. /\ Windows(p) = Windows(x)
        /\ \A g : Holds(p, g) => Holds(u, g)
        /\ Sorted(p)
        /\ checkDuration /\ p # <<>> => Reaches(u)
    <3>1. Done(n)
      BY <1>8, <1>10
    <3> QED BY <3>1
  <2>6. IsPrefixOf(v, Usable)
    BY <1>7, <2>1
  <2> HIDE DEF f, u, p, v, q, x, y
  <2>7. /\ Windows(q) = Windows(y)
        /\ \A g : Holds(q, g) => Holds(v, g)
        /\ Sorted(q)
        /\ checkDuration /\ q # <<>> => Reaches(v)
    <3>1. CASE ~f.usable
      <4>1. v = u /\ q = p /\ y = x
        BY <2>3, <2>4, <3>1 DEF Takes
      <4> QED BY <2>5, <4>1
    <3>2. CASE f.usable
      <4>1. /\ v = Append(u, f) /\ Len(v) = m + 1 /\ v[m + 1] = f
            /\ \A i \in 1..m : v[i] = u[i]
        BY <2>2, <2>3, <3>2
      <4>2. /\ DOMAIN u = 1..m /\ DOMAIN v = 1..m + 1 /\ DOMAIN p = 1..Len(p) /\ Len(p) \in Nat
            /\ \A i \in 1..m : u[i] \in Recording
        BY <2>2, <4>1
      <4>3. /\ m + 1 \in DOMAIN Usable /\ Usable[m + 1] = f
            /\ \A i \in 1..m : i \in DOMAIN Usable /\ Usable[i] = u[i]
        <5>1. DOMAIN Usable = 1..Len(Usable) /\ Len(Usable) \in Nat
          BY <1>3
        <5>2. m + 1 <= Len(Usable) /\ \A i \in 1..m + 1 : v[i] = Usable[i]
          BY <2>6, <4>1 DEF IsPrefixOf
        <5>3. m \in Nat
          BY <2>2
        <5> HIDE DEF m
        <5>4. /\ m + 1 \in 1..m + 1 /\ m + 1 \in DOMAIN Usable
              /\ \A i \in 1..m : i \in 1..m + 1 /\ i \in DOMAIN Usable
          BY <5>1, <5>2, <5>3
        <5> QED BY <4>1, <5>2, <5>4
      <4>4. f \in Range(Usable)
        BY <4>3 DEF Range
      <4>5. \A i \in 1..m : u[i].start + FileDuration(u[i]) <= f.start
        <5> TAKE i \in 1..m
        <5>1. i < m + 1
          BY <2>2
        <5> QED BY <4>3, <5>1 DEF Consistent
      <4>6. \A i \in 1..m : u[i].start \in Int /\ FileDuration(u[i]) \in Nat
        BY <4>2, StartType, DurationCut
      <4>7. f.start \in Int /\ FileDuration(f) \in Nat /\ start \in Int
        BY <2>2, StartType, DurationCut, WholeSeconds
      <4>8. checkDuration /\ p # <<>> => f.start >= start
        <5> SUFFICES ASSUME checkDuration, p # <<>> PROVE f.start >= start
          OBVIOUS
        <5>1. PICK i \in 1..m : u[i].start + FileDuration(u[i]) > start
          BY <2>5
        <5>2. u[i].start + FileDuration(u[i]) <= f.start /\ u[i].start + FileDuration(u[i]) \in Int
          BY <4>5, <4>6
        <5> QED BY <4>7, <5>1, <5>2
      <4>9. \A g : Holds(u, g) => Holds(v, g)
        BY <2>2, <4>1, <4>2 DEF Holds
      <4>10. Reaches(u) => Reaches(v)
        BY <2>2, <4>1
      <4>11. Windows(y) = IF Lost(f) THEN Windows(x) ELSE Windows(x) \o Window(f)
        BY <2>2, <2>3, <3>2, WindowsFacts
      <4>12. CASE Takes(p, f)
        <5>1. q = Append(p, f)
          BY <2>4, <4>12
        <5>2. Windows(q) = Windows(y)
          <6>1. ~Lost(f)
            BY <2>2, <4>8, <4>12, TakenFound
          <6> QED BY <2>2, <2>5, <4>11, <5>1, <6>1, WindowsFacts
        <5> DEFINE l == Len(p)
        <5>3. /\ DOMAIN q = 1..l + 1 /\ q[l + 1] = f /\ \A i \in 1..l : q[i] = p[i]
          BY <2>2, <5>1
        <5>4. l \in Nat /\ DOMAIN p = 1..l
          BY <4>2
        <5> HIDE DEF l
        <5>5. \A i \in 1..l + 1 : i = l + 1 \/ i \in 1..l
          BY <5>4
        <5>6. Holds(v, f)
          <6>1. m + 1 \in DOMAIN v
            BY <2>2, <4>2
          <6> QED BY <4>1, <6>1 DEF Holds
        <5>7. ASSUME NEW g, Holds(q, g) PROVE Holds(v, g)
          <6>1. PICK i \in 1..l + 1 : q[i] = g
            BY <5>3, <5>7 DEF Holds
          <6>2. CASE i = l + 1
            BY <5>3, <5>6, <6>1, <6>2
          <6>3. CASE i \in 1..l
            <7>1. Holds(p, g)
              BY <5>3, <5>4, <6>1, <6>3 DEF Holds
            <7> QED BY <2>5, <4>9, <7>1
          <6> QED BY <5>5, <6>2, <6>3
        <5>8. \A i \in 1..l : p[i].start <= f.start
          <6> TAKE i \in 1..l
          <6>1. Holds(p, p[i])
            BY <5>4 DEF Holds
          <6>2. PICK j \in 1..m : u[j] = p[i]
            BY <2>5, <4>2, <6>1 DEF Holds
          <6>3. /\ u[j].start + FileDuration(u[j]) <= f.start
                /\ u[j].start \in Int /\ FileDuration(u[j]) \in Nat
            BY <4>5, <4>6
          <6>4. u[j].start <= f.start
            BY <4>7, <6>3
          <6> QED BY <6>2, <6>4
        <5>9. Sorted(q)
          <6> SUFFICES ASSUME NEW i \in 1..l + 1, NEW j \in 1..l + 1, i < j
                       PROVE  q[i].start <= q[j].start
            BY <5>3 DEF Sorted
          <6>1. i \in 1..l
            BY <5>4
          <6>2. CASE j = l + 1
            BY <5>3, <5>8, <6>1, <6>2
          <6>3. CASE j \in 1..l
            <7>1. p[i].start <= p[j].start
              BY <2>5, <5>4, <6>1, <6>3 DEF Sorted
            <7> QED BY <5>3, <6>1, <6>3, <7>1
          <6> QED BY <5>5, <6>2, <6>3
        <5>10. ASSUME checkDuration PROVE Reaches(v)
          <6>1. CASE f.start + FileDuration(f) > start
            <7>1. m + 1 \in 1..Len(v)
              BY <2>2, <4>1
            <7> QED BY <4>1, <6>1, <7>1
          <6>2. CASE ~(f.start + FileDuration(f) > start)
            <7>1. FileDuration(f) > 0 /\ ~(f.start >= start)
              BY <4>7, <4>12, <5>10, <6>2 DEF Takes
            <7> QED BY <4>12, <5>10, <6>2, <7>1, <4>8 DEF Takes, TakenEarly, Covers
          <6> QED BY <6>1, <6>2
        <5> HIDE DEF Reaches
        <5> QED BY <5>2, <5>7, <5>9, <5>10
      <4>13. CASE ~Takes(p, f)
        <5>1. checkDuration \/ (f.start < start /\ Window(f) # <<>> => f.name = fileStart)
          BY <4>4 DEF Named
        <5>2. ~Lost(f) => Window(f) = <<>>
          BY <2>2, <3>2, <4>8, <4>13, <5>1, LeftOut
        <5>3. Windows(x) \o <<>> = Windows(x)
          <6>1. Windows(x) \in Seq(Pieces)
            BY <2>2, WindowsFacts
          <6> QED BY <6>1
        <5>4. Windows(y) = Windows(x)
          BY <4>11, <5>2, <5>3
        <5>5. q = p
          BY <2>4, <4>13
        <5> HIDE DEF Reaches
        <5> QED BY <2>5, <4>9, <4>10, <5>4, <5>5
      <4> QED BY <4>12, <4>13
    <3> QED BY <3>1, <3>2
  <2> QED BY <2>7 DEF f, u, p, v, q, x, y
<1> HIDE DEF P
<1>11. \A n \in Nat : n \in P
  BY <1>9, <1>10, Induction
<1>12. Done(N)
  <2>1. N \in P
    BY <1>8, <1>11
  <2> HIDE DEF Done, N
  <2> QED BY <1>8, <2>1 DEF P
<1>13. Chosen = h[N]
  <2>1. h[N] \in Seq(Recording)
    BY <1>2, <1>8
  <2> QED BY <1>2, <1>12, <2>1, SortPathStays
<1> QED BY <1>3, <1>12, <1>13

-----------------------------------------------------------------------------
(* The gate: from the first key frame on.                                  *)

LEMMA FirstKey ==
  ASSUME NEW w \in Seq(Pieces), Keys(w) # {}
  PROVE  LET k == CHOOSE i \in Keys(w) : \A j \in Keys(w) : i <= j
         IN  k \in Keys(w) /\ k \in 1..Len(w) /\ \A j \in Keys(w) : k <= j
<1>1. Keys(w) \subseteq 1..Len(w) /\ Keys(w) \subseteq Nat
  BY DEF Keys
<1>2. \E i \in Keys(w) : \A j \in Keys(w) : i <= j
  BY <1>1, LeastNat
<1> QED BY <1>1, <1>2

\* One more packet goes out when it is a key frame or one went before.
LEMMA FirstKeyNext ==
  ASSUME NEW w \in Seq(Pieces), NEW x \in Pieces
  PROVE  /\ Keys(Append(w, x)) # {} <=> x[2].key \/ Keys(w) # {}
         /\ FromFirstKey(Append(w, x))
              = IF x[2].key \/ Keys(w) # {} THEN Append(FromFirstKey(w), x) ELSE <<>>
<1> DEFINE v == Append(w, x)
           N == Len(w)
           First(u) == CHOOSE i \in Keys(u) : \A j \in Keys(u) : i <= j
<1>1. /\ v \in Seq(Pieces) /\ Len(v) = N + 1 /\ N \in Nat /\ v[N + 1] = x
      /\ \A i \in 1..N : v[i] = w[i]
  OBVIOUS
<1> HIDE DEF v
<1>2. Keys(v) = IF x[2].key THEN Keys(w) \union {N + 1} ELSE Keys(w)
  <2>1. DOMAIN v = 1..N + 1 /\ DOMAIN w = 1..N
    BY <1>1
  <2>2. \A i : i \in 1..N + 1 <=> i = N + 1 \/ i \in 1..N
    BY <1>1
  <2>3. N + 1 \notin 1..N
    BY <1>1
  <2> HIDE DEF N
  <2> QED BY <1>1, <2>1, <2>2, <2>3 DEF Keys
<1>3. CASE Keys(w) # {}
  <2> DEFINE k == First(w)
  <2>1. k \in Keys(w) /\ k \in 1..N /\ \A j \in Keys(w) : k <= j
    BY <1>3, FirstKey
  <2>2. Keys(v) # {} /\ k \in Keys(v)
    BY <1>2, <2>1
  <2>3. \A j \in Keys(v) : k <= j
    BY <1>1, <1>2, <2>1
  <2> DEFINE l == First(v)
  <2>4. l \in Keys(v) /\ l \in 1..N + 1 /\ \A j \in Keys(v) : l <= j
    BY <1>1, <2>2, FirstKey
  <2> HIDE DEF k, l
  <2>5. l = k
    <3>1. l <= k /\ k <= l
      BY <2>2, <2>3, <2>4
    <3> QED BY <1>1, <2>1, <2>4, <3>1
  <2>6. SubSeq(v, k, N + 1) = Append(SubSeq(w, k, N), x)
    <3> DEFINE a == SubSeq(v, k, N + 1)
               b == SubSeq(w, k, N)
               c == Append(b, x)
    <3>1. /\ a \in Seq(Pieces) /\ Len(a) = N + 2 - k
          /\ \A i \in 1..N + 2 - k : a[i] = v[k + i - 1]
      BY <1>1, <2>1
    <3>2. /\ b \in Seq(Pieces) /\ Len(b) = N + 1 - k
          /\ \A i \in 1..N + 1 - k : b[i] = w[k + i - 1]
      BY <1>1, <2>1
    <3> HIDE DEF a, b
    <3>3. /\ c \in Seq(Pieces) /\ Len(c) = N + 2 - k
          /\ \A i \in 1..N + 1 - k : c[i] = b[i]
          /\ c[N + 2 - k] = x
      <4>1. /\ c \in Seq(Pieces) /\ Len(c) = Len(b) + 1
            /\ \A i \in 1..Len(b) : c[i] = b[i]
            /\ c[Len(b) + 1] = x
        BY <3>2
      <4>2. Len(b) = N + 1 - k /\ Len(b) + 1 = N + 2 - k
        BY <1>1, <2>1, <3>2
      <4> QED BY <4>1, <4>2
    <3> HIDE DEF c
    <3>4. ASSUME NEW i \in 1..N + 2 - k PROVE a[i] = c[i]
      <4>1. CASE i = N + 2 - k
        <5>1. k + i - 1 = N + 1
          BY <1>1, <2>1, <4>1
        <5> QED BY <1>1, <3>1, <3>3, <4>1, <5>1
      <4>2. CASE i # N + 2 - k
        <5>1. i \in 1..N + 1 - k /\ k + i - 1 \in 1..N
          BY <1>1, <2>1, <4>2
        <5>2. a[i] = v[k + i - 1] /\ c[i] = w[k + i - 1]
          BY <3>1, <3>2, <3>3, <5>1
        <5> QED BY <1>1, <5>1, <5>2
      <4> QED BY <4>1, <4>2
    <3>5. a = c
      BY <3>1, <3>3, <3>4
    <3> QED BY <3>5 DEF a, b, c
  <2>7. FromFirstKey(v) = SubSeq(v, k, N + 1)
    BY <1>1, <2>2, <2>5 DEF FromFirstKey, l
  <2>8. FromFirstKey(w) = SubSeq(w, k, N)
    BY <1>3 DEF FromFirstKey, k
  <2> HIDE DEF N
  <2> QED BY <1>3, <2>2, <2>6, <2>7, <2>8 DEF v
<1>4. CASE Keys(w) = {}
  <2>1. FromFirstKey(w) = <<>>
    BY <1>4 DEF FromFirstKey
  <2>2. CASE x[2].key
    <3>1. Keys(v) = {N + 1}
      BY <1>2, <1>4, <2>2
    <3>2. First(v) = N + 1
      BY <3>1, <1>1
    <3>3. FromFirstKey(v) = SubSeq(v, N + 1, N + 1)
      BY <1>1, <3>1, <3>2 DEF FromFirstKey
    <3>4. SubSeq(v, N + 1, N + 1) = <<x>>
      <4> DEFINE a == SubSeq(v, N + 1, N + 1)
                 b == <<x>>
      <4>1. a \in Seq(Pieces) /\ Len(a) = 1 /\ a[1] = v[N + 1]
        BY <1>1
      <4>2. b \in Seq(Pieces) /\ Len(b) = 1 /\ b[1] = x
        OBVIOUS
      <4> HIDE DEF a, b
      <4>3. \A i \in 1..1 : a[i] = b[i]
        BY <1>1, <4>1, <4>2
      <4>4. a = b
        BY <4>1, <4>2, <4>3
      <4> QED BY <4>4 DEF a, b
    <3>5. Append(<<>>, x) = <<x>>
      OBVIOUS
    <3> QED BY <2>1, <2>2, <3>1, <3>3, <3>4, <3>5 DEF v
  <2>3. CASE ~x[2].key
    <3>1. Keys(v) = {}
      BY <1>2, <1>4, <2>3
    <3> QED BY <1>4, <2>3, <3>1 DEF v, FromFirstKey
  <2> QED BY <2>2, <2>3
<1> QED BY <1>3, <1>4

-----------------------------------------------------------------------------
(* The window, as far as it is read: the files before c, and in file c the *)
(* packets before n.                                                       *)

Read(c, n) ==
  Windows(SubSeq(pathFiles, 1, c - 1))
    \o Kept(SubSeq(Packets(pathFiles[c]), 1, n - 1), Inside(pathFiles[c]))

LEMMA ReadFacts ==
  ASSUME pathFiles \in Seq(Recording), NEW c \in 1..Len(pathFiles),
         NEW n \in 1..Len(pathFiles[c].pkts) + 1
  PROVE  /\ Read(c, n) \in Seq(Pieces)
         /\ n <= Len(pathFiles[c].pkts) =>
              LET x == <<pathFiles[c], pathFiles[c].pkts[n]>>
              IN  /\ x \in Pieces
                  /\ Read(c, n + 1) = IF start <= At(x[1], x[2]) /\ At(x[1], x[2]) <= end
                                      THEN Append(Read(c, n), x) ELSE Read(c, n)
         /\ n = Len(pathFiles[c].pkts) + 1 =>
              /\ Read(c, n) = Windows(SubSeq(pathFiles, 1, c))
              /\ c < Len(pathFiles) => Read(c + 1, 1) = Read(c, n)
<1> DEFINE f == pathFiles[c]
           s == Packets(f)
           S == Inside(f)
           past == Windows(SubSeq(pathFiles, 1, c - 1))
           L == Len(f.pkts)
<1>1. f \in Recording /\ c - 1 \in 0..Len(pathFiles) - 1 /\ (c - 1) + 1 = c
  OBVIOUS
<1>2. s \in Seq(Pieces) /\ Len(s) = L /\ L \in Nat
  BY <1>1, PacketsFacts
<1>3. past \in Seq(Pieces)
  <2>1. SubSeq(pathFiles, 1, c - 1) \in Seq(Recording)
    BY <1>1, PrefixFacts
  <2> QED BY <2>1, WindowsFacts
<1>4. n - 1 \in 0..L /\ n \in Nat /\ n >= 1 /\ n <= L + 1
  BY <1>2
<1>5. Read(c, n) \in Seq(Pieces)
  <2>1. SubSeq(s, 1, n - 1) \in Seq(Pieces)
    BY <1>2, <1>4, PrefixFacts
  <2> DEFINE k == Kept(SubSeq(s, 1, n - 1), S)
  <2>2. k \in Seq(Pieces)
    BY <2>1, KeptFacts
  <2>3. Read(c, n) = past \o k
    BY DEF Read
  <2> HIDE DEF past, k
  <2> QED BY <1>3, <2>2, <2>3
<1>6. ASSUME n <= L
      PROVE  LET x == <<f, f.pkts[n]>>
             IN  /\ x \in Pieces
                 /\ Read(c, n + 1) = IF start <= At(x[1], x[2]) /\ At(x[1], x[2]) <= end
                                     THEN Append(Read(c, n), x) ELSE Read(c, n)
  <2> DEFINE x == <<f, f.pkts[n]>>
             t == SubSeq(s, 1, n - 1)
             k == Kept(t, S)
  <2>1. n \in 1..L
    BY <1>4, <1>6
  <2>2. s[n] = x /\ x \in Pieces
    BY <1>1, <2>1, PacketsFacts DEF Pieces
  <2>3. x \in S <=> start <= At(x[1], x[2]) /\ At(x[1], x[2]) <= end
    <3>1. x \in Range(s)
      BY <1>1, <2>1, PacketsFacts
    <3> QED BY <3>1 DEF Inside
  <2>4. t \in Seq(Pieces) /\ SubSeq(s, 1, n) = Append(t, x)
    <3> DEFINE m == n - 1
    <3>1. m \in 0..Len(s) - 1 /\ m \in 0..Len(s) /\ m + 1 = n
      BY <1>2, <2>1
    <3> HIDE DEF m, s
    <3>2. SubSeq(s, 1, m) \in Seq(Pieces) /\ SubSeq(s, 1, m + 1) = Append(SubSeq(s, 1, m), s[m + 1])
      BY <1>2, <3>1, PrefixFacts
    <3> QED BY <2>2, <3>1, <3>2 DEF m
  <2>5. Read(c, n) = past \o k
    BY DEF Read
  <2>6. Read(c, n + 1) = past \o Kept(SubSeq(s, 1, n), S)
    <3>1. (n + 1) - 1 = n
      BY <1>4
    <3> QED BY <3>1 DEF Read
  <2> HIDE DEF past, s, S, t
  <2>7. Kept(Append(t, x), S) = IF x \in S THEN Append(k, x) ELSE k
    <3> HIDE DEF x
    <3> QED BY <2>2, <2>4, KeptNext
  <2>8. k \in Seq(Pieces)
    BY <2>4, KeptFacts
  <2> HIDE DEF k, x
  <2>9. past \o Append(k, x) = Append(past \o k, x)
    BY <1>3, <2>2, <2>8
  <2>10. Read(c, n + 1) = IF x \in S THEN Append(Read(c, n), x) ELSE Read(c, n)
    BY <2>4, <2>5, <2>6, <2>7, <2>9
  <2> QED BY <2>2, <2>3, <2>10 DEF x
<1>7. ASSUME n = L + 1
      PROVE  /\ Read(c, n) = Windows(SubSeq(pathFiles, 1, c))
             /\ c < Len(pathFiles) => Read(c + 1, 1) = Read(c, n)
  <2>1. Read(c, n) = past \o Window(f)
    <3>1. n - 1 = L
      BY <1>2, <1>7
    <3>2. SubSeq(s, 1, n - 1) = s
      BY <1>2, <3>1, PrefixFacts
    <3> QED BY <3>2 DEF Read, Window
  <2>2. Windows(SubSeq(pathFiles, 1, c)) = past \o Window(f)
    <3> DEFINE m == c - 1
               g == SubSeq(pathFiles, 1, m)
    <3>1. m \in 0..Len(pathFiles) - 1 /\ m \in 0..Len(pathFiles) /\ m + 1 = c
      BY <1>1
    <3> HIDE DEF m
    <3>2. g \in Seq(Recording) /\ SubSeq(pathFiles, 1, m + 1) = Append(g, pathFiles[m + 1])
      BY <3>1, PrefixFacts
    <3> HIDE DEF g
    <3>3. Windows(Append(g, f)) = Windows(g) \o Window(f)
      <4> HIDE DEF f
      <4> QED BY <1>1, <3>2, WindowsFacts
    <3> QED BY <3>1, <3>2, <3>3 DEF g, m
  <2>3. ASSUME c < Len(pathFiles) PROVE Read(c + 1, 1) = Windows(SubSeq(pathFiles, 1, c))
    <3> DEFINE g == pathFiles[c + 1]
               w == Windows(SubSeq(pathFiles, 1, c))
    <3>1. g \in Recording /\ (c + 1) - 1 = c /\ 1 - 1 = 0
      BY <2>3
    <3>2. SubSeq(Packets(g), 1, 0) = <<>>
      BY <3>1, PacketsFacts, PrefixFacts
    <3>3. Kept(<<>>, Inside(g)) = <<>>
      <4>1. Packets(g) \in Seq(Pieces)
        BY <3>1, PacketsFacts
      <4> QED BY <4>1, KeptFacts
    <3>4. w \in Seq(Pieces)
      <4>1. SubSeq(pathFiles, 1, c) \in Seq(Recording)
        BY PrefixFacts
      <4> QED BY <4>1, WindowsFacts
    <3>5. Read(c + 1, 1) = w \o <<>>
      BY <3>1, <3>2, <3>3 DEF Read
    <3> HIDE DEF w
    <3>6. w \o <<>> = w
      BY <3>4
    <3> QED BY <3>5, <3>6 DEF w
  <2> QED BY <2>1, <2>2, <2>3
<1> QED BY <1>5, <1>6, <1>7

LEMMA ReadNone ==
  ASSUME pathFiles \in Seq(Recording), pathFiles # <<>>
  PROVE  Read(1, 1) = <<>>
<1> DEFINE g == pathFiles[1]
<1>1. g \in Recording /\ 1 - 1 = 0
  OBVIOUS
<1>2. SubSeq(Packets(g), 1, 0) = <<>>
  BY <1>1, PacketsFacts, PrefixFacts
<1>3. Kept(<<>>, Inside(g)) = <<>>
  <2>1. Packets(g) \in Seq(Pieces)
    BY <1>1, PacketsFacts
  <2> QED BY <2>1, KeptFacts
<1>4. Windows(SubSeq(pathFiles, 1, 0)) = <<>>
  <2>1. SubSeq(pathFiles, 1, 0) = <<>>
    BY PrefixFacts
  <2> QED BY <2>1, WindowsFacts
<1>5. <<>> \o <<>> = <<>>
  OBVIOUS
<1> QED BY <1>1, <1>2, <1>3, <1>4, <1>5 DEF Read

\* While the request stands, what is read depends on the place alone.
LEMMA ReadFrame ==
  ASSUME UNCHANGED <<pathFiles, start, end>>
  PROVE  ReadWindow' = Read(count', next')
BY DEF ReadWindow, Read, Windows, Window, Inside, Channel, Packets, At

-----------------------------------------------------------------------------
(* The invariant.                                                          *)

Inv == TypeOK /\ PlaceInv /\ SentInv /\ TimesInv /\ TimesKept

\* The packet that is next, while there is one.
LEMMA PckFacts ==
  ASSUME TypeOK, PlaceInv, pathFiles # <<>>
  PROVE  /\ count \in 1..Len(pathFiles) /\ Channel \in Recording
         /\ Len(Channel.pkts) \in Nat /\ next \in 1..Len(Channel.pkts) + 1
         /\ ~AtEof => next \in 1..Len(Channel.pkts) /\ Pck \in Packet /\ Pck.t \in Nat
         /\ AtEof => next = Len(Channel.pkts) + 1
         /\ ReadWindow = Read(count, next) /\ ReadWindow \in Seq(Pieces)
         /\ ~AtEof => Read(count, next + 1) = IF InWindow THEN Append(ReadWindow, <<Channel, Pck>>)
                                              ELSE ReadWindow
         /\ ~AtEof => <<Channel, Pck>> \in Pieces
<1>1. count \in 1..Len(pathFiles) /\ pathFiles \in Seq(Recording)
  BY DEF TypeOK, PlaceInv
<1>2. Channel \in Recording /\ Channel = pathFiles[count]
  BY <1>1 DEF Channel
<1>3. Len(Channel.pkts) \in Nat /\ Channel.pkts \in Seq(Packet)
  BY <1>2 DEF Recording
<1>4. next \in 1..Len(Channel.pkts) + 1
  BY <1>3 DEF TypeOK, PlaceInv
<1>5. AtEof => next = Len(Channel.pkts) + 1
  BY <1>3, <1>4 DEF AtEof
<1>6. ASSUME ~AtEof
      PROVE  next \in 1..Len(Channel.pkts) /\ Pck \in Packet /\ Pck.t \in Nat
  <2>1. next \in 1..Len(Channel.pkts)
    BY <1>3, <1>4, <1>6 DEF AtEof
  <2>2. Pck \in Packet
    BY <1>3, <2>1 DEF Pck
  <2> QED BY <2>1, <2>2 DEF Packet
<1>7. ReadWindow = Read(count, next)
  BY DEF ReadWindow, Read, Channel
<1>8. ReadWindow \in Seq(Pieces)
  BY <1>1, <1>2, <1>4, <1>7, ReadFacts
<1>9. ASSUME ~AtEof
      PROVE  /\ <<Channel, Pck>> \in Pieces
             /\ Read(count, next + 1) = IF InWindow THEN Append(ReadWindow, <<Channel, Pck>>)
                                        ELSE ReadWindow
  <2>1. <<Channel, Pck>> \in Pieces
    BY <1>2, <1>6, <1>9 DEF Pieces
  <2>2. next \in 1..Len(pathFiles[count].pkts) + 1 /\ next <= Len(pathFiles[count].pkts)
    BY <1>2, <1>3, <1>6, <1>9
  <2> DEFINE x == <<pathFiles[count], pathFiles[count].pkts[next]>>
  <2>3. Read(count, next + 1)
          = IF start <= At(x[1], x[2]) /\ At(x[1], x[2]) <= end
            THEN Append(Read(count, next), x) ELSE Read(count, next)
    BY <1>1, <2>2, ReadFacts
  <2>4. x = <<Channel, Pck>> /\ x[1] = Channel /\ x[2] = Pck
    BY DEF Channel, Pck
  <2> HIDE DEF x
  <2> QED BY <1>7, <2>1, <2>3, <2>4 DEF InWindow
<1> QED BY <1>1, <1>2, <1>3, <1>4, <1>5, <1>6, <1>7, <1>8, <1>9

\* The muxer gets one more packet.
LEMMA SentNext ==
  ASSUME pathFiles \in Seq(Recording), exported \in Seq(Nat \X Packet \X Nat),
         NEW c \in Nat, NEW k \in Packet, NEW t \in Nat,
         exported' = Append(exported, <<c, k, t>>), pathFiles' = pathFiles
  PROVE  /\ Sent' = Append(Sent, <<pathFiles[c], k>>)
         /\ Len(exported') = Len(exported) + 1 /\ Len(exported) \in Nat
         /\ exported'[Len(exported) + 1] = <<c, k, t>>
         /\ \A i \in 1..Len(exported) : exported'[i] = exported[i]
<1> DEFINE N == Len(exported)
           e == exported'
           Piece(x) == <<pathFiles[x[1]], x[2]>>
           V == {Piece(x) : x \in Nat \X Packet \X Nat}
<1>1. /\ e \in Seq(Nat \X Packet \X Nat) /\ Len(e) = N + 1 /\ N \in Nat
      /\ e[N + 1] = <<c, k, t>>
      /\ \A i \in 1..N : e[i] = exported[i]
      /\ DOMAIN e = 1..N + 1 /\ DOMAIN exported = 1..N
  OBVIOUS
<1>2. Sent = [i \in 1..N |-> Piece(exported[i])] /\ Sent' = [i \in 1..N + 1 |-> Piece(e[i])]
  BY <1>1 DEF Sent
<1> HIDE DEF e
<1>3. \A i \in 1..N + 1 : e[i] \in Nat \X Packet \X Nat /\ Piece(e[i]) \in V
  BY <1>1
<1>4. \A i \in 1..N : Piece(exported[i]) \in V
  BY <1>1, <1>3
<1>5. Piece(e[N + 1]) = <<pathFiles[c], k>>
  BY <1>1
<1> HIDE DEF V, Piece, N
<1> DEFINE a == Sent
           b == Sent'
           y == <<pathFiles[c], k>>
<1>6. a \in Seq(V) /\ Len(a) = N /\ \A i \in 1..N : a[i] = Piece(exported[i])
  BY <1>1, <1>2, <1>4
<1>7. b \in Seq(V) /\ Len(b) = N + 1 /\ \A i \in 1..N + 1 : b[i] = Piece(e[i])
  BY <1>1, <1>2, <1>3
<1>8. y \in V
  <2>1. N + 1 \in 1..N + 1
    BY <1>1
  <2> QED BY <1>3, <1>5, <2>1
<1> HIDE DEF a, b, y
<1>9. b = Append(a, y)
  <2> DEFINE d == Append(a, y)
  <2>1. d \in Seq(V) /\ Len(d) = N + 1 /\ d[N + 1] = y /\ \A i \in 1..N : d[i] = a[i]
    BY <1>1, <1>6, <1>8
  <2> HIDE DEF d
  <2>2. ASSUME NEW i \in 1..N + 1 PROVE d[i] = b[i]
    <3>1. CASE i = N + 1
      BY <1>5, <1>7, <2>1, <3>1 DEF y
    <3>2. CASE i # N + 1
      <4>1. i \in 1..N
        BY <1>1, <3>2
      <4> QED BY <1>1, <1>6, <1>7, <2>1, <4>1
    <3> QED BY <3>1, <3>2
  <2>3. b \in Seq(V) /\ d \in Seq(V) /\ Len(b) = Len(d) /\ \A i \in 1..Len(d) : d[i] = b[i]
    BY <1>7, <2>1, <2>2
  <2>4. b = d
    BY <2>3
  <2> QED BY <2>4 DEF d
<1> QED BY <1>1, <1>9 DEF a, b, y, e, N

LEMMA InitInv == Init => Inv
<1> SUFFICES ASSUME Init PROVE Inv
  OBVIOUS
<1>1. dirs \in Seq(Seq(Recording)) /\ start \in Times /\ end \in Times
  BY ArchivesAssumption, TimesAssumption DEF Init
<1>2. pathFiles = Chosen
  BY DEF Init, Chosen
<1>3. pathFiles \in Seq(Recording)
  BY <1>1, <1>2, FilesType
<1>0. /\ checkDuration \in BOOLEAN
      /\ count = 1 /\ next = 1 /\ keyframe = FALSE /\ totalTime = 0 /\ last = 0
      /\ spc = "none"
      /\ hpc = (IF pathFiles = <<>> THEN "notFound" ELSE "header")
      /\ exported = <<>>
      /\ pathFiles = files(dirs, start, end, fileStart, checkDuration)
  BY DEF Init
<1>4. TypeOK
  <2>1. spc = "none" /\ hpc \in {"header", "notFound"}
    BY <1>0
  <2>2. exported \in Seq(Nat \X Packet \X Nat)
    BY <1>0
  <2>3. count \in Nat \ {0} /\ next \in Nat \ {0} /\ totalTime \in Nat /\ last \in Nat
    BY <1>0
  <2>4. keyframe \in BOOLEAN /\ checkDuration \in BOOLEAN
    BY <1>0
  <2> QED BY <1>1, <1>3, <2>1, <2>2, <2>3, <2>4 DEF TypeOK
<1>5. ASSUME pathFiles # <<>>
      PROVE  count <= Len(pathFiles) /\ next <= Len(Channel.pkts) + 1
  <2>1. 1 \in 1..Len(pathFiles)
    BY <1>3, <1>5
  <2>2. pathFiles[1] \in Recording
    BY <1>3, <2>1
  <2>3. Len(pathFiles[1].pkts) \in Nat
    BY <2>2 DEF Recording
  <2> QED BY <1>0, <1>3, <1>5, <2>1, <2>3 DEF Channel
<1>6. PlaceInv
  BY <1>0, <1>5 DEF PlaceInv
<1>7. ASSUME pathFiles # <<>> PROVE ReadWindow = <<>>
  <2>1. ReadWindow = Read(1, 1)
    BY <1>0 DEF ReadWindow, Read, Channel
  <2> QED BY <1>3, <1>7, <2>1, ReadNone
<1>8. SentInv
  <2>1. Sent = <<>>
    BY <1>0 DEF Sent
  <2>2. Keys(<<>>) = {} /\ FromFirstKey(<<>>) = <<>>
    BY DEF Keys, FromFirstKey
  <2> QED BY <1>0, <1>7, <2>1, <2>2 DEF SentInv
<1>9. TimesInv /\ TimesKept
  BY <1>0 DEF TimesInv, TimesKept
<1> QED BY <1>4, <1>6, <1>8, <1>9 DEF Inv

\* A step that sends nothing leaves what was sent.
LEMMA SentFrame ==
  ASSUME UNCHANGED <<pathFiles, exported>>, TimesKept
  PROVE  Sent' = Sent /\ TimesKept'
BY DEF Sent, TimesKept

\* A step that reads nothing and sends nothing leaves the rest as it was.
LEMMA StillStep ==
  ASSUME Inv, UNCHANGED <<selection, sender, exported>>, TypeOK', PlaceInv',
         hpc = "panicked" => hpc' = "panicked", spc = "send" <=> spc' = "send",
         spc \in {"close", "done"} => spc' \in {"close", "done"}
  PROVE  Inv'
<1> USE DEF selection, sender
<1>1. Sent' = Sent /\ TimesKept'
  BY SentFrame DEF Inv
<1>2. pathFiles # <<>> => ReadWindow' = ReadWindow
  <2>1. ReadWindow' = Read(count, next)
    BY ReadFrame
  <2> QED BY <2>1, PckFacts DEF Inv
<1>3. pathFiles # <<>> => /\ (Keys(ReadWindow) # {})' <=> Keys(ReadWindow) # {}
                          /\ FromFirstKey(ReadWindow)' = FromFirstKey(ReadWindow)
  BY <1>2 DEF Keys, FromFirstKey
<1>4. Pck' = Pck
  BY DEF Pck, Channel
<1>5. SentInv'
  BY <1>1, <1>3, <1>4 DEF Inv, SentInv
<1>6. TimesInv'
  BY DEF Inv, TimesInv
<1> QED BY <1>1, <1>5, <1>6 DEF Inv

\* The handler before send, send between two files, and the end of both.
LEMMA ControlStep ==
  Inv /\ (Header \/ HeaderRefused \/ HeaderPanics \/ Open \/ OpenFails \/ Close) => Inv'
<1> SUFFICES ASSUME Inv, Header \/ HeaderRefused \/ HeaderPanics \/ Open \/ OpenFails \/ Close
             PROVE  Inv'
  OBVIOUS
<1> USE DEF request, selection, sender
<1>1. TypeOK /\ PlaceInv /\ pathFiles # <<>>
  BY DEF Inv, PlaceInv, Header, HeaderRefused, HeaderPanics, Open, OpenFails, Close
<1>2. UNCHANGED <<selection, sender, exported>>
  BY DEF Header, HeaderRefused, HeaderPanics, Open, OpenFails, Close
<1>3. /\ hpc # "panicked" \/ hpc' = "panicked"
      /\ spc # "send" /\ spc' # "send"
      /\ spc \in {"close", "done"} => spc' \in {"close", "done"}
  BY <1>1 DEF PlaceInv, Header, HeaderRefused, HeaderPanics, Open, OpenFails, Close
<1>4. TypeOK'
  BY <1>1 DEF TypeOK, Header, HeaderRefused, HeaderPanics, Open, OpenFails, Close
<1>5. PlaceInv'
  <2>1. /\ hpc' # "notFound" /\ (hpc' = "header" => spc' = "none")
        /\ spc' = "done" <=> hpc' = "done"
        /\ spc' \in {"close", "done"} => spc \in {"close", "done"}
    BY <1>1 DEF PlaceInv, Header, HeaderRefused, HeaderPanics, Open, OpenFails, Close
  <2> QED BY <1>1, <1>2, <1>3, <2>1 DEF PlaceInv, Channel, AtEof
<1> QED BY <1>2, <1>3, <1>4, <1>5, StillStep

\* The end of a file: what is read stays, the times go on.
LEMMA NextFileStep == Inv /\ NextFile => Inv'
<1> SUFFICES ASSUME Inv, NextFile PROVE Inv'
  OBVIOUS
<1> USE DEF request, selection
<1>1. TypeOK /\ PlaceInv /\ SentInv /\ TimesInv /\ TimesKept /\ pathFiles # <<>>
  BY DEF Inv, NextFile, PlaceInv
<1>2. count \in 1..Len(pathFiles) /\ next = Len(Channel.pkts) + 1
      /\ ReadWindow = Read(count, next)
  BY <1>1, PckFacts DEF NextFile
<1>3. TypeOK'
  BY <1>1 DEF NextFile, TypeOK
<1>4. PlaceInv'
  <2>1. count + 1 \in 1..Len(pathFiles) /\ pathFiles \in Seq(Recording)
    BY <1>1, <1>2 DEF NextFile, TypeOK
  <2>2. pathFiles[count + 1] \in Recording
    BY <2>1
  <2>3. Len(pathFiles[count + 1].pkts) \in Nat
    BY <2>2 DEF Recording
  <2>4. (next <= Len(Channel.pkts) + 1)'
    BY <2>3 DEF NextFile, Channel
  <2> QED BY <1>1, <2>1, <2>4 DEF NextFile, PlaceInv
<1>5. ReadWindow' = ReadWindow
  <2>1. ReadWindow' = Read(count + 1, 1)
    BY ReadFrame DEF NextFile
  <2>2. pathFiles \in Seq(Recording) /\ count < Len(pathFiles)
        /\ next \in 1..Len(pathFiles[count].pkts) + 1
        /\ next = Len(pathFiles[count].pkts) + 1
    BY <1>1, <1>2, PckFacts DEF NextFile, TypeOK, Channel
  <2>3. Read(count + 1, 1) = Read(count, next)
    BY <1>2, <2>2, ReadFacts
  <2> QED BY <1>2, <2>1, <2>3
<1>6. Sent' = Sent /\ TimesKept'
  BY <1>1, SentFrame DEF NextFile
<1>7. SentInv'
  <2> USE DEF Keys, FromFirstKey
  <2>1. (Keys(ReadWindow) # {})' <=> Keys(ReadWindow) # {}
    BY <1>5
  <2>2. FromFirstKey(ReadWindow)' = FromFirstKey(ReadWindow)
    BY <1>5
  <2> HIDE DEF Keys, FromFirstKey
  <2> QED BY <1>1, <1>6, <2>1, <2>2 DEF NextFile, SentInv
<1>8. TimesInv'
  <2> DEFINE x == exported[Len(exported)]
  <2>1. x' = x
    BY DEF NextFile
  <2>2. pathFiles # <<>> /\ hpc # "panicked" /\ exported # <<>> =>
          x[3] = last /\ x[1] <= count /\ x[1] \in Nat
    <3>1. exported # <<>> => x \in Nat \X Packet \X Nat
      BY <1>1 DEF TypeOK
    <3> QED BY <1>1, <3>1 DEF TimesInv
  <2> HIDE DEF x
  <2>3. count \in Nat
    BY <1>1 DEF TypeOK
  <2> QED BY <2>1, <2>2, <2>3 DEF NextFile, TimesInv, x
<1> QED BY <1>3, <1>4, <1>6, <1>7, <1>8 DEF Inv

LEMMA LastFileStep == Inv /\ LastFile => Inv'
<1> SUFFICES ASSUME Inv, LastFile PROVE Inv'
  OBVIOUS
<1> USE DEF request, selection
<1>1. TypeOK /\ PlaceInv /\ SentInv /\ TimesInv /\ TimesKept /\ pathFiles # <<>>
  BY DEF Inv, LastFile, PlaceInv
<1>2. TypeOK'
  BY <1>1 DEF LastFile, TypeOK
<1>3. PlaceInv'
  BY <1>1 DEF LastFile, PlaceInv, Channel, AtEof
<1>4. ReadWindow' = ReadWindow
  <2>1. ReadWindow' = Read(count, next)
    BY ReadFrame DEF LastFile
  <2> QED BY <1>1, <2>1, PckFacts
<1>5. Sent' = Sent /\ TimesKept'
  BY <1>1, SentFrame DEF LastFile
<1>6. SentInv'
  <2>1. (Keys(ReadWindow) # {})' <=> Keys(ReadWindow) # {}
    BY <1>4 DEF Keys
  <2>2. FromFirstKey(ReadWindow)' = FromFirstKey(ReadWindow)
    BY <1>4 DEF FromFirstKey, Keys
  <2> QED BY <1>1, <1>5, <2>1, <2>2 DEF LastFile, SentInv
<1>7. TimesInv'
  BY <1>1 DEF LastFile, TimesInv
<1> QED BY <1>2, <1>3, <1>5, <1>6, <1>7 DEF Inv

\* A packet that is passed over is not in the window, or the gate is shut.
LEMMA SkipStep == Inv /\ Skip => Inv'
<1> SUFFICES ASSUME Inv, Skip PROVE Inv'
  OBVIOUS
<1> USE DEF request, selection
<1>1. TypeOK /\ PlaceInv /\ SentInv /\ TimesInv /\ TimesKept /\ pathFiles # <<>>
  BY DEF Inv, Skip, PlaceInv
<1>2. ~AtEof /\ next \in 1..Len(Channel.pkts) /\ Len(Channel.pkts) \in Nat
  BY <1>1, PckFacts DEF Skip
<1>3. TypeOK'
  BY <1>1 DEF Skip, TypeOK
<1>4. PlaceInv'
  <2>1. (next <= Len(Channel.pkts) + 1)'
    BY <1>2 DEF Skip, Channel
  <2> QED BY <1>1, <2>1 DEF Skip, PlaceInv
<1> DEFINE x == <<Channel, Pck>>
           w == ReadWindow
<1>5. /\ w \in Seq(Pieces) /\ x \in Pieces /\ x[2] = Pck
      /\ ReadWindow' = IF InWindow THEN Append(w, x) ELSE w
  <2>1. ReadWindow' = Read(count, next + 1)
    BY ReadFrame DEF Skip
  <2> QED BY <1>1, <1>2, <2>1, PckFacts
<1>6. Sent' = Sent /\ TimesKept'
  BY <1>1, SentFrame DEF Skip
<1>7. ASSUME hpc # "panicked"
      PROVE  /\ (Keys(ReadWindow) # {})' <=> Keys(ReadWindow) # {}
             /\ FromFirstKey(ReadWindow)' = FromFirstKey(ReadWindow)
  <2>1. CASE ReadWindow' = w
    BY <2>1 DEF FromFirstKey, Keys
  <2>2. CASE InWindow
    <3>1. ~x[2].key /\ Keys(w) = {}
      BY <1>1, <1>5, <1>7, <2>2 DEF Skip, SentInv
    <3>2. ReadWindow' = Append(w, x)
      BY <1>5, <2>2
    <3>3. FromFirstKey(w) = <<>>
      BY <3>1 DEF FromFirstKey
    <3> HIDE DEF x, w
    <3>4. Keys(Append(w, x)) = {} /\ FromFirstKey(Append(w, x)) = <<>>
      BY <1>5, <3>1, FirstKeyNext
    <3>5. Keys(ReadWindow)' = {} /\ FromFirstKey(ReadWindow)' = <<>>
      BY <3>2, <3>4 DEF Keys, FromFirstKey
    <3> QED BY <3>1, <3>3, <3>5 DEF w
  <2> QED BY <1>5, <2>1, <2>2
<1>8. SentInv'
  BY <1>1, <1>6, <1>7 DEF Skip, SentInv
<1>9. TimesInv'
  BY <1>1 DEF Skip, TimesInv
<1> QED BY <1>3, <1>4, <1>6, <1>8, <1>9 DEF Inv

\* Holding a packet out opens the gate.
LEMMA OfferStep == Inv /\ Offer => Inv'
<1> SUFFICES ASSUME Inv, Offer PROVE Inv'
  OBVIOUS
<1> USE DEF request, selection
<1>1. TypeOK /\ PlaceInv /\ SentInv /\ TimesInv /\ TimesKept /\ pathFiles # <<>>
  BY DEF Inv, Offer, PlaceInv
<1>2. TypeOK'
  BY <1>1 DEF Offer, TypeOK
<1>3. PlaceInv'
  BY <1>1 DEF Offer, PlaceInv, Channel, AtEof, Pck, InWindow, At
<1>4. ReadWindow' = ReadWindow /\ Pck' = Pck
  <2>1. ReadWindow' = Read(count, next)
    BY ReadFrame DEF Offer
  <2> QED BY <1>1, <2>1, PckFacts DEF Offer, Pck, Channel
<1>5. Sent' = Sent /\ TimesKept'
  BY <1>1, SentFrame DEF Offer
<1>6. SentInv'
  <2>1. (Keys(ReadWindow) # {})' <=> Keys(ReadWindow) # {}
    BY <1>4 DEF Keys
  <2>2. FromFirstKey(ReadWindow)' = FromFirstKey(ReadWindow)
    BY <1>4 DEF FromFirstKey, Keys
  <2> QED BY <1>1, <1>4, <1>5, <2>1, <2>2 DEF Offer, SentInv
<1>7. TimesInv'
  BY <1>1 DEF Offer, TimesInv
<1> QED BY <1>2, <1>3, <1>5, <1>6, <1>7 DEF Inv

\* The packet held out reaches the muxer, or stops the handler.
LEMMA DeliverStep == Inv /\ Deliver => Inv'
<1> SUFFICES ASSUME Inv, Deliver PROVE Inv'
  OBVIOUS
<1> USE DEF request, selection
<1>1. TypeOK /\ PlaceInv /\ SentInv /\ TimesInv /\ TimesKept /\ pathFiles # <<>>
  BY DEF Inv, Deliver, PlaceInv
<1>2. /\ ~AtEof /\ InWindow /\ keyframe
      /\ offer = <<Channel, Pck, Pck.t + totalTime>> /\ hpc # "panicked"
  BY <1>1 DEF Deliver, PlaceInv
<1>3. /\ next \in 1..Len(Channel.pkts) /\ Len(Channel.pkts) \in Nat
      /\ Pck \in Packet /\ Pck.t \in Nat
  BY <1>1, <1>2, PckFacts
<1> DEFINE time == Pck.t + totalTime
<1>4. time \in Nat /\ last' = time
  BY <1>1, <1>2, <1>3 DEF TypeOK, Deliver
<1>5. TypeOK'
  <2>1. exported' \in Seq(Nat \X Packet \X Nat)
    <3>1. <<count, offer[2], offer[3]>> \in Nat \X Packet \X Nat
      BY <1>1, <1>2, <1>3, <1>4 DEF TypeOK
    <3>2. \/ exported' = Append(exported, <<count, offer[2], offer[3]>>)
          \/ exported' = exported
      BY DEF Deliver
    <3>3. exported \in Seq(Nat \X Packet \X Nat)
      BY <1>1 DEF TypeOK
    <3> DEFINE z == <<count, offer[2], offer[3]>>
               Y == Nat \X Packet \X Nat
    <3> HIDE DEF time, z, Y
    <3>4. Append(exported, z) \in Seq(Y)
      BY <3>1, <3>3 DEF z, Y
    <3>5. exported' = Append(exported, z) \/ exported' = exported
      BY <3>2 DEF z
    <3> QED BY <3>3, <3>4, <3>5 DEF Y
  <2> HIDE DEF time
  <2> QED BY <1>1, <1>4, <2>1 DEF Deliver, TypeOK
<1>6. PlaceInv'
  <2>1. (next <= Len(Channel.pkts) + 1)'
    BY <1>3 DEF Deliver, Channel
  <2> QED BY <1>1, <2>1 DEF Deliver, PlaceInv
<1>7. CASE ~(offer[2].idx < tracks)
  <2>1. hpc' = "panicked" /\ UNCHANGED <<pathFiles, exported>>
    BY <1>7 DEF Deliver
  <2>2. TimesKept'
    BY <1>1, <2>1, SentFrame
  <2> QED BY <1>5, <1>6, <2>1, <2>2 DEF Inv, SentInv, TimesInv
<1>8. CASE offer[2].idx < tracks
  <2> DEFINE x == <<Channel, Pck>>
             w == ReadWindow
             N == Len(exported)
             e == exported'
  <2>1. exported' = Append(exported, <<count, Pck, time>>) /\ UNCHANGED <<hpc, pathFiles>>
    BY <1>2, <1>8 DEF Deliver
  <2>2. pathFiles \in Seq(Recording) /\ exported \in Seq(Nat \X Packet \X Nat) /\ count \in Nat
    BY <1>1 DEF TypeOK
  <2> HIDE DEF time
  <2>3. /\ Sent' = Append(Sent, x)
        /\ Len(e) = N + 1 /\ N \in Nat /\ e[N + 1] = <<count, Pck, time>>
        /\ \A i \in 1..N : e[i] = exported[i]
    BY <1>3, <1>4, <2>1, <2>2, SentNext DEF Channel
  <2>4. w \in Seq(Pieces) /\ x \in Pieces /\ x[2] = Pck /\ ReadWindow' = Append(w, x)
    <3>1. ReadWindow' = Read(count, next + 1)
      BY ReadFrame DEF Deliver
    <3> QED BY <1>1, <1>2, <3>1, PckFacts
  <2>5. Sent = FromFirstKey(w) /\ (x[2].key \/ Keys(w) # {})
    BY <1>1, <1>2, <2>4 DEF Deliver, SentInv
  <2>6. Keys(ReadWindow)' # {} /\ FromFirstKey(ReadWindow)' = Append(FromFirstKey(w), x)
    <3> HIDE DEF x, w
    <3>1. Keys(Append(w, x)) # {} /\ FromFirstKey(Append(w, x)) = Append(FromFirstKey(w), x)
      BY <2>4, <2>5, FirstKeyNext
    <3> QED BY <2>4, <3>1 DEF Keys, FromFirstKey
  <2>7. SentInv'
    BY <1>2, <2>3, <2>5, <2>6 DEF Deliver, SentInv
  <2>8. TimesInv'
    <3>1. e[Len(e)] = <<count, Pck, time>>
      BY <2>3
    <3>2. spc' = "read" /\ count' = count /\ totalTime' = totalTime
      BY DEF Deliver
    <3> HIDE DEF e
    <3>3. LET y == e[Len(e)]
          IN  y[1] = count /\ y[2] = Pck /\ y[3] = time
      BY <3>1
    <3> QED BY <1>4, <2>2, <3>2, <3>3 DEF TimesInv, e, time
  <2>9. TimesKept'
    <3> SUFFICES ASSUME NEW i \in 1..N + 1, i # 1
                 PROVE  LET a == e[i - 1]
                            b == e[i]
                        IN  IF a[1] = b[1] THEN b[3] - a[3] = b[2].t - a[2].t ELSE b[3] >= a[3]
      <4>1. DOMAIN e = 1..N + 1
        BY <2>1, <2>2
      <4> HIDE DEF e, N
      <4> QED BY <4>1 DEF TimesKept, e
    <3>1. CASE i \in 1..N
      <4>1. i - 1 \in 1..N /\ e[i] = exported[i] /\ e[i - 1] = exported[i - 1]
        BY <2>3, <3>1
      <4>2. i \in DOMAIN exported \ {1}
        BY <2>2, <3>1
      <4> HIDE DEF e
      <4> QED BY <1>1, <4>1, <4>2 DEF TimesKept
    <3>2. CASE i = N + 1
      <4> DEFINE a == exported[N]
      <4>1. N \in 1..N /\ e[i - 1] = a /\ a \in Nat \X Packet \X Nat /\ exported # <<>>
        BY <2>2, <2>3, <3>2
      <4>2. e[i] = <<count, Pck, time>>
        BY <2>3, <3>2
      <4>3. /\ a[3] = last
            /\ IF a[1] = count THEN last = a[2].t + totalTime ELSE totalTime = last
        BY <1>1, <1>2, <4>1 DEF TimesInv, Deliver
      <4>4. a[2].t \in Nat /\ a[3] \in Nat
        BY <4>1 DEF Packet
      <4>5. totalTime \in Nat /\ last \in Nat
        BY <1>1 DEF TypeOK
      <4>6. IF a[1] = count THEN time - a[3] = Pck.t - a[2].t ELSE time >= a[3]
        <5> HIDE DEF a
        <5> QED BY <1>3, <4>3, <4>4, <4>5 DEF time
      <4> HIDE DEF a, e
      <4>7. e[i][1] = count /\ e[i][2] = Pck /\ e[i][3] = time
        BY <4>2
      <4> QED BY <4>1, <4>6, <4>7
    <3> QED BY <2>3, <3>1, <3>2
  <2> QED BY <1>5, <1>6, <2>7, <2>8, <2>9 DEF Inv
<1> QED BY <1>7, <1>8

LEMMA Invariant == Spec => []Inv
<1>1. ASSUME Inv, UNCHANGED vars PROVE Inv'
  <2> USE DEF vars, request, selection, sender
  <2>1. TypeOK' /\ PlaceInv'
    BY <1>1 DEF Inv, TypeOK, PlaceInv, Channel, AtEof, Pck, InWindow, At
  <2> QED BY <1>1, <2>1, StillStep
<1>2. Inv /\ [Next]_vars => Inv'
  BY <1>1, ControlStep, NextFileStep, LastFileStep, SkipStep, OfferStep, DeliverStep DEF Next
<1> QED BY <1>2, InitInv, PTL DEF Spec

\* The types, where send is in the files, and what it holds out to the muxer.
THEOREM TypeCorrect == Spec => [](TypeOK /\ PlaceInv)
<1>1. Inv => TypeOK /\ PlaceInv
  BY DEF Inv
<1> QED BY <1>1, Invariant, PTL

\* An export that came to its end holds exactly the packets that were asked for,
\* but those of a lost recording, in their order and at times that go on, for any
\* archive and any request.
THEOREM ExportsTheWindow == Spec => []ExportIsWindow
<1>1. ASSUME Inv, spc = "done" \/ hpc \in {"done", "notFound"}, Consistent, Named
      PROVE  Sent = Wanted
  <2>1. TypeOK /\ PlaceInv /\ SentInv
    BY <1>1 DEF Inv
  <2>2. Windows(pathFiles) = Windows(Found)
    <3>1. pathFiles = Chosen
      BY <2>1 DEF PlaceInv, Chosen
    <3> QED BY <1>1, <2>1, <3>1, FilesGiveWindow DEF TypeOK
  <2>3. CASE pathFiles = <<>>
    <3>1. Windows(pathFiles) = <<>>
      <4>1. Windows(<<>>) = <<>>
        BY <2>1, WindowsFacts DEF TypeOK
      <4> QED BY <2>3, <4>1
    <3>2. Wanted = <<>>
      BY <2>2, <3>1 DEF Wanted, FromFirstKey, Keys
    <3>3. Sent = <<>>
      BY <2>1, <2>3 DEF PlaceInv, Sent
    <3> QED BY <3>2, <3>3
  <2>4. CASE pathFiles # <<>>
    <3>1. AtEof /\ count = Len(pathFiles) /\ hpc # "panicked"
      BY <1>1, <2>1, <2>4 DEF PlaceInv
    <3>2. /\ count \in 1..Len(pathFiles) /\ ReadWindow = Read(count, next)
          /\ next \in 1..Len(pathFiles[count].pkts) + 1
          /\ next = Len(pathFiles[count].pkts) + 1
      BY <2>1, <2>4, <3>1, PckFacts DEF Channel
    <3>3. pathFiles \in Seq(Recording)
      BY <2>1 DEF TypeOK
    <3>4. ReadWindow = Windows(SubSeq(pathFiles, 1, count))
      BY <3>2, <3>3, ReadFacts
    <3>5. SubSeq(pathFiles, 1, count) = pathFiles
      BY <3>1, <3>3, PrefixFacts
    <3> QED BY <2>1, <2>2, <2>4, <3>1, <3>4, <3>5 DEF SentInv, Wanted
  <2> QED BY <2>3, <2>4
<1>2. Inv => ExportIsWindow
  BY <1>1 DEF Inv, ExportIsWindow
<1> QED BY <1>2, Invariant, PTL
=============================================================================
