----------------------- MODULE ArchivePlaybackProofs -----------------------
(***************************************************************************)
(* Proofs about ArchivePlayback for any archive, request, filler, speed    *)
(* and Slack.                                                              *)
(*                                                                         *)
(* HeaderBeforePacket needs CodecInv, which follows the codecs from the    *)
(* worker over the first channel into the muxer.  InOrder needs to know    *)
(* which packet is on offer (OfferInv) and that the one played last lies   *)
(* behind the worker (PlayedInv), that the worker never goes back, and     *)
(* that what it plays is sorted (FilesStreamInOrder, for any archive).      *)
(*                                                                         *)
(* NearArchiveTime is the hard one.  The worker's archive time moves by    *)
(* the distance of two packets, but not when there is none before or when  *)
(* it was at time 0, and packets it passes over move it not at all.  So    *)
(* TimeInv says where the next packet can be measured from: either from    *)
(* an anchor, a packet or the beginning of the file that is not too early  *)
(* and after which no key frame was passed over, or from the packet        *)
(* before.  Measured from an anchor it is ahead by a wait of the file at   *)
(* most, which is what Lead bounds.                                        *)
(***************************************************************************)
EXTENDS ArchivePlayback, WellFoundedInduction, TLAPS

-----------------------------------------------------------------------------
(* What is played: what the recursive functions of ArchiveFiles compute.  The *)
(* library's induction theorems take an operator; the lemmas here take a set. *)

\* A set of numbers that is not empty has a least element.
LEMMA LeastNat ==
  ASSUME NEW S, S \subseteq Nat, S # {}
  PROVE  \E m \in S : \A n \in S : m <= n
<1> DEFINE R == OpToRel(<, Nat)
<1>1. IsWellFoundedOn(R, Nat)
  BY NatLessThanWellFounded, Zenon
<1>2. \A m, n \in Nat : <<m, n>> \in R <=> m < n
  BY DEF OpToRel
<1> HIDE DEF R
<1>3. PICK m \in S : \A n \in S : ~(<<n, m>> \in R)
  BY <1>1, WFMin, Zenon
<1>4. \A n \in S : ~(n < m)
  BY <1>2, <1>3
<1> QED BY <1>4

\* Induction over a set of numbers.
LEMMA Induction ==
  ASSUME NEW P, 0 \in P, \A n \in Nat : n \in P => n + 1 \in P
  PROVE  \A n \in Nat : n \in P
<1> DEFINE S == Nat \ P
<1>1. SUFFICES ASSUME S # {} PROVE FALSE
  OBVIOUS
<1>2. PICK n \in S : \A j \in S : n <= j
  <2>1. S \subseteq Nat
    OBVIOUS
  <2> HIDE DEF S
  <2> QED BY <1>1, <2>1, LeastNat
<1>3. n # 0 /\ n - 1 \in Nat /\ n - 1 \notin S
  BY <1>2
<1> QED BY <1>3

\* f unfolds the recursion that begins at base and goes on with step, up to n.
Unfolds(f, X, base, step, n) ==
  /\ f \in [0..n -> X]
  /\ f[0] = base
  /\ \A i \in 1..n : f[i] = step[i][f[i - 1]]

\* Every recursion on the numbers up to n has a solution.
LEMMA Recursion ==
  ASSUME NEW X, NEW base \in X, NEW step \in [Nat -> [X -> X]]
  PROVE  \A n \in Nat : \E f : Unfolds(f, X, base, step, n)
<1> DEFINE P == {n \in Nat : \E f : Unfolds(f, X, base, step, n)}
<1>1. 0 \in P
  <2>1. Unfolds([i \in 0..0 |-> base], X, base, step, 0)
    BY DEF Unfolds
  <2> QED BY <2>1
<1>2. ASSUME NEW n \in Nat, n \in P PROVE n + 1 \in P
  <2>1. PICK f : Unfolds(f, X, base, step, n)
    BY <1>2
  <2> DEFINE g == [i \in 0..n + 1 |-> IF i = n + 1 THEN step[n + 1][f[n]] ELSE f[i]]
  <2>2. Unfolds(g, X, base, step, n + 1)
    <3>1. f \in [0..n -> X] /\ step[n + 1][f[n]] \in X
      BY <2>1 DEF Unfolds
    <3>2. g \in [0..n + 1 -> X] /\ g[0] = base
      BY <2>1, <3>1 DEF Unfolds
    <3>3. ASSUME NEW i \in 1..n + 1
          PROVE  g[i] = step[i][g[i - 1]]
      <4>1. CASE i = n + 1
        <5>1. g[i] = step[n + 1][f[n]] /\ i - 1 = n /\ g[n] = f[n]
          BY <4>1
        <5> QED BY <4>1, <5>1
      <4>2. CASE i # n + 1
        <5>1. i \in 1..n /\ g[i] = f[i] /\ g[i - 1] = f[i - 1]
          BY <4>2
        <5> QED BY <2>1, <5>1 DEF Unfolds
      <4> QED BY <4>1, <4>2
    <3> HIDE DEF g
    <3> QED BY <3>2, <3>3 DEF Unfolds
  <2> QED BY <2>2
<1> HIDE DEF P
<1>3. \A n \in Nat : n \in P
  BY <1>1, <1>2, Induction
<1> QED BY <1>3 DEF P
-----------------------------------------------------------------------------
Sorted(s) == \A i, j \in DOMAIN s : i < j => s[i].start <= s[j].start
Holds(s, f) == \E i \in DOMAIN s : s[i] = f

\* A recording begins at an integer time.
LEMMA StartType == \A f \in Recording : f.start \in Int
  BY DEF Recording, Times

\* Insert puts one recording where it belongs.
LEMMA InsertSorts ==
  ASSUME NEW s \in Seq(Recording), NEW f \in Recording, Sorted(s)
  PROVE  /\ Insert(s, f) \in Seq(Recording)
         /\ Len(Insert(s, f)) = Len(s) + 1
         /\ Sorted(Insert(s, f))
         /\ \A g : Holds(Insert(s, f), g) <=> g = f \/ Holds(s, g)
<1> DEFINE Fits(k) == /\ \A i \in 1..k : s[i].start <= f.start
                      /\ k < Len(s) => s[k + 1].start > f.start
           k == CHOOSE k \in 0..Len(s) : Fits(k)
           r == Insert(s, f)
<1>0. /\ Len(s) \in Nat /\ DOMAIN s = 1..Len(s) /\ f.start \in Int
      /\ \A i \in 1..Len(s) : s[i] \in Recording /\ s[i].start \in Int
  BY StartType
<1>1. \E m \in 0..Len(s) : Fits(m)
  <2> DEFINE S == {i \in 1..Len(s) : s[i].start > f.start}
  <2>1. CASE S = {}
    <3>1. Fits(Len(s))
      BY <1>0, <2>1
    <3> QED BY <1>0, <3>1
  <2>2. CASE S # {}
    <3>1. PICK m \in S : \A i \in S : m <= i
      <4>1. S \subseteq Nat
        OBVIOUS
      <4> HIDE DEF S
      <4> QED BY <2>2, <4>1, LeastNat
    <3>2. Fits(m - 1)
      <4>1. m \in 1..Len(s) /\ s[m].start > f.start
        BY <3>1
      <4>2. \A i \in 1..m - 1 : s[i].start <= f.start
        <5> TAKE i \in 1..m - 1
        <5>1. i \in 1..Len(s) /\ i \notin S
          BY <1>0, <3>1, <4>1
        <5> QED BY <1>0, <5>1
      <4> QED BY <1>0, <4>1, <4>2
    <3> HIDE DEF Fits
    <3> QED BY <1>0, <3>1, <3>2
  <2> QED BY <2>1, <2>2
<1>2. k \in 0..Len(s) /\ Fits(k)
  BY <1>1
<1>3. r = SubSeq(s, 1, k) \o <<f>> \o SubSeq(s, k + 1, Len(s))
  BY DEF Insert
<1> HIDE DEF k, r
<1>4. /\ r \in Seq(Recording) /\ Len(r) = Len(s) + 1
      /\ \A i \in 1..Len(s) + 1 :
           r[i] = IF i <= k THEN s[i] ELSE IF i = k + 1 THEN f ELSE s[i - 1]
  <2> DEFINE a == SubSeq(s, 1, k)
             b == SubSeq(s, k + 1, Len(s))
             c == a \o <<f>>
  <2>1. /\ a \in Seq(Recording) /\ Len(a) = k
        /\ \A i \in 1..k : a[i] = s[i]
    BY <1>0, <1>2
  <2>2. /\ b \in Seq(Recording) /\ Len(b) = Len(s) - k
        /\ \A i \in 1..Len(s) - k : b[i] = s[k + i]
    <3>1. Len(s) \in Nat /\ k \in Nat /\ k <= Len(s) /\ s \in Seq(Recording)
      BY <1>0, <1>2
    <3>2. \A i \in k + 1..Len(s) : s[i] \in Recording
      BY <3>1
    <3>3. b \in Seq(Recording) /\ Len(b) = Len(s) - k
      BY <3>1, <3>2
    <3>4. b = [i \in 1..Len(s) - (k + 1) + 1 |-> s[i + (k + 1) - 1]]
      BY <3>1
    <3>5. \A i \in 1..Len(s) - k : b[i] = s[k + i]
      <4> TAKE i \in 1..Len(s) - k
      <4>1. i \in 1..Len(s) - (k + 1) + 1 /\ i + (k + 1) - 1 = k + i
        BY <3>1
      <4> HIDE DEF b
      <4> QED BY <3>4, <4>1
    <3> QED BY <3>3, <3>5
  <2> HIDE DEF a, b
  <2>3. /\ c \in Seq(Recording) /\ Len(c) = k + 1
        /\ \A i \in 1..k + 1 : c[i] = IF i = k + 1 THEN f ELSE s[i]
    BY <1>2, <2>1
  <2> HIDE DEF c
  <2>4. r = c \o b
    BY <1>3 DEF a, b, c
  <2>5. /\ r \in Seq(Recording) /\ Len(r) = Len(s) + 1
        /\ \A i \in 1..Len(s) + 1 : r[i] = IF i <= k + 1 THEN c[i] ELSE b[i - (k + 1)]
    BY <1>0, <1>2, <2>2, <2>3, <2>4
  <2>6. ASSUME NEW i \in 1..Len(s) + 1
        PROVE  r[i] = IF i <= k THEN s[i] ELSE IF i = k + 1 THEN f ELSE s[i - 1]
    <3>1. CASE i <= k + 1
      BY <1>0, <1>2, <2>3, <2>5, <3>1
    <3>2. CASE i > k + 1
      <4> DEFINE j == i - (k + 1)
      <4>1. j \in 1..Len(s) - k /\ k + j = i - 1
        <5> HIDE DEF Fits
        <5> QED BY <1>0, <1>2, <3>2
      <4>2. r[i] = b[j]
        BY <1>0, <1>2, <2>5, <3>2
      <4>3. b[j] = s[k + j]
        BY <2>2, <4>1
      <4> QED BY <1>0, <1>2, <3>2, <4>1, <4>2, <4>3
    <3> QED BY <1>0, <1>2, <3>1, <3>2
  <2> QED BY <2>5, <2>6
<1>5. Sorted(r)
  <2>1. ASSUME NEW i \in 1..Len(s) + 1, NEW j \in 1..Len(s) + 1, i < j
        PROVE  r[i].start <= r[j].start
    <3>1. \A a, b \in 1..Len(s) : a <= b => s[a].start <= s[b].start
      BY <1>0 DEF Sorted
    <3>2. \A a \in 1..Len(s) : a > k => s[a].start > f.start
      <4> TAKE a \in 1..Len(s)
      <4>1. a > k => k + 1 \in 1..Len(s) /\ k < Len(s)
        BY <1>0, <1>2
      <4>2. k < Len(s) => s[k + 1].start > f.start
        BY <1>2
      <4> HIDE DEF Fits
      <4>3. a > k => s[k + 1].start <= s[a].start
        BY <1>0, <1>2, <3>1, <4>1
      <4>4. \A b \in 1..Len(s) : s[b].start \in Int
        BY <1>0 DEF Recording
      <4>5. f.start \in Int
        BY <1>0
      <4> QED BY <4>1, <4>2, <4>3, <4>4, <4>5
    <3>3. CASE j <= k
      <4>1. i <= k /\ i \in 1..Len(s) /\ j \in 1..Len(s)
        BY <1>0, <1>2, <2>1, <3>3
      <4>2. r[i] = s[i] /\ r[j] = s[j]
        BY <1>4, <3>3, <4>1
      <4> QED BY <2>1, <3>1, <4>1, <4>2
    <3>4. CASE j = k + 1
      <4>1. i <= k /\ i \in 1..Len(s)
        BY <1>0, <1>2, <2>1, <3>4
      <4>2. r[i] = s[i] /\ r[j] = f
        BY <1>2, <1>4, <3>4, <4>1
      <4> QED BY <1>2, <4>1, <4>2
    <3>5. CASE j > k + 1
      <4>1. r[j] = s[j - 1] /\ j - 1 \in 1..Len(s) /\ j - 1 > k
        BY <1>0, <1>2, <1>4, <3>5
      <4>2. CASE i <= k
        <5>1. i \in 1..Len(s) /\ r[i] = s[i] /\ i <= j - 1
          BY <1>0, <1>2, <1>4, <2>1, <4>1, <4>2
        <5> QED BY <3>1, <4>1, <5>1
      <4>3. CASE i = k + 1
        <5>1. r[i] = f /\ s[j - 1].start > f.start /\ s[j - 1].start \in Int
          BY <1>0, <1>2, <1>4, <3>2, <4>1, <4>3
        <5> QED BY <1>0, <4>1, <5>1
      <4>4. CASE i > k + 1
        <5>1. r[i] = s[i - 1] /\ i - 1 \in 1..Len(s) /\ i - 1 <= j - 1
          BY <1>0, <1>2, <1>4, <2>1, <4>4
        <5> QED BY <3>1, <4>1, <5>1
      <4> QED BY <1>0, <1>2, <4>2, <4>3, <4>4
    <3> QED BY <1>0, <1>2, <3>3, <3>4, <3>5
  <2>2. DOMAIN r = 1..Len(s) + 1
    BY <1>4
  <2> QED BY <2>1, <2>2 DEF Sorted
<1>6. ASSUME NEW g
      PROVE  Holds(r, g) <=> g = f \/ Holds(s, g)
  <2>1. k + 1 \in 1..Len(s) + 1 /\ r[k + 1] = f
    BY <1>0, <1>2, <1>4
  <2>2. \A i \in 1..Len(s) : \E j \in 1..Len(s) + 1 : r[j] = s[i]
    <3> TAKE i \in 1..Len(s)
    <3>1. CASE i <= k
      BY <1>0, <1>4, <3>1
    <3>2. CASE i > k
      <4>1. i + 1 \in 1..Len(s) + 1 /\ r[i + 1] = s[i]
        BY <1>0, <1>2, <1>4, <3>2
      <4> QED BY <4>1
    <3> QED BY <1>0, <1>2, <3>1, <3>2
  <2>3. \A i \in 1..Len(s) + 1 : r[i] = f \/ \E j \in 1..Len(s) : s[j] = r[i]
    <3> TAKE i \in 1..Len(s) + 1
    <3>1. CASE i <= k
      BY <1>0, <1>2, <1>4, <3>1
    <3>2. CASE i > k + 1
      <4>1. i - 1 \in 1..Len(s) /\ r[i] = s[i - 1]
        BY <1>0, <1>2, <1>4, <3>2
      <4> QED BY <4>1
    <3>3. CASE i = k + 1
      BY <2>1, <3>3
    <3> QED BY <1>0, <1>2, <3>1, <3>2, <3>3
  <2>4. DOMAIN r = 1..Len(s) + 1
    BY <1>4
  <2> QED BY <1>0, <2>1, <2>2, <2>3, <2>4 DEF Holds
<1> QED BY <1>4, <1>5, <1>6 DEF r

\* sortPath keeps every recording and orders them by time.
LEMMA SortPathSorts ==
  ASSUME NEW s \in Seq(Recording)
  PROVE  /\ sortPath(s) \in Seq(Recording)
         /\ Len(sortPath(s)) = Len(s)
         /\ Sorted(sortPath(s))
         /\ \A g : Holds(sortPath(s), g) <=> Holds(s, g)
<1> DEFINE N == Len(s)
           Solves(f) == f = [n \in 0..N |->
                               IF n = 0 THEN <<>> ELSE Insert(f[n - 1], s[n])]
           h == CHOOSE f : Solves(f)
           X == {t \in Seq(Recording) : Sorted(t)}
<1>0. N \in Nat /\ \A i \in 1..N : s[i] \in Recording
  OBVIOUS
<1>1. Solves(h)
  <2> DEFINE step == [n \in Nat |-> [t \in X |->
                        IF n \in 1..N THEN Insert(t, s[n]) ELSE t]]
  <2>1. step \in [Nat -> [X -> X]]
    <3>1. \A n \in Nat, t \in X : (IF n \in 1..N THEN Insert(t, s[n]) ELSE t) \in X
      BY <1>0, InsertSorts
    <3> HIDE DEF X
    <3> QED BY <3>1
  <2>2. <<>> \in X
    BY DEF Sorted
  <2>3. \A n \in 1..N, t \in X : step[n][t] = Insert(t, s[n])
    BY <1>0
  <2> HIDE DEF step, X
  <2>4. PICK f : Unfolds(f, X, <<>>, step, N)
    BY <1>0, <2>1, <2>2, Recursion
  <2>5. \A i \in 0..N : f[i] = IF i = 0 THEN <<>> ELSE Insert(f[i - 1], s[i])
    <3> TAKE i \in 0..N
    <3>1. i # 0 => f[i - 1] \in X /\ i \in 1..N
      BY <1>0, <2>4 DEF Unfolds
    <3> QED BY <2>3, <2>4, <3>1 DEF Unfolds
  <2>6. Solves(f)
    BY <2>4, <2>5 DEF Unfolds
  <2> QED BY <2>6
<1>2. sortPath(s) = h[N]
  BY DEF sortPath
<1> HIDE DEF h
<1> DEFINE Done(n) == /\ h[n] \in Seq(Recording) /\ Len(h[n]) = n /\ Sorted(h[n])
                      /\ \A g : Holds(h[n], g) <=> \E i \in 1..n : s[i] = g
           P == {n \in Nat : n <= N => Done(n)}
<1>3. 0 \in P
  <2>1. h[0] = <<>>
    BY <1>0, <1>1
  <2>2. Done(0)
    BY <2>1 DEF Sorted, Holds
  <2> QED BY <2>2
<1>4. ASSUME NEW n \in Nat, n \in P PROVE n + 1 \in P
  <2> SUFFICES ASSUME n + 1 <= N PROVE Done(n + 1)
    OBVIOUS
  <2>1. h[n + 1] = Insert(h[n], s[n + 1]) /\ s[n + 1] \in Recording
    BY <1>0, <1>1
  <2>2. Done(n)
    BY <1>0, <1>4
  <2>3. /\ h[n + 1] \in Seq(Recording) /\ Len(h[n + 1]) = n + 1 /\ Sorted(h[n + 1])
        /\ \A g : Holds(h[n + 1], g) <=> g = s[n + 1] \/ Holds(h[n], g)
    <3> HIDE DEF h
    <3>1. h[n] \in Seq(Recording) /\ Sorted(h[n]) /\ Len(h[n]) = n
      BY <2>2
    <3> DEFINE t == h[n]
               f == s[n + 1]
    <3>2. t \in Seq(Recording) /\ Sorted(t) /\ Len(t) = n /\ f \in Recording
      BY <2>1, <3>1
    <3> HIDE DEF t, f
    <3>3. /\ Insert(t, f) \in Seq(Recording) /\ Len(Insert(t, f)) = n + 1
          /\ Sorted(Insert(t, f))
          /\ \A g : Holds(Insert(t, f), g) <=> g = f \/ Holds(t, g)
      BY <3>2, InsertSorts
    <3> QED BY <2>1, <3>3 DEF t, f
  <2>4. \A g : (\E i \in 1..n + 1 : s[i] = g) <=> g = s[n + 1] \/ \E i \in 1..n : s[i] = g
    OBVIOUS
  <2> QED BY <2>2, <2>3, <2>4
<1> HIDE DEF P
<1>5. \A n \in Nat : n \in P
  BY <1>3, <1>4, Induction
<1>6. Done(N)
  <2>1. N \in P
    BY <1>0, <1>5
  <2> HIDE DEF Done, N
  <2> QED BY <1>0, <2>1 DEF P
<1>7. \A g : Holds(s, g) <=> \E i \in 1..N : s[i] = g
  BY DEF Holds
<1> QED BY <1>2, <1>6, <1>7

\* The walk visits recordings.
LEMMA WalkType ==
  ASSUME NEW dirs \in Seq(Seq(Recording))
  PROVE  Walk(dirs) \in Seq(Recording)
<1> DEFINE N == Len(dirs)
           Solves(f) == f = [n \in 0..N |-> IF n = 0 THEN <<>> ELSE f[n - 1] \o dirs[n]]
           h == CHOOSE f : Solves(f)
           X == Seq(Recording)
<1>0. N \in Nat /\ \A i \in 1..N : dirs[i] \in X
  OBVIOUS
<1>1. Solves(h)
  <2> DEFINE step == [n \in Nat |-> [t \in X |-> IF n \in 1..N THEN t \o dirs[n] ELSE t]]
  <2>1. step \in [Nat -> [X -> X]] /\ <<>> \in X
    <3>1. \A n \in Nat, t \in X : (IF n \in 1..N THEN t \o dirs[n] ELSE t) \in X
      BY <1>0
    <3>2. <<>> \in X
      OBVIOUS
    <3> HIDE DEF X
    <3> QED BY <3>1, <3>2
  <2> HIDE DEF X
  <2>2. \A n \in 1..N, t \in X : step[n][t] = t \o dirs[n]
    <3> HIDE DEF N
    <3>1. 1..N \subseteq Nat
      BY <1>0
    <3> QED BY <3>1
  <2> HIDE DEF step
  <2>3. PICK f : Unfolds(f, X, <<>>, step, N)
    BY <1>0, <2>1, Recursion
  <2>4. \A i \in 0..N : f[i] = IF i = 0 THEN <<>> ELSE f[i - 1] \o dirs[i]
    <3> TAKE i \in 0..N
    <3> HIDE DEF N
    <3>1. CASE i = 0
      BY <2>3, <3>1 DEF Unfolds
    <3>2. CASE i # 0
      <4>1. i \in 1..N /\ i - 1 \in 0..N
        BY <1>0, <3>2
      <4>2. f[i - 1] \in X /\ f[i] = step[i][f[i - 1]]
        BY <2>3, <4>1 DEF Unfolds
      <4> QED BY <2>2, <3>2, <4>1, <4>2
    <3> QED BY <3>1, <3>2
  <2>5. Solves(f)
    BY <2>3, <2>4 DEF Unfolds
  <2> QED BY <2>5
<1>2. Walk(dirs) = h[N]
  BY DEF Walk
<1> HIDE DEF h
<1> DEFINE P == {n \in Nat : n <= N => h[n] \in X}
<1>3. 0 \in P
  <2>1. h[0] = <<>>
    BY <1>0, <1>1
  <2>2. h[0] \in X
    BY <2>1
  <2> QED BY <2>2
<1>4. ASSUME NEW n \in Nat, n \in P PROVE n + 1 \in P
  <2> SUFFICES ASSUME n + 1 <= N PROVE h[n + 1] \in X
    OBVIOUS
  <2>1. h[n + 1] = h[n] \o dirs[n + 1] /\ dirs[n + 1] \in X
    <3>1. n + 1 \in 0..N /\ n + 1 \in 1..N /\ n + 1 # 0 /\ (n + 1) - 1 = n
      BY <1>0
    <3> HIDE DEF N
    <3> QED BY <1>0, <1>1, <3>1
  <2>2. h[n] \in X
    BY <1>0, <1>4
  <2> QED BY <2>1, <2>2
<1> HIDE DEF P
<1>5. \A n \in Nat : n \in P
  BY <1>3, <1>4, Induction
<1>6. h[N] \in X
  <2>1. N \in P
    BY <1>0, <1>5
  <2> HIDE DEF N, X
  <2> QED BY <1>0, <2>1 DEF P
<1> QED BY <1>2, <1>6

\* filesStream appends exactly the recordings that are usable and begin in the
\* request, or that the caller named.
LEMMA StreamPathsTaken ==
  ASSUME NEW dirs \in Seq(Seq(Recording)), NEW start, NEW fileStart
  PROVE  /\ streamPaths(dirs, start, fileStart) \in Seq(Recording)
         /\ \A g : Holds(streamPaths(dirs, start, fileStart), g) <=>
                     /\ Holds(Walk(dirs), g)
                     /\ g.usable /\ (g.start >= start \/ g.name = fileStart)
<1> DEFINE all == Walk(dirs)
           N == Len(all)
           Taken(g) == g.usable /\ (g.start >= start \/ g.name = fileStart)
           Solves(f) == f = [n \in 0..N |->
                               IF n = 0 THEN <<>>
                               ELSE IF Taken(all[n]) THEN Append(f[n - 1], all[n])
                                    ELSE f[n - 1]]
           h == CHOOSE f : Solves(f)
           X == Seq(Recording)
<1>1. streamPaths(dirs, start, fileStart) = h[N]
  BY DEF streamPaths
<1>2. all \in X
  BY WalkType
<1> HIDE DEF all, Taken
<1>0. N \in Nat /\ \A i \in 1..N : all[i] \in Recording
  BY <1>2
<1>3. Solves(h)
  <2> DEFINE step == [n \in Nat |-> [t \in X |->
                        IF n \in 1..N /\ Taken(all[n]) THEN Append(t, all[n]) ELSE t]]
  <2>1. step \in [Nat -> [X -> X]] /\ <<>> \in X
    <3>1. \A n \in Nat, t \in X :
            (IF n \in 1..N /\ Taken(all[n]) THEN Append(t, all[n]) ELSE t) \in X
      BY <1>0
    <3>2. <<>> \in X
      OBVIOUS
    <3> HIDE DEF X
    <3> QED BY <3>1, <3>2
  <2> HIDE DEF X
  <2>2. \A n \in 1..N, t \in X :
          step[n][t] = IF Taken(all[n]) THEN Append(t, all[n]) ELSE t
    BY <1>0
  <2> HIDE DEF step
  <2>3. PICK f : Unfolds(f, X, <<>>, step, N)
    BY <1>0, <2>1, Recursion
  <2>4. \A i \in 0..N : f[i] = IF i = 0 THEN <<>>
                               ELSE IF Taken(all[i]) THEN Append(f[i - 1], all[i])
                                    ELSE f[i - 1]
    <3> TAKE i \in 0..N
    <3> HIDE DEF N
    <3>1. CASE i = 0
      BY <2>3, <3>1 DEF Unfolds
    <3>2. CASE i # 0
      <4>1. i \in 1..N /\ i - 1 \in 0..N
        BY <1>0, <3>2
      <4>2. f[i - 1] \in X /\ f[i] = step[i][f[i - 1]]
        BY <2>3, <4>1 DEF Unfolds
      <4> QED BY <2>2, <3>2, <4>1, <4>2
    <3> QED BY <3>1, <3>2
  <2>5. Solves(f)
    BY <2>3, <2>4 DEF Unfolds
  <2> QED BY <2>5
<1> HIDE DEF h
<1> DEFINE Done(n) == /\ h[n] \in X
                      /\ \A g : Holds(h[n], g) <=> Taken(g) /\ \E i \in 1..n : all[i] = g
           P == {n \in Nat : n <= N => Done(n)}
<1>4. 0 \in P
  <2>1. h[0] = <<>>
    BY <1>0, <1>3
  <2>2. Done(0)
    BY <2>1 DEF Holds
  <2> QED BY <2>2
<1>5. ASSUME NEW n \in Nat, n \in P PROVE n + 1 \in P
  <2> SUFFICES ASSUME n + 1 <= N PROVE Done(n + 1)
    OBVIOUS
  <2> DEFINE t == h[n]
             f == all[n + 1]
  <2>1. h[n + 1] = IF Taken(f) THEN Append(t, f) ELSE t
    <3>1. n + 1 \in 0..N /\ n + 1 # 0 /\ (n + 1) - 1 = n
      BY <1>0
    <3> HIDE DEF N
    <3> QED BY <1>3, <3>1
  <2>2. /\ t \in X /\ f \in Recording
        /\ \A g : Holds(t, g) <=> Taken(g) /\ \E i \in 1..n : all[i] = g
    BY <1>0, <1>5
  <2>3. \A g : (\E i \in 1..n + 1 : all[i] = g) <=> g = f \/ \E i \in 1..n : all[i] = g
    OBVIOUS
  <2> HIDE DEF t, f
  <2>4. /\ Append(t, f) \in X
        /\ \A g : Holds(Append(t, f), g) <=> g = f \/ Holds(t, g)
    <3>1. /\ Append(t, f) \in X /\ Len(Append(t, f)) = Len(t) + 1 /\ Len(t) \in Nat
          /\ \A i \in 1..Len(t) : Append(t, f)[i] = t[i]
          /\ Append(t, f)[Len(t) + 1] = f
      BY <2>2
    <3>2. DOMAIN Append(t, f) = 1..Len(t) + 1 /\ DOMAIN t = 1..Len(t)
      BY <2>2
    <3> DEFINE u == Append(t, f)
               m == Len(t)
    <3>3. ASSUME NEW g PROVE Holds(u, g) <=> g = f \/ Holds(t, g)
      <4> HIDE DEF u, m
      <4>1. /\ m \in Nat /\ DOMAIN u = 1..m + 1 /\ DOMAIN t = 1..m
            /\ u[m + 1] = f /\ \A i \in 1..m : u[i] = t[i]
        BY <3>1, <3>2 DEF u, m
      <4>2. \A i \in 1..m + 1 : i = m + 1 \/ i \in 1..m
        BY <4>1
      <4>3. m + 1 \in 1..m + 1 /\ \A i \in 1..m : i \in 1..m + 1
        BY <4>1
      <4> QED BY <4>1, <4>2, <4>3 DEF Holds
    <3> HIDE DEF u
    <3> QED BY <3>1, <3>3 DEF u
  <2>5. CASE Taken(f)
    BY <2>1, <2>2, <2>3, <2>4, <2>5
  <2>6. CASE ~Taken(f)
    BY <2>1, <2>2, <2>3, <2>6
  <2> QED BY <2>5, <2>6
<1> HIDE DEF P
<1>6. \A n \in Nat : n \in P
  BY <1>4, <1>5, Induction
<1>7. Done(N)
  <2>1. N \in P
    BY <1>0, <1>6
  <2> HIDE DEF Done, N
  <2> QED BY <1>0, <2>1 DEF P
<1>8. \A g : Holds(all, g) <=> \E i \in 1..N : all[i] = g
  BY <1>2 DEF Holds
<1> QED BY <1>1, <1>7, <1>8 DEF all, Taken

\* What an archive session plays: the recordings the request asks for, every one
\* of them and no other, by the time they begin.
THEOREM FilesStreamInOrder ==
  ASSUME NEW dirs \in Seq(Seq(Recording)), NEW start, NEW fileStart
  PROVE  /\ filesStream(dirs, start, fileStart) \in Seq(Recording)
         /\ Sorted(filesStream(dirs, start, fileStart))
         /\ \A g : Holds(filesStream(dirs, start, fileStart), g) <=>
                     /\ Holds(Walk(dirs), g)
                     /\ g.usable /\ (g.start >= start \/ g.name = fileStart)
  BY StreamPathsTaken, SortPathSorts DEF filesStream

-----------------------------------------------------------------------------
(* The session. *)

\* The fields of a recording are what Recording says.
LEMMA RecordingFields ==
  \A f \in Recording :
    /\ f.start \in Int /\ f.pkts \in Seq(Packet) /\ Len(f.pkts) \in Nat
    /\ \A i \in 1..Len(f.pkts) : f.pkts[i] \in Packet /\ f.pkts[i].t \in Nat
<1> SUFFICES ASSUME NEW f \in Recording
             PROVE  /\ f.start \in Int /\ f.pkts \in Seq(Packet) /\ Len(f.pkts) \in Nat
                    /\ \A i \in 1..Len(f.pkts) : f.pkts[i] \in Packet /\ f.pkts[i].t \in Nat
  OBVIOUS
<1>1. f.start \in Int /\ f.pkts \in Seq(Packet)
  BY DEF Recording, Times
<1>2. \A p \in Packet : p.t \in Nat
  BY DEF Packet
<1> QED BY <1>1, <1>2

\* What the worker reads from.
LEMMA SourceFacts ==
  ASSUME TypeOK, PlaceInv, Up
  PROVE  /\ count \in DOMAIN pathFiles /\ Channel \in Recording /\ Source \in Recording
         /\ ~Gap => Source = Channel /\ SourceNext = next
         /\ Gap => Source = Filler /\ SourceNext = fillNext
         /\ SourceNext \in Nat \ {0}
<1>1. count \in DOMAIN pathFiles /\ Channel \in Recording
  BY DEF TypeOK, PlaceInv, Channel
<1>2. Filler \in Recording
  BY FillerAssumption
<1> QED BY <1>1, <1>2 DEF Source, SourceNext, TypeOK

\* The packet the worker is at, when it is not at the end of its source.
LEMMA PckFacts ==
  ASSUME TypeOK, PlaceInv, Up, ~AtEof
  PROVE  /\ Pck \in Packet /\ Pck.t \in Nat
         /\ SourceNext \in DOMAIN Source.pkts
         /\ ~Gap => Pck = Channel.pkts[next] /\ next \in 1..Len(Channel.pkts)
<1>1. Source \in Recording /\ SourceNext \in Nat \ {0}
  BY SourceFacts
<1> DEFINE f == Source
           n == SourceNext
<1>2. n \in 1..Len(f.pkts)
  <2>1. Len(f.pkts) \in Nat /\ n <= Len(f.pkts)
    BY <1>1, RecordingFields DEF AtEof
  <2> QED BY <1>1, <2>1
<1>3. Pck = f.pkts[n]
  BY DEF Pck
<1>4. ~Gap => f = Channel /\ n = next
  BY SourceFacts
<1> HIDE DEF f, n
<1>5. f \in Recording
  BY <1>1 DEF f
<1>6. f.pkts[n] \in Packet /\ f.pkts[n].t \in Nat /\ DOMAIN f.pkts = 1..Len(f.pkts)
  BY <1>2, <1>5, RecordingFields
<1> QED BY <1>2, <1>3, <1>4, <1>6 DEF f, n

\* The archive time and, at a positive speed, that of the stream go forward.
LEMMA StepForward ==
  ASSUME TypeOK, NEW t \in Nat
  PROVE  /\ Step(t) \in Nat
         /\ speed # 0 => Quotient(Step(t)) \in Int
         /\ speed > 0 => Quotient(Step(t)) >= 0
<1>1. Step(t) \in Nat
  BY DEF Step, TypeOK
<1> DEFINE d == Step(t)
<1>2. ASSUME NEW s \in Nat \ {0} PROVE d \div s \in Nat
  <2> HIDE DEF d
  <2>1. d \in Nat
    BY <1>1 DEF d
  <2> QED BY <2>1
<1>3. CASE speed > 0
  <2>1. speed \in Nat \ {0}
    BY <1>3 DEF TypeOK
  <2>2. d \div speed \in Nat
    BY <1>2, <2>1
  <2> HIDE DEF d
  <2> QED BY <1>1, <1>3, <2>1, <2>2 DEF d, Quotient
<1>4. CASE speed < 0
  <2>1. -speed \in Nat \ {0} /\ speed \in Int
    BY <1>4 DEF TypeOK
  <2>2. d \div (-speed) \in Nat
    BY <1>2, <2>1
  <2> HIDE DEF d
  <2> QED BY <1>1, <1>4, <2>1, <2>2 DEF d, Quotient
<1> QED BY <1>1, <1>3, <1>4 DEF TypeOK

\* The steps that leave the worker and what the player got alone.
Others == PlayerInited \/ PlayerInitFails \/ PlayerWrote \/ PlayerWriteFails
          \/ PlayerStatus \/ SocketFails \/ ReaderFails
\* They do.
LEMMA OthersFrame ==
  ASSUME Others
  PROVE  UNCHANGED <<request, fate, wpc, workerVars, header, muxed>>
  BY DEF Others, PlayerInited, PlayerInitFails, PlayerWrote, PlayerWriteFails, PlayerStatus, SocketFails,
         ReaderFails, request, workerVars

\* The panics of the worker, which stop the process.
Stops == NoStreams \/ OpenFails \/ DivideByZero

\* Every step is one of the worker or the player that matters here, or another.
LEMMA NextCases ==
  [Next]_vars => \/ WorkerStatus \/ WorkerCodecs \/ FillerAgain \/ NextFile \/ Skip
                 \/ Stops \/ Offer \/ PlayerCodecs \/ PlayerPacket
                 \/ Others \/ UNCHANGED vars
  BY DEF Next, Worker, Player, Others, Stops

\* Every variable stays in the set TypeOK names.
LEMMA TypeStep == (Init => TypeOK) /\ (TypeOK /\ PlaceInv /\ [Next]_vars => TypeOK')
<1>1. Init => TypeOK
  <2> SUFFICES ASSUME Init PROVE TypeOK
    OBVIOUS
  <2>1. pathFiles \in Seq(Recording)
    <3>1. PICK dirs \in Archives : \E n : pathFiles = filesStream(dirs, timeStart, n)
      BY Zenon DEF Init
    <3>2. dirs \in Seq(Seq(Recording))
      BY <3>1, ArchivesAssumption
    <3> QED BY <3>1, <3>2, FilesStreamInOrder
  <2>2. kind \in {"ws", "http"} /\ timeStart \in Int /\ speed \in Int
    BY RequestAssumption, SpeedsAssumption DEF Init
  <2>3. /\ sockUp \in BOOLEAN /\ keyframe \in BOOLEAN /\ wpc = "codecs" /\ ppc = "select"
        /\ count = 1 /\ next = 1 /\ fillNext = 1
        /\ prev = 0 /\ timeStream = 0
        /\ fate \in {"up", "noFile", "openFails"} /\ rpc \in {"receive", "none"}
    BY Zenon DEF Init
  <2> QED BY <2>1, <2>2, <2>3 DEF TypeOK
<1>2. TypeOK /\ PlaceInv /\ [Next]_vars => TypeOK'
  <2> SUFFICES ASSUME TypeOK, PlaceInv, [Next]_vars PROVE TypeOK'
    OBVIOUS
  <2>1. CASE WorkerStatus
    BY <2>1 DEF TypeOK, WorkerStatus, request, workerVars
  <2>2. CASE WorkerCodecs
    BY <2>2 DEF TypeOK, WorkerCodecs, request
  <2>3. CASE FillerAgain
    BY <2>3 DEF TypeOK, FillerAgain, request
  <2>4. CASE NextFile
    BY <2>4 DEF TypeOK, NextFile, request
  <2>5. CASE Skip
    BY <2>5 DEF TypeOK, Skip, ReadOn, request
  <2>6. CASE Stops
    BY <2>6 DEF TypeOK, Stops, NoStreams, OpenFails, DivideByZero, request, workerVars
  <2>7. CASE Offer
    <3>1. Pck.t \in Nat
      BY <2>7, PckFacts DEF Offer, Playable, Reading, Polling
    <3> DEFINE t == Pck.t
               d == Step(t)
               q == Quotient(d)
    <3>2. /\ prev' = t /\ timeStart' = timeStart + d /\ timeStream' = timeStream + q
          /\ keyframe' = TRUE /\ wpc' = "packet"
          /\ UNCHANGED <<request, sockUp, fate, ppc, rpc, count>>
          /\ speed # 0
      BY <2>7 DEF Offer
    <3>3. next' \in Nat \ {0} /\ fillNext' \in Nat \ {0}
      BY <2>7 DEF Offer, ReadOn, TypeOK
    <3>4. d \in Nat /\ q \in Int
      BY <3>1, <3>2, StepForward
    <3> HIDE DEF t, d, q
    <3> QED BY <3>1, <3>2, <3>3, <3>4 DEF TypeOK, request, t
  <2>8. CASE PlayerCodecs
    BY <2>8 DEF TypeOK, PlayerCodecs, request
  <2>9. CASE PlayerPacket
    BY <2>9 DEF TypeOK, PlayerPacket, request
  <2>10. CASE Others
    <3>1. UNCHANGED <<request, fate, wpc, workerVars>>
      BY <2>10, OthersFrame
    <3>2. sockUp' \in BOOLEAN /\ ppc' \in {"select", "init", "write", "panicked", "done"}
          /\ rpc' \in {"none", "receive", "sendStatus", "done"}
      BY <2>10 DEF TypeOK, Others, PlayerInited, PlayerInitFails, PlayerWrote, PlayerWriteFails,
                   PlayerStatus, SocketFails, ReaderFails
    <3> QED BY <3>1, <3>2 DEF TypeOK, request, workerVars
  <2>11. CASE UNCHANGED vars
    BY <2>11 DEF TypeOK, vars, request, workerVars
  <2> QED BY <2>1, <2>2, <2>3, <2>4, <2>5, <2>6, <2>7, <2>8, <2>9, <2>10, <2>11, NextCases
<1> QED BY <1>1, <1>2

\* The worker stays in its file and at its beginning while it waits.
LEMMA PlaceStep ==
  /\ Init => PlaceInv
  /\ TypeOK /\ PlaceInv /\ [Next]_vars => PlaceInv'
<1>1. ASSUME Init PROVE PlaceInv
  <2>1. TypeOK
    BY <1>1, TypeStep
  <2>2. count = 1 /\ next = 1 /\ (Up => pathFiles # <<>>)
    BY <1>1 DEF Init, Up
  <2>3. Up => Len(pathFiles) \in Nat /\ 1 <= Len(pathFiles) /\ Channel \in Recording
    BY <2>1, <2>2 DEF TypeOK, Channel
  <2> QED BY <2>2, <2>3, RecordingFields DEF PlaceInv
<1>2. ASSUME TypeOK, PlaceInv, [Next]_vars PROVE PlaceInv'
  <2>1. TypeOK'
    BY <1>2, TypeStep
  <2> SUFFICES ASSUME Up' PROVE PlaceInv'
    BY DEF PlaceInv
  <2>2. CASE UNCHANGED <<fate, pathFiles, count, next, timeStart>>
    BY <1>2, <2>2 DEF PlaceInv, Up, Channel, Gap
  <2>3. CASE FillerAgain
    BY <1>2, <2>3 DEF PlaceInv, Up, Channel, Gap, FillerAgain, request
  <2>4. CASE NextFile
    <3>1. count < Len(pathFiles) /\ count' = count + 1 /\ next' = 1 /\ pathFiles' = pathFiles
      BY <2>4 DEF NextFile, Up, request
    <3>2. Channel' \in Recording /\ count' <= Len(pathFiles')
      BY <1>2, <2>1, <3>1 DEF TypeOK, Channel
    <3>3. Len((Channel').pkts) \in Nat
      BY <3>2, RecordingFields
    <3> QED BY <3>1, <3>2, <3>3 DEF PlaceInv
  <2>5. CASE Skip
    <3>1. Up /\ ~AtEof /\ ReadOn /\ UNCHANGED <<pathFiles, count, timeStart>>
      BY <2>5 DEF Skip, Reading, Polling, request
    <3> HIDE DEF Skip
    <3>2. CASE Gap
      BY <1>2, <3>1, <3>2 DEF PlaceInv, ReadOn, Channel, Gap
    <3>3. CASE ~Gap
      <4>1. next \in 1..Len(Channel.pkts) /\ next' = next + 1 /\ Channel' = Channel /\ ~Gap'
        BY <1>2, <3>1, <3>3, PckFacts DEF ReadOn, Channel, Gap
      <4> QED BY <1>2, <3>1, <4>1, SourceFacts, RecordingFields DEF PlaceInv
    <3> QED BY <3>2, <3>3
  <2>6. CASE Offer
    <3>1. /\ Up /\ ~AtEof /\ ReadOn /\ UNCHANGED <<pathFiles, count>>
          /\ timeStart' = timeStart + Step(Pck.t)
      BY <2>6 DEF Offer, Playable, Reading, Polling, request
    <3>2. Pck.t \in Nat /\ Step(Pck.t) \in Nat /\ timeStart \in Int
      BY <1>2, <3>1, PckFacts, StepForward DEF TypeOK
    <3>3. Channel' = Channel /\ Channel \in Recording /\ Channel.start \in Int
      BY <1>2, <3>1, SourceFacts, RecordingFields DEF Channel
    <3>4. Gap' => Gap
      BY <3>1, <3>2, <3>3, SlackAssumption DEF Gap
    <3>5. CASE Gap
      <4>1. next' = next /\ next = 1
        BY <1>2, <3>1, <3>5 DEF ReadOn, PlaceInv
      <4> QED BY <1>2, <3>1, <3>3, <4>1 DEF PlaceInv
    <3>6. CASE ~Gap
      <4>1. next \in 1..Len(Channel.pkts) /\ next' = next + 1
        BY <1>2, <3>1, <3>6, PckFacts DEF ReadOn
      <4> QED BY <1>2, <3>1, <3>3, <3>4, <3>6, <4>1, RecordingFields DEF PlaceInv
    <3> QED BY <3>5, <3>6
  <2>7. WorkerStatus \/ WorkerCodecs \/ Stops \/ PlayerCodecs \/ PlayerPacket
        \/ Others \/ UNCHANGED vars
        => UNCHANGED <<pathFiles, count, next, timeStart>> /\ (Up' => fate' = fate)
    <3>1. CASE Others
      BY <3>1, OthersFrame DEF request, workerVars
    <3>2. CASE UNCHANGED vars
      BY <3>2 DEF vars, request, workerVars
    <3> QED BY <3>1, <3>2 DEF WorkerStatus, WorkerCodecs,
                              Stops, NoStreams, OpenFails, DivideByZero, PlayerCodecs, PlayerPacket,
                              request, workerVars, Up
  <2> QED BY <1>2, <2>2, <2>3, <2>4, <2>5, <2>6, <2>7, NextCases
<1> QED BY <1>1, <1>2

\* Every variable stays in the set TypeOK names and the worker in its file.
THEOREM TypeCorrect == Spec => [](TypeOK /\ PlaceInv)
<1>1. Init => TypeOK /\ PlaceInv
  BY TypeStep, PlaceStep
<1>2. TypeOK /\ PlaceInv /\ [Next]_vars => (TypeOK /\ PlaceInv)'
  BY TypeStep, PlaceStep
<1> QED BY <1>1, <1>2, PTL DEF Spec

\* The player's muxer has the streams of what the worker holds out, and the client
\* their header, wherever their codec string tells the sources apart.
THEOREM HeaderComesFirst == Spec => []HeaderBeforePacket
<1>1. Init => CodecInv
  <2> SUFFICES ASSUME Init PROVE CodecInv
    OBVIOUS
  <2>1. /\ wpc = "codecs" /\ offer = totalCodec /\ totalCodec = Codecs(Filler)
        /\ header = NoHeader /\ told = NoHeader
    BY Zenon DEF Init
  <2> QED BY <2>1 DEF CodecInv, Sources
<1>2. CodecInv /\ TypeOK /\ PlaceInv /\ [Next]_vars => CodecInv'
  <2> SUFFICES ASSUME CodecInv, TypeOK, PlaceInv, [Next]_vars PROVE CodecInv'
    OBVIOUS
  <2>0. UNCHANGED pathFiles
    BY OthersFrame, NextCases
       DEF WorkerStatus, WorkerCodecs, FillerAgain, NextFile, Skip, Stops, NoStreams, OpenFails,
           DivideByZero, Offer, PlayerCodecs, PlayerPacket, vars, request
  <2> DEFINE All == {Codecs(f) : f \in Sources}
  <2>1. All' = All
    BY <2>0 DEF Sources, Codecs
  <2>2. CASE UNCHANGED <<wpc, totalCodec, offer, header, told, ppc, sockUp>>
    <3> HIDE DEF All
    <3>1. totalCodec' \in All'
      BY <2>1, <2>2 DEF CodecInv, All
    <3> QED BY <2>2, <3>1 DEF CodecInv, All
  <2>3. CASE Others
    <3>1. UNCHANGED <<wpc, totalCodec, offer, header>>
      BY <2>3, OthersFrame DEF workerVars
    <3>2. ppc' # "init" /\ CanMux(header) /\ sockUp' => told' = header
      BY <2>3 DEF CodecInv, Others, PlayerInited, PlayerInitFails, PlayerWrote, PlayerWriteFails,
                  PlayerStatus, SocketFails, ReaderFails
    <3>3. totalCodec' \in All'
      BY <2>1, <3>1 DEF CodecInv
    <3> HIDE DEF All
    <3>4. CanMux(header)' = CanMux(header)
      BY <3>1 DEF CanMux, NumMuxed, NumStreams
    <3> QED BY <3>1, <3>2, <3>3, <3>4 DEF CodecInv, All
  <2>4. CASE WorkerStatus
    <3>1. totalCodec' \in All'
      BY <2>1, <2>4 DEF CodecInv, WorkerStatus, workerVars
    <3> HIDE DEF All
    <3> QED BY <2>4, <3>1 DEF CodecInv, WorkerStatus, workerVars, All
  <2>5. CASE WorkerCodecs
    <3>1. Source \in Sources
      <4>1. count \in DOMAIN pathFiles
        BY <2>5, SourceFacts DEF WorkerCodecs, Polling
      <4> QED BY <4>1 DEF Source, Sources, Channel, Range
    <3>2. totalCodec' = Codecs(Source) /\ offer' = totalCodec' /\ wpc' = "codecs"
          /\ UNCHANGED <<header, told, ppc, sockUp>>
      BY <2>5 DEF WorkerCodecs
    <3> DEFINE s == Source
    <3>3. totalCodec' \in All'
      <4>1. s \in Sources /\ totalCodec' = Codecs(s)
        BY <3>1, <3>2
      <4> HIDE DEF s
      <4> QED BY <2>1, <4>1
    <3> HIDE DEF All
    <3> QED BY <3>2, <3>3 DEF CodecInv, All, CanMux, NumMuxed, NumStreams
  <2>6. CASE Offer
    <3>1. /\ wpc = "poll" /\ wpc' = "packet" /\ MetaOf(totalCodec) = Source.meta
          /\ offer' = <<"packet", Source, Pck, timeStream'>>
          /\ totalCodec' = totalCodec /\ UNCHANGED <<header, told, ppc, sockUp>>
      BY <2>6 DEF Offer, Playable, Reading, Polling
    <3> DEFINE s == Source
               p == Pck
    <3>2. offer'[2] = s
      <4> HIDE DEF s, p
      <4>1. offer' = <<"packet", s, p, timeStream'>>
        BY <3>1 DEF s, p
      <4> QED BY <4>1
    <3>3. totalCodec' \in All'
      BY <2>1, <3>1 DEF CodecInv
    <3> HIDE DEF All
    <3> QED BY <3>1, <3>2, <3>3 DEF CodecInv, MetaOf, All, CanMux, NumMuxed, NumStreams
  <2>7. CASE PlayerCodecs
    <3>1. /\ wpc = "codecs" /\ wpc' = "poll" /\ header' = offer /\ ppc' = "init"
          /\ totalCodec' = totalCodec
      BY <2>7 DEF PlayerCodecs
    <3>2. totalCodec' \in All'
      BY <2>1, <3>1 DEF CodecInv
    <3> HIDE DEF All
    <3> QED BY <3>1, <3>2 DEF CodecInv, All
  <2>8. CASE PlayerPacket
    <3>1. /\ wpc = "packet" /\ wpc' = "poll" /\ ppc = "select" /\ (sockUp' => sockUp)
          /\ UNCHANGED <<totalCodec, header, told>>
      BY <2>8 DEF PlayerPacket
    <3>2. totalCodec' \in All'
      BY <2>1, <3>1 DEF CodecInv
    <3> HIDE DEF All
    <3> QED BY <3>1, <3>2 DEF CodecInv, All, CanMux, NumMuxed, NumStreams
  <2>9. FillerAgain \/ NextFile \/ Skip \/ Stops \/ UNCHANGED vars
        => UNCHANGED <<wpc, totalCodec, offer, header, told, ppc, sockUp>>
    BY DEF FillerAgain, NextFile, Skip, Stops, NoStreams, OpenFails, DivideByZero, workerVars, vars
  <2> QED BY <2>2, <2>3, <2>4, <2>5, <2>6, <2>7, <2>8, <2>9, NextCases
<1>3. CodecInv => HeaderBeforePacket
  <2> SUFFICES ASSUME CodecInv, wpc = "packet", Alone(offer[2])
               PROVE  /\ header = Codecs(offer[2])
                      /\ ppc = "select" /\ CanMux(header) /\ sockUp => told = Codecs(offer[2])
    BY DEF HeaderBeforePacket
  <2>1. PICK f \in Sources : totalCodec = Codecs(f)
    BY DEF CodecInv
  <2>2. MetaOf(totalCodec) = f.meta
    BY <2>1 DEF MetaOf, Codecs
  <2>3. f.meta = offer[2].meta /\ header = totalCodec
    BY <2>2 DEF CodecInv
  <2>4. Codecs(f) = Codecs(offer[2])
    BY <2>3 DEF Alone
  <2> QED BY <2>1, <2>3, <2>4 DEF CodecInv
<1> QED BY <1>1, <1>2, <1>3, TypeCorrect, PTL DEF Spec

\* What the worker does to hold a packet out.
LEMMA OfferFacts ==
  ASSUME TypeOK, PlaceInv, Offer
  PROVE  /\ Up /\ wpc = "poll" /\ wpc' = "packet" /\ ~AtEof /\ ~Stale /\ ReadOn
         /\ offer'[1] = "packet" /\ offer'[2] = Source /\ offer'[3] = Pck /\ offer'[4] = timeStream'
         /\ UNCHANGED <<request, fate, count, muxed>>
         /\ prev' = Pck.t /\ Pck.t \in Nat
         /\ timeStart' = timeStart + Step(Pck.t) /\ Step(Pck.t) \in Nat
         /\ timeStream' \in Int
         /\ speed > 0 => timeStream' >= timeStream
         /\ Gap => ~FromFile(offer')
<1>1. /\ Up /\ wpc = "poll" /\ wpc' = "packet" /\ ~AtEof /\ ~Stale /\ ReadOn
      /\ offer' = <<"packet", Source, Pck, timeStream'>>
      /\ UNCHANGED <<request, fate, count, muxed>>
      /\ prev' = Pck.t
      /\ timeStart' = timeStart + Step(Pck.t)
      /\ timeStream' = timeStream + Quotient(Step(Pck.t))
      /\ speed # 0
  BY DEF Offer, Playable, Reading, Polling
<1> DEFINE s == Source
           p == Pck
           d == Step(Pck.t)
           q == Quotient(d)
<1>2. p.t \in Nat
  BY <1>1, PckFacts
<1>3. d \in Nat /\ q \in Int /\ (speed > 0 => q >= 0)
  BY <1>1, <1>2, StepForward
<1>4. Gap => s = Filler
  BY DEF Source
<1>5. timeStream' = timeStream + q
  BY <1>1
<1>6. timeStream \in Int
  BY DEF TypeOK
<1> HIDE DEF s, p, d, q
<1>7. offer' = <<"packet", s, p, timeStream'>>
  BY <1>1 DEF s, p
<1>8. offer'[1] = "packet" /\ offer'[2] = s /\ offer'[3] = p /\ offer'[4] = timeStream'
  BY <1>7
<1>9. timeStream' \in Int /\ (speed > 0 => timeStream' >= timeStream)
  BY <1>3, <1>5, <1>6
<1> QED BY <1>1, <1>2, <1>3, <1>4, <1>8, <1>9 DEF s, p, d, FromFile

\* The packet held out is the last the worker read.
LEMMA OfferStep ==
  /\ Init => OfferInv
  /\ TypeOK /\ PlaceInv /\ OfferInv /\ [Next]_vars => OfferInv'
<1>1. ASSUME Init PROVE OfferInv
  <2>1. wpc = "codecs" /\ \E dirs \in Archives : \E n : pathFiles = filesStream(dirs, timeStart, n)
    BY <1>1, Zenon DEF Init
  <2>2. Sorted(pathFiles)
    <3>1. PICK dirs \in Archives : \E n : pathFiles = filesStream(dirs, timeStart, n)
      BY <2>1
    <3>2. dirs \in Seq(Seq(Recording))
      BY <3>1, ArchivesAssumption
    <3> QED BY <3>1, <3>2, FilesStreamInOrder
  <2> QED BY <2>1, <2>2 DEF OfferInv, Sorted
<1>2. ASSUME TypeOK, PlaceInv, OfferInv, [Next]_vars PROVE OfferInv'
  <2>1. CASE UNCHANGED <<pathFiles, wpc, offer, timeStream, count, next>>
    BY <1>2, <2>1 DEF OfferInv, FromFile, IsPacket, Channel
  <2>2. CASE pathFiles' = pathFiles /\ wpc' # "packet"
    BY <1>2, <2>2 DEF OfferInv
  <2>3. CASE Offer
    <3>1. /\ Up /\ ~AtEof /\ wpc' = "packet" /\ ReadOn
          /\ offer'[1] = "packet" /\ offer'[2] = Source /\ offer'[3] = Pck /\ offer'[4] = timeStream'
          /\ pathFiles' = pathFiles /\ count' = count /\ Channel' = Channel
          /\ Gap => ~FromFile(offer')
      BY <1>2, <2>3, OfferFacts DEF request, Channel
    <3>2. ~Gap => /\ next' = next + 1 /\ next \in 1..Len(Channel.pkts)
                  /\ Source = Channel /\ Pck = Channel.pkts[next]
                  /\ count \in DOMAIN pathFiles
      BY <1>2, <3>1, SourceFacts, PckFacts DEF ReadOn
    <3>3. ~Gap => next' - 1 = next /\ next \in DOMAIN Channel.pkts
      <4> SUFFICES ASSUME ~Gap PROVE next' - 1 = next /\ next \in DOMAIN Channel.pkts
        OBVIOUS
      <4>1. Channel \in Recording
        BY <1>2, <3>1, SourceFacts
      <4> DEFINE f == Channel
      <4> HIDE DEF f
      <4>2. DOMAIN f.pkts = 1..Len(f.pkts)
        BY <4>1, RecordingFields DEF f
      <4> QED BY <3>2, <4>2 DEF f
    <3>4. \A i, j \in DOMAIN pathFiles : i < j => pathFiles[i].start <= pathFiles[j].start
      BY <1>2 DEF OfferInv
    <3> HIDE DEF Source, Channel, Pck, Gap
    <3> QED BY <3>1, <3>2, <3>3, <3>4 DEF OfferInv, IsPacket
  <2>4. WorkerStatus \/ WorkerCodecs \/ FillerAgain \/ NextFile \/ Skip \/ Stops
        \/ PlayerCodecs \/ PlayerPacket
        => \/ UNCHANGED <<pathFiles, wpc, offer, timeStream, count, next>>
           \/ pathFiles' = pathFiles /\ wpc' # "packet"
    BY DEF WorkerStatus, WorkerCodecs, FillerAgain, NextFile, Skip,
           Stops, NoStreams, OpenFails, DivideByZero, Reading, Polling,
           PlayerCodecs, PlayerPacket, request, workerVars
  <2>5. Others \/ UNCHANGED vars => UNCHANGED <<pathFiles, wpc, offer, timeStream, count, next>>
    BY OthersFrame DEF vars, request, workerVars
  <2> QED BY <1>2, <2>1, <2>2, <2>3, <2>4, <2>5, NextCases
<1> QED BY <1>1, <1>2

\* The worker does not go back.
LEMMA PassedStays ==
  ASSUME TypeOK, PlaceInv, OfferInv, [Next]_vars, NEW i \in Int, NEW k \in Int, Passed(i, k)
  PROVE  Passed(i, k)'
<1>1. count \in Nat /\ next \in Nat
  BY DEF TypeOK
<1>2. CASE UNCHANGED <<count, next, wpc, offer>>
  BY <1>2 DEF Passed, FromFile, IsPacket
<1>3. CASE count' = count /\ next' = next /\ wpc' # "packet"
  BY <1>3 DEF Passed
<1>4. CASE NextFile
  <2>1. wpc' = "poll" /\ (count' = count + 1 \/ UNCHANGED <<count, next>>)
    BY <1>4 DEF NextFile, Reading, Polling
  <2> QED BY <1>1, <2>1 DEF Passed
<1>5. CASE Skip
  <2>1. wpc' = "poll" /\ count' = count /\ (next' = next + 1 \/ next' = next)
    BY <1>5 DEF Skip, ReadOn, Reading, Polling
  <2> QED BY <1>1, <2>1 DEF Passed
<1>6. CASE Offer
  <2>1. wpc = "poll" /\ count' = count /\ ReadOn /\ (Gap => ~FromFile(offer'))
    BY <1>6, OfferFacts
  <2>2. CASE Gap
    <3>1. next' = next /\ ~FromFile(offer)'
      BY <2>1, <2>2 DEF ReadOn, FromFile, IsPacket
    <3> QED BY <1>1, <2>1, <3>1 DEF Passed
  <2>3. CASE ~Gap
    <3>1. next' = next + 1
      BY <2>1, <2>3 DEF ReadOn
    <3> QED BY <1>1, <2>1, <3>1 DEF Passed
  <2> QED BY <2>2, <2>3
<1>7. WorkerStatus \/ WorkerCodecs \/ FillerAgain \/ Stops \/ PlayerCodecs \/ PlayerPacket
      => UNCHANGED <<count, next>> /\ (wpc' # "packet" \/ UNCHANGED <<wpc, offer>>)
  BY DEF WorkerStatus, WorkerCodecs, FillerAgain,
         Stops, NoStreams, OpenFails, DivideByZero, Reading, Polling, PlayerCodecs,
         PlayerPacket, workerVars
<1>8. Others \/ UNCHANGED vars => UNCHANGED <<count, next, wpc, offer>>
  BY OthersFrame DEF vars, workerVars
<1> QED BY <1>2, <1>3, <1>4, <1>5, <1>6, <1>7, <1>8, NextCases

\* Only PlayerPacket changes what was played last; the times of the stream go on.
LEMMA MuxedFrame ==
  ASSUME TypeOK, PlaceInv, [Next]_vars
  PROVE  /\ UNCHANGED <<pathFiles, speed>>
         /\ PlayerPacket \/ muxed' = muxed
         /\ timeStream \in Int /\ timeStream' \in Int
         /\ speed > 0 => timeStream' >= timeStream
<1>1. timeStream \in Int
  BY DEF TypeOK
<1>2. CASE Offer
  BY <1>1, <1>2, OfferFacts DEF request
<1>3. CASE Others \/ UNCHANGED vars
  BY <1>1, <1>3, OthersFrame DEF vars, request, workerVars
<1>4. WorkerStatus \/ WorkerCodecs \/ FillerAgain \/ NextFile \/ Skip \/ Stops
      \/ PlayerCodecs \/ PlayerPacket
      => UNCHANGED <<pathFiles, speed, timeStream>> /\ (PlayerPacket \/ muxed' = muxed)
  BY DEF WorkerStatus, WorkerCodecs, FillerAgain, NextFile, Skip,
         Stops, NoStreams, OpenFails, DivideByZero, PlayerCodecs,
         PlayerPacket, request, workerVars
<1> QED BY <1>1, <1>2, <1>3, <1>4, NextCases

\* What the player gets of a file is the packet before next, and it is played then.
LEMMA PlayerPacketFacts ==
  ASSUME TypeOK, PlaceInv, OfferInv, PlayerPacket
  PROVE  /\ muxed' = offer /\ IsPacket(offer) /\ offer[4] = timeStream
         /\ FromFile(offer) =>
              /\ count \in DOMAIN pathFiles /\ offer[2] = pathFiles[count]
              /\ next - 1 \in DOMAIN offer[2].pkts /\ offer[3] = offer[2].pkts[next - 1]
         /\ wpc = "packet" /\ wpc' = "poll" /\ UNCHANGED <<count, next, timeStream>>
<1>1. /\ muxed' = offer /\ wpc = "packet" /\ wpc' = "poll"
      /\ UNCHANGED <<count, next, timeStream>>
  BY DEF PlayerPacket
<1> QED BY <1>1 DEF OfferInv, Channel

\* The packet played last is one that the worker is past.
LEMMA PlayedStep ==
  /\ Init => PlayedInv
  /\ TypeOK /\ PlaceInv /\ OfferInv /\ PlayedInv /\ [Next]_vars => PlayedInv'
<1>1. ASSUME Init PROVE PlayedInv
  <2>1. muxed = Nothing
    BY <1>1, Zenon DEF Init
  <2> QED BY <2>1 DEF PlayedInv, Nothing, IsPacket
<1>2. ASSUME TypeOK, PlaceInv, OfferInv, PlayedInv, [Next]_vars PROVE PlayedInv'
  <2>0. /\ UNCHANGED <<pathFiles, speed>> /\ timeStream \in Int /\ timeStream' \in Int
        /\ speed > 0 => timeStream' >= timeStream
        /\ speed \in Int
    BY <1>2, MuxedFrame DEF TypeOK
  <2>1. CASE muxed' = muxed
    <3> SUFFICES ASSUME IsPacket(muxed) PROVE PlayedInv'
      BY <2>1 DEF PlayedInv, IsPacket
    <3>1. muxed[4] \in Int /\ (speed > 0 => muxed[4] <= timeStream')
      BY <1>2, <2>0 DEF PlayedInv
    <3>2. FromFile(muxed) => \E i \in DOMAIN pathFiles : \E k \in DOMAIN muxed[2].pkts :
            pathFiles[i] = muxed[2] /\ muxed[2].pkts[k] = muxed[3] /\ Passed(i, k)'
      <4> SUFFICES ASSUME FromFile(muxed)
                   PROVE  \E i \in DOMAIN pathFiles : \E k \in DOMAIN muxed[2].pkts :
                            pathFiles[i] = muxed[2] /\ muxed[2].pkts[k] = muxed[3] /\ Passed(i, k)'
        OBVIOUS
      <4>1. PICK i \in DOMAIN pathFiles : \E k \in DOMAIN muxed[2].pkts :
              pathFiles[i] = muxed[2] /\ muxed[2].pkts[k] = muxed[3] /\ Passed(i, k)
        BY <1>2 DEF PlayedInv
      <4>2. PICK k \in DOMAIN muxed[2].pkts :
              pathFiles[i] = muxed[2] /\ muxed[2].pkts[k] = muxed[3] /\ Passed(i, k)
        BY <4>1
      <4>3. i \in Int /\ k \in Int
        BY <1>2, <4>2, RecordingFields DEF TypeOK
      <4>4. Passed(i, k)'
        BY <1>2, <4>2, <4>3, PassedStays
      <4> QED BY <4>2, <4>4
    <3> QED BY <2>0, <2>1, <3>1, <3>2 DEF PlayedInv, FromFile, IsPacket
  <2>2. CASE PlayerPacket
    <3> DEFINE x == offer
    <3>1. /\ muxed' = x /\ IsPacket(x) /\ x[4] = timeStream
          /\ FromFile(x) =>
              /\ count \in DOMAIN pathFiles /\ x[2] = pathFiles[count]
              /\ next - 1 \in DOMAIN x[2].pkts /\ x[3] = x[2].pkts[next - 1]
          /\ wpc' = "poll" /\ UNCHANGED <<count, next, timeStream>>
      BY <1>2, <2>2, PlayerPacketFacts
    <3>2. Passed(count, next - 1)'
      <4>1. count' = count /\ next' = next /\ next \in Nat
        BY <1>2, <3>1 DEF TypeOK
      <4> QED BY <3>1, <4>1 DEF Passed
    <3> HIDE DEF x
    <3> QED BY <2>0, <3>1, <3>2 DEF PlayedInv, FromFile, IsPacket
  <2> QED BY <1>2, <2>1, <2>2, MuxedFrame
<1> QED BY <1>1, <1>2

\* The next packet of the archive lies behind the one played last.
LEMMA ForwardStep ==
  TypeOK /\ PlaceInv /\ OfferInv /\ PlayedInv /\ [Next]_vars => [Forward]_vars
<1> SUFFICES ASSUME TypeOK, PlaceInv, OfferInv, PlayedInv, [Next]_vars PROVE Forward
  OBVIOUS
<1>1. CASE muxed' = muxed
  BY <1>1 DEF Forward, PlayedInv, IsPacket
<1>2. CASE PlayerPacket
  <2> DEFINE x == muxed
             y == offer
  <2>1. /\ muxed' = y /\ y[4] = timeStream
        /\ FromFile(y) =>
             /\ count \in DOMAIN pathFiles /\ y[2] = pathFiles[count]
             /\ next - 1 \in DOMAIN y[2].pkts /\ y[3] = y[2].pkts[next - 1]
        /\ wpc = "packet"
    BY <1>2, PlayerPacketFacts
  <2>2. speed > 0 /\ IsPacket(x) => y[4] >= x[4]
    BY <2>1 DEF PlayedInv, TypeOK
  <2>3. ASSUME IsPacket(x), FromFile(x), FromFile(y) PROVE Later(x, y)
    <3>1. PICK i \in DOMAIN pathFiles : \E k \in DOMAIN x[2].pkts :
            pathFiles[i] = x[2] /\ x[2].pkts[k] = x[3] /\ Passed(i, k)
      BY <2>3 DEF PlayedInv
    <3>2. PICK k \in DOMAIN x[2].pkts :
            pathFiles[i] = x[2] /\ x[2].pkts[k] = x[3] /\ Passed(i, k)
      BY <3>1
    <3>3. i < count \/ (i = count /\ k < next - 1)
      BY <2>1, <2>3, <3>2 DEF Passed
    <3>4. count \in DOMAIN pathFiles /\ y[2] = pathFiles[count] /\ x[2] = pathFiles[i]
      BY <2>1, <2>3, <3>2
    <3>5. x[2].start <= y[2].start
      <4>1. CASE i < count
        BY <3>4, <4>1 DEF OfferInv
      <4>2. CASE i = count
        <5>1. x[2] = y[2] /\ x[2] \in Recording
          BY <3>4, <4>2 DEF TypeOK
        <5>2. x[2].start \in Int
          BY <5>1, RecordingFields
        <5> QED BY <5>1, <5>2
      <4> QED BY <3>3, <4>1, <4>2
    <3>6. \/ i < count
          \/ i = count /\ \E m, l \in DOMAIN x[2].pkts :
                m < l /\ x[2].pkts[m] = x[3] /\ x[2].pkts[l] = y[3]
      <4>1. CASE i = count /\ k < next - 1
        <5>1. next - 1 \in DOMAIN x[2].pkts /\ y[3] = x[2].pkts[next - 1]
          BY <2>1, <2>3, <3>4, <4>1
        <5> QED BY <3>2, <4>1, <5>1
      <4> QED BY <3>3, <4>1
    <3> HIDE DEF x, y
    <3> QED BY <3>4, <3>5, <3>6 DEF Later
  <2> HIDE DEF y
  <2>4. (FromFile(muxed) /\ FromFile(y)) => Later(muxed, y)
    BY <2>3 DEF FromFile
  <2> QED BY <2>1, <2>2, <2>4 DEF Forward, Later, FromFile, IsPacket
<1> QED BY <1>1, <1>2, MuxedFrame

\* What a client gets never goes back, neither in its stream nor in the archive.
THEOREM PlaysInOrder == Spec => InOrder
<1> DEFINE Inv == TypeOK /\ PlaceInv /\ OfferInv /\ PlayedInv
<1>1. Init => Inv
  BY TypeStep, PlaceStep, OfferStep, PlayedStep
<1>2. Inv /\ [Next]_vars => Inv'
  BY TypeStep, PlaceStep, OfferStep, PlayedStep
<1>3. Inv /\ [Next]_vars => [Forward]_vars
  BY ForwardStep
<1> HIDE DEF Inv
<1> QED BY <1>1, <1>2, <1>3, PTL DEF Spec, InOrder

\* A set of integers with 0 in it and a bound has a greatest element.
LEMMA MaxOfBounded ==
  ASSUME NEW S, S \subseteq Int, 0 \in S, NEW b \in Nat, \A x \in S : x <= b
  PROVE  MaxOf(S) \in S /\ \A x \in S : x <= MaxOf(S)
<1> DEFINE U == {u \in Nat : \A x \in S : x <= u}
<1>1. b \in U /\ U \subseteq Nat
  OBVIOUS
<1>2. PICK m \in U : \A u \in U : m <= u
  <2> HIDE DEF U
  <2> QED BY <1>1, LeastNat
<1>3. m \in S
  <2>1. SUFFICES ASSUME m \notin S PROVE FALSE
    OBVIOUS
  <2>2. m \in Nat /\ m # 0 /\ \A x \in S : x <= m
    BY <1>2, <2>1
  <2>3. \A x \in S : x <= m - 1
    BY <2>1, <2>2
  <2>4. m - 1 \in U
    BY <2>2, <2>3
  <2>5. m <= m - 1
    <3> HIDE DEF U
    <3> QED BY <1>2, <2>4
  <2> QED BY <2>2, <2>5
<1>4. \E n \in S : \A x \in S : x <= n
  BY <1>2, <1>3
<1> QED BY <1>4, Zenon DEF MaxOf

\* The times in a file have a bound.
LEMMA TimesBounded ==
  ASSUME NEW f \in Recording
  PROVE  \E b \in Nat : \A i \in 1..Len(f.pkts) : f.pkts[i].t <= b
<1> DEFINE N == Len(f.pkts)
           Bounded(n) == \E b \in Nat : \A i \in 1..n : f.pkts[i].t <= b
           P == {n \in Nat : n <= N => Bounded(n)}
<1>0. N \in Nat /\ \A i \in 1..N : f.pkts[i].t \in Nat
  BY RecordingFields
<1> HIDE DEF N
<1>1. 0 \in P
  <2>1. Bounded(0)
    <3>1. \A i \in 1..0 : f.pkts[i].t <= 0
      OBVIOUS
    <3> QED BY <3>1
  <2> QED BY <2>1
<1>2. ASSUME NEW n \in Nat, n \in P PROVE n + 1 \in P
  <2> SUFFICES ASSUME n + 1 <= N PROVE Bounded(n + 1)
    OBVIOUS
  <2>1. Bounded(n)
    BY <1>0, <1>2
  <2>2. PICK b \in Nat : \A i \in 1..n : f.pkts[i].t <= b
    BY <2>1
  <2> DEFINE t == f.pkts[n + 1].t
             c == IF t <= b THEN b ELSE t
  <2>3. t \in Nat
    BY <1>0
  <2>4. \A i \in 1..n : f.pkts[i].t \in Nat
    BY <1>0
  <2> HIDE DEF t
  <2>5. c \in Nat /\ b <= c /\ t <= c
    BY <2>3
  <2> HIDE DEF c
  <2>6. \A i \in 1..n + 1 : f.pkts[i].t <= c
    <3> TAKE i \in 1..n + 1
    <3>1. CASE i = n + 1
      BY <2>5, <3>1 DEF t
    <3>2. CASE i # n + 1
      <4>1. i \in 1..n
        BY <3>2
      <4> QED BY <2>2, <2>4, <2>5, <4>1
    <3> QED BY <3>1, <3>2
  <2> QED BY <2>5, <2>6
<1> HIDE DEF P
<1>3. \A n \in Nat : n \in P
  BY <1>1, <1>2, Induction
<1>4. Bounded(N)
  <2>1. N \in P
    BY <1>0, <1>3
  <2> HIDE DEF Bounded
  <2> QED BY <1>0, <2>1 DEF P
<1> QED BY <1>4 DEF N

\* TimeIn is a time for every packet and for the beginning of the file.
LEMMA TimeInType ==
  \A f \in Recording : \A i \in 0..Len(f.pkts) : TimeIn(f, i) \in Nat
<1> SUFFICES ASSUME NEW f \in Recording, NEW i \in 0..Len(f.pkts) PROVE TimeIn(f, i) \in Nat
  OBVIOUS
<1>1. i # 0 => i \in 1..Len(f.pkts)
  BY RecordingFields
<1> QED BY <1>1, RecordingFields DEF TimeIn

\* The Lead is at least the Slack, and no wait makes more of it.
LEMMA LeadBounds ==
  ASSUME NEW f \in Recording
  PROVE  /\ Lead(f) \in Int /\ Lead(f) >= Slack
         /\ \A i \in 0..Len(f.pkts) : \A j \in 1..Len(f.pkts) :
              Wait(f, i, j) => TimeIn(f, j) - TimeIn(f, i) + Slack <= Lead(f)
<1> DEFINE N == Len(f.pkts)
           S == Waits(f) \union {0}
<1>1. N \in Nat /\ \A i \in 0..N : TimeIn(f, i) \in Nat
  BY RecordingFields, TimeInType
<1>2. \A x \in Waits(f) : \E i \in 0..N : \E j \in 1..N : x = TimeIn(f, j) - TimeIn(f, i)
  BY DEF Waits
<1>3. \A i \in 0..N : \A j \in 1..N : Wait(f, i, j) => TimeIn(f, j) - TimeIn(f, i) \in S
  <2> SUFFICES ASSUME NEW i \in 0..N, NEW j \in 1..N, Wait(f, i, j)
               PROVE  TimeIn(f, j) - TimeIn(f, i) \in Waits(f)
    OBVIOUS
  <2>1. <<i, j>> \in {q \in (0..N) \X (1..N) : Wait(f, q[1], q[2])}
    OBVIOUS
  <2> QED BY <2>1 DEF Waits
<1>4. PICK b \in Nat : \A i \in 1..N : f.pkts[i].t <= b
  BY TimesBounded
<1> HIDE DEF N
<1>5. S \subseteq Int /\ \A x \in S : x <= b
  <2> SUFFICES ASSUME NEW x \in S PROVE x \in Int /\ x <= b
    OBVIOUS
  <2>1. CASE x = 0
    BY <2>1
  <2>2. CASE x \in Waits(f)
    <3>1. PICK i \in 0..N, j \in 1..N : x = TimeIn(f, j) - TimeIn(f, i)
      BY <1>2, <2>2
    <3>2. TimeIn(f, i) \in Nat /\ TimeIn(f, j) \in Nat
      BY <1>1
    <3>3. TimeIn(f, j) <= b
      BY <1>1, <1>4 DEF TimeIn
    <3> QED BY <3>1, <3>2, <3>3
  <2> QED BY <2>1, <2>2
<1>6. 0 \in S
  OBVIOUS
<1> HIDE DEF S
<1>7. MaxOf(S) \in S /\ \A x \in S : x <= MaxOf(S)
  BY <1>5, <1>6, MaxOfBounded
<1>8. Lead(f) = Slack + MaxOf(S) /\ MaxOf(S) \in Int /\ MaxOf(S) >= 0
  BY <1>5, <1>6, <1>7 DEF Lead, S
<1>9. ASSUME NEW i \in 0..N, NEW j \in 1..N, Wait(f, i, j)
      PROVE  TimeIn(f, j) - TimeIn(f, i) + Slack <= Lead(f)
  <2> DEFINE w == TimeIn(f, j) - TimeIn(f, i)
  <2>1. w \in S
    BY <1>3, <1>9
  <2>2. w \in Int /\ w <= MaxOf(S)
    BY <1>5, <1>7, <2>1
  <2> HIDE DEF w
  <2>3. w + Slack <= Lead(f)
    BY <1>8, <2>2, SlackAssumption
  <2> QED BY <2>3 DEF w
<1> HIDE DEF Lead
<1>10. Lead(f) \in Int /\ Lead(f) >= Slack
  BY <1>8, SlackAssumption
<1> QED BY <1>9, <1>10 DEF N

\* The beginning of the file is an anchor.
LEMMA FileStartAnchors == (next = 1 => Anchored) /\ ((next = 1)' => Anchored')
<1>1. next = 1 => Anchored
  <2> SUFFICES ASSUME next = 1 PROVE Anchor(0) /\ 0 \in 0..next - 1
    BY DEF Anchored
  <2> QED BY DEF Anchor, TimeIn
<1>2. next' = 1 => Anchored'
  <2> SUFFICES ASSUME next' = 1 PROVE Anchor(0)' /\ 0 \in 0..next' - 1
    BY DEF Anchored
  <2> QED BY DEF Anchor, TimeIn
<1> QED BY <1>1, <1>2

\* What is offered of a file that has begun.
LEMMA OwnOfferTimes ==
  ASSUME TypeOK, PlaceInv, TimeInv, Offer, ~Gap
  PROVE  /\ timeStart' - Slack <= Channel.start + Pck.t
         /\ Channel.start + Pck.t <= timeStart' + Lead(Channel)
<1> DEFINE f == Channel
           t == Pck.t
           d == Step(t)
           N == Len(f.pkts)
<1>1. /\ Up /\ ~AtEof /\ ~Stale /\ timeStart' = timeStart + d /\ t \in Nat /\ d \in Nat
  BY OfferFacts
<1>2. f \in Recording /\ f.start \in Int /\ N \in Nat
  BY <1>1, SourceFacts, RecordingFields
<1>3. next \in 1..N /\ t = f.pkts[next].t /\ TimeIn(f, next) = t
  BY <1>1, PckFacts DEF TimeIn
<1>4. timeStart \in Int /\ prev \in Nat /\ Slack \in Nat
  BY SlackAssumption DEF TypeOK
<1>5. f.start <= timeStart + Slack /\ timeStart <= f.start + t + Slack
  <2>1. ~(timeStart + Slack < f.start) /\ ~(timeStart > f.start + t + Slack)
    BY <1>1 DEF Gap, Stale
  <2> HIDE DEF f, t
  <2> QED BY <1>1, <1>2, <1>4, <2>1
<1>6. d = IF prev = 0 \/ t < prev THEN 0 ELSE t - prev
  BY DEF Step
<1>7. /\ prev # 0 => timeStart - Slack <= f.start + prev
      /\ Anchored \/ (prev # 0 /\ f.start + prev <= timeStart + Lead(f))
  BY <1>1 DEF TimeInv, Followed
<1>8. Lead(f) \in Int
  BY <1>2, LeadBounds
<1>9. ASSUME Anchored PROVE f.start + t <= timeStart + Lead(f)
  <2>1. PICK i \in 0..next - 1 : Anchor(i)
    BY <1>9 DEF Anchored
  <2>2. i \in 0..N /\ i < next
    BY <1>2, <1>3
  <2>3. TimeIn(f, i) \in Nat
    BY <1>2, <2>2, TimeInType
  <2>4. f.start + TimeIn(f, i) <= timeStart + Slack
    <3>1. TimeIn(f, i) = 0 \/ f.start + TimeIn(f, i) <= timeStart + Slack
      BY <2>1 DEF Anchor
    <3> HIDE DEF f
    <3> QED BY <1>2, <1>4, <1>5, <3>1
  <2>5. Wait(f, i, next)
    BY <2>1, <2>2 DEF Anchor, Wait
  <2>6. TimeIn(f, next) - TimeIn(f, i) + Slack <= Lead(f)
    BY <1>2, <1>3, <2>2, <2>5, LeadBounds
  <2>7. t - TimeIn(f, i) + Slack <= Lead(f)
    BY <1>3, <2>6
  <2> HIDE DEF f, t
  <2> QED BY <1>1, <1>2, <1>4, <1>8, <2>3, <2>4, <2>7
<1> HIDE DEF f, t, d, N
<1>10. timeStart' - Slack <= f.start + t
  BY <1>1, <1>2, <1>4, <1>5, <1>6, <1>7
<1>11. f.start + t <= timeStart' + Lead(f)
  <2>1. CASE Anchored
    BY <1>1, <1>2, <1>4, <1>8, <1>9, <2>1
  <2>2. CASE prev # 0 /\ f.start + prev <= timeStart + Lead(f)
    BY <1>1, <1>2, <1>4, <1>6, <1>8, <2>2
  <2> QED BY <1>7, <2>1, <2>2
<1> QED BY <1>10, <1>11 DEF f, t

\* What is offered stays near the archive time, and the next can.
LEMMA TimeStep ==
  /\ Init => TimeInv
  /\ TypeOK /\ PlaceInv /\ TimeInv /\ [Next]_vars => TimeInv'
<1>1. ASSUME Init PROVE TimeInv
  <2>1. wpc = "codecs" /\ prev = 0 /\ next = 1
    BY <1>1, Zenon DEF Init
  <2> QED BY <2>1, FileStartAnchors DEF TimeInv, NearArchiveTime
<1>2. ASSUME TypeOK, PlaceInv, TimeInv, [Next]_vars PROVE TimeInv'
  <2>1. ASSUME UNCHANGED <<wpc, offer, timeStart>> \/ wpc' # "packet" PROVE NearArchiveTime'
    BY <1>2, <2>1 DEF TimeInv, NearArchiveTime, FromFile, IsPacket
  <2>2. CASE /\ UNCHANGED <<pathFiles, count, next, prev, timeStart>>
             /\ Up' => Up
             /\ UNCHANGED <<wpc, offer>> \/ wpc' # "packet"
    <3>1. Up' => (Channel' = Channel /\ (Anchored => Anchored') /\ (Followed => Followed'))
      BY <2>2 DEF Channel, Anchored, Anchor, Followed
    <3> QED BY <1>2, <2>1, <2>2, <3>1 DEF TimeInv
  <2>3. CASE FillerAgain
    <3>1. Gap /\ Up /\ wpc = "poll" /\ wpc' = wpc /\ prev' = 0 /\ next' = next
      BY <2>3 DEF FillerAgain, Reading, Polling
    <3>2. next' = 1
      BY <1>2, <3>1 DEF PlaceInv
    <3> QED BY <2>1, <3>1, <3>2, FileStartAnchors DEF TimeInv
  <2>4. CASE NextFile
    <3>1. wpc = "poll" /\ wpc' = wpc /\ prev' = 0 /\ (Up' => next' = 1)
      BY <2>4 DEF NextFile, Reading, Polling, Up
    <3> QED BY <2>1, <3>1, FileStartAnchors DEF TimeInv
  <2>5. CASE Skip
    <3>1. /\ Up /\ ~AtEof /\ wpc = "poll" /\ ReadOn /\ (Stale \/ ~Pck.key)
          /\ UNCHANGED <<pathFiles, fate, wpc, count, prev, timeStart>>
      BY <2>5 DEF Skip, Reading, Polling, request
    <3>2. Channel' = Channel
      BY <3>1 DEF Channel
    <3>3. Followed => Followed'
      BY <3>1, <3>2 DEF Followed
    <3>4. CASE Gap
      <4>1. next' = 1
        BY <1>2, <3>1, <3>4 DEF ReadOn, PlaceInv
      <4> QED BY <1>2, <2>1, <3>1, <3>2, <4>1, FileStartAnchors DEF TimeInv
    <3>5. CASE ~Gap
      <4> DEFINE f == Channel
      <4>1. /\ next' = next + 1 /\ next \in Nat \ {0} /\ Pck = f.pkts[next]
            /\ f \in Recording /\ f.start \in Int /\ Pck.t \in Nat
        BY <1>2, <3>1, <3>5, SourceFacts, RecordingFields, PckFacts DEF ReadOn, TypeOK
      <4>2. CASE Stale
        <5>1. TimeIn(f, next) = Pck.t
          BY <4>1 DEF TimeIn
        <5>2. f.start + Pck.t <= timeStart + Slack
          <6>1. timeStart > f.start + Pck.t + Slack
            BY <4>2 DEF Stale
          <6>2. timeStart \in Int /\ Slack \in Nat
            BY <1>2, SlackAssumption DEF TypeOK
          <6> HIDE DEF f
          <6> QED BY <4>1, <6>1, <6>2
        <5>3. next \in 0..next' - 1 /\ \A k \in next + 1..next' - 1 : FALSE
          BY <4>1
        <5>4. timeStart' = timeStart /\ Channel' = f
          BY <3>1, <3>2
        <5>5. (TimeIn(Channel', next) = 0 \/ Channel'.start + TimeIn(Channel', next) <= timeStart' + Slack)
          BY <5>1, <5>2, <5>4
        <5>6. Anchored'
          BY <5>3, <5>5 DEF Anchored, Anchor
        <5> QED BY <1>2, <2>1, <3>1, <3>2, <5>6 DEF TimeInv
      <4>3. CASE ~Pck.key
        <5>1. ASSUME Anchored PROVE Anchored'
          <6>1. PICK i \in 0..next - 1 : Anchor(i)
            BY <5>1 DEF Anchored
          <6>2. i \in 0..next' - 1 /\ \A k \in i + 1..next' - 1 : k = next \/ k \in i + 1..next - 1
            BY <4>1
          <6>3. \A k \in i + 1..next' - 1 : ~f.pkts[k].key
            BY <4>1, <4>3, <6>1, <6>2 DEF Anchor
          <6>4. TimeIn(f, i) = 0 \/ f.start + TimeIn(f, i) <= timeStart + Slack
            BY <6>1 DEF Anchor
          <6> QED BY <3>1, <3>2, <6>2, <6>3, <6>4 DEF Anchored, Anchor
        <5> QED BY <1>2, <2>1, <3>1, <3>2, <3>3, <5>1 DEF TimeInv
      <4> QED BY <3>1, <4>2, <4>3
    <3> QED BY <3>4, <3>5
  <2>6. CASE Offer
    <3> DEFINE f == Channel
               t == Pck.t
    <3>1. /\ Up /\ wpc' = "packet" /\ ~AtEof /\ ReadOn /\ UNCHANGED <<pathFiles, fate, count>>
          /\ offer'[2] = Source /\ offer'[3] = Pck /\ offer'[1] = "packet"
          /\ prev' = t /\ t \in Nat /\ timeStart' = timeStart + Step(t)
          /\ Gap => ~FromFile(offer')
      BY <1>2, <2>6, OfferFacts DEF request
    <3>2. Channel' = f /\ f \in Recording /\ f.start \in Int
      BY <1>2, <3>1, SourceFacts, RecordingFields DEF Channel
    <3>3. timeStart \in Int /\ prev \in Nat /\ Slack \in Nat
      BY <1>2, SlackAssumption DEF TypeOK
    <3>4. CASE Gap
      <4>1. next' = 1
        BY <1>2, <3>1, <3>4 DEF ReadOn, PlaceInv
      <4>2. NearArchiveTime'
        BY <3>1, <3>4 DEF NearArchiveTime, FromFile, IsPacket
      <4>3. timeStart' - Slack <= f.start + t
        <5>1. timeStart + Slack < f.start
          BY <3>4 DEF Gap
        <5>2. Step(t) = IF prev = 0 \/ t < prev THEN 0 ELSE t - prev
          BY DEF Step
        <5> HIDE DEF f, t
        <5> QED BY <3>1, <3>2, <3>3, <5>1, <5>2
      <4> QED BY <3>1, <3>2, <4>1, <4>2, <4>3, FileStartAnchors DEF TimeInv
    <3>5. CASE ~Gap
      <4>1. timeStart' - Slack <= f.start + t /\ f.start + t <= timeStart' + Lead(f)
        BY <1>2, <2>6, <3>5, OwnOfferTimes
      <4>2. /\ next' = next + 1 /\ next \in Nat \ {0} /\ Pck = f.pkts[next] /\ Source = f
        BY <1>2, <3>1, <3>5, SourceFacts, PckFacts DEF ReadOn, TypeOK
      <4>3. NearArchiveTime'
        <5>1. offer'[2] = f /\ offer'[3].t = t
          BY <3>1, <4>2
        <5> HIDE DEF f, t
        <5> QED BY <4>1, <5>1 DEF NearArchiveTime
      <4>4. CASE t = 0
        <5>1. TimeIn(Channel', next) = 0
          BY <3>2, <4>2, <4>4 DEF TimeIn
        <5>2. next \in 0..next' - 1 /\ \A k \in next + 1..next' - 1 : FALSE
          BY <4>2
        <5>3. Anchored'
          BY <5>1, <5>2 DEF Anchored, Anchor
        <5> QED BY <3>1, <4>3, <4>4, <5>3 DEF TimeInv
      <4>5. CASE t # 0
        <5>1. Followed'
          BY <3>1, <3>2, <4>1, <4>5 DEF Followed
        <5> QED BY <3>1, <3>2, <4>1, <4>3, <5>1 DEF TimeInv
      <4> QED BY <4>4, <4>5
    <3> QED BY <3>4, <3>5
  <2>7. WorkerStatus \/ WorkerCodecs \/ Stops \/ PlayerCodecs \/ PlayerPacket
        => /\ UNCHANGED <<pathFiles, count, next, prev, timeStart>>
           /\ Up' => Up
           /\ UNCHANGED <<wpc, offer>> \/ wpc' # "packet"
    BY DEF WorkerStatus, WorkerCodecs,
           Stops, NoStreams, OpenFails, DivideByZero, PlayerCodecs, PlayerPacket, Polling,
           request, workerVars, Up
  <2>8. Others \/ UNCHANGED vars
        => UNCHANGED <<pathFiles, count, next, prev, timeStart, wpc, offer>> /\ (Up' => Up)
    BY OthersFrame DEF vars, request, workerVars, Up
  <2> QED BY <1>2, <2>2, <2>3, <2>4, <2>5, <2>6, <2>7, <2>8, NextCases
<1> QED BY <1>1, <1>2

\* What is played of the archive stays near the archive time.
THEOREM PlaysNearArchiveTime == Spec => []NearArchiveTime
<1> DEFINE Inv == TypeOK /\ PlaceInv /\ TimeInv
<1>1. Init => Inv
  BY TypeStep, PlaceStep, TimeStep
<1>2. Inv /\ [Next]_vars => Inv'
  BY TypeStep, PlaceStep, TimeStep
<1>3. Inv => NearArchiveTime
  BY DEF TimeInv
<1> HIDE DEF Inv
<1> QED BY <1>1, <1>2, <1>3, PTL DEF Spec
=============================================================================
